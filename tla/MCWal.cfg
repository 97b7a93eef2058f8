SPECIFICATION FairSpec
CONSTANTS
  t1 = t1  t2 = t2  t3 = t3
  Txn = {t1, t2, t3}
  MaxTransactions = 3
  Torn = {"cut"}
  SnapshotMissing = FALSE
  NoFile = NoFile
  NoRec = NoRec
INVARIANTS TypeOK NoFalseClean SettledStartsClean 
PROPERTIES LogRefinement 
CHECK_DEADLOCK FALSE

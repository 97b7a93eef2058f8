SPECIFICATION Spec
CONSTANTS
  i1 = i1  i2 = i2  m1 = m1  m2 = m2  m3 = m3  v1 = v1  v2 = v2  r1 = r1  r2 = r2
  j1 = j1  k1 = k1  k2 = k2  p1 = p1  p2 = p2
  NoData = NoData
  TaxRate = 1800
  Commands <- OneSale
  Corrections = {}
  Decisions = {}
  RejectedEvents = {"inventory.stock_moved.v1"}
  Faults = {}
  MaxTxns = 7
  MaxFaults = 0
INVARIANT FaultFreeStaysHealthy
CHECK_DEADLOCK FALSE

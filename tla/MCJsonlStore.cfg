SPECIFICATION Spec
CONSTANTS
  p1 = p1  p2 = p2
  a = a  b = b  both = both  brace = brace  huge = huge
  Procs = {p1, p2}
  Tools = {p2}
  Keys = {a, b, both, brace, huge}
  Offers <- TwoOffers
  Unverifiable = {brace}
  Oversized = {huge}
  Torn = {"cut"}
  MaxLines = 3
  NoKey = NoKey
INVARIANTS TypeOK UniqueKeys  NoSilentLoss DamageHasACause
PROPERTY AppendOnly
CHECK_DEADLOCK FALSE

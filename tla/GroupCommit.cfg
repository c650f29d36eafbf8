SPECIFICATION FairSpec
CONSTANTS
  Conns = {c1, c2, c3}
  k1 = k1
  k2 = k2
  Keys = {k1, k2}
  Values = {0, 1}
  Members = {m1, m2}
  Puts <- MCPuts
  SetKeys = {k1}
  MaxArgs = 2
  None = None
  BATCH_MAX = 2
  CHAN_CAP = 2
  MayPanic = TRUE
INVARIANTS
  OnePlace
PROPERTIES
  
  SetsReturn

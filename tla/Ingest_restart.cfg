SPECIFICATION Spec
CONSTANTS
  Keys = {k}
  Values = {v}
  Members = {m}
  Limit = 2
  MayRestartEmpty = TRUE
  MaxOps = 2
  MaxCrashes = 1
  MaxFails = 0
INVARIANTS
  NothingLost

SPECIFICATION FairSpec
CONSTANTS
  Keys = {k}
  Values = {v}
  Members = {m, n}
  Limit = 2
  MayRestartEmpty = FALSE
  MaxOps = 3
  MaxCrashes = 2
  MaxFails = 1
INVARIANTS
  NothingLost
  AppliedInOrder
  ReplayConverges
PROPERTIES
  AtLeastOnce

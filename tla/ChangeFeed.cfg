SPECIFICATION FairSpec
CONSTANTS
  Groups = {g1, g2}
  Limit = 2
  MayEmpty = FALSE
  MaxEvents = 3
  MaxCrashes = 2
  MaxFails = 1
INVARIANTS
  NumbersIncrease
  NothingSkipped
PROPERTIES
  EveryGroupServed

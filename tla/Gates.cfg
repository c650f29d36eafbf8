SPECIFICATION FairSpec
CONSTANTS
  Buckets = {b1, b2}
  Ops = {o1, o2}
  NoBucket = NoBucket
  MayCancel = TRUE
INVARIANTS
  DrainedIsExclusive
  NoLostWakeup
PROPERTIES
  ImplementsContract
  DrainCompletes
  WaitersResume

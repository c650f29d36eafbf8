SPECIFICATION Spec
CONSTANTS
  n1 = n1
  n2 = n2
  n3 = n3
  k1 = k1
  k2 = k2
  Nodes <- MCNodes
  Keys <- MCKeys
  Buckets <- MCBuckets
  bucket_of <- MCbucket_of
  Score <- MCScore
  Rack <- MCRack
  InitialMembers <- TwoNodes
  Targets <- GrowOrReplace
  Ops = {o1, o2}
  NoBucket = NoBucket
  Migrators = {m1}
  Absent = Absent
  None = None
  Values = {0}
  Kinds = {"get", "put", "delete"}
  ReplTarget = 1
  Chunk = 1
  MaxMigrations = 2
  MaxDead = 0
  MaxFaults = 0
  SerialWrites = TRUE
  MayCancel = TRUE
  MayAbandon = FALSE
  MayStop = TRUE
  MayNameUnknown = FALSE
  MayForget = FALSE
INVARIANTS
  OwnersHoldData
  ReadsAreRegular
  RouteIsStable
  NoOrphans
PROPERTIES
  CutoverCopied

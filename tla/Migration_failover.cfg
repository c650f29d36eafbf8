SPECIFICATION Spec
CONSTANTS
  n1 = n1
  n2 = n2
  n3 = n3
  k1 = k1
  k2 = k2
  Nodes <- MCNodes
  Keys <- MCKeys
  Buckets <- MCBuckets
  bucket_of <- MCbucket_of
  Score <- MCScore
  Rack <- MCRack
  InitialMembers <- MCNodes
  Targets <- Stay
  Ops = {o1, o2}
  NoBucket = NoBucket
  Migrators = {m1}
  Absent = Absent
  None = None
  Values = {0, 1}
  Kinds = {"get", "put", "delete", "cas", "incr"}
  ReplTarget = 2
  Chunk = 1
  MaxMigrations = 0
  MaxDead = 1
  MaxFaults = 0
  SerialWrites = TRUE
  MayCancel = FALSE
  MayAbandon = FALSE
  MayStop = FALSE
  MayNameUnknown = FALSE
  MayForget = FALSE
INVARIANTS
  OwnersHoldData
  ReadsAreRegular

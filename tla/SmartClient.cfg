SPECIFICATION FairSpec
CONSTANTS
  n1 = n1
  n2 = n2
  n3 = n3
  Nodes <- MCNodes
  Keys = {1, 2}
  Buckets <- MCBuckets
  bucket_of <- MCbucket_of
  Score <- MCScore
  Rack <- MCRack
  Absent = Absent
  Values = {0}
  Readers = {r1}
  Writers = {w1}
  WriteKinds = {"put", "delete", "incr"}
  Scanners = {s1}
  ScanKinds = {"cluster", "client", "partitions", "resp"}
  Refreshers = {f1}
  InitialMembers <- MCNodes
  Targets <- Drain
  ReplTarget = 2
  Limit = 1
  Zero = 0
  Cap = 1
  CHUNK = 1
  MaxCalls = 2
  MaxMigrations = 1
  MaxTroubles = 1
  MaxAstray = 1
  MayPollCommit = FALSE
  MayReset = FALSE
INVARIANTS
  
  DirectReadsAreRegular
  OwnersAgree
  ScansAreExact

  

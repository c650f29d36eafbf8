SPECIFICATION FairSpec
CONSTANTS
  Keys = {1, 2}
  Values = {v1, v2}
  None = None
  SYNC_EVERY = 2
  TTLs = {1}
  MaxNow = 2
  MaxCalls = 3
  MaxCrashes = 2
INVARIANTS
  FlagCoversExpiry
  TtlHonoured
  
  
PROPERTIES
  ExpiredReclaimed

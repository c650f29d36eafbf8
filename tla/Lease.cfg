SPECIFICATION FairSpec
CONSTANTS
  Coordinators = {c1, c2}
  Shards = {s1}
  Arbiter = s1
  TTL = 2
  Nobody = Nobody
  MayMoveLease = FALSE
  MaxCrashes = 1
  MaxTerms = 4
INVARIANTS
  FencingUnique
  TermsDiffer
  SingleDriver
PROPERTIES
  LeaderElected

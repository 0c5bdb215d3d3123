CONSTANTS
  Run = {r1, r2}
  Name = {"p", "q", "m"}
  Version = {1, 2}
  Builds <- MCBuilds
  Checkouts <- MCCheckouts
  MaxStops = 1
SPECIFICATION FairSpec
INVARIANTS
  TypeOK
  HashesGenuine
  OwnLockKept
PROPERTIES
  SuccessInstalls
  RunsEnd

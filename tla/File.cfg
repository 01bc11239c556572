SPECIFICATION MCSpec
CONSTANTS
  Branches = {main, side}
  Main = main
  Names = {n1}
  Readers = {r1}
  Streams = {t1}
  KeepAtLeast = 1
  MaxCommits = 4
  MaxMetadata = 3
  MaxCollections = 2
  MaxCrashes = 2
  MaxSyncFaults = 1
  MaxWriteFaults = 1
  Garbling = FALSE
CHECK_DEADLOCK FALSE
INVARIANTS   GenerationsHeld
 

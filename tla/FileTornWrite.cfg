SPECIFICATION Spec
CONSTANTS
  Branches = {main}
  Main = main
  Names = {}
  Readers = {}
  Streams = {}
  KeepAtLeast = 1
  MaxCommits = 3
  MaxMetadata = 3
  MaxCollections = 0
  MaxCrashes = 1
  MaxSyncFaults = 0
  MaxWriteFaults = 1
  Garbling = FALSE
CHECK_DEADLOCK FALSE
INVARIANT NoAckedLost

SPECIFICATION FairSpec
CONSTANTS
  Branches = {main, side}
  Main = main
  Names = {}
  Readers = {r1}
  Streams = {}
  KeepAtLeast = 1
  MaxCommits = 2
  MaxMetadata = 3
  MaxCollections = 1
  MaxCrashes = 1
  MaxSyncFaults = 1
  MaxWriteFaults = 1
  Garbling = FALSE
CHECK_DEADLOCK FALSE
PROPERTY SnapshotsProceed

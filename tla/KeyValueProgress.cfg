SPECIFICATION FairSpec
CONSTANTS
  Branches = {main, side}
  Main = main
  Names = {}
  Readers = {}
  Streams = {}
  KeepAtLeast = 1
  MaxCommits = 3
  MaxAborts = 1
  MaxFaults = 1
CHECK_DEADLOCK FALSE
PROPERTY WaitsEnd

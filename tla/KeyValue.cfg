SPECIFICATION MCSpec
CONSTANTS
  Branches = {main, side}
  Main = main
  Names = {n1}
  Readers = {r1}
  Streams = {t1}
  KeepAtLeast = 1
  MaxCommits = 4
  MaxAborts = 1
  MaxFaults = 1
CHECK_DEADLOCK FALSE
INVARIANTS StoreWhole HistoryKept
PROPERTIES PinnedStay  DeliveredInOrder

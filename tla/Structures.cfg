SPECIFICATION MCSpec
CONSTANTS
  MaxEntries = 4
  Initial <- MCInitial
  Batches <- MCBatches
  Ranges <- MCRanges
  MaxUpdates = 4
CHECK_DEADLOCK FALSE
INVARIANTS  EnginesAgree SpillUnnoticed
PROPERTIES IsMap CachesAccounted KeepsMemoryPromise

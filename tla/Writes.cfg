SPECIFICATION MCSpec
CONSTANTS
  Tables <- MCTables
  Keys = {1}
  Catalogs <- MCCatalogs
  Snapshots <- MCSnapshots
  Values <- MCValues
  Patches <- MCPatches
  Calls = {c1, c2}
  MaxMutations = 3
  MaxScopes = 2
  Absent = Absent
  Unset = Unset
  NoKey = NoKey
SYMMETRY Symmetry
CHECK_DEADLOCK FALSE
INVARIANTS ReadsOwnWrites WritesSound StepIsItsCalls HistoryDerived
PROPERTIES  OneHistory

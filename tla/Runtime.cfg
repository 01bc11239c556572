SPECIFICATION Spec
ACTION_CONSTRAINT StaysFew
CONSTANTS
  Commands = {c1, c2}
  Subs = {s1, s2}
  MaxCommits = 3
  MaxForeign = 1
  MaxFaults = 1
  MayClose = TRUE
  MaxActors = 3
SYMMETRY Symmetry
CHECK_DEADLOCK FALSE
INVARIANTS CommandsSound EachCommitOnce 
PROPERTIES SilentAfterDispose ImplementsLiveQueries

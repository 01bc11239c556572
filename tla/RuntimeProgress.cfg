SPECIFICATION FairSpec
CONSTANTS
  Commands = {c1, c2}
  Subs = {s1}
  MaxCommits = 2
  MaxForeign = 0
  MaxFaults = 1
  MayClose = TRUE
CHECK_DEADLOCK FALSE
PROPERTIES CommandsFinish LiveQueriesCatchUp CloseFinishes

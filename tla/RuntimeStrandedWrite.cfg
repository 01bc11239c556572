SPECIFICATION FairSpec
CONSTANTS
  Commands = {c1}
  Subs = {s1}
  MaxCommits = 2
  MaxForeign = 1
  MaxFaults = 1
  MayClose = TRUE
CHECK_DEADLOCK FALSE
PROPERTIES PublishedWriteReturns

SPECIFICATION MCSpec
CONSTANTS
  Branches = {main, fork}
  Main = main
  Writers = {w1, w2}
  Streams = {s1}
  Retentions = {r1}
  MaxCommits = 3
  None = None
  move = move
  add = add
  ask = ask
  c1 = c1
  c2 = c2
  c3 = c3
CHECK_DEADLOCK FALSE
INVARIANT StreamsSound
PROPERTIES NoLostUpdate ShownIsCurrent  

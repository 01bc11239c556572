--------------------------- MODULE MCKeyValueStorage ---------------------------
(* An instance of KeyValueStorage for TLC.  Readers, streams, branches,     *)
(* names and lost page ids meet the collector and the writers, not each     *)
(* other: a behaviour has one of the five.                                  *)
EXTENDS KeyValueStorage, TLC

VARIABLE uses  \* bound: what this behaviour has beside writers and the collector

OnlyUses ==
  /\ uses # "readers" => \A r \in Readers : readers[r] = NoReader
  /\ uses # "streams" => \A t \in Streams : streams[t] = NoStream
  /\ uses # "branches" => \A b \in Branches \ {Main} : job.branches[b] = NoBranch
  /\ uses # "names" => \A n \in Names : job.retains[n] = 0
  /\ uses # "aborts" => aborts = 0

MCInit == Init /\ uses \in {"readers", "streams", "branches", "names", "aborts"}
MCNext == UNCHANGED uses /\ Next /\ OnlyUses'
MCSpec == MCInit /\ [][MCNext]_<<vars, uses>>
=============================================================================

--------------------------- MODULE MemorySpillStore ---------------------------
(***************************************************************************)
(* What a spill store promises, as its adapter in memory keeps it          *)
(* (spill.ts): sessions that open, write runs within a budget all sessions *)
(* share, remove runs, and give everything back when they close.           *)
(***************************************************************************)
EXTENDS Integers, FiniteSets, FiniteSetsExt

CONSTANTS
  Sessions,  \* sessions that may be created
  RunIds,    \* ids of runs
  RunBytes,  \* bytes a run may have
  MaxBytes   \* the budget

VARIABLES open, stored, shut

vars == <<open, stored, shut>>

Bytes(runs) == MapThenSumSet(LAMBDA r : r.bytes, runs)

Init == open = {} /\ stored = {} /\ shut = FALSE

CreateSession(s) ==
  /\ ~shut /\ s \notin open
  /\ open' = open \union {s}
  /\ UNCHANGED <<stored, shut>>

WriteRun(s, id, bytes) ==
  /\ s \in open
  /\ bytes <= MaxBytes - Bytes(stored)
  /\ \A r \in stored : r.session # s \/ r.id # id
  /\ stored' = stored \union {[session |-> s, id |-> id, bytes |-> bytes]}
  /\ UNCHANGED <<open, shut>>

RemoveRun(r) ==
  /\ r.session \in open
  /\ stored' = stored \ {r}
  /\ UNCHANGED <<open, shut>>

OfSessions(closing) == {r \in stored : r.session \in closing}

CloseSession(s) ==
  /\ s \in open
  /\ open' = open \ {s}
  /\ stored' = stored \ OfSessions({s})
  /\ UNCHANGED shut

CloseStore ==
  /\ ~shut
  /\ shut' = TRUE
  /\ open' = {}
  /\ stored' = stored \ OfSessions(open)

Next ==
  \/ \E s \in Sessions :
       \/ CreateSession(s) \/ CloseSession(s)
       \/ \E id \in RunIds, bytes \in RunBytes : WriteRun(s, id, bytes)
  \/ \E r \in stored : RemoveRun(r)
  \/ CloseStore
Spec == Init /\ [][Next]_vars
=============================================================================

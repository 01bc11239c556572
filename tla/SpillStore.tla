------------------------------ MODULE SpillStore ------------------------------
(***************************************************************************)
(* The spill store over files (spill-store.ts): the bytes of a run are     *)
(* taken from the budget before the run is written to a temporary file,    *)
(* which is synced and renamed; files are removed after their bytes were   *)
(* given back.  An owner closes a session when its writes have ended       *)
(* (subscription.ts:569), and the store is closed when no session is being *)
(* opened or written to.                                                   *)
(***************************************************************************)
EXTENDS Integers, FiniteSets, FiniteSetsExt

CONSTANTS
  Sessions,  \* sessions that may be created
  RunIds,    \* bound: runs of a session
  RunBytes,  \* framed bytes of a run
  MaxBytes   \* the budget

VARIABLES
  phase,  \* of each session: none, opening, open, closing, gone
  runs,   \* runs on disk: writing, renamed, stored, or being removed
  used,   \* usedBytes
  shut    \* the store is closed

vars == <<phase, runs, used, shut>>

Bytes(of) == MapThenSumSet(LAMBDA r : r.bytes, of)
In(phases) == {r \in runs : r.phase \in phases}
Move(r, to) == (runs \ {r}) \union {[r EXCEPT !.phase = to]}
Writing(s) == \E r \in In({"writing", "renamed", "failed"}) : r.session = s

Init ==
  /\ phase = [s \in Sessions |-> "none"]
  /\ runs = {} /\ used = 0 /\ shut = FALSE

\* createSession: it waits for its directory.
CreateSession(s) ==
  /\ ~shut /\ phase[s] = "none"
  /\ phase' = [phase EXCEPT ![s] = "opening"]
  /\ UNCHANGED <<runs, used, shut>>

SessionOpens(s) ==
  /\ phase[s] = "opening"
  /\ phase' = [phase EXCEPT ![s] = "open"]
  /\ UNCHANGED <<runs, used, shut>>

\* writeRun, up to its first wait; without room it throws and changes nothing.
WriteRun(s, id, bytes) ==
  /\ phase[s] = "open"
  /\ bytes <= MaxBytes - used
  /\ \A r \in runs : r.session # s \/ r.id # id
  /\ used' = used + bytes
  /\ runs' = runs \union {[session |-> s, id |-> id, bytes |-> bytes, phase |-> "writing"]}
  /\ UNCHANGED <<phase, shut>>

\* The file is written, synced and renamed.
Rename(r) ==
  /\ r.phase = "writing"
  /\ runs' = Move(r, "renamed")
  /\ UNCHANGED <<phase, used, shut>>

\* Mutant: a write that fails keeps its bytes.
FailureKeepsBytes(r) ==
  /\ r.phase = "writing"
  /\ runs' = Move(r, "failed")
  /\ UNCHANGED <<phase, used, shut>>

\* The file cannot be written: its bytes are given back, then it is removed.
WriteFails(r) ==
  /\ r.phase = "writing"
  /\ used' = used - r.bytes
  /\ runs' = Move(r, "failed")
  /\ UNCHANGED <<phase, shut>>

PartialRemoved(r) ==
  /\ r.phase = "failed"
  /\ runs' = runs \ {r}
  /\ UNCHANGED <<phase, used, shut>>

\* writeRun after its last wait.
Register(r) ==
  /\ r.phase = "renamed"
  /\ runs' = Move(r, "stored")
  /\ UNCHANGED <<phase, used, shut>>

RemoveRun(r) ==
  /\ phase[r.session] = "open" /\ r.phase = "stored"
  /\ used' = used - r.bytes
  /\ runs' = Move(r, "removing")
  /\ UNCHANGED <<phase, shut>>

FileRemoved(r) ==
  /\ r.phase = "removing"
  /\ runs' = runs \ {r}
  /\ UNCHANGED <<phase, used, shut>>

\* close of sessions, up to the removal of their directories.
Closing(closing) ==
  LET theirs == {r \in In({"stored"}) : r.session \in closing}
  IN /\ phase' = [s \in Sessions |-> IF s \in closing THEN "closing" ELSE phase[s]]
     /\ used' = used - Bytes(theirs)
     /\ runs' = (runs \ theirs) \union {[r EXCEPT !.phase = "removing"] : r \in theirs}

CloseSession(s) ==
  /\ phase[s] = "open" /\ ~Writing(s)
  /\ Closing({s})
  /\ UNCHANGED shut

DirectoryRemoved(s) ==
  /\ phase[s] = "closing"
  /\ phase' = [phase EXCEPT ![s] = "gone"]
  /\ runs' = {r \in runs : r.session # s}
  /\ UNCHANGED <<used, shut>>

CloseStore ==
  /\ ~shut /\ \A s \in Sessions : phase[s] # "opening" /\ ~Writing(s)
  /\ shut' = TRUE
  /\ Closing({s \in Sessions : phase[s] = "open"})

Next ==
  \/ \E s \in Sessions :
       \/ CreateSession(s) \/ SessionOpens(s) \/ CloseSession(s) \/ DirectoryRemoved(s)
       \/ \E id \in RunIds, bytes \in RunBytes : WriteRun(s, id, bytes)
  \/ \E r \in runs :
       \/ Rename(r) \/ WriteFails(r) \/ PartialRemoved(r) \/ Register(r)
       \/ RemoveRun(r) \/ FileRemoved(r)
  \/ CloseStore
Spec == Init /\ [][Next]_vars

-----------------------------------------------------------------------------
\* However many sessions write at once, the files that are written or kept fit the
\* budget; only files on their way out may be there beside them (writeRun).
WithinBudget == Bytes(In({"writing", "renamed", "stored"})) <= MaxBytes

\* When the last session has closed nothing is counted and nothing is left on disk,
\* whatever failed or was removed before (writeRun, removeRun, close).
NothingLeft ==
  (\A s \in Sessions : phase[s] \in {"none", "gone"}) => used = 0 /\ runs = {}

\* The store over files keeps the promise of the one in memory: a run is there from
\* the moment writeRun returns it until it is removed or its session closes.
Memory == INSTANCE MemorySpillStore WITH
  open <- {s \in Sessions : phase[s] = "open"},
  stored <- {[session |-> r.session, id |-> r.id, bytes |-> r.bytes] : r \in In({"stored"})}
KeepsMemoryPromise == Memory!Spec
=============================================================================

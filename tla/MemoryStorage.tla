---------------------------- MODULE MemoryStorage ----------------------------
(***************************************************************************)
(* The storage of memoryDatabase (storage.ts, MemoryStorage): branches,    *)
(* conditional commits, change streams and retentions.  What a commit does *)
(* to the rows is in StorageEngines.  A stream is an async generator: its  *)
(* body runs when its consumer asks, and stops to be woken.                *)
(***************************************************************************)
EXTENDS Integers, Sequences

CONSTANTS
  Branches, Main,  \* branch names, and the first of them
  Writers,         \* callers that read a branch and then commit to it
  Streams,         \* streams of changes
  Retentions,      \* names of retentions
  MaxCommits,      \* bound: commits
  None

BranchState == [head : Nat, sequence : Nat]
ReaderState == [branch : Branches, seen : BranchState]

ASSUME MemoryAssumption ==
  /\ Main \in Branches /\ MaxCommits \in Nat
  /\ None \notin Nat /\ None \notin BranchState /\ None \notin ReaderState

VARIABLES
  commits,   \* parent of each commit; commit 0 is genesis
  branches,  \* head and sequence of each branch, or None
  history,   \* commits of each branch in the order they were published
  streams,   \* the subscribers
  retains,   \* commit of each retention, or None
  readers,   \* what each writer read: a branch and its sequence or head, or None
  closed

vars == <<commits, branches, history, streams, retains, readers, closed>>

Genesis == 0
CommitIds == {Genesis} \cup 1..Len(commits)
Exists(branch) == branches[branch] # None

\* A stream nobody has asked anything of yet.
Fresh == [at |-> "fresh", branch |-> Main, taken |-> 0, after |-> 0, queue |-> <<>>, aborted |-> FALSE]

\* The promise a stream awaits is resolved.
Woken(stream) == IF stream.at = "waiting" THEN [stream EXCEPT !.at = "running"] ELSE stream

-----------------------------------------------------------------------------
(* Branches, commits and retentions. *)

CreateBranch(name, from) ==
  /\ ~closed /\ ~Exists(name) /\ from \in CommitIds
  /\ branches' = [branches EXCEPT ![name] = [head |-> from, sequence |-> 0]]
  /\ UNCHANGED <<commits, history, streams, retains, readers, closed>>

\* snapshot() or head(): the caller will commit on the version or on the head it has seen.
Read(w, name) ==
  /\ ~closed /\ Exists(name)
  /\ readers' = [readers EXCEPT ![w] = [branch |-> name, seen |-> branches[name]]]
  /\ UNCHANGED <<commits, branches, history, streams, retains, closed>>

\* Mutant: the subscriber is not woken.
OfferedAsleep(stream, name, sequence, commit) ==
  IF stream.at \in {"fresh", "ended"} \/ stream.branch # name \/ sequence <= stream.after THEN stream
  ELSE [stream EXCEPT !.queue = Append(@, commit), !.after = sequence]

\* A subscriber of the branch gets the commit unless it asked for later ones only.
Offered(stream, name, sequence, commit) ==
  IF stream.at \in {"fresh", "ended"} \/ stream.branch # name \/ sequence <= stream.after THEN stream
  ELSE Woken([stream EXCEPT !.queue = Append(@, commit), !.after = sequence])

\* Mutant: what the caller expects is not compared.
CommitUnchecked(w, byHead) ==
  /\ ~closed /\ readers[w] # None /\ Len(commits) < MaxCommits
  /\ LET name == readers[w].branch
         current == branches[name]
         commit == Len(commits) + 1
         sequence == current.sequence + 1 IN
     /\ commits' = Append(commits, current.head)
     /\ branches' = [branches EXCEPT ![name] = [head |-> commit, sequence |-> sequence]]
     /\ history' = [history EXCEPT ![name] = Append(@, commit)]
     /\ streams' = [s \in Streams |-> Offered(streams[s], name, sequence, commit)]
  /\ readers' = [readers EXCEPT ![w] = None]
  /\ UNCHANGED <<retains, closed>>

\* commit() with expectedHead, or else with expectedVersion.
Commit(w, byHead) ==
  /\ ~closed /\ readers[w] # None /\ Len(commits) < MaxCommits
  /\ LET name == readers[w].branch
         current == branches[name]
         commit == Len(commits) + 1
         sequence == current.sequence + 1 IN
     /\ IF byHead THEN current.head = readers[w].seen.head
                  ELSE current.sequence = readers[w].seen.sequence
     /\ commits' = Append(commits, current.head)
     /\ branches' = [branches EXCEPT ![name] = [head |-> commit, sequence |-> sequence]]
     /\ history' = [history EXCEPT ![name] = Append(@, commit)]
     /\ streams' = [s \in Streams |-> Offered(streams[s], name, sequence, commit)]
  /\ readers' = [readers EXCEPT ![w] = None]
  /\ UNCHANGED <<retains, closed>>

\* StorageConflictError
Conflict(w) ==
  /\ ~closed /\ readers[w] # None /\ branches[readers[w].branch] # readers[w].seen
  /\ readers' = [readers EXCEPT ![w] = None]
  /\ UNCHANGED <<commits, branches, history, streams, retains, closed>>

\* retain() keeps its name on one commit; every commit of a memory database is kept.
Retain(name, commit) ==
  /\ ~closed /\ commit \in CommitIds /\ retains[name] \in {None, commit}
  /\ retains' = [retains EXCEPT ![name] = commit]
  /\ UNCHANGED <<commits, branches, history, streams, readers, closed>>

ReleaseRetention(name) ==
  /\ ~closed /\ retains[name] # None
  /\ retains' = [retains EXCEPT ![name] = None]
  /\ UNCHANGED <<commits, branches, history, streams, readers, closed>>

-----------------------------------------------------------------------------
(* Streams of changes. *)

\* The loop, from the top to its next await or yield.
Looped(stream) ==
  IF closed \/ stream.aborted THEN [stream EXCEPT !.at = "ended", !.queue = <<>>]
  ELSE IF stream.queue = <<>> THEN [stream EXCEPT !.at = "waiting"]
  ELSE [stream EXCEPT !.at = "yielded", !.queue = Tail(@), !.taken = @ + 1]

\* The subscriber changes() registers: its queue holds what was published after `after`.
Opened(name, after, aborted) ==
  LET queue == SubSeq(history[name], after + 1, Len(history[name])) IN
  [at |-> "running", branch |-> name, taken |-> after,
   after |-> IF queue = <<>> THEN after ELSE Len(history[name]), queue |-> queue,
   aborted |-> aborted]

\* The first next() of changes().
Open(s, name, after) ==
  /\ ~closed /\ streams[s].at = "fresh" /\ Exists(name)
  /\ streams' = [streams EXCEPT ![s] = Looped(Opened(name, after, streams[s].aborted))]
  /\ UNCHANGED <<commits, branches, history, retains, readers, closed>>

\* The consumer asks for the next commit, or the generator goes on after its promise.
Resume(s) ==
  /\ streams[s].at \in {"yielded", "running"}
  /\ streams' = [streams EXCEPT ![s] = Looped(@)]
  /\ UNCHANGED <<commits, branches, history, retains, readers, closed>>

\* The consumer leaves its loop.
Return(s) ==
  /\ streams[s].at = "yielded"
  /\ streams' = [streams EXCEPT ![s].at = "ended", ![s].queue = <<>>]
  /\ UNCHANGED <<commits, branches, history, retains, readers, closed>>

\* The signal of the caller fires once; only a stream that has begun listens to it.
Abort(s) ==
  /\ ~streams[s].aborted
  /\ streams' = [streams EXCEPT ![s] = Woken([@ EXCEPT !.aborted = TRUE])]
  /\ UNCHANGED <<commits, branches, history, retains, readers, closed>>

Close ==
  /\ closed' = TRUE /\ streams' = [s \in Streams |-> Woken(streams[s])]
  /\ UNCHANGED <<commits, branches, history, retains, readers>>

-----------------------------------------------------------------------------
Init ==
  /\ commits = <<>> /\ history = [name \in Branches |-> <<>>]
  /\ branches = [name \in Branches |->
                   IF name = Main THEN [head |-> Genesis, sequence |-> 0] ELSE None]
  /\ streams = [s \in Streams |-> Fresh]
  /\ retains = [name \in Retentions |-> None]
  /\ readers = [w \in Writers |-> None] /\ closed = FALSE

Next ==
  \/ \E name \in Branches, from \in CommitIds : CreateBranch(name, from)
  \/ \E w \in Writers :
       \/ \E name \in Branches : Read(w, name)
       \/ \E byHead \in BOOLEAN : Commit(w, byHead)
       \/ Conflict(w)
  \/ \E name \in Retentions : ReleaseRetention(name) \/ \E commit \in CommitIds : Retain(name, commit)
  \/ \E s \in Streams :
       \/ \E name \in Branches, after \in 0..MaxCommits : Open(s, name, after)
       \/ Resume(s) \/ Return(s) \/ Abort(s)
  \/ Close

\* A generator goes on once its promise is resolved, and its consumer asks again.
Fairness == \A s \in Streams : WF_vars(Resume(s))

Spec == Init /\ [][Next]_vars /\ Fairness

-----------------------------------------------------------------------------
Listening(stream) == stream.at \in {"running", "waiting", "yielded"}

TypeOK ==
  /\ commits \in Seq(Nat) /\ history \in [Branches -> Seq(Nat)]
  /\ branches \in [Branches -> BranchState \cup {None}]
  /\ streams \in [Streams -> [at : {"fresh", "running", "waiting", "yielded", "ended"},
                              branch : Branches, taken : Nat, after : Nat, queue : Seq(Nat),
                              aborted : BOOLEAN]]
  /\ retains \in [Retentions -> Nat \cup {None}]
  /\ readers \in [Writers -> ReaderState \cup {None}]
  /\ closed \in BOOLEAN

\* What a stream has yet to yield is what its branch published after the commit it yielded
\* last: in order, without a gap, a repetition or a commit of another branch, from wherever
\* it was opened (changes).
StreamsInOrder ==
  \A s \in Streams : LET stream == streams[s] IN
    Listening(stream) =>
      stream.queue = SubSeq(history[stream.branch], stream.taken + 1, Len(history[stream.branch]))

\* No stream sleeps over something it was to do: a commit to yield, a closed database or a
\* fired signal (wake).
SleepersHaveNothing ==
  \A s \in Streams : streams[s].at = "waiting" =>
    streams[s].queue = <<>> /\ ~closed /\ ~streams[s].aborted

\* Both: whatever overlaps, a stream has before it what it must still yield, and a stream
\* that sleeps has nothing.
StreamsSound == StreamsInOrder /\ SleepersHaveNothing

\* A writer's commit follows the very state it read, whether it expects its head or its
\* version, and so none is built on a state another writer replaced.
NoLostUpdate ==
  [][\A w \in Writers : readers[w] # None /\ readers'[w] = None /\ commits' # commits =>
       /\ branches[readers[w].branch] = readers[w].seen
       /\ commits'[Len(commits')] = readers[w].seen.head]_vars

\* A stream that listens yields every commit of its branch, unless it is ended.
StreamsDeliver ==
  \A s \in Streams, n \in 1..MaxCommits :
    Listening(streams[s]) /\ Len(history[streams[s].branch]) >= n
      ~> streams[s].at = "ended" \/ streams[s].taken >= n

\* A stream ends once the database is closed or its signal has fired.
StreamsEnd ==
  \A s \in Streams : Listening(streams[s]) /\ (closed \/ streams[s].aborted) ~> streams[s].at = "ended"
=============================================================================

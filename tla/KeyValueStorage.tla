---------------------------- MODULE KeyValueStorage ----------------------------
(***************************************************************************)
(* The storage engine over an ordered key-value store: commits and         *)
(* branches published by one writer queue, snapshots, change streams,      *)
(* named retentions, the online garbage collector, failed publications and *)
(* crashes (KeyValueStorageDatabase, collectKeyValueGarbage and            *)
(* KeyValuePages).                                                         *)
(*                                                                         *)
(* A commit id is its place in log, which also remembers commits that were *)
(* collected.  A commit's tree is the set of its page ids: it shares some  *)
(* of its parent's pages and adds one.  The store applies one batch at a   *)
(* time, all or nothing, on condition that the metadata is unchanged.      *)
(***************************************************************************)
EXTENDS Integers, Sequences, FiniteSets, FiniteSetsExt

CONSTANTS
  Branches, Main,  \* branch names, and the one that always exists
  Names,           \* names given to retain()
  Readers,         \* snapshots that can be open at once
  Streams,         \* change streams that can be open at once
  KeepAtLeast,     \* retention.keepAtLeast
  MaxCommits,      \* bound: commits, the initial one included
  MaxAborts,       \* bound: commits that fail while they build their trees
  MaxFaults        \* bound: failed publications and crashes

ASSUME KeyValueAssumption ==
  /\ Main \in Branches
  /\ KeepAtLeast \in Nat \ {0}
  /\ MaxCommits \in Nat \ {0} /\ MaxAborts \in Nat /\ MaxFaults \in Nat

VARIABLES
  \* the key-value store
  log,            \* every commit ever published: its branch, sequence, pages
  commits,        \* commit/ and history/: the commits still stored
  pages,          \* page/: the pages stored
  branchTable,    \* branch/
  retainTable,    \* retain/
  nextPageId,     \* metadata.nextPageId
  \* KeyValueStorageDatabase
  state,          \* "open", "closing", "failed", "down"
  branches,       \* branches
  retains,        \* retains
  nextId,         \* pages.nextId
  aborted,        \* page ids this process wrote and never published
  job,            \* the operation that holds the queue, while it publishes
  readers,        \* snapshot() calls and the pins they hold
  streams,        \* changes() calls and their subscribers
  retiring,       \* retiring
  pendingFloors,  \* pendingFloors, 0 where it has no entry
  \* collectKeyValueGarbage
  gcPhase,        \* "idle", "prune", "mark", "sweep"
  cutoff,         \* start.nextPageId
  due,            \* commits the current scan has still to visit
  marked,         \* marked
  \* bounds
  aborts, faults

storeVars == <<log, commits, pages, branchTable, retainTable, nextPageId>>
memoryVars == <<branches, retains>>
pageVars == <<nextId, aborted, aborts>>
barrierVars == <<retiring, pendingFloors>>
gcVars == <<gcPhase, cutoff, due, marked>>
vars == <<storeVars, state, memoryVars, pageVars, job, readers, streams,
          barrierVars, gcVars, faults>>

-----------------------------------------------------------------------------
Ids == 1..MaxCommits
PageIds == Nat

Entry == [branch : Branches, sequence : Nat, pages : SUBSET PageIds]
NoEntry == [branch |-> Main, sequence |-> 0, pages |-> {}]
Branch == [head : Ids \union {0}, base : Ids \union {0},
           sequence : Nat, floor : Nat]
NoBranch == [head |-> 0, base |-> 0, sequence |-> 0, floor |-> 0]
Table == [Branches -> Branch]
Retentions == [Names -> Ids \union {0}]

Job == [stage : {"idle", "publishing", "published"},
        adds : BOOLEAN, entry : Entry, puts : SUBSET PageIds,
        drops : SUBSET Ids, sweeps : SUBSET PageIds,
        branches : Table, retains : Retentions]
NoJob == [stage |-> "idle", adds |-> FALSE, entry |-> NoEntry, puts |-> {},
          drops |-> {}, sweeps |-> {},
          branches |-> [b \in Branches |-> NoBranch],
          retains |-> [n \in Names |-> 0]]

Reader == [state : {"idle", "opening", "open"}, commit : Ids \union {0}]
NoReader == [state |-> "idle", commit |-> 0]
Stream == [state : {"idle", "open", "lost"}, branch : Branches,
           retainAfter : Nat, through : Nat, after : Nat, queue : Seq(Nat)]
NoStream == [state |-> "idle", branch |-> Main, retainAfter |-> 0,
             through |-> 0, after |-> 0, queue |-> <<>>]

TypeOK ==
  /\ log \in Seq(Entry) /\ Len(log) \in Ids
  /\ commits \subseteq DOMAIN log /\ pages \subseteq PageIds
  /\ branchTable \in Table /\ retainTable \in Retentions
  /\ nextPageId \in Nat
  /\ state \in {"open", "closing", "failed", "down"}
  /\ branches \in Table /\ retains \in Retentions
  /\ nextId \in Nat /\ aborted \subseteq PageIds
  /\ job \in Job
  /\ readers \in [Readers -> Reader] /\ streams \in [Streams -> Stream]
  /\ retiring \subseteq DOMAIN log
  /\ pendingFloors \in [Branches -> Nat]
  /\ gcPhase \in {"idle", "prune", "mark", "sweep"}
  /\ cutoff \in Nat /\ due \subseteq DOMAIN log /\ marked \subseteq PageIds
  /\ aborts \in 0..MaxAborts /\ faults \in 0..MaxFaults

\* A new database: one empty commit, the head and base of main.
Init ==
  /\ log = <<NoEntry>> /\ commits = {1} /\ pages = {}
  /\ branchTable = [b \in Branches |->
       IF b = Main THEN [head |-> 1, base |-> 1, sequence |-> 0, floor |-> 0]
       ELSE NoBranch]
  /\ retainTable = [n \in Names |-> 0]
  /\ nextPageId = 1
  /\ state = "open" /\ branches = branchTable /\ retains = retainTable
  /\ nextId = nextPageId /\ aborted = {}
  /\ job = NoJob
  /\ readers = [r \in Readers |-> NoReader]
  /\ streams = [t \in Streams |-> NoStream]
  /\ retiring = {} /\ pendingFloors = [b \in Branches |-> 0]
  /\ gcPhase = "idle" /\ cutoff = 0 /\ due = {} /\ marked = {}
  /\ aborts = 0 /\ faults = 0

-----------------------------------------------------------------------------
(* The write queue and publish(). *)

\* enqueue: the engine accepted the operation and every earlier one settled.
MyTurn == state \in {"open", "closing"} /\ job.stage = "idle"

\* Branch b has been created.
Exists(b) == branches[b].head # 0

\* What an operation publishes: nothing but what it changes in this.
NewBatch == [NoJob EXCEPT !.stage = "publishing",
                          !.branches = branches, !.retains = retains]

\* The commits made so far, once the batch is stored.
Logged == IF job.adds THEN Append(log, job.entry) ELSE log

\* store.batch applies the whole batch.
Apply ==
  /\ log' = Logged
  /\ commits' = (commits \ job.drops)
                  \union (IF job.adds THEN {Len(log) + 1} ELSE {})
  /\ pages' = (pages \ job.sweeps) \union job.puts
  /\ branchTable' = job.branches
  /\ retainTable' = job.retains
  /\ nextPageId' = nextId

\* finally: snapshots and streams are admitted by what is stored again.
LowerBarrier ==
  /\ retiring' = {}
  /\ pendingFloors' = [b \in Branches |-> 0]

\* publish() waits for the store, which applies the batch.
Publish ==
  /\ job.stage = "publishing"
  /\ Apply
  /\ job' = [job EXCEPT !.stage = "published"]
  /\ UNCHANGED <<state, memoryVars, pageVars, readers, streams, barrierVars,
                 gcVars, faults>>

\* Mutant: a subscriber is offered commits its cursor is already past.
OffersAll(t) == streams[t].state = "open" /\ streams[t].branch = job.entry.branch

\* commit() hands its batch to the subscribers that still expect it.
Offers(t) ==
  /\ streams[t].state = "open" /\ streams[t].branch = job.entry.branch
  /\ job.entry.sequence > streams[t].after

\* The batch is stored: memory follows, the caller gets its answer.
Install ==
  LET n == job.entry.sequence IN
  /\ job.stage = "published"
  /\ branches' = job.branches /\ retains' = job.retains
  /\ streams' = [t \in Streams |->
       IF job.adds /\ Offers(t)
       THEN [streams[t] EXCEPT !.queue = Append(@, n), !.after = n]
       ELSE streams[t]]
  /\ LowerBarrier
  /\ job' = NoJob
  /\ UNCHANGED <<storeVars, state, pageVars, readers, gcVars, faults>>

\* The collection is over and its marks are forgotten.
CollectorIdle == gcPhase' = "idle" /\ cutoff' = 0 /\ due' = {} /\ marked' = {}

\* store.batch rejects, before or after the batch became durable: the engine
\* refuses everything from now on.
PublishFails ==
  /\ job.stage = "publishing" /\ faults < MaxFaults
  /\ faults' = faults + 1
  /\ Apply \/ UNCHANGED storeVars
  /\ state' = "failed"
  /\ LowerBarrier
  /\ job' = NoJob
  /\ UNCHANGED <<memoryVars, pageVars, readers, streams, gcVars>>

-----------------------------------------------------------------------------
(* Operations on the queue. *)

\* commit(): trees are copied along the changed paths, then published.
Commit(b) ==
  LET parent == branches[b].head
      n == branches[b].sequence + 1
  IN
  /\ MyTurn /\ Exists(b) /\ parent \in commits /\ Len(log) < MaxCommits
  /\ nextId' = nextId + 1
  /\ \E kept \in SUBSET log[parent].pages, fresh \in {{}, {nextId}} :
       job' = [NewBatch EXCEPT
         !.adds = TRUE, !.puts = fresh,
         !.entry = [branch |-> b, sequence |-> n, pages |-> kept \union fresh],
         !.branches[b] = [@ EXCEPT !.head = Len(log) + 1, !.sequence = n]]
  /\ UNCHANGED <<storeVars, state, memoryVars, aborted, aborts, readers,
                 streams, barrierVars, gcVars, faults>>

\* discard() forgets the staged pages, never their ids.
SpendId == nextId' = nextId + 1

\* commit() fails while it builds its trees: a constraint, a missing row.
CommitAborts ==
  /\ MyTurn /\ aborts < MaxAborts
  /\ aborts' = aborts + 1
  /\ aborted' = aborted \union {nextId}
  /\ SpendId
  /\ UNCHANGED <<storeVars, state, memoryVars, job, readers, streams,
                 barrierVars, gcVars, faults>>

\* createBranch() from any commit still stored.
CreateBranch(b) ==
  /\ MyTurn /\ ~Exists(b)
  /\ \E c \in commits :
       job' = [NewBatch EXCEPT !.branches[b] =
                 [head |-> c, base |-> c, sequence |-> 0, floor |-> 0]]
  /\ UNCHANGED <<storeVars, state, memoryVars, pageVars, readers, streams,
                 barrierVars, gcVars, faults>>

\* retain(): a name keeps the commit it was first given.
Retain(name) ==
  /\ MyTurn
  /\ \E c \in commits :
       /\ retainTable[name] \in {0, c}
       /\ job' = [NewBatch EXCEPT !.retains[name] = c]
  /\ UNCHANGED <<storeVars, state, memoryVars, pageVars, readers, streams,
                 barrierVars, gcVars, faults>>

\* releaseRetention(): the name is free again.
ReleaseRetention(name) ==
  /\ MyTurn /\ retainTable[name] # 0
  /\ job' = [NewBatch EXCEPT !.retains[name] = 0]
  /\ UNCHANGED <<storeVars, state, memoryVars, pageVars, readers, streams,
                 barrierVars, gcVars, faults>>

-----------------------------------------------------------------------------
(* Readers: snapshot() pins its commit before it reads it. *)

\* The pin is set unless the commit is about to go.
Snapshot(r) ==
  /\ state = "open" /\ readers[r].state = "idle"
  /\ \E c \in DOMAIN log \ retiring :
       readers' = [readers EXCEPT ![r] = [state |-> "opening", commit |-> c]]
  /\ UNCHANGED <<storeVars, state, memoryVars, pageVars, job, streams,
                 barrierVars, gcVars, faults>>

\* readCommit: the snapshot opens, or releases its pin and rejects.
SnapshotRead(r) ==
  /\ readers[r].state = "opening"
  /\ readers' = [readers EXCEPT ![r] =
       IF @.commit \in commits THEN [@ EXCEPT !.state = "open"] ELSE NoReader]
  /\ UNCHANGED <<storeVars, state, memoryVars, pageVars, job, streams,
                 barrierVars, gcVars, faults>>

\* The snapshot's release callback drops the pin.
CloseSnapshot(r) ==
  /\ readers[r].state = "open"
  /\ readers' = [readers EXCEPT ![r] = NoReader]
  /\ UNCHANGED <<storeVars, state, memoryVars, pageVars, job, streams,
                 barrierVars, gcVars, faults>>

-----------------------------------------------------------------------------
(* Change streams: stored history first, then the subscriber's queue. *)

\* Mutant: a stream is admitted over history that is being deleted.
StoredFloor(b) == branches[b].floor

\* The first cursor a stream of b can start from.
Floor(b) == Max({branches[b].floor, pendingFloors[b]})

\* changes({branch: b, after}).  Cursors beyond the head are allowed.
OpenStream(t) ==
  /\ state = "open" /\ streams[t].state = "idle"
  /\ \E b \in Branches : \E after \in Floor(b)..(branches[b].sequence + 1) :
       /\ Exists(b) /\ after <= MaxCommits
       /\ streams' = [streams EXCEPT ![t] =
            [state |-> "open", branch |-> b, retainAfter |-> after,
             through |-> branches[b].sequence,
             after |-> Max({branches[b].sequence, after}), queue |-> <<>>]]
  /\ UNCHANGED <<storeVars, state, memoryVars, pageVars, job, readers,
                 barrierVars, gcVars, faults>>

\* history/ and commit/ hold commit n of branch b.
Stored(b, n) == \E c \in commits : log[c].branch = b /\ log[c].sequence = n

\* The next commit of the history read from the store, or its absence.
Replay(t) ==
  LET n == streams[t].retainAfter + 1 IN
  /\ streams[t].state = "open" /\ n <= streams[t].through
  /\ streams' = [streams EXCEPT ![t] =
       IF Stored(@.branch, n) THEN [@ EXCEPT !.retainAfter = n]
       ELSE [NoStream EXCEPT !.state = "lost"]]
  /\ UNCHANGED <<storeVars, state, memoryVars, pageVars, job, readers,
                 barrierVars, gcVars, faults>>

\* The next commit of the subscriber's queue.
Deliver(t) ==
  /\ streams[t].state = "open" /\ streams[t].retainAfter >= streams[t].through
  /\ streams[t].queue # <<>>
  /\ streams' = [streams EXCEPT ![t].retainAfter = Head(streams[t].queue),
                                ![t].queue = Tail(@)]
  /\ UNCHANGED <<storeVars, state, memoryVars, pageVars, job, readers,
                 barrierVars, gcVars, faults>>

\* The consumer returns, aborts or has seen the error.
EndStream(t) ==
  /\ streams[t].state # "idle"
  /\ streams' = [streams EXCEPT ![t] = NoStream]
  /\ UNCHANGED <<storeVars, state, memoryVars, pageVars, job, readers,
                 barrierVars, gcVars, faults>>

-----------------------------------------------------------------------------
(* The collector.  Prune deletes commits nobody can reach, in batches that *)
(* each take a turn on the queue; mark walks the trees of the commits left *)
(* while writers go on; sweep deletes the old pages it did not meet.       *)

\* Mutant: the first page id that is still free counts as old.
CutoffAfterNext == nextId + 1

\* capture(): pages written from now on are not this cycle's business.
CutoffNow == nextId

\* The commits the retention policy gives up, as of the start: all but the
\* last KeepAtLeast of their branch and those committed after youngest.
Expired(youngest) ==
  {c \in commits :
     /\ c < youngest
     /\ log[c].sequence <= branches[log[c].branch].sequence - KeepAtLeast}

\* collectGarbage(): capture(), in its turn on the queue.
GcStart ==
  /\ state = "open" /\ MyTurn /\ gcPhase = "idle"
  /\ gcPhase' = "prune"
  /\ cutoff' = CutoffNow
  /\ \E youngest \in 1..(Len(log) + 1) : due' = Expired(youngest)
  /\ UNCHANGED <<storeVars, state, memoryVars, pageVars, job, readers, streams,
                 barrierVars, marked, faults>>

\* Commits a snapshot reads or is about to read.
Pins == {readers[r].commit : r \in {q \in Readers : readers[q].state # "idle"}}

\* What no collection deletes, as of the batch's turn on the queue.
Roots == Pins \union {retains[n] : n \in Names}
              \union {branches[b].head : b \in Branches}
              \union {branches[b].base : b \in Branches}

\* A subscriber has yet to be given commit c.
Unread(c) ==
  \E t \in Streams : /\ streams[t].state = "open"
                     /\ streams[t].branch = log[c].branch
                     /\ log[c].sequence > streams[t].retainAfter

\* Mutant: the barrier is forgotten, the batch alone is published.
NoBarrier(doomed) == {}

\* Commits no snapshot may pin any more.
Barrier(doomed) == doomed

\* The sequence below which branch b may have holes once doomed is gone.
FloorAbove(b, doomed) ==
  Max({branches[b].floor}
        \union {log[c].sequence : c \in {d \in doomed : log[d].branch = b}})

\* One batch: what is doomed is decided, barred from new readers, and
\* published as deletions together with the floors it raises.
GcPrune ==
  /\ gcPhase = "prune" /\ MyTurn
  /\ \E batch \in (SUBSET due) \ {{}} :
       LET doomed == {c \in batch : c \notin Roots /\ ~Unread(c)} IN
       /\ due' = due \ batch
       /\ IF doomed = {} THEN UNCHANGED <<job, barrierVars>>
          ELSE /\ job' = [NewBatch EXCEPT !.drops = doomed,
                    !.branches = [b \in Branches |->
                      [branches[b] EXCEPT !.floor = FloorAbove(b, doomed)]]]
               /\ retiring' = Barrier(doomed)
               /\ pendingFloors' = [b \in Branches |->
                    IF \E c \in doomed : log[c].branch = b
                    THEN FloorAbove(b, doomed) ELSE 0]
  /\ UNCHANGED <<storeVars, state, memoryVars, pageVars, readers, streams,
                 gcPhase, cutoff, marked, faults>>

\* The second scan: every commit left, and possibly later ones, whose old
\* pages are among those of the head they were made from.
GcPruned ==
  /\ gcPhase = "prune" /\ due = {} /\ job.drops = {} /\ state = "open"
  /\ gcPhase' = "mark"
  /\ due' = commits
  /\ UNCHANGED <<storeVars, state, memoryVars, pageVars, job, readers, streams,
                 barrierVars, cutoff, marked, faults>>

\* The old pages of one commit's trees.
GcMark ==
  /\ gcPhase = "mark" /\ state = "open"
  /\ \E c \in due :
       /\ due' = due \ {c}
       /\ marked' = marked \union {p \in log[c].pages : p < cutoff}
  /\ UNCHANGED <<storeVars, state, memoryVars, pageVars, job, readers, streams,
                 barrierVars, gcPhase, cutoff, faults>>

\* Every survivor is marked.
GcMarked ==
  /\ gcPhase = "mark" /\ due = {} /\ state = "open"
  /\ gcPhase' = "sweep"
  /\ UNCHANGED <<storeVars, state, memoryVars, pageVars, job, readers, streams,
                 barrierVars, cutoff, due, marked, faults>>

\* Mutant: the scan stops at the slice in which newer pages turn up.
GarbageBeforeNewer ==
  {p \in pages : p < cutoff /\ p \notin marked /\ \A q \in pages : q < cutoff}

\* Old pages that no stored commit uses.
Garbage == {p \in pages : p < cutoff /\ p \notin marked}

\* One batch of old pages nobody marked goes.
GcSweep ==
  /\ gcPhase = "sweep" /\ MyTurn
  /\ \E batch \in (SUBSET Garbage) \ {{}} : job' = [NewBatch EXCEPT !.sweeps = batch]
  /\ UNCHANGED <<storeVars, state, memoryVars, pageVars, readers, streams,
                 barrierVars, gcVars, faults>>

\* No old garbage is left.
GcDone ==
  /\ gcPhase = "sweep" /\ job.sweeps = {} /\ Garbage = {} /\ state = "open"
  /\ CollectorIdle
  /\ UNCHANGED <<storeVars, state, memoryVars, pageVars, job, readers, streams,
                 barrierVars, faults>>

\* Mutant: assertOpen does not look at closing.
StoppedByFailure == state = "failed"

\* assertOpen throws.
Stopped == state \in {"closing", "failed"}

\* checkpoint() or enqueue() throws and the collection is given up.
GcAborts ==
  /\ gcPhase # "idle" /\ Stopped
  /\ job.drops = {} /\ job.sweeps = {}
  /\ CollectorIdle
  /\ UNCHANGED <<storeVars, state, memoryVars, pageVars, job, readers, streams,
                 barrierVars, faults>>

-----------------------------------------------------------------------------
(* Closing, crashing and opening again. *)

\* Whatever lived in the process is gone.
Vanish ==
  /\ state' = "down"
  /\ job' = NoJob
  /\ readers' = [r \in Readers |-> NoReader]
  /\ streams' = [t \in Streams |-> NoStream]
  /\ LowerBarrier
  /\ CollectorIdle
  /\ UNCHANGED <<storeVars, memoryVars, pageVars>>

\* close(): nothing new is accepted from here on.
Close ==
  /\ state = "open" /\ state' = "closing"
  /\ UNCHANGED <<storeVars, memoryVars, pageVars, job, readers, streams,
                 barrierVars, gcVars, faults>>

\* close() has waited for the collection and for the queue.
Closed ==
  /\ state \in {"closing", "failed"} /\ gcPhase = "idle" /\ job.stage = "idle"
  /\ Vanish
  /\ UNCHANGED faults

\* The process dies; the store keeps what it has applied.
Crash ==
  /\ state # "down" /\ faults < MaxFaults
  /\ faults' = faults + 1
  /\ Vanish

\* open(): everything is read back; every head must be readable.
Open ==
  /\ state = "down"
  /\ \A b \in Branches : branchTable[b].head \in commits \union {0}
  /\ state' = "open"
  /\ branches' = branchTable /\ retains' = retainTable
  /\ nextId' = nextPageId /\ aborted' = {}
  /\ UNCHANGED <<storeVars, aborts, job, readers, streams, barrierVars, gcVars,
                 faults>>

-----------------------------------------------------------------------------
GcStep == GcPrune \/ GcPruned \/ GcMark \/ GcMarked \/ GcSweep \/ GcDone \/ GcAborts
PublishStep == Publish \/ Install

Next ==
  \/ Publish \/ Install \/ PublishFails
  \/ \E b \in Branches : Commit(b) \/ CreateBranch(b)
  \/ CommitAborts
  \/ \E n \in Names : Retain(n) \/ ReleaseRetention(n)
  \/ \E r \in Readers : Snapshot(r) \/ SnapshotRead(r) \/ CloseSnapshot(r)
  \/ \E t \in Streams : OpenStream(t) \/ Replay(t) \/ Deliver(t) \/ EndStream(t)
  \/ GcStart \/ GcStep
  \/ Close \/ Closed \/ Crash \/ Open

Spec == Init /\ [][Next]_vars

(* The queue is first in, first out, so whoever waits for it gets its turn *)
(* again and again; nobody is obliged to call, to fail or to crash.        *)
Fairness == WF_vars(PublishStep) /\ SF_vars(GcStep) /\ SF_vars(Closed)
FairSpec == Spec /\ Fairness

-----------------------------------------------------------------------------
(* Properties *)

\* Every commit that is stored has every page of its trees, whatever the
\* collector has deleted so far and wherever it was interrupted.
Integrity == \A c \in commits : log[c].pages \subseteq pages

\* What branches, names and open snapshots point at is stored: a collection
\* that ran, failed or crashed never leaves one of them dangling.
RootsPresent ==
  /\ \A b \in Branches : /\ branchTable[b].head \in commits \union {0}
                         /\ branchTable[b].base \in commits \union {0}
  /\ \A n \in Names : retainTable[n] \in commits \union {0}
  /\ \A r \in Readers : readers[r].state = "open" => readers[r].commit \in commits

\* Above its floor, a branch has no hole: a stream that starts there, in this
\* process or after a crash, finds every commit.
NoHoleAboveFloor ==
  \A b \in Branches : \A n \in (branchTable[b].floor + 1)..branchTable[b].sequence :
    Stored(b, n)

\* A change stream that was admitted is never told later that its history is
\* gone, however slowly it is read.
AdmittedStreamsSurvive == \A t \in Streams : streams[t].state # "lost"

\* Page ids are never reused while the cache of this process may know them.
FreshPageIds == job.puts \intersect aborted = {}

\* A store, whatever was collected, refused or interrupted, is whole.
StoreWhole == Integrity /\ RootsPresent /\ FreshPageIds

\* History goes only from below the floors, and under no stream.
HistoryKept == NoHoleAboveFloor /\ AdmittedStreamsSurvive

\* A commit is not deleted while a snapshot that found it stored still opens
\* or reads it.
PinnedStay ==
  [][\A r \in Readers :
       /\ readers[r].state # "idle" /\ readers'[r].state # "idle"
       /\ readers[r].commit \in commits
       => readers[r].commit \in commits']_vars

\* A stream yields the commits after its cursor one by one: none twice, none
\* skipped, across the change from stored history to the live queue.
DeliveredInOrder ==
  [][\A t \in Streams :
       LET was == streams[t]
           now == streams'[t]
       IN was.state = "open" /\ now.state = "open" =>
            /\ now.retainAfter - was.retainAfter \in {0, 1}
            /\ Len(now.queue) < Len(was.queue)
                 => now.retainAfter = was.retainAfter + 1]_vars

\* A collection that completes leaves no page from before it started that no
\* stored commit uses.
SweepComplete ==
  [][GcDone => \A p \in pages : p < cutoff =>
                 \E c \in commits : p \in log[c].pages]_vars

\* A collection ends, whatever writers, readers and failures do meanwhile.
CollectionsEnd == gcPhase # "idle" ~> gcPhase = "idle"

\* close() ends: the collection and the queue it waits for both do.
CloseEnds == state = "closing" ~> state = "down"

\* Nobody waits for ever for the collector.
WaitsEnd == CollectionsEnd /\ CloseEnds
=============================================================================

------------------------------- MODULE Runtime -------------------------------
(***************************************************************************)
(* The database runtime of HyDB: the serial command queue, the loop that   *)
(* consumes the storage change stream, the subscriptions that keep live    *)
(* queries up to date, and shutdown (QueryDatabase in database.ts and      *)
(* SubscriptionRuntime in subscription.ts).                                *)
(*                                                                         *)
(* One action is the code between two awaits of one task.  Rows are        *)
(* abstracted: a commit of branch main is its sequence number, and what a  *)
(* query holds is the sequence of commits folded into it.  Whether a       *)
(* commit touches a query's tables, and whether the dataflow then demands  *)
(* rows it has not loaded, is chosen freely.                               *)
(***************************************************************************)
EXTENDS Integers, Sequences, FiniteSets

CONSTANTS
  Commands,    \* calls of execute() or transact()
  Subs,        \* calls of subscribe()
  MaxCommits,  \* bound: commits on main
  MaxForeign,  \* bound: commits made on the storage directly
  MaxFaults,   \* bound: failures of loading, dataflow or a listener
  MayClose     \* whether the owner calls close()

ASSUME RuntimeAssumption ==
  /\ MaxCommits \in Nat
  /\ MaxForeign \in Nat
  /\ MaxFaults \in Nat
  /\ MayClose \in BOOLEAN

VARIABLES
  \* the storage engine, as the runtime sees it
  head,          \* sequence of the head of main
  storageOpen,
  foreign,       \* commits made directly on the storage so far
  \* QueryDatabase
  sequence,      \* #sequence: last commit every subscription has accepted
  cursor,        \* last commit the change stream has yielded
  loop,          \* consumeChanges: "next", "applying", "ended", "failed"
  accepting,     \* subscriptions whose accept(cursor) is still pending
  registered,    \* #subscriptions
  closures,      \* #subscriptionClosures
  commandQueue,  \* #commandQueue, the running command first
  aborted,       \* #abortController
  closing,       \* close(): "open", "loop", "cleanup", "closed"
  \* one execute() or transact() call
  pc, snap, written, outcome,
  \* one SubscriptionRuntime
  boot,          \* bootstrap() and the promise ready
  live,          \* #live
  disposed,      \* #disposed
  released,      \* releaseResources() has finished
  lastSequence,  \* #lastSequence
  buffer,        \* #buffer
  applyQueue,    \* #applyQueue
  jobStage,      \* where apply() is suspended
  jobSeq,        \* the commit it applies
  current,       \* #snapshot
  held,          \* storage snapshots opened and not closed
  base,          \* sequence of the bootstrap snapshot
  applied,       \* commits folded into the query since the snapshot
  shown,         \* sequence of the last result given to the listener
  faults         \* failures injected so far

storageVars == <<head, storageOpen, foreign>>
streamVars == <<sequence, cursor, loop, accepting>>
commandVars == <<commandQueue, pc, snap, written, outcome>>
ownerVars == <<registered, closures, aborted, closing>>
queryVars == <<lastSequence, base, applied, shown>>
jobVars == <<applyQueue, jobStage, jobSeq>>
handleVars == <<current, held>>
lifeVars == <<boot, live, disposed, released, buffer>>
subVars == <<lifeVars, queryVars, jobVars, handleVars>>
vars == <<storageVars, streamVars, commandVars, ownerVars, subVars, faults>>

-----------------------------------------------------------------------------
NONE == -1

CommandStates == {"idle", "queued", "invoking", "committing", "committed",
                  "waiting", "releasing", "done"}
Outcomes == {"none", "readonly", "ok", "conflict", "rejected"}
LoopStates == {"next", "applying", "ended", "failed"}
CloseStates == {"open", "loop", "cleanup", "closed"}
BootStates == {"absent", "opening", "loading", "querying", "draining",
               "ready", "failed"}
JobStages == {"idle", "dataflow", "opening", "settling"}
Handles == {"boot", "demand"}

Has(q, n) == \E i \in DOMAIN q : q[i] = n

\* Mutant: waits for ready to resolve, as if it could not reject.
SettledWell(s) == boot[s] = "ready"

\* The promise ready of s has settled.
Settled(s) == boot[s] \in {"ready", "failed"}
Commits == 1..MaxCommits

TypeOK ==
  /\ head \in 0..MaxCommits /\ storageOpen \in BOOLEAN /\ foreign \in 0..MaxForeign
  /\ sequence \in 0..MaxCommits /\ cursor \in 0..MaxCommits
  /\ loop \in LoopStates /\ accepting \subseteq Subs
  /\ registered \subseteq Subs /\ closures \subseteq Subs
  /\ commandQueue \in Seq(Commands)
  /\ aborted \in BOOLEAN /\ closing \in CloseStates
  /\ pc \in [Commands -> CommandStates]
  /\ snap \in [Commands -> 0..MaxCommits \union {NONE}]
  /\ written \in [Commands -> 0..MaxCommits]
  /\ outcome \in [Commands -> Outcomes]
  /\ boot \in [Subs -> BootStates]
  /\ live \in [Subs -> BOOLEAN] /\ disposed \in [Subs -> BOOLEAN]
  /\ released \in [Subs -> BOOLEAN]
  /\ lastSequence \in [Subs -> 0..MaxCommits \union {NONE}]
  /\ buffer \in [Subs -> Seq(Commits)] /\ applyQueue \in [Subs -> Seq(Commits)]
  /\ jobStage \in [Subs -> JobStages] /\ jobSeq \in [Subs -> 0..MaxCommits]
  /\ current \in [Subs -> Handles \union {"none"}]
  /\ held \in [Subs -> SUBSET Handles]
  /\ base \in [Subs -> 0..MaxCommits \union {NONE}]
  /\ applied \in [Subs -> Seq(Commits)]
  /\ shown \in [Subs -> 0..MaxCommits \union {NONE}]
  /\ faults \in 0..MaxFaults

Init ==
  /\ head = 0 /\ storageOpen = TRUE /\ foreign = 0
  /\ sequence = 0 /\ cursor = 0 /\ loop = "next" /\ accepting = {}
  /\ registered = {} /\ closures = {}
  /\ commandQueue = <<>> /\ aborted = FALSE /\ closing = "open"
  /\ pc = [c \in Commands |-> "idle"]
  /\ snap = [c \in Commands |-> NONE]
  /\ written = [c \in Commands |-> 0]
  /\ outcome = [c \in Commands |-> "none"]
  /\ boot = [s \in Subs |-> "absent"]
  /\ live = [s \in Subs |-> FALSE] /\ disposed = [s \in Subs |-> FALSE]
  /\ released = [s \in Subs |-> FALSE]
  /\ lastSequence = [s \in Subs |-> NONE]
  /\ buffer = [s \in Subs |-> <<>>] /\ applyQueue = [s \in Subs |-> <<>>]
  /\ jobStage = [s \in Subs |-> "idle"] /\ jobSeq = [s \in Subs |-> 0]
  /\ current = [s \in Subs |-> "none"] /\ held = [s \in Subs |-> {}]
  /\ base = [s \in Subs |-> NONE]
  /\ applied = [s \in Subs |-> <<>>]
  /\ shown = [s \in Subs |-> NONE]
  /\ faults = 0

-----------------------------------------------------------------------------
(* Commands: execute() and transact() run one at a time on #commandQueue.  *)

\* A caller submits a command; callers do not call into a closing database.
Submit(c) ==
  /\ pc[c] = "idle" /\ closing = "open"
  /\ pc' = [pc EXCEPT ![c] = "queued"]
  /\ commandQueue' = Append(commandQueue, c)
  /\ UNCHANGED <<storageVars, streamVars, snap, written, outcome, ownerVars,
                 subVars, faults>>

\* Every earlier command on the queue has settled.
Turn(c) == Head(commandQueue) = c

\* The queue reaches the command, which opens its snapshot of main.
CommandStart(c) ==
  /\ pc[c] = "queued" /\ Turn(c)
  /\ IF storageOpen
     THEN /\ snap' = [snap EXCEPT ![c] = head]
          /\ pc' = [pc EXCEPT ![c] = "invoking"]
          /\ UNCHANGED outcome
     ELSE /\ pc' = [pc EXCEPT ![c] = "releasing"]
          /\ outcome' = [outcome EXCEPT ![c] = "rejected"]
          /\ UNCHANGED snap
  /\ UNCHANGED <<storageVars, streamVars, commandQueue, written, ownerVars,
                 subVars, faults>>

Finish(c, result) ==
  /\ pc' = [pc EXCEPT ![c] = "releasing"]
  /\ outcome' = [outcome EXCEPT ![c] = result]

\* The handler throws, returns without mutations, or leaves mutations.
CommandInvoke(c) ==
  /\ pc[c] = "invoking"
  /\ \/ Finish(c, "rejected")
     \/ Finish(c, "readonly")
     \/ pc' = [pc EXCEPT ![c] = "committing"] /\ UNCHANGED outcome
  /\ UNCHANGED <<storageVars, streamVars, commandQueue, snap, written,
                 ownerVars, subVars, faults>>

\* storage.commit with expectedHead: published, or a conflict.
CommandCommit(c) ==
  /\ pc[c] = "committing"
  /\ IF storageOpen /\ snap[c] = head
     THEN /\ head < MaxCommits
          /\ head' = head + 1
          /\ written' = [written EXCEPT ![c] = head + 1]
          /\ pc' = [pc EXCEPT ![c] = "committed"]
          /\ UNCHANGED outcome
     ELSE /\ Finish(c, IF storageOpen THEN "conflict" ELSE "rejected")
          /\ UNCHANGED <<head, written>>
  /\ UNCHANGED <<storageOpen, foreign, streamVars, commandQueue, snap,
                 ownerVars, subVars, faults>>

\* storage.commit rejects the mutations: a constraint, or a failed write.
CommandRefused(c) ==
  /\ pc[c] = "committing"
  /\ Finish(c, "rejected")
  /\ UNCHANGED <<storageVars, streamVars, commandQueue, snap, written,
                 ownerVars, subVars, faults>>

\* waitForSequence: already applied, rejected, or parked.
CommandWait(c) ==
  /\ pc[c] = "committed"
  /\ IF written[c] <= sequence THEN Finish(c, "ok")
     ELSE IF loop = "failed" THEN Finish(c, "rejected")
     ELSE pc' = [pc EXCEPT ![c] = "waiting"] /\ UNCHANGED outcome
  /\ UNCHANGED <<storageVars, streamVars, commandQueue, snap, written,
                 ownerVars, subVars, faults>>

\* finally: the snapshot closes and the queue moves on.
CommandRelease(c) ==
  /\ pc[c] = "releasing"
  /\ pc' = [pc EXCEPT ![c] = "done"]
  /\ snap' = [snap EXCEPT ![c] = NONE]
  /\ commandQueue' = Tail(commandQueue)
  /\ UNCHANGED <<storageVars, streamVars, written, outcome, ownerVars,
                 subVars, faults>>

\* Someone commits on the storage directly (StorageDatabase is shared).
ForeignCommit ==
  /\ storageOpen /\ head < MaxCommits /\ foreign < MaxForeign
  /\ head' = head + 1
  /\ foreign' = foreign + 1
  /\ UNCHANGED <<storageOpen, streamVars, commandVars, ownerVars, subVars, faults>>

-----------------------------------------------------------------------------
(* The change loop: for await (commit of storage.changes) applyCommit.     *)

\* Mutant: a commit the snapshot already holds is not recognised.
IgnoresNothing(s, n) == disposed[s]

\* accept() and apply() drop the commit: disposed, or already held.
Ignores(s, n) == disposed[s] \/ n <= lastSequence[s]

\* Mutant: subscriptions that still bootstrap are passed over.
LiveTakers(n) == {s \in registered : live[s] /\ ~Ignores(s, n)}

\* The subscriptions whose accept(n) does not resolve at once.
Takers(n) == {s \in registered : ~Ignores(s, n)}

\* The stream yields the next commit and applyCommit offers it to everyone.
LoopNext ==
  LET n == cursor + 1
      takers == Takers(n)
  IN
  /\ loop = "next" /\ ~aborted /\ cursor < head
  /\ cursor' = n
  /\ IF n <= sequence
     THEN UNCHANGED <<loop, accepting, buffer, applyQueue>>
     ELSE /\ loop' = "applying"
          /\ accepting' = takers
          /\ buffer' = [s \in Subs |-> IF s \in takers /\ ~live[s]
                                       THEN Append(buffer[s], n) ELSE buffer[s]]
          /\ applyQueue' = [s \in Subs |-> IF s \in takers /\ live[s]
                                           THEN Append(applyQueue[s], n)
                                           ELSE applyQueue[s]]
  /\ UNCHANGED <<storageVars, sequence, commandVars, ownerVars, boot, live,
                 disposed, released, queryVars, jobStage, jobSeq, handleVars, faults>>

Parked == {c \in Commands : pc[c] = "waiting"}
Wake(woken, result) ==
  /\ pc' = [c \in Commands |-> IF c \in woken THEN "releasing" ELSE pc[c]]
  /\ outcome' = [c \in Commands |-> IF c \in woken THEN result ELSE outcome[c]]

\* Mutant: applyCommit does not await the subscriptions.
FireAndForget == TRUE

\* Every accept(cursor) has resolved.
AllAccepted == accepting = {}

\* Promise.all resolved: the commit counts as applied and its waiters resolve.
LoopApplied ==
  /\ loop = "applying" /\ AllAccepted
  /\ loop' = "next"
  /\ sequence' = cursor
  /\ Wake({c \in Parked : written[c] <= cursor}, "ok")
  /\ UNCHANGED <<storageVars, cursor, accepting, commandQueue, snap, written,
                 ownerVars, subVars, faults>>

\* The generator notices the abort.
LoopEnd ==
  /\ loop = "next" /\ aborted
  /\ loop' = "ended"
  /\ UNCHANGED <<storageVars, sequence, cursor, accepting, commandVars,
                 ownerVars, subVars, faults>>

\* accept(cursor) of s has rejected: so does Promise.all, and the loop dies.
LoopRejects(s) ==
  IF loop = "applying" /\ s \in accepting
  THEN IF aborted
       THEN loop' = "ended" /\ UNCHANGED <<pc, outcome>>
       ELSE loop' = "failed" /\ Wake(Parked, "rejected")
  ELSE UNCHANGED <<loop, pc, outcome>>

-----------------------------------------------------------------------------
(* Subscriptions. *)

\* releaseSnapshot: closes whichever snapshot #snapshot names.
ReleaseSnapshot(s) ==
  /\ held' = [held EXCEPT ![s] = @ \ {current[s]}]
  /\ current' = [current EXCEPT ![s] = "none"]

\* subscribe(): the constructor starts bootstrap().
Subscribe(s) ==
  /\ boot[s] = "absent" /\ closing = "open"
  /\ boot' = [boot EXCEPT ![s] = "opening"]
  /\ registered' = registered \union {s}
  /\ UNCHANGED <<storageVars, streamVars, commandVars, closures, aborted,
                 closing, live, disposed, released, buffer, queryVars, jobVars,
                 handleVars, faults>>

\* bootstrap's snapshot of main arrives.
BootOpen(s) ==
  /\ boot[s] = "opening"
  /\ IF storageOpen
     THEN /\ boot' = [boot EXCEPT ![s] = "loading"]
          /\ current' = [current EXCEPT ![s] = "boot"]
          /\ held' = [held EXCEPT ![s] = @ \union {"boot"}]
          /\ base' = [base EXCEPT ![s] = head]
     ELSE /\ boot' = [boot EXCEPT ![s] = "failed"]
          /\ UNCHANGED <<current, held, base>>
  /\ UNCHANGED <<storageVars, streamVars, commandVars, ownerVars, live,
                 disposed, released, buffer, lastSequence, applied, shown,
                 jobVars, faults>>

\* The scopes are loaded: stop if disposed, else build the query.
BootLoaded(s) ==
  /\ boot[s] = "loading"
  /\ IF disposed[s]
     THEN /\ boot' = [boot EXCEPT ![s] = "ready"]
          /\ ReleaseSnapshot(s)
          /\ UNCHANGED lastSequence
     ELSE /\ boot' = [boot EXCEPT ![s] = "querying"]
          /\ lastSequence' = [lastSequence EXCEPT ![s] = base[s]]
          /\ UNCHANGED handleVars
  /\ UNCHANGED <<storageVars, streamVars, commandVars, ownerVars, live,
                 disposed, released, buffer, base, applied, shown, jobVars, faults>>

\* Mutant: dispose() leaves the listener in place.
PublishAlways(s, n) == shown' = [shown EXCEPT ![s] = n]

\* The listener is called unless dispose() has dropped it.
Publish(s, n) ==
  shown' = [shown EXCEPT ![s] = IF disposed[s] THEN @ ELSE n]

\* query.bootstrap and settleDemands are done: publishInitial.
BootPublish(s) ==
  /\ boot[s] = "querying"
  /\ boot' = [boot EXCEPT ![s] = "draining"]
  /\ Publish(s, base[s])
  /\ UNCHANGED <<storageVars, streamVars, commandVars, ownerVars, live,
                 disposed, released, buffer, lastSequence, base, applied,
                 jobVars, handleVars, faults>>

\* The buffer is drained: from here on commits go to #applyQueue.
BootDone(s) ==
  /\ boot[s] = "draining" /\ jobStage[s] = "idle"
  /\ buffer[s] = <<>> \/ disposed[s]
  /\ live' = [live EXCEPT ![s] = ~disposed[s]]
  /\ boot' = [boot EXCEPT ![s] = "ready"]
  /\ ReleaseSnapshot(s)
  /\ UNCHANGED <<storageVars, streamVars, commandVars, ownerVars, disposed,
                 released, buffer, queryVars, jobVars, faults>>

\* Loading a scope, running the query or the first listener call throws.
BootFail(s) ==
  /\ boot[s] \in {"loading", "querying"} /\ faults < MaxFaults
  /\ faults' = faults + 1
  /\ boot' = [boot EXCEPT ![s] = "failed"]
  /\ ReleaseSnapshot(s)
  /\ UNCHANGED <<storageVars, streamVars, commandVars, ownerVars, live,
                 disposed, released, buffer, queryVars, jobVars>>

-----------------------------------------------------------------------------
(* apply(): one commit folded into the query, from #buffer while           *)
(* bootstrap drains it and from #applyQueue once live.                     *)

\* #lastSequence = commit.sequence.
Fold(s, n) ==
  /\ lastSequence' = [lastSequence EXCEPT ![s] = n]
  /\ applied' = [applied EXCEPT ![s] = Append(@, n)]

\* The promise that accept(n) returned resolves.
Accepted(s, n) == accepting' = IF n = cursor THEN accepting \ {s} ELSE accepting

\* The first commit waiting for s: skip it, fold it in unread, or begin.
ApplyBegin(s) ==
  \E fromBuffer \in BOOLEAN :
  LET waiting == IF fromBuffer THEN buffer[s] ELSE applyQueue[s]
      n == Head(waiting)
  IN
  /\ jobStage[s] = "idle" /\ waiting # <<>>
  /\ fromBuffer => boot[s] = "draining" /\ ~disposed[s]
  /\ IF fromBuffer
     THEN buffer' = [buffer EXCEPT ![s] = Tail(@)] /\ UNCHANGED applyQueue
     ELSE applyQueue' = [applyQueue EXCEPT ![s] = Tail(@)] /\ UNCHANGED buffer
  /\ \/ /\ Ignores(s, n)
        /\ Accepted(s, n)
        /\ UNCHANGED <<jobStage, jobSeq, lastSequence, applied>>
     \/ /\ ~Ignores(s, n)          \* no change in the query's tables
        /\ Fold(s, n)
        /\ Accepted(s, n)
        /\ UNCHANGED <<jobStage, jobSeq>>
     \/ /\ ~Ignores(s, n)
        /\ jobStage' = [jobStage EXCEPT ![s] = "dataflow"]
        /\ jobSeq' = [jobSeq EXCEPT ![s] = n]
        /\ UNCHANGED <<accepting, lastSequence, applied>>
  /\ UNCHANGED <<storageVars, sequence, cursor, loop, commandVars, ownerVars,
                 boot, live, disposed, released, base, shown, handleVars, faults>>

\* flush() and #lastSequence = commit.sequence; accept() resolves.
ApplyEnd(s) ==
  /\ jobStage' = [jobStage EXCEPT ![s] = "idle"]
  /\ Fold(s, jobSeq[s])
  /\ Publish(s, jobSeq[s])
  /\ Accepted(s, jobSeq[s])
  /\ UNCHANGED <<storageVars, sequence, cursor, loop, commandVars, ownerVars,
                 lifeVars, base, applyQueue, jobSeq, faults>>

\* The dataflow demanded nothing.
ApplyFlush(s) ==
  /\ jobStage[s] = "dataflow"
  /\ ApplyEnd(s)
  /\ UNCHANGED handleVars

\* The dataflow demands rows: open the commit's own snapshot.
ApplyDemand(s) ==
  /\ jobStage[s] = "dataflow"
  /\ jobStage' = [jobStage EXCEPT ![s] = "opening"]
  /\ UNCHANGED <<storageVars, streamVars, commandVars, ownerVars, lifeVars,
                 queryVars, applyQueue, jobSeq, handleVars, faults>>

\* The snapshot replaces whatever #snapshot named.
ApplyOpen(s) ==
  /\ jobStage[s] = "opening" /\ storageOpen
  /\ jobStage' = [jobStage EXCEPT ![s] = "settling"]
  /\ current' = [current EXCEPT ![s] = "demand"]
  /\ held' = [held EXCEPT ![s] = @ \union {"demand"}]
  /\ UNCHANGED <<storageVars, streamVars, commandVars, ownerVars, lifeVars,
                 queryVars, applyQueue, jobSeq, faults>>

\* settleDemands reached its fixpoint (at once if disposed).
ApplySettled(s) ==
  /\ jobStage[s] = "settling"
  /\ ReleaseSnapshot(s)
  /\ ApplyEnd(s)

\* settleDemands throws after dispose(): apply returns, nothing is folded in.
ApplyCancelled(s) ==
  /\ jobStage[s] = "settling" /\ disposed[s] /\ faults < MaxFaults
  /\ faults' = faults + 1
  /\ jobStage' = [jobStage EXCEPT ![s] = "idle"]
  /\ ReleaseSnapshot(s)
  /\ Accepted(s, jobSeq[s])
  /\ UNCHANGED <<storageVars, sequence, cursor, loop, commandVars, ownerVars,
                 lifeVars, queryVars, applyQueue, jobSeq>>

\* The dataflow, the snapshot, the loads or the listener throws: accept()
\* rejects, and while draining bootstrap fails and releases its snapshot.
ApplyFail(s) ==
  /\ jobStage[s] # "idle"
  /\ jobStage[s] = "settling" => ~disposed[s]
  /\ \/ faults < MaxFaults /\ faults' = faults + 1
     \/ jobStage[s] = "opening" /\ ~storageOpen /\ UNCHANGED faults
  /\ jobStage' = [jobStage EXCEPT ![s] = "idle"]
  /\ boot' = [boot EXCEPT ![s] = IF @ = "draining" THEN "failed" ELSE @]
  /\ IF jobStage[s] = "settling" \/ boot[s] = "draining"
     THEN ReleaseSnapshot(s) ELSE UNCHANGED handleVars
  /\ LoopRejects(s)
  /\ UNCHANGED <<storageVars, sequence, cursor, accepting, commandQueue, snap,
                 written, ownerVars, live, disposed, released, buffer,
                 queryVars, applyQueue, jobSeq>>

-----------------------------------------------------------------------------
(* Disposal and shutdown. *)

\* Mutant: dispose() drops the buffer and leaves its promises pending.
NoneResolved(D) == {}

\* Members of D whose pending accept() waits behind #buffer.
Resolved(D) == {s \in D : Has(buffer[s], cursor)}

\* disposeSubscription for every member of D: forget it, drop its buffer
\* (resolving the accept() behind it) and its listener, start the cleanup.
DisposeAll(D) ==
  /\ registered' = registered \ D
  /\ disposed' = [s \in Subs |-> disposed[s] \/ s \in D]
  /\ buffer' = [s \in Subs |-> IF s \in D THEN <<>> ELSE buffer[s]]
  /\ accepting' = accepting \ Resolved(D)
  /\ closures' = closures \union {s \in D : ~released[s]}

\* The unsubscribe function subscribe() returned.
Unsubscribe(s) ==
  /\ boot[s] # "absent" /\ ~disposed[s]
  /\ DisposeAll({s})
  /\ UNCHANGED <<storageVars, sequence, cursor, loop, commandVars, aborted,
                 closing, boot, live, released, queryVars, jobVars, handleVars, faults>>

\* ready rejected: the handler subscribe() installed disposes it.
DisposeFailed(s) ==
  /\ boot[s] = "failed" /\ s \in registered
  /\ DisposeAll({s})
  /\ UNCHANGED <<storageVars, sequence, cursor, loop, commandVars, aborted,
                 closing, boot, live, released, queryVars, jobVars, handleVars, faults>>

\* releaseResources: after ready and #applyQueue settle, close #snapshot.
ReleaseResources(s) ==
  /\ disposed[s] /\ ~released[s]
  /\ Settled(s) /\ jobStage[s] = "idle" /\ applyQueue[s] = <<>>
  /\ released' = [released EXCEPT ![s] = TRUE]
  /\ closures' = closures \ {s}
  /\ ReleaseSnapshot(s)
  /\ UNCHANGED <<storageVars, streamVars, commandVars, registered, aborted,
                 closing, boot, live, disposed, buffer, queryVars, jobVars, faults>>

\* close(): abort the stream and reject everyone parked.
CloseBegin ==
  /\ MayClose /\ closing = "open"
  /\ closing' = "loop"
  /\ aborted' = TRUE
  /\ Wake(Parked, "rejected")
  /\ UNCHANGED <<storageVars, streamVars, commandQueue, snap, written,
                 registered, closures, subVars, faults>>

\* The change loop has settled: dispose every subscription.
CloseDispose ==
  /\ closing = "loop" /\ loop \in {"ended", "failed"}
  /\ closing' = "cleanup"
  /\ DisposeAll(registered)
  /\ UNCHANGED <<storageVars, sequence, cursor, loop, commandVars, aborted,
                 boot, live, released, queryVars, jobVars, handleVars, faults>>

\* Mutant: close() does not await the cleanup it started.
NothingAwaited == TRUE

\* Every ready promise and every closure has settled.
CleanedUp == closures = {} /\ \A s \in Subs : disposed[s] => Settled(s)

\* Their cleanup is done: close the storage.
CloseStorage ==
  /\ closing = "cleanup" /\ CleanedUp
  /\ closing' = "closed"
  /\ storageOpen' = FALSE
  /\ registered' = {}
  /\ UNCHANGED <<head, foreign, streamVars, commandVars, closures, aborted,
                 subVars, faults>>

-----------------------------------------------------------------------------
CommandStep(c) ==
  \/ CommandStart(c) \/ CommandInvoke(c) \/ CommandCommit(c)
  \/ CommandRefused(c) \/ CommandWait(c) \/ CommandRelease(c)
LoopStep == LoopNext \/ LoopApplied \/ LoopEnd
BootStep(s) == BootOpen(s) \/ BootLoaded(s) \/ BootPublish(s) \/ BootDone(s)
ApplyStep(s) ==
  \/ ApplyBegin(s) \/ ApplyFlush(s) \/ ApplyDemand(s) \/ ApplyOpen(s)
  \/ ApplySettled(s)
CleanupStep(s) == DisposeFailed(s) \/ ReleaseResources(s)
CloseStep == CloseDispose \/ CloseStorage

Next ==
  \/ \E c \in Commands : Submit(c) \/ CommandStep(c)
  \/ ForeignCommit
  \/ LoopStep
  \/ \E s \in Subs :
       \/ Subscribe(s) \/ Unsubscribe(s) \/ CleanupStep(s)
       \/ BootStep(s) \/ BootFail(s)
       \/ ApplyStep(s) \/ ApplyCancelled(s) \/ ApplyFail(s)
  \/ CloseBegin \/ CloseStep

Spec == Init /\ [][Next]_vars

(* The event loop runs every callback that is ready, storage calls and     *)
(* handlers return; nobody is obliged to call, to unsubscribe or to fail.  *)
Fairness ==
  /\ \A c \in Commands : WF_vars(CommandStep(c))
  /\ WF_vars(LoopStep)
  /\ \A s \in Subs : /\ WF_vars(BootStep(s))
                     /\ WF_vars(ApplyStep(s))
                     /\ WF_vars(CleanupStep(s))
  /\ WF_vars(CloseStep)

FairSpec == Spec /\ Fairness

-----------------------------------------------------------------------------
(* Properties *)

\* Live queries that have published and still have a listener.
Showing(s) == shown[s] # NONE /\ ~disposed[s]

\* A write that was acknowledged is in the state of every live query that has
\* published: execute() returns only after waitForSequence, which waits for
\* every accept(), bootstrapping subscriptions included.
ReadYourWrites ==
  \A c \in Commands, s \in Subs :
    outcome[c] = "ok" /\ Showing(s) => written[c] <= lastSequence[s]

\* A live query is its snapshot followed by every later commit exactly once,
\* in order, wherever the stream stood when the snapshot was taken: buffering
\* during bootstrap loses nothing and replays nothing the snapshot had.
ExactlyOnce ==
  \A s \in Subs : lastSequence[s] # NONE =>
    /\ Len(applied[s]) = lastSequence[s] - base[s]
    /\ \A i \in DOMAIN applied[s] : applied[s][i] = base[s] + i

\* The loop takes one commit at a time, so at most one commit per subscription
\* is ever waiting or being applied: neither queue can grow without bound.
BoundedBacklog ==
  \A s \in Subs :
    Len(buffer[s]) + Len(applyQueue[s])
      + (IF jobStage[s] = "idle" THEN 0 ELSE 1) <= 1

\* Commands of one database never conflict with each other: a conflict means
\* that somebody else committed on the storage.
NoSelfConflict ==
  \A c \in Commands : outcome[c] = "conflict" => foreign > 0

\* A command is answered with what it did to the live queries and to the storage.
CommandsSound == ReadYourWrites /\ NoSelfConflict

\* Each commit is taken by each live query once, and none is left waiting.
EachCommitOnce == ExactlyOnce /\ BoundedBacklog

\* After close() no subscription has work left that would touch the storage.
QuietAfterClose ==
  closing = "closed" => \A s \in Subs :
    /\ boot[s] # "absent" => Settled(s) /\ released[s]
    /\ jobStage[s] = "idle" /\ current[s] = "none" /\ "demand" \notin held[s]

\* The runtime implements LiveQueries: the prefix a live query shows is
\* #lastSequence, and the acknowledged commands are those that returned.
Promise == INSTANCE LiveQueries WITH
  acked <- {c \in Commands : outcome[c] = "ok"},
  view <- [s \in Subs |-> IF disposed[s] THEN -2
                          ELSE IF shown[s] = NONE THEN -1 ELSE lastSequence[s]]
ImplementsLiveQueries == Promise!Spec

\* No result reaches a listener once its subscription is disposed.
SilentAfterDispose ==
  [][\A s \in Subs : disposed[s] => shown'[s] = shown[s]]_vars

\* Results never go back in time.
ShownForward == [][\A s \in Subs : shown'[s] >= shown[s]]_vars

\* docs/api/database.md:147: close() "disposes subscriptions, drains their
\* cleanup": none of their storage snapshots is open afterwards.
NoSnapshotLeft == closing = "closed" => \A s \in Subs : held[s] = {}

\* architecture.md:122: "A successful write waits for the local subscription
\* machinery to process its commit sequence before returning": a published
\* write is answered in the end.
PublishedWriteReturns ==
  \A c \in Commands : pc[c] = "committed" ~> pc[c] = "done"

\* subscription-storage.test.ts:475: "unsubscribing during a bucket load does
\* not fail the change stream".
UnsubscribedKeepsStream ==
  [][\A s \in Subs :
       disposed[s] /\ jobStage[s] = "opening" /\ jobStage'[s] = "idle"
         => ~(loop # "failed" /\ loop' = "failed")]_vars

\* Every command accepted by a database that stays open finishes, whatever
\* the subscriptions it waits for do: bootstrap, fail, or get unsubscribed.
CommandsFinish == \A c \in Commands : pc[c] = "queued" ~> (pc[c] = "done" \/ closing # "open")

\* Every live query reaches every commit, unless it is disposed or the change
\* loop is over.
LiveQueriesCatchUp ==
  \A s \in Subs : \A n \in Commits :
    (boot[s] # "absent" /\ head >= n)
      ~> (lastSequence[s] >= n \/ disposed[s] \/ loop \in {"ended", "failed"})

\* close() finishes although it waits for the change loop, which waits for
\* subscriptions that may still be bootstrapping.
CloseFinishes == closing = "loop" ~> closing = "closed"
=============================================================================

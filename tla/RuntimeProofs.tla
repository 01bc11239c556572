---------------------------- MODULE RuntimeProofs ----------------------------
(***************************************************************************)
(* Theorems about Runtime: its type invariant, and that acknowledged       *)
(* writes are visible in every live query (ReadYourWrites) and commands    *)
(* never conflict with each other (NoSelfConflict), that a subscription    *)
(* folds every commit after its snapshot exactly once and in order, that   *)
(* the runtime implements LiveQueries, and what close() leaves behind, for *)
(* any number of commands, subscriptions, commits and failures.            *)
(***************************************************************************)
EXTENDS Runtime, TLAPS, SequenceTheorems

-----------------------------------------------------------------------------
(* The inductive invariant.                                                *)

\* Commands that have left the caller and not come back.
Pending(c) == pc[c] \notin {"idle", "done"}
Running(c) == pc[c] \notin {"idle", "queued", "done"}

\* #commandQueue holds every pending command, the running one in front.
QueueInv ==
  /\ \A c \in Commands : Pending(c) => \E i \in DOMAIN commandQueue : commandQueue[i] = c
  /\ \A c \in Commands : Running(c) => commandQueue # <<>> /\ commandQueue[1] = c

\* What is applied has been delivered, what is delivered has been published.
CursorInv == sequence <= cursor /\ cursor <= head

\* A subscription that is not disposed is registered: it is offered commits.
RegistryInv ==
  /\ \A s \in Subs : boot[s] # "absent" /\ ~disposed[s] => s \in registered
  /\ closing \in {"cleanup", "closed"} => registered = {}

\* How far a subscription gets before commits reach it.
StageInv ==
  \A s \in Subs :
    /\ boot[s] \in {"loading", "querying", "draining"} => base[s] # NONE
    /\ base[s] # NONE => boot[s] # "absent" /\ boot[s] # "opening"
    /\ boot[s] \in {"querying", "draining"} => lastSequence[s] # NONE
    /\ lastSequence[s] # NONE => base[s] # NONE /\ boot[s] # "loading"
    /\ live[s] => boot[s] = "ready" /\ lastSequence[s] # NONE
    /\ applyQueue[s] # <<>> => boot[s] = "ready" /\ lastSequence[s] # NONE
    /\ jobStage[s] # "idle" => lastSequence[s] # NONE /\ jobSeq[s] > lastSequence[s]
    /\ shown[s] # NONE => lastSequence[s] # NONE

\* The last commit a subscription's rows reflect, or will when it is built.
Position(s) == IF lastSequence[s] # NONE THEN lastSequence[s] ELSE base[s]
Following(s) == ~disposed[s] /\ base[s] # NONE

\* No follower is behind what was applied, and none that has accepted the
\* commit being applied is behind that commit.
ProgressInv ==
  \A s \in Subs : Following(s) =>
    /\ sequence <= Position(s)
    /\ loop = "applying" /\ s \notin accepting => cursor <= Position(s)

\* A command writes at most once, and is answered once its write is applied.
AckInv ==
  \A c \in Commands :
    /\ outcome[c] # "none" => pc[c] \in {"releasing", "done"}
    /\ pc[c] \in {"idle", "queued", "invoking", "committing"} => written[c] = 0
    /\ pc[c] \in {"committed", "waiting"} \/ outcome[c] = "ok" => 1 <= written[c]
    /\ outcome[c] = "ok" => written[c] <= sequence

\* Until the running command commits, only foreign commits move the head.
SnapInv ==
  /\ \A c \in Commands :
       pc[c] \in {"invoking", "committing"} => snap[c] = head \/ foreign > 0
  /\ NoSelfConflict

IInv == /\ TypeOK /\ QueueInv /\ CursorInv /\ RegistryInv /\ StageInv
        /\ ProgressInv /\ AckInv /\ SnapInv

-----------------------------------------------------------------------------
(* The actions leave alone what a conjunct speaks of: it stays true.       *)

\* The order of the queue is about the queue and who has taken a place on it.
LEMMA QueueFrame ==
  ASSUME QueueInv, UNCHANGED <<commandQueue, pc>>
  PROVE  QueueInv'
BY DEF QueueInv, Pending, Running

\* The stages of a subscription whose bootstrap and positions stand still.
LEMMA StageFrame ==
  ASSUME StageInv, UNCHANGED <<boot, base, lastSequence, live, applyQueue, jobStage, jobSeq, shown>>
  PROVE  StageInv'
BY DEF StageInv

\* Removing nobody from those that follow, and moving no position.
LEMMA ProgressFrame ==
  ASSUME ProgressInv, UNCHANGED <<sequence, cursor, loop, accepting, disposed, lastSequence, base>>
  PROVE  ProgressInv'
BY DEF ProgressInv, Following, Position

\* Waking parked commands moves nobody on the queue.
LEMMA QueueWake ==
  ASSUME TypeOK, QueueInv, NEW woken, woken \subseteq Parked, NEW result,
         Wake(woken, result), UNCHANGED commandQueue
  PROVE  QueueInv'
<1>1. \A c \in Commands : /\ Pending(c)' <=> Pending(c)
                          /\ Running(c)' <=> Running(c)
  BY DEF TypeOK, Wake, Parked, Pending, Running
<1> QED BY <1>1 DEF QueueInv

\* Waking parked commands keeps the types.
LEMMA TypeWake ==
  ASSUME TypeOK, NEW woken, NEW result \in Outcomes, Wake(woken, result)
  PROVE  /\ pc' \in [Commands -> CommandStates]
         /\ outcome' \in [Commands -> Outcomes]
BY DEF TypeOK, Wake, CommandStates

-----------------------------------------------------------------------------
(* One lemma per task of the runtime.                                      *)

\* A fresh database satisfies the inductive invariant.
LEMMA InitIInv == Init => IInv
<1> SUFFICES ASSUME Init PROVE IInv
  OBVIOUS
<1> USE RuntimeAssumption DEF Init
<1>1. TypeOK
  <2>1. /\ head \in 0..MaxCommits /\ foreign \in 0..MaxForeign /\ sequence \in 0..MaxCommits
        /\ cursor \in 0..MaxCommits /\ faults \in 0..MaxFaults
        /\ written \in [Commands -> 0..MaxCommits] /\ jobSeq \in [Subs -> 0..MaxCommits]
    OBVIOUS
  <2>2. /\ commandQueue \in Seq(Commands)
        /\ buffer \in [Subs -> Seq(Commits)] /\ applyQueue \in [Subs -> Seq(Commits)]
        /\ applied \in [Subs -> Seq(Commits)]
    OBVIOUS
  <2>3. /\ registered \subseteq Subs /\ closures \subseteq Subs /\ accepting \subseteq Subs
        /\ held \in [Subs -> SUBSET Handles]
    OBVIOUS
  <2>4. /\ storageOpen \in BOOLEAN /\ aborted \in BOOLEAN
        /\ live \in [Subs -> BOOLEAN] /\ disposed \in [Subs -> BOOLEAN]
        /\ released \in [Subs -> BOOLEAN]
    OBVIOUS
  <2>5. /\ loop \in LoopStates /\ closing \in CloseStates
        /\ pc \in [Commands -> CommandStates] /\ outcome \in [Commands -> Outcomes]
        /\ boot \in [Subs -> BootStates] /\ jobStage \in [Subs -> JobStages]
        /\ current \in [Subs -> Handles \union {"none"}]
    BY DEF CommandStates, Outcomes, LoopStates, CloseStates, BootStates, JobStages
  <2>6. /\ snap \in [Commands -> 0..MaxCommits \union {NONE}]
        /\ lastSequence \in [Subs -> 0..MaxCommits \union {NONE}]
        /\ base \in [Subs -> 0..MaxCommits \union {NONE}]
        /\ shown \in [Subs -> 0..MaxCommits \union {NONE}]
    OBVIOUS
  <2> QED BY <2>1, <2>2, <2>3, <2>4, <2>5, <2>6 DEF TypeOK
<1>2. QueueInv
  BY DEF QueueInv, Pending, Running
<1>3. CursorInv /\ RegistryInv
  BY DEF CursorInv, RegistryInv
<1>4. StageInv /\ ProgressInv
  BY DEF StageInv, ProgressInv, Following, NONE
<1>5. AckInv /\ SnapInv
  BY DEF AckInv, SnapInv, NoSelfConflict
<1> QED BY <1>1, <1>2, <1>3, <1>4, <1>5 DEF IInv

\* What commands leave alone: the stream, the owner and the subscriptions.
LEMMA CommandFrame ==
  ASSUME IInv, NEW c \in Commands, Submit(c) \/ CommandStep(c)
  PROVE  CursorInv' /\ RegistryInv' /\ StageInv' /\ ProgressInv'
<1> USE DEF storageVars, streamVars, commandVars, ownerVars, queryVars, jobVars,
        handleVars, lifeVars, subVars, IInv
<1>1. /\ UNCHANGED <<sequence, cursor, loop, accepting, registered, closing>>
      /\ UNCHANGED <<boot, base, lastSequence, live, applyQueue, jobStage, jobSeq, shown, disposed>>
      /\ head' = head \/ head' = head + 1
  BY DEF Submit, CommandStep, CommandStart, CommandInvoke, CommandCommit, CommandRefused,
     CommandWait, CommandRelease
<1>2. CursorInv'
  BY <1>1 DEF CursorInv, TypeOK
<1> QED BY <1>1, <1>2, StageFrame, ProgressFrame DEF RegistryInv

\* The running command is the first of the queue, so no other one runs.
LEMMA RunsAlone ==
  ASSUME TypeOK, QueueInv, NEW c \in Commands, NEW d \in Commands, Running(c), Running(d)
  PROVE  c = d
BY DEF QueueInv

\* A step of the running command that leaves the queue as it is.
LEMMA QueueRun ==
  ASSUME TypeOK, QueueInv, NEW c \in Commands, NEW state \in CommandStates,
         Running(c), pc' = [pc EXCEPT ![c] = state], Running(c)', UNCHANGED commandQueue
  PROVE  QueueInv'
<1>1. \A d \in Commands : /\ Pending(d)' <=> Pending(d)
                          /\ Running(d)' <=> Running(d)
  BY DEF TypeOK, Pending, Running
<1> QED BY <1>1 DEF QueueInv

\* execute() and transact(), and commits made beside them.
LEMMA CommandPreserves ==
  ASSUME IInv, NEW c \in Commands, Submit(c) \/ CommandStep(c)
  PROVE  IInv'
<1> USE RuntimeAssumption DEF storageVars, streamVars, commandVars, ownerVars,
        queryVars, jobVars, handleVars, lifeVars, subVars, CommandStates, Outcomes, NONE
<1> TypeOK /\ QueueInv /\ AckInv /\ SnapInv /\ CursorInv
  BY DEF IInv
<1>0. CursorInv' /\ RegistryInv' /\ StageInv' /\ ProgressInv'
  BY CommandFrame
<1>1. CASE Submit(c)
  <2>1. TypeOK'
    BY <1>1 DEF TypeOK, Submit
  <2>2. QueueInv'
    <3>1. /\ commandQueue \in Seq(Commands) /\ commandQueue' = Append(commandQueue, c)
          /\ pc \in [Commands -> CommandStates] /\ pc' = [pc EXCEPT ![c] = "queued"]
      BY <1>1 DEF TypeOK, Submit
    <3> QED BY <3>1 DEF QueueInv, Pending, Running
  <2>3. AckInv' /\ SnapInv'
    <3>1. AckInv'
      BY <1>1 DEF AckInv, Submit, TypeOK
    <3>2. SnapInv'
      BY <1>1 DEF SnapInv, NoSelfConflict, Submit, TypeOK
    <3> QED BY <3>1, <3>2
  <2> QED BY <1>0, <2>1, <2>2, <2>3 DEF IInv
<1>2. CASE CommandStart(c)
  <2>1. TypeOK'
    BY <1>2 DEF TypeOK, CommandStart
  <2>2. QueueInv'
    <3>1. commandQueue # <<>> /\ commandQueue[1] = c
      <4>1. PICK i \in DOMAIN commandQueue : commandQueue[i] = c
        BY <1>2 DEF CommandStart, QueueInv, Pending
      <4>2. commandQueue \in Seq(Commands) /\ Head(commandQueue) = c
        BY <1>2 DEF TypeOK, CommandStart, Turn
      <4> QED BY <4>1, <4>2
    <3>2. \A d \in Commands : /\ Pending(d)' <=> Pending(d)
                              /\ Running(d)' => Running(d) \/ d = c
      BY <1>2 DEF TypeOK, CommandStart, Pending, Running
    <3> QED BY <1>2, <3>1, <3>2 DEF QueueInv, CommandStart
  <2>3. AckInv' /\ SnapInv'
    <3>1. AckInv'
      BY <1>2 DEF AckInv, CommandStart, TypeOK
    <3>2. SnapInv'
      BY <1>2 DEF SnapInv, NoSelfConflict, CommandStart, TypeOK
    <3> QED BY <3>1, <3>2
  <2> QED BY <1>0, <2>1, <2>2, <2>3 DEF IInv
<1>3. CASE CommandInvoke(c)
  <2>1. TypeOK'
    BY <1>3 DEF TypeOK, CommandInvoke, Finish
  <2>2. PICK next \in {"releasing", "committing"}, result \in {"none", "rejected", "readonly"} :
          /\ pc' = [pc EXCEPT ![c] = next]
          /\ outcome' = IF next = "releasing" THEN [outcome EXCEPT ![c] = result] ELSE outcome
    BY <1>3 DEF CommandInvoke, Finish
  <2>3. /\ pc[c] = "invoking"
        /\ UNCHANGED <<head, foreign, sequence, commandQueue, snap, written>>
    BY <1>3 DEF CommandInvoke
  <2>4. QueueInv'
    <3>1. Running(c) /\ Running(c)'
      BY <2>2, <2>3 DEF Running, TypeOK
    <3> QED BY <2>2, <2>3, <3>1, QueueRun
  <2>5. AckInv'
    BY <2>2, <2>3 DEF AckInv, TypeOK
  <2>6. SnapInv'
    BY <2>2, <2>3 DEF SnapInv, NoSelfConflict, TypeOK
  <2> QED BY <1>0, <2>1, <2>4, <2>5, <2>6 DEF IInv
<1>4. CASE CommandCommit(c)
  <2>1. CASE storageOpen /\ snap[c] = head
    <3>0. /\ pc[c] = "committing" /\ head < MaxCommits /\ head' = head + 1
          /\ written' = [written EXCEPT ![c] = head + 1]
          /\ pc' = [pc EXCEPT ![c] = "committed"]
          /\ UNCHANGED <<outcome, storageOpen, foreign, streamVars, commandQueue, snap,
                         ownerVars, subVars, faults>>
      BY <1>4, <2>1 DEF CommandCommit
    <3>1. TypeOK'
      <4>1. head' \in 0..MaxCommits /\ written' \in [Commands -> 0..MaxCommits]
        BY <3>0 DEF TypeOK
      <4> QED BY <3>0, <4>1 DEF TypeOK
    <3>2. QueueInv'
      BY <1>4, <2>1, QueueRun DEF CommandCommit, Running, TypeOK
    <3>3. AckInv'
      BY <3>0 DEF AckInv, TypeOK
    <3>4. \A d \in Commands : pc'[d] \notin {"invoking", "committing"}
      <4>1. \A d \in Commands : Running(d) => d = c
        BY <1>4, RunsAlone DEF CommandCommit, Running
      <4> QED BY <1>4, <2>1, <4>1 DEF CommandCommit, Running, TypeOK
    <3>5. SnapInv'
      BY <1>4, <2>1, <3>4 DEF SnapInv, NoSelfConflict, CommandCommit, TypeOK
    <3> QED BY <1>0, <3>1, <3>2, <3>3, <3>5 DEF IInv
  <2>2. CASE ~(storageOpen /\ snap[c] = head)
    <3>1. PICK result \in {"conflict", "rejected"} :
            /\ Finish(c, result)
            /\ result = "conflict" => storageOpen
      BY <1>4, <2>2 DEF CommandCommit
    <3>2. TypeOK'
      BY <1>4, <2>2, <3>1 DEF TypeOK, CommandCommit, Finish
    <3>3. QueueInv'
      BY <1>4, <2>2, <3>1, QueueRun DEF CommandCommit, Finish, Running, TypeOK
    <3>4. AckInv'
      BY <1>4, <2>2, <3>1 DEF AckInv, CommandCommit, Finish, TypeOK
    <3>5. SnapInv'
      BY <1>4, <2>2, <3>1 DEF SnapInv, NoSelfConflict, CommandCommit, Finish, TypeOK
    <3> QED BY <1>0, <3>2, <3>3, <3>4, <3>5 DEF IInv
  <2> QED BY <2>1, <2>2
<1>5. CASE CommandRefused(c)
  <2>1. TypeOK'
    BY <1>5 DEF TypeOK, CommandRefused, Finish
  <2>2. QueueInv'
    BY <1>5, QueueRun DEF CommandRefused, Finish, Running, TypeOK
  <2>3. AckInv' /\ SnapInv'
    <3>1. AckInv'
      BY <1>5 DEF AckInv, CommandRefused, Finish, TypeOK
    <3>2. SnapInv'
      BY <1>5 DEF SnapInv, NoSelfConflict, CommandRefused, Finish, TypeOK
    <3> QED BY <3>1, <3>2
  <2> QED BY <1>0, <2>1, <2>2, <2>3 DEF IInv
<1>6. CASE CommandWait(c)
  <2>1. TypeOK'
    BY <1>6 DEF TypeOK, CommandWait, Finish
  <2>2. QueueInv'
    <3>1. PICK next \in {"releasing", "waiting"} : pc' = [pc EXCEPT ![c] = next]
      BY <1>6 DEF CommandWait, Finish
    <3>2. Running(c) /\ Running(c)' /\ UNCHANGED commandQueue
      BY <1>6, <3>1 DEF CommandWait, Running, TypeOK
    <3> QED BY <3>1, <3>2, QueueRun
  <2>3. AckInv' /\ SnapInv'
    <3>1. AckInv'
      BY <1>6 DEF AckInv, CommandWait, Finish, TypeOK
    <3>2. SnapInv'
      BY <1>6 DEF SnapInv, NoSelfConflict, CommandWait, Finish, TypeOK
    <3> QED BY <3>1, <3>2
  <2> QED BY <1>0, <2>1, <2>2, <2>3 DEF IInv
<1>7. CASE CommandRelease(c)
  <2>1. commandQueue \in Seq(Commands) /\ commandQueue # <<>> /\ commandQueue[1] = c
    BY <1>7 DEF QueueInv, Running, CommandRelease, TypeOK
  <2>2. TypeOK'
    <3>1. commandQueue' \in Seq(Commands)
      BY <1>7, <2>1, HeadTailProperties DEF CommandRelease
    <3> QED BY <1>7, <3>1 DEF TypeOK, CommandRelease
  <2>3. QueueInv'
    <3>1. \A d \in Commands : Pending(d)' => Pending(d) /\ d # c
      BY <1>7 DEF TypeOK, CommandRelease, Pending
    <3>2. \A d \in Commands : ~Running(d)'
      <4>1. Running(c)
        BY <1>7 DEF CommandRelease, Running
      <4>2. \A d \in Commands : Running(d)' => Running(d) /\ d # c
        BY <1>7 DEF TypeOK, CommandRelease, Running
      <4> QED BY <4>1, <4>2, RunsAlone
    <3>3. ASSUME NEW i \in DOMAIN commandQueue, commandQueue[i] # c
          PROVE  /\ i - 1 \in DOMAIN Tail(commandQueue)
                 /\ Tail(commandQueue)[i - 1] = commandQueue[i]
      BY <2>1, <3>3
    <3> QED BY <1>7, <3>1, <3>2, <3>3 DEF QueueInv, CommandRelease
  <2>4. AckInv' /\ SnapInv'
    <3>1. AckInv'
      BY <1>7 DEF AckInv, CommandRelease, TypeOK
    <3>2. SnapInv'
      BY <1>7 DEF SnapInv, NoSelfConflict, CommandRelease, TypeOK
    <3> QED BY <3>1, <3>2
  <2> QED BY <1>0, <2>2, <2>3, <2>4 DEF IInv
<1> QED BY <1>1, <1>2, <1>3, <1>4, <1>5, <1>6, <1>7 DEF CommandStep

\* The stream, as far as it concerns one command: parked commands wake up.
LEMMA WakeFrame ==
  ASSUME TypeOK, QueueInv, AckInv, SnapInv, sequence <= sequence', sequence' \in Int,
         NEW woken \in SUBSET Parked, NEW result \in {"ok", "rejected"},
         result = "ok" => \A c \in woken : written[c] <= sequence',
         Wake(woken, result), UNCHANGED <<commandQueue, snap, written, head, foreign>>
  PROVE  /\ QueueInv' /\ AckInv' /\ SnapInv'
         /\ pc' \in [Commands -> CommandStates] /\ outcome' \in [Commands -> Outcomes]
<1>1. QueueInv'
  BY QueueWake
<1>2. pc' \in [Commands -> CommandStates] /\ outcome' \in [Commands -> Outcomes]
  BY TypeWake DEF Outcomes
<1>3. \A c \in woken : c \in Commands /\ pc[c] = "waiting"
  BY DEF Parked
<1>4. AckInv'
  BY <1>3 DEF AckInv, Wake, TypeOK
<1>5. SnapInv'
  BY <1>3 DEF SnapInv, NoSelfConflict, Wake, TypeOK
<1> QED BY <1>1, <1>2, <1>4, <1>5

\* The commands when neither their variables nor the stream's position change.
LEMMA CommandsIdle ==
  ASSUME QueueInv, AckInv, SnapInv, UNCHANGED <<commandVars, head, foreign, sequence>>
  PROVE  QueueInv' /\ AckInv' /\ SnapInv'
BY QueueFrame DEF commandVars, AckInv, SnapInv, NoSelfConflict

\* The change loop: a commit is offered, counted as applied, or the loop ends.
LEMMA StreamPreserves ==
  ASSUME IInv, LoopStep \/ ForeignCommit
  PROVE  IInv'
<1> USE RuntimeAssumption DEF storageVars, streamVars, commandVars, ownerVars,
        queryVars, jobVars, handleVars, lifeVars, subVars
<1> TypeOK /\ QueueInv /\ CursorInv /\ RegistryInv /\ StageInv /\ ProgressInv /\ AckInv /\ SnapInv
  BY DEF IInv
<1>1. CASE ForeignCommit
  <2>1. TypeOK' /\ CursorInv' /\ RegistryInv'
    BY <1>1 DEF ForeignCommit, TypeOK, CursorInv, RegistryInv
  <2>2. QueueInv' /\ StageInv' /\ ProgressInv'
    BY <1>1, QueueFrame, StageFrame, ProgressFrame DEF ForeignCommit
  <2>3. AckInv' /\ SnapInv'
    BY <1>1 DEF ForeignCommit, TypeOK, AckInv, SnapInv, NoSelfConflict
  <2> QED BY <2>1, <2>2, <2>3 DEF IInv
<1>2. CASE LoopNext
  <2> DEFINE n == cursor + 1
  <2>1. /\ loop = "next" /\ cursor' = n /\ n \in Commits /\ n <= head /\ n > sequence
        /\ UNCHANGED <<head, foreign, sequence, commandVars, registered, closing, disposed>>
        /\ UNCHANGED <<boot, live, lastSequence, base, jobStage, jobSeq, shown>>
    BY <1>2 DEF LoopNext, TypeOK, CursorInv, Commits
  <2>2. /\ loop' = "applying" /\ accepting' = Takers(n)
        /\ applyQueue' = [s \in Subs |-> IF s \in Takers(n) /\ live[s]
                                         THEN Append(applyQueue[s], n) ELSE applyQueue[s]]
        /\ buffer' = [s \in Subs |-> IF s \in Takers(n) /\ ~live[s]
                                     THEN Append(buffer[s], n) ELSE buffer[s]]
    BY <1>2, <2>1 DEF LoopNext, TypeOK
  <2>3. TypeOK'
    <3>1. \A s \in Subs : /\ Append(buffer[s], n) \in Seq(Commits)
                          /\ Append(applyQueue[s], n) \in Seq(Commits)
      BY <2>1 DEF TypeOK
    <3>2. buffer' \in [Subs -> Seq(Commits)] /\ applyQueue' \in [Subs -> Seq(Commits)]
      BY <2>2, <3>1 DEF TypeOK
    <3>3. loop' \in LoopStates /\ accepting' \subseteq Subs /\ cursor' \in 0..MaxCommits
      BY <2>1, <2>2 DEF TypeOK, LoopStates, Takers, Commits
    <3> QED BY <1>2, <3>2, <3>3 DEF TypeOK, LoopNext
  <2>4. QueueInv' /\ AckInv' /\ SnapInv'
    BY <2>1, CommandsIdle
  <2>5. CursorInv' /\ RegistryInv'
    BY <2>1 DEF CursorInv, RegistryInv, TypeOK
  <2>6. StageInv'
    <3>1. \A s \in Subs : applyQueue'[s] # <<>> => applyQueue[s] # <<>> \/ live[s]
      BY <2>2
    <3> QED BY <2>1, <3>1 DEF StageInv
  <2>7. ProgressInv'
    <3>1. SUFFICES ASSUME NEW s \in Subs, Following(s), s \notin Takers(n)
                   PROVE  n <= Position(s)
      BY <2>1, <2>2 DEF ProgressInv, Following, Position
    <3>2. s \in registered
      BY <3>1 DEF Following, RegistryInv, StageInv
    <3>3. n <= lastSequence[s]
      BY <3>1, <3>2 DEF Takers, Ignores, Following
    <3> QED BY <2>1, <3>3 DEF Position, NONE, Commits
  <2> QED BY <2>3, <2>4, <2>5, <2>6, <2>7 DEF IInv
<1>3. CASE LoopApplied
  <2>1. /\ loop = "applying" /\ accepting = {} /\ loop' = "next" /\ sequence' = cursor
        /\ Wake({c \in Parked : written[c] <= cursor}, "ok")
        /\ UNCHANGED <<commandQueue, snap, written, head, foreign, cursor, registered, closing,
                       disposed, accepting>>
        /\ UNCHANGED <<boot, base, lastSequence, live, applyQueue, jobStage, jobSeq, shown>>
    BY <1>3 DEF LoopApplied, AllAccepted
  <2>2. sequence <= sequence' /\ sequence' \in Int
    BY <2>1 DEF CursorInv, TypeOK
  <2>3. /\ QueueInv' /\ AckInv' /\ SnapInv'
        /\ pc' \in [Commands -> CommandStates] /\ outcome' \in [Commands -> Outcomes]
    BY <2>1, <2>2, WakeFrame
  <2>4. TypeOK'
    BY <1>3, <2>3 DEF LoopApplied, TypeOK, LoopStates
  <2>5. CursorInv' /\ RegistryInv' /\ StageInv'
    BY <2>1, StageFrame DEF CursorInv, RegistryInv, TypeOK
  <2>6. ProgressInv'
    BY <2>1 DEF ProgressInv, Following, Position
  <2> QED BY <2>3, <2>4, <2>5, <2>6 DEF IInv
<1>4. CASE LoopEnd
  <2>1. TypeOK'
    BY <1>4 DEF LoopEnd, TypeOK, LoopStates
  <2>2. QueueInv' /\ AckInv' /\ SnapInv' /\ StageInv'
    BY <1>4, CommandsIdle, StageFrame DEF LoopEnd
  <2>3. CursorInv' /\ RegistryInv' /\ ProgressInv'
    BY <1>4 DEF LoopEnd, CursorInv, RegistryInv, ProgressInv, Following, Position
  <2> QED BY <2>1, <2>2, <2>3 DEF IInv
<1> QED BY <1>1, <1>2, <1>3, <1>4 DEF LoopStep

\* Releasing a snapshot keeps the types.
LEMMA ReleaseType ==
  ASSUME TypeOK, NEW s \in Subs, ReleaseSnapshot(s)
  PROVE  /\ current' \in [Subs -> Handles \union {"none"}]
         /\ held' \in [Subs -> SUBSET Handles]
BY DEF ReleaseSnapshot, TypeOK

\* Bootstrap moves one subscription; the stream and the commands stand still.
LEMMA BootPreserves ==
  ASSUME IInv, NEW s \in Subs, Subscribe(s) \/ BootStep(s) \/ BootFail(s)
  PROVE  IInv'
<1> USE RuntimeAssumption DEF storageVars, streamVars, commandVars, ownerVars,
        queryVars, jobVars, handleVars, lifeVars, subVars
<1> TypeOK /\ QueueInv /\ CursorInv /\ RegistryInv /\ StageInv /\ ProgressInv /\ AckInv /\ SnapInv
  BY DEF IInv
<1>0. QueueInv' /\ AckInv' /\ SnapInv' /\ CursorInv'
  <2>1. UNCHANGED <<commandVars, storageVars, sequence, cursor>>
    BY DEF Subscribe, BootStep, BootFail, BootOpen, BootLoaded, BootPublish, BootDone
  <2> QED BY <2>1, CommandsIdle DEF CursorInv
<1>1. CASE Subscribe(s)
  <2>1. TypeOK'
    BY <1>1 DEF Subscribe, TypeOK, BootStates
  <2>2. RegistryInv'
    BY <1>1 DEF Subscribe, TypeOK, RegistryInv
  <2>3. StageInv'
    BY <1>1 DEF Subscribe, TypeOK, StageInv
  <2>4. ProgressInv'
    BY <1>1 DEF Subscribe, ProgressInv, Following, Position
  <2> QED BY <1>0, <2>1, <2>2, <2>3, <2>4 DEF IInv
<1>2. CASE BootOpen(s)
  <2>1. TypeOK'
    <3>1. CASE storageOpen
      <4>1. /\ boot' = [boot EXCEPT ![s] = "loading"]
            /\ base' = [base EXCEPT ![s] = head]
            /\ current' = [current EXCEPT ![s] = "boot"]
            /\ held' = [held EXCEPT ![s] = held[s] \union {"boot"}]
        BY <1>2, <3>1 DEF BootOpen
      <4>2. /\ boot' \in [Subs -> BootStates]
            /\ base' \in [Subs -> 0..MaxCommits \union {NONE}]
        BY <4>1 DEF TypeOK, BootStates
      <4>3. "boot" \in Handles
        BY DEF Handles
      <4>4. /\ current' \in [Subs -> Handles \union {"none"}]
            /\ held' \in [Subs -> SUBSET Handles]
        BY <4>1, <4>3 DEF TypeOK
      <4> QED BY <1>2, <4>2, <4>4 DEF BootOpen, TypeOK
    <3>2. CASE ~storageOpen
      BY <1>2, <3>2 DEF BootOpen, TypeOK, BootStates
    <3> QED BY <3>1, <3>2
  <2>2. RegistryInv'
    BY <1>2 DEF BootOpen, TypeOK, RegistryInv
  <2>3. StageInv'
    BY <1>2 DEF BootOpen, TypeOK, StageInv, NONE
  <2>4. ProgressInv'
    <3>1. base[s] = NONE /\ lastSequence[s] = NONE
      BY <1>2 DEF BootOpen, StageInv
    <3>2. CASE storageOpen
      BY <1>2, <3>1, <3>2 DEF BootOpen, ProgressInv, Following, Position, CursorInv, TypeOK, NONE
    <3>3. CASE ~storageOpen
      BY <1>2, <3>3 DEF BootOpen, ProgressInv, Following, Position
    <3> QED BY <3>2, <3>3
  <2> QED BY <1>0, <2>1, <2>2, <2>3, <2>4 DEF IInv
<1>3. CASE BootLoaded(s)
  <2>1. TypeOK'
    <3>1. /\ boot' \in [Subs -> BootStates]
          /\ lastSequence' \in [Subs -> 0..MaxCommits \union {NONE}]
      BY <1>3 DEF BootLoaded, TypeOK, BootStates
    <3>2. /\ current' \in [Subs -> Handles \union {"none"}]
          /\ held' \in [Subs -> SUBSET Handles]
      BY <1>3, ReleaseType DEF BootLoaded, TypeOK
    <3> QED BY <1>3, <3>1, <3>2 DEF BootLoaded, TypeOK
  <2>2. RegistryInv'
    BY <1>3 DEF BootLoaded, TypeOK, RegistryInv
  <2>3. StageInv'
    BY <1>3 DEF BootLoaded, TypeOK, StageInv, NONE
  <2>4. ProgressInv'
    BY <1>3 DEF BootLoaded, ProgressInv, Following, Position, StageInv, TypeOK
  <2> QED BY <1>0, <2>1, <2>2, <2>3, <2>4 DEF IInv
<1>4. CASE BootPublish(s)
  <2>1. TypeOK'
    BY <1>4 DEF BootPublish, Publish, TypeOK, BootStates
  <2>2. RegistryInv'
    BY <1>4 DEF BootPublish, TypeOK, RegistryInv
  <2>3. StageInv'
    BY <1>4 DEF BootPublish, Publish, TypeOK, StageInv
  <2>4. ProgressInv'
    BY <1>4, ProgressFrame DEF BootPublish
  <2> QED BY <1>0, <2>1, <2>2, <2>3, <2>4 DEF IInv
<1>5. CASE BootDone(s)
  <2>1. TypeOK'
    BY <1>5 DEF BootDone, TypeOK, BootStates, Handles, ReleaseSnapshot
  <2>2. RegistryInv'
    BY <1>5 DEF BootDone, TypeOK, RegistryInv
  <2>3. StageInv'
    BY <1>5 DEF BootDone, TypeOK, StageInv
  <2>4. ProgressInv'
    BY <1>5, ProgressFrame DEF BootDone
  <2> QED BY <1>0, <2>1, <2>2, <2>3, <2>4 DEF IInv
<1>6. CASE BootFail(s)
  <2>1. TypeOK'
    BY <1>6 DEF BootFail, TypeOK, BootStates, Handles, ReleaseSnapshot
  <2>2. RegistryInv'
    BY <1>6 DEF BootFail, TypeOK, RegistryInv
  <2>3. StageInv'
    BY <1>6 DEF BootFail, TypeOK, StageInv
  <2>4. ProgressInv'
    BY <1>6, ProgressFrame DEF BootFail
  <2> QED BY <1>0, <2>1, <2>2, <2>3, <2>4 DEF IInv
<1> QED BY <1>1, <1>2, <1>3, <1>4, <1>5, <1>6 DEF BootStep

\* Folding a later commit than the last one, or skipping one: accept() may
\* resolve then, because the position of the subscription has reached it.
LEMMA ProgressAccepted ==
  ASSUME TypeOK, StageInv, ProgressInv, NEW s \in Subs, NEW n \in Commits,
         lastSequence[s] # NONE, Accepted(s, n),
         \/ n > lastSequence[s] /\ lastSequence' = [lastSequence EXCEPT ![s] = n]
         \/ Ignores(s, n) /\ UNCHANGED lastSequence,
         UNCHANGED <<sequence, cursor, loop, disposed, base>>
  PROVE  ProgressInv'
<1>1. \A t \in Subs : t \notin accepting' /\ t # s => t \notin accepting
  BY DEF Accepted
<1>2. \A t \in Subs : t # s /\ Following(t) => Position(t)' = Position(t)
  BY DEF Following, Position, TypeOK
<1>3. \A t \in Subs : Following(t)' <=> Following(t)
  BY DEF Following
<1>4. Following(s) => /\ Position(s)' >= Position(s)
                      /\ s \notin accepting' => s \notin accepting \/ cursor <= Position(s)'
  BY DEF Following, Position, Accepted, Ignores, TypeOK, Commits, NONE
<1>5. \A t \in Subs : Following(t) => Position(t) \in Int /\ Position(t)' \in Int
  <2>1. \A t \in Subs : Position(t) \in Int
    BY DEF Position, TypeOK, NONE
  <2>2. Position(s)' \in Int
    BY DEF Position, TypeOK, NONE, Commits
  <2> QED BY <1>2, <2>1, <2>2
<1>6. sequence \in Int /\ cursor \in Int
  BY DEF TypeOK
<1> QED BY <1>1, <1>2, <1>3, <1>4, <1>5, <1>6 DEF ProgressInv

\* Folding a commit keeps the types.
LEMMA FoldType ==
  ASSUME TypeOK, NEW s \in Subs, NEW n \in Commits, Fold(s, n)
  PROVE  /\ lastSequence' \in [Subs -> 0..MaxCommits \union {NONE}]
         /\ applied' \in [Subs -> Seq(Commits)]
<1>1. Append(applied[s], n) \in Seq(Commits)
  BY DEF TypeOK
<1> QED BY <1>1 DEF Fold, TypeOK, Commits

\* ApplyEnd: the job's commit is folded in and published.
LEMMA EndPreserves ==
  ASSUME IInv, NEW s \in Subs, ApplyEnd(s), jobStage[s] # "idle",
         ReleaseSnapshot(s) \/ UNCHANGED handleVars
  PROVE  IInv'
<1> USE RuntimeAssumption DEF storageVars, streamVars, commandVars, ownerVars,
        queryVars, jobVars, handleVars, lifeVars, subVars
<1> TypeOK /\ QueueInv /\ CursorInv /\ RegistryInv /\ StageInv /\ ProgressInv /\ AckInv /\ SnapInv
  BY DEF IInv
<1> DEFINE n == jobSeq[s]
<1>1. n \in Commits /\ lastSequence[s] # NONE /\ n > lastSequence[s]
  BY DEF StageInv, TypeOK, NONE, Commits
<1>2. QueueInv' /\ AckInv' /\ SnapInv' /\ CursorInv' /\ RegistryInv'
  BY CommandsIdle DEF ApplyEnd, CursorInv, RegistryInv
<1>3. TypeOK'
  <2>1. /\ current' \in [Subs -> Handles \union {"none"}]
        /\ held' \in [Subs -> SUBSET Handles]
    BY ReleaseType DEF TypeOK
  <2>2. /\ lastSequence' \in [Subs -> 0..MaxCommits \union {NONE}]
        /\ applied' \in [Subs -> Seq(Commits)]
    BY <1>1, FoldType DEF ApplyEnd
  <2>3. /\ jobStage' \in [Subs -> JobStages]
        /\ shown' \in [Subs -> 0..MaxCommits \union {NONE}]
        /\ accepting' \subseteq Subs
    BY <1>1 DEF ApplyEnd, Publish, Accepted, TypeOK, JobStages
  <2> QED BY <2>1, <2>2, <2>3 DEF ApplyEnd, TypeOK
<1>4. StageInv'
  BY <1>1 DEF ApplyEnd, Fold, Publish, StageInv, TypeOK, NONE
<1>5. ProgressInv'
  BY <1>1, ProgressAccepted DEF ApplyEnd, Fold
<1> QED BY <1>2, <1>3, <1>4, <1>5 DEF IInv

\* A commit that is not ignored is later than the last one.
LEMMA NotIgnored ==
  ASSUME TypeOK, NEW s \in Subs, NEW n \in Commits, ~Ignores(s, n)
  PROVE  n > lastSequence[s]
<1>1. ~(n <= lastSequence[s])
  BY DEF Ignores
<1>2. n \in Int /\ lastSequence[s] \in Int
  BY DEF TypeOK, Commits, NONE
<1> QED BY <1>1, <1>2

\* The next waiting commit leaves its queue.
LEMMA BeginPreserves ==
  ASSUME IInv, NEW s \in Subs, ApplyBegin(s)
  PROVE  IInv'
<1> USE RuntimeAssumption DEF storageVars, streamVars, commandVars, ownerVars,
        queryVars, jobVars, handleVars, lifeVars, subVars
<1> TypeOK /\ QueueInv /\ CursorInv /\ RegistryInv /\ StageInv /\ ProgressInv /\ AckInv /\ SnapInv
  BY DEF IInv
<1>1. QueueInv' /\ AckInv' /\ SnapInv' /\ CursorInv' /\ RegistryInv'
  BY CommandsIdle DEF ApplyBegin, CursorInv, RegistryInv
<1>2. PICK n \in Commits :
        /\ lastSequence[s] # NONE /\ jobStage[s] = "idle"
        /\ \/ buffer' = [buffer EXCEPT ![s] = Tail(@)] /\ buffer[s] # <<>> /\ UNCHANGED applyQueue
           \/ applyQueue' = [applyQueue EXCEPT ![s] = Tail(@)] /\ applyQueue[s] # <<>>
              /\ UNCHANGED buffer
        /\ \/ /\ Ignores(s, n)
              /\ Accepted(s, n)
              /\ UNCHANGED <<jobStage, jobSeq, lastSequence, applied>>
           \/ /\ ~Ignores(s, n)
              /\ Fold(s, n)
              /\ Accepted(s, n)
              /\ UNCHANGED <<jobStage, jobSeq>>
           \/ /\ ~Ignores(s, n)
              /\ jobStage' = [jobStage EXCEPT ![s] = "dataflow"]
              /\ jobSeq' = [jobSeq EXCEPT ![s] = n]
              /\ UNCHANGED <<accepting, lastSequence, applied>>
  <2>1. PICK fromBuffer \in BOOLEAN :
          LET waiting == IF fromBuffer THEN buffer[s] ELSE applyQueue[s]
          IN /\ jobStage[s] = "idle" /\ waiting # <<>>
             /\ fromBuffer => boot[s] = "draining"
             /\ IF fromBuffer
                THEN buffer' = [buffer EXCEPT ![s] = Tail(@)] /\ UNCHANGED applyQueue
                ELSE applyQueue' = [applyQueue EXCEPT ![s] = Tail(@)] /\ UNCHANGED buffer
             /\ \/ /\ Ignores(s, Head(waiting))
                   /\ Accepted(s, Head(waiting))
                   /\ UNCHANGED <<jobStage, jobSeq, lastSequence, applied>>
                \/ /\ ~Ignores(s, Head(waiting))
                   /\ Fold(s, Head(waiting))
                   /\ Accepted(s, Head(waiting))
                   /\ UNCHANGED <<jobStage, jobSeq>>
                \/ /\ ~Ignores(s, Head(waiting))
                   /\ jobStage' = [jobStage EXCEPT ![s] = "dataflow"]
                   /\ jobSeq' = [jobSeq EXCEPT ![s] = Head(waiting)]
                   /\ UNCHANGED <<accepting, lastSequence, applied>>
    BY DEF ApplyBegin
  <2> DEFINE waiting == IF fromBuffer THEN buffer[s] ELSE applyQueue[s]
  <2>2. waiting \in Seq(Commits) /\ waiting # <<>>
    BY <2>1 DEF TypeOK
  <2>3. Head(waiting) \in Commits
    BY <2>2
  <2>4. lastSequence[s] # NONE
    BY <2>1 DEF StageInv
  <2> QED BY <2>1, <2>3, <2>4
<1>3. UNCHANGED <<storageVars, sequence, cursor, loop, commandVars, ownerVars, boot, live,
                  disposed, released, base, shown, handleVars, faults>>
  BY DEF ApplyBegin
<1>4. \A q \in Seq(Commits) : q # <<>> => Tail(q) \in Seq(Commits)
  BY HeadTailProperties
<1>5. buffer' \in [Subs -> Seq(Commits)] /\ applyQueue' \in [Subs -> Seq(Commits)]
  <2>1. CASE UNCHANGED applyQueue /\ buffer[s] # <<>> /\ buffer' = [buffer EXCEPT ![s] = Tail(@)]
    BY <2>1, <1>4 DEF TypeOK
  <2>2. CASE UNCHANGED buffer /\ applyQueue[s] # <<>> /\ applyQueue' = [applyQueue EXCEPT ![s] = Tail(@)]
    BY <2>2, <1>4 DEF TypeOK
  <2> QED BY <1>2, <2>1, <2>2
<1>6. \A t \in Subs : applyQueue'[t] # <<>> => applyQueue[t] # <<>>
  BY <1>2 DEF TypeOK
<1>7. CASE /\ Ignores(s, n)
           /\ Accepted(s, n)
           /\ UNCHANGED <<jobStage, jobSeq, lastSequence, applied>>
  <2>1. TypeOK'
    <3>1. accepting' \subseteq Subs
      BY <1>7 DEF Accepted, TypeOK
    <3> QED BY <1>3, <1>5, <1>7, <3>1 DEF TypeOK
  <2>2. StageInv'
    BY <1>3, <1>6, <1>7 DEF StageInv
  <2>3. ProgressInv'
    BY <1>2, <1>3, <1>7, ProgressAccepted
  <2> QED BY <1>1, <2>1, <2>2, <2>3 DEF IInv
<1>8. CASE /\ ~Ignores(s, n)
           /\ Fold(s, n)
           /\ Accepted(s, n)
           /\ UNCHANGED <<jobStage, jobSeq>>
  <2>1. TypeOK'
    <3>1. /\ lastSequence' \in [Subs -> 0..MaxCommits \union {NONE}]
          /\ applied' \in [Subs -> Seq(Commits)]
      BY <1>8, FoldType
    <3>2. accepting' \subseteq Subs
      BY <1>8 DEF Accepted, TypeOK
    <3> QED BY <1>3, <1>5, <1>8, <3>1, <3>2 DEF TypeOK
  <2>2. n > lastSequence[s]
    BY <1>8, NotIgnored
  <2>3. StageInv'
    <3>1. lastSequence' = [lastSequence EXCEPT ![s] = n] /\ n # NONE
      BY <1>8 DEF Fold, NONE, Commits
    <3> QED BY <1>2, <1>3, <1>6, <1>8, <3>1 DEF StageInv, TypeOK
  <2>4. ProgressInv'
    BY <1>2, <1>3, <1>8, <2>2, ProgressAccepted DEF Fold
  <2> QED BY <1>1, <2>1, <2>3, <2>4 DEF IInv
<1>9. CASE /\ ~Ignores(s, n)
           /\ jobStage' = [jobStage EXCEPT ![s] = "dataflow"]
           /\ jobSeq' = [jobSeq EXCEPT ![s] = n]
           /\ UNCHANGED <<accepting, lastSequence, applied>>
  <2>1. TypeOK'
    <3>1. jobStage' \in [Subs -> JobStages] /\ jobSeq' \in [Subs -> 0..MaxCommits]
      BY <1>9 DEF TypeOK, JobStages, Commits
    <3> QED BY <1>3, <1>5, <1>9, <3>1 DEF TypeOK
  <2>2. n > lastSequence[s]
    BY <1>9, NotIgnored
  <2>3. StageInv'
    BY <1>2, <1>3, <1>6, <1>9, <2>2 DEF StageInv, TypeOK
  <2>4. ProgressInv'
    BY <1>3, <1>9, ProgressFrame
  <2> QED BY <1>1, <2>1, <2>3, <2>4 DEF IInv
<1> QED BY <1>2, <1>7, <1>8, <1>9

\* apply() of one commit, up to its end or its failure.
LEMMA ApplyPreserves ==
  ASSUME IInv, NEW s \in Subs, ApplyStep(s) \/ ApplyCancelled(s) \/ ApplyFail(s)
  PROVE  IInv'
<1> USE RuntimeAssumption DEF storageVars, streamVars, commandVars, ownerVars,
        queryVars, jobVars, handleVars, lifeVars, subVars
<1> TypeOK /\ QueueInv /\ CursorInv /\ RegistryInv /\ StageInv /\ ProgressInv /\ AckInv /\ SnapInv
  BY DEF IInv
<1>1. CASE ApplyBegin(s)
  BY <1>1, BeginPreserves
<1>2. CASE ApplyFlush(s)
  BY <1>2, EndPreserves DEF ApplyFlush
<1>3. CASE ApplySettled(s)
  BY <1>3, EndPreserves DEF ApplySettled
<1>4. CASE ApplyDemand(s)
  <2>1. TypeOK'
    BY <1>4 DEF ApplyDemand, TypeOK, JobStages
  <2>2. StageInv'
    BY <1>4 DEF ApplyDemand, StageInv, TypeOK
  <2>3. QueueInv' /\ AckInv' /\ SnapInv' /\ CursorInv' /\ RegistryInv' /\ ProgressInv'
    BY <1>4, CommandsIdle, ProgressFrame DEF ApplyDemand, CursorInv, RegistryInv
  <2> QED BY <2>1, <2>2, <2>3 DEF IInv
<1>5. CASE ApplyOpen(s)
  <2>1. TypeOK'
    <3>1. "demand" \in Handles /\ "settling" \in JobStages
      BY DEF Handles, JobStages
    <3> QED BY <1>5, <3>1 DEF ApplyOpen, TypeOK
  <2>2. StageInv'
    BY <1>5 DEF ApplyOpen, StageInv, TypeOK
  <2>3. QueueInv' /\ AckInv' /\ SnapInv' /\ CursorInv' /\ RegistryInv' /\ ProgressInv'
    BY <1>5, CommandsIdle, ProgressFrame DEF ApplyOpen, CursorInv, RegistryInv
  <2> QED BY <2>1, <2>2, <2>3 DEF IInv
<1>6. CASE ApplyCancelled(s)
  <2>1. TypeOK'
    <3>1. /\ current' \in [Subs -> Handles \union {"none"}]
          /\ held' \in [Subs -> SUBSET Handles]
      BY <1>6, ReleaseType DEF ApplyCancelled
    <3>2. accepting' \subseteq Subs /\ jobStage' \in [Subs -> JobStages] /\ faults' \in 0..MaxFaults
      BY <1>6 DEF ApplyCancelled, Accepted, TypeOK, JobStages
    <3> QED BY <1>6, <3>1, <3>2 DEF ApplyCancelled, TypeOK
  <2>2. StageInv'
    BY <1>6 DEF ApplyCancelled, StageInv, TypeOK
  <2>3. QueueInv' /\ AckInv' /\ SnapInv' /\ CursorInv' /\ RegistryInv'
    BY <1>6, CommandsIdle DEF ApplyCancelled, CursorInv, RegistryInv
  <2>4. ProgressInv'
    BY <1>6 DEF ApplyCancelled, Accepted, ProgressInv, Following, Position
  <2> QED BY <2>1, <2>2, <2>3, <2>4 DEF IInv
<1>7. CASE ApplyFail(s)
  <2>1. /\ UNCHANGED <<sequence, cursor, accepting, commandQueue, snap, written, head, foreign,
                       registered, closing, disposed, base, lastSequence, live, applyQueue,
                       jobSeq, shown>>
        /\ jobStage' = [jobStage EXCEPT ![s] = "idle"]
        /\ boot' = [boot EXCEPT ![s] = IF @ = "draining" THEN "failed" ELSE @]
        /\ ReleaseSnapshot(s) \/ UNCHANGED handleVars
        /\ LoopRejects(s)
    BY <1>7 DEF ApplyFail
  <2>2. /\ QueueInv' /\ AckInv' /\ SnapInv'
        /\ pc' \in [Commands -> CommandStates] /\ outcome' \in [Commands -> Outcomes]
        /\ loop' \in LoopStates
        /\ loop' = "applying" => loop = "applying"
    <3>1. CASE Wake(Parked, "rejected") /\ loop' = "failed"
      <4>1. sequence <= sequence' /\ sequence' \in Int
        BY <2>1 DEF TypeOK
      <4> QED BY <2>1, <3>1, <4>1, WakeFrame DEF LoopStates
    <3>2. CASE UNCHANGED <<pc, outcome>> /\ loop' \in {loop, "ended"}
      BY <2>1, <3>2, CommandsIdle DEF LoopStates, TypeOK
    <3> QED BY <2>1, <3>1, <3>2 DEF LoopRejects
  <2>3. TypeOK'
    <3>1. /\ current' \in [Subs -> Handles \union {"none"}]
          /\ held' \in [Subs -> SUBSET Handles]
      BY <2>1, ReleaseType DEF TypeOK
    <3>2. boot' \in [Subs -> BootStates] /\ jobStage' \in [Subs -> JobStages]
      BY <2>1 DEF TypeOK, BootStates, JobStages
    <3>3. faults' \in 0..MaxFaults
      BY <1>7 DEF ApplyFail, TypeOK
    <3>4. UNCHANGED <<storageVars, ownerVars, live, disposed, released, buffer, queryVars>>
      BY <1>7 DEF ApplyFail
    <3> QED BY <2>1, <2>2, <3>1, <3>2, <3>3, <3>4 DEF TypeOK
  <2>4. StageInv'
    BY <2>1 DEF StageInv, TypeOK
  <2>5. CursorInv' /\ RegistryInv'
    BY <2>1 DEF CursorInv, RegistryInv, TypeOK
  <2>6. ProgressInv'
    BY <2>1, <2>2 DEF ProgressInv, Following, Position
  <2> QED BY <2>2, <2>3, <2>4, <2>5, <2>6 DEF IInv
<1> QED BY <1>1, <1>2, <1>3, <1>4, <1>5, <1>6, <1>7 DEF ApplyStep

\* Disposed subscriptions stop following, and only they leave accepting.
LEMMA DisposeFrame ==
  ASSUME TypeOK, RegistryInv, StageInv, ProgressInv, NEW D \in SUBSET Subs, DisposeAll(D),
         UNCHANGED <<sequence, cursor, loop, boot, live, queryVars, jobVars>>,
         closing' = closing \/ registered' = {}
  PROVE  /\ RegistryInv' /\ StageInv' /\ ProgressInv'
         /\ registered' \subseteq Subs /\ accepting' \subseteq Subs /\ closures' \subseteq Subs
         /\ disposed' \in [Subs -> BOOLEAN] /\ buffer' \in [Subs -> Seq(Commits)]
<1> USE DEF queryVars, jobVars
<1>1. \A s \in Subs : ~disposed'[s] => ~disposed[s] /\ s \notin D
  BY DEF DisposeAll
<1>2. RegistryInv'
  BY <1>1 DEF DisposeAll, RegistryInv
<1>3. StageInv'
  BY StageFrame
<1>4. ProgressInv'
  <2>1. \A s \in Subs : s \notin accepting' /\ s \notin D => s \notin accepting
    BY DEF DisposeAll, Resolved
  <2> QED BY <1>1, <2>1 DEF ProgressInv, Following, Position
<1>5. registered' \subseteq Subs /\ accepting' \subseteq Subs /\ closures' \subseteq Subs
  BY DEF DisposeAll, TypeOK
<1>6. disposed' \in [Subs -> BOOLEAN] /\ buffer' \in [Subs -> Seq(Commits)]
  <2>1. <<>> \in Seq(Commits)
    OBVIOUS
  <2> QED BY <2>1 DEF DisposeAll, TypeOK
<1> QED BY <1>2, <1>3, <1>4, <1>5, <1>6

\* Disposal, by the caller, after a failed bootstrap and at shutdown.
LEMMA OwnerPreserves ==
  ASSUME IInv,
         \/ \E s \in Subs : Unsubscribe(s) \/ CleanupStep(s)
         \/ CloseBegin \/ CloseStep
  PROVE  IInv'
<1> USE RuntimeAssumption DEF storageVars, streamVars, commandVars, ownerVars,
        queryVars, jobVars, handleVars, lifeVars, subVars
<1> TypeOK /\ QueueInv /\ CursorInv /\ RegistryInv /\ StageInv /\ ProgressInv /\ AckInv /\ SnapInv
  BY DEF IInv
<1>1. ASSUME NEW s \in Subs, Unsubscribe(s) \/ DisposeFailed(s)
      PROVE  IInv'
  <2>1. /\ RegistryInv' /\ StageInv' /\ ProgressInv'
        /\ registered' \subseteq Subs /\ accepting' \subseteq Subs /\ closures' \subseteq Subs
        /\ disposed' \in [Subs -> BOOLEAN] /\ buffer' \in [Subs -> Seq(Commits)]
    BY <1>1, DisposeFrame DEF Unsubscribe, DisposeFailed
  <2>2. TypeOK'
    BY <1>1, <2>1 DEF Unsubscribe, DisposeFailed, TypeOK
  <2>3. QueueInv' /\ AckInv' /\ SnapInv' /\ CursorInv'
    BY <1>1, CommandsIdle DEF Unsubscribe, DisposeFailed, CursorInv
  <2> QED BY <2>1, <2>2, <2>3 DEF IInv
<1>2. ASSUME NEW s \in Subs, ReleaseResources(s)
      PROVE  IInv'
  <2>1. TypeOK'
    <3>1. /\ current' \in [Subs -> Handles \union {"none"}]
          /\ held' \in [Subs -> SUBSET Handles]
      BY <1>2, ReleaseType DEF ReleaseResources
    <3> QED BY <1>2, <3>1 DEF ReleaseResources, TypeOK
  <2>2. QueueInv' /\ AckInv' /\ SnapInv' /\ CursorInv' /\ RegistryInv' /\ StageInv' /\ ProgressInv'
    BY <1>2, CommandsIdle, StageFrame, ProgressFrame DEF ReleaseResources, CursorInv, RegistryInv
  <2> QED BY <2>1, <2>2 DEF IInv
<1>3. CASE CloseBegin
  <2>1. /\ QueueInv' /\ AckInv' /\ SnapInv'
        /\ pc' \in [Commands -> CommandStates] /\ outcome' \in [Commands -> Outcomes]
    <3>1. /\ Wake(Parked, "rejected")
          /\ UNCHANGED <<sequence, commandQueue, snap, written, head, foreign>>
      BY <1>3 DEF CloseBegin
    <3>2. sequence <= sequence' /\ sequence' \in Int
      BY <3>1 DEF TypeOK
    <3> QED BY <3>1, <3>2, WakeFrame
  <2>2. TypeOK'
    BY <1>3, <2>1 DEF CloseBegin, TypeOK, CloseStates
  <2>3. CursorInv' /\ RegistryInv' /\ StageInv' /\ ProgressInv'
    BY <1>3, StageFrame, ProgressFrame DEF CloseBegin, CursorInv, RegistryInv
  <2> QED BY <2>1, <2>2, <2>3 DEF IInv
<1>4. CASE CloseDispose
  <2>1. /\ RegistryInv' /\ StageInv' /\ ProgressInv'
        /\ registered' \subseteq Subs /\ accepting' \subseteq Subs /\ closures' \subseteq Subs
        /\ disposed' \in [Subs -> BOOLEAN] /\ buffer' \in [Subs -> Seq(Commits)]
    <3>1. DisposeAll(registered) /\ registered' = {} /\ registered \in SUBSET Subs
      BY <1>4 DEF CloseDispose, DisposeAll, TypeOK
    <3> QED BY <1>4, <3>1, DisposeFrame DEF CloseDispose
  <2>2. TypeOK'
    BY <1>4, <2>1 DEF CloseDispose, TypeOK, CloseStates
  <2>3. QueueInv' /\ AckInv' /\ SnapInv' /\ CursorInv'
    BY <1>4, CommandsIdle DEF CloseDispose, CursorInv
  <2> QED BY <2>1, <2>2, <2>3 DEF IInv
<1>5. CASE CloseStorage
  <2>1. TypeOK'
    BY <1>5 DEF CloseStorage, TypeOK, CloseStates
  <2>2. RegistryInv'
    BY <1>5 DEF CloseStorage, RegistryInv
  <2>3. QueueInv' /\ AckInv' /\ SnapInv' /\ CursorInv' /\ StageInv' /\ ProgressInv'
    BY <1>5, CommandsIdle, StageFrame, ProgressFrame DEF CloseStorage, CursorInv
  <2> QED BY <2>1, <2>2, <2>3 DEF IInv
<1> QED BY <1>1, <1>2, <1>3, <1>4, <1>5 DEF CleanupStep, CloseStep

-----------------------------------------------------------------------------
(* The theorems.                                                           *)

\* Every step of the runtime preserves the inductive invariant.
THEOREM Inductive == IInv /\ [Next]_vars => IInv'
<1> SUFFICES ASSUME IInv, [Next]_vars PROVE IInv'
  OBVIOUS
<1>1. CASE UNCHANGED vars
  BY <1>1 DEF IInv, TypeOK, QueueInv, Pending, Running, CursorInv, RegistryInv, StageInv,
     ProgressInv, Following, Position, AckInv, SnapInv, NoSelfConflict, vars, storageVars,
     streamVars, commandVars, ownerVars, queryVars, jobVars, handleVars, lifeVars, subVars
<1>2. CASE Next
  BY <1>2, CommandPreserves, StreamPreserves, BootPreserves, ApplyPreserves, OwnerPreserves
     DEF Next
<1> QED BY <1>1, <1>2

\* Spec keeps the inductive invariant.
THEOREM SpecIInv == Spec => []IInv
<1>1. Init => IInv
  BY InitIInv
<1>2. IInv /\ [Next]_vars => IInv'
  BY Inductive
<1> QED BY <1>1, <1>2, PTL DEF Spec

\* The state of the runtime keeps its types (QueryDatabase, SubscriptionRuntime).
THEOREM TypeCorrect == Spec => []TypeOK
<1>1. IInv => TypeOK
  BY DEF IInv
<1> QED BY <1>1, SpecIInv, PTL

\* After execute() or transact() has returned a write, every live query that
\* has published and is not disposed has that write folded in.
THEOREM ReadsOwnWrites == Spec => []ReadYourWrites
<1>1. IInv => ReadYourWrites
  <2>1. SUFFICES ASSUME IInv, NEW c \in Commands, NEW s \in Subs,
                        outcome[c] = "ok", Showing(s)
                 PROVE  written[c] <= lastSequence[s]
    BY DEF ReadYourWrites
  <2>2. written[c] <= sequence
    BY <2>1 DEF IInv, AckInv
  <2>3. lastSequence[s] # NONE /\ Following(s)
    BY <2>1 DEF IInv, StageInv, Showing, Following
  <2>4. sequence <= lastSequence[s]
    BY <2>1, <2>3 DEF IInv, ProgressInv, Position
  <2>5. written[c] \in Int /\ sequence \in Int /\ lastSequence[s] \in Int
    BY <2>1 DEF IInv, TypeOK, NONE
  <2> QED BY <2>2, <2>4, <2>5
<1> QED BY <1>1, SpecIInv, PTL

\* Commands of one database never conflict with each other: the queue runs one
\* at a time, so a conflict means somebody else committed on the storage.
THEOREM NeverSelfConflicts == Spec => []NoSelfConflict
<1>1. IInv => NoSelfConflict
  BY DEF IInv, SnapInv
<1> QED BY <1>1, SpecIInv, PTL

\* A result a command left behind is shown no earlier than the command's own commit, and no
\* command loses against another of its database.
THEOREM CommandsAreSound == Spec => []CommandsSound
BY ReadsOwnWrites, NeverSelfConflicts, PTL DEF CommandsSound

-----------------------------------------------------------------------------
(* What a live query is made of: a second inductive invariant, on top of   *)
(* IInv.                                                                   *)

\* The loop is at most one commit ahead of what is applied.
StreamInv ==
  /\ cursor \in {sequence, sequence + 1}
  /\ loop = "next" => cursor = sequence

\* Nothing waits for s and nothing is being applied.
NoBacklog(s) == buffer[s] = <<>> /\ applyQueue[s] = <<>> /\ jobStage[s] = "idle"

\* What waits for s is the commit the loop is at, once, and the loop waits for s.
BacklogInv ==
  \A s \in Subs :
    /\ buffer[s] # <<>> =>
         buffer[s] = <<cursor>> /\ applyQueue[s] = <<>> /\ jobStage[s] = "idle"
    /\ applyQueue[s] # <<>> =>
         applyQueue[s] = <<cursor>> /\ buffer[s] = <<>> /\ jobStage[s] = "idle"
    /\ jobStage[s] # "idle" =>
         jobSeq[s] = cursor /\ buffer[s] = <<>> /\ applyQueue[s] = <<>>
    /\ ~NoBacklog(s) => loop # "next" /\ (loop = "applying" => s \in accepting)

\* Where s stands in the log, and what its listener has been given.
PlaceInv ==
  \A s \in Subs :
    /\ jobStage[s] # "idle" => jobSeq[s] = lastSequence[s] + 1 /\ boot[s] \in {"draining", "ready"}
    /\ boot[s] = "querying" => lastSequence[s] = base[s] /\ shown[s] = NONE
    /\ base[s] <= head /\ lastSequence[s] <= head
    /\ shown[s] <= lastSequence[s]
    /\ boot[s] = "draining" \/ live[s] \/ applyQueue[s] # <<>> \/ jobStage[s] # "idle"
         => shown[s] # NONE \/ disposed[s]

\* The commits folded into s are those after its snapshot.
ContentInv ==
  /\ \A s \in Subs : lastSequence[s] = NONE => applied[s] = <<>>
  /\ ExactlyOnce

DInv == StreamInv /\ BacklogInv /\ PlaceInv /\ ContentInv

-----------------------------------------------------------------------------
(* Steps that leave alone what a conjunct speaks of.                       *)

\* A queue of one.
LEMMA Singleton ==
  ASSUME NEW x
  PROVE  /\ Head(<<x>>) = x /\ Tail(<<x>>) = <<>>
         /\ Len(<<x>>) = 1 /\ Len(<<>>) = 0
OBVIOUS

\* Nothing new waits or is being applied; the loop stands still or ends.
LEMMA BacklogFrame ==
  ASSUME BacklogInv,
         UNCHANGED <<buffer, applyQueue, jobStage, jobSeq, cursor, accepting>>,
         loop' = loop \/ loop' \in {"ended", "failed"}
  PROVE  BacklogInv'
BY DEF BacklogInv, NoBacklog

\* Neither the subscription nor its listener moves; the log may grow.
LEMMA PlaceFrame ==
  ASSUME PlaceInv, TypeOK, head <= head', head' \in Int,
         UNCHANGED <<jobStage, jobSeq, lastSequence, boot, base, shown, live, applyQueue>>,
         \A s \in Subs : disposed[s] => disposed'[s]
  PROVE  PlaceInv'
<1>1. head \in Int /\ \A s \in Subs : base[s] \in Int /\ lastSequence[s] \in Int
  BY DEF TypeOK, NONE
<1> QED BY <1>1 DEF PlaceInv

\* Only s has moved, past its bootstrap, and nothing is being applied there.
LEMMA PlaceOne ==
  ASSUME PlaceInv, NEW s \in Subs, boot[s] # "querying", jobStage'[s] = "idle",
         shown'[s] <= lastSequence'[s], lastSequence'[s] <= head',
         shown'[s] # NONE \/ disposed[s],
         UNCHANGED <<head, boot, base, live, disposed, jobSeq>>,
         \A t \in Subs : t # s => /\ lastSequence'[t] = lastSequence[t]
                                  /\ jobStage'[t] = jobStage[t] /\ shown'[t] = shown[t]
                                  /\ applyQueue'[t] = applyQueue[t]
  PROVE  PlaceInv'
<1>1. SUFFICES ASSUME NEW t \in Subs
               PROVE  /\ jobStage'[t] # "idle" => /\ jobSeq'[t] = lastSequence'[t] + 1
                                                  /\ boot'[t] \in {"draining", "ready"}
                      /\ boot'[t] = "querying" => lastSequence'[t] = base'[t] /\ shown'[t] = NONE
                      /\ base'[t] <= head' /\ lastSequence'[t] <= head'
                      /\ shown'[t] <= lastSequence'[t]
                      /\ \/ boot'[t] = "draining" \/ live'[t]
                         \/ applyQueue'[t] # <<>> \/ jobStage'[t] # "idle"
                         => shown'[t] # NONE \/ disposed'[t]
  BY DEF PlaceInv
<1>2. CASE t = s
  BY <1>2 DEF PlaceInv
<1>3. CASE t # s
  BY <1>3 DEF PlaceInv
<1> QED BY <1>2, <1>3

\* The query and its position stand still.
LEMMA ContentFrame ==
  ASSUME ContentInv, UNCHANGED <<lastSequence, applied, base>>
  PROVE  ContentInv'
BY DEF ContentInv, ExactlyOnce

\* Commands, foreign commits and shutdown: the subscriptions do not move.
LEMMA OutsideKeeps ==
  ASSUME IInv, DInv,
         \/ \E c \in Commands : Submit(c) \/ CommandStep(c)
         \/ ForeignCommit \/ LoopEnd \/ CloseBegin \/ CloseStorage
  PROVE  DInv'
<1> USE DEF storageVars, streamVars, commandVars, ownerVars, queryVars, jobVars,
        handleVars, lifeVars, subVars
<1> TypeOK
  BY DEF IInv
<1>1. /\ UNCHANGED <<sequence, cursor, accepting, buffer, applyQueue, jobStage, jobSeq, lastSequence,
                     applied, boot, base, shown, live, disposed>>
      /\ loop' = loop \/ loop' = "ended"
      /\ head' = head \/ head' = head + 1
  BY DEF Submit, CommandStep, CommandStart, CommandInvoke, CommandCommit, CommandRefused,
     CommandWait, CommandRelease, ForeignCommit, LoopEnd, CloseBegin, CloseStorage
<1>2. head <= head' /\ head' \in Int
  BY <1>1 DEF TypeOK
<1>3. StreamInv'
  BY <1>1 DEF DInv, StreamInv
<1>4. BacklogInv' /\ PlaceInv' /\ ContentInv'
  BY <1>1, <1>2, BacklogFrame, PlaceFrame, ContentFrame DEF DInv
<1> QED BY <1>3, <1>4 DEF DInv

\* The loop offers a commit, or counts one as applied.
LEMMA LoopKeeps ==
  ASSUME IInv, DInv, LoopNext \/ LoopApplied
  PROVE  DInv'
<1> USE RuntimeAssumption DEF storageVars, streamVars, commandVars, ownerVars, queryVars, jobVars,
        handleVars, lifeVars, subVars
<1> TypeOK /\ StreamInv /\ BacklogInv /\ PlaceInv /\ ContentInv /\ CursorInv
  BY DEF IInv, DInv
<1>1. CASE LoopApplied
  <2>1. StreamInv'
    BY <1>1 DEF LoopApplied, StreamInv, TypeOK
  <2>2. \A s \in Subs : NoBacklog(s)
    BY <1>1 DEF LoopApplied, AllAccepted, BacklogInv
  <2>3. BacklogInv'
    BY <1>1, <2>2 DEF LoopApplied, BacklogInv, NoBacklog
  <2>4. PlaceInv' /\ ContentInv'
    <3>1. head <= head' /\ head' \in Int
      BY <1>1 DEF LoopApplied, TypeOK
    <3> QED BY <1>1, <3>1, PlaceFrame, ContentFrame DEF LoopApplied
  <2> QED BY <2>1, <2>3, <2>4 DEF DInv
<1>2. CASE LoopNext
  <2> DEFINE n == cursor + 1
  <2>1. /\ loop = "next" /\ cursor = sequence /\ cursor' = n /\ n \in Commits
        /\ UNCHANGED <<head, sequence, boot, live, disposed, lastSequence, base, applied, shown,
                       jobStage, jobSeq>>
    BY <1>2 DEF LoopNext, StreamInv, TypeOK, Commits
  <2>2. /\ loop' = "applying" /\ accepting' = Takers(n)
        /\ applyQueue' = [s \in Subs |-> IF s \in Takers(n) /\ live[s]
                                         THEN Append(applyQueue[s], n) ELSE applyQueue[s]]
        /\ buffer' = [s \in Subs |-> IF s \in Takers(n) /\ ~live[s]
                                     THEN Append(buffer[s], n) ELSE buffer[s]]
    BY <1>2, <2>1 DEF LoopNext, TypeOK
  <2>3. StreamInv'
    BY <2>1, <2>2 DEF StreamInv
  <2>4. \A s \in Subs : NoBacklog(s)
    BY <2>1 DEF BacklogInv
  <2>5. Append(<<>>, n) = <<n>>
    BY <2>1
  <2>6. BacklogInv'
    BY <2>1, <2>2, <2>4, <2>5 DEF BacklogInv, NoBacklog
  <2>7. PlaceInv'
    <3>1. \A s \in Subs : applyQueue'[s] # <<>> => live[s]
      BY <2>2, <2>4 DEF NoBacklog
    <3> QED BY <2>1, <3>1 DEF PlaceInv
  <2>8. ContentInv'
    BY <2>1, ContentFrame
  <2> QED BY <2>3, <2>6, <2>7, <2>8 DEF DInv
<1> QED BY <1>1, <1>2

\* Bootstrap places a subscription in the log.
LEMMA BootKeeps ==
  ASSUME IInv, DInv, NEW s \in Subs, Subscribe(s) \/ BootStep(s) \/ BootFail(s)
  PROVE  DInv'
<1> USE RuntimeAssumption DEF storageVars, streamVars, commandVars, ownerVars, queryVars, jobVars,
        handleVars, lifeVars, subVars
<1> TypeOK /\ StreamInv /\ BacklogInv /\ PlaceInv /\ ContentInv /\ StageInv
  BY DEF IInv, DInv
<1>0. StreamInv' /\ BacklogInv'
  <2>1. UNCHANGED <<sequence, cursor, loop, accepting, buffer, applyQueue, jobStage, jobSeq>>
    BY DEF Subscribe, BootStep, BootFail, BootOpen, BootLoaded, BootPublish, BootDone
  <2> QED BY <2>1, BacklogFrame DEF StreamInv
<1>1. CASE Subscribe(s)
  <2>1. PlaceInv'
    BY <1>1 DEF Subscribe, PlaceInv, TypeOK
  <2>2. ContentInv'
    BY <1>1, ContentFrame DEF Subscribe
  <2> QED BY <1>0, <2>1, <2>2 DEF DInv
<1>2. CASE BootOpen(s)
  <2>1. lastSequence[s] = NONE /\ base[s] = NONE
    BY <1>2 DEF BootOpen, StageInv
  <2>2. CASE storageOpen
    <3>1. /\ boot' = [boot EXCEPT ![s] = "loading"]
          /\ base' = [base EXCEPT ![s] = head]
          /\ UNCHANGED <<head, jobStage, jobSeq, lastSequence, shown, live, applyQueue, disposed, applied>>
      BY <1>2, <2>2 DEF BootOpen
    <3>2. PlaceInv'
      BY <2>1, <3>1, <1>2 DEF PlaceInv, TypeOK, StageInv, BootOpen
    <3>3. ContentInv'
      BY <2>1, <3>1 DEF ContentInv, ExactlyOnce
    <3> QED BY <1>0, <3>2, <3>3 DEF DInv
  <2>3. CASE ~storageOpen
    <3>1. /\ boot' = [boot EXCEPT ![s] = "failed"]
          /\ UNCHANGED <<head, jobStage, jobSeq, lastSequence, shown, live, applyQueue, disposed, applied, base>>
      BY <1>2, <2>3 DEF BootOpen
    <3>2. PlaceInv'
      BY <2>1, <3>1, <1>2 DEF PlaceInv, TypeOK, StageInv
    <3>3. ContentInv'
      BY <3>1, ContentFrame
    <3> QED BY <1>0, <3>2, <3>3 DEF DInv
  <2> QED BY <2>2, <2>3
<1>3. CASE BootLoaded(s)
  <2>1. lastSequence[s] = NONE /\ base[s] # NONE /\ shown[s] = NONE /\ jobStage[s] = "idle"
    BY <1>3 DEF BootLoaded, StageInv
  <2>2. CASE disposed[s]
    <3>1. /\ boot' = [boot EXCEPT ![s] = "ready"]
          /\ UNCHANGED <<head, jobStage, jobSeq, lastSequence, shown, live, applyQueue, disposed, applied, base>>
      BY <1>3, <2>2 DEF BootLoaded
    <3>2. PlaceInv'
      BY <2>1, <3>1 DEF PlaceInv, TypeOK
    <3>3. ContentInv'
      BY <3>1, ContentFrame
    <3> QED BY <1>0, <3>2, <3>3 DEF DInv
  <2>3. CASE ~disposed[s]
    <3>1. /\ boot' = [boot EXCEPT ![s] = "querying"]
          /\ lastSequence' = [lastSequence EXCEPT ![s] = base[s]]
          /\ UNCHANGED <<head, jobStage, jobSeq, shown, live, applyQueue, disposed, applied, base>>
      BY <1>3, <2>3 DEF BootLoaded
    <3>2. base[s] \in Int /\ base[s] >= NONE
      BY DEF TypeOK, NONE
    <3>3. PlaceInv'
      BY <2>1, <3>1, <3>2 DEF PlaceInv, TypeOK
    <3>4. ContentInv'
      <4>1. applied[s] = <<>> /\ lastSequence'[s] = base[s]
        BY <2>1, <3>1 DEF ContentInv, TypeOK
      <4>2. Len(applied[s]) = base[s] - base[s] /\ DOMAIN applied[s] = {}
        BY <3>2, <4>1
      <4>3. \A t \in Subs : t # s => lastSequence'[t] = lastSequence[t]
        BY <3>1 DEF TypeOK
      <4> QED BY <2>1, <3>1, <4>1, <4>2, <4>3 DEF ContentInv, ExactlyOnce
    <3> QED BY <1>0, <3>3, <3>4 DEF DInv
  <2> QED BY <2>2, <2>3
<1>4. CASE BootPublish(s)
  <2>1. /\ lastSequence[s] = base[s] /\ base[s] # NONE /\ shown[s] = NONE /\ jobStage[s] = "idle"
        /\ applyQueue[s] = <<>> /\ ~live[s]
    BY <1>4 DEF BootPublish, StageInv, PlaceInv
  <2>2. /\ boot' = [boot EXCEPT ![s] = "draining"]
        /\ shown' = [shown EXCEPT ![s] = IF disposed[s] THEN shown[s] ELSE base[s]]
        /\ UNCHANGED <<head, jobStage, jobSeq, lastSequence, live, applyQueue, disposed, applied, base>>
    BY <1>4 DEF BootPublish, Publish
  <2>3. base[s] \in Int /\ base[s] >= NONE
    BY DEF TypeOK, NONE
  <2>4. PlaceInv'
    <3>1. CASE disposed[s]
      BY <2>1, <2>2, <3>1 DEF PlaceInv, TypeOK
    <3>2. CASE ~disposed[s]
      BY <2>1, <2>2, <2>3, <3>2 DEF PlaceInv, TypeOK
    <3> QED BY <3>1, <3>2
  <2>5. ContentInv'
    BY <2>2, ContentFrame
  <2> QED BY <1>0, <2>4, <2>5 DEF DInv
<1>5. CASE BootDone(s)
  <2>1. /\ boot' = [boot EXCEPT ![s] = "ready"]
        /\ live' = [live EXCEPT ![s] = ~disposed[s]]
        /\ boot[s] = "draining" /\ jobStage[s] = "idle"
        /\ UNCHANGED <<head, jobStage, jobSeq, lastSequence, shown, applyQueue, disposed, applied, base>>
    BY <1>5 DEF BootDone
  <2>2. PlaceInv'
    BY <2>1 DEF PlaceInv, TypeOK
  <2>3. ContentInv'
    BY <2>1, ContentFrame
  <2> QED BY <1>0, <2>2, <2>3 DEF DInv
<1>6. CASE BootFail(s)
  <2>1. /\ boot' = [boot EXCEPT ![s] = "failed"]
        /\ boot[s] \in {"loading", "querying"}
        /\ UNCHANGED <<head, live, jobStage, jobSeq, lastSequence, shown, applyQueue, disposed, applied, base>>
    BY <1>6 DEF BootFail
  <2>2. PlaceInv'
    BY <2>1 DEF PlaceInv, TypeOK
  <2>3. ContentInv'
    BY <2>1, ContentFrame
  <2> QED BY <1>0, <2>2, <2>3 DEF DInv
<1> QED BY <1>1, <1>2, <1>3, <1>4, <1>5, <1>6 DEF BootStep

\* Folding the next commit keeps the content of a subscription without a hole.
LEMMA ContentFold ==
  ASSUME TypeOK, StageInv, ContentInv, NEW s \in Subs, lastSequence[s] # NONE,
         Fold(s, lastSequence[s] + 1), UNCHANGED base
  PROVE  ContentInv'
<1> DEFINE n == lastSequence[s] + 1
<1>1. /\ lastSequence' = [lastSequence EXCEPT ![s] = n]
      /\ applied' = [applied EXCEPT ![s] = Append(applied[s], n)]
  BY DEF Fold
<1>2. /\ lastSequence[s] \in Int /\ base[s] \in Int /\ n # NONE
      /\ applied[s] \in Seq(Commits) /\ Len(applied[s]) = lastSequence[s] - base[s]
      /\ \A i \in DOMAIN applied[s] : applied[s][i] = base[s] + i
  BY DEF TypeOK, NONE, ContentInv, ExactlyOnce
<1>3. /\ Len(Append(applied[s], n)) = n - base[s]
      /\ \A i \in DOMAIN Append(applied[s], n) : Append(applied[s], n)[i] = base[s] + i
  <2>1. Len(Append(applied[s], n)) = Len(applied[s]) + 1
    BY <1>2
  <2>2. ASSUME NEW i \in DOMAIN Append(applied[s], n)
        PROVE  Append(applied[s], n)[i] = base[s] + i
    <3>1. CASE i \in DOMAIN applied[s]
      BY <1>2, <3>1
    <3>2. CASE i = Len(applied[s]) + 1
      BY <1>2, <3>2
    <3> QED BY <1>2, <2>2, <3>1, <3>2
  <2> QED BY <1>2, <2>1, <2>2
<1>4. lastSequence'[s] = n /\ applied'[s] = Append(applied[s], n) /\ base'[s] = base[s]
  BY <1>1 DEF TypeOK
<1>5. \A t \in Subs : t # s => lastSequence'[t] = lastSequence[t] /\ applied'[t] = applied[t]
  BY <1>1 DEF TypeOK
<1>6. ASSUME NEW t \in Subs, lastSequence'[t] # NONE
      PROVE  /\ Len(applied'[t]) = lastSequence'[t] - base'[t]
             /\ \A i \in DOMAIN applied'[t] : applied'[t][i] = base'[t] + i
  <2>1. CASE t = s
    BY <1>3, <1>4, <2>1
  <2>2. CASE t # s
    BY <1>5, <1>6, <2>2 DEF ContentInv, ExactlyOnce
  <2> QED BY <2>1, <2>2
<1>7. ASSUME NEW t \in Subs, lastSequence'[t] = NONE
      PROVE  applied'[t] = <<>>
  BY <1>2, <1>4, <1>5, <1>7 DEF ContentInv
<1> QED BY <1>6, <1>7 DEF ContentInv, ExactlyOnce

\* The commit a follower has to fold is the one after its last.
LEMMA NextInLine ==
  ASSUME IInv, DInv, NEW s \in Subs, lastSequence[s] # NONE, ~Ignores(s, cursor), cursor \in Commits
  PROVE  /\ cursor = lastSequence[s] + 1 /\ cursor <= head
         /\ lastSequence[s] \in Int /\ head \in Int
<1>1. cursor > lastSequence[s]
  BY NotIgnored DEF IInv
<1>2. ~disposed[s] /\ base[s] # NONE
  BY DEF Ignores, IInv, StageInv
<1>3. sequence <= lastSequence[s]
  BY <1>2 DEF IInv, ProgressInv, Following, Position
<1>4. /\ sequence \in Int /\ lastSequence[s] \in Int /\ head \in Int /\ cursor \in Int
      /\ cursor \in {sequence, sequence + 1} /\ cursor <= head
  BY DEF IInv, DInv, StreamInv, TypeOK, NONE, CursorInv
<1> QED BY <1>1, <1>3, <1>4

\* When apply() folds a commit at once, it is the one the loop is at.
LEMMA BeginFolds ==
  ASSUME IInv, DInv, NEW s \in Subs, ApplyBegin(s), lastSequence' # lastSequence
  PROVE  /\ ~Ignores(s, cursor) /\ lastSequence[s] # NONE /\ cursor \in Commits
         /\ lastSequence' = [lastSequence EXCEPT ![s] = cursor]
         /\ shown[s] # NONE \/ disposed[s]
<1> TypeOK /\ BacklogInv /\ PlaceInv /\ StageInv
  BY DEF IInv, DInv
<1>1. PICK fromBuffer \in BOOLEAN :
        LET waiting == IF fromBuffer THEN buffer[s] ELSE applyQueue[s]
        IN /\ waiting # <<>>
           /\ fromBuffer => boot[s] = "draining"
           /\ ~Ignores(s, Head(waiting)) /\ Fold(s, Head(waiting))
  BY DEF ApplyBegin
<1> DEFINE waiting == IF fromBuffer THEN buffer[s] ELSE applyQueue[s]
<1>2. waiting = <<cursor>> /\ waiting \in Seq(Commits)
  BY <1>1 DEF BacklogInv, TypeOK
<1>3. Head(waiting) = cursor
  BY <1>2, Singleton
<1>4. Head(waiting) \in Commits
  BY <1>1, <1>2
<1>5. lastSequence[s] # NONE /\ (shown[s] # NONE \/ disposed[s])
  <2>1. CASE fromBuffer
    BY <1>1, <2>1 DEF StageInv, PlaceInv
  <2>2. CASE ~fromBuffer
    BY <1>1, <2>2 DEF StageInv, PlaceInv
  <2> QED BY <2>1, <2>2
<1> QED BY <1>1, <1>3, <1>4, <1>5 DEF Fold

\* apply() takes the commit that waits.
LEMMA BeginKeeps ==
  ASSUME IInv, DInv, NEW s \in Subs, ApplyBegin(s)
  PROVE  DInv'
<1> USE DEF storageVars, streamVars, commandVars, ownerVars, queryVars, jobVars,
        handleVars, lifeVars, subVars
<1> TypeOK /\ StreamInv /\ BacklogInv /\ PlaceInv /\ ContentInv /\ StageInv
  BY DEF IInv, DInv
<1> DEFINE n == cursor
<1>1. /\ UNCHANGED <<head, sequence, cursor, loop, boot, live, disposed, base, shown>>
      /\ jobStage[s] = "idle"
  BY DEF ApplyBegin
<1>2. PICK fromBuffer \in BOOLEAN :
        LET waiting == IF fromBuffer THEN buffer[s] ELSE applyQueue[s]
        IN /\ waiting # <<>>
           /\ fromBuffer => boot[s] = "draining"
           /\ IF fromBuffer
              THEN buffer' = [buffer EXCEPT ![s] = Tail(@)] /\ UNCHANGED applyQueue
              ELSE applyQueue' = [applyQueue EXCEPT ![s] = Tail(@)] /\ UNCHANGED buffer
           /\ \/ /\ Ignores(s, Head(waiting))
                 /\ Accepted(s, Head(waiting))
                 /\ UNCHANGED <<jobStage, jobSeq, lastSequence, applied>>
              \/ /\ ~Ignores(s, Head(waiting))
                 /\ Fold(s, Head(waiting))
                 /\ Accepted(s, Head(waiting))
                 /\ UNCHANGED <<jobStage, jobSeq>>
              \/ /\ ~Ignores(s, Head(waiting))
                 /\ jobStage' = [jobStage EXCEPT ![s] = "dataflow"]
                 /\ jobSeq' = [jobSeq EXCEPT ![s] = Head(waiting)]
                 /\ UNCHANGED <<accepting, lastSequence, applied>>
  BY DEF ApplyBegin
<1> DEFINE waiting == IF fromBuffer THEN buffer[s] ELSE applyQueue[s]
<1>3. waiting = <<n>> /\ Head(waiting) = n /\ Tail(waiting) = <<>>
  <2>1. waiting = <<n>>
    BY <1>2 DEF BacklogInv
  <2> QED BY <2>1, Singleton
<1>4. n \in Commits
  <2>1. waiting \in Seq(Commits) /\ waiting # <<>>
    BY <1>2 DEF TypeOK
  <2>2. Head(waiting) \in Commits
    BY <2>1
  <2> QED BY <1>3, <2>2
<1>5. /\ buffer'[s] = <<>> /\ applyQueue'[s] = <<>>
      /\ \A t \in Subs : t # s => buffer'[t] = buffer[t] /\ applyQueue'[t] = applyQueue[t]
  <2>1. CASE fromBuffer
    <3>1. buffer' = [buffer EXCEPT ![s] = Tail(waiting)] /\ applyQueue' = applyQueue
      BY <1>2, <2>1
    <3>2. applyQueue[s] = <<>>
      BY <1>2, <2>1 DEF BacklogInv
    <3> HIDE DEF waiting
    <3> QED BY <1>3, <3>1, <3>2 DEF TypeOK
  <2>2. CASE ~fromBuffer
    <3>1. applyQueue' = [applyQueue EXCEPT ![s] = Tail(waiting)] /\ buffer' = buffer
      BY <1>2, <2>2
    <3>2. buffer[s] = <<>>
      BY <1>2, <2>2 DEF BacklogInv
    <3> HIDE DEF waiting
    <3> QED BY <1>3, <3>1, <3>2 DEF TypeOK
  <2> QED BY <2>1, <2>2
<1>6. /\ lastSequence[s] # NONE /\ boot[s] \in {"draining", "ready"}
      /\ shown[s] # NONE \/ disposed[s]
  <2>1. CASE fromBuffer
    BY <1>2, <2>1 DEF StageInv, PlaceInv
  <2>2. CASE ~fromBuffer
    BY <1>2, <2>2 DEF StageInv, PlaceInv
  <2> QED BY <2>1, <2>2
<1>7. StreamInv'
  BY <1>1 DEF StreamInv
<1>8. ~Ignores(s, n) => /\ n = lastSequence[s] + 1 /\ n <= head
                        /\ lastSequence[s] \in Int /\ head \in Int
  BY <1>4, <1>6, NextInLine
<1>9. loop # "next" /\ (loop = "applying" => s \in accepting)
  BY <1>2 DEF BacklogInv, NoBacklog
<1>10. CASE Ignores(s, n) /\ Accepted(s, n) /\ UNCHANGED <<jobStage, jobSeq, lastSequence, applied>>
  <2>1. BacklogInv'
    BY <1>1, <1>5, <1>10 DEF BacklogInv, NoBacklog, Accepted
  <2>2. PlaceInv'
    BY <1>1, <1>5, <1>10 DEF PlaceInv
  <2>3. ContentInv'
    BY <1>1, <1>10, ContentFrame
  <2> QED BY <1>7, <2>1, <2>2, <2>3 DEF DInv
<1>11. CASE ~Ignores(s, n) /\ Fold(s, n) /\ Accepted(s, n) /\ UNCHANGED <<jobStage, jobSeq>>
  <2>1. BacklogInv'
    BY <1>1, <1>5, <1>11 DEF BacklogInv, NoBacklog, Accepted
  <2>2. PlaceInv'
    <3>1. lastSequence' = [lastSequence EXCEPT ![s] = n]
      BY <1>11 DEF Fold
    <3>2. shown[s] \in Int /\ shown[s] <= lastSequence[s]
      BY DEF TypeOK, PlaceInv, NONE
    <3>3. /\ lastSequence'[s] = n /\ shown'[s] <= lastSequence'[s] /\ lastSequence'[s] <= head'
          /\ \A t \in Subs : t # s => lastSequence'[t] = lastSequence[t]
      BY <1>1, <1>8, <1>11, <3>1, <3>2 DEF TypeOK
    <3> QED BY <1>1, <1>5, <1>6, <1>11, <3>3, PlaceOne
  <2>3. ContentInv'
    BY <1>1, <1>6, <1>8, <1>11, ContentFold
  <2> QED BY <1>7, <2>1, <2>2, <2>3 DEF DInv
<1>12. CASE /\ ~Ignores(s, n)
            /\ jobStage' = [jobStage EXCEPT ![s] = "dataflow"]
            /\ jobSeq' = [jobSeq EXCEPT ![s] = n]
            /\ UNCHANGED <<accepting, lastSequence, applied>>
  <2>1. BacklogInv'
    BY <1>1, <1>5, <1>9, <1>12 DEF BacklogInv, NoBacklog, TypeOK
  <2>2. PlaceInv'
    BY <1>1, <1>5, <1>6, <1>8, <1>12 DEF PlaceInv, TypeOK
  <2>3. ContentInv'
    BY <1>1, <1>12, ContentFrame
  <2> QED BY <1>7, <2>1, <2>2, <2>3 DEF DInv
<1> QED BY <1>2, <1>3, <1>10, <1>11, <1>12

\* apply() goes on, ends, is cancelled or fails.
LEMMA JobKeeps ==
  ASSUME IInv, DInv, NEW s \in Subs,
         \/ ApplyFlush(s) \/ ApplyDemand(s) \/ ApplyOpen(s) \/ ApplySettled(s)
         \/ ApplyCancelled(s) \/ ApplyFail(s)
  PROVE  DInv'
<1> USE DEF storageVars, streamVars, commandVars, ownerVars, queryVars, jobVars,
        handleVars, lifeVars, subVars
<1> TypeOK /\ StreamInv /\ BacklogInv /\ PlaceInv /\ ContentInv /\ StageInv /\ CursorInv
  BY DEF IInv, DInv
<1>1. /\ jobStage[s] # "idle" /\ jobSeq[s] = cursor /\ jobSeq[s] = lastSequence[s] + 1
      /\ lastSequence[s] # NONE /\ buffer[s] = <<>> /\ applyQueue[s] = <<>>
      /\ shown[s] # NONE \/ disposed[s]
      /\ boot[s] \in {"draining", "ready"}
      /\ loop # "next" /\ (loop = "applying" => s \in accepting)
  BY DEF ApplyFlush, ApplyDemand, ApplyOpen, ApplySettled, ApplyCancelled, ApplyFail,
     BacklogInv, PlaceInv, StageInv, NoBacklog
<1>2. CASE ApplyDemand(s) \/ ApplyOpen(s)
  <2>1. /\ UNCHANGED <<head, sequence, cursor, loop, accepting, buffer, applyQueue, jobSeq,
                       lastSequence, applied, boot, base, shown, live, disposed>>
        /\ jobStage' \in {[jobStage EXCEPT ![s] = "opening"], [jobStage EXCEPT ![s] = "settling"]}
    BY <1>2 DEF ApplyDemand, ApplyOpen
  <2>2. StreamInv' /\ ContentInv'
    BY <2>1, ContentFrame DEF StreamInv
  <2>3. BacklogInv'
    BY <1>1, <2>1 DEF BacklogInv, NoBacklog, TypeOK
  <2>4. PlaceInv'
    BY <1>1, <2>1 DEF PlaceInv, TypeOK
  <2> QED BY <2>2, <2>3, <2>4 DEF DInv
<1>3. CASE ApplyFlush(s) \/ ApplySettled(s)
  <2>1. /\ UNCHANGED <<head, sequence, cursor, loop, buffer, applyQueue, jobSeq, boot, base, live,
                       disposed>>
        /\ jobStage' = [jobStage EXCEPT ![s] = "idle"]
        /\ Fold(s, lastSequence[s] + 1) /\ Accepted(s, cursor)
        /\ shown' = [shown EXCEPT ![s] = IF disposed[s] THEN shown[s] ELSE cursor]
    BY <1>1, <1>3 DEF ApplyFlush, ApplySettled, ApplyEnd, Publish
  <2>2. StreamInv'
    BY <2>1 DEF StreamInv
  <2>3. BacklogInv'
    BY <1>1, <2>1 DEF BacklogInv, NoBacklog, Accepted, TypeOK
  <2>4. PlaceInv'
    <3>1. lastSequence' = [lastSequence EXCEPT ![s] = cursor]
      BY <1>1, <2>1 DEF Fold
    <3>2. /\ shown[s] \in Int /\ lastSequence[s] \in Int /\ cursor \in Int /\ cursor # NONE
          /\ head \in Int /\ cursor <= head /\ shown[s] <= lastSequence[s]
      BY DEF TypeOK, PlaceInv, NONE, CursorInv
    <3>3. /\ lastSequence'[s] = cursor /\ jobStage'[s] = "idle"
          /\ shown'[s] = IF disposed[s] THEN shown[s] ELSE cursor
          /\ lastSequence'[s] <= head' /\ applyQueue'[s] = <<>>
          /\ \A t \in Subs : t # s => /\ lastSequence'[t] = lastSequence[t]
                                      /\ jobStage'[t] = jobStage[t] /\ shown'[t] = shown[t]
      BY <1>1, <2>1, <3>1, <3>2 DEF TypeOK
    <3>4. shown'[s] <= lastSequence'[s] /\ (shown'[s] # NONE \/ disposed[s])
      <4>1. shown[s] <= cursor /\ cursor <= cursor
        BY <1>1, <3>2
      <4>2. CASE disposed[s]
        <5>1. shown'[s] = shown[s] /\ lastSequence'[s] = cursor
          BY <3>3, <4>2
        <5> QED BY <4>1, <4>2, <5>1
      <4>3. CASE ~disposed[s]
        <5>1. shown'[s] = cursor /\ lastSequence'[s] = cursor
          BY <3>3, <4>3
        <5> QED BY <3>2, <4>1, <5>1
      <4> QED BY <4>2, <4>3
    <3> QED BY <1>1, <2>1, <3>3, <3>4, PlaceOne
  <2>5. ContentInv'
    BY <1>1, <2>1, ContentFold
  <2> QED BY <2>2, <2>3, <2>4, <2>5 DEF DInv
<1>4. CASE ApplyCancelled(s)
  <2>1. /\ UNCHANGED <<head, sequence, cursor, loop, buffer, applyQueue, jobSeq, lastSequence,
                       applied, boot, base, shown, live, disposed>>
        /\ jobStage' = [jobStage EXCEPT ![s] = "idle"] /\ Accepted(s, cursor)
    BY <1>1, <1>4 DEF ApplyCancelled
  <2>2. StreamInv' /\ ContentInv'
    BY <2>1, ContentFrame DEF StreamInv
  <2>3. BacklogInv'
    BY <1>1, <2>1 DEF BacklogInv, NoBacklog, Accepted, TypeOK
  <2>4. PlaceInv'
    BY <1>1, <2>1 DEF PlaceInv, TypeOK
  <2> QED BY <2>2, <2>3, <2>4 DEF DInv
<1>5. CASE ApplyFail(s)
  <2>1. /\ UNCHANGED <<head, sequence, cursor, accepting, buffer, applyQueue, jobSeq, lastSequence,
                       applied, base, shown, live, disposed>>
        /\ jobStage' = [jobStage EXCEPT ![s] = "idle"]
        /\ boot' = [boot EXCEPT ![s] = IF @ = "draining" THEN "failed" ELSE @]
        /\ loop' = loop \/ loop' \in {"ended", "failed"}
    BY <1>5 DEF ApplyFail, LoopRejects
  <2>2. StreamInv' /\ ContentInv'
    BY <1>1, <2>1, ContentFrame DEF StreamInv
  <2>3. BacklogInv'
    BY <1>1, <2>1 DEF BacklogInv, NoBacklog, TypeOK
  <2>4. PlaceInv'
    BY <1>1, <2>1 DEF PlaceInv, TypeOK
  <2> QED BY <2>2, <2>3, <2>4 DEF DInv
<1> QED BY <1>2, <1>3, <1>4, <1>5

\* Disposal drops a buffer together with the accept() behind it.
LEMMA DisposeKeeps ==
  ASSUME IInv, DInv, NEW D \in SUBSET Subs, DisposeAll(D),
         UNCHANGED <<head, sequence, cursor, loop, boot, live, queryVars, jobVars>>
  PROVE  DInv'
<1> USE DEF queryVars, jobVars
<1> TypeOK /\ StreamInv /\ BacklogInv /\ PlaceInv /\ ContentInv
  BY DEF IInv, DInv
<1>1. StreamInv' /\ ContentInv'
  BY ContentFrame DEF StreamInv
<1>2. BacklogInv'
  <2>1. ASSUME NEW s \in Subs
        PROVE  /\ buffer'[s] # <<>> => buffer'[s] = buffer[s]
               /\ buffer'[s] = buffer[s] \/ buffer'[s] = <<>>
               /\ s \in accepting /\ s \notin accepting' => buffer[s] # <<>> /\ buffer'[s] = <<>>
    <3>1. s \in accepting /\ s \notin accepting' => s \in D /\ Has(buffer[s], cursor)
      BY DEF DisposeAll, Resolved
    <3>2. Has(buffer[s], cursor) => buffer[s] # <<>>
      BY DEF Has
    <3> QED BY <3>1, <3>2 DEF DisposeAll
  <2>2. ASSUME NEW s \in Subs, ~NoBacklog(s)'
        PROVE  ~NoBacklog(s) /\ (s \in accepting => s \in accepting')
    BY <2>1, <2>2 DEF NoBacklog, BacklogInv
  <2> QED BY <2>1, <2>2 DEF BacklogInv
<1>3. PlaceInv'
  <2>1. head <= head' /\ head' \in Int /\ \A s \in Subs : disposed[s] => disposed'[s]
    BY DEF TypeOK, DisposeAll
  <2> QED BY <2>1, PlaceFrame
<1> QED BY <1>1, <1>2, <1>3 DEF DInv

-----------------------------------------------------------------------------
(* The theorems.                                                           *)

\* A fresh database has no subscriptions.
LEMMA InitDInv == Init => DInv
<1> SUFFICES ASSUME Init PROVE DInv
  OBVIOUS
<1>1. StreamInv /\ BacklogInv
  BY DEF Init, StreamInv, BacklogInv, NoBacklog
<1>2. PlaceInv /\ ContentInv
  BY DEF Init, PlaceInv, ContentInv, ExactlyOnce, NONE
<1> QED BY <1>1, <1>2 DEF DInv

\* Every step preserves the invariant.
LEMMA StepKeeps ==
  ASSUME IInv, DInv, [Next]_vars
  PROVE  DInv'
<1> USE DEF storageVars, streamVars, commandVars, ownerVars, queryVars, jobVars,
        handleVars, lifeVars, subVars
<1>1. CASE UNCHANGED vars
  BY <1>1 DEF DInv, StreamInv, BacklogInv, NoBacklog, PlaceInv, ContentInv, ExactlyOnce, vars
<1>2. ASSUME NEW s \in Subs, Unsubscribe(s) \/ DisposeFailed(s)
      PROVE  DInv'
  BY <1>2, DisposeKeeps DEF Unsubscribe, DisposeFailed
<1>3. CASE CloseDispose
  <2>1. registered \in SUBSET Subs
    BY DEF IInv, TypeOK
  <2> QED BY <1>3, <2>1, DisposeKeeps DEF CloseDispose
<1>4. ASSUME NEW s \in Subs, ReleaseResources(s)
      PROVE  DInv'
  <2>1. UNCHANGED <<head, sequence, cursor, loop, accepting, buffer, applyQueue, jobStage, jobSeq,
                    lastSequence, applied, boot, base, shown, live, disposed>>
    BY <1>4 DEF ReleaseResources
  <2>2. head <= head' /\ head' \in Int
    BY <2>1 DEF IInv, TypeOK
  <2> QED BY <2>1, <2>2, BacklogFrame, PlaceFrame, ContentFrame DEF DInv, StreamInv, IInv
<1>5. CASE Next
  BY <1>2, <1>3, <1>4, <1>5, OutsideKeeps, LoopKeeps, BootKeeps, BeginKeeps, JobKeeps
     DEF Next, LoopStep, ApplyStep, CleanupStep, CloseStep
<1> QED BY <1>1, <1>5

\* Spec keeps both invariants.
THEOREM SpecDInv == Spec => [](IInv /\ DInv)
<1>1. Init => IInv /\ DInv
  BY InitIInv, InitDInv
<1>2. IInv /\ DInv /\ [Next]_vars => (IInv /\ DInv)'
  BY Inductive, StepKeeps
<1> QED BY <1>1, <1>2, PTL DEF Spec

\* A live query is its snapshot and every later commit, once and in order,
\* wherever the stream stood when bootstrap took the snapshot.
THEOREM FoldsExactlyOnce == Spec => []ExactlyOnce
<1>1. IInv /\ DInv => ExactlyOnce
  BY DEF DInv, ContentInv
<1> QED BY <1>1, SpecDInv, PTL

\* At most one commit waits for a subscription or is being applied by it.
THEOREM BacklogBounded == Spec => []BoundedBacklog
<1>1. IInv /\ DInv => BoundedBacklog
  <2>1. SUFFICES ASSUME DInv, NEW s \in Subs
                 PROVE  Len(buffer[s]) + Len(applyQueue[s])
                          + (IF jobStage[s] = "idle" THEN 0 ELSE 1) <= 1
    BY DEF BoundedBacklog
  <2>2. Len(<<>>) = 0 /\ Len(<<cursor>>) = 1
    BY Singleton
  <2>3. CASE jobStage[s] # "idle"
    <3>1. buffer[s] = <<>> /\ applyQueue[s] = <<>>
      BY <2>1, <2>3 DEF DInv, BacklogInv
    <3> QED BY <2>2, <2>3, <3>1
  <2>4. CASE jobStage[s] = "idle"
    <3>1. \/ buffer[s] = <<>> /\ applyQueue[s] \in {<<>>, <<cursor>>}
          \/ applyQueue[s] = <<>> /\ buffer[s] = <<cursor>>
      BY <2>1 DEF DInv, BacklogInv
    <3>2. CASE buffer[s] = <<>> /\ applyQueue[s] = <<>>
      BY <2>2, <2>4, <3>2
    <3>3. CASE buffer[s] = <<>> /\ applyQueue[s] = <<cursor>>
      BY <2>2, <2>4, <3>3
    <3>4. CASE buffer[s] = <<cursor>> /\ applyQueue[s] = <<>>
      BY <2>2, <2>4, <3>4
    <3> QED BY <3>1, <3>2, <3>3, <3>4
  <2> QED BY <2>3, <2>4
<1> QED BY <1>1, SpecDInv, PTL

\* A live query takes in every commit once, and at most one commit is on its way to it.
THEOREM EachCommitReachesOnce == Spec => []EachCommitOnce
BY FoldsExactlyOnce, BacklogBounded, PTL DEF EachCommitOnce

\* Only a first result and the end of apply() reach a listener that is there,
\* with a later commit than it has seen.
LEMMA StepShows ==
  ASSUME IInv, DInv, [Next]_vars, NEW s \in Subs
  PROVE  shown'[s] = shown[s] \/ (~disposed[s] /\ shown'[s] >= shown[s])
<1> USE DEF storageVars, streamVars, commandVars, ownerVars, queryVars, jobVars,
        handleVars, lifeVars, subVars
<1> TypeOK /\ StageInv /\ PlaceInv
  BY DEF IInv, DInv
<1>1. CASE UNCHANGED vars
  BY <1>1 DEF vars
<1>2. ASSUME NEW t \in Subs, BootPublish(t)
      PROVE  shown'[s] = shown[s] \/ (~disposed[s] /\ shown'[s] >= shown[s])
  <2>1. shown' = [shown EXCEPT ![t] = IF disposed[t] THEN shown[t] ELSE base[t]]
    BY <1>2 DEF BootPublish, Publish
  <2>2. shown[t] = NONE /\ base[t] \in Int /\ base[t] >= NONE
    BY <1>2 DEF BootPublish, PlaceInv, TypeOK, NONE
  <2>3. CASE s = t /\ ~disposed[t]
    <3>1. shown'[s] = base[t]
      BY <2>1, <2>3 DEF TypeOK
    <3> QED BY <2>2, <2>3, <3>1 DEF NONE
  <2>4. CASE s # t \/ disposed[t]
    BY <2>1, <2>4 DEF TypeOK
  <2> QED BY <2>3, <2>4
<1>3. ASSUME NEW t \in Subs, ApplyFlush(t) \/ ApplySettled(t)
      PROVE  shown'[s] = shown[s] \/ (~disposed[s] /\ shown'[s] >= shown[s])
  <2>1. shown' = [shown EXCEPT ![t] = IF disposed[t] THEN shown[t] ELSE jobSeq[t]]
    BY <1>3 DEF ApplyFlush, ApplySettled, ApplyEnd, Publish
  <2>2. jobStage[t] # "idle"
    BY <1>3 DEF ApplyFlush, ApplySettled
  <2>3. shown[t] <= lastSequence[t] /\ jobSeq[t] = lastSequence[t] + 1
    BY <2>2 DEF PlaceInv
  <2>4. shown[t] \in Int /\ lastSequence[t] \in Int /\ jobSeq[t] \in Int
    BY DEF TypeOK, NONE
  <2>5. jobSeq[t] >= shown[t]
    BY <2>3, <2>4
  <2>6. CASE s = t /\ ~disposed[t]
    <3>1. shown'[s] = jobSeq[t]
      BY <2>1, <2>6 DEF TypeOK
    <3> QED BY <2>5, <2>6, <3>1
  <2>7. CASE s # t \/ disposed[t]
    BY <2>1, <2>7 DEF TypeOK
  <2> QED BY <2>6, <2>7
<1>4. CASE \/ \E c \in Commands : Submit(c) \/ CommandStep(c)
           \/ ForeignCommit \/ LoopStep \/ CloseBegin \/ CloseStep
  BY <1>4 DEF Submit, CommandStep, CommandStart, CommandInvoke, CommandCommit, CommandRefused,
     CommandWait, CommandRelease, ForeignCommit, LoopStep, LoopNext, LoopApplied, LoopEnd,
     CloseBegin, CloseStep, CloseDispose, CloseStorage
<1>5. ASSUME NEW t \in Subs,
             \/ Subscribe(t) \/ Unsubscribe(t) \/ CleanupStep(t)
             \/ BootOpen(t) \/ BootLoaded(t) \/ BootDone(t) \/ BootFail(t)
             \/ ApplyBegin(t) \/ ApplyDemand(t) \/ ApplyOpen(t) \/ ApplyCancelled(t) \/ ApplyFail(t)
      PROVE  shown' = shown
  BY <1>5 DEF Subscribe, Unsubscribe, CleanupStep, DisposeFailed, ReleaseResources, BootOpen,
     BootLoaded, BootDone, BootFail, ApplyBegin, ApplyDemand, ApplyOpen, ApplyCancelled, ApplyFail
<1>6. CASE Next
  BY <1>2, <1>3, <1>4, <1>5, <1>6 DEF Next, BootStep, ApplyStep
<1> QED BY <1>1, <1>6

\* The results a listener is given never go back in time.
THEOREM ResultsMoveForward == Spec => ShownForward
<1>1. IInv /\ DInv /\ [Next]_vars => [\A s \in Subs : shown'[s] >= shown[s]]_vars
  <2>1. SUFFICES ASSUME IInv, DInv, [Next]_vars, NEW s \in Subs
                 PROVE  shown'[s] >= shown[s]
    OBVIOUS
  <2>2. shown \in [Subs -> 0..MaxCommits \union {NONE}]
    BY <2>1 DEF IInv, TypeOK
  <2>3. shown[s] \in Int
    BY <2>2 DEF NONE
  <2> QED BY <2>1, <2>3, StepShows
<1> QED BY <1>1, SpecDInv, PTL DEF Spec, ShownForward

\* No result reaches a listener once its subscription is disposed, though its
\* apply() may still be suspended.
THEOREM SilentOnceDisposed == Spec => SilentAfterDispose
<1>1. IInv /\ DInv /\ [Next]_vars => [\A s \in Subs : disposed[s] => shown'[s] = shown[s]]_vars
  BY StepShows
<1> QED BY <1>1, SpecDInv, PTL DEF Spec, SilentAfterDispose

-----------------------------------------------------------------------------
(* The refinement of LiveQueries.                                          *)

Acked == {c \in Commands : outcome[c] = "ok"}
Seen(s) == IF disposed[s] THEN -2 ELSE IF shown[s] = NONE THEN -1 ELSE lastSequence[s]
View == [s \in Subs |-> Seen(s)]

\* A step that shows neither a commit, nor an answer, nor a result.
LEMMA StutterStep ==
  ASSUME UNCHANGED <<head, written, Acked, View>>
  PROVE  UNCHANGED Promise!vars
BY DEF Promise!vars, Acked, View, Seen

\* storage.commit publishes: the log grows by one.  This lemma and the next four
\* are the steps of LiveQueries, in terms of the runtime's variables.
LEMMA WriteStep ==
  ASSUME head < MaxCommits, head' = head + 1, UNCHANGED <<Acked, View>>,
         \/ \E c \in Commands : written[c] = 0 /\ written' = [written EXCEPT ![c] = head + 1]
         \/ UNCHANGED written
  PROVE  Promise!Write
BY DEF Promise!Write, Acked, View, Seen

\* A command is answered: its write is applied, so every view shows it.
LEMMA AcknowledgeStep ==
  ASSUME UNCHANGED <<head, written, View>>,
         NEW answered \in SUBSET {c \in Commands : written[c] > 0},
         Acked' = Acked \union answered,
         \A c \in answered, s \in Subs : View[s] >= 0 => written[c] <= View[s]
  PROVE  Promise!Acknowledge
BY DEF Promise!Acknowledge, Promise!Watching, Acked, View, Seen

\* The first result of a live query appears.
LEMMA ShowStep ==
  ASSUME NEW s \in Subs, View[s] = -1, UNCHANGED <<head, written, Acked>>,
         NEW n \in 0..head, \A c \in Acked : written[c] <= n,
         View' = [View EXCEPT ![s] = n]
  PROVE  Promise!Show(s)
BY DEF Promise!Show, Promise!UNSEEN, Acked, View, Seen

\* A live query moves on to a later commit.
LEMMA AdvanceStep ==
  ASSUME NEW s \in Subs, View[s] >= 0, View[s] < head, UNCHANGED <<head, written, Acked>>,
         View' = [View EXCEPT ![s] = View[s] + 1]
  PROVE  Promise!Advance(s)
BY DEF Promise!Advance, Promise!Watching, Acked, View, Seen

\* dispose(): live queries end.
LEMMA StopStep ==
  ASSUME NEW D \in SUBSET Subs, UNCHANGED <<head, written, Acked>>,
         View' = [s \in Subs |-> IF s \in D THEN -2 ELSE View[s]]
  PROVE  Promise!Stop
BY DEF Promise!Stop, Promise!GONE, Acked, View, Seen

\* What a live query shows reaches everything that is applied.
LEMMA SeenApplied == IInv => \A s \in Subs : View[s] >= 0 => sequence <= View[s]
<1> SUFFICES ASSUME IInv, NEW s \in Subs, View[s] >= 0
             PROVE  sequence <= View[s]
  OBVIOUS
<1>1. View[s] = Seen(s)
  BY DEF View
<1>2. ~disposed[s] /\ shown[s] # NONE /\ View[s] = lastSequence[s]
  BY <1>1 DEF Seen
<1>3. lastSequence[s] # NONE /\ Following(s)
  BY <1>2 DEF IInv, StageInv, Following
<1> QED BY <1>2, <1>3 DEF IInv, ProgressInv, Position

\* Commands: only a commit and an answer show.
LEMMA CommandRefines ==
  ASSUME IInv, NEW c \in Commands, Submit(c) \/ CommandStep(c)
  PROVE  Promise!Write \/ Promise!Acknowledge \/ UNCHANGED Promise!vars
<1> USE RuntimeAssumption DEF storageVars, streamVars, commandVars, ownerVars, queryVars, jobVars,
        handleVars, lifeVars, subVars
<1> TypeOK /\ AckInv
  BY DEF IInv
<1>1. UNCHANGED View
  <2>1. UNCHANGED <<disposed, shown, lastSequence>>
    BY DEF Submit, CommandStep, CommandStart, CommandInvoke, CommandCommit, CommandRefused,
       CommandWait, CommandRelease
  <2> QED BY <2>1 DEF View, Seen
<1>2. CASE outcome'[c] # "ok" \/ outcome[c] = "ok"
  <2>1. UNCHANGED Acked
    <3>1. \A d \in Commands : d # c => outcome'[d] = outcome[d]
      BY DEF Submit, CommandStep, CommandStart, CommandInvoke, CommandCommit, CommandRefused,
         CommandWait, CommandRelease, Finish, TypeOK
    <3>2. outcome[c] = "ok" => outcome'[c] = "ok"
      BY DEF Submit, CommandStep, CommandStart, CommandInvoke, CommandCommit, CommandRefused,
         CommandWait, CommandRelease, AckInv
    <3> QED BY <1>2, <3>1, <3>2 DEF Acked
  <2>2. CASE CommandCommit(c) /\ storageOpen /\ snap[c] = head
    <3>1. /\ head < MaxCommits /\ head' = head + 1 /\ pc[c] = "committing"
          /\ written' = [written EXCEPT ![c] = head + 1]
      BY <2>2 DEF CommandCommit
    <3>2. written[c] = 0
      BY <3>1 DEF AckInv
    <3> QED BY <1>1, <2>1, <3>1, <3>2, WriteStep
  <2>3. CASE ~(CommandCommit(c) /\ storageOpen /\ snap[c] = head)
    <3>1. UNCHANGED <<head, written>>
      BY <2>3 DEF Submit, CommandStep, CommandStart, CommandInvoke, CommandCommit, CommandRefused,
         CommandWait, CommandRelease
    <3> QED BY <1>1, <2>1, <3>1, StutterStep
  <2> QED BY <2>2, <2>3
<1>3. CASE outcome'[c] = "ok" /\ outcome[c] # "ok"
  <2>1. /\ pc[c] = "committed" /\ written[c] <= sequence
        /\ outcome' = [outcome EXCEPT ![c] = "ok"]
        /\ UNCHANGED <<head, written>>
    BY <1>3 DEF Submit, CommandStep, CommandStart, CommandInvoke, CommandCommit, CommandRefused,
       CommandWait, CommandRelease, Finish, TypeOK
  <2>2. Acked' = Acked \union {c}
    BY <2>1 DEF Acked, TypeOK
  <2>3. written[c] > 0
    BY <2>1 DEF AckInv, TypeOK
  <2>4. ASSUME NEW s \in Subs, View[s] >= 0
        PROVE  written[c] <= View[s]
    <3>1. sequence <= View[s]
      BY <2>4, SeenApplied
    <3>2. View[s] \in Int /\ sequence \in Int /\ written[c] \in Int
      BY DEF View, Seen, TypeOK, NONE
    <3> QED BY <2>1, <3>1, <3>2
  <2>5. {c} \in SUBSET {d \in Commands : written[d] > 0}
    BY <2>3
  <2>6. \A d \in {c}, s \in Subs : View[s] >= 0 => written[d] <= View[s]
    BY <2>4
  <2> QED BY <1>1, <2>1, <2>2, <2>5, <2>6, AcknowledgeStep
<1> QED BY <1>2, <1>3

\* The stream: only the answers that LoopApplied gives show.
LEMMA LoopRefines ==
  ASSUME IInv, IInv', LoopStep \/ ForeignCommit
  PROVE  Promise!Write \/ Promise!Acknowledge \/ UNCHANGED Promise!vars
<1> USE RuntimeAssumption DEF storageVars, streamVars, commandVars, ownerVars, queryVars, jobVars,
        handleVars, lifeVars, subVars
<1> TypeOK /\ AckInv
  BY DEF IInv
<1>0. (IInv => \A s \in Subs : View[s] >= 0 => sequence <= View[s])'
  BY SeenApplied, PTL
<1>1. UNCHANGED View
  <2>1. UNCHANGED <<disposed, shown, lastSequence>>
    BY DEF LoopStep, LoopNext, LoopApplied, LoopEnd, ForeignCommit
  <2> QED BY <2>1 DEF View, Seen
<1>2. CASE LoopNext \/ LoopEnd
  <2>1. UNCHANGED <<head, written, Acked>>
    BY <1>2 DEF LoopNext, LoopEnd, Acked
  <2> QED BY <1>1, <2>1, StutterStep
<1>3. CASE ForeignCommit
  <2>1. head < MaxCommits /\ head' = head + 1 /\ UNCHANGED <<written, Acked>>
    BY <1>3 DEF ForeignCommit, Acked
  <2> QED BY <1>1, <2>1, WriteStep
<1>4. CASE LoopApplied
  <2> DEFINE answered == {c \in Parked : written[c] <= cursor}
  <2>1. UNCHANGED <<head, written>> /\ Wake(answered, "ok") /\ sequence' = cursor
    BY <1>4 DEF LoopApplied
  <2>2. Acked' = Acked \union answered
    BY <2>1 DEF Acked, Wake, Parked
  <2>3. answered \in SUBSET {c \in Commands : written[c] > 0}
    BY DEF Parked, AckInv, TypeOK
  <2>4. ASSUME NEW c \in answered, NEW s \in Subs, View[s] >= 0
        PROVE  written[c] <= View[s]
    <3>1. sequence' <= View[s]
      <4>1. \A t \in Subs : View'[t] >= 0 => sequence' <= View'[t]
        BY <1>0
      <4> QED BY <1>1, <2>4, <4>1
    <3>2. View[s] \in Int /\ cursor \in Int /\ written[c] \in Int /\ written[c] <= cursor
      BY DEF View, Seen, TypeOK, NONE, Parked
    <3> QED BY <1>1, <2>1, <3>1, <3>2
  <2> QED BY <1>1, <2>1, <2>2, <2>3, <2>4, AcknowledgeStep
<1> QED BY <1>2, <1>3, <1>4 DEF LoopStep

\* Folding the next commit advances what a live query shows.
LEMMA FoldRefines ==
  ASSUME IInv, DInv, NEW s \in Subs, lastSequence[s] # NONE, lastSequence[s] < head,
         shown[s] # NONE \/ disposed[s],
         lastSequence' = [lastSequence EXCEPT ![s] = lastSequence[s] + 1],
         \A t \in Subs : shown'[t] = shown[t] \/ (t = s /\ shown[s] # NONE /\ shown'[s] # NONE),
         UNCHANGED <<head, written, outcome, disposed>>
  PROVE  Promise!Advance(s) \/ UNCHANGED Promise!vars
<1> TypeOK
  BY DEF IInv
<1>1. UNCHANGED Acked
  BY DEF Acked
<1>2. \A t \in Subs : t # s => Seen(t)' = Seen(t)
  BY DEF Seen, TypeOK
<1>3. CASE disposed[s]
  <2>1. Seen(s)' = Seen(s)
    BY <1>3 DEF Seen
  <2>2. View' = View
    BY <1>2, <2>1 DEF View
  <2> QED BY <1>1, <2>2, StutterStep
<1>4. CASE ~disposed[s]
  <2>1. Seen(s) = lastSequence[s] /\ Seen(s)' = lastSequence[s] + 1
    BY <1>4 DEF Seen, TypeOK
  <2>2. View[s] = lastSequence[s] /\ View' = [View EXCEPT ![s] = View[s] + 1]
    BY <1>2, <2>1 DEF View
  <2>3. View[s] >= 0 /\ View[s] < head
    BY <2>2 DEF TypeOK, NONE
  <2> QED BY <1>1, <2>2, <2>3, AdvanceStep
<1> QED BY <1>3, <1>4

\* Subscriptions: a first result shows, a folded commit advances.
LEMMA SubscriptionRefines ==
  ASSUME IInv, DInv, NEW s \in Subs,
         \/ Subscribe(s) \/ BootStep(s) \/ BootFail(s)
         \/ ApplyStep(s) \/ ApplyCancelled(s) \/ ApplyFail(s) \/ ReleaseResources(s)
  PROVE  Promise!Show(s) \/ Promise!Advance(s) \/ UNCHANGED Promise!vars
<1> USE DEF storageVars, streamVars, commandVars, ownerVars, queryVars, jobVars,
        handleVars, lifeVars, subVars
<1> TypeOK /\ AckInv /\ StageInv /\ BacklogInv /\ PlaceInv /\ CursorInv
  BY DEF IInv, DInv
<1>1. CASE \/ Subscribe(s) \/ BootOpen(s) \/ BootDone(s) \/ BootFail(s) \/ ApplyDemand(s)
           \/ ApplyOpen(s) \/ ApplyCancelled(s) \/ ReleaseResources(s)
  <2>1. UNCHANGED <<head, written, outcome, disposed, shown, lastSequence>>
    BY <1>1 DEF Subscribe, BootOpen, BootDone, BootFail, ApplyDemand, ApplyOpen, ApplyCancelled,
       ReleaseResources
  <2> QED BY <2>1, StutterStep DEF Acked, View, Seen
<1>2. CASE ApplyFail(s)
  <2>1. UNCHANGED <<head, written, disposed, shown, lastSequence>>
    BY <1>2 DEF ApplyFail
  <2>2. UNCHANGED Acked
    <3>1. UNCHANGED outcome \/ Wake(Parked, "rejected")
      BY <1>2 DEF ApplyFail, LoopRejects
    <3>2. \A c \in Parked : outcome[c] = "none"
      BY DEF Parked, AckInv
    <3> QED BY <3>1, <3>2 DEF Wake, Acked
  <2> QED BY <2>1, <2>2, StutterStep DEF View, Seen
<1>3. CASE BootLoaded(s)
  <2>1. shown[s] = NONE
    BY <1>3 DEF BootLoaded, StageInv
  <2>2. /\ UNCHANGED <<head, written, outcome, disposed, shown>>
        /\ \A t \in Subs : t # s => lastSequence'[t] = lastSequence[t]
    BY <1>3 DEF BootLoaded, TypeOK
  <2>3. \A t \in Subs : Seen(t)' = Seen(t)
    BY <2>1, <2>2 DEF Seen
  <2> QED BY <2>2, <2>3, StutterStep DEF Acked, View
<1>4. CASE BootPublish(s)
  <2>1. /\ lastSequence[s] = base[s] /\ base[s] # NONE /\ shown[s] = NONE
        /\ lastSequence[s] \in 0..head
    BY <1>4 DEF BootPublish, StageInv, PlaceInv, TypeOK, NONE
  <2>2. /\ UNCHANGED <<head, written, outcome, disposed, lastSequence>>
        /\ shown' = [shown EXCEPT ![s] = IF disposed[s] THEN shown[s] ELSE base[s]]
    BY <1>4 DEF BootPublish, Publish
  <2>3. UNCHANGED Acked /\ \A t \in Subs : t # s => Seen(t)' = Seen(t)
    BY <2>2 DEF Acked, Seen, TypeOK
  <2>4. CASE disposed[s]
    <3>1. Seen(s)' = Seen(s)
      BY <2>2, <2>4 DEF Seen
    <3> QED BY <2>2, <2>3, <3>1, StutterStep DEF View
  <2>5. CASE ~disposed[s]
    <3>1. Seen(s) = -1 /\ Seen(s)' = lastSequence[s]
      BY <2>1, <2>2, <2>5 DEF Seen, TypeOK, NONE
    <3>2. View[s] = -1 /\ View' = [View EXCEPT ![s] = lastSequence[s]]
      BY <2>3, <3>1 DEF View
    <3>3. \A c \in Acked : written[c] <= lastSequence[s]
      <4>1. sequence <= lastSequence[s]
        BY <2>1, <2>5 DEF IInv, ProgressInv, Following, Position
      <4>2. \A c \in Acked : c \in Commands /\ written[c] <= sequence
        BY DEF Acked, AckInv
      <4>3. sequence \in Int /\ lastSequence[s] \in Int /\ \A c \in Commands : written[c] \in Int
        BY DEF TypeOK, NONE
      <4> QED BY <4>1, <4>2, <4>3
    <3> QED BY <2>1, <2>2, <2>3, <3>2, <3>3, ShowStep
  <2> QED BY <2>4, <2>5
<1>5. CASE ApplyFlush(s) \/ ApplySettled(s)
  <2>1. /\ jobStage[s] # "idle" /\ lastSequence[s] # NONE /\ jobSeq[s] = lastSequence[s] + 1
        /\ jobSeq[s] <= head /\ (shown[s] # NONE \/ disposed[s]) /\ jobSeq[s] # NONE
    BY <1>5 DEF ApplyFlush, ApplySettled, StageInv, PlaceInv, BacklogInv, CursorInv, TypeOK, NONE
  <2>2. /\ lastSequence' = [lastSequence EXCEPT ![s] = lastSequence[s] + 1]
        /\ shown' = [shown EXCEPT ![s] = IF disposed[s] THEN shown[s] ELSE jobSeq[s]]
        /\ UNCHANGED <<head, written, outcome, disposed>>
    BY <1>5, <2>1 DEF ApplyFlush, ApplySettled, ApplyEnd, Fold, Publish
  <2>3. \A t \in Subs : shown'[t] = shown[t] \/ (t = s /\ shown[s] # NONE /\ shown'[s] # NONE)
    <3>1. CASE disposed[s]
      BY <2>2, <3>1 DEF TypeOK
    <3>2. CASE ~disposed[s]
      BY <2>1, <2>2, <3>2 DEF TypeOK
    <3> QED BY <3>1, <3>2
  <2>4. lastSequence[s] < head
    BY <2>1 DEF TypeOK, NONE
  <2> QED BY <2>1, <2>2, <2>3, <2>4, FoldRefines
<1>6. CASE ApplyBegin(s)
  <2>1. UNCHANGED <<head, written, outcome, disposed, shown>>
    BY <1>6 DEF ApplyBegin
  <2>2. CASE UNCHANGED lastSequence
    BY <2>1, <2>2, StutterStep DEF Acked, View, Seen
  <2>3. CASE lastSequence' # lastSequence
    <3>1. /\ ~Ignores(s, cursor) /\ lastSequence[s] # NONE /\ cursor \in Commits
          /\ lastSequence' = [lastSequence EXCEPT ![s] = cursor]
          /\ shown[s] # NONE \/ disposed[s]
      BY <1>6, <2>3, BeginFolds
    <3>2. /\ cursor = lastSequence[s] + 1 /\ cursor <= head
          /\ lastSequence[s] \in Int /\ head \in Int
      BY <3>1, NextInLine
    <3>3. lastSequence' = [lastSequence EXCEPT ![s] = lastSequence[s] + 1] /\ lastSequence[s] < head
      BY <3>1, <3>2
    <3>4. \A t \in Subs : shown'[t] = shown[t]
      BY <2>1
    <3> QED BY <2>1, <3>1, <3>3, <3>4, FoldRefines
  <2> QED BY <2>2, <2>3
<1> QED BY <1>1, <1>2, <1>3, <1>4, <1>5, <1>6 DEF BootStep, ApplyStep

\* Disposal ends live queries.
LEMMA DisposalRefines ==
  ASSUME IInv, NEW D \in SUBSET Subs, DisposeAll(D),
         UNCHANGED <<head, written, outcome, shown, lastSequence>>
  PROVE  Promise!Stop
<1>1. \A s \in Subs : disposed'[s] <=> disposed[s] \/ s \in D
  BY DEF DisposeAll
<1>2. \A s \in Subs : Seen(s)' = IF s \in D THEN -2 ELSE Seen(s)
  BY <1>1 DEF Seen
<1>3. View' = [s \in Subs |-> IF s \in D THEN -2 ELSE View[s]]
  BY <1>2 DEF View
<1> QED BY <1>3, StopStep DEF Acked

\* Every step of the runtime is a step of LiveQueries, or shows nothing.
LEMMA StepRefines ==
  ASSUME IInv, DInv, IInv', [Next]_vars
  PROVE  Promise!Next \/ UNCHANGED Promise!vars
<1> USE DEF storageVars, streamVars, commandVars, ownerVars, queryVars, jobVars,
        handleVars, lifeVars, subVars
<1>1. CASE UNCHANGED vars
  BY <1>1, StutterStep DEF vars, Acked, View, Seen
<1>2. ASSUME NEW s \in Subs, Unsubscribe(s) \/ DisposeFailed(s)
      PROVE  Promise!Stop
  BY <1>2, DisposalRefines DEF Unsubscribe, DisposeFailed
<1>3. CASE CloseDispose
  <2>1. registered \in SUBSET Subs
    BY DEF IInv, TypeOK
  <2>2. Promise!Stop
    BY <1>3, <2>1, DisposalRefines DEF CloseDispose
  <2> QED BY <2>2 DEF Promise!Next
<1>4. CASE CloseStorage
  BY <1>4, StutterStep DEF CloseStorage, Acked, View, Seen
<1>5. CASE CloseBegin
  <2>1. /\ UNCHANGED <<head, written, disposed, shown, lastSequence>>
        /\ Wake(Parked, "rejected")
    BY <1>5 DEF CloseBegin
  <2>2. \A c \in Parked : outcome[c] = "none"
    BY DEF IInv, Parked, AckInv
  <2>3. UNCHANGED Acked
    BY <2>1, <2>2 DEF Wake, Acked
  <2> QED BY <2>1, <2>3, StutterStep DEF View, Seen
<1>6. CASE Next
  BY <1>2, <1>3, <1>4, <1>5, <1>6, CommandRefines, LoopRefines, SubscriptionRefines
     DEF Next, CleanupStep, CloseStep, Promise!Next
<1> QED BY <1>1, <1>6

\* The runtime keeps the promise of LiveQueries: every step of its queues,
\* snapshots and stream is a step of the abstract log and views, or shows nothing.
THEOREM KeepsPromise == Spec => ImplementsLiveQueries
<1>1. Init => Promise!Init
  BY DEF Init, Promise!Init, Promise!UNSEEN, NONE
<1>2. IInv /\ DInv /\ IInv' /\ [Next]_vars => [Promise!Next]_(Promise!vars)
  BY StepRefines
<1>3. Spec => [](IInv /\ DInv)
  BY SpecDInv
<1> QED BY <1>1, <1>2, <1>3, PTL DEF Spec, ImplementsLiveQueries, Promise!Spec

-----------------------------------------------------------------------------
(* What close() leaves behind: every subscription has settled, released    *)
(* its resources and has nothing running (QuietAfterClose).                *)

\* A subscription that released its resources stays quiet, and one that is
\* disposed and has not is among the closures that close() awaits.
Quiet(s) ==
  /\ released[s] => /\ disposed[s] /\ Settled(s) /\ jobStage[s] = "idle"
                    /\ applyQueue[s] = <<>> /\ current[s] = "none"
  /\ "demand" \in held[s] => jobStage[s] = "settling"
  /\ jobStage[s] = "settling" => current[s] = "demand"
  /\ boot[s] = "absent" => current[s] = "none" /\ ~disposed[s] /\ s \notin registered
  /\ disposed[s] => released[s] \/ s \in closures
  /\ closing = "closed" => boot[s] = "absent" \/ released[s]

QuietInv == \A s \in Subs : Quiet(s)

\* No variable Quiet(t) speaks of changes.
LEMMA QuietFrame ==
  ASSUME NEW t \in Subs, Quiet(t),
         released'[t] = released[t], disposed'[t] = disposed[t], boot'[t] = boot[t],
         jobStage'[t] = jobStage[t], applyQueue'[t] = applyQueue[t],
         current'[t] = current[t], held'[t] = held[t],
         t \in registered' <=> t \in registered, t \in closures' <=> t \in closures,
         closing' = closing
  PROVE  Quiet(t)'
BY DEF Quiet, Settled

\* Commands, the stream and the start and the end of close().
LEMMA OutsideQuiet ==
  ASSUME IInv, QuietInv, NEW t \in Subs,
         \/ \E c \in Commands : Submit(c) \/ CommandStep(c)
         \/ ForeignCommit \/ LoopStep \/ CloseBegin \/ CloseStorage
  PROVE  Quiet(t)'
<1> USE DEF storageVars, streamVars, commandVars, ownerVars, queryVars, jobVars,
        handleVars, lifeVars, subVars
<1> Quiet(t) /\ TypeOK /\ RegistryInv
  BY DEF QuietInv, IInv
<1>1. CASE \/ \E c \in Commands : Submit(c) \/ CommandStep(c)
           \/ ForeignCommit \/ LoopApplied \/ LoopEnd
  <2>1. UNCHANGED <<released, disposed, boot, jobStage, applyQueue, current, held, registered,
                    closures, closing>>
    BY <1>1 DEF Submit, CommandStep, CommandStart, CommandInvoke, CommandCommit, CommandRefused,
       CommandWait, CommandRelease, ForeignCommit, LoopApplied, LoopEnd
  <2> QED BY <2>1, QuietFrame
<1>2. CASE LoopNext
  <2>1. UNCHANGED <<released, disposed, boot, jobStage, current, held, registered, closures, closing>>
    BY <1>2 DEF LoopNext
  <2>2. disposed[t] => applyQueue'[t] = applyQueue[t]
    BY <1>2 DEF LoopNext, Takers, Ignores
  <2> QED BY <2>1, <2>2 DEF Quiet, Settled
<1>3. CASE CloseBegin
  <2>1. /\ UNCHANGED <<released, disposed, boot, jobStage, applyQueue, current, held, registered, closures>>
        /\ closing' = "loop"
    BY <1>3 DEF CloseBegin
  <2> QED BY <2>1 DEF Quiet, Settled
<1>4. CASE CloseStorage
  <2>1. /\ UNCHANGED <<released, disposed, boot, jobStage, applyQueue, current, held, closures>>
        /\ closing = "cleanup" /\ closures = {} /\ registered' = {}
    BY <1>4 DEF CloseStorage, CleanedUp
  <2>2. boot[t] # "absent" => released[t]
    BY <2>1 DEF RegistryInv, Quiet
  <2> QED BY <2>1, <2>2 DEF Quiet, Settled
<1> QED BY <1>1, <1>2, <1>3, <1>4 DEF LoopStep

\* Bootstrap and apply() of one subscription.
LEMMA SubscriptionQuiet ==
  ASSUME IInv, DInv, QuietInv, NEW s \in Subs,
         \/ Subscribe(s) \/ BootStep(s) \/ BootFail(s)
         \/ ApplyStep(s) \/ ApplyCancelled(s) \/ ApplyFail(s),
         NEW t \in Subs
  PROVE  Quiet(t)'
<1> USE DEF storageVars, streamVars, commandVars, ownerVars, queryVars, jobVars,
        handleVars, lifeVars, subVars
<1> Quiet(t) /\ Quiet(s) /\ TypeOK /\ StageInv /\ PlaceInv
  BY DEF QuietInv, IInv, DInv
<1>1. CASE t # s
  <2>1. UNCHANGED <<released, disposed, closures, closing>>
    BY DEF Subscribe, BootStep, BootFail, BootOpen, BootLoaded, BootPublish, BootDone,
       ApplyStep, ApplyBegin, ApplyFlush, ApplyDemand, ApplyOpen, ApplySettled, ApplyEnd,
       ApplyCancelled, ApplyFail
  <2>4. boot'[t] = boot[t]
    BY <1>1 DEF Subscribe, BootStep, BootFail, BootOpen, BootLoaded, BootPublish, BootDone,
       ApplyStep, ApplyBegin, ApplyFlush, ApplyDemand, ApplyOpen, ApplySettled, ApplyEnd,
       ApplyCancelled, ApplyFail, TypeOK
  <2>5. jobStage'[t] = jobStage[t]
    BY <1>1 DEF Subscribe, BootStep, BootFail, BootOpen, BootLoaded, BootPublish, BootDone,
       ApplyStep, ApplyBegin, ApplyFlush, ApplyDemand, ApplyOpen, ApplySettled, ApplyEnd,
       ApplyCancelled, ApplyFail, TypeOK
  <2>6. applyQueue'[t] = applyQueue[t]
    <3>1. CASE Subscribe(s) \/ BootStep(s) \/ BootFail(s)
      BY <3>1 DEF Subscribe, BootStep, BootFail, BootOpen, BootLoaded, BootPublish, BootDone
    <3>2. CASE ApplyBegin(s)
      BY <1>1, <3>2 DEF ApplyBegin, TypeOK
    <3>3. CASE /\ ~ApplyBegin(s)
               /\ ApplyStep(s) \/ ApplyCancelled(s) \/ ApplyFail(s)
      BY <3>3 DEF ApplyStep, ApplyFlush, ApplyDemand, ApplyOpen, ApplySettled, ApplyEnd,
         ApplyCancelled, ApplyFail
    <3> QED BY <3>1, <3>2, <3>3
  <2>2. current'[t] = current[t] /\ held'[t] = held[t]
    BY <1>1 DEF Subscribe, BootStep, BootFail, BootOpen, BootLoaded, BootPublish, BootDone,
       ApplyStep, ApplyBegin, ApplyFlush, ApplyDemand, ApplyOpen, ApplySettled, ApplyEnd,
       ApplyCancelled, ApplyFail, ReleaseSnapshot, TypeOK
  <2>3. t \in registered' <=> t \in registered
    BY <1>1 DEF Subscribe, BootStep, BootFail, BootOpen, BootLoaded, BootPublish, BootDone,
       ApplyStep, ApplyBegin, ApplyFlush, ApplyDemand, ApplyOpen, ApplySettled, ApplyEnd,
       ApplyCancelled, ApplyFail
  <2> QED BY <2>1, <2>2, <2>3, <2>4, <2>5, <2>6, QuietFrame
<1>2. ASSUME Subscribe(s) PROVE Quiet(s)'
  BY <1>2 DEF Subscribe, Quiet, Settled, TypeOK
<1>3. ASSUME BootOpen(s) PROVE Quiet(s)'
  <2>1. jobStage[s] = "idle" /\ ~released[s] /\ boot[s] = "opening"
    BY <1>3 DEF BootOpen, StageInv, Quiet, Settled
  <2>2. /\ UNCHANGED <<released, disposed, closures, closing, registered, jobStage, applyQueue>>
        /\ boot'[s] \in {"loading", "failed"}
        /\ "demand" \in held'[s] => "demand" \in held[s]
    BY <1>3 DEF BootOpen, TypeOK
  <2> QED BY <2>1, <2>2 DEF Quiet, Settled
<1>4. ASSUME BootLoaded(s) \/ BootFail(s) \/ BootDone(s) PROVE Quiet(s)'
  <2>1. jobStage[s] = "idle" /\ ~released[s] /\ boot[s] # "absent"
    BY <1>4 DEF BootLoaded, BootFail, BootDone, StageInv, PlaceInv, Quiet, Settled
  <2>2. /\ UNCHANGED <<released, disposed, closures, closing, registered, jobStage, applyQueue>>
        /\ boot'[s] \in {"querying", "ready", "failed"}
        /\ "demand" \in held'[s] => "demand" \in held[s]
    BY <1>4 DEF BootLoaded, BootFail, BootDone, ReleaseSnapshot, TypeOK
  <2> QED BY <2>1, <2>2 DEF Quiet, Settled
<1>5. ASSUME BootPublish(s) PROVE Quiet(s)'
  <2>1. /\ UNCHANGED <<released, disposed, closures, closing, registered, jobStage, applyQueue,
                       current, held>>
        /\ boot'[s] = "draining" /\ boot[s] = "querying"
    BY <1>5 DEF BootPublish, TypeOK
  <2> QED BY <2>1 DEF Quiet, Settled
<1>6. ASSUME ApplyBegin(s) PROVE Quiet(s)'
  <2>1. /\ UNCHANGED <<released, disposed, closures, closing, registered, current, held, boot>>
        /\ jobStage[s] = "idle" /\ jobStage'[s] \in {"idle", "dataflow"}
        /\ ~disposed[s] \/ applyQueue[s] # <<>>
    BY <1>6 DEF ApplyBegin, TypeOK
  <2>2. ~released[s]
    BY <2>1 DEF Quiet
  <2> QED BY <2>1, <2>2 DEF Quiet, Settled
<1>7. ASSUME ApplyDemand(s) \/ ApplyOpen(s) PROVE Quiet(s)'
  <2>1. /\ UNCHANGED <<released, disposed, closures, closing, registered, boot, applyQueue>>
        /\ jobStage[s] # "idle" /\ jobStage'[s] \in {"opening", "settling"}
        /\ jobStage'[s] = "settling" => current'[s] = "demand"
        /\ jobStage'[s] = "opening" => jobStage[s] = "dataflow" /\ held'[s] = held[s]
    BY <1>7 DEF ApplyDemand, ApplyOpen, TypeOK
  <2>2. ~released[s] /\ boot[s] # "absent"
    BY <2>1 DEF Quiet, PlaceInv
  <2> QED BY <2>1, <2>2 DEF Quiet, Settled
<1>8. ASSUME ApplyFlush(s) \/ ApplySettled(s) \/ ApplyCancelled(s) \/ ApplyFail(s)
      PROVE  Quiet(s)'
  <2>1. /\ UNCHANGED <<released, disposed, closures, closing, registered, applyQueue>>
        /\ jobStage[s] # "idle" /\ jobStage'[s] = "idle"
        /\ boot'[s] \in {boot[s], "failed"}
        /\ jobStage[s] = "settling" => ReleaseSnapshot(s)
        /\ ReleaseSnapshot(s) \/ UNCHANGED handleVars
    BY <1>8 DEF ApplyFlush, ApplySettled, ApplyEnd, ApplyCancelled, ApplyFail, TypeOK
  <2>2. ~released[s] /\ boot[s] # "absent"
    BY <2>1 DEF Quiet, PlaceInv
  <2>3. "demand" \notin held'[s]
    <3>1. CASE jobStage[s] = "settling"
      BY <2>1, <3>1 DEF ReleaseSnapshot, Quiet, TypeOK
    <3>2. CASE jobStage[s] # "settling"
      BY <2>1, <3>2 DEF ReleaseSnapshot, Quiet, TypeOK
    <3> QED BY <3>1, <3>2
  <2> QED BY <2>1, <2>2, <2>3 DEF Quiet, Settled
<1>9. CASE t = s
  BY <1>2, <1>3, <1>4, <1>5, <1>6, <1>7, <1>8, <1>9 DEF BootStep, ApplyStep
<1> QED BY <1>1, <1>9

\* Disposal, and the cleanup that follows it.
LEMMA DisposalQuiet ==
  ASSUME TypeOK, QuietInv, NEW D \in SUBSET Subs, DisposeAll(D), NEW t \in Subs,
         \A s \in D : boot[s] # "absent",
         UNCHANGED <<released, boot, jobStage, applyQueue, current, held>>,
         closing' = closing \/ closing' = "cleanup"
  PROVE  Quiet(t)'
<1>1. /\ t \in registered' => t \in registered
      /\ disposed'[t] <=> disposed[t] \/ t \in D
      /\ t \in closures' <=> t \in closures \/ (t \in D /\ ~released[t])
  BY DEF DisposeAll
<1>2. Quiet(t)
  BY DEF QuietInv
<1> QED BY <1>1, <1>2 DEF Quiet, Settled

\* Every step preserves the quiet of every subscription.
LEMMA StepQuiet ==
  ASSUME IInv, DInv, QuietInv, [Next]_vars
  PROVE  QuietInv'
<1> USE DEF storageVars, streamVars, commandVars, ownerVars, queryVars, jobVars,
        handleVars, lifeVars, subVars
<1>1. SUFFICES ASSUME NEW t \in Subs PROVE Quiet(t)'
  BY DEF QuietInv
<1>2. TypeOK /\ Quiet(t)
  BY DEF IInv, QuietInv
<1>3. CASE UNCHANGED vars
  BY <1>2, <1>3, QuietFrame DEF vars
<1>4. ASSUME NEW s \in Subs, Unsubscribe(s) \/ DisposeFailed(s)
      PROVE  Quiet(t)'
  <2>1. /\ boot[s] # "absent" /\ DisposeAll({s}) /\ closing' = closing
        /\ UNCHANGED <<released, boot, jobStage, applyQueue, current, held>>
    BY <1>4 DEF Unsubscribe, DisposeFailed
  <2>2. {s} \in SUBSET Subs /\ \A r \in {s} : boot[r] # "absent"
    BY <2>1
  <2> QED BY <1>2, <2>1, <2>2, DisposalQuiet
<1>5. CASE CloseDispose
  <2>1. /\ registered \in SUBSET Subs /\ \A r \in registered : boot[r] # "absent"
        /\ DisposeAll(registered) /\ closing' = "cleanup"
        /\ UNCHANGED <<released, boot, jobStage, applyQueue, current, held>>
    BY <1>2, <1>5 DEF CloseDispose, TypeOK, QuietInv, Quiet
  <2> QED BY <1>2, <2>1, DisposalQuiet
<1>6. ASSUME NEW s \in Subs, ReleaseResources(s)
      PROVE  Quiet(t)'
  <2>1. Quiet(s)
    BY DEF QuietInv
  <2>2. /\ UNCHANGED <<registered, closing, boot, disposed, jobStage, applyQueue>>
        /\ released' = [released EXCEPT ![s] = TRUE] /\ closures' = closures \ {s}
        /\ held' = [held EXCEPT ![s] = held[s] \ {current[s]}]
        /\ current' = [current EXCEPT ![s] = "none"]
        /\ disposed[s] /\ Settled(s) /\ jobStage[s] = "idle" /\ applyQueue[s] = <<>>
    BY <1>6 DEF ReleaseResources, ReleaseSnapshot
  <2>3. CASE t = s
    <3>1. released'[s] /\ current'[s] = "none" /\ held'[s] \subseteq held[s]
      BY <1>2, <2>2 DEF TypeOK
    <3> QED BY <2>1, <2>2, <2>3, <3>1 DEF Quiet, Settled
  <2>4. CASE t # s
    <3>1. released'[t] = released[t] /\ current'[t] = current[t] /\ held'[t] = held[t]
      BY <1>2, <2>2, <2>4 DEF TypeOK
    <3> QED BY <1>2, <2>2, <2>4, <3>1, QuietFrame
  <2> QED BY <2>3, <2>4
<1>7. CASE Next
  BY <1>4, <1>5, <1>6, <1>7, OutsideQuiet, SubscriptionQuiet DEF Next, CleanupStep, CloseStep
<1> QED BY <1>3, <1>7

\* After close() every subscription is quiet: settled, released, nothing being
\* applied, no demand snapshot open.
THEOREM CloseLeavesQuiet == Spec => []QuietAfterClose
<1>1. Init => QuietInv
  BY DEF Init, QuietInv, Quiet, Settled
<1>2. IInv /\ DInv /\ QuietInv /\ [Next]_vars => QuietInv'
  BY StepQuiet
<1>3. QuietInv /\ IInv /\ DInv => QuietAfterClose
  <2>1. SUFFICES ASSUME QuietInv, IInv, DInv, closing = "closed", NEW s \in Subs
                 PROVE  /\ boot[s] # "absent" => Settled(s) /\ released[s]
                        /\ jobStage[s] = "idle" /\ current[s] = "none" /\ "demand" \notin held[s]
    BY DEF QuietAfterClose
  <2>2. Quiet(s) /\ (boot[s] = "absent" => jobStage[s] = "idle")
    BY <2>1 DEF QuietInv, DInv, PlaceInv
  <2> QED BY <2>1, <2>2 DEF Quiet
<1> QED BY <1>1, <1>2, <1>3, SpecDInv, PTL DEF Spec
=============================================================================

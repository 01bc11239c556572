------------------------- MODULE KeyValueStorageProofs -------------------------
(***************************************************************************)
(* KeyValueStorage keeps what it promises, for any branches, readers and   *)
(* streams and under any collections, failures and crashes: the store is   *)
(* whole, history goes only from below the floors, what is pinned stays,   *)
(* streams yield one commit after another, and a collection that ends has  *)
(* swept what it could.                                                    *)
(*                                                                         *)
(* None of this is inductive by itself.  What the store must be is said of *)
(* any log, commits, pages and tables, so that a batch on its way can be   *)
(* asked for it too: the store is sound as it is and as the batch would    *)
(* leave it.  Beside that, memory follows the store, the barrier covers    *)
(* what goes, streams stand where memory says, and marks cover old pages.  *)
(***************************************************************************)
EXTENDS KeyValueStorage, FiniteSetTheorems, WellFoundedInduction, TLAPS

USE KeyValueAssumption

-----------------------------------------------------------------------------
(* The inductive invariant. *)

\* Commit n of branch b is one of the commits cs of the log l.
Holds(l, cs, b, n) == \E c \in cs : l[c].branch = b /\ l[c].sequence = n

\* What a store must be: its commits have their pages, what its tables point
\* at is there, and no branch has a hole above its floor.
Sound(l, cs, ps, table, names) ==
  /\ \A c \in cs : l[c].pages \subseteq ps
  /\ \A b \in Branches : table[b].head \in cs \union {0} /\ table[b].base \in cs \union {0}
  /\ \A b \in Branches : table[b].head = 0 => table[b].sequence = 0
  /\ \A n \in Names : names[n] \in cs \union {0}
  /\ \A b \in Branches : \A n \in (table[b].floor + 1)..table[b].sequence : Holds(l, cs, b, n)
  /\ \A b \in Branches : table[b].sequence <= Len(l)
  /\ \A c \in DOMAIN l : l[c].sequence <= Len(l)

\* The commits and the pages once the batch is applied.
CommitsLeft == (commits \ job.drops) \union (IF job.adds THEN {Len(log) + 1} ELSE {})
PagesLeft == (pages \ job.sweeps) \union job.puts

StoreSound ==
  /\ Sound(log, commits, pages, branchTable, retainTable)
  /\ job.stage = "publishing" =>
       Sound(Logged, CommitsLeft, PagesLeft, job.branches, job.retains)

\* Memory is what the store was before the batch that is not installed yet.
MemoryFollows ==
  state \in {"open", "closing"} =>
    IF job.stage = "published"
    THEN branchTable = job.branches /\ retainTable = job.retains
    ELSE branches = branchTable /\ retains = retainTable

\* A batch with a commit adds the next one of its branch, made of pages of a
\* commit there is and of new ones; no other batch moves a branch.
JobSound ==
  /\ job.stage = "idle" => job = NoJob
  /\ state \in {"failed", "down"} => job.stage = "idle"
  /\ job.stage # "idle" => \A b \in Branches :
       job.branches[b].sequence =
         branches[b].sequence + (IF job.adds /\ job.entry.branch = b THEN 1 ELSE 0)
  /\ job.adds => job.entry.sequence = job.branches[job.entry.branch].sequence
  /\ job.stage = "publishing" /\ job.adds =>
       /\ Len(log) < MaxCommits
       /\ \E d \in commits : job.entry.pages \subseteq log[d].pages \union job.puts

\* What goes is barred, unpinned and read by every stream that is open.
Barred ==
  /\ retiring = job.drops
  /\ job.stage # "idle" => \A b \in Branches :
       job.branches[b].floor <= branches[b].floor \/ job.branches[b].floor <= pendingFloors[b]
  /\ \A c \in job.drops : log[c].sequence <= pendingFloors[log[c].branch]
  /\ \A r \in Readers : readers[r].state # "idle" => readers[r].commit \notin job.drops
  /\ \A r \in Readers : readers[r].state = "open" => readers[r].commit \in commits
  /\ \A c \in job.drops : ~Unread(c)

\* An open stream has its history in the store, up to where its queue goes on,
\* and the queue ends where memory stands, or the stream is ahead of it.
Cursor(s) == IF s.retainAfter >= s.through THEN s.retainAfter ELSE s.through
StreamSound(s) ==
  s.state = "open" =>
    /\ \A n \in (s.retainAfter + 1)..s.through : Stored(s.branch, n)
    /\ s.after = Cursor(s) + Len(s.queue)
    /\ \A i \in 1..Len(s.queue) : s.queue[i] = Cursor(s) + i
    /\ s.after = branches[s.branch].sequence \/ s.after = branches[s.branch].sequence + 1
StreamsSound == \A t \in Streams : streams[t].state # "lost" /\ StreamSound(streams[t])

\* Page ids grow: what was staged in vain is behind, what is new is beyond the
\* collection.
IdsFresh ==
  /\ \A p \in aborted \union job.puts : p < nextId
  /\ job.puts \intersect aborted = {}
  /\ gcPhase # "idle" => cutoff <= nextId /\ \A p \in job.puts : p >= cutoff

\* While commits are marked, each old page in use is marked or belongs to a commit
\* still due; afterwards it is marked.  Only pages in use are.
Covered(p) ==
  p \in marked \/ (gcPhase = "mark" /\ \E d \in due : p \in log[d].pages)
MarksCover ==
  /\ job.drops # {} => gcPhase = "prune"
  /\ gcPhase \in {"idle", "prune"} => marked = {}
  /\ gcPhase = "mark" => due \subseteq commits
  /\ gcPhase \in {"mark", "sweep"} =>
       /\ \A c \in commits : \A p \in log[c].pages : p < cutoff => Covered(p)
       /\ \A p \in marked : \E c \in commits : p \in log[c].pages

\* Nothing of a process survives it.
DownIsQuiet ==
  state = "down" =>
    /\ gcPhase = "idle"
    /\ \A r \in Readers : readers[r] = NoReader
    /\ \A t \in Streams : streams[t] = NoStream

IInv == /\ TypeOK /\ StoreSound /\ MemoryFollows /\ JobSound /\ Barred
        /\ StreamsSound /\ IdsFresh /\ MarksCover /\ DownIsQuiet

-----------------------------------------------------------------------------
(* Types. *)

LEMMA InitType == Init => TypeOK
<1> SUFFICES ASSUME Init PROVE TypeOK OBVIOUS
<1>1. NoEntry \in Entry
  BY DEF NoEntry, Entry, PageIds
<1>2. log \in Seq(Entry) /\ Len(log) = 1 /\ Len(log) \in Ids /\ DOMAIN log = {1}
  BY <1>1 DEF Init, Ids
<1>3. branchTable \in Table /\ retainTable \in Retentions
  BY DEF Init, Table, Branch, NoBranch, Ids, Retentions
<1>4. NoJob \in Job
  BY <1>1 DEF NoJob, Job, Ids, PageIds, Table, Branch, NoBranch, Retentions
<1>5. readers \in [Readers -> Reader] /\ streams \in [Streams -> Stream]
  BY DEF Init, NoReader, Reader, NoStream, Stream
<1> QED BY <1>2, <1>3, <1>4, <1>5 DEF Init, TypeOK, PageIds

LEMMA NoJobType == NoJob \in Job
<1>1. NoEntry \in Entry
  BY DEF NoEntry, Entry, PageIds
<1> QED BY <1>1 DEF NoJob, Job, Ids, PageIds, Table, Branch, NoBranch, Retentions

-----------------------------------------------------------------------------
(* The largest of a bounded set of numbers. *)

LEMMA SmallestIn ==
  ASSUME NEW T \in SUBSET Nat, T # {}
  PROVE  \E x \in T : \A y \in T : x <= y
<1>1. \E x \in T : \A y \in T : <<y, x>> \notin OpToRel(<, Nat)
  BY NatLessThanWellFounded, WFMin DEF OpToRel
<1>2. \A x, y \in Nat : <<y, x>> \notin OpToRel(<, Nat) => x <= y
  BY DEF OpToRel
<1> QED BY <1>1, <1>2

LEMMA LargestIn ==
  ASSUME NEW S \in SUBSET Nat, S # {}, NEW k \in Nat, \A y \in S : y <= k
  PROVE  Max(S) \in S /\ \A y \in S : y <= Max(S)
<1> DEFINE Bounds == {n \in Nat : \A y \in S : y <= n}
<1>1. PICK m \in Bounds : \A n \in Bounds : m <= n
  <2>1. Bounds \in SUBSET Nat /\ k \in Bounds
    OBVIOUS
  <2> HIDE DEF Bounds
  <2> QED BY <2>1, SmallestIn
<1>2. m \in S
  <2> SUFFICES ASSUME m \notin S PROVE FALSE
    OBVIOUS
  <2>1. PICK y \in S : TRUE
    OBVIOUS
  <2>2. m > 0 /\ m - 1 \in Nat
    BY <2>1
  <2>3. m - 1 \in Bounds
    BY <2>2
  <2> QED BY <1>1, <2>2, <2>3
<1>3. \A y \in S : y <= m
  BY <1>1
<1>4. \E x \in S : \A y \in S : x >= y
  BY <1>2, <1>3
<1> QED BY <1>4, Zenon DEF Max

LEMMA LargerOf ==
  ASSUME NEW i \in Nat, NEW j \in Nat
  PROVE  Max({i, j}) = IF i >= j THEN i ELSE j
<1>1. \A y \in {i, j} : y <= i + j
  OBVIOUS
<1>2. Max({i, j}) \in {i, j} /\ \A y \in {i, j} : y <= Max({i, j})
  BY <1>1, LargestIn
<1> QED BY <1>2

\* The floor of a branch is raised to what goes, and no further.
LEMMA FloorRaised ==
  ASSUME TypeOK, StoreSound, NEW b \in Branches, NEW doomed \in SUBSET DOMAIN log
  PROVE  /\ FloorAbove(b, doomed) \in Nat
         /\ branches[b].floor <= FloorAbove(b, doomed)
         /\ \A c \in doomed : log[c].branch = b => log[c].sequence <= FloorAbove(b, doomed)
         /\ (\A c \in doomed : log[c].branch # b) => FloorAbove(b, doomed) = branches[b].floor
<1> DEFINE S == {branches[b].floor} \union {log[c].sequence : c \in {d \in doomed : log[d].branch = b}}
<1>1. branches[b].floor \in Nat /\ Len(log) \in Nat
  BY DEF TypeOK, Table, Branch
<1>2. \A c \in doomed : log[c].sequence \in Nat /\ log[c].sequence <= Len(log)
  <2>1. TAKE c \in doomed
  <2>2. c \in DOMAIN log /\ log \in Seq(Entry)
    BY DEF TypeOK
  <2>3. log[c] \in Entry
    BY <2>2
  <2> QED BY <2>2, <2>3 DEF Entry, StoreSound, Sound
<1>3. S \in SUBSET Nat /\ S # {} /\ \A y \in S : y <= branches[b].floor + Len(log)
  BY <1>1, <1>2
<1>4. Max(S) \in S /\ \A y \in S : y <= Max(S)
  <2> HIDE DEF S
  <2>1. branches[b].floor + Len(log) \in Nat
    BY <1>1
  <2> QED BY <1>3, <2>1, LargestIn
<1>5. FloorAbove(b, doomed) = Max(S)
  BY DEF FloorAbove
<1>6. (\A c \in doomed : log[c].branch # b) => S = {branches[b].floor}
  OBVIOUS
<1> HIDE DEF S
<1>7. branches[b].floor \in S /\ \A c \in doomed : log[c].branch = b => log[c].sequence \in S
  BY DEF S
<1> QED BY <1>3, <1>4, <1>5, <1>6, <1>7

-----------------------------------------------------------------------------
(* What each operation is about to publish. *)

Batch(adds, entry, puts, drops, sweeps, table, names) ==
  [stage |-> "publishing", adds |-> adds, entry |-> entry, puts |-> puts, drops |-> drops,
   sweeps |-> sweeps, branches |-> table, retains |-> names]

\* An operation that publishes starts from memory and changes what it must.
LEMMA NewBatchIs == NewBatch = Batch(FALSE, NoEntry, {}, {}, {}, branches, retains)
<1>1. NewBatch \in [stage : {"publishing"}, adds : {FALSE}, entry : {NoEntry}, puts : {{}},
                    drops : {{}}, sweeps : {{}}, branches : {branches}, retains : {retains}]
  BY DEF NewBatch, NoJob
<1> QED BY <1>1 DEF Batch

LEMMA CommitJob ==
  ASSUME TypeOK, NEW b \in Branches, Commit(b)
  PROVE  \E kept \in SUBSET log[branches[b].head].pages, fresh \in {{}, {nextId}} :
           job' = Batch(TRUE, [branch |-> b, sequence |-> branches[b].sequence + 1,
                               pages |-> kept \union fresh],
                        fresh, {}, {},
                        [branches EXCEPT ![b] =
                          [head |-> Len(log) + 1, base |-> branches[b].base,
                           sequence |-> branches[b].sequence + 1,
                           floor |-> branches[b].floor]],
                        retains)
<1>1. PICK kept \in SUBSET log[branches[b].head].pages, fresh \in {{}, {nextId}} :
        job' = [NewBatch EXCEPT
          !.adds = TRUE, !.puts = fresh,
          !.entry = [branch |-> b, sequence |-> branches[b].sequence + 1,
                     pages |-> kept \union fresh],
          !.branches[b] = [@ EXCEPT !.head = Len(log) + 1,
                                    !.sequence = branches[b].sequence + 1]]
  BY DEF Commit
<1> DEFINE entry == [branch |-> b, sequence |-> branches[b].sequence + 1,
                     pages |-> kept \union fresh]
           moved == [branches[b] EXCEPT !.head = Len(log) + 1,
                                        !.sequence = branches[b].sequence + 1]
           next == [head |-> Len(log) + 1, base |-> branches[b].base,
                    sequence |-> branches[b].sequence + 1, floor |-> branches[b].floor]
<1>2. branches[b] \in Branch
  BY DEF TypeOK, Table
<1>3. moved \in [head : {Len(log) + 1}, base : {branches[b].base},
                 sequence : {branches[b].sequence + 1}, floor : {branches[b].floor}]
  BY <1>2 DEF Branch
<1>4. moved = next
  <2> HIDE DEF moved
  <2> QED BY <1>3
<1>5. job' \in [stage : {"publishing"}, adds : {TRUE}, entry : {entry}, puts : {fresh},
                drops : {{}}, sweeps : {{}},
                branches : {[branches EXCEPT ![b] = moved]}, retains : {retains}]
  BY <1>1, NewBatchIs DEF Batch
<1>6. job' = Batch(TRUE, entry, fresh, {}, {}, [branches EXCEPT ![b] = moved], retains)
  <2> HIDE DEF entry, moved
  <2> QED BY <1>5 DEF Batch
<1> QED BY <1>4, <1>6

LEMMA CreateJob ==
  ASSUME NEW b \in Branches, CreateBranch(b)
  PROVE  \E c \in commits :
           job' = Batch(FALSE, NoEntry, {}, {}, {},
                        [branches EXCEPT ![b] = [head |-> c, base |-> c, sequence |-> 0, floor |-> 0]],
                        retains)
<1>1. PICK c \in commits :
        job' = [NewBatch EXCEPT !.branches[b] = [head |-> c, base |-> c, sequence |-> 0, floor |-> 0]]
  BY DEF CreateBranch
<1> DEFINE table == [branches EXCEPT ![b] = [head |-> c, base |-> c, sequence |-> 0, floor |-> 0]]
<1>2. job' \in [stage : {"publishing"}, adds : {FALSE}, entry : {NoEntry}, puts : {{}},
                drops : {{}}, sweeps : {{}}, branches : {table}, retains : {retains}]
  BY <1>1, NewBatchIs DEF Batch
<1>3. job' = Batch(FALSE, NoEntry, {}, {}, {}, table, retains)
  <2> HIDE DEF table
  <2> QED BY <1>2 DEF Batch
<1> QED BY <1>3

LEMMA RetainJob ==
  ASSUME NEW name \in Names, Retain(name)
  PROVE  \E c \in commits :
           job' = Batch(FALSE, NoEntry, {}, {}, {}, branches, [retains EXCEPT ![name] = c])
<1>1. PICK c \in commits : job' = [NewBatch EXCEPT !.retains[name] = c]
  BY DEF Retain
<1> DEFINE names == [retains EXCEPT ![name] = c]
<1>2. job' \in [stage : {"publishing"}, adds : {FALSE}, entry : {NoEntry}, puts : {{}},
                drops : {{}}, sweeps : {{}}, branches : {branches}, retains : {names}]
  BY <1>1, NewBatchIs DEF Batch
<1>3. job' = Batch(FALSE, NoEntry, {}, {}, {}, branches, names)
  <2> HIDE DEF names
  <2> QED BY <1>2 DEF Batch
<1> QED BY <1>3

LEMMA ReleaseJob ==
  ASSUME NEW name \in Names, ReleaseRetention(name)
  PROVE  job' = Batch(FALSE, NoEntry, {}, {}, {}, branches, [retains EXCEPT ![name] = 0])
<1> DEFINE names == [retains EXCEPT ![name] = 0]
<1>1. job' = [NewBatch EXCEPT !.retains[name] = 0]
  BY DEF ReleaseRetention
<1>2. job' \in [stage : {"publishing"}, adds : {FALSE}, entry : {NoEntry}, puts : {{}},
                drops : {{}}, sweeps : {{}}, branches : {branches}, retains : {names}]
  BY <1>1, NewBatchIs DEF Batch
<1>3. job' = Batch(FALSE, NoEntry, {}, {}, {}, branches, names)
  <2> HIDE DEF names
  <2> QED BY <1>2 DEF Batch
<1> QED BY <1>3

\* The tables a batch that deletes doomed brings.
Raised(doomed) ==
  [b \in Branches |-> [head |-> branches[b].head, base |-> branches[b].base,
                       sequence |-> branches[b].sequence, floor |-> FloorAbove(b, doomed)]]
Pending(doomed) ==
  [b \in Branches |-> IF \E c \in doomed : log[c].branch = b THEN FloorAbove(b, doomed) ELSE 0]

LEMMA PruneJob ==
  ASSUME TypeOK, GcPrune
  PROVE  \E doomed \in SUBSET due :
           /\ doomed \intersect Roots = {} /\ \A c \in doomed : ~Unread(c)
           /\ \/ UNCHANGED <<job, barrierVars>>
              \/ /\ job' = Batch(FALSE, NoEntry, {}, doomed, {}, Raised(doomed), retains)
                 /\ retiring' = doomed /\ pendingFloors' = Pending(doomed)
<1>1. PICK batch \in SUBSET due :
        LET doomed == {c \in batch : c \notin Roots /\ ~Unread(c)}
        IN IF doomed = {} THEN UNCHANGED <<job, barrierVars>>
           ELSE /\ job' = [NewBatch EXCEPT !.drops = doomed,
                     !.branches = [b \in Branches |->
                       [branches[b] EXCEPT !.floor = FloorAbove(b, doomed)]]]
                /\ retiring' = Barrier(doomed)
                /\ pendingFloors' = [b \in Branches |->
                     IF \E c \in doomed : log[c].branch = b
                     THEN FloorAbove(b, doomed) ELSE 0]
  BY DEF GcPrune
<1> DEFINE doomed == {c \in batch : c \notin Roots /\ ~Unread(c)}
           table == [b \in Branches |-> [branches[b] EXCEPT !.floor = FloorAbove(b, doomed)]]
<1>2. doomed \in SUBSET due /\ doomed \intersect Roots = {} /\ \A c \in doomed : ~Unread(c)
  OBVIOUS
<1>3. CASE doomed = {}
  BY <1>1, <1>2, <1>3
<1>4. CASE doomed # {}
  <2>1. /\ job' = [NewBatch EXCEPT !.drops = doomed, !.branches = table]
        /\ retiring' = doomed /\ pendingFloors' = Pending(doomed)
    BY <1>1, <1>4 DEF Barrier, Pending
  <2> HIDE DEF doomed
  <2>2. \A b \in Branches :
          [branches[b] EXCEPT !.floor = FloorAbove(b, doomed)]
            = [head |-> branches[b].head, base |-> branches[b].base,
               sequence |-> branches[b].sequence, floor |-> FloorAbove(b, doomed)]
    <3>1. TAKE b \in Branches
    <3>2. branches[b] \in Branch
      BY DEF TypeOK, Table
    <3> QED BY <3>2 DEF Branch
  <2>3. table = Raised(doomed)
    BY <2>2 DEF Raised
  <2> HIDE DEF table
  <2>4. job' \in [stage : {"publishing"}, adds : {FALSE}, entry : {NoEntry}, puts : {{}},
                  drops : {doomed}, sweeps : {{}}, branches : {table}, retains : {retains}]
    BY <2>1, NewBatchIs DEF Batch
  <2>5. job' = Batch(FALSE, NoEntry, {}, doomed, {}, table, retains)
    BY <2>4 DEF Batch
  <2> QED BY <1>2, <2>1, <2>3, <2>5
<1> QED BY <1>3, <1>4

LEMMA SweepJob ==
  ASSUME GcSweep
  PROVE  \E batch \in SUBSET Garbage :
           job' = Batch(FALSE, NoEntry, {}, {}, batch, branches, retains)
<1>1. PICK batch \in SUBSET Garbage : job' = [NewBatch EXCEPT !.sweeps = batch]
  BY DEF GcSweep
<1>2. job' \in [stage : {"publishing"}, adds : {FALSE}, entry : {NoEntry}, puts : {{}},
                drops : {{}}, sweeps : {batch}, branches : {branches}, retains : {retains}]
  BY <1>1, NewBatchIs DEF Batch
<1>3. job' = Batch(FALSE, NoEntry, {}, {}, batch, branches, retains)
  BY <1>2 DEF Batch
<1> QED BY <1>3

-----------------------------------------------------------------------------
(* Types. *)

LEMMA CommitType ==
  ASSUME TypeOK, NEW b \in Branches, Commit(b)
  PROVE  TypeOK'
<1>1. branches \in Table /\ branches[b] \in Branch /\ retains \in Retentions
  BY DEF TypeOK, Table
<1>2. nextId \in Nat /\ nextId' = nextId + 1
  BY DEF TypeOK, Commit
<1>3. Len(log) + 1 \in Ids
  <2>1. Len(log) \in Nat /\ Len(log) < MaxCommits
    BY DEF TypeOK, Commit, Ids
  <2> QED BY <2>1 DEF Ids
<1>4. log[branches[b].head].pages \subseteq Nat
  <2>1. branches[b].head \in DOMAIN log /\ log \in Seq(Entry)
    BY DEF TypeOK, Commit
  <2>2. log[branches[b].head] \in Entry
    BY <2>1
  <2> QED BY <2>2 DEF Entry, PageIds
<1>5. PICK kept \in SUBSET log[branches[b].head].pages, fresh \in {{}, {nextId}} :
        job' = Batch(TRUE, [branch |-> b, sequence |-> branches[b].sequence + 1,
                            pages |-> kept \union fresh],
                     fresh, {}, {},
                     [branches EXCEPT ![b] =
                       [head |-> Len(log) + 1, base |-> branches[b].base,
                        sequence |-> branches[b].sequence + 1,
                        floor |-> branches[b].floor]],
                     retains)
  BY CommitJob
<1>6. [branch |-> b, sequence |-> branches[b].sequence + 1, pages |-> kept \union fresh] \in Entry
  BY <1>1, <1>2, <1>4 DEF Entry, Branch, PageIds
<1>7. [head |-> Len(log) + 1, base |-> branches[b].base,
       sequence |-> branches[b].sequence + 1, floor |-> branches[b].floor] \in Branch
  BY <1>1, <1>3 DEF Branch
<1>8. [branches EXCEPT ![b] =
        [head |-> Len(log) + 1, base |-> branches[b].base,
         sequence |-> branches[b].sequence + 1, floor |-> branches[b].floor]] \in Table
  BY <1>1, <1>7 DEF Table
<1>9. job' \in Job
  BY <1>1, <1>2, <1>5, <1>6, <1>8 DEF Job, PageIds, Batch
<1>10. UNCHANGED <<storeVars, state, memoryVars, aborted, aborts, readers, streams,
                   barrierVars, gcVars, faults>>
  BY DEF Commit
<1> QED BY <1>2, <1>9, <1>10 DEF TypeOK, storeVars, memoryVars, barrierVars, gcVars

\* Whatever is published is typed when its tables and its commit are.
LEMMA BatchType ==
  ASSUME NEW drops \in SUBSET Ids, NEW sweeps \in SUBSET PageIds, NEW table \in Table,
         NEW names \in Retentions
  PROVE  Batch(FALSE, NoEntry, {}, drops, sweeps, table, names) \in Job
<1>1. NoEntry \in Entry
  BY DEF NoEntry, Entry, PageIds
<1> QED BY <1>1 DEF Batch, Job

LEMMA OperationTypes ==
  ASSUME TypeOK, StoreSound,
         \/ \E b \in Branches : CreateBranch(b)
         \/ \E n \in Names : Retain(n) \/ ReleaseRetention(n)
         \/ GcPrune \/ GcSweep
  PROVE  TypeOK'
<1>1. branches \in Table /\ retains \in Retentions /\ commits \subseteq Ids /\ DOMAIN log \subseteq Ids
      /\ due \subseteq DOMAIN log /\ pages \subseteq PageIds
  <2>1. log \in Seq(Entry) /\ Len(log) \in 1..MaxCommits
    BY DEF TypeOK, Ids
  <2>2. DOMAIN log = 1..Len(log)
    BY <2>1
  <2>3. DOMAIN log \subseteq Ids
    BY <2>1, <2>2 DEF Ids
  <2> QED BY <2>3 DEF TypeOK
<1>2. ASSUME NEW b \in Branches, CreateBranch(b) PROVE TypeOK'
  <2>1. PICK c \in commits :
          job' = Batch(FALSE, NoEntry, {}, {}, {},
                       [branches EXCEPT ![b] = [head |-> c, base |-> c, sequence |-> 0, floor |-> 0]],
                       retains)
    BY <1>2, CreateJob
  <2>2. [branches EXCEPT ![b] = [head |-> c, base |-> c, sequence |-> 0, floor |-> 0]] \in Table
    BY <1>1 DEF Table, Branch
  <2>3. job' \in Job
    BY <1>1, <2>1, <2>2, BatchType
  <2> QED BY <1>2, <2>3 DEF CreateBranch, TypeOK, storeVars, memoryVars, pageVars, barrierVars, gcVars
<1>3. ASSUME NEW n \in Names, Retain(n) PROVE TypeOK'
  <2>1. PICK c \in commits :
          job' = Batch(FALSE, NoEntry, {}, {}, {}, branches, [retains EXCEPT ![n] = c])
    BY <1>3, RetainJob
  <2>2. [retains EXCEPT ![n] = c] \in Retentions
    BY <1>1 DEF Retentions
  <2>3. job' \in Job
    BY <1>1, <2>1, <2>2, BatchType
  <2> QED BY <1>3, <2>3 DEF Retain, TypeOK, storeVars, memoryVars, pageVars, barrierVars, gcVars
<1>4. ASSUME NEW n \in Names, ReleaseRetention(n) PROVE TypeOK'
  <2>1. job' = Batch(FALSE, NoEntry, {}, {}, {}, branches, [retains EXCEPT ![n] = 0])
    BY <1>4, ReleaseJob
  <2>2. [retains EXCEPT ![n] = 0] \in Retentions
    BY <1>1 DEF Retentions
  <2>3. job' \in Job
    BY <1>1, <2>1, <2>2, BatchType
  <2> QED BY <1>4, <2>3 DEF ReleaseRetention, TypeOK, storeVars, memoryVars, pageVars, barrierVars, gcVars
<1>5. CASE GcPrune
  <2>1. PICK doomed \in SUBSET due :
          \/ UNCHANGED <<job, barrierVars>>
          \/ /\ job' = Batch(FALSE, NoEntry, {}, doomed, {}, Raised(doomed), retains)
             /\ retiring' = doomed /\ pendingFloors' = Pending(doomed)
    BY <1>5, PruneJob
  <2>2. \A b \in Branches : FloorAbove(b, doomed) \in Nat
    BY <1>1, FloorRaised
  <2>3. Raised(doomed) \in Table /\ Pending(doomed) \in [Branches -> Nat]
    BY <1>1, <2>2 DEF Raised, Pending, Table, Branch
  <2>4. job' \in Job /\ retiring' \subseteq DOMAIN log /\ pendingFloors' \in [Branches -> Nat]
    <3>1. CASE UNCHANGED <<job, barrierVars>>
      BY <3>1 DEF TypeOK, barrierVars
    <3>2. CASE /\ job' = Batch(FALSE, NoEntry, {}, doomed, {}, Raised(doomed), retains)
               /\ retiring' = doomed /\ pendingFloors' = Pending(doomed)
      BY <1>1, <2>3, <3>2, BatchType
    <3> QED BY <2>1, <3>1, <3>2
  <2>5. due' \subseteq DOMAIN log
    BY <1>1, <1>5 DEF GcPrune
  <2>6. UNCHANGED <<storeVars, state, memoryVars, pageVars, readers, streams,
                    gcPhase, cutoff, marked, faults>>
    BY <1>5 DEF GcPrune
  <2> QED BY <2>4, <2>5, <2>6 DEF TypeOK, storeVars, memoryVars, pageVars
<1>6. CASE GcSweep
  <2>1. PICK batch \in SUBSET Garbage :
          job' = Batch(FALSE, NoEntry, {}, {}, batch, branches, retains)
    BY <1>6, SweepJob
  <2>2. job' \in Job
    BY <1>1, <2>1, BatchType DEF Garbage
  <2> QED BY <1>6, <2>2 DEF GcSweep, TypeOK, storeVars, memoryVars, pageVars, barrierVars, gcVars
<1> QED BY <1>2, <1>3, <1>4, <1>5, <1>6

LEMMA ApplyType ==
  ASSUME TypeOK, JobSound, job.stage = "publishing", Apply
  PROVE  /\ log' \in Seq(Entry) /\ Len(log') \in Ids /\ DOMAIN log \subseteq DOMAIN log'
         /\ commits' \subseteq DOMAIN log' /\ pages' \subseteq PageIds
         /\ branchTable' \in Table /\ retainTable' \in Retentions /\ nextPageId' \in Nat
<1>1. log \in Seq(Entry) /\ Len(log) \in 1..MaxCommits /\ commits \subseteq DOMAIN log
      /\ job \in Job /\ nextId \in Nat /\ pages \subseteq PageIds
  BY DEF TypeOK, Ids
<1>2. /\ log' \in Seq(Entry) /\ Len(log') \in Ids /\ DOMAIN log \subseteq DOMAIN log'
      /\ commits' \subseteq DOMAIN log'
  <2>1. CASE job.adds
    <3>1. job.entry \in Entry /\ Len(log) < MaxCommits
      BY <1>1, <2>1 DEF Job, JobSound
    <3>2. log' = Append(log, job.entry) /\ commits' \subseteq commits \union {Len(log) + 1}
      BY <2>1 DEF Apply, Logged
    <3>3. log' \in Seq(Entry) /\ Len(log') = Len(log) + 1 /\ DOMAIN log = 1..Len(log)
          /\ DOMAIN log' = 1..(Len(log) + 1)
      BY <1>1, <3>1, <3>2
    <3> QED BY <1>1, <3>1, <3>2, <3>3 DEF Ids
  <2>2. CASE ~job.adds
    BY <1>1, <2>2 DEF Apply, Logged, Ids
  <2> QED BY <2>1, <2>2
<1> QED BY <1>1, <1>2 DEF Apply, Job

LEMMA PublishType ==
  ASSUME TypeOK, JobSound, Publish \/ PublishFails
  PROVE  TypeOK'
<1>1. CASE Publish
  <2>1. job.stage = "publishing" /\ Apply /\ job' = [job EXCEPT !.stage = "published"]
        /\ UNCHANGED <<state, memoryVars, pageVars, readers, streams, barrierVars, gcVars, faults>>
    BY <1>1 DEF Publish
  <2>2. job' \in Job
    BY <2>1 DEF TypeOK, Job
  <2>3. retiring \subseteq DOMAIN log' /\ due \subseteq DOMAIN log'
    BY <2>1, ApplyType DEF TypeOK
  <2> QED BY <2>1, <2>2, <2>3, ApplyType DEF TypeOK, memoryVars, pageVars, barrierVars, gcVars
<1>2. CASE PublishFails
  <2>1. job.stage = "publishing" /\ (Apply \/ UNCHANGED storeVars) /\ job' = NoJob
        /\ state' = "failed" /\ LowerBarrier /\ faults < MaxFaults /\ faults' = faults + 1
        /\ UNCHANGED <<memoryVars, pageVars, readers, streams, gcVars>>
    BY <1>2 DEF PublishFails
  <2>2. faults' \in 0..MaxFaults
    BY <2>1 DEF TypeOK
  <2>3. retiring' = {} /\ pendingFloors' \in [Branches -> Nat]
    BY <2>1 DEF LowerBarrier
  <2>4. CASE Apply
    <3>1. due \subseteq DOMAIN log'
      BY <2>1, <2>4, ApplyType DEF TypeOK
    <3> QED BY <2>1, <2>2, <2>3, <2>4, <3>1, ApplyType, NoJobType DEF TypeOK, memoryVars, pageVars, gcVars
  <2>5. CASE UNCHANGED storeVars
    BY <2>1, <2>2, <2>3, <2>5, NoJobType DEF TypeOK, storeVars, memoryVars, pageVars, gcVars
  <2> QED BY <2>1, <2>4, <2>5
<1> QED BY <1>1, <1>2

LEMMA InstallType ==
  ASSUME TypeOK, Install
  PROVE  TypeOK'
<1>1. job \in Job /\ streams \in [Streams -> Stream] /\ job.entry.sequence \in Nat
  BY DEF TypeOK, Job, Entry
<1>2. \A t \in Streams : streams'[t] \in Stream
  <2>1. TAKE t \in Streams
  <2>2. streams[t] \in Stream /\ streams[t].queue \in Seq(Nat)
    BY <1>1 DEF Stream
  <2>3. [streams[t] EXCEPT !.queue = Append(@, job.entry.sequence), !.after = job.entry.sequence] \in Stream
    <3>1. Append(streams[t].queue, job.entry.sequence) \in Seq(Nat)
      BY <1>1, <2>2
    <3> QED BY <1>1, <2>2, <3>1 DEF Stream
  <2>4. streams'[t] \in {streams[t], [streams[t] EXCEPT !.queue = Append(@, job.entry.sequence),
                                                        !.after = job.entry.sequence]}
    BY DEF Install
  <2> QED BY <2>2, <2>3, <2>4
<1>3. streams' \in [Streams -> Stream]
  BY <1>2 DEF Install
<1>4. pendingFloors' \in [Branches -> Nat] /\ retiring' = {}
  BY DEF Install, LowerBarrier
<1> QED BY <1>1, <1>3, <1>4, NoJobType DEF Install, TypeOK, Job, storeVars, pageVars, gcVars

LEMMA ReaderType ==
  ASSUME TypeOK, NEW r \in Readers, Snapshot(r) \/ SnapshotRead(r) \/ CloseSnapshot(r)
  PROVE  TypeOK'
<1>1. readers' \in [Readers -> Reader]
  <2>1. readers \in [Readers -> Reader] /\ DOMAIN log \subseteq Ids
    BY DEF TypeOK, Ids
  <2>2. CASE Snapshot(r)
    BY <2>1, <2>2 DEF Snapshot, Reader
  <2>3. CASE SnapshotRead(r)
    BY <2>1, <2>3 DEF SnapshotRead, Reader, NoReader
  <2>4. CASE CloseSnapshot(r)
    BY <2>1, <2>4 DEF CloseSnapshot, Reader, NoReader
  <2> QED BY <2>2, <2>3, <2>4
<1>2. UNCHANGED <<storeVars, state, memoryVars, pageVars, job, streams, barrierVars, gcVars, faults>>
  BY DEF Snapshot, SnapshotRead, CloseSnapshot
<1> QED BY <1>1, <1>2 DEF TypeOK, storeVars, memoryVars, pageVars, barrierVars, gcVars

LEMMA StreamType ==
  ASSUME TypeOK, NEW t \in Streams, OpenStream(t) \/ Replay(t) \/ Deliver(t) \/ EndStream(t)
  PROVE  TypeOK'
<1>1. streams \in [Streams -> Stream] /\ streams[t] \in Stream
  BY DEF TypeOK
<1>2. NoStream \in Stream
  BY DEF NoStream, Stream
<1>3. streams' \in [Streams -> Stream]
  <2>1. CASE OpenStream(t)
    <3>. PICK b \in Branches : \E after \in Floor(b)..(branches[b].sequence + 1) :
            streams' = [streams EXCEPT ![t] =
              [state |-> "open", branch |-> b, retainAfter |-> after,
               through |-> branches[b].sequence,
               after |-> Max({branches[b].sequence, after}), queue |-> <<>>]]
      BY <2>1 DEF OpenStream
    <3>1. PICK after \in Floor(b)..(branches[b].sequence + 1) :
            streams' = [streams EXCEPT ![t] =
              [state |-> "open", branch |-> b, retainAfter |-> after,
               through |-> branches[b].sequence,
               after |-> Max({branches[b].sequence, after}), queue |-> <<>>]]
      OBVIOUS
    <3>2. branches[b].sequence \in Nat /\ branches[b].floor \in Nat /\ pendingFloors[b] \in Nat
      BY DEF TypeOK, Table, Branch
    <3>3. Floor(b) \in Nat
      BY <3>2, LargerOf DEF Floor
    <3>4. after \in Nat
      BY <3>2, <3>3
    <3>5. Max({branches[b].sequence, after}) \in Nat
      BY <3>2, <3>4, LargerOf
    <3> QED BY <1>1, <3>1, <3>2, <3>4, <3>5 DEF Stream
  <2>2. CASE Replay(t)
    <3>1. streams[t].retainAfter + 1 \in Nat
      BY <1>1 DEF Stream
    <3>2. [streams[t] EXCEPT !.retainAfter = streams[t].retainAfter + 1] \in Stream
      BY <1>1, <3>1 DEF Stream
    <3>3. [NoStream EXCEPT !.state = "lost"] \in Stream
      BY <1>2 DEF Stream
    <3> QED BY <1>1, <2>2, <3>2, <3>3 DEF Replay
  <2>3. CASE Deliver(t)
    <3>1. streams[t].queue \in Seq(Nat) /\ streams[t].queue # <<>>
      BY <1>1, <2>3 DEF Stream, Deliver
    <3>2. Head(streams[t].queue) \in Nat /\ Tail(streams[t].queue) \in Seq(Nat)
      BY <3>1
    <3>3. streams' = [streams EXCEPT ![t] = [streams[t] EXCEPT
                        !.retainAfter = Head(streams[t].queue), !.queue = Tail(streams[t].queue)]]
      BY <1>1, <2>3 DEF Deliver
    <3>4. [streams[t] EXCEPT !.retainAfter = Head(streams[t].queue),
                             !.queue = Tail(streams[t].queue)] \in Stream
      BY <1>1, <3>2 DEF Stream
    <3> QED BY <1>1, <3>3, <3>4
  <2>4. CASE EndStream(t)
    BY <1>1, <1>2, <2>4 DEF EndStream
  <2> QED BY <2>1, <2>2, <2>3, <2>4
<1>4. UNCHANGED <<storeVars, state, memoryVars, pageVars, job, readers, barrierVars, gcVars, faults>>
  BY DEF OpenStream, Replay, Deliver, EndStream
<1> QED BY <1>3, <1>4 DEF TypeOK, storeVars, memoryVars, pageVars, barrierVars, gcVars

LEMMA CollectorType ==
  ASSUME TypeOK, GcStart \/ GcPruned \/ GcMark \/ GcMarked \/ GcDone \/ GcAborts
  PROVE  TypeOK'
<1>1. /\ UNCHANGED <<storeVars, state, memoryVars, pageVars, job, readers, streams, barrierVars, faults>>
      /\ gcPhase' \in {"idle", "prune", "mark", "sweep"} /\ cutoff' \in Nat
      /\ due' \subseteq DOMAIN log /\ marked' \subseteq PageIds
  <2>1. CASE GcStart
    BY <2>1 DEF GcStart, TypeOK, CutoffNow, Expired
  <2>2. CASE GcMark
    <3>1. PICK c \in due : due' = due \ {c} /\ marked' = marked \union {p \in log[c].pages : p < cutoff}
      BY <2>2 DEF GcMark
    <3>2. log[c] \in Entry
      BY DEF TypeOK
    <3> QED BY <2>2, <3>1, <3>2 DEF GcMark, TypeOK, Entry
  <2>3. CASE GcPruned \/ GcMarked \/ GcDone \/ GcAborts
    BY <2>3 DEF GcPruned, GcMarked, GcDone, GcAborts, CollectorIdle, TypeOK, gcVars
  <2> QED BY <2>1, <2>2, <2>3
<1> QED BY <1>1 DEF TypeOK, storeVars, memoryVars, pageVars, barrierVars

LEMMA LifeType ==
  ASSUME TypeOK, CommitAborts \/ Close \/ Closed \/ Crash \/ Open
  PROVE  TypeOK'
<1>1. CASE CommitAborts
  BY <1>1 DEF CommitAborts, SpendId, TypeOK, PageIds, storeVars, memoryVars, barrierVars, gcVars
<1>2. CASE Close
  BY <1>2 DEF Close, TypeOK, storeVars, memoryVars, pageVars, barrierVars, gcVars
<1>3. CASE Closed \/ Crash
  <2>1. Vanish /\ faults' \in 0..MaxFaults
    BY <1>3 DEF Closed, Crash, TypeOK
  <2>2. NoStream \in Stream /\ NoReader \in Reader
    BY DEF NoStream, Stream, NoReader, Reader
  <2> QED BY <2>1, <2>2, NoJobType DEF Vanish, LowerBarrier, CollectorIdle, TypeOK,
                                       storeVars, memoryVars, pageVars
<1>4. CASE Open
  BY <1>4 DEF Open, TypeOK, storeVars, barrierVars, gcVars
<1> QED BY <1>1, <1>2, <1>3, <1>4

LEMMA TypeStep ==
  ASSUME TypeOK, StoreSound, JobSound, [Next]_vars
  PROVE  TypeOK'
<1>1. CASE UNCHANGED vars
  BY <1>1 DEF vars, TypeOK, storeVars, memoryVars, pageVars, barrierVars, gcVars
<1>2. CASE Next
  BY <1>2, CommitType, OperationTypes, PublishType, InstallType, ReaderType, StreamType,
     CollectorType, LifeType DEF Next, GcStep
<1> QED BY <1>1, <1>2

-----------------------------------------------------------------------------
(* The kinds of steps there are. *)

\* What every operation without a commit has in common.
LEMMA PlainJob ==
  ASSUME NEW drops, NEW sweeps, NEW table, NEW names,
         job' = Batch(FALSE, NoEntry, {}, drops, sweeps, table, names)
  PROVE  /\ job'.stage = "publishing" /\ ~job'.adds /\ job'.puts = {} /\ job'.drops = drops
         /\ job'.sweeps = sweeps /\ job'.branches = table /\ job'.retains = names
BY DEF Batch

\* The step in which an operation hands its batch to publish().
Begins ==
  \/ \E b \in Branches : Commit(b) \/ CreateBranch(b)
  \/ \E n \in Names : Retain(n) \/ ReleaseRetention(n)
  \/ GcSweep
  \/ GcPrune /\ job' # job

LEMMA BeginsIs ==
  ASSUME TypeOK, Begins
  PROVE  /\ MyTurn /\ job'.stage = "publishing"
         /\ UNCHANGED <<storeVars, state, memoryVars, readers, streams, gcPhase, cutoff, marked>>
         /\ ~GcPrune => UNCHANGED barrierVars /\ job'.drops = {}
<1>1. ASSUME NEW b \in Branches, Commit(b) PROVE job'.stage = "publishing" /\ job'.drops = {}
  BY <1>1, CommitJob DEF Batch
<1>2. ASSUME NEW b \in Branches, CreateBranch(b) PROVE job'.stage = "publishing" /\ job'.drops = {}
  BY <1>2, CreateJob, PlainJob
<1>3. ASSUME NEW n \in Names, Retain(n) PROVE job'.stage = "publishing" /\ job'.drops = {}
  BY <1>3, RetainJob, PlainJob
<1>4. ASSUME NEW n \in Names, ReleaseRetention(n) PROVE job'.stage = "publishing" /\ job'.drops = {}
  BY <1>4, ReleaseJob, PlainJob
<1>5. CASE GcSweep
  BY <1>5, SweepJob, PlainJob DEF GcSweep, gcVars
<1>6. CASE GcPrune /\ job' # job
  BY <1>6, PruneJob, PlainJob DEF GcPrune
<1>7. CASE \E b \in Branches : Commit(b) \/ CreateBranch(b)
  BY <1>1, <1>2, <1>7 DEF Commit, CreateBranch, gcVars
<1>8. CASE \E n \in Names : Retain(n) \/ ReleaseRetention(n)
  BY <1>3, <1>4, <1>8 DEF Retain, ReleaseRetention, gcVars
<1> QED BY <1>5, <1>6, <1>7, <1>8 DEF Begins, GcSweep, gcVars

ReadStep == \E r \in Readers : Snapshot(r) \/ SnapshotRead(r) \/ CloseSnapshot(r)
StreamStep == \E t \in Streams : OpenStream(t) \/ Replay(t) \/ Deliver(t) \/ EndStream(t)
CollectStep ==
  \/ GcStart \/ GcPruned \/ GcMark \/ GcMarked \/ GcDone \/ GcAborts
  \/ GcPrune /\ job' = job
Ends == Closed \/ Crash

\* A step that neither begins, stores nor ends a batch.
Calm == ReadStep \/ StreamStep \/ CollectStep \/ CommitAborts \/ Close \/ UNCHANGED vars

LEMMA Steps ==
  ASSUME [Next]_vars
  PROVE  Begins \/ Publish \/ Install \/ PublishFails \/ Ends \/ Open \/ Calm
BY DEF Next, GcStep, Begins, Calm, ReadStep, StreamStep, CollectStep, Ends

LEMMA CollectFrame ==
  ASSUME TypeOK, CollectStep
  PROVE  UNCHANGED <<storeVars, state, memoryVars, pageVars, job, readers, streams, barrierVars>>
<1>1. CASE GcPrune /\ job' = job
  <2>1. job.stage = "idle"
    BY <1>1 DEF GcPrune, MyTurn
  <2>2. UNCHANGED barrierVars
    BY <1>1, <2>1, PruneJob, PlainJob
  <2> QED BY <1>1, <2>2 DEF GcPrune
<1>2. CASE GcStart \/ GcPruned \/ GcMark \/ GcMarked \/ GcDone \/ GcAborts
  BY <1>2 DEF GcStart, GcPruned, GcMark, GcMarked, GcDone, GcAborts
<1> QED BY <1>1, <1>2 DEF CollectStep

LEMMA CalmFrame ==
  ASSUME TypeOK, Calm
  PROVE  /\ UNCHANGED <<storeVars, memoryVars, job, barrierVars>>
         /\ state' = state \/ (state = "open" /\ state' = "closing")
         /\ ~ReadStep => UNCHANGED readers
         /\ ~StreamStep => UNCHANGED streams
         /\ ~CollectStep => UNCHANGED gcVars
         /\ ~CommitAborts => UNCHANGED pageVars
<1>1. CASE ReadStep
  BY <1>1 DEF ReadStep, Snapshot, SnapshotRead, CloseSnapshot
<1>2. CASE StreamStep
  BY <1>2 DEF StreamStep, OpenStream, Replay, Deliver, EndStream
<1>3. CASE CollectStep
  BY <1>3, CollectFrame
<1>4. CASE CommitAborts
  BY <1>4 DEF CommitAborts
<1>5. CASE Close
  BY <1>5 DEF Close
<1>6. CASE UNCHANGED vars
  BY <1>6 DEF vars
<1> QED BY <1>1, <1>2, <1>3, <1>4, <1>5, <1>6 DEF Calm

\* The batch of a process that goes, or of a publication that fails, is gone.
LEMMA BatchEnds ==
  ASSUME Install \/ PublishFails \/ Ends
  PROVE  job' = NoJob /\ job'.stage = "idle" /\ ~job'.adds /\ job'.drops = {} /\ job'.puts = {}
<1>1. job' = NoJob
  BY DEF Install, PublishFails, Ends, Closed, Crash, Vanish
<1> QED BY <1>1 DEF NoJob

LEMMA BatchStored ==
  ASSUME TypeOK, Publish
  PROVE  /\ job.stage = "publishing" /\ Apply
         /\ job'.stage = "published" /\ job'.adds = job.adds /\ job'.entry = job.entry
         /\ job'.puts = job.puts /\ job'.drops = job.drops /\ job'.sweeps = job.sweeps
         /\ job'.branches = job.branches /\ job'.retains = job.retains
         /\ UNCHANGED <<state, memoryVars, pageVars, readers, streams, barrierVars, gcVars>>
BY DEF Publish, TypeOK, Job

-----------------------------------------------------------------------------
(* The store is sound, and so is what a batch makes of it. *)

\* With the queue free, memory is what is stored.
LEMMA MemoryIsStored ==
  ASSUME IInv, MyTurn
  PROVE  /\ branches = branchTable /\ retains = retainTable /\ job = NoJob
         /\ branches \in Table /\ retains \in Retentions
         /\ Sound(log, commits, pages, branches, retains)
BY DEF IInv, TypeOK, MyTurn, MemoryFollows, JobSound, StoreSound

\* What an operation without a commit leaves.
LEMMA BatchLeaves ==
  ASSUME NEW drops, NEW sweeps, NEW table, NEW names, UNCHANGED storeVars,
         job' = Batch(FALSE, NoEntry, {}, drops, sweeps, table, names)
  PROVE  /\ Logged' = log /\ CommitsLeft' = commits \ drops /\ PagesLeft' = pages \ sweeps
         /\ job'.branches = table /\ job'.retains = names
BY DEF Batch, storeVars, Logged, CommitsLeft, PagesLeft

LEMMA CommitSound ==
  ASSUME IInv, NEW b \in Branches, Commit(b)
  PROVE  Sound(Logged, CommitsLeft, PagesLeft, job.branches, job.retains)'
<1>1. /\ branches \in Table /\ branches[b] \in Branch /\ Sound(log, commits, pages, branches, retains)
      /\ log \in Seq(Entry) /\ Len(log) \in Nat /\ DOMAIN log = 1..Len(log) /\ commits \subseteq 1..Len(log)
  <2>1. MyTurn /\ TypeOK
    BY DEF Commit, IInv
  <2>2. branches \in Table /\ Sound(log, commits, pages, branches, retains)
    BY <2>1, MemoryIsStored
  <2>3. log \in Seq(Entry) /\ Len(log) \in Nat /\ commits \subseteq DOMAIN log
    BY <2>1 DEF TypeOK, Ids
  <2>4. DOMAIN log = 1..Len(log)
    BY <2>3
  <2> QED BY <2>2, <2>3, <2>4 DEF Table
<1>2. branches[b].head \in commits /\ branches[b].head # 0 /\ UNCHANGED storeVars
  BY DEF Commit, Exists
<1>3. PICK kept \in SUBSET log[branches[b].head].pages, fresh \in {{}, {nextId}} :
        job' = Batch(TRUE, [branch |-> b, sequence |-> branches[b].sequence + 1,
                            pages |-> kept \union fresh],
                     fresh, {}, {},
                     [branches EXCEPT ![b] =
                       [head |-> Len(log) + 1, base |-> branches[b].base,
                        sequence |-> branches[b].sequence + 1,
                        floor |-> branches[b].floor]],
                     retains)
  BY CommitJob DEF IInv
<1> DEFINE n == branches[b].sequence + 1
           e == [branch |-> b, sequence |-> n, pages |-> kept \union fresh]
           l == Append(log, e)
           cs == commits \union {Len(log) + 1}
           ps == pages \union fresh
           table == [branches EXCEPT ![b] = [head |-> Len(log) + 1, base |-> branches[b].base,
                                             sequence |-> n, floor |-> branches[b].floor]]
<1>4. Logged' = l /\ CommitsLeft' = cs /\ PagesLeft' = ps /\ job'.branches = table /\ job'.retains = retains
  BY <1>2, <1>3 DEF Batch, storeVars, Logged, CommitsLeft, PagesLeft
<1>5. /\ Len(l) = Len(log) + 1 /\ DOMAIN l = 1..(Len(log) + 1) /\ l[Len(log) + 1] = e
      /\ \A c \in 1..Len(log) : l[c] = log[c]
  <2>1. DOMAIN l = 1..(Len(log) + 1) /\ Len(l) = Len(log) + 1
    BY <1>1
  <2>2. \A c \in 1..(Len(log) + 1) : l[c] = IF c = Len(log) + 1 THEN e ELSE log[c]
    <3> HIDE DEF e
    <3> QED BY <1>1
  <2> QED BY <1>1, <2>1, <2>2
<1>6. n \in Nat /\ branches[b].sequence \in Nat /\ branches[b].floor \in Nat /\ e.branch = b /\ e.sequence = n
      /\ e.pages = kept \union fresh
  BY <1>1 DEF Branch
<1>7. /\ table[b].head = Len(log) + 1 /\ table[b].base = branches[b].base
      /\ table[b].sequence = n /\ table[b].floor = branches[b].floor
      /\ \A d \in Branches : d # b => table[d] = branches[d]
  BY <1>1 DEF Table
<1> HIDE DEF n, e, l, cs, ps, table
<1>8. \A c \in cs : l[c].pages \subseteq ps
  <2>1. TAKE c \in cs
  <2>2. CASE c \in commits
    BY <1>1, <1>5, <2>2 DEF Sound, ps
  <2>3. CASE c = Len(log) + 1
    <3>1. l[c].pages = kept \union fresh /\ log[branches[b].head].pages \subseteq pages
      BY <1>1, <1>2, <1>5, <1>6, <2>3 DEF Sound
    <3> QED BY <3>1 DEF ps
  <2> QED BY <2>2, <2>3 DEF cs
<1>9. \A d \in Branches : table[d].head \in cs \union {0} /\ table[d].base \in cs \union {0}
  <2>1. TAKE d \in Branches
  <2>2. branches[d].head \in commits \union {0} /\ branches[d].base \in commits \union {0}
    BY <1>1 DEF Sound
  <2> QED BY <1>7, <2>2 DEF cs
<1>10. \A d \in Branches : table[d].head = 0 => table[d].sequence = 0
  BY <1>1, <1>7 DEF Sound
<1>11. \A name \in Names : retains[name] \in cs \union {0}
  BY <1>1 DEF Sound, cs
<1>12. \A d \in Branches : \A i \in (table[d].floor + 1)..table[d].sequence : Holds(l, cs, d, i)
  <2>1. ASSUME NEW d \in Branches, NEW i \in (branches[d].floor + 1)..branches[d].sequence
        PROVE  Holds(l, cs, d, i)
    <3>1. PICK c \in commits : log[c].branch = d /\ log[c].sequence = i
      BY <1>1 DEF Sound, Holds
    <3> QED BY <1>1, <1>5, <3>1 DEF Holds, cs
  <2>2. Holds(l, cs, b, n)
    BY <1>5, <1>6 DEF Holds, cs
  <2>3. \A i \in (branches[b].floor + 1)..n : i \in (branches[b].floor + 1)..branches[b].sequence \/ i = n
    BY <1>6 DEF n
  <2> QED BY <1>7, <2>1, <2>2, <2>3
<1>13. \A d \in Branches : table[d].sequence <= Len(l)
  <2>1. TAKE d \in Branches
  <2>2. branches[d].sequence <= Len(log) /\ branches[b].sequence <= Len(log) /\ branches[d].sequence \in Nat
    BY <1>1 DEF Sound, Table, Branch
  <2> QED BY <1>1, <1>5, <1>6, <1>7, <2>2 DEF n
<1>14. \A c \in DOMAIN l : l[c].sequence <= Len(l)
  <2>1. TAKE c \in DOMAIN l
  <2>2. CASE c \in 1..Len(log)
    <3>1. log[c] \in Entry /\ log[c].sequence <= Len(log)
      BY <1>1, <2>2 DEF Sound
    <3> QED BY <1>1, <1>5, <2>2, <3>1 DEF Entry
  <2>3. CASE c = Len(log) + 1
    <3>1. branches[b].sequence <= Len(log)
      BY <1>1 DEF Sound
    <3> QED BY <1>1, <1>5, <1>6, <2>3, <3>1 DEF n
  <2> QED BY <1>1, <1>5, <2>2, <2>3
<1>15. Sound(l, cs, ps, table, retains)
  BY <1>8, <1>9, <1>10, <1>11, <1>12, <1>13, <1>14 DEF Sound
<1> QED BY <1>4, <1>15

LEMMA PruneSound ==
  ASSUME IInv, GcPrune, job' # job
  PROVE  Sound(Logged, CommitsLeft, PagesLeft, job.branches, job.retains)'
<1>1. /\ branches \in Table /\ Sound(log, commits, pages, branches, retains)
      /\ log \in Seq(Entry) /\ Len(log) \in Nat /\ due \subseteq DOMAIN log
      /\ TypeOK /\ StoreSound /\ UNCHANGED storeVars
  <2>1. MyTurn /\ TypeOK /\ StoreSound /\ UNCHANGED storeVars
    BY DEF GcPrune, IInv
  <2>2. branches \in Table /\ Sound(log, commits, pages, branches, retains)
    BY <2>1, MemoryIsStored
  <2> QED BY <2>1, <2>2 DEF TypeOK, Ids
<1>2. PICK doomed \in SUBSET due :
        /\ doomed \intersect Roots = {}
        /\ job' = Batch(FALSE, NoEntry, {}, doomed, {}, Raised(doomed), retains)
  BY <1>1, PruneJob
<1> DEFINE cs == commits \ doomed
           table == Raised(doomed)
<1>3. Logged' = log /\ CommitsLeft' = cs /\ PagesLeft' = pages /\ job'.branches = table /\ job'.retains = retains
  <2>1. Logged' = log /\ CommitsLeft' = cs /\ PagesLeft' = pages \ {} /\ job'.branches = table
        /\ job'.retains = retains
    BY <1>1, <1>2, BatchLeaves
  <2> QED BY <2>1
<1>4. \A b \in Branches :
        /\ table[b].head = branches[b].head /\ table[b].base = branches[b].base
        /\ table[b].sequence = branches[b].sequence /\ table[b].floor = FloorAbove(b, doomed)
  BY DEF Raised
<1>5. \A b \in Branches : branches[b].head \notin doomed /\ branches[b].base \notin doomed
  BY <1>2 DEF Roots
<1>6. \A name \in Names : retains[name] \notin doomed
  BY <1>2 DEF Roots
<1>7. \A b \in Branches : table[b].head = 0 => table[b].sequence = 0
  BY <1>1, <1>4 DEF Sound
<1>8. \A b \in Branches : \A n \in (table[b].floor + 1)..table[b].sequence : Holds(log, cs, b, n)
  <2>1. TAKE b \in Branches
  <2>2. TAKE n \in (table[b].floor + 1)..table[b].sequence
  <2>3. /\ FloorAbove(b, doomed) \in Nat /\ branches[b].floor <= FloorAbove(b, doomed)
        /\ \A c \in doomed : log[c].branch = b => log[c].sequence <= FloorAbove(b, doomed)
    BY <1>1, FloorRaised
  <2>4. branches[b].floor \in Nat /\ branches[b].sequence \in Nat
    BY <1>1 DEF Table, Branch
  <2>5. n \in (branches[b].floor + 1)..branches[b].sequence /\ n > FloorAbove(b, doomed)
    BY <1>4, <2>3, <2>4
  <2>6. PICK c \in commits : log[c].branch = b /\ log[c].sequence = n
    BY <1>1, <2>5 DEF Sound, Holds
  <2>7. c \notin doomed
    BY <2>3, <2>5, <2>6
  <2> QED BY <2>6, <2>7 DEF Holds
<1> HIDE DEF table
<1>9. Sound(log, cs, pages, table, retains)
  BY <1>1, <1>4, <1>5, <1>6, <1>7, <1>8 DEF Sound
<1> QED BY <1>3, <1>9

LEMMA OperationSound ==
  ASSUME IInv,
         \/ \E b \in Branches : CreateBranch(b)
         \/ \E n \in Names : Retain(n) \/ ReleaseRetention(n)
         \/ GcSweep
  PROVE  Sound(Logged, CommitsLeft, PagesLeft, job.branches, job.retains)'
<1>1. /\ branches \in Table /\ retains \in Retentions /\ Sound(log, commits, pages, branches, retains)
      /\ job = NoJob /\ UNCHANGED storeVars
  BY MemoryIsStored DEF CreateBranch, Retain, ReleaseRetention, GcSweep
<1>2. ASSUME NEW b \in Branches, CreateBranch(b)
      PROVE  Sound(Logged, CommitsLeft, PagesLeft, job.branches, job.retains)'
  <2>1. PICK c \in commits :
          job' = Batch(FALSE, NoEntry, {}, {}, {},
                       [branches EXCEPT ![b] = [head |-> c, base |-> c, sequence |-> 0, floor |-> 0]],
                       retains)
    BY <1>2, CreateJob
  <2> DEFINE table == [branches EXCEPT ![b] = [head |-> c, base |-> c, sequence |-> 0, floor |-> 0]]
  <2>2. Logged' = log /\ CommitsLeft' = commits \ {} /\ PagesLeft' = pages \ {}
        /\ job'.branches = table /\ job'.retains = retains
    BY <1>1, <2>1, BatchLeaves
  <2>3. /\ table[b].head = c /\ table[b].base = c /\ table[b].sequence = 0 /\ table[b].floor = 0
        /\ \A d \in Branches : d # b => table[d] = branches[d]
    BY <1>1 DEF Table
  <2> HIDE DEF table
  <2>4. \A d \in Branches : \A n \in (table[d].floor + 1)..table[d].sequence : Holds(log, commits, d, n)
    BY <1>1, <2>3 DEF Sound
  <2>5. \A d \in Branches : table[d].sequence <= Len(log)
    <3>1. Len(log) \in Nat
      BY DEF IInv, TypeOK
    <3> QED BY <1>1, <2>3, <3>1 DEF Sound
  <2>6. \A d \in Branches : table[d].head = 0 => table[d].sequence = 0
    BY <1>1, <2>3 DEF Sound
  <2>7. \A d \in Branches : table[d].head \in commits \union {0} /\ table[d].base \in commits \union {0}
    BY <1>1, <2>3 DEF Sound
  <2>8. Sound(log, commits, pages, table, retains)
    BY <1>1, <2>4, <2>5, <2>6, <2>7 DEF Sound
  <2>9. commits \ {} = commits /\ pages \ {} = pages
    OBVIOUS
  <2> QED BY <2>2, <2>8, <2>9
<1>3. ASSUME NEW n \in Names, NEW c \in commits \union {0},
             job' = Batch(FALSE, NoEntry, {}, {}, {}, branches, [retains EXCEPT ![n] = c])
      PROVE  Sound(Logged, CommitsLeft, PagesLeft, job.branches, job.retains)'
  <2>1. Logged' = log /\ CommitsLeft' = commits \ {} /\ PagesLeft' = pages \ {}
        /\ job'.branches = branches /\ job'.retains = [retains EXCEPT ![n] = c]
    BY <1>1, <1>3, BatchLeaves
  <2>2. \A i \in Names : [retains EXCEPT ![n] = c][i] \in commits \union {0}
    BY <1>1 DEF Sound, Retentions
  <2>3. Sound(log, commits, pages, branches, [retains EXCEPT ![n] = c])
    BY <1>1, <2>2 DEF Sound
  <2>4. commits \ {} = commits /\ pages \ {} = pages
    OBVIOUS
  <2> QED BY <2>1, <2>3, <2>4
<1>4. CASE GcSweep
  <2>1. PICK batch \in SUBSET Garbage :
          job' = Batch(FALSE, NoEntry, {}, {}, batch, branches, retains)
    BY <1>4, SweepJob
  <2>2. Logged' = log /\ CommitsLeft' = commits \ {} /\ PagesLeft' = pages \ batch
        /\ job'.branches = branches /\ job'.retains = retains
    BY <1>1, <2>1, BatchLeaves
  <2>3. \A c \in commits : \A p \in log[c].pages : p \notin batch
    <3>1. gcPhase = "sweep" /\ \A p \in batch : p < cutoff /\ p \notin marked
      BY <1>4, <2>1 DEF GcSweep, Garbage
    <3>2. \A c \in commits : \A p \in log[c].pages : p < cutoff => p \in marked
      BY <3>1 DEF IInv, MarksCover, Covered
    <3> QED BY <3>1, <3>2
  <2>4. \A c \in commits : log[c].pages \subseteq pages \ batch
    BY <1>1, <2>3 DEF Sound
  <2>5. Sound(log, commits, pages \ batch, branches, retains)
    BY <1>1, <2>4 DEF Sound
  <2>6. commits \ {} = commits
    OBVIOUS
  <2> QED BY <2>2, <2>5, <2>6
<1>5. ASSUME NEW n \in Names, Retain(n)
      PROVE  Sound(Logged, CommitsLeft, PagesLeft, job.branches, job.retains)'
  BY <1>3, <1>5, RetainJob
<1>6. ASSUME NEW n \in Names, ReleaseRetention(n)
      PROVE  Sound(Logged, CommitsLeft, PagesLeft, job.branches, job.retains)'
  BY <1>3, <1>6, ReleaseJob
<1> QED BY <1>2, <1>4, <1>5, <1>6

LEMMA StoreStep ==
  ASSUME IInv, [Next]_vars
  PROVE  StoreSound'
<1>1. /\ Sound(log, commits, pages, branchTable, retainTable)
      /\ job.stage = "publishing" => Sound(Logged, CommitsLeft, PagesLeft, job.branches, job.retains)
  BY DEF IInv, StoreSound
<1>2. ASSUME Apply, job.stage = "publishing" PROVE Sound(log, commits, pages, branchTable, retainTable)'
  BY <1>1, <1>2 DEF Apply, CommitsLeft, PagesLeft
<1>3. ASSUME UNCHANGED storeVars PROVE Sound(log, commits, pages, branchTable, retainTable)'
  BY <1>1, <1>3 DEF storeVars
<1>4. CASE Publish
  BY <1>2, <1>4, BatchStored DEF StoreSound, IInv
<1>5. CASE Install \/ PublishFails \/ Ends
  BY <1>2, <1>3, <1>5, BatchEnds DEF Install, PublishFails, Ends, Closed, Crash, Vanish, StoreSound
<1>6. CASE Calm \/ Open
  <2>1. UNCHANGED <<storeVars, job>>
    BY <1>6, CalmFrame DEF Open, IInv
  <2>2. job' = job /\ log' = log /\ commits' = commits /\ pages' = pages
        /\ branchTable' = branchTable /\ retainTable' = retainTable
    BY <2>1 DEF storeVars
  <2> QED BY <1>1, <2>2 DEF StoreSound, Logged, CommitsLeft, PagesLeft
<1>7. CASE Begins
  <2>1. UNCHANGED storeVars
    BY <1>7, BeginsIs DEF IInv
  <2>2. Sound(Logged, CommitsLeft, PagesLeft, job.branches, job.retains)'
    BY <1>7, CommitSound, OperationSound, PruneSound DEF Begins
  <2> QED BY <1>3, <2>1, <2>2 DEF StoreSound
<1> QED BY <1>4, <1>5, <1>6, <1>7, Steps

-----------------------------------------------------------------------------
(* Memory, the batch and the barrier. *)

LEMMA MemoryStep ==
  ASSUME IInv, [Next]_vars
  PROVE  MemoryFollows'
<1>1. MemoryFollows /\ TypeOK /\ JobSound
  BY DEF IInv
<1>2. CASE Begins
  <2>1. branches = branchTable /\ retains = retainTable
    BY <1>1, <1>2, BeginsIs, MemoryIsStored
  <2> QED BY <1>1, <1>2, <2>1, BeginsIs DEF MemoryFollows, storeVars, memoryVars
<1>3. CASE Publish
  BY <1>1, <1>3, BatchStored DEF Apply, MemoryFollows
<1>4. CASE Install
  BY <1>1, <1>4, BatchEnds DEF Install, MemoryFollows, storeVars, JobSound
<1>5. CASE PublishFails \/ Ends
  BY <1>5 DEF PublishFails, Ends, Closed, Crash, Vanish, MemoryFollows
<1>6. CASE Open
  BY <1>1, <1>6 DEF Open, MemoryFollows, JobSound, storeVars
<1>7. CASE Calm
  BY <1>1, <1>7, CalmFrame DEF MemoryFollows, storeVars, memoryVars
<1> QED BY <1>2, <1>3, <1>4, <1>5, <1>6, <1>7, Steps

\* What JobSound says of the batch of an operation without a commit.
LEMMA PlainJobSound ==
  ASSUME NEW drops, NEW sweeps, NEW table, NEW names, branches \in Table,
         job' = Batch(FALSE, NoEntry, {}, drops, sweeps, table, names),
         state' \in {"open", "closing"}, branches' = branches,
         \A b \in Branches : table[b].sequence = branches[b].sequence
  PROVE  JobSound'
<1>1. \A b \in Branches : branches[b].sequence + 0 = branches[b].sequence
  BY DEF Table, Branch
<1>2. job'.stage = "publishing" /\ ~job'.adds /\ job'.branches = table
  BY PlainJob
<1> QED BY <1>1, <1>2 DEF JobSound

LEMMA BeginsJobSound ==
  ASSUME IInv, Begins
  PROVE  JobSound'
<1>1. /\ branches \in Table /\ Sound(log, commits, pages, branches, retains) /\ TypeOK
      /\ state' \in {"open", "closing"} /\ UNCHANGED <<branches, commits, log>>
  BY BeginsIs, MemoryIsStored DEF IInv, MyTurn, storeVars, memoryVars
<1>2. ASSUME NEW b \in Branches, Commit(b) PROVE JobSound'
  <2>1. PICK kept \in SUBSET log[branches[b].head].pages, fresh \in {{}, {nextId}} :
          job' = Batch(TRUE, [branch |-> b, sequence |-> branches[b].sequence + 1,
                              pages |-> kept \union fresh],
                       fresh, {}, {},
                       [branches EXCEPT ![b] =
                         [head |-> Len(log) + 1, base |-> branches[b].base,
                          sequence |-> branches[b].sequence + 1,
                          floor |-> branches[b].floor]],
                       retains)
    BY <1>1, <1>2, CommitJob
  <2>2. /\ job'.stage = "publishing" /\ job'.adds /\ job'.entry.branch = b
        /\ job'.entry.sequence = branches[b].sequence + 1
        /\ job'.entry.pages = kept \union fresh /\ job'.puts = fresh
        /\ job'.branches[b].sequence = branches[b].sequence + 1
        /\ \A d \in Branches : d # b => job'.branches[d] = branches[d]
    BY <1>1, <2>1 DEF Batch, Table
  <2>3. \A d \in Branches : job'.branches[d].sequence =
          branches[d].sequence + (IF job'.adds /\ job'.entry.branch = d THEN 1 ELSE 0)
    <3>1. \A d \in Branches : branches[d].sequence \in Nat
      BY <1>1 DEF Table, Branch
    <3> QED BY <2>2, <3>1
  <2>4. Len(log) < MaxCommits /\ branches[b].head \in commits
    BY <1>2 DEF Commit
  <2>5. \E d \in commits : job'.entry.pages \subseteq log[d].pages \union job'.puts
    BY <2>2, <2>4
  <2> QED BY <1>1, <2>2, <2>3, <2>4, <2>5 DEF JobSound
<1>3. ASSUME NEW b \in Branches, CreateBranch(b) PROVE JobSound'
  <2>1. PICK c \in commits :
          job' = Batch(FALSE, NoEntry, {}, {}, {},
                       [branches EXCEPT ![b] = [head |-> c, base |-> c, sequence |-> 0, floor |-> 0]],
                       retains)
    BY <1>3, CreateJob
  <2>2. branches[b].sequence = 0
    BY <1>1, <1>3 DEF CreateBranch, Exists, Sound
  <2>3. \A d \in Branches :
          [branches EXCEPT ![b] = [head |-> c, base |-> c, sequence |-> 0, floor |-> 0]][d].sequence
            = branches[d].sequence
    BY <1>1, <2>2 DEF Table
  <2> QED BY <1>1, <2>1, <2>3, PlainJobSound
<1>4. ASSUME NEW n \in Names, Retain(n) PROVE JobSound'
  BY <1>1, <1>4, RetainJob, PlainJobSound
<1>5. ASSUME NEW n \in Names, ReleaseRetention(n) PROVE JobSound'
  BY <1>1, <1>5, ReleaseJob, PlainJobSound
<1>6. CASE GcSweep
  BY <1>1, <1>6, SweepJob, PlainJobSound
<1>7. CASE GcPrune /\ job' # job
  <2>1. PICK doomed : job' = Batch(FALSE, NoEntry, {}, doomed, {}, Raised(doomed), retains)
    BY <1>1, <1>7, PruneJob
  <2>2. \A b \in Branches : Raised(doomed)[b].sequence = branches[b].sequence
    BY DEF Raised
  <2> QED BY <1>1, <2>1, <2>2, PlainJobSound
<1> QED BY <1>2, <1>3, <1>4, <1>5, <1>6, <1>7 DEF Begins

LEMMA JobStep ==
  ASSUME IInv, [Next]_vars
  PROVE  JobSound'
<1>1. TypeOK /\ JobSound
  BY DEF IInv
<1>2. CASE Publish
  <2>1. /\ job'.stage = "published" /\ job.stage = "publishing" /\ job'.adds = job.adds
        /\ job'.entry = job.entry /\ job'.branches = job.branches
        /\ state' = state /\ branches' = branches
    BY <1>1, <1>2, BatchStored DEF memoryVars
  <2> QED BY <1>1, <2>1 DEF JobSound
<1>3. CASE Install \/ PublishFails \/ Ends
  BY <1>3, BatchEnds DEF JobSound
<1>4. CASE Open
  <2>1. job.stage = "idle" /\ job' = job /\ job = NoJob
    BY <1>1, <1>4 DEF Open, JobSound
  <2> QED BY <1>1, <2>1 DEF JobSound, NoJob
<1>5. CASE Calm
  <2>1. /\ job' = job /\ branches' = branches /\ commits' = commits /\ log' = log
        /\ state' \in {"failed", "down"} => state' = state
    BY <1>1, <1>5, CalmFrame DEF storeVars, memoryVars
  <2> QED BY <1>1, <2>1 DEF JobSound
<1> QED BY <1>2, <1>3, <1>4, <1>5, BeginsJobSound, Steps

LEMMA IdsStep ==
  ASSUME IInv, [Next]_vars
  PROVE  IdsFresh'
<1>1. /\ TypeOK /\ IdsFresh /\ JobSound
      /\ nextId \in Nat /\ cutoff \in Nat /\ aborted \subseteq Nat /\ job.puts \subseteq Nat
  BY DEF IInv, TypeOK, Job, PageIds
<1>2. job.stage = "idle" => job.puts = {}
  BY <1>1 DEF JobSound, NoJob
<1>3. ASSUME NEW b \in Branches, Commit(b) PROVE IdsFresh'
  <2>1. job'.puts \in {{}, {nextId}}
    BY <1>1, <1>3, CommitJob DEF Batch
  <2>2. nextId' = nextId + 1 /\ aborted' = aborted /\ gcPhase' = gcPhase /\ cutoff' = cutoff
    BY <1>3 DEF Commit, gcVars
  <2> QED BY <1>1, <2>1, <2>2 DEF IdsFresh
<1>4. CASE Begins /\ ~ \E b \in Branches : Commit(b)
  <2>1. job'.puts = {}
    BY <1>1, <1>4, CreateJob, RetainJob, ReleaseJob, SweepJob, PruneJob, PlainJob DEF Begins
  <2>2. UNCHANGED <<pageVars, gcPhase, cutoff>>
    BY <1>4 DEF Begins, CreateBranch, Retain, ReleaseRetention, GcSweep, GcPrune, gcVars
  <2> QED BY <1>1, <2>1, <2>2 DEF IdsFresh, pageVars
<1>5. CASE Publish
  <2>1. job'.puts = job.puts /\ UNCHANGED <<pageVars, gcPhase, cutoff>>
    BY <1>1, <1>5, BatchStored DEF gcVars
  <2> QED BY <1>1, <2>1 DEF IdsFresh, pageVars
<1>6. CASE Install \/ PublishFails
  <2>1. job'.puts = {} /\ UNCHANGED <<pageVars, gcPhase, cutoff>>
    BY <1>6, BatchEnds DEF Install, PublishFails, gcVars
  <2> QED BY <1>1, <2>1 DEF IdsFresh, pageVars
<1>7. CASE Ends
  <2>1. job'.puts = {} /\ gcPhase' = "idle" /\ UNCHANGED pageVars
    BY <1>7, BatchEnds DEF Ends, Closed, Crash, Vanish, CollectorIdle
  <2> QED BY <1>1, <2>1 DEF IdsFresh, pageVars
<1>8. CASE Open
  <2>1. job'.puts = {} /\ gcPhase' = "idle" /\ aborted' = {}
    BY <1>1, <1>2, <1>8 DEF Open, JobSound, IInv, DownIsQuiet, gcVars
  <2> QED BY <2>1 DEF IdsFresh
<1>9. CASE CommitAborts
  <2>1. /\ job' = job /\ job.puts = {} /\ nextId' = nextId + 1 /\ aborted' = aborted \union {nextId}
        /\ gcPhase' = gcPhase /\ cutoff' = cutoff
    BY <1>2, <1>9 DEF CommitAborts, MyTurn, SpendId, gcVars
  <2>2. \A p \in aborted' \union job'.puts : p < nextId'
    <3>1. aborted' \union job'.puts = aborted \union {nextId}
      BY <2>1
    <3>2. \A p \in aborted : p \in Nat /\ p < nextId
      BY <1>1 DEF IdsFresh
    <3> QED BY <1>1, <2>1, <3>1, <3>2
  <2>3. gcPhase # "idle" => cutoff <= nextId'
    BY <1>1, <2>1 DEF IdsFresh
  <2> QED BY <2>1, <2>2, <2>3 DEF IdsFresh
<1>10. CASE Calm /\ ~CommitAborts /\ ~CollectStep
  <2>1. job' = job /\ UNCHANGED <<pageVars, gcPhase, cutoff>>
    BY <1>1, <1>10, CalmFrame DEF gcVars
  <2> QED BY <1>1, <2>1 DEF IdsFresh, pageVars
<1>11. CASE CollectStep
  <2>1. job' = job /\ UNCHANGED pageVars
    BY <1>1, <1>11, CollectFrame
  <2>2. \/ gcPhase' = "idle"
        \/ gcPhase # "idle" /\ cutoff' = cutoff
        \/ cutoff' = nextId /\ job.puts = {}
    BY <1>2, <1>11 DEF CollectStep, GcStart, CutoffNow, MyTurn, GcPruned, GcMark, GcMarked, GcDone,
                       GcAborts, GcPrune, CollectorIdle
  <2> QED BY <1>1, <2>1, <2>2 DEF IdsFresh, pageVars
<1> QED BY <1>3, <1>4, <1>5, <1>6, <1>7, <1>8, <1>9, <1>10, <1>11, Steps DEF Begins

-----------------------------------------------------------------------------
(* Marks. *)

\* What is kept and what is new in the store once a batch is applied.
LEMMA ApplyKeeps ==
  ASSUME TypeOK, JobSound, job.stage = "publishing", Apply
  PROVE  /\ \A c \in DOMAIN log : log'[c] = log[c]
         /\ \A c \in commits : c \notin job.drops => c \in commits'
         /\ \A c \in commits' : (c \in commits /\ c \notin job.drops) \/ (job.adds /\ c = Len(log) + 1)
         /\ job.adds => log'[Len(log) + 1] = job.entry /\ Len(log) + 1 \in commits'
<1>1. log \in Seq(Entry) /\ Len(log) \in Nat /\ DOMAIN log = 1..Len(log) /\ job \in Job
  BY DEF TypeOK, Ids
<1>2. CASE job.adds
  <2>1. log' = Append(log, job.entry) /\ commits' = (commits \ job.drops) \union {Len(log) + 1}
    BY <1>2 DEF Apply, Logged
  <2>2. log'[Len(log) + 1] = job.entry /\ \A c \in 1..Len(log) : log'[c] = log[c]
    BY <1>1, <2>1 DEF Job
  <2> QED BY <1>1, <1>2, <2>1, <2>2
<1>3. CASE ~job.adds
  BY <1>3 DEF Apply, Logged
<1> QED BY <1>2, <1>3

LEMMA MarksApply ==
  ASSUME IInv, job.stage = "publishing", Apply, UNCHANGED gcVars, job'.drops \in {{}, job.drops}
  PROVE  MarksCover'
<1>1. TypeOK /\ JobSound /\ MarksCover /\ IdsFresh /\ commits \subseteq DOMAIN log /\ due \subseteq DOMAIN log
      /\ job.puts \subseteq Nat /\ cutoff \in Nat
  BY DEF IInv, TypeOK, Job, PageIds
<1>2. gcPhase' = gcPhase /\ cutoff' = cutoff /\ due' = due /\ marked' = marked
  BY DEF gcVars
<1>3. CASE gcPhase \in {"idle", "prune"}
  BY <1>1, <1>2, <1>3 DEF MarksCover
<1>4. CASE gcPhase \in {"mark", "sweep"}
  <2>1. job.drops = {}
    BY <1>1, <1>4 DEF MarksCover
  <2>2. /\ \A c \in commits : c \in commits' /\ log'[c] = log[c]
        /\ \A c \in commits' : c \in commits \/ (job.adds /\ c = Len(log) + 1)
        /\ job.adds => log'[Len(log) + 1] = job.entry
    BY <1>1, <2>1, ApplyKeeps
  <2>3. \A p : Covered(p) => Covered(p)'
    <3>1. SUFFICES ASSUME NEW p, Covered(p), p \notin marked PROVE Covered(p)'
      BY <1>2 DEF Covered
    <3>2. PICK d \in due : p \in log[d].pages
      BY <3>1 DEF Covered
    <3>3. d \in due' /\ p \in log'[d].pages /\ gcPhase' = "mark"
      BY <1>1, <1>2, <2>2, <3>1, <3>2 DEF Covered, MarksCover
    <3> QED BY <3>3 DEF Covered
  <2>4. ASSUME NEW c \in commits', NEW p \in log'[c].pages, p < cutoff PROVE Covered(p)
    <3>1. CASE c \in commits
      BY <1>1, <1>4, <2>2, <2>4, <3>1 DEF MarksCover
    <3>2. CASE job.adds /\ c = Len(log) + 1
      <4>1. PICK d \in commits : job.entry.pages \subseteq log[d].pages \union job.puts
        BY <1>1, <3>2 DEF JobSound
      <4>2. p \notin job.puts
        <5>1. \A q \in job.puts : q >= cutoff
          BY <1>1, <1>4 DEF IdsFresh
        <5> QED BY <1>1, <2>4, <5>1
      <4>3. p \in log[d].pages
        BY <2>2, <3>2, <4>1, <4>2
      <4> QED BY <1>1, <1>4, <2>4, <4>3 DEF MarksCover
    <3> QED BY <2>2, <3>1, <3>2
  <2>5. \A c \in commits' : \A p \in log'[c].pages : p < cutoff' => Covered(p)'
    BY <1>2, <2>3, <2>4
  <2>6. \A p \in marked' : \E c \in commits' : p \in log'[c].pages
    BY <1>1, <1>2, <1>4, <2>2 DEF MarksCover
  <2>7. job'.drops = {} /\ gcPhase' \notin {"idle", "prune"}
    BY <1>2, <1>4, <2>1
  <2>8. gcPhase' = "mark" => due' \subseteq commits'
    BY <1>1, <1>2, <2>2 DEF MarksCover
  <2> QED BY <2>5, <2>6, <2>7, <2>8 DEF MarksCover
<1> QED BY <1>1, <1>3, <1>4 DEF TypeOK

LEMMA MarksKept ==
  ASSUME MarksCover, UNCHANGED <<storeVars, gcPhase, cutoff, due, marked>>, job'.drops \in {{}, job.drops}
  PROVE  MarksCover'
<1>1. /\ log' = log /\ commits' = commits /\ gcPhase' = gcPhase /\ cutoff' = cutoff /\ due' = due
      /\ marked' = marked
  BY DEF storeVars
<1>2. \A p : Covered(p)' <=> Covered(p)
  BY <1>1 DEF Covered
<1> QED BY <1>1, <1>2 DEF MarksCover

LEMMA CollectMarks ==
  ASSUME IInv, CollectStep
  PROVE  MarksCover'
<1>1. /\ TypeOK /\ MarksCover /\ log' = log /\ commits' = commits /\ job' = job
  BY CollectFrame DEF IInv, storeVars
<1>2. CASE GcStart
  <2>1. job.drops = {} /\ gcPhase' = "prune" /\ marked' = {}
    BY <1>1, <1>2 DEF GcStart, MyTurn, IInv, JobSound, NoJob, MarksCover
  <2> QED BY <1>1, <2>1 DEF MarksCover
<1>3. CASE GcPrune /\ job' = job
  BY <1>1, <1>3 DEF GcPrune, MarksCover
<1>4. CASE GcPruned
  <2>1. job.drops = {} /\ gcPhase' = "mark" /\ due' = commits /\ marked' = {} /\ cutoff' = cutoff
    BY <1>1, <1>4 DEF GcPruned, MarksCover
  <2> QED BY <1>1, <2>1 DEF MarksCover, Covered
<1>5. CASE GcMark
  <2>1. PICK c \in due : due' = due \ {c} /\ marked' = marked \union {p \in log[c].pages : p < cutoff}
    BY <1>5 DEF GcMark
  <2>2. gcPhase = "mark" /\ gcPhase' = "mark" /\ cutoff' = cutoff /\ due \subseteq commits /\ job.drops = {}
    BY <1>1, <1>5 DEF GcMark, MarksCover
  <2>3. ASSUME NEW d \in commits, NEW p \in log[d].pages, p < cutoff PROVE Covered(p)'
    <3>1. CASE p \in marked
      BY <2>1, <3>1 DEF Covered
    <3>2. CASE p \notin marked
      <4>1. PICK e \in due : p \in log[e].pages
        BY <1>1, <2>2, <2>3, <3>2 DEF MarksCover, Covered
      <4> QED BY <1>1, <2>1, <2>2, <2>3, <4>1 DEF Covered
    <3> QED BY <3>1, <3>2
  <2>4. \A p \in marked' : \E d \in commits : p \in log[d].pages
    BY <1>1, <2>1, <2>2 DEF MarksCover
  <2> QED BY <1>1, <2>1, <2>2, <2>3, <2>4 DEF MarksCover
<1>6. CASE GcMarked
  <2>1. gcPhase = "mark" /\ gcPhase' = "sweep" /\ due = {} /\ due' = due /\ marked' = marked
        /\ cutoff' = cutoff /\ job.drops = {}
    BY <1>1, <1>6 DEF GcMarked, MarksCover
  <2>2. \A p : Covered(p) => Covered(p)'
    BY <2>1 DEF Covered
  <2> QED BY <1>1, <2>1, <2>2 DEF MarksCover
<1>7. CASE GcDone \/ GcAborts
  <2>1. gcPhase' = "idle" /\ marked' = {} /\ job.drops = {}
    BY <1>1, <1>7 DEF GcDone, GcAborts, CollectorIdle, MarksCover
  <2> QED BY <1>1, <2>1 DEF MarksCover
<1> QED BY <1>2, <1>3, <1>4, <1>5, <1>6, <1>7 DEF CollectStep

LEMMA MarksStep ==
  ASSUME IInv, [Next]_vars
  PROVE  MarksCover'
<1>1. TypeOK /\ MarksCover
  BY DEF IInv
<1>2. CASE Begins
  <2>1. CASE GcPrune
    <3>1. gcPhase' = "prune" /\ marked' = {}
      BY <1>1, <2>1 DEF GcPrune, MarksCover
    <3> QED BY <3>1 DEF MarksCover
  <2>2. CASE ~GcPrune
    <3>1. due' = due
      BY <1>2, <2>2 DEF Begins, Commit, CreateBranch, Retain, ReleaseRetention, GcSweep, gcVars
    <3> QED BY <1>1, <1>2, <2>2, <3>1, BeginsIs, MarksKept
  <2> QED BY <2>1, <2>2
<1>3. CASE Publish
  BY <1>1, <1>3, BatchStored, MarksApply
<1>4. CASE PublishFails
  <2>1. UNCHANGED gcVars /\ job'.drops = {} /\ job.stage = "publishing" /\ (Apply \/ UNCHANGED storeVars)
    BY <1>4, BatchEnds DEF PublishFails
  <2> QED BY <1>1, <2>1, MarksApply, MarksKept DEF gcVars
<1>5. CASE Install
  BY <1>1, <1>5, BatchEnds, MarksKept DEF Install, gcVars
<1>6. CASE Ends
  <2>1. job'.drops = {} /\ gcPhase' = "idle" /\ marked' = {}
    BY <1>6, BatchEnds DEF Ends, Closed, Crash, Vanish, CollectorIdle
  <2> QED BY <2>1 DEF MarksCover
<1>7. CASE Open
  BY <1>1, <1>7, MarksKept DEF Open, gcVars
<1>8. CASE Calm /\ ~CollectStep
  BY <1>1, <1>8, CalmFrame, MarksKept DEF gcVars
<1> QED BY <1>2, <1>3, <1>4, <1>5, <1>6, <1>7, <1>8, CollectMarks, Steps DEF Calm

LEMMA DownStep ==
  ASSUME IInv, [Next]_vars
  PROVE  DownIsQuiet'
<1>1. TypeOK /\ DownIsQuiet
  BY DEF IInv
<1>2. CASE Begins \/ Publish \/ Install
  <2>1. state' # "down"
    BY <1>1, <1>2, BeginsIs, BatchStored DEF MyTurn, IInv, JobSound, NoJob, Install
  <2> QED BY <2>1 DEF DownIsQuiet
<1>3. CASE PublishFails \/ Open
  BY <1>3 DEF PublishFails, Open, DownIsQuiet
<1>4. CASE Ends
  <2>1. /\ gcPhase' = "idle" /\ readers' = [r \in Readers |-> NoReader]
        /\ streams' = [t \in Streams |-> NoStream]
    BY <1>4 DEF Ends, Closed, Crash, Vanish, CollectorIdle
  <2> QED BY <2>1 DEF DownIsQuiet
<1>5. CASE Calm
  <2>1. SUFFICES ASSUME state' = "down" PROVE DownIsQuiet'
    BY DEF DownIsQuiet
  <2>2. state = "down"
    BY <1>1, <1>5, <2>1, CalmFrame
  <2>3. gcPhase' = "idle"
    BY <1>1, <1>5, <2>2, CalmFrame DEF DownIsQuiet, CollectStep, GcStart, GcPruned, GcMark, GcMarked,
       GcDone, GcAborts, GcPrune, CollectorIdle, MyTurn, gcVars
  <2>4. readers' = readers
    BY <1>1, <1>5, <2>2, CalmFrame DEF DownIsQuiet, ReadStep, Snapshot, SnapshotRead, CloseSnapshot, NoReader
  <2>5. streams' = streams
    <3>1. \A t \in Streams : streams[t].state = "idle"
      BY <1>1, <2>2 DEF DownIsQuiet, NoStream
    <3>2. ~StreamStep
      BY <2>2, <3>1 DEF StreamStep, OpenStream, Replay, Deliver, EndStream
    <3> QED BY <1>1, <1>5, <3>2, CalmFrame
  <2> QED BY <1>1, <2>2, <2>3, <2>4, <2>5 DEF DownIsQuiet
<1> QED BY <1>2, <1>3, <1>4, <1>5, Steps

-----------------------------------------------------------------------------
(* The barrier. *)

\* A stream that is opened starts at the floor, barrier included.
LEMMA OpenedIs ==
  ASSUME TypeOK, NEW t \in Streams, OpenStream(t)
  PROVE  \E b \in Branches : \E after \in Nat :
           /\ Exists(b) /\ branches[b].floor <= after /\ pendingFloors[b] <= after
           /\ after <= branches[b].sequence + 1
           /\ streams' = [streams EXCEPT ![t] =
                [state |-> "open", branch |-> b, retainAfter |-> after,
                 through |-> branches[b].sequence,
                 after |-> IF branches[b].sequence >= after THEN branches[b].sequence ELSE after,
                 queue |-> <<>>]]
<1>1. PICK b \in Branches : \E after \in Floor(b)..(branches[b].sequence + 1) :
        /\ Exists(b)
        /\ streams' = [streams EXCEPT ![t] =
             [state |-> "open", branch |-> b, retainAfter |-> after,
              through |-> branches[b].sequence,
              after |-> Max({branches[b].sequence, after}), queue |-> <<>>]]
  BY DEF OpenStream
<1>2. PICK after \in Floor(b)..(branches[b].sequence + 1) :
        /\ Exists(b)
        /\ streams' = [streams EXCEPT ![t] =
             [state |-> "open", branch |-> b, retainAfter |-> after,
              through |-> branches[b].sequence,
              after |-> Max({branches[b].sequence, after}), queue |-> <<>>]]
  BY <1>1
<1>3. branches[b].sequence \in Nat /\ branches[b].floor \in Nat /\ pendingFloors[b] \in Nat
  BY DEF TypeOK, Table, Branch
<1>4. Floor(b) \in Nat /\ branches[b].floor <= Floor(b) /\ pendingFloors[b] <= Floor(b)
  BY <1>3, LargerOf DEF Floor
<1>5. after \in Nat /\ Floor(b) <= after /\ after <= branches[b].sequence + 1
  BY <1>3, <1>4
<1>6. Max({branches[b].sequence, after}) = IF branches[b].sequence >= after THEN branches[b].sequence ELSE after
  BY <1>3, <1>5, LargerOf
<1>7. branches[b].floor <= after /\ pendingFloors[b] <= after
  BY <1>3, <1>4, <1>5
<1> QED BY <1>2, <1>5, <1>6, <1>7

\* A cursor moves by one, from the stored history to the queue.
LEMMA CursorMoves ==
  ASSUME TypeOK, StreamsSound, NEW t \in Streams
  PROVE  /\ Replay(t) =>
              /\ streams[t].retainAfter < streams[t].through
              /\ streams' = [streams EXCEPT ![t] =
                   [streams[t] EXCEPT !.retainAfter = streams[t].retainAfter + 1]]
         /\ Deliver(t) =>
              /\ streams[t].retainAfter >= streams[t].through /\ Len(streams[t].queue) > 0
              /\ streams' = [streams EXCEPT ![t] =
                   [streams[t] EXCEPT !.retainAfter = streams[t].retainAfter + 1,
                                      !.queue = Tail(streams[t].queue)]]
<1>1. streams \in [Streams -> Stream] /\ streams[t] \in Stream /\ StreamSound(streams[t])
  BY DEF TypeOK, StreamsSound
<1>2. /\ streams[t].retainAfter \in Nat /\ streams[t].through \in Nat
      /\ streams[t].queue \in Seq(Nat) /\ Len(streams[t].queue) \in Nat
  BY <1>1 DEF Stream
<1>3. ASSUME Replay(t)
      PROVE  /\ streams[t].retainAfter < streams[t].through
             /\ streams' = [streams EXCEPT ![t] =
                  [streams[t] EXCEPT !.retainAfter = streams[t].retainAfter + 1]]
  <2>1. streams[t].state = "open" /\ streams[t].retainAfter + 1 <= streams[t].through
    BY <1>3 DEF Replay
  <2>2. Stored(streams[t].branch, streams[t].retainAfter + 1)
    BY <1>1, <1>2, <2>1 DEF StreamSound
  <2>3. streams' = [streams EXCEPT ![t] =
          [streams[t] EXCEPT !.retainAfter = streams[t].retainAfter + 1]]
    BY <1>3, <2>2 DEF Replay
  <2> QED BY <1>2, <2>1, <2>3
<1>4. ASSUME Deliver(t)
      PROVE  /\ streams[t].retainAfter >= streams[t].through /\ Len(streams[t].queue) > 0
             /\ streams' = [streams EXCEPT ![t] =
                  [streams[t] EXCEPT !.retainAfter = streams[t].retainAfter + 1,
                                     !.queue = Tail(streams[t].queue)]]
  <2>1. streams[t].state = "open" /\ streams[t].retainAfter >= streams[t].through /\ streams[t].queue # <<>>
    BY <1>4 DEF Deliver
  <2>2. Len(streams[t].queue) > 0 /\ Head(streams[t].queue) = streams[t].queue[1]
    BY <1>2, <2>1
  <2>3. streams[t].queue[1] = streams[t].retainAfter + 1
    BY <1>1, <1>2, <2>1, <2>2 DEF StreamSound, Cursor
  <2>4. streams' = [streams EXCEPT ![t] = [streams[t] EXCEPT
                      !.retainAfter = Head(streams[t].queue), !.queue = Tail(streams[t].queue)]]
    BY <1>1, <1>4 DEF Deliver
  <2> QED BY <2>1, <2>2, <2>3, <2>4
<1> QED BY <1>3, <1>4

\* No stream goes back to a commit that is to go.
LEMMA ReadOnce ==
  ASSUME IInv, StreamStep, NEW c \in job.drops
  PROVE  ~Unread(c)'
<1>1. /\ TypeOK /\ Barred /\ StreamsSound /\ log' = log /\ c \in DOMAIN log
      /\ streams \in [Streams -> Stream]
  BY CalmFrame DEF IInv, Calm, storeVars, Barred, TypeOK
<1>2. log[c].sequence \in Nat
  <2>1. log[c] \in Entry
    BY <1>1 DEF TypeOK
  <2> QED BY <2>1 DEF Entry
<1>3. PICK t \in Streams : OpenStream(t) \/ Replay(t) \/ Deliver(t) \/ EndStream(t)
  BY DEF StreamStep
<1>4. \A u \in Streams : streams[u].state = "open" /\ streams[u].branch = log[c].branch =>
        log[c].sequence <= streams[u].retainAfter
  BY <1>1, <1>2 DEF Barred, Unread, Stream
<1>5. SUFFICES ASSUME NEW u \in Streams, streams'[u].state = "open",
                      streams'[u].branch = log[c].branch
               PROVE  ~(log[c].sequence > streams'[u].retainAfter)
  BY <1>1 DEF Unread
<1>6. streams[u] \in Stream /\ streams[t] \in Stream
  BY <1>1
<1>7. CASE u # t
  <2>1. streams'[u] = streams[u]
    BY <1>1, <1>3, <1>7 DEF OpenStream, Replay, Deliver, EndStream
  <2> QED BY <1>2, <1>4, <1>5, <1>6, <2>1 DEF Stream
<1>8. CASE u = t
  <2>1. CASE OpenStream(t)
    <3>1. PICK b \in Branches : \E after \in Nat :
            /\ pendingFloors[b] <= after
            /\ streams' = [streams EXCEPT ![t] =
                 [state |-> "open", branch |-> b, retainAfter |-> after,
                  through |-> branches[b].sequence,
                  after |-> IF branches[b].sequence >= after THEN branches[b].sequence ELSE after,
                  queue |-> <<>>]]
      BY <1>1, <2>1, OpenedIs
    <3>2. streams'[t].branch = b /\ pendingFloors[b] <= streams'[t].retainAfter
          /\ streams'[t].retainAfter \in Nat
      BY <1>1, <3>1
    <3>3. log[c].sequence <= pendingFloors[b] /\ pendingFloors[b] \in Nat
      BY <1>1, <1>5, <1>8, <3>2 DEF Barred, TypeOK
    <3> QED BY <1>2, <1>8, <3>2, <3>3
  <2>2. CASE Replay(t) \/ Deliver(t)
    <3>1. streams[t].retainAfter \in Nat
      BY <1>6 DEF Stream
    <3>2. /\ streams[t].state = "open" /\ streams'[t].branch = streams[t].branch
          /\ streams'[t].retainAfter = streams[t].retainAfter + 1
      <4>1. CASE Replay(t)
        <5>1. streams' = [streams EXCEPT ![t] =
                [streams[t] EXCEPT !.retainAfter = streams[t].retainAfter + 1]]
          BY <1>1, <4>1, CursorMoves
        <5> QED BY <1>1, <1>6, <4>1, <5>1 DEF Replay, Stream
      <4>2. CASE Deliver(t)
        <5>1. streams' = [streams EXCEPT ![t] =
                [streams[t] EXCEPT !.retainAfter = streams[t].retainAfter + 1,
                                   !.queue = Tail(streams[t].queue)]]
          BY <1>1, <4>2, CursorMoves
        <5> QED BY <1>1, <1>6, <4>2, <5>1 DEF Deliver, Stream
      <4> QED BY <2>2, <4>1, <4>2
    <3> QED BY <1>2, <1>4, <1>5, <1>8, <3>1, <3>2
  <2>3. CASE EndStream(t)
    BY <1>1, <1>5, <1>8, <2>3 DEF EndStream, NoStream
  <2> QED BY <1>3, <2>1, <2>2, <2>3
<1> QED BY <1>7, <1>8

\* What operations do to the floors, and to the barrier.
LEMMA BeginsFloors ==
  ASSUME IInv, Begins
  PROVE  /\ \A b \in Branches :
              job'.branches[b].floor <= branches[b].floor \/ job'.branches[b].floor <= pendingFloors'[b]
         /\ retiring' = job'.drops /\ job'.drops \subseteq DOMAIN log
         /\ \A c \in job'.drops : log[c].sequence <= pendingFloors'[log[c].branch]
         /\ \A r \in Readers : readers[r].state # "idle" => readers[r].commit \notin job'.drops
         /\ \A c \in job'.drops : ~Unread(c)
<1>1. /\ TypeOK /\ StoreSound /\ MyTurn /\ job = NoJob /\ branches \in Table /\ retiring = {}
      /\ \A b \in Branches : branches[b].floor \in Nat
  BY BeginsIs, MemoryIsStored DEF IInv, Barred, NoJob, Table, Branch
<1>2. CASE GcPrune
  <2>1. PICK doomed \in SUBSET due :
          /\ doomed \intersect Roots = {} /\ \A c \in doomed : ~Unread(c)
          /\ \/ UNCHANGED <<job, barrierVars>>
             \/ /\ job' = Batch(FALSE, NoEntry, {}, doomed, {}, Raised(doomed), retains)
                /\ retiring' = doomed /\ pendingFloors' = Pending(doomed)
    BY <1>1, <1>2, PruneJob
  <2>2. job' # job
    BY <1>1, BeginsIs DEF MyTurn
  <2>3. job'.drops = doomed /\ job'.branches = Raised(doomed) /\ retiring' = doomed
        /\ pendingFloors' = Pending(doomed)
    BY <2>1, <2>2, PlainJob
  <2>4. \A b \in Branches :
          /\ FloorAbove(b, doomed) \in Nat
          /\ \A c \in doomed : log[c].branch = b => log[c].sequence <= FloorAbove(b, doomed)
          /\ (\A c \in doomed : log[c].branch # b) => FloorAbove(b, doomed) = branches[b].floor
    BY <1>1, FloorRaised DEF TypeOK
  <2>5. ASSUME NEW b \in Branches
        PROVE  job'.branches[b].floor <= branches[b].floor \/ job'.branches[b].floor <= pendingFloors'[b]
    <3>1. job'.branches[b].floor = FloorAbove(b, doomed)
      BY <2>3 DEF Raised
    <3>2. CASE \E c \in doomed : log[c].branch = b
      BY <2>3, <2>4, <3>1, <3>2 DEF Pending
    <3>3. CASE \A c \in doomed : log[c].branch # b
      BY <1>1, <2>4, <3>1, <3>3
    <3> QED BY <3>2, <3>3
  <2>6. ASSUME NEW c \in doomed PROVE log[c].sequence <= pendingFloors'[log[c].branch]
    <3>1. log[c] \in Entry
      BY <1>1 DEF TypeOK
    <3>2. log[c].branch \in Branches
      BY <3>1 DEF Entry
    <3> QED BY <2>3, <2>4, <3>2 DEF Pending
  <2>7. ASSUME NEW r \in Readers, readers[r].state # "idle" PROVE readers[r].commit \notin doomed
    BY <2>1, <2>7 DEF Roots, Pins
  <2>8. doomed \subseteq DOMAIN log
    BY <1>1 DEF TypeOK
  <2> QED BY <2>1, <2>3, <2>5, <2>6, <2>7, <2>8
<1>3. CASE ~GcPrune
  <2>1. job'.drops = {} /\ retiring' = {} /\ pendingFloors' = pendingFloors
    BY <1>1, <1>3, BeginsIs DEF barrierVars
  <2>2. ASSUME NEW b \in Branches, Commit(b), NEW d \in Branches
        PROVE  job'.branches[d].floor <= branches[d].floor
    <3>1. job'.branches[d].floor = branches[d].floor
      BY <1>1, <2>2, CommitJob DEF Batch, Table
    <3> QED BY <1>1, <3>1
  <2>3. ASSUME NEW b \in Branches, CreateBranch(b), NEW d \in Branches
        PROVE  job'.branches[d].floor <= branches[d].floor
    <3>1. PICK c \in commits :
            job' = Batch(FALSE, NoEntry, {}, {}, {},
                         [branches EXCEPT ![b] = [head |-> c, base |-> c, sequence |-> 0, floor |-> 0]],
                         retains)
      BY <2>3, CreateJob
    <3>2. job'.branches = [branches EXCEPT ![b] = [head |-> c, base |-> c, sequence |-> 0, floor |-> 0]]
      BY <3>1, PlainJob
    <3>3. job'.branches[d].floor \in {0, branches[d].floor}
      BY <1>1, <3>2 DEF Table
    <3> QED BY <1>1, <3>3
  <2>4. ASSUME \/ \E n \in Names : Retain(n) \/ ReleaseRetention(n)
               \/ GcSweep
        PROVE  job'.branches = branches
    <3>1. ASSUME NEW n \in Names, Retain(n) PROVE job'.branches = branches
      BY <3>1, RetainJob DEF Batch
    <3>2. ASSUME NEW n \in Names, ReleaseRetention(n) PROVE job'.branches = branches
      BY <3>2, ReleaseJob DEF Batch
    <3>3. CASE GcSweep
      BY <3>3, SweepJob, PlainJob
    <3> QED BY <2>4, <3>1, <3>2, <3>3
  <2>5. \A d \in Branches : branches[d].floor <= branches[d].floor
    BY <1>1
  <2> QED BY <1>3, <2>1, <2>2, <2>3, <2>4, <2>5 DEF Begins
<1> QED BY <1>2, <1>3

LEMMA BarredStep ==
  ASSUME IInv, [Next]_vars
  PROVE  Barred'
<1>1. TypeOK /\ Barred /\ JobSound /\ job.drops \subseteq DOMAIN log
  BY DEF IInv, Barred, TypeOK
<1>2. CASE Begins
  <2>1. log' = log /\ commits' = commits /\ branches' = branches /\ readers' = readers /\ streams' = streams
    BY <1>1, <1>2, BeginsIs DEF storeVars, memoryVars
  <2>2. \A c : Unread(c)' <=> Unread(c)
    BY <2>1 DEF Unread
  <2> QED BY <1>1, <1>2, <2>1, <2>2, BeginsFloors DEF Barred
<1>3. CASE Publish
  <2>1. /\ job'.drops = job.drops /\ job'.branches = job.branches /\ branches' = branches
        /\ retiring' = retiring /\ pendingFloors' = pendingFloors /\ readers' = readers
        /\ streams' = streams /\ job.stage = "publishing"
    BY <1>1, <1>3, BatchStored DEF memoryVars, barrierVars
  <2>2. /\ \A c \in DOMAIN log : log'[c] = log[c]
        /\ \A c \in commits : c \notin job.drops => c \in commits'
    BY <1>1, <1>3, BatchStored, ApplyKeeps
  <2>3. \A c \in job.drops : ~Unread(c)'
    BY <1>1, <2>1, <2>2 DEF Unread, Barred
  <2> QED BY <1>1, <2>1, <2>2, <2>3 DEF Barred
<1>4. CASE Install \/ PublishFails
  <2>1. job'.drops = {} /\ job'.stage = "idle" /\ retiring' = {} /\ readers' = readers
    BY <1>4, BatchEnds DEF Install, PublishFails, LowerBarrier
  <2>2. \A c \in commits : c \notin job.drops => c \in commits'
    BY <1>1, <1>4, ApplyKeeps DEF Install, PublishFails, storeVars
  <2> QED BY <1>1, <2>1, <2>2 DEF Barred
<1>5. CASE Ends
  <2>1. job'.drops = {} /\ job'.stage = "idle" /\ retiring' = {} /\ readers' = [r \in Readers |-> NoReader]
    BY <1>5, BatchEnds DEF Ends, Closed, Crash, Vanish, LowerBarrier
  <2> QED BY <2>1 DEF Barred, NoReader
<1>6. CASE Open
  <2>1. job' = job /\ job.stage = "idle" /\ job.drops = {} /\ readers' = readers /\ retiring' = retiring
        /\ commits' = commits
    BY <1>1, <1>6 DEF Open, JobSound, NoJob, barrierVars, storeVars
  <2> QED BY <1>1, <2>1 DEF Barred
<1>7. CASE Calm
  <2>1. /\ log' = log /\ commits' = commits /\ branches' = branches /\ job' = job
        /\ retiring' = retiring /\ pendingFloors' = pendingFloors
    BY <1>1, <1>7, CalmFrame DEF storeVars, memoryVars, barrierVars
  <2>2. \A c \in job.drops : ~Unread(c)'
    <3>1. CASE StreamStep
      BY <3>1, ReadOnce
    <3>2. CASE ~StreamStep
      BY <1>1, <1>7, <2>1, <3>2, CalmFrame DEF Unread, Barred
    <3> QED BY <3>1, <3>2
  <2>3. \A r \in Readers :
          /\ readers'[r].state # "idle" => readers'[r].commit \notin job.drops
          /\ readers'[r].state = "open" => readers'[r].commit \in commits
    <3>1. CASE ~ReadStep
      BY <1>1, <1>7, <3>1, CalmFrame DEF Barred
    <3>2. ASSUME NEW q \in Readers, Snapshot(q) \/ SnapshotRead(q) \/ CloseSnapshot(q), NEW r \in Readers
          PROVE  /\ readers'[r].state # "idle" => readers'[r].commit \notin job.drops
                 /\ readers'[r].state = "open" => readers'[r].commit \in commits
      <4>1. readers \in [Readers -> Reader]
        BY <1>1 DEF TypeOK
      <4>2. CASE Snapshot(q)
        BY <1>1, <4>1, <4>2 DEF Snapshot, Barred
      <4>3. CASE SnapshotRead(q)
        BY <1>1, <4>1, <4>3 DEF SnapshotRead, Barred, NoReader, Reader
      <4>4. CASE CloseSnapshot(q)
        BY <1>1, <4>1, <4>4 DEF CloseSnapshot, Barred, NoReader
      <4> QED BY <3>2, <4>2, <4>3, <4>4
    <3> QED BY <3>1, <3>2 DEF ReadStep
  <2> QED BY <1>1, <2>1, <2>2, <2>3 DEF Barred
<1> QED BY <1>2, <1>3, <1>4, <1>5, <1>6, <1>7, Steps

-----------------------------------------------------------------------------
(* Streams. *)

\* Above both floors, the store has the history that memory knows of.
LEMMA HistoryThere ==
  ASSUME IInv, state = "open", NEW b \in Branches, NEW after \in Nat,
         branches[b].floor <= after, pendingFloors[b] <= after
  PROVE  \A n \in (after + 1)..branches[b].sequence : Stored(b, n)
<1>1. /\ MemoryFollows /\ JobSound /\ Barred
      /\ Sound(log, commits, pages, branchTable, retainTable)
      /\ branches[b] \in Branch /\ branchTable[b] \in Branch /\ pendingFloors[b] \in Nat
  BY DEF IInv, StoreSound, TypeOK, Table
<1>2. /\ branches[b].sequence \in Nat /\ branches[b].floor \in Nat
      /\ branchTable[b].sequence \in Nat /\ branchTable[b].floor \in Nat
  BY <1>1 DEF Branch
<1>3. branchTable[b].floor <= after /\ branches[b].sequence <= branchTable[b].sequence
  <2>1. CASE job.stage = "published"
    <3>1. branchTable[b] = job.branches[b]
      BY <1>1, <2>1 DEF MemoryFollows
    <3>2. job.branches[b].floor <= branches[b].floor \/ job.branches[b].floor <= pendingFloors[b]
      BY <1>1, <2>1 DEF Barred
    <3>3. job.branches[b].sequence =
            branches[b].sequence + (IF job.adds /\ job.entry.branch = b THEN 1 ELSE 0)
      BY <1>1, <2>1 DEF JobSound
    <3> QED BY <1>1, <1>2, <3>1, <3>2, <3>3
  <2>2. CASE job.stage # "published"
    <3>1. branchTable[b] = branches[b]
      BY <1>1, <2>2 DEF MemoryFollows
    <3> QED BY <1>2, <3>1
  <2> QED BY <2>1, <2>2
<1>4. TAKE n \in (after + 1)..branches[b].sequence
<1>5. n \in (branchTable[b].floor + 1)..branchTable[b].sequence
  BY <1>2, <1>3
<1> QED BY <1>1, <1>5 DEF Sound, Holds, Stored

\* The history that an open stream has still to read is not deleted.
LEMMA StreamsApply ==
  ASSUME IInv, job.stage = "publishing", Apply, UNCHANGED <<branches, streams>>
  PROVE  StreamsSound'
<1>1. /\ TypeOK /\ JobSound /\ Barred /\ StreamsSound /\ commits \subseteq DOMAIN log
      /\ job.drops \subseteq DOMAIN log
  BY DEF IInv, TypeOK, Barred
<1>2. /\ \A c \in DOMAIN log : log'[c] = log[c]
      /\ \A c \in commits : c \notin job.drops => c \in commits'
  BY <1>1, ApplyKeeps
<1>3. SUFFICES ASSUME NEW t \in Streams PROVE streams[t].state # "lost" /\ StreamSound(streams[t])'
  BY DEF StreamsSound
<1>4. streams[t].state # "lost" /\ StreamSound(streams[t]) /\ streams[t] \in Stream
  BY <1>1 DEF StreamsSound, TypeOK
<1>5. SUFFICES ASSUME streams[t].state = "open" PROVE StreamSound(streams[t])'
  BY <1>4 DEF StreamSound
<1>6. ASSUME NEW n \in (streams[t].retainAfter + 1)..streams[t].through
      PROVE  Stored(streams[t].branch, n)'
  <2>1. PICK c \in commits : log[c].branch = streams[t].branch /\ log[c].sequence = n
    BY <1>4, <1>5, <1>6 DEF StreamSound, Stored
  <2>2. c \notin job.drops
    <3>1. SUFFICES ASSUME c \in job.drops PROVE FALSE
      OBVIOUS
    <3>2. ~(log[c].sequence > streams[t].retainAfter)
      BY <1>1, <1>5, <2>1, <3>1 DEF Barred, Unread
    <3>3. n > streams[t].retainAfter
      BY <1>4, <1>6 DEF Stream
    <3> QED BY <2>1, <3>2, <3>3
  <2>3. c \in commits' /\ log'[c] = log[c] /\ streams'[t] = streams[t]
    BY <1>1, <1>2, <2>1, <2>2
  <2> QED BY <2>1, <2>3 DEF Stored
<1>7. branches' = branches /\ streams'[t] = streams[t]
  OBVIOUS
<1> QED BY <1>4, <1>5, <1>6, <1>7 DEF StreamSound, Cursor

LEMMA StreamsInstall ==
  ASSUME IInv, Install
  PROVE  StreamsSound'
<1>1. /\ TypeOK /\ JobSound /\ StreamsSound /\ job.stage = "published" /\ commits' = commits
      /\ log' = log /\ branches' = job.branches /\ branches \in Table
  BY DEF IInv, TypeOK, Install, storeVars
<1>2. \A b \in Branches : branches'[b].sequence =
        branches[b].sequence + (IF job.adds /\ job.entry.branch = b THEN 1 ELSE 0)
  BY <1>1 DEF JobSound
<1>3. job.adds => job.entry.sequence = branches'[job.entry.branch].sequence /\ job.entry.branch \in Branches
  BY <1>1 DEF JobSound, TypeOK, Job, Entry
<1>4. SUFFICES ASSUME NEW t \in Streams PROVE streams'[t].state # "lost" /\ StreamSound(streams[t])'
  BY DEF StreamsSound
<1> DEFINE s == streams[t]
<1>5. /\ s.state # "lost" /\ StreamSound(s) /\ s \in Stream /\ s.branch \in Branches
      /\ s.retainAfter \in Nat /\ s.through \in Nat /\ s.after \in Nat /\ s.queue \in Seq(Nat)
      /\ Cursor(s) \in Nat /\ Len(s.queue) \in Nat /\ branches[s.branch].sequence \in Nat
  BY <1>1 DEF StreamsSound, TypeOK, Stream, Cursor, Table, Branch
<1>6. \A b, n : Stored(b, n)' <=> Stored(b, n)
  BY <1>1 DEF Stored
<1>7. CASE job.adds /\ Offers(t)
  <2> DEFINE n == job.entry.sequence
  <2>1. streams'[t] = [s EXCEPT !.queue = Append(s.queue, n), !.after = n]
    BY <1>7 DEF Install
  <2>2. s.state = "open" /\ s.branch = job.entry.branch /\ n > s.after
    BY <1>7 DEF Offers
  <2>3. n = branches[s.branch].sequence + 1 /\ n = s.after + 1 /\ n = branches'[s.branch].sequence
    BY <1>2, <1>3, <1>5, <1>7, <2>2 DEF StreamSound
  <2>4. s.after = Cursor(s) + Len(s.queue) /\ \A i \in 1..Len(s.queue) : s.queue[i] = Cursor(s) + i
    BY <1>5, <2>2 DEF StreamSound
  <2> DEFINE u == streams'[t]
  <2>5. /\ u.state = "open" /\ u.branch = s.branch /\ u.retainAfter = s.retainAfter
        /\ u.through = s.through /\ u.after = n /\ u.queue = Append(s.queue, n)
    BY <1>5, <2>1, <2>2 DEF Stream
  <2>6. n \in Nat
    BY <1>5, <2>3
  <2> HIDE DEF n, s, u
  <2>7. Len(u.queue) = Len(s.queue) + 1 /\ \A i \in 1..(Len(s.queue) + 1) :
          u.queue[i] = IF i = Len(s.queue) + 1 THEN n ELSE s.queue[i]
    BY <1>5, <2>5, <2>6
  <2>8. Cursor(u) = Cursor(s)
    BY <2>5 DEF Cursor
  <2>9. \A i \in 1..Len(u.queue) : u.queue[i] = Cursor(u) + i
    <3>1. TAKE i \in 1..Len(u.queue)
    <3>2. CASE i = Len(s.queue) + 1
      <4>1. u.queue[i] = n
        BY <1>5, <2>7, <3>2
      <4>2. n = Cursor(s) + (Len(s.queue) + 1)
        BY <1>5, <2>3, <2>4
      <4> QED BY <2>8, <3>2, <4>1, <4>2
    <3>3. CASE i \in 1..Len(s.queue)
      BY <1>5, <2>4, <2>7, <2>8, <3>3
    <3> QED BY <1>5, <2>7, <3>2, <3>3
  <2>10. u.after = Cursor(u) + Len(u.queue)
    BY <1>5, <2>3, <2>4, <2>5, <2>7, <2>8
  <2>11. \A i \in (u.retainAfter + 1)..u.through : Stored(u.branch, i)
    BY <1>5, <2>2, <2>5 DEF StreamSound
  <2>12. u.after = branches'[u.branch].sequence
    BY <2>3, <2>5
  <2> QED BY <1>6, <2>5, <2>9, <2>10, <2>11, <2>12 DEF StreamSound, u, Cursor
<1>8. CASE ~(job.adds /\ Offers(t))
  <2>1. streams'[t] = s
    BY <1>8 DEF Install
  <2>2. s.state = "open" =>
          s.after = branches'[s.branch].sequence \/ s.after = branches'[s.branch].sequence + 1
    <3>1. SUFFICES ASSUME s.state = "open"
                   PROVE  s.after = branches'[s.branch].sequence \/ s.after = branches'[s.branch].sequence + 1
      OBVIOUS
    <3>2. s.after = branches[s.branch].sequence \/ s.after = branches[s.branch].sequence + 1
      BY <1>5, <3>1 DEF StreamSound
    <3>3. CASE job.adds /\ job.entry.branch = s.branch
      <4>1. branches'[s.branch].sequence = branches[s.branch].sequence + 1
            /\ job.entry.sequence = branches'[s.branch].sequence
        BY <1>2, <1>3, <1>5, <3>3
      <4>2. ~(job.entry.sequence > s.after)
        BY <1>8, <3>1, <3>3 DEF Offers
      <4> QED BY <1>5, <3>2, <4>1, <4>2
    <3>4. CASE ~(job.adds /\ job.entry.branch = s.branch)
      BY <1>2, <1>5, <3>2, <3>4
    <3> QED BY <3>3, <3>4
  <2> HIDE DEF s
  <2> QED BY <1>5, <1>6, <2>1, <2>2 DEF StreamSound, Cursor
<1> QED BY <1>7, <1>8

LEMMA StreamOpens ==
  ASSUME IInv, NEW t \in Streams, OpenStream(t)
  PROVE  streams'[t].state # "lost" /\ StreamSound(streams'[t])
<1>1. TypeOK /\ streams \in [Streams -> Stream] /\ state = "open"
  BY DEF IInv, TypeOK, OpenStream
<1>2. PICK b \in Branches : \E after \in Nat :
        /\ Exists(b) /\ branches[b].floor <= after /\ pendingFloors[b] <= after
        /\ after <= branches[b].sequence + 1
        /\ streams' = [streams EXCEPT ![t] =
             [state |-> "open", branch |-> b, retainAfter |-> after,
              through |-> branches[b].sequence,
              after |-> IF branches[b].sequence >= after THEN branches[b].sequence ELSE after,
              queue |-> <<>>]]
  BY <1>1, OpenedIs
<1>3. PICK after \in Nat :
        /\ Exists(b) /\ branches[b].floor <= after /\ pendingFloors[b] <= after
        /\ after <= branches[b].sequence + 1
        /\ streams' = [streams EXCEPT ![t] =
             [state |-> "open", branch |-> b, retainAfter |-> after,
              through |-> branches[b].sequence,
              after |-> IF branches[b].sequence >= after THEN branches[b].sequence ELSE after,
              queue |-> <<>>]]
  BY <1>2
<1> DEFINE u == streams'[t]
           seq == branches[b].sequence
<1>4. /\ u.state = "open" /\ u.branch = b /\ u.retainAfter = after /\ u.through = seq
      /\ u.after = (IF seq >= after THEN seq ELSE after) /\ u.queue = <<>>
  BY <1>1, <1>3
<1>5. \A n \in (after + 1)..seq : Stored(b, n)
  BY <1>1, <1>3, HistoryThere
<1>6. seq \in Nat
  BY <1>1 DEF TypeOK, Table, Branch
<1> HIDE DEF u
<1>7. Cursor(u) = (IF after >= seq THEN after ELSE seq)
  BY <1>4 DEF Cursor
<1>8. Len(u.queue) = 0
  BY <1>4
<1>9. u.after = Cursor(u) + Len(u.queue)
  BY <1>4, <1>6, <1>7, <1>8
<1>10. u.after = seq \/ u.after = seq + 1
  BY <1>3, <1>4, <1>6
<1>11. \A i \in 1..Len(u.queue) : u.queue[i] = Cursor(u) + i
  BY <1>8
<1> QED BY <1>4, <1>5, <1>9, <1>10, <1>11 DEF StreamSound, u

LEMMA StreamReplays ==
  ASSUME IInv, NEW t \in Streams, Replay(t)
  PROVE  streams'[t].state # "lost" /\ StreamSound(streams'[t])
<1> DEFINE s == streams[t]
           u == streams'[t]
<1>1. /\ TypeOK /\ StreamsSound /\ StreamSound(s) /\ s \in Stream /\ streams \in [Streams -> Stream]
      /\ s.retainAfter \in Nat /\ s.through \in Nat /\ s.state = "open"
  BY DEF IInv, TypeOK, StreamsSound, Replay, Stream
<1>2. s.retainAfter < s.through /\ u = [s EXCEPT !.retainAfter = s.retainAfter + 1]
  BY <1>1, CursorMoves
<1>3. /\ u.state = "open" /\ u.branch = s.branch /\ u.retainAfter = s.retainAfter + 1
      /\ u.through = s.through /\ u.after = s.after /\ u.queue = s.queue
  BY <1>1, <1>2 DEF Stream
<1> HIDE DEF s, u
<1>4. Cursor(u) = Cursor(s)
  BY <1>1, <1>2, <1>3 DEF Cursor
<1>5. \A n \in (u.retainAfter + 1)..u.through : Stored(u.branch, n)
  BY <1>1, <1>3 DEF StreamSound
<1>6. StreamSound(u)
  BY <1>1, <1>3, <1>4, <1>5 DEF StreamSound
<1> QED BY <1>3, <1>6 DEF u

LEMMA StreamDelivers ==
  ASSUME IInv, NEW t \in Streams, Deliver(t)
  PROVE  streams'[t].state # "lost" /\ StreamSound(streams'[t])
<1> DEFINE s == streams[t]
           u == streams'[t]
<1>1. /\ TypeOK /\ StreamsSound /\ StreamSound(s) /\ s \in Stream /\ streams \in [Streams -> Stream]
      /\ s.retainAfter \in Nat /\ s.through \in Nat /\ s.queue \in Seq(Nat) /\ s.state = "open"
  BY DEF IInv, TypeOK, StreamsSound, Deliver, Stream
<1>2. /\ s.retainAfter >= s.through /\ Len(s.queue) > 0
      /\ u = [s EXCEPT !.retainAfter = s.retainAfter + 1, !.queue = Tail(s.queue)]
  BY <1>1, CursorMoves
<1>3. /\ u.state = "open" /\ u.branch = s.branch /\ u.retainAfter = s.retainAfter + 1
      /\ u.through = s.through /\ u.after = s.after /\ u.queue = Tail(s.queue)
  BY <1>1, <1>2 DEF Stream
<1> HIDE DEF s, u
<1>4. Cursor(s) = s.retainAfter /\ Cursor(u) = s.retainAfter + 1
  BY <1>1, <1>2, <1>3 DEF Cursor
<1>5. s.queue # <<>> /\ Len(s.queue) \in Nat
  BY <1>1, <1>2
<1>6. Len(u.queue) = Len(s.queue) - 1 /\ \A i \in 1..(Len(s.queue) - 1) : u.queue[i] = s.queue[i + 1]
  BY <1>1, <1>3, <1>5
<1>7. \A i \in 1..Len(u.queue) : u.queue[i] = Cursor(u) + i
  <2>1. TAKE i \in 1..Len(u.queue)
  <2>2. i + 1 \in 1..Len(s.queue) /\ u.queue[i] = s.queue[i + 1]
    BY <1>5, <1>6
  <2>3. s.queue[i + 1] = s.retainAfter + (i + 1)
    BY <1>1, <1>4, <2>2 DEF StreamSound
  <2>4. s.retainAfter + (i + 1) = (s.retainAfter + 1) + i
    BY <1>1
  <2> QED BY <1>4, <2>2, <2>3, <2>4
<1>8. u.after = Cursor(u) + Len(u.queue)
  <2>1. s.after = s.retainAfter + Len(s.queue)
    BY <1>1, <1>4 DEF StreamSound
  <2> QED BY <1>1, <1>3, <1>4, <1>5, <1>6, <2>1
<1>9. \A n \in (u.retainAfter + 1)..u.through : Stored(u.branch, n)
  BY <1>1, <1>2, <1>3
<1>10. u.after = branches[u.branch].sequence \/ u.after = branches[u.branch].sequence + 1
  BY <1>1, <1>3 DEF StreamSound
<1>11. StreamSound(u)
  BY <1>7, <1>8, <1>9, <1>10 DEF StreamSound
<1> QED BY <1>3, <1>11 DEF u

LEMMA StreamsStep ==
  ASSUME IInv, [Next]_vars
  PROVE  StreamsSound'
<1>1. TypeOK /\ StreamsSound
  BY DEF IInv
<1>2. ASSUME UNCHANGED <<log, commits, branches, streams>> PROVE StreamsSound'
  <2>1. log' = log /\ commits' = commits /\ branches' = branches /\ streams' = streams
    BY <1>2
  <2>2. \A b, n : Stored(b, n)' <=> Stored(b, n)
    BY <2>1 DEF Stored
  <2> QED BY <1>1, <2>1, <2>2 DEF StreamsSound, StreamSound, Cursor
<1>3. ASSUME streams' = [t \in Streams |-> NoStream] PROVE StreamsSound'
  BY <1>3 DEF StreamsSound, StreamSound, NoStream
<1>4. CASE Begins
  BY <1>1, <1>2, <1>4, BeginsIs DEF storeVars, memoryVars
<1>5. CASE Publish
  BY <1>1, <1>5, BatchStored, StreamsApply DEF memoryVars
<1>6. CASE PublishFails
  BY <1>2, <1>6, StreamsApply DEF PublishFails, memoryVars, storeVars
<1>7. CASE Ends
  BY <1>3, <1>7 DEF Ends, Closed, Crash, Vanish
<1>8. CASE Open
  <2>1. \A t \in Streams : streams'[t] = NoStream
    BY <1>8 DEF Open, IInv, DownIsQuiet
  <2> QED BY <2>1 DEF StreamsSound, StreamSound, NoStream
<1>9. CASE Calm /\ ~StreamStep
  BY <1>1, <1>2, <1>9, CalmFrame DEF storeVars, memoryVars
<1>10. ASSUME NEW t \in Streams, OpenStream(t) \/ Replay(t) \/ Deliver(t) \/ EndStream(t)
       PROVE  StreamsSound'
  <2>1. log' = log /\ commits' = commits /\ branches' = branches /\ streams \in [Streams -> Stream]
    BY <1>1, <1>10 DEF OpenStream, Replay, Deliver, EndStream, storeVars, memoryVars, TypeOK
  <2>2. \A b, n : Stored(b, n)' <=> Stored(b, n)
    BY <2>1 DEF Stored
  <2>3. \A u \in Streams : u # t => streams'[u] = streams[u]
    BY <1>10, <2>1 DEF OpenStream, Replay, Deliver, EndStream
  <2>4. streams'[t].state # "lost" /\ StreamSound(streams'[t])
    <3>1. CASE EndStream(t)
      <4>1. streams'[t] = NoStream
        BY <2>1, <3>1 DEF EndStream
      <4> QED BY <4>1 DEF StreamSound, NoStream
    <3> QED BY <1>10, <3>1, StreamOpens, StreamReplays, StreamDelivers
  <2>5. ASSUME NEW u \in Streams PROVE streams'[u].state # "lost" /\ StreamSound(streams'[u])
    BY <1>1, <2>3, <2>4 DEF StreamsSound
  <2>6. ASSUME NEW u \in Streams PROVE StreamSound(streams'[u]) => StreamSound(streams[u])'
    BY <2>1, <2>2 DEF StreamSound, Cursor
  <2> QED BY <2>5, <2>6 DEF StreamsSound
<1> QED BY <1>4, <1>5, <1>6, <1>7, <1>8, <1>9, <1>10, StreamsInstall, Steps DEF Calm, StreamStep

-----------------------------------------------------------------------------
(* The invariant, and what follows from it. *)

LEMMA InitInv == Init => IInv
<1> SUFFICES ASSUME Init PROVE IInv
  OBVIOUS
<1>1. TypeOK
  BY InitType
<1>2. /\ log = <<NoEntry>> /\ Len(log) = 1 /\ DOMAIN log = {1} /\ log[1] = NoEntry /\ commits = {1}
      /\ branches = branchTable /\ retains = retainTable
  BY DEF Init
<1>3. job = NoJob /\ job.stage = "idle" /\ ~job.adds /\ job.puts = {} /\ job.drops = {}
  BY DEF Init, NoJob
<1>4. \A b \in Branches : /\ branchTable[b].sequence = 0 /\ branchTable[b].floor = 0
                          /\ branchTable[b].head \in {0, 1} /\ branchTable[b].base \in {0, 1}
  BY DEF Init, NoBranch
<1>5. \A n \in Names : retainTable[n] = 0
  BY DEF Init
<1>6. StoreSound
  BY <1>2, <1>3, <1>4, <1>5 DEF StoreSound, Sound, NoEntry
<1>7. MemoryFollows /\ JobSound
  BY <1>2, <1>3 DEF MemoryFollows, JobSound, Init
<1>8. Barred
  BY <1>3 DEF Barred, Init, NoReader
<1>9. StreamsSound
  BY DEF StreamsSound, StreamSound, Init, NoStream
<1>10. IdsFresh /\ MarksCover /\ DownIsQuiet
  BY <1>3 DEF IdsFresh, MarksCover, DownIsQuiet, Init
<1> QED BY <1>1, <1>6, <1>7, <1>8, <1>9, <1>10 DEF IInv

LEMMA NextInv == IInv /\ [Next]_vars => IInv'
<1> SUFFICES ASSUME IInv, [Next]_vars PROVE IInv'
  OBVIOUS
<1>1. TypeOK'
  BY TypeStep DEF IInv
<1> QED BY <1>1, StoreStep, MemoryStep, JobStep, BarredStep, StreamsStep, IdsStep, MarksStep, DownStep
        DEF IInv

\* The storage engine is always in a state its proof describes.
THEOREM StorageInvariant == Spec => []IInv
<1>1. IInv /\ UNCHANGED vars => IInv'
  BY NextInv
<1> QED BY InitInv, NextInv, PTL DEF Spec

\* Every stored commit has its pages; branches, names and open snapshots find
\* theirs; and no page id of a staged page is used again.
THEOREM StoreStaysWhole == Spec => []StoreWhole
<1>1. IInv => StoreWhole
  <2> SUFFICES ASSUME IInv PROVE StoreWhole
    OBVIOUS
  <2>1. Integrity
    BY DEF IInv, StoreSound, Sound, Integrity
  <2>2. RootsPresent
    BY DEF IInv, StoreSound, Sound, Barred, RootsPresent
  <2>3. FreshPageIds
    BY DEF IInv, IdsFresh, FreshPageIds
  <2> QED BY <2>1, <2>2, <2>3 DEF StoreWhole
<1> QED BY <1>1, StorageInvariant, PTL

\* Branches have no hole above their floors, and no admitted stream is lost.
THEOREM HistoryStaysKept == Spec => []HistoryKept
<1>1. IInv => HistoryKept
  <2> SUFFICES ASSUME IInv PROVE HistoryKept
    OBVIOUS
  <2>1. NoHoleAboveFloor
    BY DEF IInv, StoreSound, Sound, Holds, NoHoleAboveFloor, Stored
  <2>2. AdmittedStreamsSurvive
    BY DEF IInv, StreamsSound, AdmittedStreamsSurvive
  <2> QED BY <2>1, <2>2 DEF HistoryKept
<1> QED BY <1>1, StorageInvariant, PTL

\* The store only loses a commit no snapshot has pinned.
THEOREM SnapshotsStayPinned == Spec => PinnedStay
<1> DEFINE Kept == \A r \in Readers :
       /\ readers[r].state # "idle" /\ readers'[r].state # "idle"
       /\ readers[r].commit \in commits
       => readers[r].commit \in commits'
<1>1. IInv /\ [Next]_vars => [Kept]_vars
  <2> SUFFICES ASSUME IInv, [Next]_vars PROVE Kept
    OBVIOUS
  <2>1. TypeOK /\ JobSound /\ Barred
    BY DEF IInv
  <2>2. CASE job.stage = "publishing" /\ Apply
    BY <2>1, <2>2, ApplyKeeps DEF Barred
  <2>3. CASE commits' = commits
    BY <2>3
  <2>4. (job.stage = "publishing" /\ Apply) \/ commits' = commits
    BY <2>1, BeginsIs, CalmFrame, Steps DEF Publish, Install, PublishFails, Ends, Closed, Crash, Vanish,
       Open, storeVars
  <2> QED BY <2>2, <2>3, <2>4
<1> QED BY <1>1, StorageInvariant, PTL DEF Spec, PinnedStay

\* A collection that completes has swept every page that is old and unused.
THEOREM CollectionsAreComplete == Spec => SweepComplete
<1> DEFINE Swept == GcDone => \A p \in pages : p < cutoff => \E c \in commits : p \in log[c].pages
<1>1. IInv => [Swept]_vars
  BY DEF IInv, MarksCover, GcDone, Garbage
<1> QED BY <1>1, StorageInvariant, PTL DEF Spec, SweepComplete

\* Streams yield one commit after another, from the stored history to the queue.
THEOREM StreamsDeliverInOrder == Spec => DeliveredInOrder
<1> DEFINE Steady == \A t \in Streams :
       LET was == streams[t]
           now == streams'[t]
       IN was.state = "open" /\ now.state = "open" =>
            /\ now.retainAfter - was.retainAfter \in {0, 1}
            /\ Len(now.queue) < Len(was.queue)
                 => now.retainAfter = was.retainAfter + 1
<1>1. IInv /\ [Next]_vars => [Steady]_vars
  <2> SUFFICES ASSUME IInv, [Next]_vars, NEW t \in Streams,
                      streams[t].state = "open", streams'[t].state = "open"
               PROVE  /\ streams'[t].retainAfter - streams[t].retainAfter \in {0, 1}
                      /\ Len(streams'[t].queue) < Len(streams[t].queue)
                           => streams'[t].retainAfter = streams[t].retainAfter + 1
    OBVIOUS
  <2>1. /\ TypeOK /\ StreamsSound /\ streams \in [Streams -> Stream] /\ streams[t] \in Stream
        /\ streams[t].retainAfter \in Nat /\ streams[t].queue \in Seq(Nat)
        /\ Len(streams[t].queue) \in Nat
    <3>1. TypeOK /\ StreamsSound /\ streams \in [Streams -> Stream] /\ streams[t] \in Stream
      BY DEF IInv, TypeOK
    <3> QED BY <3>1 DEF Stream
  <2>2. CASE streams'[t] = streams[t]
    BY <2>1, <2>2
  <2>3. CASE Install
    <3>1. CASE job.adds /\ Offers(t)
      <4>1. job.entry.sequence \in Nat
        BY <2>1 DEF TypeOK, Job, Entry
      <4>2. streams'[t] = [streams[t] EXCEPT !.queue = Append(streams[t].queue, job.entry.sequence),
                                             !.after = job.entry.sequence]
        BY <2>3, <3>1 DEF Install
      <4>3. streams'[t].retainAfter = streams[t].retainAfter
            /\ streams'[t].queue = Append(streams[t].queue, job.entry.sequence)
        BY <2>1, <4>2 DEF Stream
      <4>4. Len(streams'[t].queue) = Len(streams[t].queue) + 1
        BY <2>1, <4>1, <4>3
      <4> QED BY <2>1, <4>3, <4>4
    <3>2. CASE ~(job.adds /\ Offers(t))
      BY <2>2, <2>3, <3>2 DEF Install
    <3> QED BY <3>1, <3>2
  <2>4. ASSUME NEW u \in Streams, OpenStream(u) \/ Replay(u) \/ Deliver(u) \/ EndStream(u)
        PROVE  /\ streams'[t].retainAfter - streams[t].retainAfter \in {0, 1}
               /\ Len(streams'[t].queue) < Len(streams[t].queue)
                    => streams'[t].retainAfter = streams[t].retainAfter + 1
    <3>1. CASE u # t
      <4>1. streams'[t] = streams[t]
        BY <2>1, <2>4, <3>1 DEF OpenStream, Replay, Deliver, EndStream
      <4> QED BY <2>2, <4>1
    <3>2. CASE u = t /\ (Replay(t) \/ Deliver(t))
      <4>1. streams'[t].retainAfter = streams[t].retainAfter + 1
        <5>1. CASE Replay(t)
          <6>1. streams' = [streams EXCEPT ![t] =
                  [streams[t] EXCEPT !.retainAfter = streams[t].retainAfter + 1]]
            BY <2>1, <5>1, CursorMoves
          <6> QED BY <2>1, <6>1 DEF Stream
        <5>2. CASE Deliver(t)
          <6>1. streams' = [streams EXCEPT ![t] =
                  [streams[t] EXCEPT !.retainAfter = streams[t].retainAfter + 1,
                                     !.queue = Tail(streams[t].queue)]]
            BY <2>1, <5>2, CursorMoves
          <6> QED BY <2>1, <6>1 DEF Stream
        <5> QED BY <3>2, <5>1, <5>2
      <4> QED BY <2>1, <4>1
    <3>3. CASE u = t /\ (OpenStream(t) \/ EndStream(t))
      BY <2>1, <3>3 DEF OpenStream, EndStream, NoStream
    <3> QED BY <2>4, <3>1, <3>2, <3>3
  <2>5. CASE Ends
    BY <2>5 DEF Ends, Closed, Crash, Vanish, NoStream
  <2>6. CASE Begins \/ Publish \/ PublishFails \/ Open \/ (Calm /\ ~StreamStep)
    <3>1. streams' = streams
      BY <2>1, <2>6, BeginsIs, BatchStored, CalmFrame DEF PublishFails, Open
    <3> QED BY <2>2, <3>1
  <2> QED BY <2>3, <2>4, <2>5, <2>6, Steps DEF StreamStep
<1> QED BY <1>1, StorageInvariant, PTL DEF Spec, DeliveredInOrder
=============================================================================

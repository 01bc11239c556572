------------------------------ MODULE FileStorage ------------------------------
(***************************************************************************)
(* The file engine: an append-only log of pages, commits, refs and         *)
(* metadata, recovered after a crash by walking it, from a startup         *)
(* checkpoint when there is one; snapshots and change streams that hold a  *)
(* generation of the file; and the collector that copies what is retained  *)
(* into a new generation (NodeStorageDatabase, AppendOnlyPageStore and the *)
(* startup checkpoint).  Migrations are in module Migration.               *)
(*                                                                         *)
(* A position in a file is the index of a record.  A commit's trees are    *)
(* one page, named after the commit that wrote it.  Bytes are abstracted   *)
(* to whole records; an append cut short leaves a "torn" one.              *)
(***************************************************************************)
EXTENDS Integers, Sequences, FiniteSets, FiniteSetsExt, SequencesExt

CONSTANTS
  Branches, Main,  \* branch names, and the one that always exists
  Names,           \* names given to retain()
  Readers,         \* snapshots that can be open at once
  Streams,         \* change streams that can be open at once
  KeepAtLeast,     \* retention.keepAtLeast
  MaxCommits,      \* bound: commits, the initial one included
  MaxMetadata,     \* bound: metadata records in one file
  MaxCollections,  \* bound: files written by collections, calls of one process
  MaxCrashes,      \* bound: the process dies or the power fails
  MaxSyncFaults,   \* bound: fsync of the file or of its directory fails
  MaxWriteFaults,  \* bound: an append fails part way
  Garbling         \* whether a crash may keep a record's header and not its payload

ASSUME FileAssumption ==
  /\ IsFiniteSet(Branches) /\ IsFiniteSet(Readers) /\ IsFiniteSet(Streams)
  /\ Main \in Branches
  /\ KeepAtLeast \in Nat \ {0}
  /\ MaxCommits \in Nat /\ MaxMetadata \in Nat /\ MaxCollections \in Nat /\ MaxCrashes \in Nat
  /\ MaxSyncFaults \in Nat /\ MaxWriteFaults \in Nat /\ Garbling \in BOOLEAN

VARIABLES
  \* the disk
  gens,         \* every data file written so far, its records and what is synced
  path,         \* generations the name hydb.data may lead to after a crash
  checkpoint,   \* the sidecar
  \* NodeStorageDatabase
  state,        \* "down", "opening", "open", "closing", "corrupt"
  current,      \* #generation
  commits,      \* #commits: the position of each commit
  branches,     \* #branches
  retains,      \* #retains
  floors,       \* #historyFloors
  job,          \* the operation that holds the write queue
  barrier,      \* calls of collectGarbage(): #collectionBarrier awaits the last
  collected,    \* collections that have ended
  readers,      \* snapshot() calls
  streams,      \* changes() calls
  \* history
  content,      \* the page each commit's trees are
  acked,        \* commits acknowledged to their callers
  promised,     \* retentions acknowledged
  \* bounds
  crashes, syncFaults, writeFaults

diskVars == <<gens, path, checkpoint>>
memoryVars == <<current, commits, branches, retains, floors>>
gcVars == <<barrier, collected>>
historyVars == <<content, acked, promised>>
faultVars == <<crashes, syncFaults, writeFaults>>
vars == <<diskVars, state, memoryVars, job, gcVars, readers, streams,
          historyVars, faultVars>>

-----------------------------------------------------------------------------
Ids == 1..MaxCommits
Sequences == 0..MaxCommits
Generations == 1..(MaxCollections + 1)
NONE == 0

Page(id) == [type |-> "page", id |-> id]
CommitRecord(id, b, n, tree) ==
  [type |-> "commit", id |-> id, branch |-> b, sequence |-> n, tree |-> tree]
RefRecord(op, b, id, n) ==
  [type |-> "ref", operation |-> op, branch |-> b, head |-> id, sequence |-> n]
MetaRecord(names, low) == [type |-> "meta", retains |-> names, floors |-> low]
Torn == [type |-> "torn"]

\* A header that recovery accepts over a payload that was never written.
Garbled(record) == [type |-> "garbled", was |-> record.type]

NoBranch == [head |-> NONE, sequence |-> 0, base |-> NONE]
NoBranches == [b \in Branches |-> NoBranch]
NoRetains == [n \in Names |-> NONE]
NoFloors == [b \in Branches |-> 0]
NewFile == [file |-> <<>>, synced |-> 0, leases |-> 1, retired |-> FALSE, closed |-> FALSE]

\* A file no name leads to and no process has open.
Gone == [file |-> <<Torn>>, synced |-> 0, leases |-> 0, retired |-> TRUE, closed |-> TRUE]

NoJob == [kind |-> "idle"]
NoReader == [state |-> "idle", awaits |-> 0, commit |-> NONE, gen |-> 0, tree |-> 0]
NoStream == [state |-> "idle", branch |-> Main, gen |-> 0, at |-> 0,
             awaits |-> 0, from |-> 0, retainAfter |-> 0, through |-> 0,
             after |-> 0, queue |-> <<>>]
NoCheckpoint == [gen |-> 0]

File == gens[current].file
Written == {g \in Generations : gens[g].file # <<>>}
Exists(b) == branches[b].head # NONE
Fresh == Cardinality(DOMAIN content) + 1
With(map, key, value) == [k \in DOMAIN map \union {key} |-> IF k = key THEN value ELSE map[k]]

TypeOK ==
  /\ \A g \in Generations :
       /\ gens[g].synced \in 0..Len(gens[g].file)
       /\ gens[g].leases \in 0..(1 + Cardinality(Readers) + Cardinality(Streams))
  /\ path \subseteq Generations /\ path # {} /\ current \in Generations
  /\ state \in {"down", "opening", "open", "closing", "corrupt"}
  /\ state = "open" /\ writeFaults = 0 => \A i \in DOMAIN File : File[i] # Torn
  /\ DOMAIN commits \subseteq DOMAIN content /\ DOMAIN content \subseteq Ids
  /\ \A b \in Branches : branches[b].sequence \in Sequences /\ floors[b] \in Sequences
  /\ retains \in [Names -> Ids \union {NONE}]
  /\ job.kind \in {"idle", "open", "commit", "create", "retain", "release", "collect", "install"}
  /\ collected \in 0..barrier /\ barrier \in 0..MaxCollections
  /\ \A r \in Readers : readers[r].state \in {"idle", "waiting", "open"}
  /\ \A t \in Streams : streams[t].state \in {"idle", "waiting", "replaying", "live", "lost"}

\* An empty file and no process.
Init ==
  /\ gens = [g \in Generations |-> NewFile] /\ path = {1} /\ checkpoint = NoCheckpoint
  /\ state = "down" /\ current = 1
  /\ commits = <<>> /\ branches = NoBranches /\ retains = NoRetains /\ floors = NoFloors
  /\ job = NoJob /\ barrier = 0 /\ collected = 0
  /\ readers = [r \in Readers |-> NoReader] /\ streams = [t \in Streams |-> NoStream]
  /\ content = <<>> /\ acked = {} /\ promised = NoRetains
  /\ crashes = 0 /\ syncFaults = 0 /\ writeFaults = 0

-----------------------------------------------------------------------------
(* The page store: append, read, recover. *)

\* append() of these records: they are in the file, not yet on the disk.
Append_(records) == gens' = [gens EXCEPT ![current].file = @ \o records]

\* read(): ids count the bytes that append() counted, so nothing behind a torn
\* record is where its id says.
Readable(file, i) ==
  /\ i \in DOMAIN file /\ file[i].type \notin {"torn", "garbled"}
  /\ \A j \in 1..i : file[j].type # "torn"

\* recover(): headers are walked up to the first that does not parse, and the
\* rest is cut off.
Recovered(file, start) ==
  LET bad == {i \in DOMAIN file : file[i].type = "torn"}
  IN SubSeq(file, 1, IF bad = {} THEN Len(file) ELSE Max({start, Min(bad) - 1}))

\* Mutant: any checkpoint that is no longer than the file is taken.
AnyCheckpoint(g) == checkpoint.gen # 0 /\ checkpoint.offset \in DOMAIN gens[g].file

\* readStartupCheckpoint: the sidecar names this very file, which still ends
\* a record where the checkpoint says.
ValidCheckpoint(g) ==
  /\ checkpoint.gen = g
  /\ checkpoint.offset \in DOMAIN gens[g].file
  /\ gens[g].file[checkpoint.offset] = checkpoint.boundary

\* writeStartupCheckpoint, after a sync: what memory holds and where the file
\* ends.  One over a torn record, which names no record's end, is left out.
Sidecars(known, heads) ==
  IF \E i \in DOMAIN File : File[i].type = "torn" THEN {}
  ELSE {[gen |-> current, offset |-> Len(File), boundary |-> File[Len(File)],
         commits |-> known, branches |-> heads, retains |-> retains,
         floors |-> floors]}

-----------------------------------------------------------------------------
(* Opening: the checkpoint, then the records behind it. *)

\* What load() starts from: nothing, or the checkpoint.
Blank == [commits |-> <<>>, branches |-> NoBranches, retains |-> NoRetains,
          floors |-> NoFloors, metadata |-> FALSE]
FromCheckpoint ==
  [commits |-> checkpoint.commits, branches |-> checkpoint.branches,
   retains |-> checkpoint.retains, floors |-> checkpoint.floors, metadata |-> TRUE]

\* The records of a type that load() reads behind it.
ReadBehind(file, start, type) == {i \in (start + 1)..Len(file) : file[i].type = type}

\* A branch after these refs of it: the last tells its head, and its base is where
\* it was created last, or what was known of it, or the first.
BranchAfter(file, refs, known) ==
  LET creates == {i \in refs : file[i].operation = "create"}
  IN IF refs = {} THEN known
     ELSE [head |-> file[Max(refs)].head, sequence |-> file[Max(refs)].sequence,
           base |-> IF creates # {} THEN file[Max(creates)].head
                    ELSE IF known.base # NONE THEN known.base ELSE file[Min(refs)].head]

\* load(): of each commit, branch and the metadata the last record counts; commits
\* that no ref ever published are dropped.
Load(file, start, first) ==
  LET records == ReadBehind(file, start, "commit")
      refs == ReadBehind(file, start, "ref")
      metas == ReadBehind(file, start, "meta")
      published == DOMAIN first.commits \union {file[i].head : i \in refs}
      RecordsOf(c) == {i \in records : file[i].id = c}
  IN [commits |->
        [c \in (DOMAIN first.commits \union {file[i].id : i \in records}) \intersect published |->
           IF RecordsOf(c) = {} THEN first.commits[c] ELSE Max(RecordsOf(c))],
      branches |->
        [b \in Branches |->
           BranchAfter(file, {i \in refs : file[i].branch = b}, first.branches[b])],
      retains |-> IF metas = {} THEN first.retains ELSE file[Max(metas)].retains,
      floors |-> IF metas = {} THEN first.floors ELSE file[Max(metas)].floors,
      metadata |-> first.metadata \/ metas # {}]

\* load() throws: a record it needs fails its checksum, or a head is unreadable.
Unloadable(file, start, memory) ==
  \/ \E i \in (start + 1)..Len(file) :
       file[i].type = "garbled" /\ file[i].was # "page"
  \/ \E b \in Branches :
       LET head == memory.branches[b].head IN
       head # NONE /\ (head \notin DOMAIN memory.commits
                       \/ ~Readable(file, memory.commits[head]))

\* initialize(), or the metadata a crash kept from being written.
Missing(memory, file) ==
  IF memory.branches = NoBranches
  THEN <<CommitRecord(Fresh, Main, 0, 0), RefRecord("create", Main, Fresh, 0),
         MetaRecord(memory.retains, memory.floors)>>
  ELSE IF memory.metadata THEN <<>>
  ELSE <<MetaRecord(memory.retains, memory.floors)>>

\* What load() has found becomes the memory, and what is missing is written.
Enter(g, file, start, memory) ==
  LET missing == Missing(memory, file)
      creates == memory.branches = NoBranches
  IN
  /\ path' = {g} /\ current' = g
  /\ gens' = [x \in Generations |->
       IF x = g THEN [NewFile EXCEPT !.file = file \o missing,
                                     !.synced = Min({gens[g].synced, Len(file)})]
       ELSE IF x \in Written THEN Gone ELSE NewFile]
  /\ commits' = memory.commits /\ branches' = memory.branches
  /\ retains' = memory.retains /\ floors' = memory.floors
  /\ IF Unloadable(file, start, memory)
     THEN state' = "corrupt" /\ UNCHANGED <<job, content>>
     ELSE /\ creates => Fresh \in Ids
          /\ state' = "opening"
          /\ job' = [kind |-> "open", id |-> IF creates THEN Fresh ELSE NONE,
                     at |-> Len(file) + 1, must |-> missing # <<>>]
          /\ content' = IF creates THEN With(content, Fresh, NONE) ELSE content

\* open(): recover, load, and write what is missing.
Open ==
  /\ state = "down"
  /\ \E g \in path :
       LET start == IF ValidCheckpoint(g) THEN checkpoint.offset ELSE 0
           first == IF ValidCheckpoint(g) THEN FromCheckpoint ELSE Blank
       IN \E file \in {Recovered(gens[g].file, start)} :
          \E memory \in {Load(file, start, first)} : Enter(g, file, start, memory)
  /\ UNCHANGED <<checkpoint, gcVars, readers, streams, acked, promised, faultVars>>

-----------------------------------------------------------------------------
(* The write queue: one operation at a time appends, syncs and installs. *)

MyTurn == state = "open" /\ job = NoJob

\* The order of a publication: the trees, the commit, and the ref last.
Publication(pages, commit, ref) == pages \o <<commit, ref>>

\* commitNow: trees, commit and ref are appended.
Commit(b) ==
  LET id == Fresh
      n == branches[b].sequence + 1
      parent == branches[b].head
      tree == File[commits[parent]].tree
      at == Len(File)
  IN
  /\ MyTurn /\ Exists(b) /\ id \in Ids
  /\ \E writes \in BOOLEAN :
       LET pages == IF writes THEN <<Page(id)>> ELSE <<>> IN
       /\ Append_(Publication(pages, CommitRecord(id, b, n, IF writes THEN at + 1 ELSE tree),
                              RefRecord("commit", b, id, n)))
       /\ content' = With(content, id, IF writes THEN id ELSE content[parent])
       /\ job' = [kind |-> "commit", id |-> id, branch |-> b, sequence |-> n,
                  from |-> at, at |-> at + Len(pages) + 1]
  /\ UNCHANGED <<path, checkpoint, state, memoryVars, gcVars, readers, streams,
                 acked, promised, faultVars>>

\* createBranch() from any commit still there.
CreateBranch(b) ==
  /\ MyTurn /\ ~Exists(b)
  /\ \E c \in DOMAIN commits :
       /\ Append_(<<RefRecord("create", b, c, 0)>>)
       /\ job' = [kind |-> "create", id |-> c, branch |-> b, from |-> Len(File)]
  /\ UNCHANGED <<path, checkpoint, state, memoryVars, gcVars, readers, streams,
                 historyVars, faultVars>>

\* writeMetadata with the names as they are now.
WriteMetadata(names) == Append_(<<MetaRecord(names, floors)>>)

\* The bound on retain() and releaseRetention(), which add a record each.
MetadataRoom == Cardinality({i \in DOMAIN File : File[i].type = "meta"}) < MaxMetadata

\* retain(): memory first, then the metadata.
Retain(name) ==
  /\ MyTurn /\ retains[name] = NONE /\ MetadataRoom
  /\ \E c \in DOMAIN commits :
       /\ retains' = [retains EXCEPT ![name] = c]
       /\ WriteMetadata(retains')
       /\ job' = [kind |-> "retain", id |-> c, name |-> name, from |-> Len(File)]
  /\ UNCHANGED <<path, checkpoint, state, current, commits, branches, floors,
                 gcVars, readers, streams, historyVars, faultVars>>

\* retain() of what memory already has returns at once.
RetainAgain(name) ==
  /\ MyTurn /\ retains[name] # NONE
  /\ promised' = [promised EXCEPT ![name] = retains[name]]
  /\ UNCHANGED <<diskVars, state, memoryVars, job, gcVars, readers, streams,
                 content, acked, faultVars>>

\* releaseRetention(): from here on nothing is promised any more.
ReleaseRetention(name) ==
  /\ MyTurn /\ retains[name] # NONE /\ MetadataRoom
  /\ retains' = [retains EXCEPT ![name] = NONE]
  /\ WriteMetadata(retains')
  /\ promised' = [promised EXCEPT ![name] = NONE]
  /\ job' = [kind |-> "release", name |-> name, from |-> Len(File)]
  /\ UNCHANGED <<path, checkpoint, state, current, commits, branches, floors,
                 gcVars, readers, streams, content, acked, faultVars>>

\* Mutant: a stream that is still replaying is passed over.
DeliverLive(b, n) ==
  [t \in Streams |->
     IF streams[t].state = "live" /\ streams[t].branch = b /\ n > streams[t].after
     THEN [streams[t] EXCEPT !.queue = Append(@, n), !.after = n]
     ELSE streams[t]]

\* commitNow hands the batch to the streams that still expect it.
Deliveries(b, n) ==
  [t \in Streams |->
     IF streams[t].state \in {"replaying", "live"} /\ streams[t].branch = b
          /\ n > streams[t].after
     THEN [streams[t] EXCEPT !.queue = Append(@, n), !.after = n]
     ELSE streams[t]]

\* Mutant: the head moves before the log is synced.
EarlySync == gens' = gens

\* sync(): everything appended is on the disk.
Synced == gens' = [gens EXCEPT ![current].synced = Len(File)]

\* sync() returns: memory follows, the caller is answered.
SyncDone ==
  /\ job.kind \in {"open", "commit", "create", "retain", "release"}
  /\ Synced
  /\ job' = NoJob
  /\ CASE job.kind = "commit" ->
            /\ commits' = With(commits, job.id, job.at)
            /\ branches' = [branches EXCEPT ![job.branch] =
                 [@ EXCEPT !.head = job.id, !.sequence = job.sequence]]
            /\ acked' = acked \union {[id |-> job.id, branch |-> job.branch,
                                       sequence |-> job.sequence]}
            /\ streams' = Deliveries(job.branch, job.sequence)
            /\ UNCHANGED <<state, checkpoint, promised>>
       [] job.kind = "create" ->
            /\ branches' = [branches EXCEPT ![job.branch] =
                 [head |-> job.id, sequence |-> 0, base |-> job.id]]
            /\ UNCHANGED <<state, checkpoint, commits, acked, promised, streams>>
       [] job.kind = "retain" ->
            /\ promised' = [promised EXCEPT ![job.name] = job.id]
            /\ UNCHANGED <<state, checkpoint, commits, branches, acked, streams>>
       [] job.kind = "release" ->
            UNCHANGED <<state, checkpoint, commits, branches, acked, promised, streams>>
       [] job.kind = "open" ->
            /\ state' = "open"
            /\ IF job.id = NONE THEN UNCHANGED <<commits, branches>>
               ELSE /\ commits' = With(<<>>, job.id, job.at)
                    /\ branches' = [branches EXCEPT ![Main] =
                         [head |-> job.id, sequence |-> 0, base |-> job.id]]
            /\ checkpoint' \in {checkpoint} \union Sidecars(commits', branches')
            /\ UNCHANGED <<acked, promised, streams>>
  /\ UNCHANGED <<path, current, retains, floors, gcVars, readers, content, faultVars>>

\* sync() rejects: the records stay in the file, memory as it was.
SyncFails ==
  /\ job.kind \in {"open", "commit", "create", "retain", "release"}
  /\ job.kind = "open" => job.must
  /\ syncFaults < MaxSyncFaults
  /\ syncFaults' = syncFaults + 1
  /\ job' = NoJob
  /\ state' = IF job.kind = "open" THEN "down" ELSE state
  /\ UNCHANGED <<diskVars, memoryVars, gcVars, readers, streams,
                 historyVars, crashes, writeFaults>>

\* append() rejects: part of what the operation appended is there, torn.
AppendFails ==
  /\ job.kind \in {"commit", "create", "retain", "release"}
  /\ writeFaults < MaxWriteFaults
  /\ writeFaults' = writeFaults + 1
  /\ \E whole \in job.from..(Len(File) - 1) :
       gens' = [gens EXCEPT ![current].file = Append(SubSeq(@, 1, whole), Torn)]
  /\ job' = NoJob
  /\ UNCHANGED <<path, checkpoint, state, memoryVars, gcVars, readers, streams,
                 historyVars, crashes, syncFaults>>

-----------------------------------------------------------------------------
(* Snapshots and change streams: both wait for the collection they see, then *)
(* lease the generation they read.                                          *)

Holds(g, by) == gens' = [gens EXCEPT ![g].leases = @ + by]

\* releaseGeneration: the last lease of a retired generation closes its file.
ReleaseGeneration(g) ==
  gens' = [gens EXCEPT ![g] =
    IF @.closed THEN @
    ELSE [@ EXCEPT !.leases = gens[g].leases - 1,
            !.closed = gens[g].leases = 1 /\ gens[g].retired]]

\* Mutant: snapshot() goes ahead whatever collection is under way.
Unblocked(awaited) == TRUE

\* The collection a caller saw has ended.
BarrierPassed(awaited) == collected >= awaited

\* snapshot() up to its first await.
CallSnapshot(r) ==
  /\ state = "open" /\ readers[r].state = "idle"
  /\ readers' = [readers EXCEPT ![r] = [@ EXCEPT !.state = "waiting", !.awaits = barrier]]
  /\ UNCHANGED <<diskVars, state, memoryVars, job, gcVars, streams, historyVars, faultVars>>

\* The rest of snapshot(): lease, pin and look up, in one go.
Snapshot(r) ==
  /\ state = "open" /\ readers[r].state = "waiting" /\ BarrierPassed(readers[r].awaits)
  /\ \E c \in DOMAIN commits :
       readers' = [readers EXCEPT ![r] =
         [state |-> "open", awaits |-> 0, commit |-> c, gen |-> current,
          tree |-> File[commits[c]].tree]]
  /\ Holds(current, 1)
  /\ UNCHANGED <<path, checkpoint, state, memoryVars, job, gcVars, streams,
                 historyVars, faultVars>>

\* releaseSnapshot.
CloseSnapshot(r) ==
  /\ readers[r].state = "open"
  /\ ReleaseGeneration(readers[r].gen)
  /\ readers' = [readers EXCEPT ![r] = NoReader]
  /\ UNCHANGED <<path, checkpoint, state, memoryVars, job, gcVars, streams,
                 historyVars, faultVars>>

\* changes() up to its first await, from a sequence the caller has seen.
CallChanges(t, b, after) ==
  /\ state = "open" /\ streams[t].state = "idle" /\ after <= branches[b].sequence
  /\ streams' = [streams EXCEPT ![t] =
       [NoStream EXCEPT !.state = "waiting", !.branch = b, !.from = after, !.retainAfter = after,
                        !.awaits = barrier]]
  /\ UNCHANGED <<diskVars, state, memoryVars, job, gcVars, readers, historyVars, faultVars>>

\* The rest of its start: below the floor the history is gone; otherwise the
\* subscriber is added, and what it missed is replayed from a leased generation.
Subscribe(t) ==
  LET s == streams[t] IN
  /\ state = "open" /\ s.state = "waiting" /\ BarrierPassed(s.awaits)
  /\ IF ~Exists(s.branch) \/ s.retainAfter < floors[s.branch]
     THEN streams' = [streams EXCEPT ![t] = NoStream] /\ UNCHANGED gens
     ELSE LET through == branches[s.branch].sequence
              behind == s.retainAfter < through
          IN /\ streams' = [streams EXCEPT ![t] =
                  [@ EXCEPT !.state = IF behind THEN "replaying" ELSE "live",
                            !.after = through, !.through = through, !.gen = current]]
             /\ IF behind THEN Holds(current, 1) ELSE UNCHANGED gens
  /\ UNCHANGED <<path, checkpoint, state, memoryVars, job, gcVars, readers,
                 historyVars, faultVars>>

\* The refs a replay has yet to come to.
Remaining(s) ==
  {i \in (s.at + 1)..Len(gens[s.gen].file) :
     LET record == gens[s.gen].file[i] IN
     /\ record.type = "ref" /\ record.operation = "commit" /\ record.branch = s.branch
     /\ record.sequence > s.from /\ record.sequence <= s.through}

\* readChanges: the next ref of the range, its commit looked up in memory.
Replay(t) ==
  LET s == streams[t]
      at == Min(Remaining(s))
      ref == gens[s.gen].file[at]
  IN
  /\ s.state = "replaying" /\ Remaining(s) # {}
  /\ IF ref.head \in DOMAIN commits
     THEN /\ streams' = [streams EXCEPT ![t] =
               [@ EXCEPT !.at = at, !.retainAfter = ref.sequence]]
          /\ UNCHANGED gens
     ELSE /\ streams' = [streams EXCEPT ![t] = [@ EXCEPT !.state = "lost"]]
          /\ ReleaseGeneration(s.gen)
  /\ UNCHANGED <<path, checkpoint, state, memoryVars, job, gcVars, readers,
                 historyVars, faultVars>>

Replayed(t) ==
  /\ streams[t].state = "replaying" /\ Remaining(streams[t]) = {}
  /\ ReleaseGeneration(streams[t].gen)
  /\ streams' = [streams EXCEPT ![t] = [@ EXCEPT !.state = "live"]]
  /\ UNCHANGED <<path, checkpoint, state, memoryVars, job, gcVars, readers,
                 historyVars, faultVars>>

\* The live half: the next batch of the queue.
Deliver(t) ==
  /\ streams[t].state = "live" /\ streams[t].queue # <<>>
  /\ streams' = [streams EXCEPT ![t] =
       [@ EXCEPT !.queue = Tail(streams[t].queue), !.retainAfter = Head(streams[t].queue)]]
  /\ UNCHANGED <<diskVars, state, memoryVars, job, gcVars, readers, historyVars, faultVars>>

EndStream(t) ==
  /\ streams[t].state \in {"replaying", "live"}
  /\ IF streams[t].state = "replaying" THEN ReleaseGeneration(streams[t].gen)
     ELSE UNCHANGED gens
  /\ streams' = [streams EXCEPT ![t] = NoStream]
  /\ UNCHANGED <<path, checkpoint, state, memoryVars, job, gcVars, readers,
                 historyVars, faultVars>>

-----------------------------------------------------------------------------
(* Collection: what is retained is copied to a new file, which takes the name. *)

RecordAt(id) == File[commits[id]]
OfBranch(b) == {c \in DOMAIN commits : RecordAt(c).branch = b}

\* #snapshotPins.
SnapshotPins == {readers[r].commit : r \in {q \in Readers : readers[q].state = "open"}}

\* What change streams may still look up: everything after retainAfter.
Expected ==
  UNION {{c \in OfBranch(streams[t].branch) :
            RecordAt(c).sequence > streams[t].retainAfter} :
         t \in {u \in Streams : streams[u].state \in {"replaying", "live"}}}

\* The last keepAtLeast commits of a branch.
Recent(b) ==
  {c \in OfBranch(b) :
     Cardinality({d \in OfBranch(b) :
                    \/ RecordAt(d).sequence > RecordAt(c).sequence
                    \/ RecordAt(d).sequence = RecordAt(c).sequence /\ commits[d] < commits[c]})
       < KeepAtLeast}

\* retainedCommitIds: no commit is young enough to be kept for its age.
RetainedCommitIds ==
  {c \in DOMAIN commits :
     \/ \E b \in Branches :
          Exists(b) /\ c \in {branches[b].head, branches[b].base} \union Recent(b)
     \/ \E n \in Names : retains[n] = c
     \/ c \in SnapshotPins \union Expected}

\* historyFloorsFor: from the head down to the first sequence not retained.
HistoryFloorsFor(retained) ==
  [b \in Branches |->
     LET kept == {RecordAt(c).sequence : c \in OfBranch(b) \intersect retained}
     IN Max({0} \union {n \in 0..branches[b].sequence : n \notin kept})]

\* A set as a sequence, each after those that come before it.
Arranged(set, before) ==
  LET place == [x \in set |-> 1 + Cardinality({y \in set : <<y, x>> \in before})]
  IN [i \in 1..Cardinality(set) |-> CHOOSE x \in set : place[x] = i]

\* copyRootsTo: each retained tree once.
CopiedPages(retained) ==
  LET trees == {RecordAt(c).tree : c \in retained} \ {0}
  IN Arranged(trees, {p \in trees \X trees : p[1] < p[2]})

\* The retained commits in the order of the log, with their trees where they are now.
CopiedCommits(retained, pages) ==
  LET kept == Arranged(retained, {p \in retained \X retained : commits[p[1]] < commits[p[2]]})
  IN [i \in DOMAIN kept |->
        LET old == RecordAt(kept[i]) IN
        CommitRecord(old.id, old.branch, old.sequence,
                     IF old.tree = 0 THEN 0 ELSE CHOOSE k \in DOMAIN pages : pages[k] = old.tree)]

\* The refs of one branch after the other: its base, then its retained commits.
CopiedRefs(retained) ==
  LET live == {b \in Branches : Exists(b)}
      order == SetToSeq(live)
      place == [b \in live |-> CHOOSE i \in DOMAIN order : order[i] = b]
      refs == {RefRecord("create", b, branches[b].base, 0) : b \in live}
              \union {RefRecord("commit", RecordAt(c).branch, c, RecordAt(c).sequence) :
                        c \in {d \in retained : RecordAt(d).sequence > 0
                                                /\ RecordAt(d).branch \in live}}
      Before(r, q) ==
        \/ place[r.branch] < place[q.branch]
        \/ /\ r.branch = q.branch
           /\ \/ r.sequence < q.sequence
              \/ r.sequence = q.sequence /\ commits[r.head] < commits[q.head]
  IN Arranged(refs, {p \in refs \X refs : Before(p[1], p[2])})

\* The next generation's records.
Copy(retained, low) ==
  LET pages == CopiedPages(retained)
  IN [i \in DOMAIN pages |-> File[pages[i]]] \o CopiedCommits(retained, pages)
     \o CopiedRefs(retained) \o <<MetaRecord(retains, low)>>

\* collectGarbage(): a place in the write queue and a barrier.
CollectGarbage ==
  /\ state = "open" /\ barrier < MaxCollections
  /\ Cardinality(Written) + barrier - collected <= MaxCollections
  /\ barrier' = barrier + 1
  /\ UNCHANGED <<diskVars, state, memoryVars, job, collected, readers, streams,
                 historyVars, faultVars>>

\* Callers that waited for the previous collection go on before this one has
\* read its first commit.
Overdue ==
  \/ \E r \in Readers : readers[r].state = "waiting" /\ readers[r].awaits <= collected
  \/ \E t \in Streams : streams[t].state = "waiting" /\ streams[t].awaits <= collected

CollectionTurn == MyTurn /\ collected < barrier

\* collectGarbageNow up to its copying: what to keep.
StartCollection ==
  LET retained == RetainedCommitIds
      low == HistoryFloorsFor(retained)
  IN
  /\ CollectionTurn /\ ~Overdue
  /\ job' = [kind |-> "collect", retained |-> retained, floors |-> low,
             file |-> Copy(retained, low)]
  /\ UNCHANGED <<diskVars, state, memoryVars, gcVars, readers, streams, historyVars, faultVars>>

\* Mutant: a failed collection never lets its waiters go.
FailsSilently ==
  /\ job.kind = "collect"
  /\ job' = NoJob
  /\ UNCHANGED <<diskVars, state, memoryVars, gcVars, readers, streams,
                 historyVars, faultVars>>

\* Copying, the sync or the rename fails: the new file is removed again.
CollectionFails ==
  /\ job.kind = "collect"
  /\ job' = NoJob /\ collected' = collected + 1
  /\ UNCHANGED <<diskVars, state, memoryVars, barrier, readers, streams,
                 historyVars, faultVars>>

\* The new file is complete and synced and takes the name; memory follows.
InstallGeneration ==
  LET next == 1 + Cardinality(Written)
      position(c) == CHOOSE i \in DOMAIN job.file :
                       job.file[i].type = "commit" /\ job.file[i].id = c
  IN
  /\ job.kind = "collect"
  /\ gens' = [gens EXCEPT ![next] =
       [NewFile EXCEPT !.file = job.file, !.synced = Len(job.file)]]
  /\ path' = path \union {next} /\ current' = next
  /\ commits' = [c \in job.retained |-> position(c)]
  /\ floors' = job.floors
  /\ job' = [kind |-> "install", previous |-> current]
  /\ UNCHANGED <<checkpoint, state, branches, retains, gcVars, readers, streams,
                 historyVars, faultVars>>

\* The previous generation is retired and gives up its own lease.
Retire ==
  gens' = [gens EXCEPT ![job.previous] =
    [@ EXCEPT !.retired = TRUE, !.leases = gens[job.previous].leases - 1,
              !.closed = gens[job.previous].leases = 1]]

\* The rename is on the disk: the collection ends.
CollectionDone ==
  /\ job.kind = "install"
  /\ Retire /\ path' = {current}
  /\ job' = NoJob /\ collected' = collected + 1
  /\ UNCHANGED <<checkpoint, state, memoryVars, barrier, readers, streams,
                 historyVars, faultVars>>

\* syncParentDirectory fails: the caller sees an error, the new file stays in
\* use, and which file the name leads to after a crash is open.
DirectorySyncFails ==
  /\ job.kind = "install" /\ syncFaults < MaxSyncFaults
  /\ syncFaults' = syncFaults + 1
  /\ job' = NoJob /\ collected' = collected + 1
  /\ UNCHANGED <<diskVars, state, memoryVars, barrier, readers, streams,
                 historyVars, crashes, writeFaults>>

-----------------------------------------------------------------------------
(* Closing and crashing. *)

\* What is left of a process: its open files and callers.
Ended ==
  /\ job' = NoJob /\ collected' = 0 /\ barrier' = 0
  /\ readers' = [r \in Readers |-> NoReader] /\ streams' = [t \in Streams |-> NoStream]
  /\ commits' = <<>> /\ branches' = NoBranches /\ retains' = NoRetains /\ floors' = NoFloors
  /\ UNCHANGED <<current, content, acked, promised>>

\* close(): from here on operations reject, those queued before are awaited.
Close ==
  /\ state = "open"
  /\ state' = "closing"
  /\ UNCHANGED <<diskVars, memoryVars, job, gcVars, readers, streams, historyVars, faultVars>>

\* checkpoint(), then every generation is closed.
CloseEnds ==
  /\ state = "closing" /\ job = NoJob
  /\ state' = "down"
  /\ Synced
  /\ checkpoint' \in {checkpoint} \union Sidecars(commits, branches)
  /\ Ended
  /\ UNCHANGED <<path, faultVars>>

\* The process dies or the power fails: what was synced is there, and of the
\* rest a prefix, with Garbling some of it without its payload.
Crash ==
  /\ state # "down" /\ state # "corrupt" /\ crashes < MaxCrashes
  /\ crashes' = crashes + 1
  /\ state' = "down"
  /\ \E keep \in gens[current].synced..Len(File), torn \in BOOLEAN :
       \E holes \in IF Garbling THEN SUBSET ((gens[current].synced + 1)..keep) ELSE {{}} :
         LET kept == [i \in 1..keep |-> IF i \in holes THEN Garbled(File[i]) ELSE File[i]]
         IN gens' = [gens EXCEPT ![current].file =
                       IF torn /\ keep < Len(File) THEN Append(kept, Torn) ELSE kept]
  /\ Ended
  /\ UNCHANGED <<path, checkpoint, syncFaults, writeFaults>>

-----------------------------------------------------------------------------
Operation ==
  \/ Open \/ Close
  \/ \E b \in Branches : Commit(b) \/ CreateBranch(b)
  \/ \E name \in Names : Retain(name) \/ RetainAgain(name) \/ ReleaseRetention(name)
  \/ \E r \in Readers : CallSnapshot(r) \/ CloseSnapshot(r)
  \/ \E t \in Streams :
       \/ \E b \in Branches, after \in Sequences : CallChanges(t, b, after)
       \/ EndStream(t)
  \/ CollectGarbage

Fault == SyncFails \/ AppendFails \/ CollectionFails \/ DirectorySyncFails \/ Crash

\* What the engine does on its own.
Progress ==
  \/ SyncDone \/ StartCollection \/ InstallGeneration \/ CollectionDone \/ CloseEnds
  \/ \E r \in Readers : Snapshot(r)
  \/ \E t \in Streams : Subscribe(t) \/ Replay(t) \/ Replayed(t) \/ Deliver(t)

Next == Operation \/ Fault \/ Progress

Spec == Init /\ [][Next]_vars

\* The queue is first in, first out, so a collection's turn comes; the rest is
\* the engine's own work, which nothing but a fault or the caller's silence stops.
FairSpec ==
  /\ Spec
  /\ WF_vars(SyncDone \/ InstallGeneration \/ CollectionDone \/ CloseEnds)
  /\ SF_vars(StartCollection)
  /\ \A r \in Readers : WF_vars(Snapshot(r))
  /\ \A t \in Streams : WF_vars(Subscribe(t))

-----------------------------------------------------------------------------
(* What the engine promises. *)

\* What reading a tree out of a file gives: the page written there, none for an
\* empty tree, or an error.
Unreadable == -1
Reading(g, tree) ==
  IF tree = 0 THEN NONE
  ELSE IF Readable(gens[g].file, tree) /\ ~gens[g].closed THEN gens[g].file[tree].id
  ELSE Unreadable

\* A commit that was acknowledged is never lost: whatever crashed since, its
\* branch is at least as far, and unless the history up to it was collected the
\* engine still knows it (commitNow's sync before its answer; recover and load).
NoAckedLost ==
  state = "open" =>
    \A a \in acked :
      /\ branches[a.branch].sequence >= a.sequence
      /\ a.sequence > floors[a.branch] => a.id \in DOMAIN commits

\* So it is as long as no append failed part way and the process went on.
AckedSurvive == writeFaults = 0 => NoAckedLost

\* Whatever a crash leaves, the file opens (recover, load).
RecoveryOpens == state # "corrupt"

\* Every commit the engine knows, by whatever recovery, checkpoint or collection
\* it got there, is the one of that name and has the tree it was written with; an
\* append that failed part way moves what comes after it.
Integrity ==
  state = "open" /\ writeFaults = 0 =>
    \A c \in DOMAIN commits :
      /\ commits[c] \in DOMAIN File /\ RecordAt(c).type = "commit" /\ RecordAt(c).id = c
      /\ Reading(current, RecordAt(c).tree) = content[c]

\* An open snapshot reads its commit's rows from a file that is still open, and
\* its commit is not collected (releaseGeneration, #snapshotPins).
SnapshotsStable ==
  \A r \in Readers :
    readers[r].state = "open" /\ state = "open" =>
      /\ readers[r].commit \in DOMAIN commits
      /\ Reading(readers[r].gen, readers[r].tree) = content[readers[r].commit]

\* A retention that was answered holds until it is released, across crashes:
\* the engine knows the name, and the commit is there (retain, writeMetadata,
\* retainedCommitIds).
RetainsDurable ==
  state = "open" =>
    \A n \in Names :
      promised[n] # NONE => retains[n] = promised[n] /\ promised[n] \in DOMAIN commits

\* Every branch's head and base are there, and above its floor every sequence
\* has its commit, so changes() can replay all it does not reject
\* (historyFloorsFor, retainedCommitIds).
NoHoleAboveFloor ==
  state = "open" =>
    \A b \in Branches :
      Exists(b) =>
        /\ {branches[b].head, branches[b].base} \subseteq DOMAIN commits
        /\ \A n \in (floors[b] + 1)..branches[b].sequence :
             \E c \in OfBranch(b) : RecordAt(c).sequence = n

\* A stream that changes() admitted is never told that the history is gone,
\* whatever is collected meanwhile (the subscriber's retainAfter).
StreamsNeverLost == \A t \in Streams : streams[t].state # "lost"

\* A stream yields one sequence after the other: none twice, none left out,
\* replayed or live (readChanges, commitNow).
InOrderWithoutGaps ==
  [][\A t \in Streams :
       LET s == streams[t]
           yields == s'.at # s.at \/ Len(s'.queue) < Len(s.queue)
       IN s.state \in {"replaying", "live"} /\ s'.state # "idle" =>
            s'.retainAfter = s.retainAfter + (IF yields THEN 1 ELSE 0)]_vars

\* A file is closed once its last snapshot is: nothing keeps a retired
\* generation but those who read it (releaseGeneration).
NoStrandedGeneration ==
  \A g \in Generations :
    state = "open" /\ gens[g].retired /\ ~gens[g].closed =>
      \/ \E r \in Readers : readers[r].state = "open" /\ readers[r].gen = g
      \/ \E t \in Streams : streams[t].state = "replaying" /\ streams[t].gen = g

\* What was answered holds: commits and retentions.
AnswersHold == AckedSurvive /\ RetainsDurable

\* What is there can be opened, named and read, by whatever way it came there.
HistoryWhole == RecoveryOpens /\ Integrity /\ NoHoleAboveFloor

\* A file stays open as long as it is read, and no longer.
GenerationsHeld == SnapshotsStable /\ NoStrandedGeneration

\* Streams go on to the next commit, and are never cut off.
StreamsWhole == []StreamsNeverLost /\ InOrderWithoutGaps

\* snapshot() waits for a collection, and no longer: the collection ends, failed
\* or not, and every caller it held up goes on (the collection barrier).
SnapshotsProceed ==
  \A r \in Readers :
    readers[r].state = "waiting" /\ state = "open" ~>
      readers[r].state # "waiting" \/ state # "open"
=============================================================================

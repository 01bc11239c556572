--------------------------- MODULE FileStorageProofs ---------------------------
(***************************************************************************)
(* FileStorage keeps what it promises, for any branches, readers and       *)
(* streams and under any crashes, failed syncs and collections: the file   *)
(* opens again, every commit reads what it was written with, history has   *)
(* no hole above the floors, and a generation is open as long as it is     *)
(* read.  An append that fails part way moves what comes after it, so all  *)
(* of it is said as long as none did.                                      *)
(*                                                                         *)
(* What is inductive is said of any file: every record is whole and allows *)
(* only what the records before it do, every ref leads to a commit that is *)
(* there, above the floor without a hole, and what is known of a file,     *)
(* by memory or by the checkpoint, agrees with its records.  Recovery then *)
(* starts from either and ends with the same knowledge.                    *)
(***************************************************************************)
EXTENDS FileStorage, FiniteSetTheorems, SequenceTheorems, TLAPS

-----------------------------------------------------------------------------
(* What the state is made of. *)

Record ==
  [type : {"page"}, id : Ids \union {NONE}]
    \union [type : {"commit"}, id : Ids, branch : Branches, sequence : Nat, tree : Nat]
    \union [type : {"ref"}, operation : {"create", "commit"}, branch : Branches,
            head : Ids, sequence : Nat]
    \union [type : {"meta"}, retains : [Names -> Ids \union {NONE}], floors : [Branches -> Nat]]
    \union [type : {"torn"}]
Generation ==
  [file : Seq(Record), synced : Nat, leases : Nat, retired : BOOLEAN, closed : BOOLEAN]
Branch == [head : Ids \union {NONE}, sequence : Nat, base : Ids \union {NONE}]
Heads == {heads \in [Branches -> Branch] :
            \A b \in Branches : heads[b].head = NONE => heads[b] = NoBranch}
Reader ==
  [state : {"idle", "waiting", "open"}, awaits : Nat, commit : Ids \union {NONE},
   gen : Nat, tree : Nat]
Stream ==
  [state : {"idle", "waiting", "replaying", "live", "lost"}, branch : Branches, gen : Nat,
   at : Nat, awaits : Nat, from : Nat, retainAfter : Nat, through : Nat, after : Nat,
   queue : Seq(Nat)]

-----------------------------------------------------------------------------
(* What a file holds. *)

\* The floors a file is about: its metadata names no others.
LowOf(f) ==
  IF \E i \in DOMAIN f : f[i].type = "meta"
  THEN f[CHOOSE i \in DOMAIN f : f[i].type = "meta"].floors ELSE NoFloors

\* The records that count: all but one cut short.
Length(f) == IF f # <<>> /\ f[Len(f)].type = "torn" THEN Len(f) - 1 ELSE Len(f)

\* A tree below n is empty, or the page.
TreeSound(f, n, tree, page) ==
  IF tree = 0 THEN page = NONE
  ELSE tree \in 1..n /\ f[tree].type = "page" /\ f[tree].id = page

\* A record is whole and says what the records before it allow.
RecordSound(f, i, pages, low) ==
  /\ f[i].type # "torn"
  /\ f[i].type = "commit" =>
       /\ f[i].id \in DOMAIN pages /\ TreeSound(f, i - 1, f[i].tree, pages[f[i].id])
       /\ \A j \in 1..(i - 1) : f[j].type = "commit" => f[j].id # f[i].id
  /\ f[i].type = "meta" => f[i].floors = low
  /\ f[i].type = "ref" =>
       \A j \in 1..(i - 1) :
         f[j].type = "ref" /\ f[j].branch = f[i].branch => f[j].sequence <= f[i].sequence

\* The ref that published the commit at j, between j and n.
Published(f, j, n) ==
  f[j].sequence = 0
    \/ \E k \in (j + 1)..n : /\ f[k].type = "ref" /\ f[k].head = f[j].id
                             /\ f[k].branch = f[j].branch /\ f[k].sequence = f[j].sequence

Upto(i, synced) == IF i < synced THEN synced ELSE i

\* A ref behind start leads to a commit that is known or behind start too, and so are
\* the commits of its branch above the floor.
RefSound(f, i, synced, start, known, heads, low) ==
  f[i].type = "ref" =>
    /\ \/ f[i].head \in DOMAIN known
       \/ \E j \in (start + 1)..(i - 1) :
            f[j].type = "commit" /\ f[j].id = f[i].head /\ Published(f, j, Upto(i, synced))
    /\ \A n \in (low[f[i].branch] + 1)..f[i].sequence :
         \/ \E c \in DOMAIN known : f[known[c]].branch = f[i].branch /\ f[known[c]].sequence = n
         \/ \E j \in (start + 1)..Upto(i, synced) :
              /\ f[j].type = "commit" /\ f[j].branch = f[i].branch /\ f[j].sequence = n
              /\ Published(f, j, Upto(i, synced))
    /\ heads[f[i].branch].sequence <= f[i].sequence

FileSound(f, n, synced, pages, low) ==
  \A i \in 1..n : RecordSound(f, i, pages, low)
                  /\ RefSound(f, i, synced, 0, <<>>, NoBranches, low)

-----------------------------------------------------------------------------
(* What is known of a file that ends at n. *)

CommitsSound(f, n, known) ==
  \A c \in DOMAIN known :
    /\ known[c] \in 1..n /\ f[known[c]].type = "commit" /\ f[known[c]].id = c
    /\ Published(f, known[c], n)

HeadsSound(f, known, heads, low) ==
  \A b \in Branches :
    /\ heads[b].head # NONE =>
         /\ heads[b].head \in DOMAIN known /\ heads[b].base \in DOMAIN known
         /\ \A n \in (low[b] + 1)..heads[b].sequence :
              \E c \in DOMAIN known : f[known[c]].branch = b /\ f[known[c]].sequence = n
    /\ \A c \in DOMAIN known : f[known[c]].branch = b => f[known[c]].sequence <= heads[b].sequence

\* A ref nobody knows of is one whose sync failed.
RefsKnown(f, n, heads) ==
  \A i \in 1..n : f[i].type = "ref" =>
     f[i].sequence <= heads[f[i].branch].sequence
                        + (IF heads[f[i].branch].head = NONE THEN 0 ELSE 1)

View(f, n, known, heads, low) ==
  /\ heads \in Heads /\ heads # NoBranches
  /\ CommitsSound(f, n, known) /\ HeadsSound(f, known, heads, low) /\ RefsKnown(f, n, heads)

-----------------------------------------------------------------------------
(* The invariant. *)

Running == state \in {"opening", "open", "closing"}
Serving == state \in {"open", "closing"}

Types ==
  /\ gens \in [Generations -> Generation]
  /\ path \in SUBSET Generations /\ current \in Generations
  /\ state \in {"down", "opening", "open", "closing"}
  /\ branches \in Heads
  /\ retains \in [Names -> Ids \union {NONE}]
  /\ floors \in [Branches -> Nat]
  /\ readers \in [Readers -> Reader] /\ streams \in [Streams -> Stream]
  /\ barrier \in Nat /\ collected \in Nat
  /\ \E k \in 0..MaxCommits : content \in [1..k -> Ids \union {NONE}]

\* The files are numbered in the order they were written.
Numbered ==
  /\ \E k \in 0..(MaxCollections + 1) :
       /\ Written = 1..k
       /\ \A g \in path \union {current} : g <= k \/ g = 1
       /\ k > 1 \/ Serving => \A g \in path \union {current} : gens[g].synced > 0
  /\ checkpoint.gen = 0 \/ checkpoint.gen \in Written
  /\ Running => current \in path

\* The collections called for have files left to write.
Room ==
  /\ collected + (IF job.kind \in {"collect", "install"} THEN 1 ELSE 0) <= barrier
  /\ Cardinality(Written) + barrier
       <= MaxCollections + 1 + collected + (IF job.kind = "install" THEN 1 ELSE 0)

\* Without a process that serves nothing is under way.
Quiet ==
  ~Serving =>
    /\ barrier = 0 /\ collected = 0
    /\ job.kind = IF state = "opening" THEN "open" ELSE "idle"
    /\ \A r \in Readers : readers[r].state = "idle"
    /\ \A t \in Streams : streams[t].state = "idle"

ReadersOf(g) == {r \in Readers : readers[r].state = "open" /\ readers[r].gen = g}
StreamsOf(g) == {t \in Streams : streams[t].state = "replaying" /\ streams[t].gen = g}
Held(g) == Cardinality(ReadersOf(g)) + Cardinality(StreamsOf(g))

\* A lease for each reader, and one for the engine.
Leased ==
  Running =>
    /\ ~gens[current].retired
    /\ job.kind = "install" =>
         job.previous \in Generations \ {current} /\ ~gens[job.previous].retired
    /\ \A g \in Generations :
         IF gens[g].closed THEN gens[g].retired /\ Held(g) = 0
         ELSE /\ gens[g].leases = Held(g) + (IF gens[g].retired THEN 0 ELSE 1)
              /\ gens[g].leases > 0
    /\ \A r \in Readers : readers[r].state = "open" => readers[r].gen \in Written
    /\ \A t \in Streams : streams[t].state = "replaying" => streams[t].gen \in Written

FilesSound ==
  \A g \in path :
    LET f == gens[g].file IN
    /\ gens[g].synced <= Length(f)
    /\ FileSound(f, Length(f), gens[g].synced, content, LowOf(f))
    /\ LowOf(f) # NoFloors => \E i \in 1..gens[g].synced : f[i].type = "meta"
    /\ Running /\ g = current => Length(f) = Len(f)

CheckpointSound ==
  checkpoint.gen \in path =>
    LET f == gens[checkpoint.gen].file
        start == checkpoint.offset
    IN
    /\ start \in 1..gens[checkpoint.gen].synced
    /\ checkpoint.boundary = f[start]
    /\ checkpoint.retains \in [Names -> Ids \union {NONE}]
    /\ checkpoint.floors = LowOf(f)
    /\ View(f, start, checkpoint.commits, checkpoint.branches, checkpoint.floors)
    /\ \A i \in (start + 1)..Length(f) :
         RefSound(f, i, gens[checkpoint.gen].synced, start, checkpoint.commits,
                  checkpoint.branches, checkpoint.floors)

\* What memory holds beyond the checkpoint is behind it.
Behind(known, heads) ==
  checkpoint.gen = current =>
    /\ \A c \in DOMAIN known : known[c] <= checkpoint.offset => c \in DOMAIN checkpoint.commits
    /\ \A b \in Branches : checkpoint.branches[b].sequence <= heads[b].sequence

MemorySound ==
  Running /\ (state = "opening" => job.id = NONE) =>
    /\ floors = LowOf(File)
    /\ View(File, Len(File), commits, branches, floors)
    /\ Behind(commits, branches)

OpenSound ==
  job.kind = "open" /\ job.id # NONE =>
    /\ checkpoint.gen # current /\ floors = LowOf(File) /\ branches = NoBranches
    /\ job.at \in 1..(Len(File) - 1) /\ File[job.at].type = "commit" /\ File[job.at].id = job.id
    /\ File[job.at].branch = Main /\ File[job.at].sequence = 0
    /\ \A i \in DOMAIN File : File[i].type = "ref" => File[i].branch = Main /\ File[i].sequence = 0

CommitSound ==
  job.kind = "commit" =>
    /\ job.branch \in Branches /\ branches[job.branch].head # NONE
    /\ job.sequence = branches[job.branch].sequence + 1
    /\ job.at \in 1..(Len(File) - 1) /\ File[job.at].type = "commit" /\ File[job.at].id = job.id
    /\ File[job.at].branch = job.branch /\ File[job.at].sequence = job.sequence
    /\ Published(File, job.at, Len(File))
    /\ job.id \notin DOMAIN commits
    /\ checkpoint.gen = current => job.at > checkpoint.offset

\* Where these commits are in a file.
Places(f, set) ==
  [c \in set |-> CHOOSE i \in DOMAIN f : f[i].type = "commit" /\ f[i].id = c]

\* What a collection will put in place.
CollectSound ==
  job.kind = "collect" =>
    /\ job.retained \subseteq DOMAIN commits
    /\ job.floors \in [Branches -> Nat] /\ job.file \in Seq(Record) /\ Len(job.file) > 0
    /\ job.floors = LowOf(job.file) /\ \E i \in DOMAIN job.file : job.file[i].type = "meta"
    /\ FileSound(job.file, Len(job.file), Len(job.file), content, job.floors)
    /\ View(job.file, Len(job.file), Places(job.file, job.retained), branches, job.floors)
    /\ \A r \in Readers : readers[r].state = "open" => readers[r].commit \in job.retained

JobSound ==
  /\ job.kind \in {"idle", "open", "commit", "create", "retain", "release", "collect", "install"}
  /\ job.kind = "idle" => job = NoJob
  /\ job.kind = "open" => state = "opening"
  /\ job.kind = "create" =>
       job.branch \in Branches /\ branches[job.branch] = NoBranch /\ job.id \in DOMAIN commits
  /\ OpenSound /\ CommitSound /\ CollectSound
  /\ job.kind \in {"collect", "install"} =>
       /\ \A r \in Readers : readers[r].state = "waiting" => readers[r].awaits > collected
       /\ \A t \in Streams : streams[t].state = "waiting" => streams[t].awaits > collected

Snapshots ==
  \A r \in Readers :
    LET s == readers[r] IN
    s.state = "open" =>
      /\ s.commit \in DOMAIN commits
      /\ TreeSound(gens[s.gen].file, Len(gens[s.gen].file), s.tree, content[s.commit])
      /\ \A i \in DOMAIN gens[s.gen].file : gens[s.gen].file[i].type # "torn"

Sound ==
  /\ Types /\ Numbered /\ Room /\ Quiet /\ Leased
  /\ FilesSound /\ CheckpointSound /\ MemorySound /\ JobSound /\ Snapshots

\* An append that fails part way moves what comes after it: from there on nothing is said.
FileInv == writeFaults = 0 => Sound

(* The largest and the smallest of a bounded set of numbers. *)

\* A set of numbers has a least.
LEMMA SmallestIn ==
  ASSUME NEW T \in SUBSET Nat, T # {}
  PROVE  Min(T) \in T /\ \A y \in T : Min(T) <= y
<1>1. \E x \in T : \A y \in T : <<y, x>> \notin OpToRel(<, Nat)
  BY NatLessThanWellFounded, WFMin DEF OpToRel
<1>2. \A x, y \in Nat : <<y, x>> \notin OpToRel(<, Nat) => x <= y
  BY DEF OpToRel
<1>3. \E x \in T : \A y \in T : x <= y
  BY <1>1, <1>2
<1> QED BY <1>3, Zenon DEF Min

\* A bounded set of numbers has a greatest.
LEMMA LargestIn ==
  ASSUME NEW S \in SUBSET Nat, S # {}, NEW k \in Nat, \A y \in S : y <= k
  PROVE  Max(S) \in S /\ \A y \in S : y <= Max(S)
<1> DEFINE Bounds == {n \in Nat : \A y \in S : y <= n}
           m == Min(Bounds)
<1>1. m \in Bounds /\ \A n \in Bounds : m <= n
  <2>1. Bounds \in SUBSET Nat /\ k \in Bounds
    OBVIOUS
  <2> HIDE DEF Bounds
  <2> QED BY <2>1, SmallestIn
<1> HIDE DEF m
<1>2. m \in S
  <2> SUFFICES ASSUME m \notin S PROVE FALSE
    OBVIOUS
  <2>1. PICK y \in S : TRUE
    OBVIOUS
  <2>2. m > 0 /\ m - 1 \in Nat
    BY <1>1, <2>1
  <2>3. m - 1 \in Bounds
    BY <1>1, <2>2
  <2> QED BY <1>1, <2>2, <2>3
<1>3. \A y \in S : y <= m
  BY <1>1
<1>4. \E x \in S : \A y \in S : x >= y
  BY <1>2, <1>3
<1> QED BY <1>4, Zenon DEF Max

\* So has a set of indices.
LEMMA LargestBelow ==
  ASSUME NEW n \in Nat, NEW S \in SUBSET (0..n), S # {}
  PROVE  Max(S) \in S /\ \A y \in S : y <= Max(S)
<1>1. S \in SUBSET Nat /\ \A y \in S : y <= n
  OBVIOUS
<1> QED BY <1>1, LargestIn

(* Records. *)

\* What a record of each kind has.
LEMMA RecordKinds ==
  ASSUME NEW r \in Record
  PROVE  /\ r.type \in {"page", "commit", "ref", "meta", "torn"}
         /\ r.type = "page" => r.id \in Ids \union {NONE}
         /\ r.type = "commit" => /\ r.id \in Ids /\ r.branch \in Branches
                                 /\ r.sequence \in Nat /\ r.tree \in Nat
         /\ r.type = "ref" => /\ r.operation \in {"create", "commit"} /\ r.branch \in Branches
                              /\ r.head \in Ids /\ r.sequence \in Nat
         /\ r.type = "meta" => /\ r.retains \in [Names -> Ids \union {NONE}]
                               /\ r.floors \in [Branches -> Nat]
BY DEF Record

\* What the engine makes are records.
LEMMA RecordsMade ==
  /\ \A id \in Ids \union {NONE} : Page(id) \in Record
  /\ \A id \in Ids, b \in Branches, n, t \in Nat : CommitRecord(id, b, n, t) \in Record
  /\ \A op \in {"create", "commit"}, b \in Branches, id \in Ids, n \in Nat :
       RefRecord(op, b, id, n) \in Record
  /\ \A names \in [Names -> Ids \union {NONE}], low \in [Branches -> Nat] :
       MetaRecord(names, low) \in Record
  /\ Torn \in Record
BY DEF Record, Page, CommitRecord, RefRecord, MetaRecord, Torn

\* A file is a sequence of them.
LEMMA FileTyped ==
  ASSUME NEW f \in Seq(Record)
  PROVE  /\ Len(f) \in Nat /\ DOMAIN f = 1..Len(f)
         /\ \A i \in DOMAIN f : f[i] \in Record
OBVIOUS

\* All of a file counts, or all but its last record.
LEMMA LengthOf ==
  ASSUME NEW f \in Seq(Record)
  PROVE  /\ Length(f) \in 0..Len(f)
         /\ Len(f) <= Length(f) + 1
         /\ (\A i \in DOMAIN f : f[i].type # "torn") => Length(f) = Len(f)
         /\ Len(f) # Length(f) => f[Len(f)].type = "torn" /\ Len(f) = Length(f) + 1
<1>1. Len(f) \in Nat /\ DOMAIN f = 1..Len(f)
  OBVIOUS
<1>2. f # <<>> <=> Len(f) > 0
  BY EmptySeq
<1>3. CASE f # <<>> /\ f[Len(f)].type = "torn"
  <2>1. Length(f) = Len(f) - 1
    BY <1>3 DEF Length
  <2>2. Len(f) \in DOMAIN f
    BY <1>1, <1>2, <1>3
  <2>3. ~(\A i \in DOMAIN f : f[i].type # "torn")
    BY <1>3, <2>2
  <2>4. Len(f) >= 1
    BY <1>1, <2>2
  <2>5. Length(f) \in 0..Len(f) /\ Len(f) = Length(f) + 1
    BY <1>1, <2>1, <2>4
  <2> QED BY <1>3, <2>3, <2>5
<1>4. CASE ~(f # <<>> /\ f[Len(f)].type = "torn")
  <2>1. Length(f) = Len(f)
    BY <1>4 DEF Length
  <2> QED BY <1>1, <2>1
<1> QED BY <1>3, <1>4

\* An engine that knows nothing yet.
LEMMA NoBranchesAreHeads == NoBranches \in Heads /\ NoFloors \in [Branches -> Nat]
BY DEF NoBranches, NoBranch, Heads, Branch, NoFloors

(* The floors in a file. *)
\* The floors of a file are floors.
LEMMA LowTyped ==
  ASSUME NEW f \in Seq(Record)
  PROVE  LowOf(f) \in [Branches -> Nat]
<1>1. CASE \E i \in DOMAIN f : f[i].type = "meta"
  <2> DEFINE m == CHOOSE i \in DOMAIN f : f[i].type = "meta"
  <2>1. m \in DOMAIN f /\ f[m].type = "meta"
    BY <1>1
  <2> HIDE DEF m
  <2>2. f[m] \in Record
    BY <2>1, FileTyped
  <2>3. f[m].floors \in [Branches -> Nat]
    BY <2>1, <2>2, RecordKinds
  <2>4. LowOf(f) = f[m].floors
    BY <1>1 DEF LowOf, m
  <2> QED BY <2>3, <2>4
<1>2. CASE ~\E i \in DOMAIN f : f[i].type = "meta"
  BY <1>2, NoBranchesAreHeads DEF LowOf
<1> QED BY <1>1, <1>2

\* A file whose metadata agrees is about these floors.
LEMMA LowIs ==
  ASSUME NEW f \in Seq(Record), NEW low,
         \A i \in DOMAIN f : f[i].type = "meta" => f[i].floors = low,
         (\E i \in DOMAIN f : f[i].type = "meta") \/ low = NoFloors
  PROVE  LowOf(f) = low
<1>1. CASE \E i \in DOMAIN f : f[i].type = "meta"
  <2> DEFINE m == CHOOSE i \in DOMAIN f : f[i].type = "meta"
  <2>1. m \in DOMAIN f /\ f[m].type = "meta"
    BY <1>1
  <2>2. LowOf(f) = f[m].floors
    BY <1>1 DEF LowOf
  <2> QED BY <2>1, <2>2
<1>2. CASE ~\E i \in DOMAIN f : f[i].type = "meta"
  BY <1>2 DEF LowOf
<1> QED BY <1>1, <1>2

(* What holds of a file holds of one that agrees with it as far as it goes. *)

\* What is published stays so in a longer file.
LEMMA PublishedAgrees ==
  ASSUME NEW m \in Nat, NEW f, NEW g, \A i \in 1..m : g[i] = f[i],
         NEW j \in 1..m, NEW n \in 0..m, NEW k \in Nat, n <= k, Published(f, j, n)
  PROVE  Published(g, j, k)
<1>1. CASE f[j].sequence = 0
  BY <1>1 DEF Published
<1>2. CASE f[j].sequence # 0
  <2>1. PICK i \in (j + 1)..n : /\ f[i].type = "ref" /\ f[i].head = f[j].id
                               /\ f[i].branch = f[j].branch /\ f[i].sequence = f[j].sequence
    BY <1>2 DEF Published
  <2>2. i \in 1..m /\ i \in (j + 1)..k
    OBVIOUS
  <2>3. g[i] = f[i] /\ g[j] = f[j]
    BY <2>2
  <2> QED BY <2>1, <2>2, <2>3 DEF Published
<1> QED BY <1>1, <1>2

\* A record is sound wherever the records before it are the same.
LEMMA RecordAgrees ==
  ASSUME NEW i \in Nat, i >= 1, NEW f, NEW g, \A j \in 1..i : g[j] = f[j],
         NEW pages, NEW more, DOMAIN pages \subseteq DOMAIN more,
         \A id \in DOMAIN pages : more[id] = pages[id],
         NEW low, RecordSound(f, i, pages, low)
  PROVE  RecordSound(g, i, more, low)
<1>1. i \in 1..i /\ g[i] = f[i]
  OBVIOUS
<1>2. \A j \in 1..(i - 1) : g[j] = f[j]
  OBVIOUS
<1>3. ASSUME f[i].type = "commit"
      PROVE  f[i].id \in DOMAIN more /\ TreeSound(g, i - 1, f[i].tree, more[f[i].id])
  <2>1. f[i].id \in DOMAIN pages /\ TreeSound(f, i - 1, f[i].tree, pages[f[i].id])
    BY <1>3 DEF RecordSound
  <2> QED BY <2>1, <1>2 DEF TreeSound
<1> QED BY <1>1, <1>2, <1>3 DEF RecordSound

\* So is a ref, and the more is synced the more it may lead to.
LEMMA RefAgrees ==
  ASSUME NEW m \in Nat, NEW f, NEW g, \A j \in 1..m : g[j] = f[j],
         NEW i \in 1..m, NEW s \in 0..m, NEW t \in Nat, s <= t,
         NEW start \in Nat, NEW known, \A c \in DOMAIN known : known[c] \in 1..m,
         NEW heads, NEW low, RefSound(f, i, s, start, known, heads, low)
  PROVE  RefSound(g, i, t, start, known, heads, low)
<1> SUFFICES ASSUME f[i].type = "ref" PROVE RefSound(g, i, t, start, known, heads, low)
  BY DEF RefSound
<1>1. g[i] = f[i]
  OBVIOUS
<1> DEFINE u == Upto(i, s)
           v == Upto(i, t)
<1>2. u \in 0..m /\ v \in Nat /\ u <= v
  BY DEF Upto
<1>3. \A j \in 1..m : Published(f, j, u) => Published(g, j, v)
  BY <1>2, PublishedAgrees
<1>4. \/ f[i].head \in DOMAIN known
      \/ \E j \in (start + 1)..(i - 1) :
           f[j].type = "commit" /\ f[j].id = f[i].head /\ Published(f, j, u)
  BY DEF RefSound
<1>5. \A n \in (low[f[i].branch] + 1)..f[i].sequence :
         \/ \E c \in DOMAIN known : f[known[c]].branch = f[i].branch /\ f[known[c]].sequence = n
         \/ \E j \in (start + 1)..u :
              /\ f[j].type = "commit" /\ f[j].branch = f[i].branch /\ f[j].sequence = n
              /\ Published(f, j, u)
  BY DEF RefSound
<1>6. heads[f[i].branch].sequence <= f[i].sequence
  BY DEF RefSound
<1> HIDE DEF u, v
<1>7. \/ g[i].head \in DOMAIN known
      \/ \E j \in (start + 1)..(i - 1) :
           g[j].type = "commit" /\ g[j].id = g[i].head /\ Published(g, j, v)
  <2>1. CASE f[i].head \in DOMAIN known
    BY <2>1, <1>1
  <2>2. ASSUME NEW j \in (start + 1)..(i - 1),
               f[j].type = "commit", f[j].id = f[i].head, Published(f, j, u)
        PROVE  g[j].type = "commit" /\ g[j].id = g[i].head /\ Published(g, j, v)
    <3>1. j \in 1..m
      OBVIOUS
    <3> QED BY <2>2, <3>1, <1>1, <1>3
  <2> QED BY <1>4, <2>1, <2>2
<1>8. ASSUME NEW n \in (low[g[i].branch] + 1)..g[i].sequence
      PROVE  \/ \E c \in DOMAIN known : g[known[c]].branch = g[i].branch /\ g[known[c]].sequence = n
             \/ \E j \in (start + 1)..v :
                  /\ g[j].type = "commit" /\ g[j].branch = g[i].branch /\ g[j].sequence = n
                  /\ Published(g, j, v)
  <2>1. ASSUME NEW c \in DOMAIN known, f[known[c]].branch = f[i].branch, f[known[c]].sequence = n
        PROVE  g[known[c]].branch = g[i].branch /\ g[known[c]].sequence = n
    <3>1. g[known[c]] = f[known[c]]
      OBVIOUS
    <3> QED BY <2>1, <3>1, <1>1
  <2>2. ASSUME NEW j \in (start + 1)..u, f[j].type = "commit", f[j].branch = f[i].branch,
               f[j].sequence = n, Published(f, j, u)
        PROVE  /\ j \in (start + 1)..v
               /\ g[j].type = "commit" /\ g[j].branch = g[i].branch /\ g[j].sequence = n
               /\ Published(g, j, v)
    <3>1. j \in 1..m /\ j \in (start + 1)..v
      BY <1>2
    <3>2. g[j] = f[j]
      BY <3>1
    <3> QED BY <2>2, <3>1, <3>2, <1>1, <1>3
  <2> QED BY <1>1, <1>5, <2>1, <2>2
<1> QED BY <1>1, <1>6, <1>7, <1>8 DEF RefSound, v

\* So is what is known of a file.
LEMMA ViewAgrees ==
  ASSUME NEW m \in Nat, NEW f, NEW g, \A j \in 1..m : g[j] = f[j],
         NEW known, NEW heads, NEW low, View(f, m, known, heads, low)
  PROVE  View(g, m, known, heads, low)
<1>1. \A c \in DOMAIN known :
        known[c] \in 1..m /\ f[known[c]].type = "commit" /\ f[known[c]].id = c
        /\ Published(f, known[c], m)
  BY DEF View, CommitsSound
<1>2. \A c \in DOMAIN known : g[known[c]] = f[known[c]]
  BY <1>1
<1>3. CommitsSound(g, m, known)
  <2> SUFFICES ASSUME NEW c \in DOMAIN known
               PROVE  /\ known[c] \in 1..m /\ g[known[c]].type = "commit" /\ g[known[c]].id = c
                      /\ Published(g, known[c], m)
    BY DEF CommitsSound
  <2>1. m \in 0..m /\ m <= m
    OBVIOUS
  <2>2. Published(g, known[c], m)
    BY <2>1, <1>1, PublishedAgrees
  <2> QED BY <1>1, <1>2, <2>2
<1>4. HeadsSound(g, known, heads, low)
  BY <1>2 DEF View, HeadsSound
<1>5. RefsKnown(g, m, heads)
  BY DEF View, RefsKnown
<1> QED BY <1>3, <1>4, <1>5 DEF View

\* The first records of a sound file are sound.
LEMMA FileAgrees ==
  ASSUME NEW n \in Nat, NEW m \in 0..n, NEW f, NEW g, \A j \in 1..m : g[j] = f[j],
         NEW s \in 0..m, NEW t \in Nat, s <= t,
         NEW pages, NEW more, DOMAIN pages \subseteq DOMAIN more,
         \A id \in DOMAIN pages : more[id] = pages[id],
         NEW low, FileSound(f, n, s, pages, low)
  PROVE  FileSound(g, m, t, more, low)
<1> SUFFICES ASSUME NEW i \in 1..m
             PROVE  RecordSound(g, i, more, low) /\ RefSound(g, i, t, 0, <<>>, NoBranches, low)
  BY DEF FileSound
<1>1. RecordSound(f, i, pages, low) /\ RefSound(f, i, s, 0, <<>>, NoBranches, low)
  BY DEF FileSound
<1>0. m \in Nat /\ i \in Nat /\ i >= 1 /\ \A j \in 1..i : g[j] = f[j]
  OBVIOUS
<1>2. RecordSound(g, i, more, low)
  BY <1>0, <1>1, RecordAgrees
<1>3. 0 \in Nat /\ \A c \in DOMAIN <<>> : <<>>[c] \in 1..m
  OBVIOUS
<1>4. RefSound(g, i, t, 0, <<>>, NoBranches, low)
  BY <1>0, <1>1, <1>3, RefAgrees
<1> QED BY <1>2, <1>4

\* A sound file, record by record.
LEMMA FileSoundIs ==
  ASSUME NEW n \in Nat, NEW f, NEW s, NEW pages, NEW low, FileSound(f, n, s, pages, low),
         NEW i \in 1..n
  PROVE  RecordSound(f, i, pages, low) /\ RefSound(f, i, s, 0, <<>>, NoBranches, low)
BY DEF FileSound

\* A file cut off behind what is synced.
LEMMA Truncated ==
  ASSUME NEW f \in Seq(Record), NEW g \in Seq(Record), NEW s \in Nat,
         s <= Length(g), Length(g) <= Length(f), \A i \in 1..Length(g) : g[i] = f[i],
         NEW pages, FileSound(f, Length(f), s, pages, LowOf(f)),
         LowOf(f) # NoFloors => \E i \in 1..s : f[i].type = "meta"
  PROVE  /\ LowOf(g) = LowOf(f)
         /\ FileSound(g, Length(g), s, pages, LowOf(g))
         /\ LowOf(g) # NoFloors => \E i \in 1..s : g[i].type = "meta"
<1>1. /\ Length(f) \in Nat /\ Length(g) \in 0..Length(f) /\ Length(f) <= Len(f)
      /\ Length(g) <= Len(g) /\ Length(g) \in Nat /\ Len(g) \in Nat /\ DOMAIN g = 1..Len(g)
  BY LengthOf, FileTyped
<1>2. \A i \in DOMAIN g : g[i].type = "meta" => i \in 1..Length(g)
  <2> SUFFICES ASSUME NEW i \in DOMAIN g, g[i].type = "meta", i > Length(g) PROVE FALSE
    BY <1>1
  <2>1. Len(g) # Length(g) /\ i = Len(g)
    BY <1>1, LengthOf
  <2> QED BY <2>1, LengthOf
<1>3. \A i \in DOMAIN g : g[i].type = "meta" => g[i].floors = LowOf(f)
  <2> SUFFICES ASSUME NEW i \in DOMAIN g, g[i].type = "meta" PROVE g[i].floors = LowOf(f)
    OBVIOUS
  <2>1. i \in 1..Length(g) /\ i \in 1..Length(f)
    BY <1>1, <1>2
  <2>2. g[i] = f[i]
    BY <2>1
  <2>3. RecordSound(f, i, pages, LowOf(f))
    BY <1>1, <2>1, FileSoundIs
  <2> QED BY <2>2, <2>3 DEF RecordSound
<1>4. LowOf(f) # NoFloors => \E i \in 1..s : g[i].type = "meta" /\ i \in DOMAIN g
  BY <1>1
<1>5. LowOf(g) = LowOf(f)
  BY <1>3, <1>4, LowIs
<1>6. FileSound(g, Length(g), s, pages, LowOf(f))
  <2>1. s \in 0..Length(g) /\ s <= s
    BY <1>1
  <2> QED BY <1>1, <2>1, FileAgrees
<1> QED BY <1>4, <1>5, <1>6

\* A file that records are added to.
LEMMA Extended ==
  ASSUME NEW f \in Seq(Record), NEW g \in Seq(Record), Len(f) <= Len(g),
         Length(f) = Len(f), \A i \in 1..Len(f) : g[i] = f[i],
         NEW s \in 0..Len(f), NEW pages, NEW more, DOMAIN pages \subseteq DOMAIN more,
         \A id \in DOMAIN pages : more[id] = pages[id],
         NEW low, low = LowOf(f), FileSound(f, Len(f), s, pages, low),
         \A i \in (Len(f) + 1)..Len(g) :
           RecordSound(g, i, more, low) /\ RefSound(g, i, s, 0, <<>>, NoBranches, low)
  PROVE  FileSound(g, Len(g), s, more, low)
<1>1. Len(f) \in Nat /\ Len(g) \in Nat
  BY FileTyped
<1>2. FileSound(g, Len(f), s, more, low)
  <2>1. Len(f) \in 0..Len(f) /\ s \in Nat /\ s <= s
    BY <1>1
  <2> QED BY <1>1, <2>1, FileAgrees
<1> SUFFICES ASSUME NEW i \in 1..Len(g)
             PROVE  RecordSound(g, i, more, low) /\ RefSound(g, i, s, 0, <<>>, NoBranches, low)
  BY DEF FileSound
<1>3. i \in 1..Len(f) \/ i \in (Len(f) + 1)..Len(g)
  BY <1>1
<1> QED BY <1>1, <1>2, <1>3, FileSoundIs

\* A file that grew soundly is about the same floors.
LEMMA LowKept ==
  ASSUME NEW f \in Seq(Record), NEW g \in Seq(Record), Len(f) <= Len(g),
         \A i \in 1..Len(f) : g[i] = f[i],
         NEW s, NEW pages, FileSound(g, Len(g), s, pages, LowOf(f))
  PROVE  Length(g) = Len(g) /\ LowOf(g) = LowOf(f)
<1>1. Len(f) \in Nat /\ Len(g) \in Nat /\ DOMAIN f = 1..Len(f) /\ DOMAIN g = 1..Len(g)
  BY FileTyped
<1>4. \A i \in DOMAIN g : g[i].type # "torn" /\ (g[i].type = "meta" => g[i].floors = LowOf(f))
  BY <1>1, FileSoundIs DEF RecordSound
<1>5. (\E i \in DOMAIN g : g[i].type = "meta") \/ LowOf(f) = NoFloors
  <2>1. CASE \E i \in DOMAIN f : f[i].type = "meta"
    <3>1. PICK i \in DOMAIN f : f[i].type = "meta"
      BY <2>1
    <3>2. i \in DOMAIN g /\ g[i] = f[i]
      BY <1>1
    <3> QED BY <3>1, <3>2
  <2>2. CASE ~\E i \in DOMAIN f : f[i].type = "meta"
    BY <2>2 DEF LowOf
  <2> QED BY <2>1, <2>2
<1>6. LowOf(g) = LowOf(f)
  BY <1>4, <1>5, LowIs
<1>7. Length(g) = Len(g)
  BY <1>4, LengthOf
<1> QED BY <1>6, <1>7

\* Memory does not follow at once what is added to its file.
LEMMA ViewExtends ==
  ASSUME NEW n \in Nat, NEW m \in Nat, n <= m,
         NEW f, NEW g, \A i \in 1..n : g[i] = f[i],
         NEW known, NEW heads, NEW low, View(f, n, known, heads, low),
         \A i \in (n + 1)..m : g[i].type = "ref" =>
           g[i].sequence <= heads[g[i].branch].sequence
                              + (IF heads[g[i].branch].head = NONE THEN 0 ELSE 1)
  PROVE  View(g, m, known, heads, low)
<1>1. View(g, n, known, heads, low)
  BY ViewAgrees
<1>2. CommitsSound(g, m, known)
  <2> SUFFICES ASSUME NEW c \in DOMAIN known
               PROVE  /\ known[c] \in 1..m /\ g[known[c]].type = "commit" /\ g[known[c]].id = c
                      /\ Published(g, known[c], m)
    BY DEF CommitsSound
  <2>1. known[c] \in 1..n /\ g[known[c]].type = "commit" /\ g[known[c]].id = c
        /\ Published(g, known[c], n)
    BY <1>1 DEF View, CommitsSound
  <2>2. known[c] \in 1..m /\ n \in 0..m
    BY <2>1
  <2>3. Published(g, known[c], m)
    BY <2>1, <2>2, PublishedAgrees
  <2> QED BY <2>1, <2>2, <2>3
<1>3. RefsKnown(g, m, heads)
  <2> SUFFICES ASSUME NEW i \in 1..m, g[i].type = "ref"
               PROVE  g[i].sequence <= heads[g[i].branch].sequence
                              + (IF heads[g[i].branch].head = NONE THEN 0 ELSE 1)
    BY DEF RefsKnown
  <2>1. i \in 1..n \/ i \in (n + 1)..m
    OBVIOUS
  <2>2. RefsKnown(g, n, heads)
    BY <1>1 DEF View
  <2> QED BY <2>1, <2>2 DEF RefsKnown
<1> QED BY <1>1, <1>2, <1>3 DEF View

\* A map with one more key.
LEMMA WithIs ==
  ASSUME NEW map, NEW key, NEW value
  PROVE  /\ DOMAIN With(map, key, value) = DOMAIN map \union {key}
         /\ With(map, key, value)[key] = value
         /\ \A k \in DOMAIN map : k # key => With(map, key, value)[k] = map[k]
BY DEF With

\* Memory after a commit.
LEMMA ViewCommits ==
  ASSUME NEW n \in Nat, NEW f \in Seq(Record), Len(f) = n, NEW known, NEW heads,
         NEW low \in [Branches -> Nat], View(f, n, known, heads, low),
         NEW b \in Branches, heads[b].head # NONE, NEW id \in Ids, id \notin DOMAIN known,
         NEW at \in 1..n, f[at].type = "commit", f[at].id = id, f[at].branch = b,
         f[at].sequence = heads[b].sequence + 1, Published(f, at, n),
         NEW next \in Heads, \A x \in Branches : x # b => next[x] = heads[x],
         next[b].head = id, next[b].base = heads[b].base,
         next[b].sequence = heads[b].sequence + 1
  PROVE  View(f, n, With(known, id, at), next, low)
<1> DEFINE more == With(known, id, at)
<1>1. /\ DOMAIN more = DOMAIN known \union {id} /\ more[id] = at
      /\ \A c \in DOMAIN known : more[c] = known[c]
  BY DEF With
<1> HIDE DEF more
<1>2. heads \in [Branches -> Branch] /\ id # NONE
  BY DEF View, Heads, Ids, NONE
<1>3. \A x \in Branches : heads[x].sequence \in Nat /\ next[x].sequence \in Nat
  BY <1>2 DEF Heads, Branch
<1>4. next # NoBranches
  BY <1>2 DEF NoBranches, NoBranch
<1>5. CommitsSound(f, n, more)
  BY <1>1 DEF View, CommitsSound
<1>6. HeadsSound(f, more, next, low)
  <2> SUFFICES ASSUME NEW x \in Branches
      PROVE  /\ next[x].head # NONE =>
                  /\ next[x].head \in DOMAIN more /\ next[x].base \in DOMAIN more
                  /\ \A k \in (low[x] + 1)..next[x].sequence :
                       \E c \in DOMAIN more : f[more[c]].branch = x /\ f[more[c]].sequence = k
             /\ \A c \in DOMAIN more : f[more[c]].branch = x => f[more[c]].sequence <= next[x].sequence
    BY DEF HeadsSound
  <2>1. /\ heads[x].head # NONE =>
             /\ heads[x].head \in DOMAIN known /\ heads[x].base \in DOMAIN known
             /\ \A k \in (low[x] + 1)..heads[x].sequence :
                  \E c \in DOMAIN known : f[known[c]].branch = x /\ f[known[c]].sequence = k
        /\ \A c \in DOMAIN known : f[known[c]].branch = x => f[known[c]].sequence <= heads[x].sequence
    BY DEF View, HeadsSound
  <2>2. CASE x # b
    <3>1. next[x] = heads[x]
      BY <2>2
    <3>2. \A k : (\E c \in DOMAIN known : f[known[c]].branch = x /\ f[known[c]].sequence = k)
               => (\E c \in DOMAIN more : f[more[c]].branch = x /\ f[more[c]].sequence = k)
      BY <1>1
    <3>3. \A c \in DOMAIN more : f[more[c]].branch = x => c \in DOMAIN known
      BY <1>1, <2>2
    <3> QED BY <1>1, <2>1, <3>1, <3>2, <3>3
  <2>3. CASE x = b
    <3>1. next[b].head \in DOMAIN more /\ next[b].base \in DOMAIN more
      BY <1>1, <2>1, <2>3
    <3>2. ASSUME NEW k \in (low[b] + 1)..next[b].sequence
          PROVE  \E c \in DOMAIN more : f[more[c]].branch = b /\ f[more[c]].sequence = k
      <4>1. CASE k = heads[b].sequence + 1
        BY <1>1, <4>1
      <4>2. CASE k # heads[b].sequence + 1
        <5>1. k \in (low[b] + 1)..heads[b].sequence
          BY <1>3, <4>2
        <5>2. PICK c \in DOMAIN known : f[known[c]].branch = b /\ f[known[c]].sequence = k
          BY <2>1, <2>3, <5>1
        <5> QED BY <1>1, <5>2
      <4> QED BY <4>1, <4>2
    <3>3. ASSUME NEW c \in DOMAIN more, f[more[c]].branch = b
          PROVE  f[more[c]].sequence <= next[b].sequence
      <4>1. CASE c = id
        BY <1>1, <1>3, <4>1
      <4>2. CASE c # id
        <5>1. c \in DOMAIN known /\ more[c] = known[c]
          BY <1>1, <4>2
        <5>2. f[known[c]].sequence <= heads[b].sequence
          BY <2>1, <2>3, <3>3, <5>1
        <5>3. known[c] \in DOMAIN f /\ f[known[c]].type = "commit"
          BY <5>1, FileTyped DEF View, CommitsSound
        <5>4. f[known[c]] \in Record
          BY <5>3, FileTyped
        <5>5. f[known[c]].sequence \in Nat
          BY <5>3, <5>4, RecordKinds
        <5> QED BY <1>3, <5>1, <5>2, <5>5
      <4> QED BY <4>1, <4>2
    <3> QED BY <2>3, <3>1, <3>2, <3>3
  <2> QED BY <2>2, <2>3
<1>7. RefsKnown(f, n, next)
  <2> SUFFICES ASSUME NEW i \in 1..n, f[i].type = "ref"
               PROVE  f[i].sequence <= next[f[i].branch].sequence
                              + (IF next[f[i].branch].head = NONE THEN 0 ELSE 1)
    BY DEF RefsKnown
  <2>1. f[i].sequence <= heads[f[i].branch].sequence
                              + (IF heads[f[i].branch].head = NONE THEN 0 ELSE 1)
    BY DEF View, RefsKnown
  <2>2. f[i] \in Record
    BY FileTyped
  <2>3. f[i].branch \in Branches /\ f[i].sequence \in Nat
    BY <2>2, RecordKinds
  <2> QED BY <1>2, <1>3, <2>1, <2>3, SMTT(20)
<1> QED BY <1>4, <1>5, <1>6, <1>7 DEF View, more

\* Memory after a branch is created.
LEMMA ViewCreates ==
  ASSUME NEW n \in Nat, NEW f \in Seq(Record), Len(f) = n, NEW known, NEW heads,
         NEW low \in [Branches -> Nat], View(f, n, known, heads, low),
         NEW b \in Branches, heads[b] = NoBranch, NEW id \in Ids, id \in DOMAIN known,
         NEW next \in Heads, \A x \in Branches : x # b => next[x] = heads[x],
         next[b].head = id, next[b].base = id, next[b].sequence = 0
  PROVE  View(f, n, known, next, low)
<1>1. heads[b].sequence = 0 /\ heads[b].head = NONE /\ id # NONE
  BY DEF NoBranch, Ids, NONE
<1>2. next # NoBranches
  BY <1>1 DEF NoBranches, NoBranch
<1>3. CommitsSound(f, n, known)
  BY DEF View
<1>4. HeadsSound(f, known, next, low)
  <2> SUFFICES ASSUME NEW x \in Branches
      PROVE  /\ next[x].head # NONE =>
                  /\ next[x].head \in DOMAIN known /\ next[x].base \in DOMAIN known
                  /\ \A k \in (low[x] + 1)..next[x].sequence :
                       \E c \in DOMAIN known : f[known[c]].branch = x /\ f[known[c]].sequence = k
             /\ \A c \in DOMAIN known : f[known[c]].branch = x => f[known[c]].sequence <= next[x].sequence
    BY DEF HeadsSound
  <2>1. /\ heads[x].head # NONE =>
             /\ heads[x].head \in DOMAIN known /\ heads[x].base \in DOMAIN known
             /\ \A k \in (low[x] + 1)..heads[x].sequence :
                  \E c \in DOMAIN known : f[known[c]].branch = x /\ f[known[c]].sequence = k
        /\ \A c \in DOMAIN known : f[known[c]].branch = x => f[known[c]].sequence <= heads[x].sequence
    BY DEF View, HeadsSound
  <2>2. CASE x # b
    BY <2>1, <2>2
  <2>3. CASE x = b
    <3>1. low[b] \in Nat
      OBVIOUS
    <3>2. \A k \in (low[b] + 1)..0 : FALSE
      BY <3>1
    <3> QED BY <1>1, <2>1, <2>3, <3>2
  <2> QED BY <2>2, <2>3
<1>5. RefsKnown(f, n, next)
  <2> SUFFICES ASSUME NEW i \in 1..n, f[i].type = "ref"
               PROVE  f[i].sequence <= next[f[i].branch].sequence
                              + (IF next[f[i].branch].head = NONE THEN 0 ELSE 1)
    BY DEF RefsKnown
  <2>1. f[i].sequence <= heads[f[i].branch].sequence
                              + (IF heads[f[i].branch].head = NONE THEN 0 ELSE 1)
    BY DEF View, RefsKnown
  <2>2. f[i] \in Record
    BY FileTyped
  <2>3. f[i].branch \in Branches /\ f[i].sequence \in Nat
    BY <2>2, RecordKinds
  <2> QED BY <1>1, <2>1, <2>3
<1> QED BY <1>2, <1>3, <1>4, <1>5 DEF View

\* What recovery starts from: nothing, or a checkpoint.
Basis(f, n, s, start, known, heads, low) ==
  /\ start \in 0..n /\ heads \in Heads
  /\ CommitsSound(f, start, known) /\ HeadsSound(f, known, heads, low)
  /\ RefsKnown(f, start, heads)
  /\ \A i \in (start + 1)..n : RefSound(f, i, s, start, known, heads, low)

\* Without a checkpoint recovery starts from nothing.
LEMMA BlankBasis ==
  ASSUME NEW f, NEW n \in Nat, NEW s, NEW pages, NEW low \in [Branches -> Nat],
         FileSound(f, n, s, pages, low)
  PROVE  Basis(f, n, s, 0, <<>>, NoBranches, low)
<1>1. NoBranches \in Heads /\ \A b \in Branches : NoBranches[b].head = NONE
  BY NoBranchesAreHeads DEF NoBranches, NoBranch
<1>2. CommitsSound(f, 0, <<>>) /\ HeadsSound(f, <<>>, NoBranches, low)
  BY <1>1 DEF CommitsSound, HeadsSound
<1>3. RefsKnown(f, 0, NoBranches)
  BY DEF RefsKnown
<1>4. \A i \in (0 + 1)..n : RefSound(f, i, s, 0, <<>>, NoBranches, low)
  BY FileSoundIs
<1> QED BY <1>1, <1>2, <1>3, <1>4 DEF Basis

\* The branch after its refs.
LEMMA BranchAfterIs ==
  ASSUME NEW f \in Seq(Record), NEW refs \in SUBSET DOMAIN f,
         \A i \in refs : f[i].type = "ref",
         NEW known \in Branch, known.head = NONE => known = NoBranch
  PROVE  LET after == BranchAfter(f, refs, known) IN
         /\ after \in Branch /\ (after.head = NONE => after = NoBranch)
         /\ refs = {} => after = known
         /\ refs # {} =>
              /\ after.head # NONE
              /\ \E i \in refs : /\ after.head = f[i].head /\ after.sequence = f[i].sequence
                                 /\ \A j \in refs : j <= i
              /\ (known.base # NONE /\ after.base = known.base)
                   \/ \E i \in refs : after.base = f[i].head
<1> DEFINE after == BranchAfter(f, refs, known)
           creates == {i \in refs : f[i].operation = "create"}
<1>1. CASE refs = {}
  BY <1>1 DEF BranchAfter
<1>2. CASE refs # {}
  <2>1. Len(f) \in Nat /\ refs \in SUBSET (0..Len(f)) /\ refs \in SUBSET Nat
    BY FileTyped
  <2>2. Max(refs) \in refs /\ \A j \in refs : j <= Max(refs)
    BY <1>2, <2>1, LargestBelow
  <2>3. Min(refs) \in refs
    BY <1>2, <2>1, SmallestIn
  <2>4. creates # {} => Max(creates) \in creates
    <3>1. creates \in SUBSET (0..Len(f))
      BY <2>1
    <3> HIDE DEF creates
    <3> QED BY <2>1, <3>1, LargestBelow
  <2>5. \A i \in refs : f[i].head \in Ids /\ f[i].sequence \in Nat
    BY FileTyped, RecordKinds
  <2>6. after = [head |-> f[Max(refs)].head, sequence |-> f[Max(refs)].sequence,
                 base |-> IF creates # {} THEN f[Max(creates)].head
                          ELSE IF known.base # NONE THEN known.base ELSE f[Min(refs)].head]
    BY <1>2 DEF BranchAfter
  <2>7. creates \subseteq refs
    OBVIOUS
  <2> HIDE DEF after, creates
  <2>8. /\ after.head = f[Max(refs)].head /\ after.sequence = f[Max(refs)].sequence
        /\ after.base = IF creates # {} THEN f[Max(creates)].head
                        ELSE IF known.base # NONE THEN known.base ELSE f[Min(refs)].head
    BY <2>6
  <2>9. \/ known.base # NONE /\ after.base = known.base
        \/ \E i \in refs : after.base = f[i].head
    BY <2>3, <2>4, <2>7, <2>8
  <2>10. after \in Branch
    <3>1. known.base \in Ids \union {NONE}
      BY DEF Branch
    <3>2. after.base \in Ids \union {NONE}
      BY <2>5, <2>9, <3>1
    <3>3. after.head \in Ids /\ after.sequence \in Nat
      BY <2>2, <2>5, <2>8
    <3> HIDE DEF NONE
    <3> QED BY <2>6, <2>8, <3>2, <3>3 DEF Branch
  <2>11. after.head # NONE
    BY <2>2, <2>5, <2>8 DEF Ids, NONE
  <2> QED BY <1>2, <2>2, <2>8, <2>9, <2>10, <2>11 DEF after
<1> QED BY <1>1, <1>2

\* What is known from a place up to start was known there.
NewBehind(found, start, known) == \A c \in DOMAIN found : found[c] <= start => c \in DOMAIN known

\* What load() finds behind a sound start: the heads, their commits, and no hole above the floors.
LEMMA Loaded ==
  ASSUME NEW f \in Seq(Record), NEW n \in Nat, Len(f) = n, NEW s \in 0..n, NEW pages,
         FileSound(f, n, s, pages, LowOf(f)), NEW start \in 0..n, NEW first,
         Basis(f, n, s, start, first.commits, first.branches, LowOf(f)),
         NEW known, NEW heads, NEW mc, NEW mb,
         known = first.commits, heads = first.branches,
         mc = Load(f, start, first).commits, mb = Load(f, start, first).branches
  PROVE  /\ mb \in Heads
         /\ CommitsSound(f, n, mc) /\ HeadsSound(f, mc, mb, LowOf(f)) /\ RefsKnown(f, n, mb)
         /\ NewBehind(mc, start, known)
         /\ \A b \in Branches : heads[b].sequence <= mb[b].sequence
         /\ \A b \in Branches : heads[b].head # NONE => mb[b].head # NONE
         /\ \A i \in (start + 1)..n : f[i].type = "ref" => mb[f[i].branch].head # NONE
<1> DEFINE records == ReadBehind(f, start, "commit")
           refs == ReadBehind(f, start, "ref")
           published == DOMAIN known \union {f[i].head : i \in refs}
           RecordsOf(c) == {i \in records : f[i].id = c}
           D == (DOMAIN known \union {f[i].id : i \in records}) \intersect published
           RefsOf(b) == {i \in refs : f[i].branch = b}
           low == LowOf(f)
<1>1. mc = [c \in D |-> IF RecordsOf(c) = {} THEN known[c] ELSE Max(RecordsOf(c))]
  BY Zenon DEF Load
<1>2. mb = [b \in Branches |-> BranchAfter(f, RefsOf(b), heads[b])]
  BY Zenon DEF Load
<1>3. /\ records = {i \in (start + 1)..n : f[i].type = "commit"}
      /\ refs = {i \in (start + 1)..n : f[i].type = "ref"}
  BY DEF ReadBehind
<1> HIDE DEF records, refs
<1>4. DOMAIN f = 1..n /\ (\A i \in 1..n : f[i] \in Record) /\ low \in [Branches -> Nat]
  BY FileTyped, LowTyped
<1>5. /\ heads \in Heads /\ CommitsSound(f, start, known) /\ HeadsSound(f, known, heads, low)
      /\ RefsKnown(f, start, heads)
      /\ \A i \in (start + 1)..n : RefSound(f, i, s, start, known, heads, low)
  BY DEF Basis
<1> HIDE DEF low
<1>6. \A i \in 1..n : RecordSound(f, i, pages, LowOf(f))
  BY FileSoundIs
\* No commit has two records.
<1>7. \A c \in DOMAIN known : known[c] \in 1..start /\ f[known[c]].type = "commit" /\ f[known[c]].id = c
                              /\ Published(f, known[c], start)
  BY <1>5 DEF CommitsSound
<1>8. \A i, j \in 1..n : f[i].type = "commit" /\ f[j].type = "commit" /\ f[i].id = f[j].id => i = j
  <2> SUFFICES ASSUME NEW i \in 1..n, NEW j \in 1..n, i < j, f[i].type = "commit",
                      f[j].type = "commit", f[i].id = f[j].id
               PROVE  FALSE
    OBVIOUS
  <2>1. i \in 1..(j - 1)
    OBVIOUS
  <2> QED BY <1>6, <2>1 DEF RecordSound
<1>9. \A c \in DOMAIN known : RecordsOf(c) = {}
  BY <1>3, <1>7, <1>8
<1>10. ASSUME NEW j \in records
       PROVE  /\ j \in 1..n /\ f[j].type = "commit" /\ Max(RecordsOf(f[j].id)) = j
              /\ RecordsOf(f[j].id) # {} /\ f[j].id \notin DOMAIN known
  <2>1. j \in 1..n /\ f[j].type = "commit" /\ j \in RecordsOf(f[j].id)
    BY <1>3, <1>10
  <2>2. RecordsOf(f[j].id) \in SUBSET (0..n) /\ \A i \in RecordsOf(f[j].id) : i = j
    BY <1>3, <1>8, <2>1
  <2>3. Max(RecordsOf(f[j].id)) \in RecordsOf(f[j].id)
    BY <2>1, <2>2, LargestBelow
  <2>4. f[j].id \notin DOMAIN known
    BY <1>9, <2>1
  <2> QED BY <2>1, <2>2, <2>3, <2>4
<1>11. \A c \in D : \/ c \in DOMAIN known /\ mc[c] = known[c]
                    \/ /\ c \notin DOMAIN known
                       /\ \E j \in records : f[j].id = c /\ mc[c] = j
  <2> SUFFICES ASSUME NEW c \in D
               PROVE  \/ c \in DOMAIN known /\ mc[c] = known[c]
                      \/ c \notin DOMAIN known /\ \E j \in records : f[j].id = c /\ mc[c] = j
    OBVIOUS
  <2>1. mc[c] = IF RecordsOf(c) = {} THEN known[c] ELSE Max(RecordsOf(c))
    BY <1>1
  <2>2. CASE c \in DOMAIN known
    BY <1>9, <2>1, <2>2
  <2>3. CASE c \notin DOMAIN known
    <3>1. PICK j \in records : f[j].id = c
      BY <2>3
    <3> QED BY <1>10, <2>1, <2>3, <3>1, SMTT(20)
  <2> QED BY <2>2, <2>3
<1>12. DOMAIN mc = D
  BY <1>1
\* A ref behind leads to a commit that is loaded.
<1>13. ASSUME NEW i \in refs
       PROVE  /\ i \in (start + 1)..n /\ i \in 1..n /\ f[i].type = "ref"
              /\ f[i].branch \in Branches /\ f[i].sequence \in Nat
              /\ f[i].head \in D
              /\ f[i].head \in DOMAIN known \/ \E j \in records : f[j].id = f[i].head /\ Published(f, j, n)
  <2>1. i \in (start + 1)..n /\ i \in 1..n /\ f[i].type = "ref"
    BY <1>3, <1>13
  <2>2. f[i] \in Record
    BY <1>4, <2>1
  <2>3. f[i].branch \in Branches /\ f[i].sequence \in Nat
    BY <2>1, <2>2, RecordKinds
  <2>4. RefSound(f, i, s, start, known, heads, low)
    BY <1>5, <2>1
  <2>5. Upto(i, s) \in 0..n
    BY <2>1 DEF Upto
  <2>6. f[i].head \in DOMAIN known \/ \E j \in records : f[j].id = f[i].head /\ Published(f, j, n)
    <3>1. CASE f[i].head \in DOMAIN known
      BY <3>1
    <3>2. CASE f[i].head \notin DOMAIN known
      <4>1. PICK j \in (start + 1)..(i - 1) :
              f[j].type = "commit" /\ f[j].id = f[i].head /\ Published(f, j, Upto(i, s))
        BY <2>1, <2>4, <3>2 DEF RefSound
      <4>2. j \in records /\ j \in 1..n
        BY <1>3, <2>1, <4>1
      <4>3. Published(f, j, n)
        <5> DEFINE u == Upto(i, s)
        <5>1. u \in 0..n /\ u <= n /\ Published(f, j, u) /\ \A x \in 1..n : f[x] = f[x]
          BY <2>5, <4>1
        <5> HIDE DEF u
        <5> QED BY <4>2, <5>1, PublishedAgrees
      <4> QED BY <4>1, <4>2, <4>3
    <3> QED BY <3>1, <3>2
  <2>7. f[i].head \in D
    BY <1>13, <2>6
  <2> QED BY <2>1, <2>3, <2>6, <2>7
<1>14. CommitsSound(f, n, mc)
  <2> SUFFICES ASSUME NEW c \in D
               PROVE  /\ mc[c] \in 1..n /\ f[mc[c]].type = "commit" /\ f[mc[c]].id = c
                      /\ Published(f, mc[c], n)
    BY <1>12 DEF CommitsSound
  <2>1. CASE c \in DOMAIN known /\ mc[c] = known[c]
    <3>1. known[c] \in 1..n /\ start \in 0..n
      BY <1>7, <2>1
    <3>2. Published(f, known[c], n)
      <4>1. Published(f, known[c], start) /\ start <= n /\ \A x \in 1..n : f[x] = f[x]
        BY <1>7, <2>1
      <4> QED BY <3>1, <4>1, PublishedAgrees
    <3> QED BY <1>7, <2>1, <3>1, <3>2
  <2>2. CASE c \notin DOMAIN known
    <3>1. PICK j \in records : f[j].id = c /\ mc[c] = j
      BY <1>11, <2>2
    <3>2. PICK i \in refs : f[i].head = c
      BY <2>2
    <3>3. PICK k \in records : f[k].id = c /\ Published(f, k, n)
      BY <1>13, <2>2, <3>2
    <3>4. k = j
      BY <1>8, <1>10, <3>1, <3>3
    <3> QED BY <1>10, <3>1, <3>3, <3>4
  <2> QED BY <1>11, <2>1, <2>2
<1> DEFINE After(b) == mb[b]
<1>15. ASSUME NEW b \in Branches
       PROVE  /\ mb[b] \in Branch /\ (mb[b].head = NONE => mb[b] = NoBranch)
              /\ RefsOf(b) = {} => mb[b] = heads[b]
              /\ RefsOf(b) # {} =>
                   /\ mb[b].head # NONE
                   /\ \E i \in RefsOf(b) : /\ mb[b].head = f[i].head /\ mb[b].sequence = f[i].sequence
                                           /\ \A j \in RefsOf(b) : j <= i
                   /\ (heads[b].base # NONE /\ mb[b].base = heads[b].base)
                        \/ \E i \in RefsOf(b) : mb[b].base = f[i].head
  <2>1. mb[b] = BranchAfter(f, RefsOf(b), heads[b])
    BY <1>2
  <2>2. RefsOf(b) \in SUBSET DOMAIN f /\ \A i \in RefsOf(b) : f[i].type = "ref"
    BY <1>3, <1>4
  <2>3. heads[b] \in Branch /\ (heads[b].head = NONE => heads[b] = NoBranch)
    BY <1>5 DEF Heads
  <2> HIDE DEF RefsOf
  <2> QED BY <2>1, <2>2, <2>3, BranchAfterIs
<1>16. mb \in Heads
  BY <1>2, <1>15 DEF Heads
\* The last ref of a branch tells its sequence.
<1>17. ASSUME NEW i \in refs
       PROVE  f[i].sequence <= mb[f[i].branch].sequence /\ mb[f[i].branch].head # NONE
  <2>1. i \in RefsOf(f[i].branch) /\ f[i].branch \in Branches
    BY <1>13, <1>17
  <2>2. PICK j \in RefsOf(f[i].branch) :
          mb[f[i].branch].sequence = f[j].sequence /\ \A k \in RefsOf(f[i].branch) : k <= j
    BY <1>15, <2>1
  <2>3. i <= j /\ j \in refs /\ f[j].branch = f[i].branch
    BY <2>1, <2>2
  <2>4. i \in 1..n /\ j \in 1..n /\ f[i].type = "ref" /\ f[j].type = "ref"
        /\ f[i].sequence \in Nat /\ f[j].sequence \in Nat
    BY <1>13, <2>3
  <2>5. f[i].sequence <= f[j].sequence
    <3>1. CASE i = j
      BY <2>4, <3>1
    <3>2. CASE i # j
      <4>1. i \in 1..(j - 1)
        BY <2>3, <2>4, <3>2
      <4>2. RecordSound(f, j, pages, LowOf(f))
        BY <1>6, <2>4
      <4> QED BY <2>3, <2>4, <4>1, <4>2 DEF RecordSound
    <3> QED BY <3>1, <3>2
  <2> QED BY <1>15, <2>1, <2>2, <2>5
<1>18. \A b \in Branches : heads[b].sequence <= mb[b].sequence
                           /\ (heads[b].head # NONE => mb[b].head # NONE)
  <2> SUFFICES ASSUME NEW b \in Branches
               PROVE  heads[b].sequence <= mb[b].sequence /\ (heads[b].head # NONE => mb[b].head # NONE)
    OBVIOUS
  <2>0. heads[b].sequence \in Nat
    BY <1>5 DEF Heads, Branch
  <2>1. CASE RefsOf(b) = {}
    BY <1>15, <2>0, <2>1
  <2>2. CASE RefsOf(b) # {}
    <3>1. PICK i \in RefsOf(b) : mb[b].sequence = f[i].sequence
      BY <1>15, <2>2
    <3>2. i \in refs /\ f[i].branch = b
      BY <3>1
    <3>3. f[i].type = "ref" /\ i \in (start + 1)..n
      BY <1>13, <3>2
    <3>4. RefSound(f, i, s, start, known, heads, low)
      BY <1>5, <3>3
    <3>5. heads[b].sequence <= f[i].sequence
      BY <3>2, <3>3, <3>4 DEF RefSound
    <3> QED BY <1>15, <2>2, <3>1, <3>5
  <2> QED BY <2>1, <2>2
<1>19. \A c \in D : f[mc[c]].type = "commit" /\ mc[c] \in 1..n /\ f[mc[c]].id = c
                    /\ f[mc[c]].branch \in Branches /\ f[mc[c]].sequence \in Nat
  <2>1. \A c \in D : f[mc[c]].type = "commit" /\ mc[c] \in 1..n /\ f[mc[c]].id = c
    BY <1>12, <1>14 DEF CommitsSound
  <2> QED BY <1>4, <2>1, RecordKinds
<1>20. ASSUME NEW b \in Branches, NEW c \in D, f[mc[c]].branch = b
       PROVE  f[mc[c]].sequence <= mb[b].sequence
  <2>0. heads[b].sequence \in Nat /\ mb[b].sequence \in Nat
    BY <1>5, <1>16 DEF Heads, Branch
  <2>1. CASE c \in DOMAIN known /\ mc[c] = known[c]
    <3>1. f[known[c]].sequence <= heads[b].sequence
      BY <1>5, <1>20, <2>1 DEF HeadsSound
    <3> QED BY <1>18, <1>19, <2>0, <2>1, <3>1
  <2>2. CASE c \notin DOMAIN known
    <3>1. Published(f, mc[c], n)
      BY <1>12, <1>14 DEF CommitsSound
    <3>2. CASE f[mc[c]].sequence = 0
      BY <2>0, <3>2
    <3>3. CASE f[mc[c]].sequence # 0
      <4>1. PICK k \in (mc[c] + 1)..n :
              f[k].type = "ref" /\ f[k].branch = b /\ f[k].sequence = f[mc[c]].sequence
        BY <1>20, <3>1, <3>3 DEF Published
      <4>2. mc[c] \in records
        BY <1>11, <2>2
      <4>3. k \in refs
        BY <1>3, <4>1, <4>2
      <4> QED BY <1>17, <4>1, <4>3
    <3> QED BY <3>2, <3>3
  <2> QED BY <1>11, <2>1, <2>2
<1>21. HeadsSound(f, mc, mb, low)
  <2> SUFFICES ASSUME NEW b \in Branches, mb[b].head # NONE
      PROVE  /\ mb[b].head \in D /\ mb[b].base \in D
             /\ \A k \in (low[b] + 1)..mb[b].sequence :
                  \E c \in D : f[mc[c]].branch = b /\ f[mc[c]].sequence = k
    BY <1>12, <1>20 DEF HeadsSound
  <2>0. DOMAIN known \subseteq D /\ \A c \in DOMAIN known : mc[c] = known[c]
    <3>1. DOMAIN known \subseteq D
      OBVIOUS
    <3> QED BY <1>11, <3>1
  <2>1. heads[b].head # NONE =>
          /\ heads[b].head \in DOMAIN known /\ heads[b].base \in DOMAIN known
          /\ \A k \in (low[b] + 1)..heads[b].sequence :
               \E c \in DOMAIN known : f[known[c]].branch = b /\ f[known[c]].sequence = k
    BY <1>5 DEF HeadsSound
  <2>2. CASE RefsOf(b) = {}
    <3>1. mb[b] = heads[b]
      BY <1>15, <2>2
    <3>2. mb[b].head \in D /\ mb[b].base \in D
      BY <2>0, <2>1, <3>1
    <3>3. ASSUME NEW k \in (low[b] + 1)..mb[b].sequence
          PROVE  \E c \in D : f[mc[c]].branch = b /\ f[mc[c]].sequence = k
      <4>1. PICK c \in DOMAIN known : f[known[c]].branch = b /\ f[known[c]].sequence = k
        BY <2>1, <3>1
      <4> QED BY <2>0, <4>1
    <3> QED BY <3>2, <3>3
  <2>3. CASE RefsOf(b) # {}
    <3>1. PICK i \in RefsOf(b) : mb[b].head = f[i].head /\ mb[b].sequence = f[i].sequence
      BY <1>15, <2>3
    <3>2. i \in refs /\ f[i].branch = b
      BY <3>1
    <3>3. mb[b].head \in D
      BY <1>13, <3>1, <3>2
    <3>4. mb[b].base \in D
      <4>1. CASE heads[b].base # NONE /\ mb[b].base = heads[b].base
        <5>1. heads[b].head # NONE
          <6>1. NoBranch.base = NONE
            BY DEF NoBranch
          <6> QED BY <1>5, <4>1, <6>1 DEF Heads
        <5> QED BY <2>0, <2>1, <4>1, <5>1
      <4>2. CASE \E j \in RefsOf(b) : mb[b].base = f[j].head
        BY <1>13, <4>2
      <4> QED BY <1>15, <2>3, <4>1, <4>2
    <3>5. ASSUME NEW k \in (low[b] + 1)..f[i].sequence
          PROVE  \E c \in D : f[mc[c]].branch = b /\ f[mc[c]].sequence = k
      <4>1. i \in (start + 1)..n /\ i \in 1..n /\ f[i].type = "ref"
        BY <1>13, <3>2
      <4>2. RefSound(f, i, s, start, known, heads, low)
        BY <1>5, <4>1
      <4>3. \/ \E c \in DOMAIN known : f[known[c]].branch = b /\ f[known[c]].sequence = k
            \/ \E j \in (start + 1)..Upto(i, s) :
                 /\ f[j].type = "commit" /\ f[j].branch = b /\ f[j].sequence = k
                 /\ Published(f, j, Upto(i, s))
        BY <3>2, <4>1, <4>2 DEF RefSound
      <4>4. CASE \E c \in DOMAIN known : f[known[c]].branch = b /\ f[known[c]].sequence = k
        BY <2>0, <4>4
      <4>5. ASSUME NEW j \in (start + 1)..Upto(i, s),
                   f[j].type = "commit", f[j].branch = b, f[j].sequence = k,
                   Published(f, j, Upto(i, s))
            PROVE  \E c \in D : f[mc[c]].branch = b /\ f[mc[c]].sequence = k
        <5>1. Upto(i, s) \in 0..n
          BY <4>1 DEF Upto
        <5>2. j \in records /\ j \in 1..n /\ k # 0
          <6>1. low[b] \in Nat
            BY <1>4
          <6> QED BY <1>3, <4>5, <5>1, <6>1
        <5>3. PICK x \in (j + 1)..Upto(i, s) : f[x].type = "ref" /\ f[x].head = f[j].id
          BY <4>5, <5>2 DEF Published
        <5>4. x \in refs
          BY <1>3, <5>1, <5>2, <5>3
        <5>5. f[j].id \in D /\ f[j].id \notin DOMAIN known
          BY <1>10, <1>13, <5>2, <5>3, <5>4
        <5>6. mc[f[j].id] = j
          <6>1. PICK y \in records : f[y].id = f[j].id /\ mc[f[j].id] = y
            BY <1>11, <5>5
          <6>2. y \in 1..n /\ f[y].type = "commit"
            BY <1>10
          <6> QED BY <1>8, <4>5, <5>2, <6>1, <6>2
        <5> QED BY <4>5, <5>5, <5>6
      <4> QED BY <4>3, <4>4, <4>5
    <3> QED BY <3>1, <3>3, <3>4, <3>5
  <2> QED BY <2>2, <2>3
<1>22. RefsKnown(f, n, mb)
  <2> SUFFICES ASSUME NEW i \in 1..n, f[i].type = "ref"
               PROVE  f[i].sequence <= mb[f[i].branch].sequence
                              + (IF mb[f[i].branch].head = NONE THEN 0 ELSE 1)
    BY DEF RefsKnown
  <2>0. f[i].branch \in Branches /\ f[i].sequence \in Nat
    BY <1>4, RecordKinds
  <2>1. heads[f[i].branch].sequence \in Nat /\ mb[f[i].branch].sequence \in Nat
    BY <1>5, <1>16, <2>0 DEF Heads, Branch
  <2>2. CASE i <= start
    <3>1. f[i].sequence <= heads[f[i].branch].sequence
                              + (IF heads[f[i].branch].head = NONE THEN 0 ELSE 1)
      BY <1>5, <2>2 DEF RefsKnown
    <3> QED BY <1>18, <2>0, <2>1, <3>1, SMTT(20)
  <2>3. CASE i > start
    <3>1. i \in refs
      BY <1>3, <2>3
    <3> QED BY <1>17, <2>0, <2>1, <3>1
  <2> QED BY <2>2, <2>3
<1>23. \A c \in DOMAIN mc : mc[c] <= start => c \in DOMAIN known
  <2> SUFFICES ASSUME NEW c \in D, mc[c] <= start, c \notin DOMAIN known PROVE FALSE
    BY <1>12
  <2>1. mc[c] \in records
    BY <1>11
  <2> QED BY <1>3, <2>1
<1>24. \A i \in (start + 1)..n : f[i].type = "ref" => mb[f[i].branch].head # NONE
  BY <1>3, <1>17
<1> QED BY <1>14, <1>16, <1>18, <1>21, <1>22, <1>23, <1>24 DEF low, NewBehind

\* A set in a strict total order, as a sequence.
StrictOrder(set, before) ==
  /\ \A x \in set : <<x, x>> \notin before
  /\ \A x, y, z \in set : <<x, y>> \in before /\ <<y, z>> \in before => <<x, z>> \in before
  /\ \A x, y \in set : x = y \/ <<x, y>> \in before \/ <<y, x>> \in before

\* A finite set in a strict order is put in that order, each member once.
LEMMA ArrangedIs ==
  ASSUME NEW S, IsFiniteSet(S), NEW B, StrictOrder(S, B)
  PROVE  /\ Arranged(S, B) \in Seq(S)
         /\ Len(Arranged(S, B)) = Cardinality(S)
         /\ \A x \in S : \E i \in DOMAIN Arranged(S, B) : Arranged(S, B)[i] = x
         /\ \A i, j \in DOMAIN Arranged(S, B) :
              i < j => <<Arranged(S, B)[i], Arranged(S, B)[j]>> \in B
<1> DEFINE Down(x) == {y \in S : <<y, x>> \in B}
           place == [x \in S |-> 1 + Cardinality(Down(x))]
           n == Cardinality(S)
           a == [i \in 1..n |-> CHOOSE x \in S : place[x] = i]
<1>1. n \in Nat
  BY FS_CardinalityType
<1>2. ASSUME NEW x \in S
      PROVE  IsFiniteSet(Down(x)) /\ Cardinality(Down(x)) \in Nat /\ Cardinality(Down(x)) < n
  <2>1. Down(x) \in SUBSET S /\ x \notin Down(x)
    BY DEF StrictOrder
  <2> HIDE DEF Down
  <2>2. IsFiniteSet(Down(x)) /\ Cardinality(Down(x)) <= n
        /\ (Cardinality(Down(x)) = n => Down(x) = S)
    BY <2>1, FS_Subset
  <2>3. Cardinality(Down(x)) \in Nat
    BY <2>2, FS_CardinalityType
  <2> QED BY <1>1, <2>1, <2>2, <2>3
<1>3. place \in [S -> 1..n]
  <2> SUFFICES ASSUME NEW x \in S PROVE 1 + Cardinality(Down(x)) \in 1..n
    OBVIOUS
  <2> HIDE DEF Down
  <2> QED BY <1>1, <1>2
<1>4. ASSUME NEW x \in S, NEW y \in S, <<x, y>> \in B
      PROVE  place[x] < place[y]
  <2>1. Down(x) \union {x} \in SUBSET Down(y) /\ x \notin Down(x)
    BY <1>4 DEF StrictOrder
  <2>2. place[x] = 1 + Cardinality(Down(x)) /\ place[y] = 1 + Cardinality(Down(y))
    OBVIOUS
  <2> HIDE DEF Down, place
  <2>3. Cardinality(Down(x) \union {x}) = Cardinality(Down(x)) + 1
    BY <1>2, <2>1, FS_AddElement
  <2>4. Cardinality(Down(x) \union {x}) <= Cardinality(Down(y))
    BY <1>2, <2>1, FS_Subset
  <2> QED BY <1>2, <2>2, <2>3, <2>4
<1> HIDE DEF place
<1>5. \A x, y \in S : place[x] = place[y] => x = y
  <2> SUFFICES ASSUME NEW x \in S, NEW y \in S, place[x] = place[y], x # y PROVE FALSE
    OBVIOUS
  <2>1. <<x, y>> \in B \/ <<y, x>> \in B
    BY DEF StrictOrder
  <2>2. place[x] \in Nat /\ place[y] \in Nat
    BY <1>1, <1>3
  <2> QED BY <1>4, <2>1, <2>2
<1>6. \A i \in 1..n : \E x \in S : place[x] = i
  <2>1. place \in Injection(S, 1..n)
    BY <1>3, <1>5 DEF Injection, IsInjective
  <2>2. IsFiniteSet(1..n) /\ Cardinality(1..n) = n
    BY <1>1, FS_Interval
  <2>3. place \in Surjection(S, 1..n)
    BY <2>1, <2>2, FS_Injection
  <2> QED BY <2>3 DEF Surjection
<1>7. \A i \in 1..n : a[i] \in S /\ place[a[i]] = i
  BY <1>6
<1>8. Arranged(S, B) = a
  BY DEF Arranged, place
<1>9. a \in Seq(S) /\ Len(a) = n /\ DOMAIN a = 1..n
  <2>1. a \in [1..n -> S]
    BY <1>7
  <2> HIDE DEF a
  <2> QED BY <1>1, <2>1
<1> HIDE DEF a, n
<1>10. \A x \in S : place[x] \in 1..n /\ a[place[x]] = x
  BY <1>3, <1>5, <1>7
<1>11. ASSUME NEW i \in 1..n, NEW j \in 1..n, i < j
       PROVE  <<a[i], a[j]>> \in B
  <2>1. a[i] \in S /\ a[j] \in S /\ place[a[i]] = i /\ place[a[j]] = j
    BY <1>7
  <2>2. a[i] # a[j]
    BY <1>11, <2>1
  <2>3. <<a[j], a[i]>> \notin B
    BY <1>4, <1>11, <2>1
  <2> QED BY <2>1, <2>2, <2>3 DEF StrictOrder
<1> QED BY <1>8, <1>9, <1>10, <1>11 DEF n

\* Two sequences, one after the other.
LEMMA TwoParts ==
  ASSUME NEW S, NEW s \in Seq(S), NEW t \in Seq(S), NEW w, w = s \o t
  PROVE  /\ w \in Seq(S) /\ Len(w) = Len(s) + Len(t)
         /\ \A i \in 1..Len(s) : w[i] = s[i]
         /\ \A i \in 1..Len(t) : w[Len(s) + i] = t[i]
<1>1. Len(s) \in Nat /\ Len(t) \in Nat
  OBVIOUS
<1>2. /\ w \in Seq(S) /\ Len(w) = Len(s) + Len(t)
      /\ \A i \in 1..(Len(s) + Len(t)) :
           w[i] = IF i <= Len(s) THEN s[i] ELSE t[i - Len(s)]
  BY ConcatProperties
<1>3. \A i \in 1..Len(s) : w[i] = s[i]
  BY <1>1, <1>2
<1>4. ASSUME NEW i \in 1..Len(t) PROVE w[Len(s) + i] = t[i]
  <2>1. Len(s) + i \in 1..(Len(s) + Len(t)) /\ ~(Len(s) + i <= Len(s)) /\ Len(s) + i - Len(s) = i
    BY <1>1
  <2> QED BY <1>2, <2>1
<1> QED BY <1>2, <1>3, <1>4

\* Four of them.
LEMMA FourParts ==
  ASSUME NEW S, NEW s \in Seq(S), NEW t \in Seq(S), NEW u \in Seq(S), NEW v \in Seq(S),
         NEW x, x = s \o t, NEW y, y = x \o u, NEW w, w = y \o v
  PROVE  /\ w \in Seq(S) /\ Len(w) = Len(s) + Len(t) + Len(u) + Len(v)
         /\ DOMAIN w = 1..(Len(s) + Len(t) + Len(u) + Len(v))
         /\ \A i \in 1..Len(s) : w[i] = s[i]
         /\ \A i \in 1..Len(t) : w[Len(s) + i] = t[i]
         /\ \A i \in 1..Len(u) : w[Len(s) + Len(t) + i] = u[i]
         /\ \A i \in 1..Len(v) : w[Len(s) + Len(t) + Len(u) + i] = v[i]
<1>1. /\ x \in Seq(S) /\ Len(x) = Len(s) + Len(t)
      /\ \A i \in 1..Len(s) : x[i] = s[i]
      /\ \A i \in 1..Len(t) : x[Len(s) + i] = t[i]
  BY TwoParts
<1>2. /\ y \in Seq(S) /\ Len(y) = Len(x) + Len(u)
      /\ \A i \in 1..Len(x) : y[i] = x[i]
      /\ \A i \in 1..Len(u) : y[Len(x) + i] = u[i]
  <2>1. x \in Seq(S)
    BY <1>1
  <2> QED BY <2>1, TwoParts
<1>4. /\ w \in Seq(S) /\ Len(w) = Len(y) + Len(v)
      /\ \A i \in 1..Len(y) : w[i] = y[i]
      /\ \A i \in 1..Len(v) : w[Len(y) + i] = v[i]
  <2>1. y \in Seq(S)
    BY <1>2
  <2> QED BY <2>1, TwoParts
<1>5. Len(s) \in Nat /\ Len(t) \in Nat /\ Len(u) \in Nat /\ Len(v) \in Nat
      /\ Len(w) \in Nat /\ DOMAIN w = 1..Len(w)
  BY <1>4
<1>6. Len(w) = Len(s) + Len(t) + Len(u) + Len(v)
  BY <1>1, <1>2, <1>4
<1>7. \A i \in 1..Len(s) : w[i] = s[i]
  BY <1>1, <1>2, <1>4, <1>5
<1>8. \A i \in 1..Len(t) : w[Len(s) + i] = t[i]
  <2> TAKE i \in 1..Len(t)
  <2>1. Len(s) + i \in 1..Len(x) /\ Len(s) + i \in 1..Len(y)
    BY <1>1, <1>2, <1>5
  <2> QED BY <1>1, <1>2, <1>4, <2>1
<1>9. \A i \in 1..Len(u) : w[Len(s) + Len(t) + i] = u[i]
  <2> TAKE i \in 1..Len(u)
  <2>1. Len(x) + i \in 1..Len(y) /\ Len(x) = Len(s) + Len(t)
    BY <1>1, <1>2, <1>5
  <2> QED BY <1>2, <1>4, <2>1
<1>10. \A i \in 1..Len(v) : w[Len(s) + Len(t) + Len(u) + i] = v[i]
  <2> TAKE i \in 1..Len(v)
  <2>1. Len(y) = Len(s) + Len(t) + Len(u)
    BY <1>1, <1>2
  <2> QED BY <1>4, <2>1
<1>11. DOMAIN w = 1..(Len(s) + Len(t) + Len(u) + Len(v))
  BY <1>5, <1>6
<1> QED BY <1>4, <1>6, <1>7, <1>8, <1>9, <1>10, <1>11

-----------------------------------------------------------------------------
(* What a collection keeps and copies. *)

\* A running engine's file and memory.
FileAndMemory(s) ==
  /\ File \in Seq(Record) /\ Length(File) = Len(File) /\ s \in 0..Len(File)
  /\ FileSound(File, Len(File), s, content, LowOf(File))
  /\ View(File, Len(File), commits, branches, floors)
  /\ \E k \in 0..MaxCommits : content \in [1..k -> Ids \union {NONE}]
  /\ retains \in [Names -> Ids \union {NONE}]

\* What a serving engine finds at the positions it has for its commits.
LEMMA RecordsAt ==
  ASSUME NEW s, FileAndMemory(s)
  PROVE  /\ Len(File) \in Nat /\ branches \in Heads
         /\ \A c \in DOMAIN commits :
              /\ commits[c] \in 1..Len(File) /\ RecordAt(c) = File[commits[c]]
              /\ RecordAt(c).type = "commit" /\ RecordAt(c).id = c
              /\ c \in Ids /\ c \in DOMAIN content
              /\ RecordAt(c).branch \in Branches /\ RecordAt(c).sequence \in Nat
              /\ RecordAt(c).sequence <= branches[RecordAt(c).branch].sequence
              /\ RecordAt(c).tree \in Nat
              /\ TreeSound(File, Len(File), RecordAt(c).tree, content[c])
              /\ RecordAt(c).sequence > 0 => branches[RecordAt(c).branch].head # NONE
         /\ \A c, d \in DOMAIN commits : commits[c] = commits[d] => c = d
<1>1. Len(File) \in Nat /\ branches \in Heads
  BY DEF FileAndMemory, View
<1>2. ASSUME NEW c \in DOMAIN commits
      PROVE  /\ commits[c] \in 1..Len(File) /\ RecordAt(c) = File[commits[c]]
             /\ RecordAt(c).type = "commit" /\ RecordAt(c).id = c
  BY DEF FileAndMemory, View, CommitsSound, RecordAt
<1>3. ASSUME NEW c \in DOMAIN commits
      PROVE  /\ c \in Ids /\ c \in DOMAIN content
             /\ RecordAt(c).branch \in Branches /\ RecordAt(c).sequence \in Nat
             /\ RecordAt(c).sequence <= branches[RecordAt(c).branch].sequence
             /\ RecordAt(c).tree \in Nat
             /\ TreeSound(File, Len(File), RecordAt(c).tree, content[c])
             /\ RecordAt(c).sequence > 0 => branches[RecordAt(c).branch].head # NONE
  <2>1. RecordAt(c) \in Record
    BY <1>2, FileTyped DEF FileAndMemory
  <2>2. c \in Ids /\ RecordAt(c).branch \in Branches /\ RecordAt(c).sequence \in Nat
        /\ RecordAt(c).tree \in Nat
    BY <1>2, <2>1, RecordKinds
  <2>3. RecordSound(File, commits[c], content, LowOf(File))
    BY <1>1, <1>2, FileSoundIs DEF FileAndMemory
  <2>4. c \in DOMAIN content /\ TreeSound(File, commits[c] - 1, RecordAt(c).tree, content[c])
    BY <1>2, <2>3 DEF RecordSound
  <2>5. TreeSound(File, Len(File), RecordAt(c).tree, content[c])
    BY <1>1, <1>2, <2>2, <2>4 DEF TreeSound
  <2>6. RecordAt(c).sequence <= branches[RecordAt(c).branch].sequence
    BY <1>2, <2>2 DEF FileAndMemory, View, HeadsSound
  <2>7. RecordAt(c).sequence > 0 => branches[RecordAt(c).branch].head # NONE
    <3>1. NoBranch.sequence = 0
      BY DEF NoBranch
    <3>2. branches[RecordAt(c).branch].head = NONE => branches[RecordAt(c).branch] = NoBranch
      BY <1>1, <2>2 DEF Heads
    <3> QED BY <2>2, <2>6, <3>1, <3>2
  <2> QED BY <2>2, <2>4, <2>5, <2>6, <2>7
<1>4. \A c, d \in DOMAIN commits : commits[c] = commits[d] => c = d
  BY <1>2
<1> QED BY <1>1, <1>2, <1>3, <1>4

\* Above the floors of what is retained, every sequence is retained.
LEMMA FloorsAre ==
  ASSUME NEW s, FileAndMemory(s), NEW retained \in SUBSET DOMAIN commits
  PROVE  /\ HistoryFloorsFor(retained) \in [Branches -> Nat]
         /\ \A b \in Branches, n \in Nat :
              n > HistoryFloorsFor(retained)[b] /\ n <= branches[b].sequence =>
                \E c \in retained : RecordAt(c).branch = b /\ RecordAt(c).sequence = n
<1> DEFINE Kept(b) == {RecordAt(c).sequence : c \in OfBranch(b) \intersect retained}
           Lost(b) == {0} \union {n \in 0..branches[b].sequence : n \notin Kept(b)}
           low == HistoryFloorsFor(retained)
<1>1. low = [b \in Branches |-> Max(Lost(b))]
  BY DEF HistoryFloorsFor
<1>2. ASSUME NEW b \in Branches
      PROVE  branches[b].sequence \in Nat /\ Max(Lost(b)) \in Nat /\ \A y \in Lost(b) : y <= Max(Lost(b))
  <2>1. branches[b].sequence \in Nat
    BY RecordsAt DEF Heads, Branch
  <2>2. Lost(b) \in SUBSET (0..branches[b].sequence) /\ Lost(b) # {}
    BY <2>1
  <2> HIDE DEF Lost
  <2>3. Max(Lost(b)) \in Lost(b) /\ \A y \in Lost(b) : y <= Max(Lost(b))
    BY <2>1, <2>2, LargestBelow
  <2> QED BY <2>1, <2>2, <2>3
<1>3. low \in [Branches -> Nat]
  <2> HIDE DEF Lost
  <2> QED BY <1>1, <1>2
<1>4. ASSUME NEW b \in Branches, NEW n \in Nat, n > low[b], n <= branches[b].sequence
      PROVE  \E c \in retained : RecordAt(c).branch = b /\ RecordAt(c).sequence = n
  <2>1. n \notin Lost(b)
    <3>1. low[b] = Max(Lost(b))
      BY <1>1
    <3> HIDE DEF Lost, low
    <3> QED BY <1>2, <1>4, <3>1
  <2>2. n \in Kept(b)
    BY <1>2, <1>4, <2>1
  <2> QED BY <2>2 DEF OfBranch
<1> QED BY <1>3, <1>4

\* The pages a collection copies are those of what it retains.
LEMMA PagesAre ==
  ASSUME NEW s, FileAndMemory(s), NEW retained \in SUBSET DOMAIN commits
  PROVE  LET pages == CopiedPages(retained)
             copied == [i \in DOMAIN pages |-> File[pages[i]]]
         IN /\ Len(pages) \in Nat /\ DOMAIN pages = 1..Len(pages)
            /\ copied \in Seq(Record) /\ Len(copied) = Len(pages)
            /\ \A i \in 1..Len(pages) : copied[i] = File[pages[i]] /\ copied[i].type = "page"
            /\ \A c \in retained : RecordAt(c).tree # 0 =>
                 \E i \in 1..Len(pages) : pages[i] = RecordAt(c).tree
<1> DEFINE trees == {RecordAt(c).tree : c \in retained} \ {0}
           before == {p \in trees \X trees : p[1] < p[2]}
           pages == CopiedPages(retained)
           copied == [i \in DOMAIN pages |-> File[pages[i]]]
<1>1. Len(File) \in Nat /\ \A c \in retained : /\ RecordAt(c).tree \in Nat
                                               /\ TreeSound(File, Len(File), RecordAt(c).tree, content[c])
  BY RecordsAt
<1>2. \A t \in trees : t \in 1..Len(File) /\ File[t].type = "page"
  BY <1>1 DEF TreeSound
<1>3. pages = Arranged(trees, before)
  BY DEF CopiedPages
<1>4. \A c \in retained : RecordAt(c).tree # 0 => RecordAt(c).tree \in trees
  OBVIOUS
<1> HIDE DEF trees
<1>5. IsFiniteSet(trees)
  <2>1. trees \in SUBSET (1..Len(File)) /\ 1 \in Int /\ Len(File) \in Int
    BY <1>1, <1>2
  <2>2. IsFiniteSet(1..Len(File))
    BY <2>1, FS_Interval
  <2> QED BY <2>1, <2>2, FS_Subset
<1>6. StrictOrder(trees, before)
  BY <1>2 DEF StrictOrder
<1> HIDE DEF before, pages
<1>7. /\ pages \in Seq(trees)
      /\ \A x \in trees : \E i \in DOMAIN pages : pages[i] = x
  BY <1>3, <1>5, <1>6, ArrangedIs
<1>8. Len(pages) \in Nat /\ DOMAIN pages = 1..Len(pages) /\ \A i \in 1..Len(pages) : pages[i] \in trees
  BY <1>7
<1>9. \A i \in 1..Len(pages) : File[pages[i]] \in Record /\ File[pages[i]].type = "page"
  BY <1>2, <1>8, FileTyped DEF FileAndMemory
<1>10. copied \in [1..Len(pages) -> Record]
  BY <1>8, <1>9
<1>11. copied \in Seq(Record) /\ Len(copied) = Len(pages)
  <2> HIDE DEF copied
  <2> QED BY <1>8, <1>10
<1>12. \A i \in 1..Len(pages) : copied[i] = File[pages[i]]
  BY <1>8
<1> QED BY <1>4, <1>7, <1>8, <1>9, <1>11, <1>12 DEF pages

\* The commits are finitely many.
LEMMA KnownFinite ==
  ASSUME NEW s, FileAndMemory(s), NEW retained \in SUBSET DOMAIN commits
  PROVE  IsFiniteSet(retained)
<1>1. PICK k \in 0..MaxCommits : DOMAIN content = 1..k
  BY DEF FileAndMemory
<1>2. retained \in SUBSET (1..k)
  BY <1>1, RecordsAt
<1>3. k \in Int /\ 1 \in Int
  BY FileAssumption
<1>4. IsFiniteSet(1..k)
  BY <1>3, FS_Interval
<1> QED BY <1>2, <1>4, FS_Subset

\* The commits it copies are the retained ones, once each, with their trees.
LEMMA CommitsAre ==
  ASSUME NEW s, FileAndMemory(s), NEW retained \in SUBSET DOMAIN commits,
         NEW pages, pages = CopiedPages(retained),
         NEW copied, copied = CopiedCommits(retained, pages)
  PROVE  /\ copied \in Seq(Record)
         /\ \A i \in 1..Len(copied) :
              /\ copied[i].type = "commit" /\ copied[i].id \in retained
              /\ copied[i].branch = RecordAt(copied[i].id).branch
              /\ copied[i].sequence = RecordAt(copied[i].id).sequence
              /\ copied[i].tree \in 0..Len(pages)
              /\ IF copied[i].tree = 0 THEN RecordAt(copied[i].id).tree = 0
                 ELSE pages[copied[i].tree] = RecordAt(copied[i].id).tree
                      /\ RecordAt(copied[i].id).tree # 0
         /\ \A i, j \in 1..Len(copied) : copied[i].id = copied[j].id => i = j
         /\ \A c \in retained : \E i \in 1..Len(copied) : copied[i].id = c
<1> DEFINE before == {p \in retained \X retained : commits[p[1]] < commits[p[2]]}
           kept == Arranged(retained, before)
           TreeOf(old) == IF old.tree = 0 THEN 0
                          ELSE CHOOSE k \in DOMAIN pages : pages[k] = old.tree
           At(i) == CommitRecord(RecordAt(kept[i]).id, RecordAt(kept[i]).branch,
                                 RecordAt(kept[i]).sequence, TreeOf(RecordAt(kept[i])))
<1>1. \A c \in retained : /\ commits[c] \in Nat /\ RecordAt(c).id = c /\ c \in Ids
                          /\ RecordAt(c).branch \in Branches /\ RecordAt(c).sequence \in Nat
                          /\ RecordAt(c).tree \in Nat
  BY RecordsAt
<1>2. \A c, d \in retained : commits[c] = commits[d] => c = d
  BY RecordsAt
<1>3. StrictOrder(retained, before)
  BY <1>1, <1>2 DEF StrictOrder
<1>4. IsFiniteSet(retained)
  BY KnownFinite
<1>5. copied = [i \in DOMAIN kept |-> At(i)]
  BY DEF CopiedCommits
<1> HIDE DEF before
<1>6. /\ kept \in Seq(retained)
      /\ \A x \in retained : \E i \in DOMAIN kept : kept[i] = x
      /\ \A i, j \in DOMAIN kept : i < j => <<kept[i], kept[j]>> \in before
  BY <1>3, <1>4, ArrangedIs
<1> HIDE DEF kept
<1>7. Len(kept) \in Nat /\ DOMAIN kept = 1..Len(kept) /\ \A i \in 1..Len(kept) : kept[i] \in retained
  BY <1>6
<1>8. ASSUME NEW c \in retained
      PROVE  /\ TreeOf(RecordAt(c)) \in 0..Len(pages)
             /\ IF TreeOf(RecordAt(c)) = 0 THEN RecordAt(c).tree = 0
                ELSE pages[TreeOf(RecordAt(c))] = RecordAt(c).tree /\ RecordAt(c).tree # 0
  <2>1. Len(pages) \in Nat /\ DOMAIN pages = 1..Len(pages)
    BY PagesAre
  <2>2. CASE RecordAt(c).tree = 0
    BY <2>1, <2>2
  <2>3. CASE RecordAt(c).tree # 0
    <3>1. \E k \in DOMAIN pages : pages[k] = RecordAt(c).tree
      BY <2>1, <2>3, PagesAre
    <3> QED BY <2>1, <2>3, <3>1
  <2> QED BY <2>2, <2>3
<1> HIDE DEF TreeOf
<1>9. ASSUME NEW i \in 1..Len(kept)
      PROVE  /\ At(i) \in Record /\ At(i).type = "commit" /\ At(i).id = kept[i]
             /\ At(i).branch = RecordAt(kept[i]).branch /\ At(i).sequence = RecordAt(kept[i]).sequence
             /\ At(i).tree = TreeOf(RecordAt(kept[i]))
  <2>1. kept[i] \in retained
    BY <1>7
  <2>2. TreeOf(RecordAt(kept[i])) \in Nat
    <3>1. Len(pages) \in Nat
      BY PagesAre
    <3> QED BY <1>8, <2>1, <3>1
  <2>3. At(i) \in Record
    BY <1>1, <2>1, <2>2, RecordsMade
  <2> QED BY <1>1, <2>1, <2>3 DEF CommitRecord
<1> HIDE DEF At
<1>10. copied \in [1..Len(kept) -> Record] /\ \A i \in 1..Len(kept) : copied[i] = At(i)
  BY <1>5, <1>7, <1>9
<1>11. copied \in Seq(Record) /\ Len(copied) = Len(kept)
  BY <1>7, <1>10
<1>12. \A i, j \in 1..Len(kept) : kept[i] = kept[j] => i = j
  <2> SUFFICES ASSUME NEW i \in 1..Len(kept), NEW j \in 1..Len(kept), i < j, kept[i] = kept[j]
               PROVE  FALSE
    BY <1>7
  <2>1. <<kept[i], kept[j]>> \in before /\ kept[j] \in retained
    BY <1>6, <1>7
  <2> QED BY <1>3, <2>1 DEF StrictOrder
<1>13. \A c \in retained : \E i \in 1..Len(kept) : kept[i] = c
  BY <1>6, <1>7
<1> QED BY <1>7, <1>8, <1>9, <1>10, <1>11, <1>12, <1>13

\* Every branch has a place among the live ones.
LEMMA OrderOf ==
  ASSUME NEW live, IsFiniteSet(live)
  PROVE  \A b \in live : \E i \in DOMAIN SetToSeq(live) : i \in Nat /\ SetToSeq(live)[i] = b
<1> DEFINE n == Cardinality(live)
           order == SetToSeq(live)
<1>1. n \in Nat /\ ExistsBijection(1..n, live)
  BY FS_CardinalityType
<1>2. PICK h \in Bijection(1..n, live) : TRUE
  BY <1>1 DEF ExistsBijection
<1>3. h \in [1..n -> live] /\ IsInjective(h)
  BY DEF Bijection, Injection
<1>4. order \in [1..n -> live] /\ IsInjective(order)
  BY <1>3 DEF SetToSeq
<1> HIDE DEF order, n
<1>5. order \in Injection(1..n, live)
  BY <1>4 DEF Injection
<1>6. IsFiniteSet(1..n) /\ Cardinality(1..n) = n
  BY <1>1, FS_Interval
<1>7. order \in Surjection(1..n, live)
  BY <1>5, <1>6, FS_Injection DEF n
<1>8. \A b \in live : \E i \in 1..n : order[i] = b
  BY <1>7 DEF Surjection
<1> QED BY <1>1, <1>4, <1>8 DEF order

\* A collection keeps the heads and bases of its branches.
KeepsHeads(retained) ==
  \A b \in Branches : branches[b].head # NONE =>
    branches[b].head \in retained /\ branches[b].base \in retained

\* The refs it copies lead to what it retains, and rise along each branch.
LEMMA RefsAre ==
  ASSUME NEW s, FileAndMemory(s), NEW retained \in SUBSET DOMAIN commits, KeepsHeads(retained),
         NEW copied, copied = CopiedRefs(retained)
  PROVE  /\ copied \in Seq(Record)
         /\ \A i \in 1..Len(copied) :
              /\ copied[i].type = "ref" /\ copied[i].head \in retained
              /\ copied[i].branch \in Branches /\ copied[i].sequence \in Nat
              /\ branches[copied[i].branch].head # NONE
              /\ copied[i].sequence <= branches[copied[i].branch].sequence
         /\ \A i, j \in 1..Len(copied) :
              i < j /\ copied[i].branch = copied[j].branch =>
                /\ copied[i].sequence <= copied[j].sequence
                /\ copied[i].sequence = copied[j].sequence => copied[i].head # copied[j].head
         /\ \A c \in retained : RecordAt(c).sequence > 0 =>
              \E i \in 1..Len(copied) : /\ copied[i].head = c /\ copied[i].branch = RecordAt(c).branch
                                        /\ copied[i].sequence = RecordAt(c).sequence
         /\ \A i \in 1..Len(copied) :
              \/ /\ copied[i].operation = "create" /\ copied[i].sequence = 0
                 /\ copied[i].head = branches[copied[i].branch].base
              \/ /\ copied[i].operation = "commit" /\ copied[i].sequence > 0
                 /\ copied[i].branch = RecordAt(copied[i].head).branch
                 /\ copied[i].sequence = RecordAt(copied[i].head).sequence
         /\ \A b \in Branches : branches[b].head # NONE =>
              \E i \in 1..Len(copied) : copied[i].branch = b /\ copied[i].head = branches[b].base
<1> DEFINE live == {b \in Branches : Exists(b)}
           order == SetToSeq(live)
           place == [b \in live |-> CHOOSE i \in DOMAIN order : order[i] = b]
           Create(b) == RefRecord("create", b, branches[b].base, 0)
           Of(c) == RefRecord("commit", RecordAt(c).branch, c, RecordAt(c).sequence)
           later == {d \in retained : RecordAt(d).sequence > 0 /\ RecordAt(d).branch \in live}
           created == {Create(b) : b \in live}
           committed == {Of(c) : c \in later}
           refs == created \union committed
           Before(r, q) ==
             \/ place[r.branch] < place[q.branch]
             \/ /\ r.branch = q.branch
                /\ \/ r.sequence < q.sequence
                   \/ r.sequence = q.sequence /\ commits[r.head] < commits[q.head]
           before == {p \in refs \X refs : Before(p[1], p[2])}
<1>1. copied = Arranged(refs, before)
  BY DEF CopiedRefs
<1>2. live \in SUBSET Branches /\ IsFiniteSet(live)
  BY FileAssumption, FS_Subset
<1>3. IsFiniteSet(later)
  <2>1. later \in SUBSET retained
    OBVIOUS
  <2> HIDE DEF later
  <2> QED BY <2>1, KnownFinite, FS_Subset
<1>4. \A b \in live : place[b] \in Nat /\ order[place[b]] = b
  <2>1. \A b \in live : \E i \in DOMAIN order : i \in Nat /\ order[i] = b
    BY <1>2, OrderOf
  <2>2. DOMAIN order \subseteq Nat
    <3>1. order \in [1..Cardinality(live) -> live]
      <4> DEFINE n == Cardinality(live)
      <4>1. n \in Nat /\ ExistsBijection(1..n, live)
        BY <1>2, FS_CardinalityType
      <4>2. PICK h \in Bijection(1..n, live) : TRUE
        BY <4>1 DEF ExistsBijection
      <4>3. h \in [1..n -> live] /\ IsInjective(h)
        BY DEF Bijection, Injection
      <4> QED BY <4>3 DEF SetToSeq
    <3>2. Cardinality(live) \in Nat
      BY <1>2, FS_CardinalityType
    <3> HIDE DEF order
    <3> QED BY <3>1, <3>2
  <2> HIDE DEF order
  <2> QED BY <2>1, <2>2
<1> HIDE DEF place, order
<1>5. \A b, d \in live : place[b] = place[d] => b = d
  BY <1>4
<1>6. \A c \in retained : /\ c \in Ids /\ commits[c] \in Nat
                          /\ RecordAt(c).branch \in Branches /\ RecordAt(c).sequence \in Nat
                          /\ RecordAt(c).sequence <= branches[RecordAt(c).branch].sequence
                          /\ RecordAt(c).sequence > 0 => RecordAt(c).branch \in live
  BY RecordsAt DEF Exists
<1>7. \A c, d \in retained : commits[c] = commits[d] => c = d
  BY RecordsAt
<1>8. \A b \in live : branches[b].base \in retained /\ branches[b].sequence \in Nat
                      /\ branches[b].head # NONE /\ b \in Branches
  <2>1. branches \in Heads
    BY RecordsAt
  <2> QED BY <2>1 DEF KeepsHeads, Exists, Heads, Branch
<1>0. \A b \in Branches : branches[b].head # NONE => b \in live
  BY DEF Exists
<1> HIDE DEF live
<1>9. ASSUME NEW b \in live
      PROVE  /\ Create(b) \in Record /\ Create(b).type = "ref" /\ Create(b).branch = b
             /\ Create(b).head = branches[b].base /\ Create(b).sequence = 0
             /\ Create(b).operation = "create"
  <2>1. branches[b].base \in Ids /\ b \in Branches
    BY <1>6, <1>8
  <2>2. Create(b) \in Record
    BY <2>1, RecordsMade
  <2> QED BY <2>2 DEF RefRecord
<1>10. ASSUME NEW c \in later
       PROVE  /\ Of(c) \in Record /\ Of(c).type = "ref" /\ Of(c).branch = RecordAt(c).branch
              /\ Of(c).head = c /\ Of(c).sequence = RecordAt(c).sequence
              /\ Of(c).operation = "commit"
              /\ Of(c).sequence > 0 /\ c \in retained /\ Of(c).branch \in live
              /\ Of(c).sequence \in Nat
  <2>1. c \in retained /\ RecordAt(c).sequence > 0 /\ RecordAt(c).branch \in live
    OBVIOUS
  <2> HIDE DEF later
  <2>2. Of(c) \in Record
    BY <1>6, <2>1, RecordsMade
  <2> QED BY <1>6, <2>1, <2>2 DEF RefRecord
<1>11. \A c \in retained : RecordAt(c).sequence > 0 => c \in later
  BY <1>6
<1> HIDE DEF later, Create, Of
<1>12. IsFiniteSet(refs)
  <2>1. IsFiniteSet(created)
    <3> DEFINE h == [b \in live |-> Create(b)]
    <3>1. h \in Surjection(live, created)
      BY DEF Surjection
    <3> HIDE DEF h, created
    <3> QED BY <1>2, <3>1, FS_Surjection
  <2>2. IsFiniteSet(committed)
    <3> DEFINE h == [c \in later |-> Of(c)]
    <3>1. h \in Surjection(later, committed)
      BY DEF Surjection
    <3> HIDE DEF h, committed
    <3> QED BY <1>3, <3>1, FS_Surjection
  <2> HIDE DEF created, committed
  <2> QED BY <2>1, <2>2, FS_Union
<1>13. ASSUME NEW r \in refs
       PROVE  /\ r \in Record /\ r.type = "ref" /\ r.branch \in live /\ r.head \in retained
              /\ r.sequence \in Nat
              /\ (r.sequence = 0 /\ r = Create(r.branch)) \/ (r.sequence > 0 /\ r.head \in later /\ r = Of(r.head))
              /\ r.sequence <= branches[r.branch].sequence
  <2>1. CASE r \in created
    <3>1. PICK b \in live : r = Create(b)
      BY <2>1
    <3> QED BY <1>8, <1>9, <3>1
  <2>2. CASE r \in committed
    <3>1. PICK c \in later : r = Of(c)
      BY <2>2
    <3> QED BY <1>6, <1>10, <3>1
  <2> QED BY <2>1, <2>2
<1>14. (\A c \in later : Of(c) \in refs) /\ \A b \in live : Create(b) \in refs
  OBVIOUS
<1> HIDE DEF refs
<1>15. StrictOrder(refs, before)
  <2>1. ASSUME NEW r \in refs PROVE ~Before(r, r)
    BY <1>4, <1>6, <1>13
  <2>2. ASSUME NEW r \in refs, NEW q \in refs, NEW x \in refs, Before(r, q), Before(q, x)
        PROVE  Before(r, x)
    <3>1. /\ place[r.branch] \in Nat /\ place[q.branch] \in Nat /\ place[x.branch] \in Nat
          /\ commits[r.head] \in Nat /\ commits[q.head] \in Nat /\ commits[x.head] \in Nat
          /\ r.sequence \in Nat /\ q.sequence \in Nat /\ x.sequence \in Nat
      BY <1>4, <1>6, <1>13
    <3> QED BY <2>2, <3>1
  <2>3. ASSUME NEW r \in refs, NEW q \in refs PROVE r = q \/ Before(r, q) \/ Before(q, r)
    <3>1. /\ place[r.branch] \in Nat /\ place[q.branch] \in Nat
          /\ commits[r.head] \in Nat /\ commits[q.head] \in Nat
          /\ r.sequence \in Nat /\ q.sequence \in Nat
      BY <1>4, <1>6, <1>13
    <3>2. place[r.branch] = place[q.branch] => r.branch = q.branch
      BY <1>5, <1>13
    <3>3. commits[r.head] = commits[q.head] => r.head = q.head
      BY <1>7, <1>13
    <3>4. r.branch = q.branch /\ r.sequence = q.sequence /\ r.head = q.head => r = q
      BY <1>13
    <3> QED BY <3>1, <3>2, <3>3, <3>4
  <2> HIDE DEF Before
  <2> QED BY <2>1, <2>2, <2>3 DEF StrictOrder
<1>16. /\ copied \in Seq(refs)
       /\ \A r \in refs : \E i \in DOMAIN copied : copied[i] = r
       /\ \A i, j \in DOMAIN copied : i < j => <<copied[i], copied[j]>> \in before
  <2> HIDE DEF before
  <2> QED BY <1>1, <1>12, <1>15, ArrangedIs
<1>17. Len(copied) \in Nat /\ DOMAIN copied = 1..Len(copied) /\ \A i \in 1..Len(copied) : copied[i] \in refs
  BY <1>16
<1>18. copied \in Seq(Record)
  BY <1>13, <1>16, SeqMonotonic
<1>19. ASSUME NEW i \in 1..Len(copied), NEW j \in 1..Len(copied), i < j,
              copied[i].branch = copied[j].branch
       PROVE  /\ copied[i].sequence <= copied[j].sequence
              /\ copied[i].sequence = copied[j].sequence => copied[i].head # copied[j].head
  <2>0. i \in DOMAIN copied /\ j \in DOMAIN copied
    BY <1>17
  <2>4. <<copied[i], copied[j]>> \in before
    <3> HIDE DEF before
    <3> QED BY <1>16, <1>19, <2>0
  <2>1. Before(copied[i], copied[j]) /\ copied[i] \in refs /\ copied[j] \in refs
    <3> DEFINE p == <<copied[i], copied[j]>>
    <3>1. p[1] = copied[i] /\ p[2] = copied[j]
      OBVIOUS
    <3>2. p \in refs \X refs /\ Before(p[1], p[2])
      BY <2>4
    <3> HIDE DEF Before, before
    <3> QED BY <1>17, <3>1, <3>2
  <2>2. place[copied[i].branch] \in Nat
    BY <1>4, <1>13, <2>1
  <2>3. copied[i].sequence \in Nat /\ copied[j].sequence \in Nat
    BY <1>13, <2>1
  <2>5. commits[copied[i].head] \in Nat /\ commits[copied[j].head] \in Nat
    BY <1>6, <1>13, <2>1
  <2> QED BY <1>19, <2>1, <2>2, <2>3, <2>5
<1>20. ASSUME NEW c \in retained, RecordAt(c).sequence > 0
       PROVE  \E i \in 1..Len(copied) : /\ copied[i].head = c /\ copied[i].branch = RecordAt(c).branch
                                        /\ copied[i].sequence = RecordAt(c).sequence
  <2>1. c \in later /\ Of(c) \in refs
    BY <1>11, <1>14, <1>20
  <2>2. PICK i \in DOMAIN copied : copied[i] = Of(c)
    BY <1>16, <2>1
  <2> QED BY <1>10, <1>17, <2>1, <2>2
<1>21. ASSUME NEW i \in 1..Len(copied)
       PROVE  \/ /\ copied[i].operation = "create" /\ copied[i].sequence = 0
                 /\ copied[i].head = branches[copied[i].branch].base
              \/ /\ copied[i].operation = "commit" /\ copied[i].sequence > 0
                 /\ copied[i].branch = RecordAt(copied[i].head).branch
                 /\ copied[i].sequence = RecordAt(copied[i].head).sequence
  <2>1. PICK r \in refs : r = copied[i]
    BY <1>17
  <2>2. CASE r.sequence = 0 /\ r = Create(r.branch)
    BY <1>9, <1>13, <2>1, <2>2
  <2>3. CASE r.sequence > 0 /\ r.head \in later /\ r = Of(r.head)
    BY <1>10, <2>1, <2>3
  <2> QED BY <1>13, <2>2, <2>3
<1>22. ASSUME NEW b \in Branches, branches[b].head # NONE
       PROVE  \E i \in 1..Len(copied) : copied[i].branch = b /\ copied[i].head = branches[b].base
  <2>1. b \in live
    BY <1>0, <1>22
  <2>2. PICK i \in DOMAIN copied : copied[i] = Create(b)
    BY <1>14, <1>16, <2>1
  <2> QED BY <1>9, <1>17, <2>1, <2>2
<1> HIDE DEF before, Before
<1> QED BY <1>8, <1>13, <1>17, <1>18, <1>19, <1>20, <1>21, <1>22

\* What a collection copies is a sound file, of which memory will say what it says now.
LEMMA CopySound ==
  ASSUME NEW s, FileAndMemory(s), NEW retained \in SUBSET DOMAIN commits, KeepsHeads(retained),
         NEW low, low = HistoryFloorsFor(retained), NEW g, g = Copy(retained, low)
  PROVE  /\ low \in [Branches -> Nat] /\ g \in Seq(Record) /\ Len(g) > 0
         /\ LowOf(g) = low /\ \E i \in DOMAIN g : g[i].type = "meta"
         /\ FileSound(g, Len(g), Len(g), content, low)
         /\ View(g, Len(g), Places(g, retained), branches, low)
<1> DEFINE pages == CopiedPages(retained)
           ps == [i \in DOMAIN pages |-> File[pages[i]]]
           cs == CopiedCommits(retained, pages)
           rs == CopiedRefs(retained)
           ms == <<MetaRecord(retains, low)>>
           P == Len(pages)
           C == Len(cs)
           R == Len(rs)
           n == P + C + R + 1
<1>1. low \in [Branches -> Nat]
  BY FloorsAre
<1>2. /\ P \in Nat /\ DOMAIN pages = 1..P /\ ps \in Seq(Record) /\ Len(ps) = P
      /\ \A i \in 1..P : ps[i] = File[pages[i]] /\ ps[i].type = "page"
  BY PagesAre
<1>3. /\ cs \in Seq(Record)
      /\ \A i \in 1..C :
              /\ cs[i].type = "commit" /\ cs[i].id \in retained
              /\ cs[i].branch = RecordAt(cs[i].id).branch
              /\ cs[i].sequence = RecordAt(cs[i].id).sequence
              /\ cs[i].tree \in 0..P
              /\ IF cs[i].tree = 0 THEN RecordAt(cs[i].id).tree = 0
                 ELSE pages[cs[i].tree] = RecordAt(cs[i].id).tree
                      /\ RecordAt(cs[i].id).tree # 0
      /\ \A i, j \in 1..C : cs[i].id = cs[j].id => i = j
      /\ \A c \in retained : \E i \in 1..C : cs[i].id = c
  BY CommitsAre
<1>4. /\ rs \in Seq(Record)
      /\ \A i \in 1..R :
              /\ rs[i].type = "ref" /\ rs[i].head \in retained
              /\ rs[i].branch \in Branches /\ rs[i].sequence \in Nat
              /\ branches[rs[i].branch].head # NONE
              /\ rs[i].sequence <= branches[rs[i].branch].sequence
      /\ \A i, j \in 1..R :
              i < j /\ rs[i].branch = rs[j].branch => rs[i].sequence <= rs[j].sequence
      /\ \A c \in retained : RecordAt(c).sequence > 0 =>
              \E i \in 1..R : /\ rs[i].head = c /\ rs[i].branch = RecordAt(c).branch
                              /\ rs[i].sequence = RecordAt(c).sequence
  BY RefsAre
<1>5. ms \in Seq(Record) /\ Len(ms) = 1 /\ ms[1].type = "meta" /\ ms[1].floors = low
  <2>1. retains \in [Names -> Ids \union {NONE}]
    BY DEF FileAndMemory
  <2>2. MetaRecord(retains, low) \in Record
    BY <1>1, <2>1, RecordsMade
  <2> QED BY <2>2 DEF MetaRecord
<1> DEFINE ts == ps \o cs
           us == ts \o rs
<1>6. g = us \o ms
  BY DEF Copy
<1>7. C \in Nat /\ R \in Nat
  BY <1>3, <1>4
<1> HIDE DEF pages, ps, cs, rs, ms
<1>0. ts = ps \o cs /\ us = ts \o rs
  OBVIOUS
<1> HIDE DEF ts, us
<1>8. /\ g \in Seq(Record) /\ Len(g) = n /\ DOMAIN g = 1..n
      /\ \A i \in 1..P : g[i] = ps[i]
      /\ \A i \in 1..C : g[P + i] = cs[i]
      /\ \A i \in 1..R : g[P + C + i] = rs[i]
      /\ \A i \in 1..1 : g[P + C + R + i] = ms[i]
  <2>1. /\ g \in Seq(Record) /\ Len(g) = Len(ps) + Len(cs) + Len(rs) + Len(ms)
        /\ DOMAIN g = 1..(Len(ps) + Len(cs) + Len(rs) + Len(ms))
        /\ \A i \in 1..Len(ps) : g[i] = ps[i]
        /\ \A i \in 1..Len(cs) : g[Len(ps) + i] = cs[i]
        /\ \A i \in 1..Len(rs) : g[Len(ps) + Len(cs) + i] = rs[i]
        /\ \A i \in 1..Len(ms) : g[Len(ps) + Len(cs) + Len(rs) + i] = ms[i]
    <3>1. ps \in Seq(Record) /\ cs \in Seq(Record) /\ rs \in Seq(Record) /\ ms \in Seq(Record)
      BY <1>2, <1>3, <1>4, <1>5
    <3> QED BY <3>1, <1>0, <1>6, FourParts, SMTT(20)
  <2> QED BY <1>2, <1>5, <2>1
<1> DEFINE IsCommit(i) == i \in (P + 1)..(P + C)
           IsRef(i) == i \in (P + C + 1)..(P + C + R)
<1>9. n \in Nat /\ \A i \in 1..n : i \in 1..P \/ IsCommit(i) \/ IsRef(i) \/ i = n
  BY <1>2, <1>7
<1>10. \A i \in 1..P : g[i].type = "page"
  BY <1>2, <1>8
<1>11. ASSUME NEW i \in 1..n, IsCommit(i)
       PROVE  i - P \in 1..C /\ g[i] = cs[i - P] /\ g[i].type = "commit"
  <2> DEFINE k == i - P
  <2>1. k \in 1..C /\ P + k = i
    BY <1>2, <1>7, <1>11
  <2> HIDE DEF k
  <2>2. g[P + k] = cs[k] /\ cs[k].type = "commit"
    BY <1>3, <1>8, <2>1
  <2> QED BY <2>1, <2>2 DEF k
<1>12. ASSUME NEW i \in 1..n, IsRef(i)
       PROVE  i - P - C \in 1..R /\ g[i] = rs[i - P - C] /\ g[i].type = "ref"
  <2> DEFINE k == i - P - C
  <2>0. i \in Int /\ P \in Int /\ C \in Int /\ R \in Int /\ P + C + 1 <= i /\ i <= P + C + R
    BY <1>2, <1>7, <1>12
  <2>1. k \in 1..R /\ P + C + k = i
    BY <2>0
  <2> HIDE DEF k
  <2>2. g[P + C + k] = rs[k] /\ rs[k].type = "ref"
    BY <1>4, <1>8, <2>1
  <2> QED BY <2>1, <2>2 DEF k
<1>13. n \in 1..n /\ g[n] = ms[1] /\ g[n].type = "meta" /\ g[n].floors = low
  BY <1>2, <1>5, <1>7, <1>8
<1>14. \A i \in 1..n : /\ g[i].type = "commit" <=> IsCommit(i)
                       /\ g[i].type = "ref" <=> IsRef(i)
                       /\ g[i].type = "meta" <=> i = n
                       /\ g[i].type # "torn"
  <2> SUFFICES ASSUME NEW i \in 1..n
      PROVE /\ g[i].type = "commit" <=> IsCommit(i)
            /\ g[i].type = "ref" <=> IsRef(i)
            /\ g[i].type = "meta" <=> i = n
            /\ g[i].type # "torn"
    OBVIOUS
  <2>1. CASE i \in 1..P
    BY <2>1, <1>2, <1>7, <1>10
  <2>2. CASE IsCommit(i)
    BY <2>2, <1>2, <1>7, <1>11
  <2>3. CASE IsRef(i)
    BY <2>3, <1>2, <1>7, <1>12
  <2>4. CASE i = n
    BY <2>4, <1>2, <1>7, <1>13
  <2> QED BY <1>9, <2>1, <2>2, <2>3, <2>4
<1> HIDE DEF n, IsCommit, IsRef
<1>15. ASSUME NEW i \in 1..n, NEW j \in 1..n, IsCommit(i), IsCommit(j), g[i].id = g[j].id
       PROVE  i = j
  BY <1>3, <1>11, <1>15, SMTT(20)
<1>16. ASSUME NEW c \in retained
       PROVE  \E j \in 1..n : /\ IsCommit(j) /\ g[j].id = c
                              /\ g[j].branch = RecordAt(c).branch
                              /\ g[j].sequence = RecordAt(c).sequence
                              /\ Published(g, j, n)
  <2>1. PICK l \in 1..C : cs[l].id = c
    BY <1>3
  <2> DEFINE j == P + l
  <2>2. j \in 1..n /\ IsCommit(j) /\ g[j] = cs[l]
    BY <1>2, <1>7, <1>8 DEF n, IsCommit
  <2> HIDE DEF j
  <2>3. /\ g[j].id = c /\ g[j].branch = RecordAt(c).branch /\ g[j].sequence = RecordAt(c).sequence
    BY <1>3, <2>1, <2>2
  <2>4. Published(g, j, n)
    <3>1. CASE RecordAt(c).sequence > 0
      <4>1. PICK m \in 1..R : /\ rs[m].head = c /\ rs[m].branch = RecordAt(c).branch
                              /\ rs[m].sequence = RecordAt(c).sequence
        BY <1>4, <3>1
      <4>2. P + C + m \in (j + 1)..n
        BY <1>2, <1>7, <2>2 DEF n, IsCommit
      <4>4. g[P + C + m] = rs[m]
        BY <1>8
      <4>3. rs[m].type = "ref"
        BY <1>4
      <4> QED BY <2>3, <4>1, <4>2, <4>3, <4>4 DEF Published
    <3>2. CASE ~(RecordAt(c).sequence > 0)
      <4>1. RecordAt(c).sequence \in Nat
        BY RecordsAt
      <4> QED BY <2>3, <3>2, <4>1 DEF Published
    <3> QED BY <3>1, <3>2
  <2> QED BY <2>2, <2>3, <2>4
<1>17. ASSUME NEW i \in 1..n
       PROVE  RecordSound(g, i, content, low)
  <2>1. ASSUME g[i].type = "commit"
        PROVE  /\ g[i].id \in DOMAIN content /\ TreeSound(g, i - 1, g[i].tree, content[g[i].id])
               /\ \A j \in 1..(i - 1) : g[j].type = "commit" => g[j].id # g[i].id
    <3>1. IsCommit(i)
      BY <1>14, <2>1
    <3> DEFINE k == i - P
    <3>2. k \in 1..C /\ g[i] = cs[k]
      BY <1>11, <3>1
    <3> HIDE DEF k
    <3>3. g[i].id \in retained /\ g[i].tree \in 0..P
          /\ IF g[i].tree = 0 THEN RecordAt(g[i].id).tree = 0
             ELSE pages[g[i].tree] = RecordAt(g[i].id).tree /\ RecordAt(g[i].id).tree # 0
      BY <1>3, <3>2
    <3>4. /\ g[i].id \in DOMAIN content
          /\ TreeSound(File, Len(File), RecordAt(g[i].id).tree, content[g[i].id])
      BY <3>3, RecordsAt
    <3>5. TreeSound(g, i - 1, g[i].tree, content[g[i].id])
      <4>1. CASE g[i].tree = 0
        BY <3>3, <3>4, <4>1 DEF TreeSound
      <4>2. CASE g[i].tree # 0
        <5>1. g[i].tree \in 1..P /\ g[i].tree \in 1..(i - 1)
          BY <1>2, <1>7, <3>1, <3>3, <4>2 DEF IsCommit
        <5>2. g[g[i].tree] = File[RecordAt(g[i].id).tree]
          BY <1>2, <1>8, <3>3, <4>2, <5>1
        <5>3. File[RecordAt(g[i].id).tree].type = "page"
              /\ File[RecordAt(g[i].id).tree].id = content[g[i].id]
          BY <3>3, <3>4, <4>2 DEF TreeSound
        <5> QED BY <4>2, <5>1, <5>2, <5>3 DEF TreeSound
      <4> QED BY <4>1, <4>2
    <3>6. ASSUME NEW j \in 1..(i - 1), g[j].type = "commit" PROVE g[j].id # g[i].id
      <4>1. j \in 1..n /\ j # i
        BY <1>9
      <4>2. IsCommit(j)
        BY <1>14, <3>6, <4>1
      <4> QED BY <1>15, <3>1, <4>1, <4>2
    <3> QED BY <3>3, <3>4, <3>5, <3>6
  <2>2. ASSUME g[i].type = "ref", NEW j \in 1..(i - 1), g[j].type = "ref", g[j].branch = g[i].branch
        PROVE  g[j].sequence <= g[i].sequence
    <3>1. j \in 1..n
      BY <1>9
    <3>2. IsRef(i) /\ IsRef(j)
      BY <1>14, <2>2, <3>1
    <3> DEFINE k == i - P - C
               l == j - P - C
    <3>3. k \in 1..R /\ g[i] = rs[k] /\ l \in 1..R /\ g[j] = rs[l]
      BY <1>12, <3>1, <3>2
    <3>4. l < k
      BY <1>2, <1>7
    <3> HIDE DEF k, l
    <3> QED BY <1>4, <2>2, <3>3, <3>4
  <2>3. g[i].type = "meta" => g[i].floors = low
    BY <1>13, <1>14
  <2> QED BY <1>14, <2>1, <2>2, <2>3 DEF RecordSound
<1>18. ASSUME NEW i \in 1..n
       PROVE  RefSound(g, i, n, 0, <<>>, NoBranches, low)
  <2> SUFFICES ASSUME g[i].type = "ref" PROVE RefSound(g, i, n, 0, <<>>, NoBranches, low)
    BY DEF RefSound
  <2>1. IsRef(i)
    BY <1>14
  <2> DEFINE k == i - P - C
  <2>2. k \in 1..R /\ g[i] = rs[k]
    BY <1>12, <2>1
  <2> HIDE DEF k
  <2>3. /\ g[i].head \in retained /\ g[i].branch \in Branches /\ g[i].sequence \in Nat
        /\ g[i].sequence <= branches[g[i].branch].sequence
    BY <1>4, <2>2
  <2> DEFINE u == Upto(i, n)
  <2>4. u = n
    BY <1>9 DEF Upto
  <2> HIDE DEF u
  <2>5. \A j \in 1..n : IsCommit(j) => j \in (0 + 1)..(i - 1) /\ j \in (0 + 1)..n
    BY <1>2, <1>7, <1>9, <2>1 DEF IsCommit, IsRef
  <2>6. \E j \in (0 + 1)..(i - 1) :
          g[j].type = "commit" /\ g[j].id = g[i].head /\ Published(g, j, u)
    <3>1. PICK j \in 1..n : IsCommit(j) /\ g[j].id = g[i].head /\ Published(g, j, n)
      BY <1>16, <2>3
    <3> QED BY <1>14, <2>4, <2>5, <3>1
  <2>7. ASSUME NEW m \in (low[g[i].branch] + 1)..g[i].sequence
        PROVE  \E j \in (0 + 1)..u :
                  /\ g[j].type = "commit" /\ g[j].branch = g[i].branch /\ g[j].sequence = m
                  /\ Published(g, j, u)
    <3>1. low[g[i].branch] \in Nat /\ branches[g[i].branch].sequence \in Nat
      BY <1>1, <2>3, RecordsAt DEF Heads, Branch
    <3>2. m \in Nat /\ m > low[g[i].branch] /\ m <= branches[g[i].branch].sequence
      BY <2>3, <3>1
    <3>3. PICK c \in retained : RecordAt(c).branch = g[i].branch /\ RecordAt(c).sequence = m
      BY <2>3, <3>2, FloorsAre
    <3>4. PICK j \in 1..n : /\ IsCommit(j) /\ g[j].branch = RecordAt(c).branch
                            /\ g[j].sequence = RecordAt(c).sequence /\ Published(g, j, n)
      BY <1>16
    <3> QED BY <1>14, <2>4, <2>5, <3>3, <3>4
  <2>8. NoBranches[g[i].branch].sequence <= g[i].sequence
    BY <2>3 DEF NoBranches, NoBranch
  <2> QED BY <2>6, <2>7, <2>8 DEF RefSound, u
<1>19. FileSound(g, Len(g), Len(g), content, low)
  BY <1>8, <1>17, <1>18 DEF FileSound
<1>20. LowOf(g) = low
  <2>1. \A i \in DOMAIN g : g[i].type = "meta" => g[i].floors = low
    BY <1>8, <1>13, <1>14
  <2>2. \E i \in DOMAIN g : g[i].type = "meta"
    BY <1>8, <1>13
  <2> QED BY <1>8, <2>1, <2>2, LowIs, ZenonT(20)
<1> DEFINE known == Places(g, retained)
<1>21. DOMAIN known = retained
  BY DEF Places
<1>22. ASSUME NEW c \in retained
       PROVE  /\ known[c] \in 1..n /\ g[known[c]].type = "commit" /\ g[known[c]].id = c
              /\ g[known[c]].branch = RecordAt(c).branch
              /\ g[known[c]].sequence = RecordAt(c).sequence
              /\ Published(g, known[c], n)
  <2>1. PICK j \in 1..n : /\ IsCommit(j) /\ g[j].id = c
                          /\ g[j].branch = RecordAt(c).branch
                          /\ g[j].sequence = RecordAt(c).sequence
                          /\ Published(g, j, n)
    BY <1>16
  <2>2. g[j].type = "commit" /\ \A i \in DOMAIN g : g[i].type = "commit" /\ g[i].id = c => i = j
    BY <1>8, <1>14, <1>15, <2>1
  <2>3. known[c] = CHOOSE i \in DOMAIN g : g[i].type = "commit" /\ g[i].id = c
    BY DEF Places
  <2>4. known[c] = j
    BY <1>8, <2>1, <2>2, <2>3
  <2> HIDE DEF known
  <2> QED BY <2>1, <2>2, <2>4
<1> HIDE DEF known
<1>23. CommitsSound(g, n, known)
  BY <1>21, <1>22 DEF CommitsSound
<1>24. HeadsSound(g, known, branches, low)
  <2> SUFFICES ASSUME NEW b \in Branches
      PROVE  /\ branches[b].head # NONE =>
                  /\ branches[b].head \in DOMAIN known /\ branches[b].base \in DOMAIN known
                  /\ \A m \in (low[b] + 1)..branches[b].sequence :
                       \E c \in DOMAIN known : g[known[c]].branch = b /\ g[known[c]].sequence = m
             /\ \A c \in DOMAIN known : g[known[c]].branch = b => g[known[c]].sequence <= branches[b].sequence
    BY DEF HeadsSound
  <2>1. branches[b].head # NONE => branches[b].head \in DOMAIN known /\ branches[b].base \in DOMAIN known
    BY <1>21 DEF KeepsHeads
  <2>2. ASSUME NEW m \in (low[b] + 1)..branches[b].sequence
        PROVE  \E c \in DOMAIN known : g[known[c]].branch = b /\ g[known[c]].sequence = m
    <3>1. low[b] \in Nat /\ branches[b].sequence \in Nat
      BY <1>1, RecordsAt DEF Heads, Branch
    <3>2. m \in Nat /\ m > low[b] /\ m <= branches[b].sequence
      BY <3>1
    <3>3. PICK c \in retained : RecordAt(c).branch = b /\ RecordAt(c).sequence = m
      BY <3>2, FloorsAre
    <3> QED BY <1>21, <1>22, <3>3
  <2>3. \A c \in DOMAIN known : g[known[c]].branch = b => g[known[c]].sequence <= branches[b].sequence
    BY <1>21, <1>22, RecordsAt
  <2> QED BY <2>1, <2>2, <2>3
<1>25. RefsKnown(g, n, branches)
  <2> SUFFICES ASSUME NEW i \in 1..n, g[i].type = "ref"
      PROVE  g[i].sequence <= branches[g[i].branch].sequence
                        + (IF branches[g[i].branch].head = NONE THEN 0 ELSE 1)
    BY DEF RefsKnown
  <2>1. IsRef(i)
    BY <1>14
  <2> DEFINE k == i - P - C
  <2>2. k \in 1..R /\ g[i] = rs[k]
    BY <1>12, <2>1
  <2> HIDE DEF k
  <2>3. /\ g[i].branch \in Branches /\ g[i].sequence \in Nat
        /\ g[i].sequence <= branches[g[i].branch].sequence
    BY <1>4, <2>2
  <2>4. branches[g[i].branch].sequence \in Nat
    BY <2>3, RecordsAt DEF Heads, Branch
  <2> QED BY <2>3, <2>4
<1>26. branches \in Heads /\ branches # NoBranches
  BY DEF FileAndMemory, View
<1>27. View(g, Len(g), known, branches, low)
  BY <1>8, <1>23, <1>24, <1>25, <1>26 DEF View
<1>28. Len(g) > 0 /\ \E i \in DOMAIN g : g[i].type = "meta"
  BY <1>8, <1>9, <1>13
<1> QED BY <1>1, <1>8, <1>19, <1>20, <1>27, <1>28 DEF known

-----------------------------------------------------------------------------
(* What an action leaves alone. *)

\* Files keep their records and what is synced.
SameFiles ==
  /\ \A g \in Generations : gens'[g].file = gens[g].file /\ gens'[g].synced = gens[g].synced
  /\ UNCHANGED <<path, checkpoint, current, content>>

SameMemory == UNCHANGED <<commits, branches, floors, retains>>

\* The generations, field by field.
LEMMA GensTyped ==
  ASSUME Types
  PROVE  /\ current \in Generations
         /\ \A g \in Generations :
              /\ gens[g] \in Generation
              /\ gens[g].file \in Seq(Record) /\ gens[g].synced \in Nat /\ gens[g].leases \in Nat
              /\ gens[g].retired \in BOOLEAN /\ gens[g].closed \in BOOLEAN
BY DEF Types, Generation

\* Files that stay as they are stay sound.
LEMMA FilesKept ==
  ASSUME Types, SameFiles
  PROVE  /\ Written' = Written /\ File' = File
         /\ Numbered /\ (Serving' => Serving) /\ (Running' => Running) => Numbered'
         /\ FilesSound /\ (Running' => Running) => FilesSound'
         /\ CheckpointSound => CheckpointSound'
<1>1. current \in Generations /\ path \in SUBSET Generations
  BY DEF Types
<1>2. Written' = Written /\ File' = File
  BY <1>1 DEF SameFiles, Written, File
<1>3. ASSUME Numbered, Serving' => Serving, Running' => Running
      PROVE  Numbered'
  <2>1. \A g \in path \union {current} : gens'[g].synced = gens[g].synced
    BY <1>1 DEF SameFiles
  <2> QED BY <1>2, <1>3, <2>1 DEF Numbered, SameFiles
<1>4. ASSUME FilesSound, Running' => Running
      PROVE  FilesSound'
  <2>1. path' = path /\ content' = content /\ current' = current
    BY DEF SameFiles
  <2>2. \A g \in path : gens'[g].file = gens[g].file /\ gens'[g].synced = gens[g].synced
    BY <1>1 DEF SameFiles
  <2> QED BY <1>4, <2>1, <2>2 DEF FilesSound
<1>5. ASSUME CheckpointSound
      PROVE  CheckpointSound'
  <2>1. path' = path /\ checkpoint' = checkpoint
    BY DEF SameFiles
  <2>2. \A g \in path : gens'[g].file = gens[g].file /\ gens'[g].synced = gens[g].synced
    BY <1>1 DEF SameFiles
  <2> QED BY <1>5, <2>1, <2>2 DEF CheckpointSound
<1> QED BY <1>2, <1>3, <1>4, <1>5

\* So does what memory says of them.
LEMMA MemoryKept ==
  ASSUME Types, SameFiles, SameMemory
  PROVE  /\ \A c : RecordAt(c)' = RecordAt(c)
         /\ MemorySound /\ (Running' => Running)
              /\ (state = "opening" => state' = "opening" /\ job'.id = job.id) => MemorySound'
         /\ job' = job /\ OpenSound => OpenSound'
         /\ job' = job /\ CommitSound => CommitSound'
<1>1. File' = File
  BY FilesKept
<1>2. /\ commits' = commits /\ branches' = branches /\ floors' = floors
      /\ checkpoint' = checkpoint /\ current' = current
  BY DEF SameFiles, SameMemory
<1>3. \A c : RecordAt(c)' = RecordAt(c)
  BY <1>1, <1>2 DEF RecordAt
<1>4. ASSUME MemorySound, Running' => Running,
             state = "opening" => state' = "opening" /\ job'.id = job.id
      PROVE  MemorySound'
  BY <1>1, <1>2, <1>4 DEF MemorySound, Behind
<1>5. ASSUME job' = job, OpenSound PROVE OpenSound'
  BY <1>1, <1>2, <1>5 DEF OpenSound
<1>6. ASSUME job' = job, CommitSound PROVE CommitSound'
  BY <1>1, <1>2, <1>6 DEF CommitSound
<1> QED BY <1>3, <1>4, <1>5, <1>6

-----------------------------------------------------------------------------
(* Leases. *)

\* Those who read a generation can be counted.
LEMMA HeldIs ==
  /\ \A g : IsFiniteSet(ReadersOf(g)) /\ IsFiniteSet(StreamsOf(g)) /\ Held(g) \in Nat
  /\ \A g : IsFiniteSet(ReadersOf(g)') /\ IsFiniteSet(StreamsOf(g)') /\ Held(g)' \in Nat
<1>1. \A S \in SUBSET Readers : IsFiniteSet(S) /\ Cardinality(S) \in Nat
  BY FileAssumption, FS_Subset, FS_CardinalityType
<1>2. \A S \in SUBSET Streams : IsFiniteSet(S) /\ Cardinality(S) \in Nat
  BY FileAssumption, FS_Subset, FS_CardinalityType
<1>3. \A g : ReadersOf(g) \in SUBSET Readers /\ StreamsOf(g) \in SUBSET Streams
  BY DEF ReadersOf, StreamsOf
<1>4. \A g : ReadersOf(g)' \in SUBSET Readers /\ StreamsOf(g)' \in SUBSET Streams
  BY DEF ReadersOf, StreamsOf
<1> QED BY <1>1, <1>2, <1>3, <1>4 DEF Held

\* One reader more, or one fewer.
LEMMA OneMore ==
  ASSUME NEW S, IsFiniteSet(S), NEW T, NEW x, x \notin S, T = S \union {x}
  PROVE  Cardinality(T) = Cardinality(S) + 1
BY FS_AddElement

\* Readers that stay as they are hold what they held.
LEMMA ReadersSame ==
  ASSUME \A r \in Readers : (readers'[r].state = "open" \/ readers[r].state = "open")
                               => readers'[r] = readers[r]
  PROVE  \A g : ReadersOf(g)' = ReadersOf(g)
<1>1. \A g : \A r \in Readers : readers'[r].state = "open" /\ readers'[r].gen = g
                                 <=> readers[r].state = "open" /\ readers[r].gen = g
  OBVIOUS
<1> QED BY <1>1 DEF ReadersOf

\* So do streams.
LEMMA StreamsSame ==
  ASSUME \A t \in Streams :
           (streams'[t].state = "replaying" \/ streams[t].state = "replaying")
             => streams'[t].state = streams[t].state /\ streams'[t].gen = streams[t].gen
  PROVE  \A g : StreamsOf(g)' = StreamsOf(g)
<1>1. \A g : \A t \in Streams : streams'[t].state = "replaying" /\ streams'[t].gen = g
                                 <=> streams[t].state = "replaying" /\ streams[t].gen = g
  OBVIOUS
<1> QED BY <1>1 DEF StreamsOf

\* One reader more.
LEMMA ReaderMore ==
  ASSUME NEW r \in Readers, NEW h,
         \A q \in Readers : q # r => readers'[q] = readers[q],
         readers[r].state # "open", readers'[r].state = "open", readers'[r].gen = h
  PROVE  \A g : Cardinality(ReadersOf(g)') = Cardinality(ReadersOf(g)) + (IF g = h THEN 1 ELSE 0)
<1> SUFFICES ASSUME NEW g
             PROVE Cardinality(ReadersOf(g)') = Cardinality(ReadersOf(g)) + (IF g = h THEN 1 ELSE 0)
  OBVIOUS
<1>1. CASE g = h
  <2>1. r \notin ReadersOf(g) /\ ReadersOf(g)' = ReadersOf(g) \union {r}
    BY <1>1 DEF ReadersOf
  <2>2. IsFiniteSet(ReadersOf(g))
    BY HeldIs
  <2> QED BY <1>1, <2>1, <2>2, OneMore
<1>2. CASE g # h
  <2>1. ReadersOf(g)' = ReadersOf(g)
    BY <1>2 DEF ReadersOf
  <2>2. Cardinality(ReadersOf(g)) \in Nat
    BY HeldIs, FS_CardinalityType
  <2> QED BY <1>2, <2>1, <2>2
<1> QED BY <1>1, <1>2

\* One fewer.
LEMMA ReaderFewer ==
  ASSUME NEW r \in Readers, NEW h,
         \A q \in Readers : q # r => readers'[q] = readers[q],
         readers'[r].state # "open", readers[r].state = "open", readers[r].gen = h
  PROVE  \A g : Cardinality(ReadersOf(g)) = Cardinality(ReadersOf(g)') + (IF g = h THEN 1 ELSE 0)
<1> SUFFICES ASSUME NEW g
             PROVE Cardinality(ReadersOf(g)) = Cardinality(ReadersOf(g)') + (IF g = h THEN 1 ELSE 0)
  OBVIOUS
<1>1. CASE g = h
  <2>1. r \notin ReadersOf(g)' /\ ReadersOf(g) = ReadersOf(g)' \union {r}
    BY <1>1 DEF ReadersOf
  <2>2. IsFiniteSet(ReadersOf(g)')
    BY HeldIs
  <2> QED BY <1>1, <2>1, <2>2, OneMore
<1>2. CASE g # h
  <2>1. ReadersOf(g)' = ReadersOf(g)
    BY <1>2 DEF ReadersOf
  <2>2. Cardinality(ReadersOf(g)) \in Nat
    BY HeldIs, FS_CardinalityType
  <2> QED BY <1>2, <2>1, <2>2
<1> QED BY <1>1, <1>2

\* One stream more.
LEMMA StreamMore ==
  ASSUME NEW t \in Streams, NEW h,
         \A q \in Streams : q # t => streams'[q] = streams[q],
         streams[t].state # "replaying", streams'[t].state = "replaying", streams'[t].gen = h
  PROVE  \A g : Cardinality(StreamsOf(g)') = Cardinality(StreamsOf(g)) + (IF g = h THEN 1 ELSE 0)
<1> SUFFICES ASSUME NEW g
             PROVE Cardinality(StreamsOf(g)') = Cardinality(StreamsOf(g)) + (IF g = h THEN 1 ELSE 0)
  OBVIOUS
<1>1. CASE g = h
  <2>1. t \notin StreamsOf(g) /\ StreamsOf(g)' = StreamsOf(g) \union {t}
    BY <1>1 DEF StreamsOf
  <2>2. IsFiniteSet(StreamsOf(g))
    BY HeldIs
  <2> QED BY <1>1, <2>1, <2>2, OneMore
<1>2. CASE g # h
  <2>1. StreamsOf(g)' = StreamsOf(g)
    BY <1>2 DEF StreamsOf
  <2>2. Cardinality(StreamsOf(g)) \in Nat
    BY HeldIs, FS_CardinalityType
  <2> QED BY <1>2, <2>1, <2>2
<1> QED BY <1>1, <1>2

\* One fewer.
LEMMA StreamFewer ==
  ASSUME NEW t \in Streams, NEW h,
         \A q \in Streams : q # t => streams'[q] = streams[q],
         streams'[t].state # "replaying", streams[t].state = "replaying", streams[t].gen = h
  PROVE  \A g : Cardinality(StreamsOf(g)) = Cardinality(StreamsOf(g)') + (IF g = h THEN 1 ELSE 0)
<1> SUFFICES ASSUME NEW g
             PROVE Cardinality(StreamsOf(g)) = Cardinality(StreamsOf(g)') + (IF g = h THEN 1 ELSE 0)
  OBVIOUS
<1>1. CASE g = h
  <2>1. t \notin StreamsOf(g)' /\ StreamsOf(g) = StreamsOf(g)' \union {t}
    BY <1>1 DEF StreamsOf
  <2>2. IsFiniteSet(StreamsOf(g)')
    BY HeldIs
  <2> QED BY <1>1, <2>1, <2>2, OneMore
<1>2. CASE g # h
  <2>1. StreamsOf(g)' = StreamsOf(g)
    BY <1>2 DEF StreamsOf
  <2>2. Cardinality(StreamsOf(g)) \in Nat
    BY HeldIs, FS_CardinalityType
  <2> QED BY <1>2, <2>1, <2>2
<1> QED BY <1>1, <1>2

\* One of the two counts moves: so does what is held.
LEMMA HeldMoves ==
  ASSUME NEW h, NEW a \in Nat, NEW b \in Nat,
         \/ /\ \A g : Cardinality(ReadersOf(g)') + (IF g = h THEN b ELSE 0)
                        = Cardinality(ReadersOf(g)) + (IF g = h THEN a ELSE 0)
            /\ \A g : StreamsOf(g)' = StreamsOf(g)
         \/ /\ \A g : Cardinality(StreamsOf(g)') + (IF g = h THEN b ELSE 0)
                        = Cardinality(StreamsOf(g)) + (IF g = h THEN a ELSE 0)
            /\ \A g : ReadersOf(g)' = ReadersOf(g)
  PROVE  \A g : Held(g)' + (IF g = h THEN b ELSE 0) = Held(g) + (IF g = h THEN a ELSE 0)
<1>1. \A g : /\ Cardinality(ReadersOf(g)) \in Nat /\ Cardinality(StreamsOf(g)) \in Nat
             /\ Cardinality(ReadersOf(g)') \in Nat /\ Cardinality(StreamsOf(g)') \in Nat
  BY HeldIs, FS_CardinalityType
<1>2. \A g : Held(g) = Cardinality(ReadersOf(g)) + Cardinality(StreamsOf(g))
             /\ Held(g)' = Cardinality(ReadersOf(g)') + Cardinality(StreamsOf(g)')
  BY DEF Held
<1> QED BY <1>1, <1>2

\* What no caller touches.
EngineStays ==
  UNCHANGED <<path, checkpoint, state, current, commits, branches, retains, floors, job,
              barrier, collected, content, writeFaults>>

\* One lease more, for one more that reads.
LEMMA TakesLease ==
  ASSUME Types, Leased, Running, EngineStays,
         NEW h \in Generations, ~gens[h].closed, h \in Written, Holds(h, 1),
         \A g : Held(g)' + (IF g = h THEN 0 ELSE 0) = Held(g) + (IF g = h THEN 1 ELSE 0),
         \A r \in Readers : readers'[r].state = "open" =>
           readers'[r].gen = h \/ (readers[r].state = "open" /\ readers'[r].gen = readers[r].gen),
         \A t \in Streams : streams'[t].state = "replaying" =>
           streams'[t].gen = h
             \/ (streams[t].state = "replaying" /\ streams'[t].gen = streams[t].gen)
  PROVE  gens' \in [Generations -> Generation] /\ SameFiles /\ Leased'
<1> DEFINE after == [gens[h] EXCEPT !.leases = @ + 1]
<1>1. current \in Generations /\ \A g \in Generations :
        /\ gens[g] \in Generation
        /\ gens[g].file \in Seq(Record) /\ gens[g].synced \in Nat /\ gens[g].leases \in Nat
        /\ gens[g].retired \in BOOLEAN /\ gens[g].closed \in BOOLEAN
  BY GensTyped
<1>2. after \in Generation /\ after.file = gens[h].file /\ after.synced = gens[h].synced
      /\ after.leases = gens[h].leases + 1 /\ after.retired = gens[h].retired
      /\ after.closed = gens[h].closed
  BY <1>1 DEF Generation
<1>3. gens' = [gens EXCEPT ![h] = after]
  BY DEF Holds
<1> HIDE DEF after
<1>4. gens' \in [Generations -> Generation]
  BY <1>2, <1>3 DEF Types
<1>5. \A g \in Generations : gens'[g] = IF g = h THEN after ELSE gens[g]
  BY <1>3 DEF Types
<1>6. SameFiles
  BY <1>2, <1>5 DEF SameFiles, EngineStays
<1>7. \A g \in Generations : /\ gens'[g].retired = gens[g].retired /\ gens'[g].closed = gens[g].closed
                             /\ gens'[g].leases = gens[g].leases + (IF g = h THEN 1 ELSE 0)
  BY <1>1, <1>2, <1>5
<1>8. Leased'
  <2>1. Written' = Written /\ job' = job /\ current' = current
    BY <1>6, FilesKept DEF EngineStays
  <2>2. ~gens'[current].retired
    BY <1>1, <1>7 DEF Leased
  <2>3. job.kind = "install" =>
          job.previous \in Generations \ {current} /\ ~gens'[job.previous].retired
    BY <1>1, <1>7 DEF Leased
  <2>4. ASSUME NEW g \in Generations
        PROVE  IF gens'[g].closed THEN gens'[g].retired /\ Held(g)' = 0
               ELSE /\ gens'[g].leases = Held(g)' + (IF gens'[g].retired THEN 0 ELSE 1)
                    /\ gens'[g].leases > 0
    <3>1. Held(g) \in Nat /\ Held(g)' \in Nat
      BY HeldIs
    <3>2. Held(g)' = Held(g) + (IF g = h THEN 1 ELSE 0)
      BY <3>1
    <3>3. IF gens[g].closed THEN gens[g].retired /\ Held(g) = 0
          ELSE /\ gens[g].leases = Held(g) + (IF gens[g].retired THEN 0 ELSE 1)
               /\ gens[g].leases > 0
      BY DEF Leased
    <3>4. /\ gens'[g].retired = gens[g].retired /\ gens'[g].closed = gens[g].closed
          /\ gens'[g].leases = gens[g].leases + (IF g = h THEN 1 ELSE 0)
          /\ gens[g].leases \in Nat
      BY <1>1, <1>7
    <3>5. CASE gens[g].closed
      BY <3>1, <3>2, <3>3, <3>4, <3>5
    <3>6. CASE ~gens[g].closed
      BY <3>1, <3>2, <3>3, <3>4, <3>6
    <3> QED BY <3>5, <3>6
  <2>5. \A r \in Readers : readers'[r].state = "open" => readers'[r].gen \in Written
    BY DEF Leased
  <2>6. \A t \in Streams : streams'[t].state = "replaying" => streams'[t].gen \in Written
    BY DEF Leased
  <2> QED BY <2>1, <2>2, <2>3, <2>4, <2>5, <2>6 DEF Leased
<1> QED BY <1>4, <1>6, <1>8

\* One lease fewer, for one that reads no more: the last closes a retired file.
LEMMA GivesLease ==
  ASSUME Types, Leased, Running, EngineStays,
         NEW h \in Generations, ReleaseGeneration(h),
         \A g : Held(g)' + (IF g = h THEN 1 ELSE 0) = Held(g) + (IF g = h THEN 0 ELSE 0),
         \A r \in Readers : readers'[r].state = "open" =>
           readers[r].state = "open" /\ readers'[r].gen = readers[r].gen,
         \A t \in Streams : streams'[t].state = "replaying" =>
           streams[t].state = "replaying" /\ streams'[t].gen = streams[t].gen
  PROVE  gens' \in [Generations -> Generation] /\ SameFiles /\ Leased'
<1> DEFINE last == gens[h].leases = 1 /\ gens[h].retired
           after == [gens[h] EXCEPT !.leases = @ - 1, !.closed = last]
<1>1. current \in Generations /\ \A g \in Generations :
        /\ gens[g] \in Generation
        /\ gens[g].file \in Seq(Record) /\ gens[g].synced \in Nat /\ gens[g].leases \in Nat
        /\ gens[g].retired \in BOOLEAN /\ gens[g].closed \in BOOLEAN
  BY GensTyped
<1>2. \A g \in Generations :
        IF gens[g].closed THEN gens[g].retired /\ Held(g) = 0
        ELSE /\ gens[g].leases = Held(g) + (IF gens[g].retired THEN 0 ELSE 1)
             /\ gens[g].leases > 0
  BY DEF Leased
<1>3. \A g : Held(g) \in Nat /\ Held(g)' \in Nat
  BY HeldIs
<1>4. \A g : Held(g)' + (IF g = h THEN 1 ELSE 0) = Held(g)
  BY <1>3
<1>5. ~gens[h].closed /\ gens[h].leases > 0
  BY <1>2, <1>3, <1>4
<1>l. last \in BOOLEAN
  OBVIOUS
<1> DEFINE chosen == IF gens[h].closed THEN gens[h] ELSE after
<1>c. gens' = [gens EXCEPT ![h] = chosen]
  BY DEF ReleaseGeneration
<1>d. chosen = after
  BY <1>5
<1>6. gens' = [gens EXCEPT ![h] = after]
  <2> HIDE DEF after, chosen
  <2> QED BY <1>c, <1>d
<1>7. after \in Generation /\ after.file = gens[h].file /\ after.synced = gens[h].synced
      /\ after.leases = gens[h].leases - 1 /\ after.retired = gens[h].retired
      /\ after.closed = last
  <2>1. PICK z \in BOOLEAN : z = last
    BY <1>l
  <2> DEFINE other == [gens[h] EXCEPT !.leases = @ - 1, !.closed = z]
  <2>2. other \in Generation /\ other.file = gens[h].file /\ other.synced = gens[h].synced
        /\ other.leases = gens[h].leases - 1 /\ other.retired = gens[h].retired
        /\ other.closed = z
    <3>1. gens[h].leases - 1 \in Nat
      BY <1>1, <1>5
    <3>2. gens[h] \in Generation
      BY <1>1
    <3> QED BY <3>1, <3>2 DEF Generation
  <2>3. after = other
    <3> HIDE DEF last
    <3> QED BY <2>1
  <2> HIDE DEF after, other
  <2> QED BY <2>1, <2>2, <2>3
<1> HIDE DEF after
<1>8. gens' \in [Generations -> Generation]
  BY <1>6, <1>7 DEF Types
<1>9. \A g \in Generations : gens'[g] = IF g = h THEN after ELSE gens[g]
  BY <1>6 DEF Types
<1>10. SameFiles
  BY <1>7, <1>9 DEF SameFiles, EngineStays
<1>11. \A g \in Generations : gens'[g].retired = gens[g].retired
  BY <1>7, <1>9
<1>12. Leased'
  <2>1. Written' = Written /\ job' = job /\ current' = current
    BY <1>10, FilesKept DEF EngineStays
  <2>2. ~gens'[current].retired
    BY <1>1, <1>11 DEF Leased
  <2>3. job.kind = "install" =>
          job.previous \in Generations \ {current} /\ ~gens'[job.previous].retired
    BY <1>1, <1>11 DEF Leased
  <2>4. ASSUME NEW g \in Generations
        PROVE  IF gens'[g].closed THEN gens'[g].retired /\ Held(g)' = 0
               ELSE /\ gens'[g].leases = Held(g)' + (IF gens'[g].retired THEN 0 ELSE 1)
                    /\ gens'[g].leases > 0
    <3>1. CASE g # h
      <4>1. gens'[g] = gens[g] /\ Held(g)' = Held(g)
        BY <1>3, <1>4, <1>9, <3>1
      <4> QED BY <1>2, <4>1
    <3>2. CASE g = h
      <4>1. gens'[h].leases = gens[h].leases - 1 /\ gens'[h].retired = gens[h].retired
            /\ gens'[h].closed = last
        BY <1>7, <1>9
      <4>2. Held(h) = Held(h)' + 1 /\ Held(h)' \in Nat
        BY <1>3, <1>4
      <4>3. gens[h].leases = Held(h) + (IF gens[h].retired THEN 0 ELSE 1)
            /\ gens[h].leases > 0 /\ gens[h].leases \in Nat
        BY <1>1, <1>2, <1>5
      <4>4. CASE last
        <5>1. gens[h].leases = 1 /\ gens[h].retired
          BY <4>4
        <5>2. Held(h)' = 0
          BY <4>2, <4>3, <5>1
        <5>3. gens'[h].closed /\ gens'[h].retired
          BY <4>1, <4>4, <5>1
        <5> QED BY <3>2, <5>2, <5>3
      <4>5. CASE ~last
        <5>1. gens[h].leases # 1 \/ ~gens[h].retired
          BY <4>5
        <5>2. ~gens'[h].closed
          BY <4>1, <4>5
        <5>3. CASE gens[h].retired
          <6>1. gens'[h].leases = Held(h)' /\ gens'[h].leases > 0
            BY <4>1, <4>2, <4>3, <5>1, <5>3
          <6> QED BY <3>2, <4>1, <4>2, <5>2, <5>3, <6>1
        <5>4. CASE ~gens[h].retired
          <6>1. gens'[h].leases = Held(h)' + 1 /\ gens'[h].leases > 0
            BY <4>1, <4>2, <4>3, <5>4
          <6> QED BY <3>2, <4>1, <5>2, <5>4, <6>1
        <5> QED BY <5>3, <5>4
      <4> QED BY <4>4, <4>5
    <3> QED BY <3>1, <3>2
  <2>5. \A r \in Readers : readers'[r].state = "open" => readers'[r].gen \in Written
    BY DEF Leased
  <2>6. \A t \in Streams : streams'[t].state = "replaying" => streams'[t].gen \in Written
    BY DEF Leased
  <2> QED BY <2>1, <2>2, <2>3, <2>4, <2>5, <2>6 DEF Leased
<1> QED BY <1>8, <1>10, <1>12

\* None more, none fewer.
LEMMA KeepsLeases ==
  ASSUME Types, Leased, Running, EngineStays, gens' = gens,
         \A r \in Readers : (readers'[r].state = "open" \/ readers[r].state = "open")
                              => readers'[r] = readers[r],
         \A t \in Streams :
           (streams'[t].state = "replaying" \/ streams[t].state = "replaying")
             => streams'[t].state = streams[t].state /\ streams'[t].gen = streams[t].gen
  PROVE  gens' \in [Generations -> Generation] /\ SameFiles /\ Leased'
<1>1. gens' \in [Generations -> Generation]
  BY DEF Types
<1>2. SameFiles
  BY DEF SameFiles, EngineStays
<1>3. \A g : Held(g)' = Held(g)
  BY ReadersSame, StreamsSame DEF Held
<1>4. Written' = Written /\ job' = job /\ current' = current
  BY <1>2, FilesKept DEF EngineStays
<1>5. \A r \in Readers : readers'[r].state = "open" => readers'[r].gen \in Written
  BY DEF Leased
<1>6. \A t \in Streams : streams'[t].state = "replaying" => streams'[t].gen \in Written
  BY DEF Leased
<1> QED BY <1>1, <1>2, <1>3, <1>4, <1>5, <1>6 DEF Leased

\* What the collector and new snapshots go by.
LEMMA ServingView ==
  ASSUME Sound, Serving
  PROVE  /\ current \in path /\ current \in Generations /\ File \in Seq(Record)
         /\ Length(File) = Len(File) /\ gens[current].synced \in 0..Len(File)
         /\ FileAndMemory(gens[current].synced)
         /\ Behind(commits, branches)
         /\ LowOf(File) # NoFloors => \E i \in 1..gens[current].synced : File[i].type = "meta"
         /\ \A i \in DOMAIN File : File[i].type # "torn"
<1>1. /\ Types /\ Numbered /\ FilesSound /\ MemorySound
  BY DEF Sound
<1>2. Running /\ state # "opening"
  BY DEF Serving, Running
<1>3. current \in path /\ current \in Generations
  BY <1>1, <1>2 DEF Numbered, Types
<1>4. File \in Seq(Record) /\ gens[current].synced \in Nat
  BY <1>1, GensTyped DEF File
<1>5. /\ gens[current].synced <= Length(File) /\ Length(File) = Len(File)
      /\ FileSound(File, Length(File), gens[current].synced, content, LowOf(File))
      /\ LowOf(File) # NoFloors => \E i \in 1..gens[current].synced : File[i].type = "meta"
  BY <1>1, <1>2, <1>3 DEF FilesSound, File
<1>6. Len(File) \in Nat /\ DOMAIN File = 1..Len(File)
  BY <1>4, FileTyped
<1>7. View(File, Len(File), commits, branches, floors) /\ Behind(commits, branches)
  BY <1>1, <1>2 DEF MemorySound
<1>8. FileAndMemory(gens[current].synced)
  <2> DEFINE synced == gens[current].synced
  <2>1. synced \in 0..Len(File)
    BY <1>4, <1>5, <1>6
  <2>2. FileSound(File, Len(File), synced, content, LowOf(File))
    BY <1>5
  <2> QED BY <1>1, <1>4, <1>5, <1>7, <2>1, <2>2 DEF FileAndMemory, Types
<1>9. \A i \in DOMAIN File : File[i].type # "torn"
  BY <1>5, <1>6 DEF FileSound, RecordSound
<1> QED BY <1>3, <1>4, <1>5, <1>6, <1>7, <1>8, <1>9

\* What callers do changes nothing but their own places and leases.
LEMMA CallersMove ==
  ASSUME Sound, Serving, EngineStays, SameFiles, Leased',
         gens' \in [Generations -> Generation],
         readers' \in [Readers -> Reader], streams' \in [Streams -> Stream],
         \A r \in Readers : readers'[r].state = "open" =>
           \/ readers'[r] = readers[r]
           \/ /\ job.kind # "collect" /\ readers'[r].commit \in DOMAIN commits
              /\ readers'[r].gen = current
              /\ readers'[r].tree = RecordAt(readers'[r].commit).tree,
         \A r \in Readers : readers'[r].state = "waiting" =>
           readers'[r] = readers[r] \/ readers'[r].awaits = barrier,
         \A t \in Streams : streams'[t].state = "waiting" =>
           streams'[t] = streams[t] \/ streams'[t].awaits = barrier
  PROVE  Sound'
<1>1. /\ Types /\ Numbered /\ Room /\ Quiet /\ Leased
      /\ FilesSound /\ CheckpointSound /\ MemorySound /\ JobSound /\ Snapshots
  BY DEF Sound
<1>2. /\ path' = path /\ checkpoint' = checkpoint /\ state' = state /\ current' = current
      /\ commits' = commits /\ branches' = branches /\ retains' = retains /\ floors' = floors
      /\ job' = job /\ barrier' = barrier /\ collected' = collected /\ content' = content
  BY DEF EngineStays
<1>3. Serving' = Serving /\ Running' = Running /\ SameMemory
  BY <1>2 DEF Serving, Running, SameMemory
<1>4. Written' = Written /\ File' = File /\ Numbered' /\ FilesSound' /\ CheckpointSound'
  BY <1>1, <1>3, FilesKept
<1>5. MemorySound' /\ OpenSound' /\ CommitSound' /\ \A c : RecordAt(c)' = RecordAt(c)
  <2>1. OpenSound /\ CommitSound
    BY <1>1 DEF JobSound
  <2> QED BY <1>1, <1>2, <1>3, <2>1, MemoryKept
<1>6. Types'
  BY <1>1, <1>2 DEF Types
<1>7. Room'
  BY <1>1, <1>2, <1>4 DEF Room
<1>8. Quiet'
  BY <1>3 DEF Quiet
<1>9. JobSound'
  <2>1. CollectSound'
    <3>1. SUFFICES ASSUME job.kind = "collect" PROVE CollectSound'
      BY <1>2 DEF CollectSound
    <3>2. \A r \in Readers : readers'[r].state = "open" => readers'[r].commit \in job.retained
      BY <1>1, <3>1 DEF JobSound, CollectSound
    <3> QED BY <1>1, <1>2, <3>1, <3>2 DEF JobSound, CollectSound
  <2>2. ASSUME job.kind \in {"collect", "install"}
        PROVE  /\ \A r \in Readers : readers'[r].state = "waiting" => readers'[r].awaits > collected
               /\ \A t \in Streams : streams'[t].state = "waiting" => streams'[t].awaits > collected
    <3>1. barrier > collected
      BY <1>1, <2>2 DEF Room, Types
    <3> QED BY <1>1, <2>2, <3>1 DEF JobSound
  <2> QED BY <1>1, <1>2, <1>5, <2>1, <2>2 DEF JobSound
<1>10. Snapshots'
  <2> SUFFICES ASSUME NEW r \in Readers, readers'[r].state = "open"
               PROVE  LET s == readers'[r] IN
                      /\ s.commit \in DOMAIN commits
                      /\ TreeSound(gens'[s.gen].file, Len(gens'[s.gen].file), s.tree, content[s.commit])
                      /\ \A i \in DOMAIN gens'[s.gen].file : gens'[s.gen].file[i].type # "torn"
    BY <1>2 DEF Snapshots
  <2>0. readers[r] \in Reader /\ readers'[r].gen \in Generations
    <3>1. readers'[r].gen \in Written'
      BY <1>3, <1>1, <1>4 DEF Leased, Serving, Running
    <3> QED BY <1>1, <1>4, <3>1 DEF Types, Written
  <2>1. CASE readers'[r] = readers[r]
    <3>1. gens'[readers[r].gen].file = gens[readers[r].gen].file
      BY <2>0, <2>1 DEF SameFiles
    <3> QED BY <1>1, <2>1, <3>1 DEF Snapshots
  <2>2. CASE /\ job.kind # "collect" /\ readers'[r].commit \in DOMAIN commits
             /\ readers'[r].gen = current
             /\ readers'[r].tree = RecordAt(readers'[r].commit).tree
    <3>1. FileAndMemory(gens[current].synced) /\ Length(File) = Len(File)
      BY ServingView
    <3> DEFINE c == readers'[r].commit
    <3>2. /\ RecordAt(c).tree = readers'[r].tree
          /\ TreeSound(File, Len(File), RecordAt(c).tree, content[c])
      BY <2>2, <3>1, RecordsAt
    <3>3. gens'[readers'[r].gen].file = File
      BY <1>4, <2>2, <1>2 DEF File
    <3>4. \A i \in DOMAIN File : File[i].type # "torn"
      BY ServingView
    <3> HIDE DEF c
    <3>5. c = readers'[r].commit
      BY DEF c
    <3> QED BY <2>2, <3>2, <3>3, <3>4, <3>5
  <2> QED BY <2>1, <2>2
<1> QED BY <1>1, <1>4, <1>5, <1>6, <1>7, <1>8, <1>9, <1>10 DEF Sound

-----------------------------------------------------------------------------
(* Callers. *)

\* Callers at rest, and the fields of any.
LEMMA ReaderTyped ==
  /\ NoReader \in Reader
  /\ \A r \in Reader : /\ r.state \in {"idle", "waiting", "open"} /\ r.awaits \in Nat
                       /\ r.commit \in Ids \union {NONE} /\ r.gen \in Nat /\ r.tree \in Nat
  /\ NoStream \in Stream
  /\ \A s \in Stream : /\ s.state \in {"idle", "waiting", "replaying", "live", "lost"}
                       /\ s.branch \in Branches /\ s.gen \in Nat /\ s.at \in Nat
                       /\ s.awaits \in Nat /\ s.from \in Nat /\ s.retainAfter \in Nat
                       /\ s.through \in Nat /\ s.after \in Nat /\ s.queue \in Seq(Nat)
<1>1. NoReader \in Reader
  BY DEF NoReader, Reader, NONE
<1>2. \A r \in Reader : /\ r.state \in {"idle", "waiting", "open"} /\ r.awaits \in Nat
                        /\ r.commit \in Ids \union {NONE} /\ r.gen \in Nat /\ r.tree \in Nat
  BY DEF Reader
<1>3. NoStream \in Stream
  <2>1. <<>> \in Seq(Nat)
    OBVIOUS
  <2> QED BY <2>1, FileAssumption DEF NoStream, Stream
<1>4. \A s \in Stream : /\ s.state \in {"idle", "waiting", "replaying", "live", "lost"}
                        /\ s.branch \in Branches /\ s.gen \in Nat /\ s.at \in Nat
                        /\ s.awaits \in Nat /\ s.from \in Nat /\ s.retainAfter \in Nat
                        /\ s.through \in Nat /\ s.after \in Nat /\ s.queue \in Seq(Nat)
  BY DEF Stream
<1> QED BY <1>1, <1>2, <1>3, <1>4

\* Callers are served by a running process.
LEMMA CallersServed ==
  ASSUME Sound
  PROVE  /\ Types /\ Leased /\ (Serving => Running)
         /\ \A r \in Readers : readers[r] \in Reader /\ (readers[r].state # "idle" => Serving)
         /\ \A t \in Streams : streams[t] \in Stream /\ (streams[t].state # "idle" => Serving)
<1>1. Types /\ Leased /\ Quiet
  BY DEF Sound
<1> QED BY <1>1 DEF Types, Quiet, Serving, Running

\* The current generation is open.
LEMMA GenerationOpen ==
  ASSUME Sound, Serving
  PROVE  current \in Generations /\ current \in Written /\ ~gens[current].closed
<1>1. Types /\ Leased /\ Running
  BY DEF Sound, Serving, Running
<1>2. current \in Generations /\ ~gens[current].closed
  BY <1>1 DEF Types, Leased
<1>3. gens[current].file # <<>>
  <2>1. FileAndMemory(gens[current].synced) /\ File \in Seq(Record)
    BY ServingView
  <2>2. View(File, Len(File), commits, branches, floors)
    BY <2>1 DEF FileAndMemory
  <2>3. PICK b \in Branches : branches[b] # NoBranch
    BY <2>2 DEF View, Heads, NoBranches
  <2>4. branches[b].head # NONE
    BY <2>2, <2>3 DEF View, Heads
  <2>5. PICK c \in DOMAIN commits : TRUE
    BY <2>2, <2>4 DEF View, HeadsSound
  <2>6. commits[c] \in 1..Len(File)
    BY <2>2 DEF View, CommitsSound
  <2>7. Len(File) # 0
    BY <2>1, <2>6, FileTyped
  <2> QED BY <2>7 DEF File
<1> QED BY <1>2, <1>3 DEF Written

\* snapshot() up to its first await.
LEMMA CallSnapshotSound ==
  ASSUME Sound, NEW r \in Readers, CallSnapshot(r)
  PROVE  Sound'
<1> DEFINE after == [readers[r] EXCEPT !.state = "waiting", !.awaits = barrier]
<1>1. Types /\ Leased /\ Serving /\ Running /\ readers[r] \in Reader
  BY CallersServed DEF CallSnapshot, Serving
<1>2. barrier \in Nat
  BY <1>1 DEF Types
<1>3. after \in Reader /\ after.state = "waiting" /\ after.awaits = barrier
  BY <1>1, <1>2 DEF Reader
<1>4. readers' = [readers EXCEPT ![r] = after]
  BY DEF CallSnapshot
<1> HIDE DEF after
<1>5. EngineStays /\ gens' = gens /\ streams' = streams /\ readers[r].state = "idle"
  BY DEF CallSnapshot, EngineStays, diskVars, memoryVars, gcVars, historyVars, faultVars
<1>6. readers' \in [Readers -> Reader] /\ streams' \in [Streams -> Stream]
  BY <1>1, <1>3, <1>4, <1>5 DEF Types
<1>7. \A q \in Readers : readers'[q] = IF q = r THEN after ELSE readers[q]
  BY <1>1, <1>4 DEF Types
<1>8. \A q \in Readers : (readers'[q].state = "open" \/ readers[q].state = "open")
                            => readers'[q] = readers[q]
  BY <1>3, <1>5, <1>7
<1>9. \A t \in Streams : streams'[t] = streams[t]
  BY <1>5
<1>10. gens' \in [Generations -> Generation] /\ SameFiles /\ Leased'
  BY <1>1, <1>5, <1>8, <1>9, KeepsLeases
<1>11. \A q \in Readers : readers'[q].state = "waiting" =>
         readers'[q] = readers[q] \/ readers'[q].awaits = barrier
  BY <1>3, <1>7
<1> QED BY <1>1, <1>5, <1>6, <1>8, <1>9, <1>10, <1>11, CallersMove

\* snapshot() gets its lease.
LEMMA SnapshotSound ==
  ASSUME Sound, NEW r \in Readers, Snapshot(r)
  PROVE  Sound'
<1>1. Types /\ Leased /\ Serving /\ Running /\ readers[r] \in Reader
      /\ readers[r].state = "waiting" /\ BarrierPassed(readers[r].awaits)
  BY CallersServed DEF Snapshot, Serving
<1>2. PICK c \in DOMAIN commits :
        readers' = [readers EXCEPT ![r] =
          [state |-> "open", awaits |-> 0, commit |-> c, gen |-> current,
           tree |-> File[commits[c]].tree]]
  BY DEF Snapshot
<1> DEFINE after == [state |-> "open", awaits |-> 0, commit |-> c, gen |-> current,
                     tree |-> File[commits[c]].tree]
<1>3. current \in Generations /\ current \in Written /\ ~gens[current].closed
  BY <1>1, GenerationOpen
<1>4. FileAndMemory(gens[current].synced)
  BY <1>1, ServingView
<1>5. RecordAt(c).tree \in Nat /\ RecordAt(c) = File[commits[c]] /\ c \in Ids
  BY <1>2, <1>4, RecordsAt
<1>6. current \in Nat
  BY <1>3 DEF Generations
<1>7. after \in Reader /\ after.state = "open" /\ after.commit = c /\ after.gen = current
      /\ after.tree = RecordAt(c).tree
  BY <1>5, <1>6 DEF Reader
<1>8. readers' = [readers EXCEPT ![r] = after]
  BY <1>2
<1> HIDE DEF after
<1>9. EngineStays /\ Holds(current, 1) /\ streams' = streams
  BY DEF Snapshot, EngineStays, diskVars, memoryVars, gcVars, historyVars, faultVars
<1>10. readers' \in [Readers -> Reader] /\ streams' \in [Streams -> Stream]
  BY <1>1, <1>7, <1>8, <1>9 DEF Types
<1>11. \A q \in Readers : readers'[q] = IF q = r THEN after ELSE readers[q]
  BY <1>1, <1>8 DEF Types
<1>12. \A g : Cardinality(ReadersOf(g)') = Cardinality(ReadersOf(g)) + (IF g = current THEN 1 ELSE 0)
  <2>1. \A q \in Readers : q # r => readers'[q] = readers[q]
    BY <1>11
  <2>2. readers[r].state # "open" /\ readers'[r].state = "open" /\ readers'[r].gen = current
    BY <1>1, <1>7, <1>11
  <2> QED BY <2>1, <2>2, ReaderMore
<1>13. \A g : StreamsOf(g)' = StreamsOf(g)
  BY <1>9 DEF StreamsOf
<1>14. \A g : Held(g)' + (IF g = current THEN 0 ELSE 0) = Held(g) + (IF g = current THEN 1 ELSE 0)
  <2>1. \A g : Cardinality(ReadersOf(g)) \in Nat
    BY HeldIs, FS_CardinalityType
  <2>2. \A g : Cardinality(ReadersOf(g)') + (IF g = current THEN 0 ELSE 0)
                 = Cardinality(ReadersOf(g)) + (IF g = current THEN 1 ELSE 0)
    BY <1>12, <2>1
  <2> QED BY <1>13, <2>2, HeldMoves
<1>15. \A q \in Readers : readers'[q].state = "open" =>
         readers'[q].gen = current \/ (readers[q].state = "open" /\ readers'[q].gen = readers[q].gen)
  <2>1. readers'[r].gen = current
    BY <1>7, <1>11
  <2>2. \A q \in Readers : q # r => readers'[q] = readers[q]
    BY <1>11
  <2> QED BY <2>1, <2>2
<1>16. gens' \in [Generations -> Generation] /\ SameFiles /\ Leased'
  <2>1. \A t \in Streams : streams'[t].state = "replaying" =>
           streams'[t].gen = current
             \/ (streams[t].state = "replaying" /\ streams'[t].gen = streams[t].gen)
    BY <1>9
  <2> QED BY <1>1, <1>3, <1>9, <1>14, <1>15, <2>1, TakesLease
<1>17. job.kind # "collect"
  <2>1. JobSound /\ Room
    BY DEF Sound
  <2>2. readers[r].awaits \in Nat /\ collected \in Nat
    BY <1>1, ReaderTyped DEF Types
  <2> QED BY <1>1, <2>1, <2>2 DEF JobSound, BarrierPassed
<1>18. \A q \in Readers : readers'[q].state = "open" =>
           \/ readers'[q] = readers[q]
           \/ /\ job.kind # "collect" /\ readers'[q].commit \in DOMAIN commits
              /\ readers'[q].gen = current
              /\ readers'[q].tree = RecordAt(readers'[q].commit).tree
  BY <1>2, <1>7, <1>11, <1>17
<1>19. \A q \in Readers : readers'[q].state = "waiting" =>
         readers'[q] = readers[q] \/ readers'[q].awaits = barrier
  BY <1>7, <1>11
<1>20. \A t \in Streams : streams'[t].state = "waiting" =>
         streams'[t] = streams[t] \/ streams'[t].awaits = barrier
  BY <1>9
<1> QED BY <1>1, <1>9, <1>10, <1>16, <1>18, <1>19, <1>20, CallersMove

\* A snapshot is closed.
LEMMA CloseSnapshotSound ==
  ASSUME Sound, NEW r \in Readers, CloseSnapshot(r)
  PROVE  Sound'
<1>1. Types /\ Leased /\ Serving /\ Running /\ readers[r] \in Reader /\ readers[r].state = "open"
  BY CallersServed DEF CloseSnapshot, Serving
<1> DEFINE h == readers[r].gen
<1>2. h \in Generations /\ ReleaseGeneration(h)
  BY <1>1 DEF Leased, Written, CloseSnapshot
<1> HIDE DEF h
<1>3. readers' = [readers EXCEPT ![r] = NoReader] /\ EngineStays /\ streams' = streams
  BY DEF CloseSnapshot, EngineStays, diskVars, memoryVars, gcVars, historyVars, faultVars
<1>4. readers' \in [Readers -> Reader] /\ streams' \in [Streams -> Stream]
  BY <1>1, <1>3, ReaderTyped DEF Types
<1>5. \A q \in Readers : readers'[q] = IF q = r THEN NoReader ELSE readers[q]
  BY <1>1, <1>3 DEF Types
<1>6. NoReader.state = "idle"
  BY DEF NoReader
<1>7. \A g : Cardinality(ReadersOf(g)) = Cardinality(ReadersOf(g)') + (IF g = h THEN 1 ELSE 0)
  <2>1. \A q \in Readers : q # r => readers'[q] = readers[q]
    BY <1>5
  <2>2. readers'[r].state # "open" /\ readers[r].state = "open" /\ readers[r].gen = h
    BY <1>1, <1>5, <1>6 DEF h
  <2> QED BY <2>1, <2>2, ReaderFewer
<1>8. \A g : StreamsOf(g)' = StreamsOf(g)
  BY <1>3 DEF StreamsOf
<1>9. \A g : Held(g)' + (IF g = h THEN 1 ELSE 0) = Held(g) + (IF g = h THEN 0 ELSE 0)
  <2>1. \A g : Cardinality(ReadersOf(g)) \in Nat
    BY HeldIs, FS_CardinalityType
  <2>2. \A g : Cardinality(ReadersOf(g)') + (IF g = h THEN 1 ELSE 0)
                 = Cardinality(ReadersOf(g)) + (IF g = h THEN 0 ELSE 0)
    BY <1>7, <2>1
  <2> QED BY <1>8, <2>2, HeldMoves
<1>10. \A q \in Readers : readers'[q].state = "open" => readers'[q] = readers[q]
  BY <1>5, <1>6
<1>11. gens' \in [Generations -> Generation] /\ SameFiles /\ Leased'
  <2>1. \A q \in Readers : readers'[q].state = "open" =>
          readers[q].state = "open" /\ readers'[q].gen = readers[q].gen
    BY <1>10
  <2>2. \A t \in Streams : streams'[t].state = "replaying" =>
          streams[t].state = "replaying" /\ streams'[t].gen = streams[t].gen
    BY <1>3
  <2> QED BY <1>1, <1>2, <1>3, <1>9, <2>1, <2>2, GivesLease
<1>12. \A q \in Readers : readers'[q].state = "waiting" => readers'[q] = readers[q]
  BY <1>5, <1>6
<1>13. \A t \in Streams : streams'[t] = streams[t]
  BY <1>3
<1> QED BY <1>1, <1>3, <1>4, <1>10, <1>11, <1>12, <1>13, CallersMove

\* A stream moves on, with the lease that goes with it.
LEMMA StreamMoves ==
  ASSUME Sound, Serving, EngineStays, readers' = readers,
         NEW t \in Streams, NEW after \in Stream, streams' = [streams EXCEPT ![t] = after],
         after.state = "waiting" => after.awaits = barrier,
         \/ /\ gens' = gens
            /\ after.state = "replaying" <=> streams[t].state = "replaying"
            /\ after.state = "replaying" => after.gen = streams[t].gen
         \/ /\ Holds(current, 1) /\ streams[t].state # "replaying"
            /\ after.state = "replaying" /\ after.gen = current
         \/ /\ ReleaseGeneration(streams[t].gen) /\ streams[t].state = "replaying"
            /\ after.state # "replaying"
  PROVE  Sound'
<1>1. Types /\ Leased /\ Running
  BY CallersServed
<1>2. readers' \in [Readers -> Reader] /\ streams' \in [Streams -> Stream]
  BY <1>1 DEF Types
<1>3. \A u \in Streams : streams'[u] = IF u = t THEN after ELSE streams[u]
  BY <1>1 DEF Types
<1>4. \A g : ReadersOf(g)' = ReadersOf(g)
  BY DEF ReadersOf
<1>5. \A u \in Streams : u # t => streams'[u] = streams[u]
  BY <1>3
<1>6. streams'[t] = after
  BY <1>3
<1>7. \A g : Cardinality(StreamsOf(g)) \in Nat
  BY HeldIs, FS_CardinalityType
<1>8. gens' \in [Generations -> Generation] /\ SameFiles /\ Leased'
  <2>1. CASE /\ gens' = gens
             /\ after.state = "replaying" <=> streams[t].state = "replaying"
             /\ after.state = "replaying" => after.gen = streams[t].gen
    <3>1. \A u \in Streams :
            (streams'[u].state = "replaying" \/ streams[u].state = "replaying")
              => /\ streams'[u].state = streams[u].state /\ streams'[u].gen = streams[u].gen
      BY <1>5, <1>6, <2>1
    <3>2. \A r \in Readers : readers'[r] = readers[r]
      OBVIOUS
    <3> QED BY <1>1, <2>1, <3>1, <3>2, KeepsLeases
  <2>2. CASE /\ Holds(current, 1) /\ streams[t].state # "replaying"
             /\ after.state = "replaying" /\ after.gen = current
    <3>1. current \in Generations /\ current \in Written /\ ~gens[current].closed
      BY GenerationOpen
    <3>2. \A g : Cardinality(StreamsOf(g)')
                   = Cardinality(StreamsOf(g)) + (IF g = current THEN 1 ELSE 0)
      BY <1>5, <1>6, <2>2, StreamMore
    <3>3. \A g : Cardinality(StreamsOf(g)') + (IF g = current THEN 0 ELSE 0)
                   = Cardinality(StreamsOf(g)) + (IF g = current THEN 1 ELSE 0)
      BY <3>2, <1>7
    <3>4. \A g : Held(g)' + (IF g = current THEN 0 ELSE 0) = Held(g) + (IF g = current THEN 1 ELSE 0)
      BY <1>4, <3>3, HeldMoves
    <3>5. \A u \in Streams : streams'[u].state = "replaying" =>
            \/ streams'[u].gen = current
            \/ (streams[u].state = "replaying" /\ streams'[u].gen = streams[u].gen)
      BY <1>5, <1>6, <2>2
    <3>6. \A r \in Readers : readers'[r].state = "open" =>
            \/ readers'[r].gen = current
            \/ (readers[r].state = "open" /\ readers'[r].gen = readers[r].gen)
      OBVIOUS
    <3> QED BY <1>1, <2>2, <3>1, <3>4, <3>5, <3>6, TakesLease
  <2>3. CASE /\ ReleaseGeneration(streams[t].gen) /\ streams[t].state = "replaying"
             /\ after.state # "replaying"
    <3> DEFINE h == streams[t].gen
    <3>1. h \in Generations /\ ReleaseGeneration(h)
      BY <1>1, <2>3 DEF Leased, Written
    <3>2. streams[t].gen = h
      OBVIOUS
    <3> HIDE DEF h
    <3>3. \A g : Cardinality(StreamsOf(g))
                   = Cardinality(StreamsOf(g)') + (IF g = h THEN 1 ELSE 0)
      BY <1>5, <1>6, <2>3, <3>2, StreamFewer
    <3>4. \A g : Cardinality(StreamsOf(g)') + (IF g = h THEN 1 ELSE 0)
                   = Cardinality(StreamsOf(g)) + (IF g = h THEN 0 ELSE 0)
      BY <3>3, <1>7
    <3>5. \A g : Held(g)' + (IF g = h THEN 1 ELSE 0) = Held(g) + (IF g = h THEN 0 ELSE 0)
      BY <1>4, <3>4, HeldMoves
    <3>6. \A u \in Streams : streams'[u].state = "replaying" =>
            streams[u].state = "replaying" /\ streams'[u].gen = streams[u].gen
      BY <1>5, <1>6, <2>3
    <3>7. \A r \in Readers : readers'[r].state = "open" =>
            readers[r].state = "open" /\ readers'[r].gen = readers[r].gen
      OBVIOUS
    <3> QED BY <1>1, <3>1, <3>5, <3>6, <3>7, GivesLease
  <2> QED BY <2>1, <2>2, <2>3
<1>9. \A r \in Readers : readers'[r] = readers[r]
  OBVIOUS
<1>10. \A u \in Streams : streams'[u].state = "waiting" =>
         streams'[u] = streams[u] \/ streams'[u].awaits = barrier
  BY <1>5, <1>6
<1> QED BY <1>2, <1>8, <1>9, <1>10, CallersMove

\* A lost stream, a caller gone, a batch handed on: none of it is waiting.
LEMMA CallChangesSound ==
  ASSUME Sound, NEW t \in Streams, NEW b \in Branches, NEW n \in Sequences, CallChanges(t, b, n)
  PROVE  Sound'
<1> DEFINE after == [NoStream EXCEPT !.state = "waiting", !.branch = b, !.from = n,
                                     !.retainAfter = n, !.awaits = barrier]
<1>1. Types /\ Serving /\ barrier \in Nat /\ n \in Nat
  BY CallersServed DEF CallChanges, Serving, Types, Sequences
<1>2. after \in Stream /\ after.state = "waiting" /\ after.awaits = barrier
  BY <1>1, ReaderTyped DEF Stream
<1>3. streams' = [streams EXCEPT ![t] = after]
  BY DEF CallChanges
<1> HIDE DEF after
<1>4. EngineStays /\ gens' = gens /\ readers' = readers /\ streams[t].state = "idle"
  BY DEF CallChanges, EngineStays, diskVars, memoryVars, gcVars, historyVars, faultVars
<1> QED BY <1>1, <1>2, <1>3, <1>4, StreamMoves

\* changes() gets its lease, or is rejected.
LEMMA SubscribeSound ==
  ASSUME Sound, NEW t \in Streams, Subscribe(t)
  PROVE  Sound'
<1>1. Types /\ Serving /\ streams[t] \in Stream /\ streams[t].state = "waiting"
  BY CallersServed DEF Subscribe, Serving
<1>2. EngineStays /\ readers' = readers
  BY DEF Subscribe, EngineStays, diskVars, memoryVars, gcVars, historyVars, faultVars
<1>3. CASE ~Exists(streams[t].branch) \/ streams[t].retainAfter < floors[streams[t].branch]
  <2>1. streams' = [streams EXCEPT ![t] = NoStream] /\ gens' = gens
    BY <1>3 DEF Subscribe
  <2>2. NoStream \in Stream /\ NoStream.state = "idle"
    BY ReaderTyped DEF NoStream
  <2> QED BY <1>1, <1>2, <2>1, <2>2, StreamMoves
<1>4. CASE ~(~Exists(streams[t].branch) \/ streams[t].retainAfter < floors[streams[t].branch])
  <2> DEFINE through == branches[streams[t].branch].sequence
             behind == streams[t].retainAfter < through
  <2>1. through \in Nat /\ current \in Nat /\ current \in Generations
    BY <1>1, ReaderTyped DEF Types, Heads, Branch, Generations
  <2>2. CASE behind
    <3> DEFINE after == [streams[t] EXCEPT !.state = "replaying", !.after = through,
                                           !.through = through, !.gen = current]
    <3>1. streams' = [streams EXCEPT ![t] = after] /\ Holds(current, 1)
      BY <1>4, <2>2 DEF Subscribe
    <3> HIDE DEF through
    <3>2. after \in Stream /\ after.state = "replaying" /\ after.gen = current
      BY <1>1, <2>1 DEF Stream
    <3> HIDE DEF after
    <3> QED BY <1>1, <1>2, <3>1, <3>2, StreamMoves
  <2>3. CASE ~behind
    <3> DEFINE after == [streams[t] EXCEPT !.state = "live", !.after = through,
                                           !.through = through, !.gen = current]
    <3>1. streams' = [streams EXCEPT ![t] = after] /\ gens' = gens
      BY <1>4, <2>3 DEF Subscribe
    <3> HIDE DEF through
    <3>2. after \in Stream /\ after.state = "live"
      BY <1>1, <2>1 DEF Stream
    <3> HIDE DEF after
    <3> QED BY <1>1, <1>2, <3>1, <3>2, StreamMoves
  <2> QED BY <2>2, <2>3
<1> QED BY <1>3, <1>4

\* A stream replays one more commit.
LEMMA ReplaySound ==
  ASSUME Sound, NEW t \in Streams, Replay(t)
  PROVE  Sound'
<1>1. Types /\ Serving /\ streams[t] \in Stream /\ streams[t].state = "replaying" /\ Leased
      /\ Running
  BY CallersServed DEF Replay, Serving
<1>2. EngineStays /\ readers' = readers
  BY DEF Replay, EngineStays, diskVars, memoryVars, gcVars, historyVars, faultVars
<1> DEFINE file == gens[streams[t].gen].file
           T == Remaining(streams[t])
           at == Min(T)
<1>3. file \in Seq(Record)
  BY <1>1, GensTyped DEF Leased, Written
<1>4. T \in SUBSET Nat /\ T # {} /\ \A i \in T : i \in DOMAIN file /\ file[i].type = "ref"
  <2>1. streams[t].at \in Nat
    BY <1>1, ReaderTyped
  <2>2. Len(file) \in Nat /\ DOMAIN file = 1..Len(file)
    BY <1>3, FileTyped
  <2>3. T # {}
    BY DEF Replay
  <2>4. T \subseteq {i \in (streams[t].at + 1)..Len(file) : file[i].type = "ref"}
    BY DEF Remaining
  <2> HIDE DEF T, file
  <2>5. T \in SUBSET Nat
    BY <2>1, <2>2, <2>4
  <2>6. \A i \in T : i \in DOMAIN file
    BY <2>1, <2>2, <2>4
  <2>7. \A i \in T : file[i].type = "ref"
    BY <2>4
  <2> QED BY <2>3, <2>5, <2>6, <2>7
<1>5. at \in T
  <2> HIDE DEF T
  <2> QED BY <1>4, SmallestIn
<1>6. at \in Nat /\ file[at].sequence \in Nat
  BY <1>3, <1>4, <1>5, FileTyped, RecordKinds
<1>7. CASE file[at].head \in DOMAIN commits
  <2> DEFINE after == [streams[t] EXCEPT !.at = at, !.retainAfter = file[at].sequence]
  <2>1. streams' = [streams EXCEPT ![t] = after] /\ gens' = gens
    BY <1>7 DEF Replay
  <2> HIDE DEF at, file
  <2>2. after \in Stream /\ after.state = streams[t].state /\ after.gen = streams[t].gen
    BY <1>1, <1>6 DEF Stream
  <2> HIDE DEF after
  <2> QED BY <1>1, <1>2, <2>1, <2>2, StreamMoves
<1>8. CASE file[at].head \notin DOMAIN commits
  <2> DEFINE after == [streams[t] EXCEPT !.state = "lost"]
  <2>1. streams' = [streams EXCEPT ![t] = after] /\ ReleaseGeneration(streams[t].gen)
    BY <1>8 DEF Replay
  <2>2. after \in Stream /\ after.state = "lost"
    BY <1>1 DEF Stream
  <2> HIDE DEF after
  <2> QED BY <1>1, <1>2, <2>1, <2>2, StreamMoves
<1> QED BY <1>7, <1>8

\* A stream has replayed all, and gives its lease back.
LEMMA ReplayedSound ==
  ASSUME Sound, NEW t \in Streams, Replayed(t)
  PROVE  Sound'
<1> DEFINE after == [streams[t] EXCEPT !.state = "live"]
<1>1. Types /\ Serving /\ streams[t] \in Stream /\ streams[t].state = "replaying"
  BY CallersServed DEF Replayed, Serving
<1>2. EngineStays /\ readers' = readers /\ ReleaseGeneration(streams[t].gen)
      /\ streams' = [streams EXCEPT ![t] = after]
  BY DEF Replayed, EngineStays, diskVars, memoryVars, gcVars, historyVars, faultVars
<1>3. after \in Stream /\ after.state = "live"
  BY <1>1 DEF Stream
<1> HIDE DEF after
<1> QED BY <1>1, <1>2, <1>3, StreamMoves

\* A stream takes a batch from its queue.
LEMMA DeliverSound ==
  ASSUME Sound, NEW t \in Streams, Deliver(t)
  PROVE  Sound'
<1> DEFINE after == [streams[t] EXCEPT !.queue = Tail(streams[t].queue),
                                       !.retainAfter = Head(streams[t].queue)]
<1>1. Types /\ Serving /\ streams[t] \in Stream /\ streams[t].state = "live"
  BY CallersServed DEF Deliver, Serving
<1>2. /\ EngineStays /\ readers' = readers /\ gens' = gens
      /\ streams' = [streams EXCEPT ![t] = after]
  BY DEF Deliver, EngineStays, diskVars, memoryVars, gcVars, historyVars, faultVars
<1>3. after \in Stream /\ after.state = "live"
  <2>1. streams[t].queue \in Seq(Nat) /\ streams[t].queue # <<>>
    BY <1>1, ReaderTyped DEF Deliver
  <2>2. Tail(streams[t].queue) \in Seq(Nat) /\ Head(streams[t].queue) \in Nat
    BY <2>1
  <2> QED BY <1>1, <2>2 DEF Stream
<1> HIDE DEF after
<1> QED BY <1>1, <1>2, <1>3, StreamMoves

\* A stream ends.
LEMMA EndStreamSound ==
  ASSUME Sound, NEW t \in Streams, EndStream(t)
  PROVE  Sound'
<1>1. Types /\ Serving /\ streams[t] \in Stream
  BY CallersServed DEF EndStream, Serving
<1>2. EngineStays /\ readers' = readers /\ streams' = [streams EXCEPT ![t] = NoStream]
  BY DEF EndStream, EngineStays, diskVars, memoryVars, gcVars, historyVars, faultVars
<1>3. NoStream \in Stream /\ NoStream.state = "idle"
  BY ReaderTyped DEF NoStream
<1>4. CASE streams[t].state = "replaying"
  <2>1. ReleaseGeneration(streams[t].gen)
    BY <1>4 DEF EndStream
  <2> QED BY <1>1, <1>2, <1>3, <1>4, <2>1, StreamMoves
<1>5. CASE streams[t].state # "replaying"
  <2>1. gens' = gens
    BY <1>5 DEF EndStream
  <2> QED BY <1>1, <1>2, <1>3, <1>5, <2>1, StreamMoves
<1> QED BY <1>4, <1>5

-----------------------------------------------------------------------------
(* Steps that touch neither the disk nor the memory. *)

\* Steps that move the queue and the barrier only.
LEMMA RestStays ==
  ASSUME Sound,
         UNCHANGED <<gens, path, checkpoint, current, commits, branches, retains, floors,
                     readers, streams, content>>,
         \/ state' = state
         \/ state = "open" /\ state' = "closing"
         \/ state' = "down" /\ job' = NoJob,
         (job' = NoJob /\ state' # "opening") \/ (job' = job /\ collected' = collected),
         barrier' \in Nat, collected' \in Nat, Room', Quiet'
  PROVE  Sound'
<1>1. /\ Types /\ Numbered /\ Room /\ Quiet /\ Leased
      /\ FilesSound /\ CheckpointSound /\ MemorySound /\ JobSound /\ Snapshots
  BY DEF Sound
<1>2. (Running' => Running) /\ (Serving' => Serving) /\ state' \in {"down", "opening", "open", "closing"}
  BY <1>1 DEF Running, Serving, Types
<1>3. SameFiles /\ SameMemory
  BY DEF SameFiles, SameMemory
<1>4. Written' = Written /\ File' = File /\ Numbered' /\ FilesSound' /\ CheckpointSound'
  BY <1>1, <1>2, <1>3, FilesKept
<1>5. state' = "opening" => state = "opening" /\ job' = job
  OBVIOUS
<1>6. Types'
  BY <1>1, <1>2 DEF Types
<1>7. NoJob.kind = "idle"
  BY DEF NoJob
<1>8. Leased'
  <2>1. \A g : Held(g)' = Held(g)
    BY DEF Held, ReadersOf, StreamsOf
  <2>2. job'.kind = "install" => job' = job
    BY <1>7
  <2> QED BY <1>1, <1>2, <1>4, <2>1, <2>2 DEF Leased
<1>9. MemorySound'
  <2>1. Running' /\ (state' = "opening" => job'.id = NONE)
          => Running /\ (state = "opening" => job.id = NONE)
    BY <1>2, <1>5 DEF Running
  <2>2. Behind(commits, branches)' <=> Behind(commits, branches)
    BY DEF Behind
  <2> QED BY <1>1, <1>4, <2>1, <2>2 DEF MemorySound
<1>10. JobSound'
  <2>1. CASE job' = NoJob
    BY <1>7, <2>1 DEF JobSound, OpenSound, CommitSound, CollectSound
  <2>2. CASE job' = job /\ collected' = collected
    <3>1. OpenSound' /\ CommitSound'
      BY <1>1, <1>3, <2>2, MemoryKept DEF JobSound
    <3>2. CollectSound'
      BY <1>1, <2>2 DEF JobSound, CollectSound
    <3>3. job.kind = "open" => state' = "opening"
      BY <1>1, <2>2, <1>7 DEF JobSound
    <3> QED BY <1>1, <2>2, <3>1, <3>2, <3>3 DEF JobSound
  <2> QED BY <2>1, <2>2
<1>11. Snapshots'
  BY <1>1 DEF Snapshots
<1> QED BY <1>1, <1>4, <1>6, <1>8, <1>9, <1>10, <1>11 DEF Sound

\* What such steps need of the invariant.
LEMMA RestPlain ==
  ASSUME Sound
  PROVE  /\ barrier \in Nat /\ collected \in Nat /\ Room /\ Quiet /\ Types
         /\ NoJob.kind = "idle" /\ Cardinality(Written) \in Nat /\ MaxCollections \in Nat
         /\ job.kind = "open" => state = "opening"
         /\ job.kind \in {"idle", "open", "commit", "create", "retain", "release", "collect",
                          "install"}
<1>1. IsFiniteSet(Written)
  <2>1. IsFiniteSet(1..(MaxCollections + 1))
    BY FileAssumption, FS_Interval
  <2>2. Written \in SUBSET (1..(MaxCollections + 1))
    BY DEF Written, Generations
  <2> QED BY <2>1, <2>2, FS_Subset
<1>2. Cardinality(Written) \in Nat
  BY <1>1, FS_CardinalityType
<1> QED BY <1>2, FileAssumption DEF Sound, Types, JobSound, NoJob

\* retain() of what is there.
LEMMA RetainAgainSound ==
  ASSUME Sound, NEW n \in Names, RetainAgain(n)
  PROVE  Sound'
<1>1. UNCHANGED <<gens, path, checkpoint, current, commits, branches, retains, floors,
                  readers, streams, content>> /\ UNCHANGED <<state, job, barrier, collected>>
  BY DEF RetainAgain, diskVars, memoryVars, gcVars, historyVars, faultVars
<1>2. Room' /\ Quiet'
  BY <1>1, RestPlain DEF Room, Quiet, Serving, Written
<1> QED BY <1>1, <1>2, RestPlain, RestStays

\* Nothing happens.
LEMMA StutterSound ==
  ASSUME Sound, UNCHANGED vars
  PROVE  Sound'
<1>1. UNCHANGED <<gens, path, checkpoint, current, commits, branches, retains, floors,
                  readers, streams, content>> /\ UNCHANGED <<state, job, barrier, collected>>
  BY DEF vars, diskVars, memoryVars, gcVars, historyVars, faultVars
<1>2. Room' /\ Quiet'
  BY <1>1, RestPlain DEF Room, Quiet, Serving, Written
<1> QED BY <1>1, <1>2, RestPlain, RestStays

\* close() is called.
LEMMA CloseSound ==
  ASSUME Sound, Close
  PROVE  Sound'
<1>1. /\ UNCHANGED <<gens, path, checkpoint, current, commits, branches, retains, floors,
                     readers, streams, content>> /\ UNCHANGED <<job, barrier, collected>>
      /\ state = "open" /\ state' = "closing"
  BY DEF Close, diskVars, memoryVars, gcVars, historyVars, faultVars
<1>2. Room'
  BY <1>1, RestPlain DEF Room, Written
<1>3. Quiet'
  BY <1>1 DEF Quiet, Serving
<1> QED BY <1>1, <1>2, <1>3, RestPlain, RestStays

\* collectGarbage() is called.
LEMMA CollectGarbageSound ==
  ASSUME Sound, CollectGarbage
  PROVE  Sound'
<1>1. /\ UNCHANGED <<gens, path, checkpoint, current, commits, branches, retains, floors,
                     readers, streams, content>> /\ UNCHANGED <<state, job, collected>>
      /\ state = "open" /\ barrier' = barrier + 1
      /\ Cardinality(Written) + barrier - collected <= MaxCollections
  BY DEF CollectGarbage, diskVars, memoryVars, gcVars, historyVars, faultVars
<1>2. Written' = Written
  BY <1>1 DEF Written
<1>3. Room'
  BY <1>1, <1>2, RestPlain DEF Room
<1>4. Quiet'
  BY <1>1 DEF Quiet, Serving
<1> QED BY <1>1, <1>3, <1>4, RestPlain, RestStays

\* A collection fails.
LEMMA CollectionFailsSound ==
  ASSUME Sound, CollectionFails
  PROVE  Sound'
<1>1. /\ UNCHANGED <<gens, path, checkpoint, current, commits, branches, retains, floors,
                     readers, streams, content>> /\ UNCHANGED <<state, barrier>>
      /\ job.kind = "collect" /\ job' = NoJob /\ collected' = collected + 1
  BY DEF CollectionFails, diskVars, memoryVars, gcVars, historyVars, faultVars
<1>2. Written' = Written
  BY <1>1 DEF Written
<1>3. Room'
  BY <1>1, <1>2, RestPlain DEF Room
<1>4. state \in {"open", "closing"}
  BY <1>1, RestPlain DEF Quiet, Serving, Types
<1>5. Quiet'
  BY <1>1, <1>4 DEF Quiet, Serving
<1> QED BY <1>1, <1>3, <1>4, <1>5, RestPlain, RestStays

\* The rename may not be on the disk: both names are possible.
LEMMA DirectorySyncFailsSound ==
  ASSUME Sound, DirectorySyncFails
  PROVE  Sound'
<1>1. /\ UNCHANGED <<gens, path, checkpoint, current, commits, branches, retains, floors,
                     readers, streams, content>> /\ UNCHANGED <<state, barrier>>
      /\ job.kind = "install" /\ job' = NoJob /\ collected' = collected + 1
  BY DEF DirectorySyncFails, diskVars, memoryVars, gcVars, historyVars, faultVars
<1>2. Written' = Written
  BY <1>1 DEF Written
<1>3. Room'
  BY <1>1, <1>2, RestPlain DEF Room
<1>4. state \in {"open", "closing"}
  BY <1>1, RestPlain DEF Quiet, Serving, Types
<1>5. Quiet'
  BY <1>1, <1>4 DEF Quiet, Serving
<1> QED BY <1>1, <1>3, <1>4, <1>5, RestPlain, RestStays

\* sync() rejects: what was appended stays in the file.
LEMMA SyncFailsSound ==
  ASSUME Sound, SyncFails
  PROVE  Sound'
<1>1. /\ UNCHANGED <<gens, path, checkpoint, current, commits, branches, retains, floors,
                     readers, streams, content>> /\ UNCHANGED <<collected, barrier>>
      /\ job.kind \in {"open", "commit", "create", "retain", "release"} /\ job' = NoJob
      /\ state' = IF job.kind = "open" THEN "down" ELSE state
  BY DEF SyncFails, diskVars, memoryVars, gcVars, historyVars, faultVars
<1>2. Written' = Written
  BY <1>1 DEF Written
<1>3. Room'
  BY <1>1, <1>2, RestPlain DEF Room
<1>4. job.kind # "open" => state \in {"open", "closing"}
  BY <1>1, RestPlain DEF Quiet, Serving, Types
<1>5. Quiet'
  BY <1>1, <1>4, RestPlain DEF Quiet, Serving
<1>6. job.kind = "open" => state = "opening"
  BY RestPlain
<1> QED BY <1>1, <1>3, <1>4, <1>5, RestPlain, RestStays

-----------------------------------------------------------------------------
(* Appending. *)

\* A ref behind what memory knows leads to what memory knows, or to the commit
\* right before it; so it does from every start memory has grown from.
LEMMA NewRef ==
  ASSUME NEW f \in Seq(Record), NEW m \in Nat, NEW known, NEW heads \in Heads,
         NEW low \in [Branches -> Nat],
         CommitsSound(f, m, known), HeadsSound(f, known, heads, low),
         \A j, k \in 1..m :
           f[j].type = "commit" /\ f[k].type = "commit" /\ f[j].id = f[k].id => j = k,
         NEW i \in 1..Len(f), m < i, f[i].type = "ref",
         NEW b \in Branches, b = f[i].branch, heads[b].sequence <= f[i].sequence,
         NEW fresh \in BOOLEAN,
         fresh => /\ m < i - 1 /\ f[i - 1].type = "commit" /\ f[i - 1].id = f[i].head
                  /\ f[i - 1].branch = b /\ f[i - 1].sequence = f[i].sequence
                  /\ f[i].sequence <= heads[b].sequence + 1,
         ~fresh => f[i].head \in DOMAIN known /\ f[i].sequence <= heads[b].sequence,
         NEW s \in Nat, NEW start \in 0..m, NEW first, NEW before,
         \A c \in DOMAIN first :
           first[c] \in 1..start /\ f[first[c]].type = "commit" /\ f[first[c]].id = c,
         \A c \in DOMAIN known : known[c] <= start => c \in DOMAIN first,
         before[b].sequence <= heads[b].sequence, before[b].sequence \in Nat
  PROVE  RefSound(f, i, s, start, first, before, low)
<1> DEFINE u == Upto(i, s)
<1>0. /\ i \in Nat /\ start \in Nat /\ Len(f) \in Nat /\ f[i] \in Record /\ f[i].sequence \in Nat
      /\ heads[b] \in Branch /\ heads[b].sequence \in Nat /\ low[b] \in Nat
      /\ (heads[b].head = NONE => heads[b].sequence = 0)
  <2>1. f[i] \in Record /\ f[i].sequence \in Nat
    BY FileTyped, RecordKinds
  <2>2. heads[b] \in Branch /\ (heads[b].head = NONE => heads[b] = NoBranch)
    BY DEF Heads
  <2> QED BY <2>1, <2>2, FileTyped DEF Branch, NoBranch
<1>1. u \in Nat /\ i <= u
  BY <1>0 DEF Upto
<1> HIDE DEF u
<1>2. fresh => /\ i - 1 \in (start + 1)..(i - 1)
               /\ f[i - 1].type = "commit" /\ Published(f, i - 1, u)
  <2> SUFFICES ASSUME fresh
               PROVE  /\ i - 1 \in (start + 1)..(i - 1)
                      /\ f[i - 1].type = "commit" /\ Published(f, i - 1, u)
    OBVIOUS
  <2>1. i - 1 \in (start + 1)..(i - 1)
    BY <1>0
  <2>2. i \in ((i - 1) + 1)..u
    BY <1>0, <1>1
  <2> QED BY <2>1, <2>2 DEF Published
<1>3. \A c \in DOMAIN known : known[c] > start =>
        known[c] \in (start + 1)..(i - 1) /\ f[known[c]].type = "commit" /\ f[known[c]].id = c
          /\ Published(f, known[c], u)
  <2> SUFFICES ASSUME NEW c \in DOMAIN known, known[c] > start
               PROVE  /\ known[c] \in (start + 1)..(i - 1) /\ f[known[c]].type = "commit"
                      /\ f[known[c]].id = c /\ Published(f, known[c], u)
    OBVIOUS
  <2>1. known[c] \in 1..m /\ f[known[c]].type = "commit" /\ f[known[c]].id = c
        /\ Published(f, known[c], m)
    BY DEF CommitsSound
  <2> DEFINE p == known[c]
  <2>2. p \in 1..m /\ Published(f, p, m)
    BY <2>1
  <2> HIDE DEF p
  <2>3. m \in 0..m /\ m <= u
    BY <1>0, <1>1
  <2>4. \A j \in 1..m : f[j] = f[j]
    OBVIOUS
  <2>5. Published(f, p, u)
    BY <1>1, <2>2, <2>3, <2>4, PublishedAgrees
  <2>6. p \in (start + 1)..(i - 1)
    <3>1. p > start
      BY DEF p
    <3> QED BY <1>0, <2>2, <3>1
  <2> QED BY <2>1, <2>5, <2>6 DEF p
<1>4. \A c \in DOMAIN known : known[c] <= start =>
        c \in DOMAIN first /\ first[c] = known[c]
  <2> SUFFICES ASSUME NEW c \in DOMAIN known, known[c] <= start
               PROVE  c \in DOMAIN first /\ first[c] = known[c]
    OBVIOUS
  <2>1. c \in DOMAIN first
    OBVIOUS
  <2>2. known[c] \in 1..m /\ f[known[c]].type = "commit" /\ f[known[c]].id = c
    BY DEF CommitsSound
  <2>3. first[c] \in 1..m /\ f[first[c]].type = "commit" /\ f[first[c]].id = c
    BY <2>1, <1>0
  <2> QED BY <2>1, <2>2, <2>3
<1>5. \/ f[i].head \in DOMAIN first
      \/ \E j \in (start + 1)..(i - 1) :
           f[j].type = "commit" /\ f[j].id = f[i].head /\ Published(f, j, u)
  <2>1. CASE fresh
    BY <1>2, <2>1
  <2>2. CASE ~fresh
    <3> DEFINE c == f[i].head
    <3>1. c \in DOMAIN known
      BY <2>2
    <3>2. known[c] \in 1..m
      BY <3>1 DEF CommitsSound
    <3>3. CASE known[c] <= start
      BY <1>4, <3>1, <3>3
    <3>4. CASE known[c] > start
      BY <1>3, <3>1, <3>4
    <3> QED BY <1>0, <3>2, <3>3, <3>4
  <2> QED BY <2>1, <2>2
<1>6. ASSUME NEW n \in (low[b] + 1)..f[i].sequence
      PROVE  \/ \E c \in DOMAIN first : f[first[c]].branch = b /\ f[first[c]].sequence = n
             \/ \E j \in (start + 1)..u :
                  /\ f[j].type = "commit" /\ f[j].branch = b /\ f[j].sequence = n
                  /\ Published(f, j, u)
  <2>0. n \in Nat /\ n > low[b] /\ n <= f[i].sequence
    BY <1>0
  <2>1. CASE n <= heads[b].sequence
    <3>1. heads[b].head # NONE
      BY <1>0, <2>0, <2>1, SMTT(20)
    <3>2. n \in (low[b] + 1)..heads[b].sequence
      BY <1>0, <2>0, <2>1
    <3>3. PICK c \in DOMAIN known : f[known[c]].branch = b /\ f[known[c]].sequence = n
      BY <3>1, <3>2 DEF HeadsSound
    <3>4. known[c] \in 1..m
      BY <3>3 DEF CommitsSound
    <3>5. CASE known[c] <= start
      BY <1>4, <3>3, <3>5
    <3>6. CASE known[c] > start
      <4> DEFINE p == known[c]
      <4>1. p \in (start + 1)..(i - 1) /\ f[p].type = "commit" /\ Published(f, p, u)
            /\ f[p].branch = b /\ f[p].sequence = n
        BY <1>3, <3>3, <3>6
      <4> HIDE DEF p
      <4>2. p \in (start + 1)..u
        BY <1>0, <1>1, <4>1
      <4> QED BY <4>1, <4>2
    <3> QED BY <1>0, <3>4, <3>5, <3>6
  <2>2. CASE n > heads[b].sequence
    <3>1. fresh
      BY <1>0, <2>0, <2>2
    <3>2. n = f[i].sequence
      <4>1. f[i].sequence <= heads[b].sequence + 1
        BY <3>1
      <4> DEFINE x == f[i].sequence
                 y == heads[b].sequence
      <4>2. x \in Nat /\ y \in Nat /\ n \in Nat /\ n <= x /\ x <= y + 1 /\ n > y
        BY <1>0, <2>0, <2>2, <4>1
      <4> HIDE DEF x, y
      <4>3. n = x
        BY <4>2
      <4> QED BY <4>3 DEF x
    <3>3. i - 1 \in (start + 1)..u
      BY <1>0, <1>1, <1>2, <3>1
    <3> QED BY <1>2, <3>1, <3>2, <3>3
  <2> QED BY <1>0, <2>0, <2>1, <2>2
<1>7. before[b].sequence <= f[i].sequence
  BY <1>0
<1> QED BY <1>5, <1>6, <1>7 DEF RefSound, u

\* A ref that may be appended at i: it leads to what memory knows, or publishes the
\* commit before it.
FitsAt(g, i) ==
  LET b == g[i].branch IN
  g[i].type = "ref" =>
    /\ branches[b].sequence <= g[i].sequence
    /\ \/ g[i].head \in DOMAIN commits /\ g[i].sequence <= branches[b].sequence
       \/ /\ Len(File) < i - 1 /\ g[i - 1].type = "commit" /\ g[i - 1].id = g[i].head
          /\ g[i - 1].branch = b /\ g[i - 1].sequence = g[i].sequence
          /\ branches[b].head # NONE /\ g[i].sequence <= branches[b].sequence + 1

\* Records grow by these: nothing that was there moves.
LEMMA FileGrows ==
  ASSUME Types, current \in Generations, NEW new \in Seq(Record), Append_(new)
  PROVE  /\ gens' \in [Generations -> Generation]
         /\ \A g \in Generations :
              /\ gens'[g].file = IF g = current THEN File \o new ELSE gens[g].file
              /\ gens'[g].synced = gens[g].synced /\ gens'[g].leases = gens[g].leases
              /\ gens'[g].retired = gens[g].retired /\ gens'[g].closed = gens[g].closed
<1> DEFINE all == File \o new
           after == [gens[current] EXCEPT !.file = all]
<1>1. File \in Seq(Record) /\ gens[current] \in Generation
  BY GensTyped DEF File
<1>2. all \in Seq(Record)
  BY <1>1
<1>3. gens' = [gens EXCEPT ![current] = after]
  BY DEF Append_, File
<1> HIDE DEF all
<1>4. /\ after \in Generation /\ after.file = all /\ after.synced = gens[current].synced
      /\ after.leases = gens[current].leases /\ after.retired = gens[current].retired
      /\ after.closed = gens[current].closed
  BY <1>1, <1>2 DEF Generation
<1> HIDE DEF after
<1>5. gens' \in [Generations -> Generation]
  BY <1>3, <1>4 DEF Types
<1>6. \A g \in Generations : gens'[g] = IF g = current THEN after ELSE gens[g]
  BY <1>3 DEF Types
<1> QED BY <1>4, <1>5, <1>6 DEF all

\* An operation of the queue appends: its records fit behind those there are.
LEMMA Appended ==
  ASSUME Sound, state = "open", job = NoJob, NEW new \in Seq(Record), Append_(new),
         UNCHANGED <<path, checkpoint, state, current, commits, branches, floors, barrier,
                     collected, readers, streams>>,
         retains' \in [Names -> Ids \union {NONE}],
         \E k \in 0..MaxCommits : content' \in [1..k -> Ids \union {NONE}],
         DOMAIN content \subseteq DOMAIN content',
         \A id \in DOMAIN content : content'[id] = content[id],
         NEW g, g = File \o new,
         \A i \in (Len(File) + 1)..Len(g) : RecordSound(g, i, content', floors) /\ FitsAt(g, i),
         job'.kind \in {"commit", "create", "retain", "release"}, CommitSound',
         job'.kind = "create" =>
           job'.branch \in Branches /\ branches[job'.branch] = NoBranch /\ job'.id \in DOMAIN commits
  PROVE  Sound'
<1>1. /\ Types /\ Numbered /\ Room /\ Quiet /\ Leased
      /\ FilesSound /\ CheckpointSound /\ MemorySound /\ JobSound /\ Snapshots
  BY DEF Sound
<1>2. Serving /\ Running /\ Serving' /\ Running' /\ job.kind = "idle"
  BY DEF Serving, Running, NoJob
<1> DEFINE n == Len(File)
           m == Len(g)
           s == gens[current].synced
<1>3. /\ current \in path /\ current \in Generations /\ File \in Seq(Record)
      /\ Length(File) = n /\ s \in 0..n /\ FileAndMemory(s) /\ Behind(commits, branches)
      /\ LowOf(File) # NoFloors => \E i \in 1..s : File[i].type = "meta"
      /\ \A i \in DOMAIN File : File[i].type # "torn"
  BY <1>2, ServingView
<1>4. /\ floors = LowOf(File) /\ FileSound(File, n, s, content, floors)
      /\ View(File, n, commits, branches, floors)
      /\ branches \in Heads /\ floors \in [Branches -> Nat]
  BY <1>1, <1>2, <1>3 DEF MemorySound, FileAndMemory, Serving, Types
<1>5. /\ g \in Seq(Record) /\ n \in Nat /\ m \in Nat /\ n <= m /\ \A i \in 1..n : g[i] = File[i]
      /\ DOMAIN File = 1..n /\ DOMAIN g = 1..m /\ s \in Nat /\ m = n + Len(new)
  BY <1>3, TwoParts, FileTyped
<1>6. n > 0
  <2>1. gens[current].file # <<>>
    BY <1>2, GenerationOpen DEF Written
  <2> QED BY <1>3, <1>5, <2>1 DEF File
<1> HIDE DEF n, m, s
<1>n. n = Len(File) /\ m = Len(g) /\ s = gens[current].synced
  BY DEF n, m, s
<1>7. /\ gens' \in [Generations -> Generation]
      /\ \A x \in Generations :
           /\ gens'[x].file = IF x = current THEN g ELSE gens[x].file
           /\ gens'[x].synced = gens[x].synced /\ gens'[x].leases = gens[x].leases
           /\ gens'[x].retired = gens[x].retired /\ gens'[x].closed = gens[x].closed
  BY <1>1, <1>3, FileGrows
<1>8. File' = g
  BY <1>3, <1>7 DEF File
<1>9. Written' = Written
  <2>1. g # <<>> /\ gens[current].file # <<>>
    BY <1>3, <1>5, <1>6, <1>n DEF File
  <2> QED BY <1>7, <2>1 DEF Written
\* Memory's commits are where they are for good: no other commit has their name.
<1>10. \A j, k \in 1..n :
         g[j].type = "commit" /\ g[k].type = "commit" /\ g[j].id = g[k].id => j = k
  <2>1. \A k \in 1..n : RecordSound(File, k, content, floors)
    BY <1>4 DEF FileSound
  <2>2. ASSUME NEW j \in 1..n, NEW k \in 1..n, j < k, g[j].type = "commit", g[k].type = "commit"
        PROVE  g[j].id # g[k].id
    <3>1. j \in 1..(k - 1)
      BY <1>5, <2>2
    <3> QED BY <1>5, <2>1, <2>2, <3>1 DEF RecordSound
  <2> QED BY <1>5, <2>2, SMTT(20)
<1>11. /\ CommitsSound(g, n, commits) /\ HeadsSound(g, commits, branches, floors)
       /\ RefsKnown(g, n, branches)
  <2>1. View(g, n, commits, branches, floors)
    BY <1>4, <1>5, ViewAgrees
  <2> QED BY <2>1 DEF View
<1>12. ASSUME NEW i \in (n + 1)..m, NEW start \in 0..n, NEW first, NEW before,
              \A c \in DOMAIN first :
                first[c] \in 1..start /\ g[first[c]].type = "commit" /\ g[first[c]].id = c,
              \A c \in DOMAIN commits : commits[c] <= start => c \in DOMAIN first,
              \A b \in Branches : before[b].sequence <= branches[b].sequence
                                  /\ before[b].sequence \in Nat
       PROVE  RefSound(g, i, s, start, first, before, floors)
  <2>1. CASE g[i].type # "ref"
    BY <2>1 DEF RefSound
  <2>2. CASE g[i].type = "ref"
    <3>1. i \in 1..m /\ i \in Nat /\ n < i
      BY <1>5
    <3> DEFINE b == g[i].branch
               fresh == ~(g[i].head \in DOMAIN commits /\ g[i].sequence <= branches[b].sequence)
    <3>2. b \in Branches
      BY <1>5, <2>2, <3>1, FileTyped, RecordKinds
    <3>3. FitsAt(g, i)
      BY <1>n
    <3>4. /\ branches[b].sequence <= g[i].sequence
          /\ fresh => /\ n < i - 1 /\ g[i - 1].type = "commit" /\ g[i - 1].id = g[i].head
                      /\ g[i - 1].branch = b /\ g[i - 1].sequence = g[i].sequence
                      /\ g[i].sequence <= branches[b].sequence + 1
      BY <1>n, <2>2, <3>3 DEF FitsAt
    <3>5. ~fresh => g[i].head \in DOMAIN commits /\ g[i].sequence <= branches[b].sequence
      OBVIOUS
    <3>6. fresh \in BOOLEAN
      OBVIOUS
    <3>7. b = g[i].branch
      OBVIOUS
    <3> HIDE DEF b, fresh
    <3>8. before[b].sequence <= branches[b].sequence /\ before[b].sequence \in Nat
      BY <1>12, <3>2
    <3>9. i \in 1..Len(g)
      BY <1>n, <3>1
    <3>10. \A c \in DOMAIN first :
              first[c] \in 1..start /\ g[first[c]].type = "commit" /\ g[first[c]].id = c
      BY <1>12
    <3>11. \A c \in DOMAIN commits : commits[c] <= start => c \in DOMAIN first
      BY <1>12
    <3> QED BY <1>4, <1>5, <1>10, <1>11, <2>2, <3>1, <3>2, <3>4, <3>5, <3>6, <3>7, <3>8, <3>9,
               <3>10, <3>11, NewRef
  <2> QED BY <2>1, <2>2
<1>13. Length(g) = m /\ LowOf(g) = floors /\ FileSound(g, m, s, content', floors)
  <2>1. \A i \in (n + 1)..m : RecordSound(g, i, content', floors)
                              /\ RefSound(g, i, s, 0, <<>>, NoBranches, floors)
    <3>1. DOMAIN <<>> = {} /\ \A b \in Branches : NoBranches[b].sequence = 0
      BY DEF NoBranches, NoBranch
    <3>2. \A c \in DOMAIN commits : commits[c] \in 1..n
      BY <1>11 DEF CommitsSound
    <3>3. \A b \in Branches : branches[b].sequence \in Nat
      BY <1>4 DEF Heads, Branch
    <3>4. \A c \in DOMAIN commits : ~(commits[c] <= 0)
      BY <1>5, <3>2
    <3>5. 0 \in 0..n
      BY <1>5
    <3>6. \A i \in (n + 1)..m : RefSound(g, i, s, 0, <<>>, NoBranches, floors)
      <4> DEFINE nothing == <<>>
                 none == NoBranches
      <4>1. DOMAIN nothing = {} /\ \A b \in Branches : none[b].sequence = 0
        BY <3>1
      <4> HIDE DEF nothing, none
      <4>2. \A i \in (n + 1)..m : RefSound(g, i, s, 0, nothing, none, floors)
        <5>1. \A b \in Branches : none[b].sequence <= branches[b].sequence /\ none[b].sequence \in Nat
          BY <3>3, <4>1
        <5>2. \A c \in DOMAIN commits : commits[c] <= 0 => c \in DOMAIN nothing
          BY <3>4
        <5>3. \A c \in DOMAIN nothing :
                nothing[c] \in 1..0 /\ g[nothing[c]].type = "commit" /\ g[nothing[c]].id = c
          BY <4>1
        <5> QED BY <1>12, <3>5, <5>1, <5>2, <5>3
      <4> QED BY <4>2 DEF nothing, none
    <3> QED BY <1>n, <3>6
  <2> DEFINE more == content'
  <2>2. DOMAIN content \subseteq DOMAIN more /\ \A id \in DOMAIN content : more[id] = content[id]
    OBVIOUS
  <2>3. \A i \in (n + 1)..m : RecordSound(g, i, more, floors)
                              /\ RefSound(g, i, s, 0, <<>>, NoBranches, floors)
    BY <2>1
  <2> HIDE DEF more
  <2>4. FileSound(g, m, s, more, floors)
    <3>1. /\ Len(File) <= Len(g) /\ Length(File) = Len(File) /\ s \in 0..Len(File)
          /\ \A i \in 1..Len(File) : g[i] = File[i]
          /\ FileSound(File, Len(File), s, content, floors)
          /\ File \in Seq(Record) /\ g \in Seq(Record) /\ floors = LowOf(File)
      BY <1>3, <1>4, <1>5, <1>n
    <3>2. \A i \in (Len(File) + 1)..Len(g) :
            RecordSound(g, i, more, floors) /\ RefSound(g, i, s, 0, <<>>, NoBranches, floors)
      BY <1>n, <2>3
    <3>3. FileSound(g, Len(g), s, more, floors)
      BY <2>2, <3>1, <3>2, Extended
    <3> QED BY <1>n, <3>3
  <2>5. Length(g) = m /\ LowOf(g) = floors
    <3>1. FileSound(g, Len(g), s, more, LowOf(File))
      BY <1>4, <1>n, <2>4
    <3>2. Len(File) <= Len(g) /\ \A i \in 1..Len(File) : g[i] = File[i]
      BY <1>5, <1>n
    <3>3. Length(g) = Len(g) /\ LowOf(g) = LowOf(File)
      BY <1>3, <1>5, <3>1, <3>2, LowKept
    <3> QED BY <1>4, <1>n, <3>3
  <2> QED BY <2>4, <2>5 DEF more
<1>14. FilesSound'
  <2> SUFFICES ASSUME NEW x \in path
               PROVE  LET f == gens'[x].file IN
                      /\ gens'[x].synced <= Length(f)
                      /\ FileSound(f, Length(f), gens'[x].synced, content', LowOf(f))
                      /\ LowOf(f) # NoFloors => \E i \in 1..gens'[x].synced : f[i].type = "meta"
                      /\ x = current => Length(f) = Len(f)
    BY <1>2 DEF FilesSound
  <2>1. x \in Generations
    BY <1>1 DEF Types
  <2>2. CASE x = current
    <3>1. s <= m
      BY <1>3, <1>5
    <3>2. floors # NoFloors => \E i \in 1..s : g[i].type = "meta"
      <4>1. \A i \in 1..s : g[i] = File[i]
        BY <1>3, <1>5
      <4> QED BY <1>3, <1>4, <4>1
    <3>3. gens'[x].file = g /\ gens'[x].synced = s
      BY <1>7, <1>n, <2>1, <2>2
    <3> QED BY <1>13, <1>n, <3>1, <3>2, <3>3
  <2>3. CASE x # current
    <3> DEFINE f == gens[x].file
               k == Length(f)
               t == gens[x].synced
               more == content'
    <3>1. f \in Seq(Record) /\ t \in Nat
      BY <1>1, <2>1, GensTyped
    <3>2. gens'[x].file = f /\ gens'[x].synced = t
      BY <1>7, <2>1, <2>3
    <3>3. /\ t <= k /\ FileSound(f, k, t, content, LowOf(f))
          /\ LowOf(f) # NoFloors => \E i \in 1..t : f[i].type = "meta"
      BY <1>1 DEF FilesSound
    <3>4. k \in Nat
      BY <3>1, LengthOf
    <3>5. DOMAIN content \subseteq DOMAIN more /\ \A id \in DOMAIN content : more[id] = content[id]
      OBVIOUS
    <3> HIDE DEF k, t, f, more
    <3>6. t \in 0..k /\ k \in 0..k /\ t <= t /\ \A j \in 1..k : f[j] = f[j]
      BY <3>1, <3>3, <3>4
    <3>7. FileSound(f, k, t, more, LowOf(f))
      BY <3>1, <3>3, <3>4, <3>5, <3>6, FileAgrees
    <3> QED BY <2>3, <3>2, <3>3, <3>7 DEF k, more
  <2> QED BY <2>2, <2>3
<1>15. CheckpointSound'
  <2> SUFFICES ASSUME checkpoint.gen \in path
               PROVE  LET f == gens'[checkpoint.gen].file
                          start == checkpoint.offset
                      IN
                      /\ start \in 1..gens'[checkpoint.gen].synced
                      /\ checkpoint.boundary = f[start]
                      /\ checkpoint.retains \in [Names -> Ids \union {NONE}]
                      /\ checkpoint.floors = LowOf(f)
                      /\ View(f, start, checkpoint.commits, checkpoint.branches, checkpoint.floors)
                      /\ \A i \in (start + 1)..Length(f) :
                           RefSound(f, i, gens'[checkpoint.gen].synced, start, checkpoint.commits,
                                    checkpoint.branches, checkpoint.floors)
    BY DEF CheckpointSound
  <2>1. checkpoint.gen \in Generations
    BY <1>1 DEF Types
  <2>2. CASE checkpoint.gen # current
    BY <1>1, <1>7, <2>1, <2>2 DEF CheckpointSound
  <2>3. CASE checkpoint.gen = current
    <3> DEFINE start == checkpoint.offset
               first == checkpoint.commits
               before == checkpoint.branches
    <3>1. /\ start \in 1..s /\ checkpoint.boundary = File[start]
          /\ checkpoint.retains \in [Names -> Ids \union {NONE}]
          /\ checkpoint.floors = floors
          /\ View(File, start, first, before, floors)
          /\ \A i \in (start + 1)..n : RefSound(File, i, s, start, first, before, floors)
      BY <1>1, <1>3, <1>4, <1>n, <2>3 DEF CheckpointSound, File
    <3>2. /\ \A c \in DOMAIN commits : commits[c] <= start => c \in DOMAIN first
          /\ \A b \in Branches : before[b].sequence <= branches[b].sequence
      BY <1>3, <2>3 DEF Behind
    <3> HIDE DEF start, first, before
    <3>3. start \in Nat /\ start \in 0..n /\ start \in 1..n
      BY <1>3, <1>5, <3>1
    <3>4. g[start] = File[start] /\ \A j \in 1..start : g[j] = File[j]
      BY <1>5, <3>3
    <3>5. View(g, start, first, before, floors)
      BY <3>1, <3>3, <3>4, ViewAgrees
    <3>6. /\ before \in Heads
          /\ \A c \in DOMAIN first :
               first[c] \in 1..start /\ g[first[c]].type = "commit" /\ g[first[c]].id = c
      BY <3>5 DEF View, CommitsSound
    <3>7. \A b \in Branches : before[b].sequence \in Nat
      BY <3>6 DEF Heads, Branch
    <3>8. \A i \in (n + 1)..m : RefSound(g, i, s, start, first, before, floors)
      BY <1>12, <3>2, <3>3, <3>6, <3>7
    <3>9. ASSUME NEW i \in (start + 1)..n
          PROVE  RefSound(g, i, s, start, first, before, floors)
      <4>1. RefSound(File, i, s, start, first, before, floors)
        BY <3>1
      <4>2. i \in 1..n
        BY <1>5, <3>3
      <4>3. \A c \in DOMAIN first : first[c] \in 1..n
        BY <1>5, <3>3, <3>6
      <4>4. s <= s /\ s \in Nat
        BY <1>5
      <4> QED BY <1>3, <1>5, <3>3, <4>1, <4>2, <4>3, <4>4, RefAgrees
    <3>10. \A i \in (start + 1)..m : RefSound(g, i, s, start, first, before, floors)
      <4>1. \A i \in (start + 1)..m : i \in (start + 1)..n \/ i \in (n + 1)..m
        BY <1>5, <3>3
      <4> QED BY <3>8, <3>9, <4>1
    <3>11. gens'[checkpoint.gen].file = g /\ gens'[checkpoint.gen].synced = s
      BY <1>7, <1>n, <2>1, <2>3
    <3> QED BY <1>13, <3>1, <3>4, <3>5, <3>10, <3>11 DEF start, first, before
  <2> QED BY <2>2, <2>3
<1>16. MemorySound'
  <2>1. View(g, m, commits, branches, floors)
    <3>1. \A i \in (n + 1)..m : g[i].type = "ref" =>
            g[i].sequence <= branches[g[i].branch].sequence
                               + (IF branches[g[i].branch].head = NONE THEN 0 ELSE 1)
      <4> SUFFICES ASSUME NEW i \in (n + 1)..m, g[i].type = "ref"
                   PROVE  g[i].sequence <= branches[g[i].branch].sequence
                                             + (IF branches[g[i].branch].head = NONE THEN 0 ELSE 1)
        OBVIOUS
      <4>1. FitsAt(g, i)
        BY <1>n
      <4>2. i \in DOMAIN g
        BY <1>5
      <4>3. g[i] \in Record
        BY <1>5, <4>2, FileTyped
      <4> DEFINE b == g[i].branch
                 q == g[i].sequence
      <4>4. b \in Branches /\ q \in Nat
        BY <4>3, RecordKinds
      <4>5. q <= branches[b].sequence \/ (branches[b].head # NONE /\ q <= branches[b].sequence + 1)
        BY <4>1 DEF FitsAt
      <4> HIDE DEF b, q
      <4>6. branches[b].sequence \in Nat
        BY <1>4, <4>4 DEF Heads, Branch
      <4>7. q <= branches[b].sequence + (IF branches[b].head = NONE THEN 0 ELSE 1)
        BY <4>4, <4>5, <4>6
      <4> QED BY <4>7 DEF b, q
    <3> QED BY <1>4, <1>5, <3>1, ViewExtends
  <2>2. Behind(commits, branches)'
    BY <1>3 DEF Behind
  <2> QED BY <1>8, <1>13, <1>n, <2>1, <2>2 DEF MemorySound
<1>17. Types'
  BY <1>1, <1>7 DEF Types
<1>18. Numbered'
  <2>1. \A x \in path \union {current} : gens'[x].synced = gens[x].synced
    BY <1>1, <1>7 DEF Types
  <2> QED BY <1>1, <1>2, <1>9, <2>1 DEF Numbered
<1>19. Room'
  BY <1>1, <1>2, <1>9 DEF Room
<1>20. Quiet'
  BY <1>2 DEF Quiet
<1>21. Leased'
  <2>1. \A x : Held(x)' = Held(x)
    BY DEF Held, ReadersOf, StreamsOf
  <2>2. job'.kind # "install"
    OBVIOUS
  <2>3. ~gens'[current].retired
    BY <1>1, <1>2, <1>3, <1>7 DEF Leased
  <2>4. \A x \in Generations :
         IF gens'[x].closed THEN gens'[x].retired /\ Held(x)' = 0
         ELSE /\ gens'[x].leases = Held(x)' + (IF gens'[x].retired THEN 0 ELSE 1)
              /\ gens'[x].leases > 0
    BY <1>1, <1>2, <1>7, <2>1 DEF Leased
  <2> QED BY <1>1, <1>2, <1>9, <2>2, <2>3, <2>4 DEF Leased
<1>22. JobSound'
  BY DEF JobSound, OpenSound, CollectSound
<1>23. Snapshots'
  <2> SUFFICES ASSUME NEW r \in Readers, readers[r].state = "open"
               PROVE  LET t == readers[r] IN
                      /\ t.commit \in DOMAIN commits
                      /\ TreeSound(gens'[t.gen].file, Len(gens'[t.gen].file), t.tree, content'[t.commit])
                      /\ \A i \in DOMAIN gens'[t.gen].file : gens'[t.gen].file[i].type # "torn"
    BY DEF Snapshots
  <2> DEFINE t == readers[r]
             h == t.gen
             f == gens[h].file
  <2>1. /\ t.commit \in DOMAIN commits /\ TreeSound(f, Len(f), t.tree, content[t.commit])
        /\ \A i \in DOMAIN f : f[i].type # "torn" 
    BY <1>1 DEF Snapshots
  <2>2. h \in Generations
    BY <1>1, <1>2 DEF Leased, Written
  <2>3. content'[t.commit] = content[t.commit]
    BY <1>3, <2>1, RecordsAt
  <2>4. CASE h # current
    <3>1. gens'[h].file = f
      BY <1>7, <2>2, <2>4
    <3> QED BY <2>1, <2>3, <3>1
  <2>5. CASE h = current
    <3>1. gens'[h].file = g /\ f = File
      BY <1>7, <2>2, <2>5 DEF File
    <3>2. \A i \in 1..m : g[i].type # "torn"
      BY <1>13 DEF FileSound, RecordSound
    <3>3. TreeSound(g, m, t.tree, content[t.commit])
      <4>1. TreeSound(File, n, t.tree, content[t.commit])
        BY <1>n, <2>1, <3>1
      <4>2. t.tree \in 1..n => t.tree \in 1..m /\ g[t.tree] = File[t.tree]
        BY <1>5
      <4> QED BY <4>1, <4>2 DEF TreeSound
    <3> QED BY <1>5, <1>n, <2>1, <2>3, <3>1, <3>2, <3>3
  <2> QED BY <2>4, <2>5
<1> QED BY <1>14, <1>15, <1>16, <1>17, <1>18, <1>19, <1>20, <1>21, <1>22, <1>23 DEF Sound

\* The next commit has a new id.
LEMMA FreshIs ==
  ASSUME Types
  PROVE  /\ Fresh \in Nat /\ Fresh \notin DOMAIN content
         /\ DOMAIN content = 1..(Fresh - 1) /\ Fresh - 1 <= MaxCommits
         /\ content \in [1..(Fresh - 1) -> Ids \union {NONE}]
<1>1. PICK k \in 0..MaxCommits : content \in [1..k -> Ids \union {NONE}]
  BY DEF Types
<1>2. k \in Nat /\ DOMAIN content = 1..k
  BY <1>1, FileAssumption
<1>3. Cardinality(1..k) = k
  <2>1. Cardinality(1..k) = IF 1 > k THEN 0 ELSE k - 1 + 1
    BY <1>2, FS_Interval
  <2> QED BY <1>2, <2>1
<1>4. Fresh = k + 1
  BY <1>2, <1>3 DEF Fresh
<1> QED BY <1>1, <1>2, <1>4, FileAssumption

\* One more commit is known by its page.
LEMMA ContentGrows ==
  ASSUME Types, Fresh \in Ids, NEW page \in Ids \union {NONE}, NEW more,
         more = With(content, Fresh, page)
  PROVE  /\ \E k \in 0..MaxCommits : more \in [1..k -> Ids \union {NONE}]
         /\ DOMAIN content \subseteq DOMAIN more
         /\ \A c \in DOMAIN content : more[c] = content[c]
         /\ Fresh \in DOMAIN more /\ more[Fresh] = page
<1> DEFINE k == Fresh - 1
<1>1. /\ Fresh \in Nat /\ k \in Nat /\ k + 1 = Fresh /\ Fresh \notin DOMAIN content
      /\ DOMAIN content = 1..k /\ content \in [1..k -> Ids \union {NONE}]
      /\ Fresh \in 0..MaxCommits
  BY FreshIs, FileAssumption DEF Ids
<1> HIDE DEF k
<1>2. 1..Fresh = (1..k) \union {Fresh}
  BY <1>1
<1>3. more = [c \in 1..Fresh |-> IF c = Fresh THEN page ELSE content[c]]
  BY <1>1, <1>2 DEF With
<1>4. more \in [1..Fresh -> Ids \union {NONE}]
  BY <1>1, <1>2, <1>3
<1> QED BY <1>1, <1>2, <1>3, <1>4

\* A commit appends its trees, itself and its ref.
LEMMA CommitAppends ==
  ASSUME Sound, state = "open", job = NoJob, NEW b \in Branches, branches[b].head # NONE,
         Fresh \in Ids, NEW page \in Ids \union {NONE}, content' = With(content, Fresh, page),
         NEW pages \in Seq(Record), \A i \in 1..Len(pages) : pages[i].type = "page",
         NEW tree \in Nat,
         NEW commit, commit = CommitRecord(Fresh, b, branches[b].sequence + 1, tree),
         NEW ref, ref = RefRecord("commit", b, Fresh, branches[b].sequence + 1),
         NEW new, new = pages \o <<commit, ref>>, Append_(new),
         TreeSound(File \o new, Len(File) + Len(pages), tree, page),
         job' = [kind |-> "commit", id |-> Fresh, branch |-> b,
                 sequence |-> branches[b].sequence + 1, from |-> Len(File),
                 at |-> Len(File) + Len(pages) + 1],
         UNCHANGED <<path, checkpoint, state, current, commits, branches, retains, floors,
                     barrier, collected, readers, streams>>
  PROVE  Sound'
<1> DEFINE n == Len(File)
           p == Len(pages)
           q == branches[b].sequence + 1
           g == File \o new
           id == Fresh
           more == content'
<1>1. Types /\ CheckpointSound /\ Serving
  BY DEF Sound, Serving
<1>2. /\ current \in path /\ current \in Generations /\ File \in Seq(Record)
      /\ gens[current].synced \in 0..n /\ FileAndMemory(gens[current].synced)
  BY <1>1, ServingView
<1>3. /\ floors = LowOf(File) /\ FileSound(File, n, gens[current].synced, content, floors)
      /\ RefsKnown(File, n, branches) /\ branches \in Heads
      /\ retains \in [Names -> Ids \union {NONE}]
  <2>1. MemorySound
    BY DEF Sound
  <2> QED BY <1>1, <1>2, <2>1 DEF MemorySound, FileAndMemory, Serving, Running, View
<1>4. branches[b].sequence \in Nat /\ q \in Nat
  BY <1>3 DEF Heads, Branch
<1>5. commit \in Record /\ ref \in Record
  BY <1>4, RecordsMade
<1>6. /\ commit.type = "commit" /\ commit.id = id /\ commit.branch = b /\ commit.sequence = q
      /\ commit.tree = tree
      /\ ref.type = "ref" /\ ref.head = id /\ ref.branch = b /\ ref.sequence = q
  BY DEF CommitRecord, RefRecord
<1> HIDE DEF id, q
<1>7. /\ <<commit, ref>> \in Seq(Record) /\ Len(<<commit, ref>>) = 2
      /\ <<commit, ref>>[1] = commit /\ <<commit, ref>>[2] = ref
  BY <1>5
<1>8. /\ new \in Seq(Record) /\ Len(new) = p + 2 /\ p \in Nat
      /\ \A i \in 1..p : new[i] = pages[i]
      /\ new[p + 1] = commit /\ new[p + 2] = ref
  <2> DEFINE two == <<commit, ref>>
  <2>1. two \in Seq(Record) /\ Len(two) = 2 /\ two[1] = commit /\ two[2] = ref
    BY <1>7
  <2>2. new = pages \o two
    OBVIOUS
  <2> HIDE DEF two
  <2>3. /\ new \in Seq(Record) /\ Len(new) = Len(pages) + Len(two)
        /\ \A i \in 1..Len(pages) : new[i] = pages[i]
        /\ \A i \in 1..Len(two) : new[Len(pages) + i] = two[i]
    BY <2>1, <2>2, TwoParts
  <2>4. 1 \in 1..Len(two) /\ 2 \in 1..Len(two)
    BY <2>1
  <2>5. Len(pages) \in Nat
    OBVIOUS
  <2> QED BY <2>1, <2>3, <2>4, <2>5
<1>9. /\ g \in Seq(Record) /\ Len(g) = n + p + 2 /\ n \in Nat
      /\ \A i \in 1..n : g[i] = File[i]
      /\ \A i \in 1..p : g[n + i] = pages[i]
      /\ g[n + p + 1] = commit /\ g[n + p + 2] = ref
  <2> DEFINE all == g
  <2>1. all = File \o new
    OBVIOUS
  <2> HIDE DEF all
  <2>2. /\ all \in Seq(Record) /\ Len(all) = Len(File) + Len(new)
        /\ \A i \in 1..Len(File) : all[i] = File[i]
        /\ \A i \in 1..Len(new) : all[Len(File) + i] = new[i]
    BY <1>2, <1>8, <2>1, TwoParts
  <2>3. Len(File) \in Nat /\ Len(new) = p + 2 /\ p \in Nat
    BY <1>2, <1>8, FileTyped
  <2>4. p + 1 \in 1..Len(new) /\ p + 2 \in 1..Len(new) /\ \A i \in 1..p : i \in 1..Len(new)
    BY <2>3
  <2>5. all[n + (p + 1)] = commit /\ all[n + (p + 2)] = ref
    BY <1>8, <2>2, <2>4
  <2>6. n + (p + 1) = n + p + 1 /\ n + (p + 2) = n + p + 2
    BY <2>3
  <2>7. all[n + p + 1] = commit /\ all[n + p + 2] = ref
    BY <2>5, <2>6
  <2>8. \A i \in 1..p : all[n + i] = pages[i]
    BY <1>8, <2>2, <2>4
  <2>9. Len(all) = n + p + 2
    BY <2>2, <2>3
  <2> QED BY <2>2, <2>3, <2>7, <2>8, <2>9 DEF all
<1>10. /\ \E k \in 0..MaxCommits : more \in [1..k -> Ids \union {NONE}]
       /\ DOMAIN content \subseteq DOMAIN more
       /\ \A c \in DOMAIN content : more[c] = content[c]
       /\ id \in DOMAIN more /\ more[id] = page /\ id \notin DOMAIN content
  BY <1>1, ContentGrows, FreshIs DEF id
<1>11. \A i \in (n + 1)..Len(g) :
         \/ g[i].type = "page"
         \/ i = n + p + 1
         \/ i = n + p + 2
  <2> SUFFICES ASSUME NEW i \in (n + 1)..Len(g), i # n + p + 1, i # n + p + 2
               PROVE  g[i].type = "page"
    OBVIOUS
  <2> DEFINE j == i - n
  <2>1. i \in Nat /\ i >= n + 1 /\ i <= n + p
    BY <1>8, <1>9, SMTT(20)
  <2>2. j \in 1..p /\ n + j = i
    BY <1>8, <1>9, <2>1
  <2> HIDE DEF j, g
  <2>3. g[n + j] = pages[j]
    BY <1>9, <2>2
  <2> QED BY <2>2, <2>3
<1>12. TreeSound(g, n + p, tree, page)
  OBVIOUS
<1> HIDE DEF n, p, g
<1>13. \A i \in 1..n : RecordSound(File, i, content, floors)
  BY <1>3 DEF FileSound
<1>14. ASSUME NEW i \in (n + 1)..Len(g)
       PROVE  RecordSound(g, i, more, floors) /\ FitsAt(g, i)
  <2>1. CASE g[i].type = "page"
    BY <2>1 DEF RecordSound, FitsAt
  <2>2. CASE i = n + p + 1
    <3>1. g[i] = commit /\ i - 1 = n + p
      BY <1>8, <1>9, <2>2, SMTT(20)
    <3>2. ASSUME NEW j \in 1..(i - 1), g[j].type = "commit"
          PROVE  g[j].id # id
      <4>1. j \in 1..n
        <5>1. CASE j \in 1..n
          BY <5>1
        <5>2. CASE j \notin 1..n
          <6>1. j \in (n + 1)..Len(g) /\ j # n + p + 1 /\ j # n + p + 2
            BY <1>8, <1>9, <2>2, <5>2
          <6> QED BY <1>11, <3>2, <6>1
        <5> QED BY <5>1, <5>2
      <4>2. g[j].id \in DOMAIN content
        BY <1>9, <1>13, <3>2, <4>1 DEF RecordSound
      <4> QED BY <1>10, <4>2
    <3> QED BY <1>6, <1>10, <1>12, <3>1, <3>2 DEF RecordSound, FitsAt
  <2>3. CASE i = n + p + 2
    <3>1. g[i] = ref /\ i - 1 = n + p + 1 /\ g[i - 1] = commit
      BY <1>8, <1>9, <2>3
    <3>2. ASSUME NEW j \in 1..(i - 1), g[j].type = "ref", g[j].branch = b
          PROVE  g[j].sequence <= q
      <4>1. j \in 1..n
        <5>1. CASE j \in 1..n
          BY <5>1
        <5>2. CASE j \notin 1..n
          <6>1. j \in (n + 1)..Len(g) /\ j # n + p + 2
            <7>1. j \in Int /\ j <= n + p + 1 /\ j >= 1 /\ n \in Nat /\ p \in Nat
              BY <1>8, <1>9, <2>3
            <7>2. j > n
              BY <5>2, <7>1
            <7>3. Len(g) = n + p + 2
              BY <1>9
            <7> QED BY <7>1, <7>2, <7>3, SMTT(20)
          <6> QED BY <1>6, <1>9, <1>11, <3>2, <6>1
        <5> QED BY <5>1, <5>2
      <4>2. g[j].sequence <= branches[b].sequence + 1
        BY <1>3, <1>9, <3>2, <4>1 DEF RefsKnown
      <4> QED BY <4>2 DEF q
    <3>3. n < i - 1
      BY <1>8, <1>9, <2>3, SMTT(20)
    <3>4. RecordSound(g, i, more, floors)
      BY <1>6, <3>1, <3>2 DEF RecordSound
    <3>5. FitsAt(g, i)
      <4>1. Len(File) < i - 1 /\ q = branches[b].sequence + 1
        BY <3>3 DEF n, q
      <4>2. branches[b].sequence <= q /\ q <= branches[b].sequence + 1
        <5>1. \A x \in Nat : x <= x + 1
          OBVIOUS
        <5>2. \A x \in Int : x <= x
          OBVIOUS
        <5>3. branches[b].sequence \in Nat /\ branches[b].sequence + 1 \in Int
          BY <1>4
        <5> QED BY <4>1, <5>1, <5>2, <5>3
      <4>3. g[i].branch = b /\ g[i].head = id /\ g[i].sequence = q
        BY <1>6, <3>1
      <4>4. /\ g[i - 1].type = "commit" /\ g[i - 1].id = id /\ g[i - 1].branch = b
            /\ g[i - 1].sequence = q
        BY <1>6, <3>1
      <4> QED BY <4>1, <4>2, <4>3, <4>4 DEF FitsAt
    <3> QED BY <3>4, <3>5
  <2> QED BY <1>11, <2>1, <2>2, <2>3
<1>15. File' = g
  BY <1>1, <1>2, <1>8, FileGrows DEF File, g
<1>16. CommitSound'
  <2>1. /\ job'.kind = "commit" /\ job'.id = id /\ job'.branch = b /\ job'.sequence = q
        /\ job'.at = n + p + 1
    BY DEF id, n, p, q
  <2>2. n + p + 1 \in 1..(Len(g) - 1)
    BY <1>8, <1>9, SMTT(20)
  <2>3. Published(g, n + p + 1, Len(g))
    <3>1. n + p + 2 \in ((n + p + 1) + 1)..Len(g)
      BY <1>8, <1>9, SMTT(20)
    <3> QED BY <1>6, <1>9, <3>1 DEF Published
  <2>4. id \notin DOMAIN commits
    BY <1>2, <1>10, RecordsAt
  <2>5. checkpoint.gen = current => n + p + 1 > checkpoint.offset
    <3>1. checkpoint.gen = current => checkpoint.offset \in 1..gens[current].synced
      BY <1>1, <1>2 DEF CheckpointSound
    <3>2. gens[current].synced \in 0..n
      BY <1>2 DEF n
    <3> QED BY <1>8, <1>9, <3>1, <3>2, SMTT(20)
  <2>6. q = branches[b].sequence + 1
    BY DEF q
  <2> QED BY <1>6, <1>9, <1>15, <2>1, <2>2, <2>3, <2>4, <2>5, <2>6 DEF CommitSound
<1>17. job'.kind = "commit"
  OBVIOUS
<1>18. \A i \in (Len(File) + 1)..Len(g) : RecordSound(g, i, content', floors) /\ FitsAt(g, i)
  BY <1>14 DEF n, more
<1>19. g = File \o new
  BY DEF g
<1>20. /\ \E k \in 0..MaxCommits : content' \in [1..k -> Ids \union {NONE}]
       /\ DOMAIN content \subseteq DOMAIN content'
       /\ \A c \in DOMAIN content : content'[c] = content[c]
  BY <1>10 DEF more
<1>21. retains' \in [Names -> Ids \union {NONE}]
  BY <1>3
<1> QED BY <1>8, <1>16, <1>17, <1>18, <1>19, <1>20, <1>21, Appended

\* commitNow up to its sync.
LEMMA CommitStepSound ==
  ASSUME Sound, NEW b \in Branches, Commit(b)
  PROVE  Sound'
<1> DEFINE parent == branches[b].head
           tree == File[commits[parent]].tree
           n == Len(File)
           q == branches[b].sequence + 1
<1>1. /\ state = "open" /\ job = NoJob /\ branches[b].head # NONE /\ Fresh \in Ids
      /\ UNCHANGED <<path, checkpoint, state, current, commits, branches, retains, floors,
                     barrier, collected, readers, streams>>
  BY DEF Commit, MyTurn, Exists, memoryVars, gcVars
<1>2. Serving /\ Types
  BY <1>1 DEF Serving, Sound
<1>3. File \in Seq(Record) /\ FileAndMemory(gens[current].synced)
  BY <1>2, ServingView
<1>4. n \in Nat
  BY <1>3, FileTyped
<1>5. parent \in DOMAIN commits
  BY <1>1, <1>3 DEF FileAndMemory, View, HeadsSound
<1>6. /\ tree \in Nat /\ TreeSound(File, n, tree, content[parent])
      /\ content[parent] \in Ids \union {NONE}
  <2>1. /\ RecordAt(parent) = File[commits[parent]] /\ RecordAt(parent).tree \in Nat
        /\ TreeSound(File, Len(File), RecordAt(parent).tree, content[parent])
        /\ parent \in DOMAIN content
    BY <1>3, <1>5, RecordsAt
  <2>2. content[parent] \in Ids \union {NONE}
    BY <1>2, <2>1, FreshIs
  <2> QED BY <2>1, <2>2
<1>7. branches[b].sequence \in Nat
  BY <1>2 DEF Types, Heads, Branch
<1>8. PICK writes \in BOOLEAN :
        LET pages == IF writes THEN <<Page(Fresh)>> ELSE <<>> IN
        /\ Append_(Publication(pages, CommitRecord(Fresh, b, q, IF writes THEN n + 1 ELSE tree),
                               RefRecord("commit", b, Fresh, q)))
        /\ content' = With(content, Fresh, IF writes THEN Fresh ELSE content[parent])
        /\ job' = [kind |-> "commit", id |-> Fresh, branch |-> b, sequence |-> q,
                   from |-> n, at |-> n + Len(pages) + 1]
  BY DEF Commit
<1>9. CASE writes
  <2> DEFINE pages == <<Page(Fresh)>>
             commit == CommitRecord(Fresh, b, q, n + 1)
             ref == RefRecord("commit", b, Fresh, q)
             new == pages \o <<commit, ref>>
             g == File \o new
  <2>1. /\ Append_(new) /\ content' = With(content, Fresh, Fresh)
        /\ job' = [kind |-> "commit", id |-> Fresh, branch |-> b, sequence |-> q,
                   from |-> n, at |-> n + Len(pages) + 1]
    BY <1>8, <1>9 DEF Publication
  <2>2. Page(Fresh) \in Record /\ Page(Fresh).type = "page" /\ Page(Fresh).id = Fresh
    BY <1>1, RecordsMade DEF Page
  <2>3. pages \in Seq(Record) /\ Len(pages) = 1 /\ pages[1] = Page(Fresh)
        /\ \A i \in 1..Len(pages) : pages[i].type = "page"
    BY <2>2
  <2>4. commit \in Record /\ ref \in Record
    BY <1>1, <1>4, <1>7, RecordsMade
  <2>5. TreeSound(g, n + Len(pages), n + 1, Fresh)
    <3> DEFINE two == <<commit, ref>>
    <3>1. two \in Seq(Record)
      BY <2>4
    <3>2. new = pages \o two
      OBVIOUS
    <3> HIDE DEF two, pages
    <3>3. /\ new \in Seq(Record) /\ Len(new) = Len(pages) + Len(two)
          /\ \A i \in 1..Len(pages) : new[i] = pages[i]
          /\ \A i \in 1..Len(two) : new[Len(pages) + i] = two[i]
      <4>1. pages \in Seq(Record)
        BY <2>3
      <4> HIDE DEF new
      <4> QED BY <4>1, <3>1, <3>2, TwoParts
    <3>4. g = File \o new
      OBVIOUS
    <3> HIDE DEF g, new
    <3>5. \A i \in 1..Len(new) : g[Len(File) + i] = new[i]
      BY <1>3, <3>3, <3>4, TwoParts
    <3>6. Len(two) \in Nat
      BY <3>1
    <3>7. 1 \in 1..Len(new) /\ new[1] = Page(Fresh)
      BY <2>3, <3>3, <3>6
    <3>8. g[n + 1] = Page(Fresh)
      BY <3>5, <3>7
    <3>9. n + 1 # 0 /\ n + 1 \in 1..(n + Len(pages))
      BY <1>4, <2>3
    <3> QED BY <2>2, <3>8, <3>9 DEF TreeSound
  <2>6. Fresh \in Ids \union {NONE} /\ n + 1 \in Nat
    BY <1>1, <1>4
  <2>7. UNCHANGED <<path, checkpoint, state, current, commits, branches, retains, floors,
                    barrier, collected, readers, streams>>
    BY <1>1
  <2> HIDE DEF pages
  <2> QED BY <1>1, <2>1, <2>3, <2>5, <2>6, <2>7, CommitAppends
<1>10. CASE ~writes
  <2> DEFINE pages == <<>>
             commit == CommitRecord(Fresh, b, q, tree)
             ref == RefRecord("commit", b, Fresh, q)
             new == pages \o <<commit, ref>>
             g == File \o new
             page == content[parent]
  <2>1. /\ Append_(new) /\ content' = With(content, Fresh, page)
        /\ job' = [kind |-> "commit", id |-> Fresh, branch |-> b, sequence |-> q,
                   from |-> n, at |-> n + Len(pages) + 1]
    BY <1>8, <1>10 DEF Publication
  <2>3. pages \in Seq(Record) /\ Len(pages) = 0
        /\ \A i \in 1..Len(pages) : pages[i].type = "page"
    OBVIOUS
  <2>4. commit \in Record /\ ref \in Record
    BY <1>1, <1>6, <1>7, RecordsMade
  <2>5. TreeSound(g, n + Len(pages), tree, page)
    <3> DEFINE two == <<commit, ref>>
    <3>1. two \in Seq(Record)
      BY <2>4
    <3>2. new = pages \o two
      OBVIOUS
    <3> HIDE DEF two, pages
    <3>3. new \in Seq(Record)
      BY <2>3, <3>1, <3>2, TwoParts
    <3>4. g = File \o new
      OBVIOUS
    <3> HIDE DEF g, new
    <3>5. \A i \in 1..Len(File) : g[i] = File[i]
      BY <1>3, <3>3, <3>4, TwoParts
    <3>6. n + Len(pages) = n
      BY <1>4, <2>3
    <3> HIDE DEF tree, page
    <3>7. TreeSound(File, n, tree, page)
      BY <1>6 DEF tree, page
    <3>8. TreeSound(g, n, tree, page)
      BY <3>5, <3>7 DEF TreeSound
    <3> QED BY <3>6, <3>8
  <2>6. page \in Ids \union {NONE} /\ tree \in Nat
    BY <1>6
  <2>7. UNCHANGED <<path, checkpoint, state, current, commits, branches, retains, floors,
                    barrier, collected, readers, streams>>
    BY <1>1
  <2> HIDE DEF pages, page, tree
  <2> QED BY <1>1, <2>1, <2>3, <2>5, <2>6, <2>7, CommitAppends
<1> QED BY <1>9, <1>10

\* Other operations append one record.
LEMMA OneAppended ==
  ASSUME Sound, state = "open", job = NoJob, NEW record \in Record, Append_(<<record>>),
         \/ record.type = "meta" /\ record.floors = floors
         \/ /\ record.type = "ref" /\ branches[record.branch] = NoBranch
            /\ record.head \in DOMAIN commits /\ record.sequence = 0,
         job'.kind \in {"create", "retain", "release"},
         job'.kind = "create" =>
           job'.branch \in Branches /\ branches[job'.branch] = NoBranch /\ job'.id \in DOMAIN commits,
         UNCHANGED <<path, checkpoint, state, current, commits, branches, floors, barrier,
                     collected, readers, streams, content>>,
         retains' \in [Names -> Ids \union {NONE}]
  PROVE  Sound'
<1> DEFINE new == <<record>>
           n == Len(File)
           g == File \o new
<1>1. Types /\ Serving
  BY DEF Sound, Serving
<1>2. File \in Seq(Record) /\ FileAndMemory(gens[current].synced)
  BY <1>1, ServingView
<1>3. RefsKnown(File, n, branches)
  BY <1>2 DEF FileAndMemory, View
<1>4. new \in Seq(Record) /\ Len(new) = 1 /\ new[1] = record
  OBVIOUS
<1>5. g = File \o new
  OBVIOUS
<1> HIDE DEF new, g
<1>6. /\ g \in Seq(Record) /\ Len(g) = n + 1 /\ n \in Nat /\ g[n + 1] = record
      /\ \A i \in 1..n : g[i] = File[i]
  <2>1. /\ g \in Seq(Record) /\ Len(g) = Len(File) + Len(new)
        /\ \A i \in 1..Len(File) : g[i] = File[i]
        /\ \A i \in 1..Len(new) : g[Len(File) + i] = new[i]
    <3>1. File \in Seq(Record) /\ new \in Seq(Record)
      BY <1>2, <1>4
    <3> DEFINE f == File
    <3>2. f \in Seq(Record) /\ g = f \o new
      BY <1>5, <3>1
    <3> HIDE DEF f
    <3>3. /\ g \in Seq(Record) /\ Len(g) = Len(f) + Len(new)
          /\ \A i \in 1..Len(f) : g[i] = f[i]
          /\ \A i \in 1..Len(new) : g[Len(f) + i] = new[i]
      BY <3>1, <3>2, TwoParts
    <3> QED BY <3>3 DEF f
  <2>2. 1 \in 1..Len(new) /\ n \in Nat
    BY <1>2, <1>4, FileTyped
  <2> QED BY <1>4, <2>1, <2>2
<1> HIDE DEF n
<1>7. ASSUME NEW i \in (n + 1)..Len(g)
      PROVE  RecordSound(g, i, content', floors) /\ FitsAt(g, i)
  <2>1. i = n + 1
    BY <1>6
  <2>2. g[i] = record /\ i - 1 = n
    BY <1>6, <2>1
  <2>3. CASE record.type = "meta" /\ record.floors = floors
    BY <2>2, <2>3 DEF RecordSound, FitsAt
  <2>4. CASE /\ record.type = "ref" /\ branches[record.branch] = NoBranch
             /\ record.head \in DOMAIN commits /\ record.sequence = 0
    <3>1. NoBranch.head = NONE /\ NoBranch.sequence = 0
      BY DEF NoBranch
    <3>2. ASSUME NEW j \in 1..(i - 1), g[j].type = "ref", g[j].branch = record.branch
          PROVE  g[j].sequence <= 0
      <4>1. j \in 1..n /\ g[j] = File[j]
        BY <1>6, <2>2
      <4> QED BY <1>3, <2>4, <3>1, <3>2, <4>1 DEF RefsKnown
    <3>3. RecordSound(g, i, content', floors)
      BY <2>2, <2>4, <3>2 DEF RecordSound
    <3>4. FitsAt(g, i)
      BY <2>2, <2>4, <3>1 DEF FitsAt
    <3> QED BY <3>3, <3>4
  <2> QED BY <2>3, <2>4
<1>8. /\ \E k \in 0..MaxCommits : content' \in [1..k -> Ids \union {NONE}]
      /\ DOMAIN content \subseteq DOMAIN content'
      /\ \A c \in DOMAIN content : content'[c] = content[c]
  BY <1>1 DEF Types
<1>9. CommitSound' /\ job'.kind \in {"commit", "create", "retain", "release"}
  BY DEF CommitSound
<1>10. \A i \in (Len(File) + 1)..Len(g) : RecordSound(g, i, content', floors) /\ FitsAt(g, i)
  BY <1>7 DEF n
<1>11. Append_(new)
  BY DEF new
<1> QED BY <1>4, <1>5, <1>8, <1>9, <1>10, <1>11, Appended

\* createBranch() up to its sync.
LEMMA CreateBranchSound ==
  ASSUME Sound, NEW b \in Branches, CreateBranch(b)
  PROVE  Sound'
<1>1. /\ state = "open" /\ job = NoJob /\ branches[b].head = NONE
      /\ UNCHANGED <<path, checkpoint, state, current, commits, branches, floors, barrier,
                     collected, readers, streams, content>> /\ retains' = retains
  BY DEF CreateBranch, MyTurn, Exists, memoryVars, gcVars, historyVars
<1>2. PICK c \in DOMAIN commits :
        /\ Append_(<<RefRecord("create", b, c, 0)>>)
        /\ job' = [kind |-> "create", id |-> c, branch |-> b, from |-> Len(File)]
  BY DEF CreateBranch
<1>3. Types /\ Serving
  BY <1>1 DEF Sound, Serving
<1>4. branches[b] = NoBranch /\ retains \in [Names -> Ids \union {NONE}]
  BY <1>1, <1>3 DEF Types, Heads
<1>5. FileAndMemory(gens[current].synced)
  BY <1>3, ServingView
<1>6. c \in Ids
  BY <1>2, <1>5, RecordsAt
<1> DEFINE record == RefRecord("create", b, c, 0)
<1>7. /\ record \in Record /\ record.type = "ref" /\ record.branch = b /\ record.head = c
      /\ record.sequence = 0
  BY <1>6, RecordsMade DEF RefRecord
<1>8. Append_(<<record>>)
  BY <1>2
<1> HIDE DEF record
<1>9. job'.kind = "create" /\ job'.branch = b /\ job'.id = c
  BY <1>2
<1> QED BY <1>1, <1>2, <1>4, <1>7, <1>8, <1>9, OneAppended

\* writeMetadata up to its sync.
LEMMA MetadataSound ==
  ASSUME Sound, state = "open", job = NoJob, retains' \in [Names -> Ids \union {NONE}],
         WriteMetadata(retains'), job'.kind \in {"retain", "release"},
         UNCHANGED <<path, checkpoint, state, current, commits, branches, floors, barrier,
                     collected, readers, streams, content>>
  PROVE  Sound'
<1> DEFINE names == retains'
           record == MetaRecord(names, floors)
<1>1. floors \in [Branches -> Nat]
  BY DEF Sound, Types
<1>2. names \in [Names -> Ids \union {NONE}] /\ Append_(<<record>>)
  BY DEF WriteMetadata
<1>3. record.type = "meta" /\ record.floors = floors
  BY DEF MetaRecord
<1> HIDE DEF names
<1>4. record \in Record
  BY <1>1, <1>2, RecordsMade
<1> HIDE DEF record
<1> QED BY <1>2, <1>3, <1>4, OneAppended

\* retain() up to its sync.
LEMMA RetainSound ==
  ASSUME Sound, NEW name \in Names, Retain(name)
  PROVE  Sound'
<1>1. /\ state = "open" /\ job = NoJob
      /\ UNCHANGED <<path, checkpoint, state, current, commits, branches, floors, barrier,
                     collected, readers, streams, content>>
  BY DEF Retain, MyTurn, gcVars, historyVars
<1>2. PICK c \in DOMAIN commits :
        /\ retains' = [retains EXCEPT ![name] = c] /\ WriteMetadata(retains')
        /\ job' = [kind |-> "retain", id |-> c, name |-> name, from |-> Len(File)]
  BY DEF Retain
<1>3. Types /\ Serving
  BY <1>1 DEF Sound, Serving
<1>4. FileAndMemory(gens[current].synced)
  BY <1>3, ServingView
<1>5. c \in Ids
  BY <1>2, <1>4, RecordsAt
<1>6. retains' \in [Names -> Ids \union {NONE}]
  BY <1>2, <1>3, <1>5 DEF Types
<1>7. job'.kind \in {"retain", "release"} /\ WriteMetadata(retains')
  BY <1>2
<1> QED BY <1>1, <1>6, <1>7, MetadataSound

\* releaseRetention() up to its sync.
LEMMA ReleaseRetentionSound ==
  ASSUME Sound, NEW name \in Names, ReleaseRetention(name)
  PROVE  Sound'
<1>1. /\ state = "open" /\ job = NoJob
      /\ retains' = [retains EXCEPT ![name] = NONE] /\ WriteMetadata(retains')
      /\ job' = [kind |-> "release", name |-> name, from |-> Len(File)]
      /\ UNCHANGED <<path, checkpoint, state, current, commits, branches, floors, barrier,
                     collected, readers, streams, content>>
  BY DEF ReleaseRetention, MyTurn, gcVars
<1>2. retains' \in [Names -> Ids \union {NONE}]
  BY <1>1 DEF Sound, Types
<1>3. job'.kind \in {"retain", "release"}
  BY <1>1
<1> QED BY <1>1, <1>2, <1>3, MetadataSound

-----------------------------------------------------------------------------
(* Syncing. *)

\* What a process has in its file, whether or not it serves yet.
LEMMA RunningView ==
  ASSUME Sound, Running
  PROVE  /\ current \in path /\ current \in Generations /\ File \in Seq(Record)
         /\ Length(File) = Len(File) /\ gens[current].synced \in 0..Len(File)
         /\ Len(File) \in Nat /\ Len(File) > 0 /\ DOMAIN File = 1..Len(File)
         /\ FileSound(File, Len(File), gens[current].synced, content, LowOf(File))
         /\ LowOf(File) # NoFloors => \E i \in 1..gens[current].synced : File[i].type = "meta"
         /\ current \in Written
<1>1. /\ Types /\ Numbered /\ FilesSound /\ MemorySound /\ JobSound
  BY DEF Sound
<1>3. current \in path /\ current \in Generations
  BY <1>1 DEF Numbered, Types
<1>4. File \in Seq(Record) /\ gens[current].synced \in Nat
  BY <1>1, GensTyped DEF File
<1>5. /\ gens[current].synced <= Length(File) /\ Length(File) = Len(File)
      /\ FileSound(File, Length(File), gens[current].synced, content, LowOf(File))
      /\ LowOf(File) # NoFloors => \E i \in 1..gens[current].synced : File[i].type = "meta"
  BY <1>1, <1>3 DEF FilesSound, File
<1>6. Len(File) \in Nat /\ DOMAIN File = 1..Len(File)
  BY <1>4, FileTyped
<1>7. Len(File) > 0
  <2>1. CASE state = "opening" /\ job.id # NONE
    <3>1. job.kind = "open"
      BY <1>1, <2>1 DEF Sound, Quiet, Serving
    <3>2. job.at \in 1..(Len(File) - 1)
      BY <1>1, <2>1, <3>1 DEF JobSound, OpenSound
    <3> QED BY <1>6, <3>2
  <2>2. CASE ~(state = "opening" /\ job.id # NONE)
    <3>1. View(File, Len(File), commits, branches, floors)
      BY <1>1, <2>2 DEF MemorySound
    <3>2. PICK b \in Branches : branches[b] # NoBranch
      BY <3>1 DEF View, Heads, NoBranches
    <3>3. branches[b].head # NONE
      BY <3>1, <3>2 DEF View, Heads
    <3>4. PICK c \in DOMAIN commits : TRUE
      BY <3>1, <3>3 DEF View, HeadsSound
    <3>5. commits[c] \in 1..Len(File)
      BY <3>1 DEF View, CommitsSound
    <3> QED BY <1>6, <3>5
  <2> QED BY <2>1, <2>2
<1>8. current \in Written
  BY <1>3, <1>4, <1>6, <1>7 DEF Written, File
<1> QED BY <1>3, <1>4, <1>5, <1>6, <1>7, <1>8

\* sync(), file by file.
LEMMA SyncIs ==
  ASSUME Types, Synced
  PROVE  /\ gens' \in [Generations -> Generation]
         /\ \A g \in Generations :
              /\ gens'[g].file = gens[g].file
              /\ gens'[g].synced = IF g = current THEN Len(File) ELSE gens[g].synced
              /\ gens'[g].leases = gens[g].leases
              /\ gens'[g].retired = gens[g].retired /\ gens'[g].closed = gens[g].closed
<1> DEFINE n == Len(File)
           after == [gens[current] EXCEPT !.synced = n]
<1>1. current \in Generations /\ gens[current] \in Generation /\ File \in Seq(Record)
  BY GensTyped DEF File
<1>2. n \in Nat
  BY <1>1, FileTyped
<1>3. gens' = [gens EXCEPT ![current] = after]
  BY DEF Synced
<1> HIDE DEF n
<1>4. /\ after \in Generation /\ after.file = gens[current].file /\ after.synced = n
      /\ after.leases = gens[current].leases
      /\ after.retired = gens[current].retired /\ after.closed = gens[current].closed
  BY <1>1, <1>2 DEF Generation
<1> HIDE DEF after
<1>5. gens' \in [Generations -> Generation]
  BY <1>3, <1>4 DEF Types
<1>6. \A g \in Generations : gens'[g] = IF g = current THEN after ELSE gens[g]
  BY <1>3 DEF Types
<1> QED BY <1>4, <1>5, <1>6 DEF n

\* Everything in the file is synced: a file is as sound as before.
LEMMA SyncedFiles ==
  ASSUME Sound, Running, Synced, path' = path, current' = current, content' = content
  PROVE  /\ FilesSound'
         /\ checkpoint' = checkpoint => CheckpointSound'
<1>1. Types /\ FilesSound /\ CheckpointSound
  BY DEF Sound
<1> DEFINE n == Len(File)
           s == gens[current].synced
<1>2. /\ current \in path /\ current \in Generations /\ File \in Seq(Record)
      /\ Length(File) = n /\ s \in 0..n /\ n \in Nat
      /\ FileSound(File, n, s, content, LowOf(File))
      /\ LowOf(File) # NoFloors => \E i \in 1..s : File[i].type = "meta"
  BY RunningView
<1>3. \A g \in Generations :
        /\ gens'[g].file = gens[g].file
        /\ gens'[g].synced = IF g = current THEN n ELSE gens[g].synced
  BY <1>1, SyncIs
<1>4. path \in SUBSET Generations
  BY <1>1 DEF Types
<1>5. FileSound(File, n, n, content, LowOf(File))
  <2> DEFINE f == File
             low == LowOf(File)
  <2>1. FileSound(f, n, s, content, low) /\ n \in Nat /\ s \in 0..n
    BY <1>2
  <2> HIDE DEF n, s, f, low
  <2>2. n \in 0..n /\ s <= n /\ \A j \in 1..n : f[j] = f[j]
    BY <2>1
  <2>3. DOMAIN content \subseteq DOMAIN content /\ \A c \in DOMAIN content : content[c] = content[c]
    OBVIOUS
  <2>4. FileSound(f, n, n, content, low)
    BY <2>1, <2>2, <2>3, FileAgrees
  <2> QED BY <2>4 DEF f, low
<1>6. FilesSound'
  <2> SUFFICES ASSUME NEW g \in path
               PROVE  LET f == gens[g].file IN
                      /\ gens'[g].synced <= Length(f)
                      /\ FileSound(f, Length(f), gens'[g].synced, content, LowOf(f))
                      /\ LowOf(f) # NoFloors => \E i \in 1..gens'[g].synced : f[i].type = "meta"
                      /\ Running' /\ g = current => Length(f) = Len(f)
    BY <1>3, <1>4 DEF FilesSound
  <2>1. CASE g = current
    <3>1. gens'[g].synced = n /\ gens[g].file = File
      BY <1>2, <1>3, <2>1 DEF File
    <3>2. LowOf(File) # NoFloors => \E i \in 1..n : File[i].type = "meta"
      BY <1>2
    <3> QED BY <1>2, <1>5, <3>1, <3>2
  <2>2. CASE g # current
    <3>1. gens'[g].synced = gens[g].synced
      BY <1>3, <1>4, <2>2
    <3> QED BY <1>1, <2>2, <3>1 DEF FilesSound
  <2> QED BY <2>1, <2>2
<1>7. ASSUME checkpoint' = checkpoint
      PROVE  CheckpointSound'
  <2> SUFFICES ASSUME checkpoint.gen \in path
               PROVE  LET f == gens[checkpoint.gen].file
                          start == checkpoint.offset
                      IN
                      /\ start \in 1..gens'[checkpoint.gen].synced
                      /\ checkpoint.boundary = f[start]
                      /\ checkpoint.retains \in [Names -> Ids \union {NONE}]
                      /\ checkpoint.floors = LowOf(f)
                      /\ View(f, start, checkpoint.commits, checkpoint.branches, checkpoint.floors)
                      /\ \A i \in (start + 1)..Length(f) :
                           RefSound(f, i, gens'[checkpoint.gen].synced, start, checkpoint.commits,
                                    checkpoint.branches, checkpoint.floors)
    BY <1>3, <1>4, <1>7 DEF CheckpointSound
  <2>1. CASE checkpoint.gen # current
    <3>1. gens'[checkpoint.gen].synced = gens[checkpoint.gen].synced
      BY <1>3, <1>4, <2>1
    <3> QED BY <1>1, <3>1 DEF CheckpointSound
  <2>2. CASE checkpoint.gen = current
    <3> DEFINE start == checkpoint.offset
               first == checkpoint.commits
               before == checkpoint.branches
               low == checkpoint.floors
               f == File
    <3>1. /\ start \in 1..s /\ checkpoint.boundary = f[start]
          /\ checkpoint.retains \in [Names -> Ids \union {NONE}]
          /\ low = LowOf(f)
          /\ View(f, start, first, before, low)
          /\ \A i \in (start + 1)..n : RefSound(f, i, s, start, first, before, low)
      BY <1>1, <1>2, <2>2 DEF CheckpointSound, File
    <3>2. gens[checkpoint.gen].file = f /\ gens'[checkpoint.gen].synced = n
      BY <1>2, <1>3, <2>2 DEF File
    <3>3. \A c \in DOMAIN first : first[c] \in 1..start
      BY <3>1 DEF View, CommitsSound
    <3>4. n \in Nat /\ s \in 0..n /\ Length(f) = n
      BY <1>2
    <3> HIDE DEF start, first, before, low, f, n, s
    <3>5. start \in Nat /\ start \in 1..n
      BY <3>1, <3>4
    <3>6. ASSUME NEW i \in (start + 1)..n
          PROVE  RefSound(f, i, n, start, first, before, low)
      <4>1. i \in 1..n /\ RefSound(f, i, s, start, first, before, low)
        BY <3>1, <3>4, <3>5
      <4>2. \A c \in DOMAIN first : first[c] \in 1..n
        BY <3>3, <3>4, <3>5
      <4>3. s <= n /\ \A j \in 1..n : f[j] = f[j]
        BY <3>4
      <4> QED BY <3>4, <3>5, <4>1, <4>2, <4>3, RefAgrees
    <3> QED BY <3>1, <3>2, <3>4, <3>5, <3>6 DEF start, first, before, low
  <2> QED BY <2>1, <2>2
<1> QED BY <1>6, <1>7

\* A checkpoint of what memory now holds.
LEMMA SidecarSound ==
  ASSUME Sound, Running, Synced, path' = path, current' = current,
         NEW known, NEW heads, floors = LowOf(File),
         View(File, Len(File), known, heads, floors),
         checkpoint' \in Sidecars(known, heads)
  PROVE  /\ CheckpointSound'
         /\ checkpoint'.gen = current /\ checkpoint'.offset = Len(File)
         /\ checkpoint'.commits = known /\ checkpoint'.branches = heads
<1> DEFINE n == Len(File)
<1>1. /\ checkpoint'.gen = current /\ checkpoint'.offset = n
      /\ checkpoint'.boundary = File[n] /\ checkpoint'.commits = known
      /\ checkpoint'.branches = heads /\ checkpoint'.retains = retains
      /\ checkpoint'.floors = floors
  <2>1. checkpoint' = [gen |-> current, offset |-> Len(File), boundary |-> File[Len(File)],
                       commits |-> known, branches |-> heads, retains |-> retains,
                       floors |-> floors]
    BY DEF Sidecars
  <2> QED BY <2>1
<1>2. Types /\ retains \in [Names -> Ids \union {NONE}]
  BY DEF Sound, Types
<1>3. current \in Generations /\ Length(File) = n /\ n \in Nat /\ n > 0
  BY RunningView
<1>4. gens'[current].file = File /\ gens'[current].synced = n
  BY <1>2, <1>3, SyncIs DEF File
<1>5. n \in 1..n /\ \A i \in (n + 1)..n : FALSE
  BY <1>3
<1> HIDE DEF n
<1>6. View(File, n, known, heads, floors)
  BY DEF n
<1>7. CheckpointSound'
  BY <1>1, <1>2, <1>3, <1>4, <1>5, <1>6 DEF CheckpointSound
<1> QED BY <1>1, <1>7 DEF n

\* An operation ends: its records are on the disk and memory follows.
LEMMA SyncedSound ==
  ASSUME Sound, Running, Synced, job' = NoJob, job.kind \notin {"collect", "install"},
         UNCHANGED <<path, current, retains, floors, barrier, collected, readers, content>>,
         state' = IF state = "opening" THEN "open" ELSE state,
         Serving => DOMAIN commits \subseteq DOMAIN commits',
         branches' \in Heads, floors = LowOf(File),
         View(File, Len(File), commits', branches', floors),
         \/ checkpoint' = checkpoint /\ Behind(commits', branches')
         \/ checkpoint' \in Sidecars(commits', branches'),
         streams' \in [Streams -> Stream],
         \A t \in Streams : /\ streams'[t].state = streams[t].state
                            /\ streams'[t].gen = streams[t].gen
  PROVE  Sound'
<1>1. /\ Types /\ Numbered /\ Room /\ Quiet /\ Leased
      /\ FilesSound /\ CheckpointSound /\ MemorySound /\ JobSound /\ Snapshots
  BY DEF Sound
<1>2. state \in {"opening", "open", "closing"} /\ state' \in {"open", "closing"}
      /\ Serving' /\ Running' /\ NoJob.kind = "idle"
  BY DEF Running, Serving, NoJob
<1>3. /\ gens' \in [Generations -> Generation]
      /\ \A g \in Generations :
           /\ gens'[g].file = gens[g].file
           /\ gens'[g].synced = IF g = current THEN Len(File) ELSE gens[g].synced
           /\ gens'[g].leases = gens[g].leases
           /\ gens'[g].retired = gens[g].retired /\ gens'[g].closed = gens[g].closed
  BY <1>1, SyncIs
<1>4. /\ current \in path /\ current \in Generations /\ Len(File) > 0 /\ current \in Written
      /\ Len(File) \in Nat
  BY RunningView
<1>5. File' = File /\ Written' = Written
  BY <1>3, <1>4 DEF File, Written
<1>6. Types'
  BY <1>1, <1>2, <1>3 DEF Types
<1>7. FilesSound'
  BY SyncedFiles
<1>8. CheckpointSound' /\ (checkpoint'.gen = current => Behind(commits, branches)')
      /\ (checkpoint'.gen = 0 \/ checkpoint'.gen \in Written)
  <2>1. CASE checkpoint' = checkpoint /\ Behind(commits', branches')
    <3>1. CheckpointSound'
      BY <2>1, SyncedFiles
    <3>2. Behind(commits, branches)'
      BY <2>1 DEF Behind
    <3> QED BY <1>1, <2>1, <3>1, <3>2 DEF Numbered
  <2>2. CASE checkpoint' \in Sidecars(commits', branches')
    <3> DEFINE known == commits'
               heads == branches'
    <3>1. View(File, Len(File), known, heads, floors) /\ checkpoint' \in Sidecars(known, heads)
      BY <2>2
    <3> HIDE DEF known, heads
    <3>2. /\ CheckpointSound' /\ checkpoint'.gen = current /\ checkpoint'.offset = Len(File)
          /\ checkpoint'.commits = known /\ checkpoint'.branches = heads
      BY <3>1, SidecarSound
    <3>3. \A b \in Branches : heads[b].sequence \in Nat
      BY <3>1 DEF View, Heads, Branch
    <3>4. Behind(commits, branches)'
      <4>1. \A x \in Nat : x <= x
        OBVIOUS
      <4> QED BY <3>2, <3>3, <4>1 DEF Behind, known, heads
    <3> QED BY <1>4, <3>2, <3>4
  <2> QED BY <2>1, <2>2
<1>9. MemorySound'
  <2>1. floors' = LowOf(File') /\ View(File', Len(File'), commits', branches', floors')
    BY <1>5
  <2>2. Behind(commits, branches)'
    BY <1>8 DEF Behind
  <2> QED BY <2>1, <2>2 DEF MemorySound
<1>10. Numbered'
  <2>1. PICK k \in 0..(MaxCollections + 1) :
          /\ Written = 1..k
          /\ \A g \in path \union {current} : g <= k \/ g = 1
          /\ k > 1 \/ Serving => \A g \in path \union {current} : gens[g].synced > 0
    BY <1>1 DEF Numbered
  <2>2. k \in Nat
    BY <2>1, FileAssumption
  <2>3. \A g \in path \union {current} : gens'[g].synced > 0
    <3>1. CASE k > 1
      BY <1>1, <1>3, <1>4, <2>1, <3>1 DEF Types
    <3>2. CASE ~(k > 1)
      <4>1. \A g \in path \union {current} : g = 1
        <5>1. \A g \in path \union {current} : g \in Nat /\ g >= 1
          BY <1>1 DEF Types, Generations
        <5> QED BY <2>1, <2>2, <3>2, <5>1
      <4> QED BY <1>3, <1>4, <4>1
    <3> QED BY <3>1, <3>2
  <2> QED BY <1>1, <1>4, <1>5, <1>8, <2>1, <2>3 DEF Numbered
<1>11. Room'
  <2>1. collected <= barrier /\ collected \in Nat /\ barrier \in Nat
    BY <1>1, <1>2, <1>5, RestPlain DEF Room
  <2>2. job.kind \notin {"collect", "install"} => Room'
    BY <1>1, <1>2, <1>5, RestPlain DEF Room
  <2> QED BY <2>2
<1>12. Quiet'
  BY <1>2 DEF Quiet
<1>13. Leased'
  <2>1. \A g : Held(g)' = Held(g)
    <3>1. \A g : ReadersOf(g)' = ReadersOf(g) /\ StreamsOf(g)' = StreamsOf(g)
      BY DEF ReadersOf, StreamsOf
    <3> QED BY <3>1 DEF Held
  <2>2. ~gens'[current].retired
    BY <1>1, <1>3, <1>4 DEF Leased
  <2>3. \A g \in Generations :
         IF gens'[g].closed THEN gens'[g].retired /\ Held(g)' = 0
         ELSE /\ gens'[g].leases = Held(g)' + (IF gens'[g].retired THEN 0 ELSE 1)
              /\ gens'[g].leases > 0
    BY <1>1, <1>3, <2>1 DEF Leased
  <2> QED BY <1>1, <1>2, <1>5, <2>2, <2>3 DEF Leased
<1>14. JobSound'
  BY <1>2 DEF JobSound, OpenSound, CommitSound, CollectSound
<1>15. Snapshots'
  <2>1. \A r \in Readers : readers[r].state = "open" => Serving /\ readers[r].gen \in Generations
    BY <1>1 DEF Quiet, Leased, Written
  <2> QED BY <1>1, <1>3, <2>1 DEF Snapshots
<1> QED BY <1>6, <1>7, <1>8, <1>9, <1>10, <1>11, <1>12, <1>13, <1>14, <1>15 DEF Sound

\* The first commit of an empty file.
LEMMA ViewFirst ==
  ASSUME NEW n \in Nat, NEW f \in Seq(Record), Len(f) = n,
         NEW low \in [Branches -> Nat], NEW id \in Ids,
         NEW at \in 1..n, f[at].type = "commit", f[at].id = id, f[at].branch = Main,
         f[at].sequence = 0,
         \A i \in DOMAIN f : f[i].type = "ref" => f[i].branch = Main /\ f[i].sequence = 0,
         NEW known, DOMAIN known = {id}, known[id] = at,
         NEW heads \in Heads, \A b \in Branches : b # Main => heads[b] = NoBranch,
         heads[Main].head = id, heads[Main].base = id, heads[Main].sequence = 0
  PROVE  View(f, n, known, heads, low)
<1>1. id # NONE /\ Main \in Branches /\ NoBranch.head = NONE /\ NoBranch.sequence = 0
  BY FileAssumption DEF Ids, NONE, NoBranch
<1>2. heads # NoBranches
  BY <1>1 DEF NoBranches
<1>3. CommitsSound(f, n, known)
  BY DEF CommitsSound, Published
<1>4. HeadsSound(f, known, heads, low)
  <2> SUFFICES ASSUME NEW b \in Branches
               PROVE  /\ heads[b].head # NONE =>
                           /\ heads[b].head \in DOMAIN known /\ heads[b].base \in DOMAIN known
                           /\ \A k \in (low[b] + 1)..heads[b].sequence :
                                \E c \in DOMAIN known : f[known[c]].branch = b /\ f[known[c]].sequence = k
                      /\ \A c \in DOMAIN known :
                           f[known[c]].branch = b => f[known[c]].sequence <= heads[b].sequence
    BY DEF HeadsSound
  <2>1. low[b] \in Nat
    OBVIOUS
  <2>2. CASE b = Main
    <3>1. \A k \in (low[b] + 1)..0 : FALSE
      BY <2>1
    <3> QED BY <2>2, <3>1
  <2>3. CASE b # Main
    BY <1>1, <2>3
  <2> QED BY <2>2, <2>3
<1>5. RefsKnown(f, n, heads)
  <2>1. \A i \in 1..n : i \in DOMAIN f
    BY FileTyped
  <2> QED BY <1>1, <2>1 DEF RefsKnown
<1> QED BY <1>2, <1>3, <1>4, <1>5 DEF View

\* The batch is handed to the streams.
LEMMA DeliveriesTyped ==
  ASSUME streams \in [Streams -> Stream], NEW b, NEW n \in Nat, streams' = Deliveries(b, n)
  PROVE  /\ streams' \in [Streams -> Stream]
         /\ \A t \in Streams : /\ streams'[t].state = streams[t].state
                               /\ streams'[t].gen = streams[t].gen
<1> SUFFICES ASSUME NEW t \in Streams
             PROVE  /\ streams'[t] \in Stream /\ streams'[t].state = streams[t].state
                    /\ streams'[t].gen = streams[t].gen
  BY DEF Deliveries
<1>1. streams[t] \in Stream /\ streams[t].queue \in Seq(Nat)
  BY ReaderTyped
<1> DEFINE longer == Append(streams[t].queue, n)
           after == [streams[t] EXCEPT !.queue = longer, !.after = n]
<1>2. longer \in Seq(Nat)
  BY <1>1
<1>3. streams'[t] = after \/ streams'[t] = streams[t]
  BY DEF Deliveries
<1> HIDE DEF longer
<1>4. after \in Stream /\ after.state = streams[t].state /\ after.gen = streams[t].gen
  BY <1>1, <1>2 DEF Stream
<1> HIDE DEF after
<1> QED BY <1>1, <1>3, <1>4

\* While memory and checkpoint stay, so does what they say of one another.
LEMMA SyncKeeps ==
  ASSUME Sound, job.kind \in {"open", "commit", "create", "retain", "release"}
  PROVE  /\ Running /\ Types /\ job.kind \notin {"collect", "install"}
         /\ floors = LowOf(File) /\ floors \in [Branches -> Nat] /\ branches \in Heads
         /\ streams \in [Streams -> Stream]
         /\ job.kind = "open" => state = "opening"
         /\ job.kind # "open" => Serving /\ state # "opening"
         /\ job.kind # "open" \/ job.id = NONE =>
              /\ View(File, Len(File), commits, branches, floors)
              /\ Behind(commits, branches)
<1>1. Types /\ Quiet /\ MemorySound /\ JobSound
  BY DEF Sound
<1>2. /\ job.kind = "open" => state = "opening"
      /\ job.kind # "open" => Serving /\ state # "opening"
  BY <1>1 DEF Quiet, JobSound, Serving
<1>3. Running
  BY <1>2 DEF Running, Serving
<1>4. job.kind # "open" \/ job.id = NONE =>
        /\ floors = LowOf(File) /\ View(File, Len(File), commits, branches, floors)
        /\ Behind(commits, branches)
  BY <1>1, <1>2, <1>3 DEF MemorySound
<1>5. floors = LowOf(File)
  BY <1>1, <1>4 DEF JobSound, OpenSound
<1> QED BY <1>1, <1>2, <1>3, <1>4, <1>5 DEF Types

\* sync() returns.
LEMMA SyncDoneSound ==
  ASSUME Sound, SyncDone
  PROVE  Sound'
<1>1. /\ job.kind \in {"open", "commit", "create", "retain", "release"}
      /\ Synced /\ job' = NoJob
      /\ UNCHANGED <<path, current, retains, floors, barrier, collected, readers, content>>
  BY DEF SyncDone, gcVars
<1>2. /\ Running /\ Types /\ job.kind \notin {"collect", "install"}
      /\ floors = LowOf(File) /\ floors \in [Branches -> Nat] /\ branches \in Heads
      /\ streams \in [Streams -> Stream]
      /\ job.kind = "open" => state = "opening"
      /\ job.kind # "open" => Serving /\ state # "opening"
      /\ job.kind # "open" \/ job.id = NONE =>
           /\ View(File, Len(File), commits, branches, floors)
           /\ Behind(commits, branches)
  BY <1>1, SyncKeeps
<1>3. File \in Seq(Record) /\ Len(File) \in Nat /\ DOMAIN File = 1..Len(File)
  BY <1>2, RunningView
<1>4. JobSound
  BY DEF Sound
<1>5. CASE job.kind = "commit"
  <2> DEFINE b == job.branch
             id == job.id
             at == job.at
             q == job.sequence
             after == [branches[b] EXCEPT !.head = id, !.sequence = q]
  <2>1. /\ commits' = With(commits, id, at)
        /\ branches' = [branches EXCEPT ![b] = after]
        /\ streams' = Deliveries(b, q)
        /\ state' = state /\ checkpoint' = checkpoint
    BY <1>5 DEF SyncDone
  <2>2. /\ b \in Branches /\ branches[b].head # NONE
        /\ q = branches[b].sequence + 1
        /\ at \in 1..(Len(File) - 1) /\ File[at].type = "commit" /\ File[at].id = id
        /\ File[at].branch = b /\ File[at].sequence = q
        /\ Published(File, at, Len(File)) /\ id \notin DOMAIN commits
        /\ checkpoint.gen = current => at > checkpoint.offset
    BY <1>4, <1>5 DEF JobSound, CommitSound
  <2>3. at \in 1..Len(File) /\ at \in DOMAIN File /\ at \in Int
    BY <1>3, <2>2
  <2>4. id \in Ids
    BY <1>3, <2>2, <2>3, FileTyped, RecordKinds
  <2>5. branches[b] \in Branch /\ branches[b].sequence \in Nat
    BY <1>2, <2>2 DEF Heads, Branch
  <2>6. q \in Nat /\ q > branches[b].sequence
    BY <2>2, <2>5
  <2> HIDE DEF b, id, at, q
  <2>7. /\ after \in Branch /\ after.head = id /\ after.sequence = q
        /\ after.base = branches[b].base
    BY <2>4, <2>5, <2>6 DEF Branch
  <2> HIDE DEF after
  <2>8. \A x \in Branches : branches'[x] = IF x = b THEN after ELSE branches[x]
    BY <1>2, <2>1 DEF Heads
  <2>9. branches' \in Heads
    <3>1. branches' \in [Branches -> Branch]
      BY <1>2, <2>1, <2>7 DEF Heads
    <3>2. id # NONE
      BY <2>4, FileAssumption DEF Ids, NONE
    <3> QED BY <1>2, <2>7, <2>8, <3>1, <3>2 DEF Heads
  <2>10. View(File, Len(File), commits', branches', floors)
    <3> DEFINE next == branches'
               f == File
    <3>1. /\ next \in Heads /\ \A x \in Branches : x # b => next[x] = branches[x]
          /\ next[b].head = id /\ next[b].base = branches[b].base
          /\ next[b].sequence = branches[b].sequence + 1
      BY <2>2, <2>7, <2>8, <2>9
    <3>2. /\ f \in Seq(Record) /\ f[at].type = "commit" /\ f[at].id = id
          /\ f[at].branch = b /\ f[at].sequence = branches[b].sequence + 1
          /\ Published(f, at, Len(f)) /\ View(f, Len(f), commits, branches, floors)
          /\ Len(f) \in Nat /\ at \in 1..Len(f)
      BY <1>2, <1>3, <1>5, <2>2, <2>3
    <3> HIDE DEF next, f
    <3>3. View(f, Len(f), With(commits, id, at), next, floors)
      BY <1>2, <2>2, <2>4, <3>1, <3>2, ViewCommits
    <3> QED BY <2>1, <3>3 DEF next, f
  <2>11. Behind(commits', branches')
    <3> SUFFICES ASSUME checkpoint.gen = current
                 PROVE  /\ \A c \in DOMAIN commits' : commits'[c] <= checkpoint.offset
                                                      => c \in DOMAIN checkpoint.commits
                        /\ \A x \in Branches : checkpoint.branches[x].sequence <= branches'[x].sequence
      BY DEF Behind
    <3>1. /\ \A c \in DOMAIN commits : commits[c] <= checkpoint.offset
                                         => c \in DOMAIN checkpoint.commits
          /\ \A x \in Branches : checkpoint.branches[x].sequence <= branches[x].sequence
      BY <1>2, <1>5 DEF Behind
    <3>2. /\ DOMAIN commits' = DOMAIN commits \union {id} /\ commits'[id] = at
          /\ \A c \in DOMAIN commits : c # id => commits'[c] = commits[c]
      BY <2>1 DEF With
    <3>3. checkpoint.offset \in Int /\ checkpoint.branches \in Heads
      <4>1. CheckpointSound /\ current \in path /\ gens[current].synced \in Nat
        BY <1>2, RunningView, GensTyped DEF Sound
      <4> QED BY <4>1 DEF CheckpointSound, View
    <3>4. checkpoint.branches[b].sequence \in Nat
      BY <2>2, <3>3 DEF Heads, Branch
    <3>5. ~(at <= checkpoint.offset)
      BY <2>2, <2>3, <3>3
    <3>6. checkpoint.branches[b].sequence <= q
      BY <2>2, <2>5, <2>6, <3>1, <3>4
    <3> QED BY <2>7, <2>8, <3>1, <3>2, <3>5, <3>6
  <2>12. /\ streams' \in [Streams -> Stream]
         /\ \A t \in Streams : /\ streams'[t].state = streams[t].state
                               /\ streams'[t].gen = streams[t].gen
    BY <1>2, <2>1, <2>6, DeliveriesTyped
  <2>13. DOMAIN commits \subseteq DOMAIN commits'
    BY <2>1 DEF With
  <2>14. state' = IF state = "opening" THEN "open" ELSE state
    BY <1>2, <1>5, <2>1
  <2> QED BY <1>1, <1>2, <2>1, <2>9, <2>10, <2>11, <2>12, <2>13, <2>14, SyncedSound
<1>6. CASE job.kind = "create"
  <2> DEFINE b == job.branch
             id == job.id
             after == [head |-> id, sequence |-> 0, base |-> id]
  <2>1. /\ branches' = [branches EXCEPT ![b] = after]
        /\ state' = state /\ checkpoint' = checkpoint /\ commits' = commits /\ streams' = streams
    BY <1>6 DEF SyncDone
  <2>2. b \in Branches /\ branches[b] = NoBranch /\ id \in DOMAIN commits
    BY <1>4, <1>6 DEF JobSound
  <2>3. id \in Ids
    BY <1>2, <1>6, <2>2, ServingView, RecordsAt
  <2> HIDE DEF b, id
  <2>4. after \in Branch /\ after.head = id /\ after.sequence = 0 /\ after.base = id
    BY <2>3 DEF Branch
  <2> HIDE DEF after
  <2>5. \A x \in Branches : branches'[x] = IF x = b THEN after ELSE branches[x]
    BY <1>2, <2>1 DEF Heads
  <2>6. branches' \in Heads
    <3>1. branches' \in [Branches -> Branch]
      BY <1>2, <2>1, <2>4 DEF Heads
    <3>2. id # NONE
      BY <2>3, FileAssumption DEF Ids, NONE
    <3> QED BY <1>2, <2>4, <2>5, <3>1, <3>2 DEF Heads
  <2>7. View(File, Len(File), commits', branches', floors)
    <3> DEFINE next == branches'
               f == File
    <3>1. /\ next \in Heads /\ \A x \in Branches : x # b => next[x] = branches[x]
          /\ next[b].head = id /\ next[b].base = id /\ next[b].sequence = 0
      BY <2>4, <2>5, <2>6, <2>2
    <3>2. /\ f \in Seq(Record) /\ View(f, Len(f), commits, branches, floors) /\ Len(f) \in Nat
      BY <1>2, <1>3, <1>6
    <3> HIDE DEF next, f
    <3>3. View(f, Len(f), commits, next, floors)
      BY <1>2, <2>2, <2>3, <3>1, <3>2, ViewCreates
    <3> QED BY <2>1, <3>3 DEF next, f
  <2>8. Behind(commits', branches')
    <3> SUFFICES ASSUME checkpoint.gen = current
                 PROVE  /\ \A c \in DOMAIN commits : commits[c] <= checkpoint.offset
                                                      => c \in DOMAIN checkpoint.commits
                        /\ \A x \in Branches : checkpoint.branches[x].sequence <= branches'[x].sequence
      BY <2>1 DEF Behind
    <3>1. /\ \A c \in DOMAIN commits : commits[c] <= checkpoint.offset
                                         => c \in DOMAIN checkpoint.commits
          /\ \A x \in Branches : checkpoint.branches[x].sequence <= branches[x].sequence
      BY <1>2, <1>6 DEF Behind
    <3>2. branches[b].sequence = 0
      BY <2>2 DEF NoBranch
    <3> QED BY <2>4, <2>5, <3>1, <3>2
  <2>9. state' = IF state = "opening" THEN "open" ELSE state
    BY <1>2, <1>6, <2>1
  <2>10. \A t \in Streams : streams'[t] = streams[t]
    BY <2>1
  <2> QED BY <1>1, <1>2, <2>1, <2>6, <2>7, <2>8, <2>9, <2>10, SyncedSound
<1>7. CASE job.kind \in {"retain", "release"}
  <2>1. /\ branches' = branches /\ state' = state /\ checkpoint' = checkpoint
        /\ commits' = commits /\ streams' = streams
    BY <1>7 DEF SyncDone
  <2>2. View(File, Len(File), commits', branches', floors) /\ Behind(commits', branches')
    BY <1>2, <1>7, <2>1 DEF Behind
  <2>3. state' = IF state = "opening" THEN "open" ELSE state
    BY <1>2, <1>7, <2>1
  <2> QED BY <1>1, <1>2, <2>1, <2>2, <2>3, SyncedSound
<1>8. CASE job.kind = "open"
  <2>1. /\ state' = "open" /\ streams' = streams
        /\ IF job.id = NONE THEN UNCHANGED <<commits, branches>>
           ELSE /\ commits' = With(<<>>, job.id, job.at)
                /\ branches' = [branches EXCEPT ![Main] =
                     [head |-> job.id, sequence |-> 0, base |-> job.id]]
        /\ checkpoint' \in {checkpoint} \union Sidecars(commits', branches')
    BY <1>8 DEF SyncDone
  <2>2. branches' \in Heads /\ View(File, Len(File), commits', branches', floors)
        /\ Behind(commits', branches')
    <3>1. CASE job.id = NONE
      BY <1>2, <2>1, <3>1 DEF Behind
    <3>2. CASE job.id # NONE
      <4> DEFINE id == job.id
                 at == job.at
                 after == [head |-> id, sequence |-> 0, base |-> id]
                 known == commits'
                 heads == branches'
                 f == File
      <4>1. known = With(<<>>, id, at) /\ heads = [branches EXCEPT ![Main] = after]
        BY <2>1, <3>2
      <4>2. /\ checkpoint.gen # current /\ branches = NoBranches
            /\ at \in 1..(Len(f) - 1) /\ f[at].type = "commit" /\ f[at].id = id
            /\ f[at].branch = Main /\ f[at].sequence = 0
            /\ \A i \in DOMAIN f : f[i].type = "ref" => f[i].branch = Main /\ f[i].sequence = 0
        BY <1>4, <1>8, <3>2 DEF JobSound, OpenSound
      <4>3. at \in 1..Len(f) /\ at \in DOMAIN f /\ f \in Seq(Record) /\ Len(f) \in Nat
        BY <1>3, <4>2
      <4> HIDE DEF f, id, at, known, heads
      <4>4. id \in Ids
        BY <4>2, <4>3, FileTyped, RecordKinds
      <4>5. after \in Branch /\ after.head = id /\ after.sequence = 0 /\ after.base = id
        BY <4>4 DEF Branch
      <4> HIDE DEF after
      <4>6. \A x \in Branches : heads[x] = IF x = Main THEN after ELSE NoBranch
        BY <4>1, <4>2 DEF NoBranches
      <4>7. heads \in Heads
        <5>1. heads \in [Branches -> Branch]
          BY <1>2, <4>1, <4>5 DEF Heads
        <5>2. id # NONE
          BY <4>4, FileAssumption DEF Ids, NONE
        <5> QED BY <4>5, <4>6, <5>1, <5>2 DEF Heads
      <4>8. DOMAIN known = {id} /\ known[id] = at
        <5> DEFINE nothing == <<>>
        <5>1. DOMAIN nothing = {} /\ known = With(nothing, id, at)
          BY <4>1
        <5> HIDE DEF nothing
        <5> QED BY <5>1 DEF With
      <4>9. Main \in Branches /\ \A x \in Branches : x # Main => heads[x] = NoBranch
        BY <4>6, FileAssumption
      <4>10. heads[Main].head = id /\ heads[Main].base = id /\ heads[Main].sequence = 0
        BY <4>5, <4>6, <4>9
      <4>11. View(f, Len(f), known, heads, floors)
        BY <1>2, <4>2, <4>3, <4>4, <4>7, <4>8, <4>9, <4>10, ViewFirst
      <4>12. Behind(known, heads)
        BY <4>2 DEF Behind
      <4> QED BY <4>7, <4>11, <4>12 DEF f, known, heads
    <3> QED BY <3>1, <3>2
  <2>3. state' = IF state = "opening" THEN "open" ELSE state
    BY <1>2, <1>8, <2>1
  <2>4. ~Serving
    BY <1>2, <1>8 DEF Serving
  <2>5. \/ checkpoint' = checkpoint /\ Behind(commits', branches')
        \/ checkpoint' \in Sidecars(commits', branches')
    BY <2>1, <2>2
  <2> QED BY <1>1, <1>2, <2>1, <2>2, <2>3, <2>4, <2>5, SyncedSound
<1> QED BY <1>1, <1>5, <1>6, <1>7, <1>8

-----------------------------------------------------------------------------
(* Collecting. *)

\* A collection retains heads, bases and what snapshots read.
LEMMA RetainedIs ==
  ASSUME Sound, Serving
  PROVE  /\ RetainedCommitIds \in SUBSET DOMAIN commits
         /\ KeepsHeads(RetainedCommitIds)
         /\ \A r \in Readers : readers[r].state = "open" => readers[r].commit \in RetainedCommitIds
<1>1. View(File, Len(File), commits, branches, floors) /\ Snapshots
  BY ServingView DEF FileAndMemory, Sound
<1>a. ASSUME NEW b \in Branches, branches[b].head # NONE, NEW c \in DOMAIN commits,
             c = branches[b].head \/ c = branches[b].base
      PROVE  c \in RetainedCommitIds
  BY <1>a DEF RetainedCommitIds, Exists
<1>b. ASSUME NEW c \in DOMAIN commits, c \in SnapshotPins
      PROVE  c \in RetainedCommitIds
  BY <1>b DEF RetainedCommitIds
<1>2. RetainedCommitIds \in SUBSET DOMAIN commits
  BY DEF RetainedCommitIds
<1>3. KeepsHeads(RetainedCommitIds)
  <2> SUFFICES ASSUME NEW b \in Branches, branches[b].head # NONE
               PROVE  branches[b].head \in RetainedCommitIds /\ branches[b].base \in RetainedCommitIds
    BY DEF KeepsHeads
  <2>1. branches[b].head \in DOMAIN commits /\ branches[b].base \in DOMAIN commits
    BY <1>1 DEF View, HeadsSound
  <2> QED BY <1>a, <2>1
<1>4. ASSUME NEW r \in Readers, readers[r].state = "open"
      PROVE  readers[r].commit \in RetainedCommitIds
  <2>1. readers[r].commit \in DOMAIN commits
    BY <1>1, <1>4 DEF Snapshots
  <2>2. readers[r].commit \in SnapshotPins
    BY <1>4 DEF SnapshotPins
  <2> QED BY <1>b, <2>1, <2>2
<1> QED BY <1>2, <1>3, <1>4

\* A collection has chosen what to keep.
LEMMA StartCollectionSound ==
  ASSUME Sound, StartCollection
  PROVE  Sound'
<1>1. /\ state = "open" /\ job = NoJob /\ collected < barrier /\ ~Overdue
      /\ UNCHANGED <<gens, path, checkpoint, current, commits, branches, retains, floors,
                     readers, streams, content, state, barrier, collected>>
  BY DEF StartCollection, CollectionTurn, MyTurn, diskVars, memoryVars, gcVars, historyVars
<1> DEFINE retained == RetainedCommitIds
           low == HistoryFloorsFor(retained)
           g == Copy(retained, low)
<1>2. job' = [kind |-> "collect", retained |-> retained, floors |-> low, file |-> g]
  BY DEF StartCollection
<1>3. /\ Types /\ Numbered /\ Room /\ Quiet /\ Leased
      /\ FilesSound /\ CheckpointSound /\ MemorySound /\ JobSound /\ Snapshots
  BY DEF Sound
<1>4. Serving /\ Running /\ NoJob.kind = "idle"
  BY <1>1 DEF Serving, Running, NoJob
<1>5. FileAndMemory(gens[current].synced)
  BY <1>4, ServingView
<1>6. /\ retained \in SUBSET DOMAIN commits /\ KeepsHeads(retained)
      /\ \A r \in Readers : readers[r].state = "open" => readers[r].commit \in retained
  BY <1>4, RetainedIs
<1> HIDE DEF retained
<1>7. low = HistoryFloorsFor(retained)
  OBVIOUS
<1> HIDE DEF low
<1>8. g = Copy(retained, low)
  OBVIOUS
<1> HIDE DEF g
<1>9. /\ low \in [Branches -> Nat] /\ g \in Seq(Record) /\ Len(g) > 0
      /\ LowOf(g) = low /\ \E i \in DOMAIN g : g[i].type = "meta"
      /\ FileSound(g, Len(g), Len(g), content, low)
      /\ View(g, Len(g), Places(g, retained), branches, low)
  BY <1>5, <1>6, <1>7, <1>8, CopySound
<1>10. /\ job'.kind = "collect" /\ job'.retained = retained /\ job'.floors = low /\ job'.file = g
  BY <1>2
<1>11. SameFiles /\ SameMemory /\ Serving' = Serving /\ Running' = Running
  BY <1>1 DEF SameFiles, SameMemory, Serving, Running
<1>12. Written' = Written /\ File' = File /\ Numbered' /\ FilesSound' /\ CheckpointSound'
  BY <1>3, <1>11, FilesKept
<1>13. Types'
  BY <1>1, <1>3 DEF Types
<1>14. Room'
  BY <1>1, <1>3, <1>4, <1>10, <1>12, RestPlain DEF Room
<1>15. Quiet'
  BY <1>4, <1>11 DEF Quiet
<1>16. Leased'
  <2>1. \A x : Held(x)' = Held(x)
    BY <1>1 DEF Held, ReadersOf, StreamsOf
  <2> QED BY <1>1, <1>3, <1>10, <1>11, <1>12, <2>1 DEF Leased
<1>17. MemorySound'
  BY <1>1, <1>3, <1>11, MemoryKept
<1>18. CollectSound'
  BY <1>1, <1>6, <1>9, <1>10 DEF CollectSound
<1>19. JobSound'
  <2>1. /\ \A r \in Readers : readers[r].state = "waiting" => readers[r].awaits > collected
        /\ \A t \in Streams : streams[t].state = "waiting" => streams[t].awaits > collected
    <3>1. /\ collected \in Nat /\ \A r \in Readers : readers[r].awaits \in Nat
          /\ \A t \in Streams : streams[t].awaits \in Nat
      BY <1>3, ReaderTyped DEF Types
    <3> QED BY <1>1, <3>1 DEF Overdue
  <2> QED BY <1>1, <1>10, <1>18, <2>1 DEF JobSound, OpenSound, CommitSound
<1>20. Snapshots'
  BY <1>1, <1>3 DEF Snapshots
<1> QED BY <1>12, <1>13, <1>14, <1>15, <1>16, <1>17, <1>19, <1>20 DEF Sound

\* A new record of a file.
LEMMA NewFileTyped ==
  /\ NewFile \in Generation /\ NewFile.file = <<>> /\ NewFile.synced = 0 /\ NewFile.leases = 1
  /\ NewFile.retired = FALSE /\ NewFile.closed = FALSE
  /\ Gone \in Generation /\ Gone.file # <<>> /\ Gone.synced = 0 /\ Gone.leases = 0
  /\ Gone.retired = TRUE /\ Gone.closed = TRUE
<1>1. <<>> \in Seq(Record)
  OBVIOUS
<1>2. Torn \in Record
  BY DEF Torn, Record
<1>3. <<Torn>> \in Seq(Record) /\ <<Torn>> # <<>>
  BY <1>2
<1> QED BY <1>1, <1>3 DEF NewFile, Gone, Generation

\* The generations written so far, and the one to come.
LEMMA NextGeneration ==
  ASSUME Types, NEW k \in 0..(MaxCollections + 1), Written = 1..k
  PROVE  /\ k \in Nat /\ Cardinality(Written) = k
         /\ k + 1 \notin Written
         /\ k <= MaxCollections => k + 1 \in Generations
<1>1. k \in Nat /\ MaxCollections \in Nat
  BY FileAssumption
<1>2. Cardinality(1..k) = k
  <2>1. 1 \in Int /\ k \in Int
    BY <1>1
  <2>2. Cardinality(1..k) = IF 1 > k THEN 0 ELSE k - 1 + 1
    BY <2>1, FS_Interval
  <2> QED BY <1>1, <2>2
<1> QED BY <1>1, <1>2 DEF Generations

\* The new generation takes the name.
LEMMA InstallGenerationSound ==
  ASSUME Sound, InstallGeneration
  PROVE  Sound'
<1>1. /\ Types /\ Numbered /\ Room /\ Quiet /\ Leased
      /\ FilesSound /\ CheckpointSound /\ MemorySound /\ JobSound /\ Snapshots
  BY DEF Sound
<1> DEFINE next == 1 + Cardinality(Written)
           g == job.file
           kept == job.retained
           after == [NewFile EXCEPT !.file = g, !.synced = Len(g)]
<1>2. /\ job.kind = "collect" /\ gens' = [gens EXCEPT ![next] = after]
      /\ path' = path \union {next} /\ current' = next
      /\ commits' = Places(g, kept)
      /\ floors' = job.floors /\ job' = [kind |-> "install", previous |-> current]
      /\ UNCHANGED <<checkpoint, state, branches, retains, barrier, collected, readers,
                     streams, content>>
  BY DEF InstallGeneration, gcVars, historyVars, Places
<1>3. /\ kept \subseteq DOMAIN commits
      /\ job.floors \in [Branches -> Nat] /\ g \in Seq(Record) /\ Len(g) > 0
      /\ job.floors = LowOf(g) /\ \E i \in DOMAIN g : g[i].type = "meta"
      /\ FileSound(g, Len(g), Len(g), content, job.floors)
      /\ View(g, Len(g), Places(g, kept), branches, job.floors)
      /\ \A r \in Readers : readers[r].state = "open" => readers[r].commit \in kept
  BY <1>1, <1>2 DEF JobSound, CollectSound
<1>4. Serving /\ Running /\ Serving' /\ Running' /\ state' # "opening"
  <2>1. Serving
    BY <1>1, <1>2 DEF Quiet
  <2> QED BY <1>2, <2>1 DEF Serving, Running
<1>5. PICK k \in 0..(MaxCollections + 1) :
        /\ Written = 1..k
        /\ \A x \in path \union {current} : x <= k \/ x = 1
        /\ k > 1 \/ Serving => \A x \in path \union {current} : gens[x].synced > 0
  BY <1>1 DEF Numbered
<1>6. k \in Nat /\ Cardinality(Written) = k /\ k + 1 \notin Written /\ next = k + 1
      /\ (k <= MaxCollections => k + 1 \in Generations)
  BY <1>1, <1>5, NextGeneration
<1>7. collected + 1 <= barrier /\ k <= MaxCollections
  <2>1. collected + 1 <= barrier /\ Cardinality(Written) + barrier <= MaxCollections + 1 + collected
    BY <1>1, <1>2, FileAssumption DEF Room, Types
  <2> QED BY <1>1, <1>6, <2>1, FileAssumption DEF Types
<1> HIDE DEF next, g, kept
<1>8. next \in Generations /\ next \notin Written
  BY <1>6, <1>7
<1>9. current \in path /\ current \in Written /\ current \in Generations
  BY <1>4, RunningView
<1>10. \A x \in path : x \in Generations /\ x <= k
  <2>1. \A x \in path : x \in Generations
    BY <1>1 DEF Types
  <2>2. k >= 1
    BY <1>5, <1>9, <1>6
  <2> QED BY <1>5, <1>6, <2>1, <2>2
<1>11. \A x \in path \union {current} : x # next /\ x \in Generations
  BY <1>6, <1>8, <1>9, <1>10
<1>12. Len(g) \in Nat /\ DOMAIN g = 1..Len(g) /\ g # <<>>
  BY <1>3
<1>13. /\ after \in Generation /\ after.file = g /\ after.synced = Len(g) /\ after.leases = 1
       /\ after.retired = FALSE /\ after.closed = FALSE
  <2>1. after = [NewFile EXCEPT !.file = g, !.synced = Len(g)]
    OBVIOUS
  <2> HIDE DEF after
  <2>2. NewFile \in Generation
    BY NewFileTyped
  <2>3. /\ after \in Generation /\ after.file = g /\ after.synced = Len(g)
        /\ after.leases = NewFile.leases
        /\ after.retired = NewFile.retired /\ after.closed = NewFile.closed
    <3>1. g \in Seq(Record) /\ Len(g) \in Nat
      BY <1>3, <1>12
    <3> DEFINE n == Len(g)
    <3>2. n \in Nat /\ after = [NewFile EXCEPT !.file = g, !.synced = n] /\ n = Len(g)
      BY <2>1, <3>1
    <3> HIDE DEF n
    <3>3. /\ after \in Generation /\ after.file = g /\ after.synced = n
          /\ after.leases = NewFile.leases
          /\ after.retired = NewFile.retired /\ after.closed = NewFile.closed
      BY <2>2, <3>1, <3>2 DEF Generation
    <3> QED BY <3>2, <3>3
  <2> QED BY <2>3, NewFileTyped
<1> HIDE DEF after
<1>14. gens' \in [Generations -> Generation]
  BY <1>1, <1>2, <1>13 DEF Types
<1>15. gens'[next] = after /\ \A x \in Generations : x # next => gens'[x] = gens[x]
  BY <1>1, <1>2, <1>8 DEF Types
<1>16. File' = g
  BY <1>2, <1>13, <1>15 DEF File
<1>17. Written' = 1..(k + 1)
  <2>1. Written' = Written \union {next}
    BY <1>8, <1>12, <1>13, <1>15 DEF Written
  <2>2. 1..(k + 1) = (1..k) \union {k + 1}
    BY <1>6
  <2> QED BY <1>5, <1>6, <2>1, <2>2
<1>18. Types'
  BY <1>1, <1>2, <1>3, <1>8, <1>14 DEF Types
<1>19. Numbered'
  <2>1. k + 1 \in 0..(MaxCollections + 1)
    BY <1>6, <1>7, FileAssumption
  <2>2. \A x \in path' \union {current'} : x <= k + 1 \/ x = 1
    BY <1>2, <1>6, <1>10, <1>1 DEF Types, Generations
  <2>3. \A x \in path' \union {current'} : gens'[x].synced > 0
    <3>1. \A x \in path : gens'[x].synced > 0
      BY <1>4, <1>5, <1>11, <1>15
    <3> QED BY <1>2, <1>3, <1>13, <1>15, <3>1
  <2>4. checkpoint'.gen = 0 \/ checkpoint'.gen \in Written'
    <3>1. checkpoint.gen = 0 \/ checkpoint.gen \in 1..k
      BY <1>1, <1>5 DEF Numbered
    <3> QED BY <1>2, <1>6, <1>17, <3>1
  <2> QED BY <1>2, <1>17, <2>1, <2>2, <2>3, <2>4 DEF Numbered
<1>20. Cardinality(Written') = k + 1
  <2>1. k + 1 \in Nat /\ 1 \in Int /\ k + 1 \in Int
    BY <1>6
  <2>2. Cardinality(1..(k + 1)) = IF 1 > k + 1 THEN 0 ELSE (k + 1) - 1 + 1
    BY <2>1, FS_Interval
  <2> QED BY <1>6, <1>17, <2>2
<1>21. job'.kind = "install" /\ job'.previous = current
  BY <1>2
<1>22. Room'
  <2>1. collected + 1 <= barrier /\ Cardinality(Written) + barrier <= MaxCollections + 1 + collected
    BY <1>1, <1>2, FileAssumption DEF Room, Types
  <2> QED BY <1>1, <1>2, <1>6, <1>20, <1>21, <2>1, FileAssumption DEF Room, Types
<1>23. Quiet'
  BY <1>4 DEF Quiet
<1>24. Leased'
  <2>1. \A x : Held(x)' = Held(x)
    BY <1>2 DEF Held, ReadersOf, StreamsOf
  <2>2. Held(k + 1)' = 0
    <3>1. ReadersOf(k + 1) = {} /\ StreamsOf(k + 1) = {}
      BY <1>1, <1>4, <1>6 DEF Leased, ReadersOf, StreamsOf
    <3>2. Held(k + 1) = 0
      BY <3>1, FS_EmptySet DEF Held
    <3> QED BY <2>1, <3>2
  <2>3. ~gens'[current'].retired
    BY <1>2, <1>13, <1>15
  <2>4. job'.previous \in Generations \ {current'} /\ ~gens'[job'.previous].retired
    BY <1>1, <1>2, <1>4, <1>9, <1>11, <1>15, <1>21 DEF Leased
  <2>5. ASSUME NEW x \in Generations
        PROVE  IF gens'[x].closed THEN gens'[x].retired /\ Held(x)' = 0
               ELSE /\ gens'[x].leases = Held(x)' + (IF gens'[x].retired THEN 0 ELSE 1)
                    /\ gens'[x].leases > 0
    <3>1. CASE x = next
      <4>1. Held(x)' = 0
        BY <1>6, <2>2, <3>1
      <4> QED BY <1>13, <1>15, <3>1, <4>1
    <3>2. CASE x # next
      BY <1>1, <1>4, <1>15, <2>1, <3>2 DEF Leased
    <3> QED BY <3>1, <3>2
  <2>6. \A r \in Readers : readers'[r].state = "open" => readers'[r].gen \in Written'
    BY <1>1, <1>2, <1>4, <1>5, <1>6, <1>17 DEF Leased
  <2>7. \A t \in Streams : streams'[t].state = "replaying" => streams'[t].gen \in Written'
    BY <1>1, <1>2, <1>4, <1>5, <1>6, <1>17 DEF Leased
  <2> QED BY <2>3, <2>4, <2>5, <2>6, <2>7 DEF Leased
<1>25. Length(g) = Len(g)
  <2>1. Len(g) \in 1..Len(g)
    BY <1>3, <1>12
  <2>2. g[Len(g)].type # "torn"
    BY <1>3, <2>1 DEF FileSound, RecordSound
  <2> QED BY <2>2 DEF Length
<1>26. FilesSound'
  <2>1. ASSUME NEW x \in path
        PROVE  /\ gens'[x].synced <= Length(gens'[x].file)
               /\ FileSound(gens'[x].file, Length(gens'[x].file), gens'[x].synced, content,
                            LowOf(gens'[x].file))
               /\ LowOf(gens'[x].file) # NoFloors =>
                    \E i \in 1..gens'[x].synced : gens'[x].file[i].type = "meta"
               /\ x # current'
    <3>1. gens'[x] = gens[x] /\ x # current'
      BY <1>2, <1>11, <1>15
    <3> QED BY <1>1, <3>1 DEF FilesSound
  <2>2. Len(g) <= Len(g)
    BY <1>12
  <2> QED BY <1>2, <1>3, <1>12, <1>13, <1>15, <1>25, <2>1, <2>2 DEF FilesSound
<1>27. CheckpointSound'
  <2>1. checkpoint.gen \in path' => checkpoint.gen \in path
    <3>1. checkpoint.gen # next
      BY <1>1, <1>6, <1>8 DEF Numbered
    <3> QED BY <1>2, <3>1
  <2>2. \A x \in path : gens'[x] = gens[x]
    BY <1>11, <1>15
  <2> QED BY <1>1, <1>2, <2>1, <2>2 DEF CheckpointSound
<1>28. MemorySound'
  <2>1. checkpoint'.gen # current'
    BY <1>1, <1>2, <1>6, <1>8 DEF Numbered
  <2> QED BY <1>2, <1>3, <1>16, <2>1 DEF MemorySound, Behind
<1>29. JobSound'
  <2>1. /\ \A r \in Readers : readers[r].state = "waiting" => readers[r].awaits > collected
        /\ \A t \in Streams : streams[t].state = "waiting" => streams[t].awaits > collected
    BY <1>1, <1>2 DEF JobSound
  <2> QED BY <1>2, <1>21, <2>1 DEF JobSound, OpenSound, CommitSound, CollectSound
<1>30. Snapshots'
  <2>1. \A r \in Readers : readers[r].state = "open" =>
          readers[r].commit \in DOMAIN commits' /\ gens'[readers[r].gen] = gens[readers[r].gen]
    <3>1. DOMAIN commits' = kept
      BY <1>2 DEF Places
    <3>2. \A r \in Readers : readers[r].state = "open" =>
            readers[r].gen \in Generations /\ readers[r].gen # next
      BY <1>1, <1>4, <1>8 DEF Leased, Written
    <3> QED BY <1>3, <1>15, <3>1, <3>2
  <2> QED BY <1>1, <1>2, <2>1 DEF Snapshots
<1> QED BY <1>18, <1>19, <1>22, <1>23, <1>24, <1>26, <1>27, <1>28, <1>29, <1>30 DEF Sound

\* The rename is on the disk, and the previous generation is retired.
LEMMA CollectionDoneSound ==
  ASSUME Sound, CollectionDone
  PROVE  Sound'
<1>1. /\ Types /\ Numbered /\ Room /\ Quiet /\ Leased
      /\ FilesSound /\ CheckpointSound /\ MemorySound /\ JobSound /\ Snapshots
  BY DEF Sound
<1>2. PICK p : p = job.previous
  OBVIOUS
<1> DEFINE last == gens[p].leases = 1
           after == [gens[p] EXCEPT !.retired = TRUE, !.leases = gens[p].leases - 1, !.closed = last]
<1>3. /\ job.kind = "install" /\ gens' = [gens EXCEPT ![p] = after]
      /\ path' = {current} /\ job' = NoJob /\ collected' = collected + 1
      /\ UNCHANGED <<checkpoint, state, current, commits, branches, retains, floors, barrier,
                     readers, streams, content>>
  BY <1>2 DEF CollectionDone, Retire, memoryVars, historyVars
<1>4. Serving /\ Running /\ Serving' /\ Running' /\ NoJob.kind = "idle" /\ state' # "opening"
  <2>1. Serving
    BY <1>1, <1>3 DEF Quiet
  <2> QED BY <1>3, <2>1 DEF Serving, Running, NoJob
<1>5. p \in Generations /\ p # current /\ ~gens[p].retired
  BY <1>1, <1>2, <1>3, <1>4 DEF Leased
<1>6. \A x \in Generations :
        IF gens[x].closed THEN gens[x].retired /\ Held(x) = 0
        ELSE /\ gens[x].leases = Held(x) + (IF gens[x].retired THEN 0 ELSE 1)
             /\ gens[x].leases > 0
  BY <1>1, <1>4 DEF Leased
<1>7. /\ Held(p) \in Nat /\ gens[p].leases = Held(p) + 1 /\ ~gens[p].closed
  <2>1. ~gens[p].closed
    BY <1>5, <1>6
  <2> QED BY <1>5, <1>6, <2>1, HeldIs
<1>l. last \in BOOLEAN
  OBVIOUS
<1>8. /\ after \in Generation /\ after.file = gens[p].file /\ after.synced = gens[p].synced
      /\ after.leases = gens[p].leases - 1 /\ after.retired = TRUE /\ after.closed = last
  <2>1. PICK z \in BOOLEAN : z = last
    BY <1>l
  <2> DEFINE n == gens[p].leases - 1
  <2>2. n \in Nat /\ n = gens[p].leases - 1 /\ gens[p] \in Generation
    BY <1>1, <1>5, <1>7 DEF Types
  <2> DEFINE other == [gens[p] EXCEPT !.retired = TRUE, !.leases = n, !.closed = z]
  <2>3. after = other
    <3> HIDE DEF last
    <3> QED BY <2>1
  <2> HIDE DEF n
  <2>4. /\ other \in Generation /\ other.file = gens[p].file /\ other.synced = gens[p].synced
        /\ other.leases = n /\ other.retired = TRUE /\ other.closed = z
    BY <2>2 DEF Generation
  <2> HIDE DEF after, other
  <2> QED BY <2>1, <2>2, <2>3, <2>4
<1> HIDE DEF after
<1>9. gens' \in [Generations -> Generation]
  BY <1>1, <1>3, <1>8 DEF Types
<1>10. gens'[p] = after /\ \A x \in Generations : x # p => gens'[x] = gens[x]
  BY <1>1, <1>3, <1>5 DEF Types
<1>11. \A x \in Generations : gens'[x].file = gens[x].file /\ gens'[x].synced = gens[x].synced
  BY <1>8, <1>10
<1>12. current \in path /\ current \in Generations /\ File' = File
  <2>1. current \in path /\ current \in Generations
    BY <1>4, RunningView
  <2> QED BY <1>3, <1>11, <2>1 DEF File
<1>13. Written' = Written
  BY <1>11 DEF Written
<1>14. Types'
  BY <1>1, <1>3, <1>9, <1>12 DEF Types
<1>15. Numbered'
  <2>1. PICK k \in 0..(MaxCollections + 1) :
          /\ Written = 1..k
          /\ \A x \in path \union {current} : x <= k \/ x = 1
          /\ k > 1 \/ Serving => \A x \in path \union {current} : gens[x].synced > 0
    BY <1>1 DEF Numbered
  <2>2. gens'[current].synced > 0 /\ (current <= k \/ current = 1)
    BY <1>4, <1>11, <1>12, <2>1
  <2>3. path' \union {current'} = {current}
    BY <1>3
  <2>4. \E j \in 0..(MaxCollections + 1) :
          /\ Written' = 1..j
          /\ \A x \in path' \union {current'} : x <= j \/ x = 1
          /\ j > 1 \/ Serving' => \A x \in path' \union {current'} : gens'[x].synced > 0
    BY <1>13, <2>1, <2>2, <2>3
  <2>5. (checkpoint'.gen = 0 \/ checkpoint'.gen \in Written') /\ (Running' => current' \in path')
    BY <1>1, <1>3, <1>13 DEF Numbered
  <2> QED BY <2>4, <2>5 DEF Numbered
<1>16. Room'
  BY <1>1, <1>3, <1>4, <1>13, RestPlain DEF Room
<1>17. Quiet'
  BY <1>4 DEF Quiet
<1>18. Leased'
  <2>1. \A x : Held(x)' = Held(x)
    BY <1>3 DEF Held, ReadersOf, StreamsOf
  <2>2. ~gens'[current].retired
    BY <1>1, <1>4, <1>5, <1>10, <1>12 DEF Leased
  <2>3. ASSUME NEW x \in Generations
        PROVE  IF gens'[x].closed THEN gens'[x].retired /\ Held(x)' = 0
               ELSE /\ gens'[x].leases = Held(x)' + (IF gens'[x].retired THEN 0 ELSE 1)
                    /\ gens'[x].leases > 0
    <3>1. CASE x = p
      <4>1. gens'[x].leases = Held(x)' /\ Held(x)' \in Nat /\ gens'[x].retired
        BY <1>7, <1>8, <1>10, <2>1, <3>1
      <4>2. gens'[x].closed = last /\ (last <=> Held(x)' = 0)
        BY <1>7, <1>8, <1>10, <2>1, <3>1
      <4> HIDE DEF last
      <4>3. CASE last
        BY <4>1, <4>2, <4>3
      <4>4. CASE ~last
        <5>1. Held(x)' # 0 /\ ~gens'[x].closed
          BY <4>2, <4>4
        <5> QED BY <4>1, <5>1
      <4> QED BY <4>3, <4>4
    <3>2. CASE x # p
      BY <1>6, <1>10, <2>1, <3>2
    <3> QED BY <3>1, <3>2
  <2> QED BY <1>1, <1>3, <1>4, <1>13, <2>2, <2>3 DEF Leased
<1>19. FilesSound'
  BY <1>1, <1>3, <1>4, <1>11, <1>12 DEF FilesSound
<1>20. CheckpointSound'
  <2>1. checkpoint'.gen \in path' => checkpoint.gen = current
    BY <1>3
  <2> QED BY <1>1, <1>3, <1>11, <1>12, <2>1 DEF CheckpointSound
<1>21. MemorySound'
  <2>1. MemorySound /\ state # "opening" /\ Running
    BY <1>1, <1>3, <1>4
  <2>2. Behind(commits, branches)' = Behind(commits, branches)
    BY <1>3 DEF Behind
  <2> QED BY <1>3, <1>12, <2>1, <2>2 DEF MemorySound
<1>22. JobSound'
  BY <1>3, <1>4 DEF JobSound, OpenSound, CommitSound, CollectSound
<1>23. Snapshots'
  <2>1. \A r \in Readers : readers[r].state = "open" => readers[r].gen \in Generations
    BY <1>1, <1>4 DEF Leased, Written
  <2> SUFFICES ASSUME NEW r \in Readers, readers[r].state = "open"
               PROVE  LET s == readers[r] IN
                      /\ s.commit \in DOMAIN commits
                      /\ TreeSound(gens'[s.gen].file, Len(gens'[s.gen].file), s.tree, content[s.commit])
                      /\ \A i \in DOMAIN gens'[s.gen].file : gens'[s.gen].file[i].type # "torn"
    BY <1>3 DEF Snapshots
  <2>2. gens'[readers[r].gen].file = gens[readers[r].gen].file
    BY <1>11, <2>1
  <2> QED BY <1>1, <2>2 DEF Snapshots
<1> QED BY <1>14, <1>15, <1>16, <1>17, <1>18, <1>19, <1>20, <1>21, <1>22, <1>23 DEF Sound

-----------------------------------------------------------------------------
(* Opening. *)

\* A process starts on the file it found.
LEMMA Opened ==
  ASSUME Sound, state = "down", NEW g \in path, NEW f \in Seq(Record), Len(f) > 0,
         gens' = [x \in Generations |->
           IF x = g THEN [NewFile EXCEPT !.file = f, !.synced = gens[g].synced]
           ELSE IF x \in Written THEN Gone ELSE NewFile],
         path' = {g}, current' = g, state' = "opening", job'.kind = "open",
         UNCHANGED <<checkpoint, barrier, collected, readers, streams>>,
         branches' \in Heads, retains' \in [Names -> Ids \union {NONE}], floors' = LowOf(f),
         \E k \in 0..MaxCommits : content' \in [1..k -> Ids \union {NONE}],
         gens[g].synced <= Len(f), Length(f) = Len(f),
         FileSound(f, Len(f), gens[g].synced, content', LowOf(f)),
         LowOf(f) # NoFloors => \E i \in 1..gens[g].synced : f[i].type = "meta",
         CheckpointSound', OpenSound',
         job'.id = NONE => View(f, Len(f), commits', branches', floors') /\ Behind(commits, branches)'
  PROVE  Sound'
<1>1. /\ Types /\ Numbered /\ Room /\ Quiet
      /\ ~Serving /\ ~Serving' /\ Running' /\ g \in Generations
  BY DEF Sound, Serving, Running, Types
<1>2. gens[g] \in Generation /\ gens[g].synced \in Nat /\ floors' \in [Branches -> Nat]
      /\ Len(f) \in Nat /\ f # <<>>
  BY <1>1, GensTyped, LowTyped, FileTyped
<1>3. PICK s \in Nat : s = gens[g].synced
  BY <1>2
<1> DEFINE after == [NewFile EXCEPT !.file = f, !.synced = s]
<1>4. gens' = [x \in Generations |-> IF x = g THEN after ELSE IF x \in Written THEN Gone ELSE NewFile]
  BY <1>3
<1>5. /\ after \in Generation /\ after.file = f /\ after.synced = s /\ after.leases = 1
      /\ after.retired = FALSE /\ after.closed = FALSE
  <2>1. NewFile \in Generation
    BY NewFileTyped
  <2>2. /\ after \in Generation /\ after.file = f /\ after.synced = s
        /\ after.leases = NewFile.leases
        /\ after.retired = NewFile.retired /\ after.closed = NewFile.closed
    BY <2>1 DEF Generation
  <2> HIDE DEF after
  <2> QED BY <2>2, NewFileTyped
<1> HIDE DEF after
<1>6. gens' \in [Generations -> Generation]
  BY <1>4, <1>5, NewFileTyped
<1>7. /\ gens'[g] = after
      /\ \A x \in Generations : x # g => gens'[x] = IF x \in Written THEN Gone ELSE NewFile
  BY <1>1, <1>4
<1>8. File' = f
  BY <1>5, <1>7 DEF File
<1>9. Written' = Written \union {g}
  <2>1. \A x \in Generations : gens'[x].file # <<>> <=> x = g \/ x \in Written
    BY <1>2, <1>5, <1>7, NewFileTyped
  <2> QED BY <1>1, <2>1 DEF Written
<1>10. PICK k \in 0..(MaxCollections + 1) :
         /\ Written = 1..k
         /\ \A x \in path \union {current} : x <= k \/ x = 1
         /\ k > 1 \/ Serving => \A x \in path \union {current} : gens[x].synced > 0
  BY <1>1 DEF Numbered
<1>11. k \in Nat /\ MaxCollections \in Nat /\ g \in Nat /\ g >= 1
  BY <1>1, <1>10, FileAssumption DEF Generations
<1> DEFINE m == IF k = 0 THEN 1 ELSE k
<1>12. m \in 0..(MaxCollections + 1) /\ Written' = 1..m /\ m \in Nat /\ m >= 1 /\ g <= m
       /\ (m > 1 => k > 1)
  <2>1. CASE k = 0
    <3>1. g = 1 /\ 1..k = {} /\ 1..1 = {1}
      BY <1>10, <1>11, <2>1
    <3> QED BY <1>9, <1>10, <1>11, <2>1, <3>1
  <2>2. CASE k # 0
    <3>1. g \in 1..k
      BY <1>10, <1>11, <2>2
    <3> QED BY <1>9, <1>10, <1>11, <2>2, <3>1
  <2> QED BY <2>1, <2>2
<1> HIDE DEF m
<1>13. Types'
  BY <1>1, <1>2, <1>6 DEF Types
<1>14. Numbered'
  <2>1. m > 1 => gens'[g].synced > 0
    BY <1>3, <1>5, <1>7, <1>10, <1>12
  <2>2. checkpoint'.gen = 0 \/ checkpoint'.gen \in Written'
    BY <1>1, <1>9 DEF Numbered
  <2>3. \E j \in 0..(MaxCollections + 1) :
          /\ Written' = 1..j
          /\ \A x \in path' \union {current'} : x <= j \/ x = 1
          /\ j > 1 \/ Serving' => \A x \in path' \union {current'} : gens'[x].synced > 0
    <3>1. \A x \in path' \union {current'} : x = g
      OBVIOUS
    <3> QED BY <1>1, <1>12, <2>1, <3>1
  <2> QED BY <1>1, <2>2, <2>3 DEF Numbered
<1>15. Room'
  <2>1. Cardinality(Written') = m
    <3>1. 1 \in Int /\ m \in Int
      BY <1>12
    <3>2. Cardinality(1..m) = IF 1 > m THEN 0 ELSE m - 1 + 1
      BY <3>1, FS_Interval
    <3> QED BY <1>12, <3>2
  <2>2. barrier = 0 /\ collected = 0
    BY <1>1 DEF Quiet
  <2> QED BY <1>11, <1>12, <2>1, <2>2 DEF Room
<1>16. Quiet'
  BY <1>1 DEF Quiet
<1>17. Leased'
  <2>1. \A x : Held(x)' = 0
    <3>1. \A x : ReadersOf(x)' = {} /\ StreamsOf(x)' = {}
      BY <1>1 DEF Quiet, ReadersOf, StreamsOf
    <3>2. Cardinality({}) = 0
      BY FS_EmptySet
    <3>3. \A x : Held(x)' = Cardinality(ReadersOf(x)') + Cardinality(StreamsOf(x)')
      BY DEF Held
    <3>4. \A x : Held(x)' = 0 + 0
      BY <3>1, <3>2, <3>3
    <3> QED BY <3>4
  <2>2. ~gens'[current'].retired
    BY <1>5, <1>7
  <2>3. ASSUME NEW x \in Generations
        PROVE  IF gens'[x].closed THEN gens'[x].retired /\ Held(x)' = 0
               ELSE /\ gens'[x].leases = Held(x)' + (IF gens'[x].retired THEN 0 ELSE 1)
                    /\ gens'[x].leases > 0
    <3>1. Held(x)' = 0
      BY <2>1
    <3>2. CASE x = g
      BY <1>5, <1>7, <3>1, <3>2
    <3>3. CASE x # g /\ x \in Written
      BY <1>7, <3>1, <3>3, NewFileTyped
    <3>4. CASE x # g /\ x \notin Written
      BY <1>7, <3>1, <3>4, NewFileTyped
    <3> QED BY <3>2, <3>3, <3>4
  <2> QED BY <1>1, <2>2, <2>3 DEF Leased, Quiet
<1>18. FilesSound'
  BY <1>3, <1>5, <1>7 DEF FilesSound
<1>19. MemorySound'
  BY <1>8 DEF MemorySound
<1>20. JobSound'
  BY DEF JobSound, CommitSound, CollectSound
<1>21. Snapshots'
  BY <1>1 DEF Snapshots, Quiet
<1> QED BY <1>13, <1>14, <1>15, <1>16, <1>17, <1>18, <1>19, <1>20, <1>21 DEF Sound

\* Recovery cuts off what was cut short, and nothing else.
LEMMA RecoveredIs ==
  ASSUME NEW f \in Seq(Record), NEW start \in Nat, start <= Length(f),
         \A i \in 1..Length(f) : f[i].type # "torn",
         NEW file, file = Recovered(f, start)
  PROVE  /\ file \in Seq(Record) /\ Len(file) = Length(f) /\ Length(file) = Length(f)
         /\ \A i \in 1..Length(f) : file[i] = f[i]
<1> DEFINE n == Length(f)
           bad == {i \in DOMAIN f : f[i].type = "torn"}
           end == IF bad = {} THEN Len(f) ELSE Max({start, Min(bad) - 1})
<1>1. /\ n \in 0..Len(f) /\ Len(f) <= n + 1 /\ Len(f) \in Nat /\ DOMAIN f = 1..Len(f)
      /\ ((\A i \in DOMAIN f : f[i].type # "torn") => n = Len(f))
      /\ (Len(f) # n => f[Len(f)].type = "torn" /\ Len(f) = n + 1)
  BY LengthOf, FileTyped
<1>0. n \in Nat
  BY LengthOf, FileTyped
<1>2. file = SubSeq(f, 1, end)
  BY DEF Recovered
<1>3. \A i \in 1..n : f[i].type # "torn"
  OBVIOUS
<1>4. start <= n
  OBVIOUS
<1> HIDE DEF n
<1>5. end = n
  <2>1. CASE Len(f) = n
    <3>1. bad = {}
      BY <1>1, <1>3, <2>1
    <3> QED BY <2>1, <3>1
  <2>2. CASE Len(f) # n
    <3>1. bad = {Len(f)}
      BY <1>1, <1>3, <2>2
    <3>2. Min({Len(f)}) = Len(f)
      <4>1. {Len(f)} \in SUBSET Nat /\ {Len(f)} # {}
        BY <1>1
      <4> QED BY <4>1, SmallestIn
    <3>3. Max({start, n}) = n
      <4>1. n \in Nat /\ start \in 0..n /\ n \in 0..n
        BY <1>0, <1>4
      <4> DEFINE both == {start, n}
                 most == Max(both)
      <4>2. both \in SUBSET (0..n) /\ both # {}
        BY <4>1
      <4> HIDE DEF both
      <4>3. most \in both /\ \A y \in both : y <= most
        BY <4>1, <4>2, LargestBelow
      <4> HIDE DEF most
      <4>4. (most = start \/ most = n) /\ n <= most
        BY <4>3 DEF both
      <4>5. most = n
        BY <4>1, <4>4
      <4> QED BY <4>5 DEF most, both
    <3>4. Len(f) - 1 = n
      BY <1>1, <2>2
    <3> QED BY <3>1, <3>2, <3>3, <3>4
  <2> QED BY <2>1, <2>2
<1> HIDE DEF end
<1>6. file = SubSeq(f, 1, n)
  BY <1>2, <1>5
<1>7. file \in Seq(Record) /\ Len(file) = n /\ \A i \in 1..n : file[i] = f[i]
  <2>1. n \in 0..Len(f) /\ Len(f) \in Nat
    BY <1>1
  <2> DEFINE copy == SubSeq(f, 1, n)
  <2>2. copy \in Seq(Record)
    BY <2>1
  <2>3. Len(copy) = n
    BY <2>1
  <2>4. \A i \in 1..n : copy[i] = f[i]
    BY <2>1
  <2>5. file = copy
    BY <1>6
  <2> HIDE DEF copy
  <2> QED BY <2>2, <2>3, <2>4, <2>5
<1>8. Length(file) = n
  <2>1. \A i \in DOMAIN file : file[i].type # "torn"
    BY <1>3, <1>7, FileTyped
  <2> QED BY <1>7, <2>1, LengthOf
<1> QED BY <1>7, <1>8 DEF n

\* What is behind a checkpoint is there in a copy of the file too.
LEMMA BasisMoves ==
  ASSUME NEW n \in Nat, NEW f, NEW file, \A i \in 1..n : file[i] = f[i],
         NEW s \in 0..n, NEW start \in 1..s, NEW known, NEW heads, NEW low,
         View(f, start, known, heads, low),
         \A i \in (start + 1)..n : RefSound(f, i, s, start, known, heads, low)
  PROVE  /\ View(file, start, known, heads, low)
         /\ Basis(file, n, s, start, known, heads, low)
<1>1. start \in Nat /\ start \in 0..n /\ s \in Nat
  OBVIOUS
<1>2. View(file, start, known, heads, low)
  <2>1. \A i \in 1..start : file[i] = f[i]
    BY <1>1
  <2> QED BY <1>1, <2>1, ViewAgrees
<1>3. ASSUME NEW i \in (start + 1)..n
      PROVE  RefSound(file, i, s, start, known, heads, low)
  <2>1. i \in 1..n /\ s <= s
    BY <1>1
  <2>2. \A c \in DOMAIN known : known[c] \in 1..n
    BY <1>1 DEF View, CommitsSound
  <2>3. RefSound(f, i, s, start, known, heads, low)
    OBVIOUS
  <2> QED BY <1>1, <2>1, <2>2, <2>3, RefAgrees
<1> QED BY <1>1, <1>2, <1>3 DEF Basis, View

\* What load() starts from.
LEMMA StartsFrom ==
  ASSUME Sound, state = "down", NEW g \in path
  PROVE  \A start, first, f, file, s, n, low :
           /\ start = IF ValidCheckpoint(g) THEN checkpoint.offset ELSE 0
           /\ first = IF ValidCheckpoint(g) THEN FromCheckpoint ELSE Blank
           /\ f = gens[g].file /\ file = Recovered(f, start)
           /\ s = gens[g].synced /\ n = Length(f) /\ low = LowOf(f)
           => /\ n \in Nat /\ f \in Seq(Record) /\ file \in Seq(Record) /\ Len(file) = n
              /\ Length(file) = n
              /\ \A i \in 1..n : file[i] = f[i]
              /\ s \in 0..n /\ start \in 0..n /\ LowOf(file) = low /\ low \in [Branches -> Nat]
              /\ FileSound(file, n, s, content, low)
              /\ low # NoFloors => \E i \in 1..s : file[i].type = "meta"
              /\ Basis(file, n, s, start, first.commits, first.branches, low)
              /\ checkpoint.gen = g =>
                   /\ start = checkpoint.offset /\ first = FromCheckpoint /\ start \in 1..s
                   /\ first.branches # NoBranches /\ checkpoint.floors = low
                   /\ checkpoint.boundary = file[start]
                   /\ checkpoint.retains \in [Names -> Ids \union {NONE}]
                   /\ View(file, start, first.commits, first.branches, low)
              /\ checkpoint.gen # g => start = 0 /\ first = Blank
<1> TAKE start, first, f, file, s, n, low
<1>0. HAVE /\ start = IF ValidCheckpoint(g) THEN checkpoint.offset ELSE 0
           /\ first = IF ValidCheckpoint(g) THEN FromCheckpoint ELSE Blank
           /\ f = gens[g].file /\ file = Recovered(f, start)
           /\ s = gens[g].synced /\ n = Length(f) /\ low = LowOf(f)
<1>1. Types /\ FilesSound /\ CheckpointSound /\ g \in Generations
  BY DEF Sound, Types
<1>2. f \in Seq(Record) /\ s \in Nat
  BY <1>0, <1>1, GensTyped
<1>3. n \in Nat /\ n <= Len(f) /\ Len(f) \in Nat /\ DOMAIN f = 1..Len(f)
  BY <1>0, <1>2, LengthOf, FileTyped
<1>4. /\ s <= n /\ FileSound(f, n, s, content, low)
      /\ low # NoFloors => \E i \in 1..s : f[i].type = "meta"
  BY <1>0, <1>1 DEF FilesSound
<1>5. checkpoint.gen = g =>
        /\ checkpoint.offset \in 1..s /\ checkpoint.boundary = f[checkpoint.offset]
        /\ checkpoint.retains \in [Names -> Ids \union {NONE}] /\ checkpoint.floors = low
        /\ View(f, checkpoint.offset, checkpoint.commits, checkpoint.branches, low)
        /\ \A i \in (checkpoint.offset + 1)..n :
             RefSound(f, i, s, checkpoint.offset, checkpoint.commits, checkpoint.branches, low)
  BY <1>0, <1>1 DEF CheckpointSound
<1>6. ValidCheckpoint(g) <=> checkpoint.gen = g
  <2>1. checkpoint.gen = g => checkpoint.offset \in DOMAIN f
    BY <1>2, <1>3, <1>4, <1>5
  <2> QED BY <1>0, <1>5, <2>1 DEF ValidCheckpoint
<1>7. /\ checkpoint.gen = g => start = checkpoint.offset /\ first = FromCheckpoint
      /\ checkpoint.gen # g => start = 0 /\ first = Blank
  BY <1>0, <1>6
<1>8. start \in 0..n /\ start \in Nat /\ start <= n /\ s \in 0..n
  BY <1>2, <1>3, <1>4, <1>5, <1>7
<1>9. \A i \in 1..n : f[i].type # "torn"
  BY <1>4 DEF FileSound, RecordSound
<1>10. /\ file \in Seq(Record) /\ Len(file) = n /\ Length(file) = n
       /\ \A i \in 1..n : file[i] = f[i]
  BY <1>0, <1>2, <1>8, <1>9, RecoveredIs, SMTT(20)
<1>11. /\ LowOf(file) = low /\ FileSound(file, n, s, content, low)
       /\ (low # NoFloors => \E i \in 1..s : file[i].type = "meta")
  <2>1. /\ s <= Length(file) /\ Length(file) <= Length(f)
        /\ \A i \in 1..Length(file) : file[i] = f[i]
        /\ FileSound(f, Length(f), s, content, LowOf(f))
        /\ (LowOf(f) # NoFloors => \E i \in 1..s : f[i].type = "meta")
    BY <1>0, <1>3, <1>4, <1>10
  <2>2. file \in Seq(Record) /\ f \in Seq(Record) /\ s \in Nat
    BY <1>2, <1>10
  <2>3. LowOf(file) = LowOf(f)
    BY <2>1, <2>2, Truncated
  <2>4. FileSound(file, Length(file), s, content, LowOf(file))
    BY <2>1, <2>2, Truncated
  <2>5. LowOf(file) # NoFloors => \E i \in 1..s : file[i].type = "meta"
    BY <2>1, <2>2, Truncated
  <2> QED BY <1>0, <1>10, <2>3, <2>4, <2>5
<1>12. low \in [Branches -> Nat]
  BY <1>0, <1>2, LowTyped
<1>13. CASE checkpoint.gen # g
  <2>1. start = 0 /\ first.commits = <<>> /\ first.branches = NoBranches
    BY <1>7, <1>13 DEF Blank
  <2>2. Basis(file, n, s, 0, <<>>, NoBranches, low)
    BY <1>3, <1>11, <1>12, BlankBasis
  <2> QED BY <1>2, <1>3, <1>7, <1>8, <1>10, <1>11, <1>12, <1>13, <2>1, <2>2
<1>14. CASE checkpoint.gen = g
  <2> DEFINE known == checkpoint.commits
             heads == checkpoint.branches
  <2>1. /\ start = checkpoint.offset /\ first = FromCheckpoint
        /\ first.commits = known /\ first.branches = heads
    BY <1>7, <1>14 DEF FromCheckpoint
  <2> HIDE DEF known, heads
  <2>2. /\ start \in 1..s /\ View(f, start, known, heads, low)
        /\ \A i \in (start + 1)..n : RefSound(f, i, s, start, known, heads, low)
    BY <1>5, <1>14, <2>1 DEF known, heads
  <2>3. n \in Nat /\ (\A i \in 1..n : file[i] = f[i]) /\ s \in 0..n
    BY <1>3, <1>8, <1>10
  <2>4. View(file, start, known, heads, low)
    BY <2>2, <2>3, BasisMoves
  <2>5. Basis(file, n, s, start, known, heads, low)
    BY <2>2, <2>3, BasisMoves
  <2>6. heads # NoBranches
    BY <2>4 DEF View
  <2>7. checkpoint.boundary = file[start]
    BY <1>5, <1>8, <1>10, <1>14, <2>1, <2>2
  <2> QED BY <1>2, <1>3, <1>5, <1>8, <1>10, <1>11, <1>12, <1>14, <2>1, <2>2, <2>4, <2>5, <2>6, <2>7
<1> QED BY <1>13, <1>14

\* The metadata that recovery ends with.
LEMMA MetadataLoaded ==
  ASSUME NEW f \in Seq(Record), NEW n \in Nat, Len(f) = n, NEW s, NEW pages,
         FileSound(f, n, s, pages, LowOf(f)), NEW start \in 0..n, NEW first,
         first.retains \in [Names -> Ids \union {NONE}],
         (start = 0 /\ first.floors = NoFloors) \/ first.floors = LowOf(f)
  PROVE  /\ Load(f, start, first).floors = LowOf(f)
         /\ Load(f, start, first).retains \in [Names -> Ids \union {NONE}]
<1> DEFINE metas == ReadBehind(f, start, "meta")
<1>1. metas = {i \in (start + 1)..n : f[i].type = "meta"}
  BY DEF ReadBehind
<1>2. /\ Load(f, start, first).floors = IF metas = {} THEN first.floors ELSE f[Max(metas)].floors
      /\ Load(f, start, first).retains = IF metas = {} THEN first.retains ELSE f[Max(metas)].retains
  BY Zenon DEF Load
<1>3. DOMAIN f = 1..n /\ \A i \in DOMAIN f : f[i] \in Record
  BY FileTyped
<1> HIDE DEF metas
<1>4. CASE metas = {}
  <2>1. start = 0 => LowOf(f) = NoFloors
    <3>1. ASSUME start = 0
          PROVE  ~\E i \in DOMAIN f : f[i].type = "meta"
      BY <1>1, <1>3, <1>4, <3>1
    <3> QED BY <3>1 DEF LowOf
  <2> QED BY <1>2, <1>4, <2>1
<1>5. CASE metas # {}
  <2> DEFINE last == Max(metas)
  <2>1. last \in metas
    <3>1. metas \in SUBSET (0..n)
      BY <1>1
    <3> QED BY <1>5, <3>1, LargestBelow
  <2> HIDE DEF last
  <2>2. last \in 1..n /\ f[last].type = "meta"
    BY <1>1, <2>1
  <2>3. RecordSound(f, last, pages, LowOf(f)) /\ f[last] \in Record
    BY <1>3, <2>2, FileSoundIs
  <2>4. f[last].floors = LowOf(f) /\ f[last].retains \in [Names -> Ids \union {NONE}]
    BY <2>2, <2>3, RecordKinds DEF RecordSound
  <2> QED BY <1>2, <1>5, <2>4 DEF last
<1> QED BY <1>4, <1>5

\* A file that is sound so far can be loaded.
LEMMA LoadableIs ==
  ASSUME NEW f \in Seq(Record), NEW n \in Nat, Len(f) = n, NEW s, NEW pages, NEW low,
         FileSound(f, n, s, pages, low), NEW start \in 0..n, NEW memory,
         CommitsSound(f, n, memory.commits), HeadsSound(f, memory.commits, memory.branches, low)
  PROVE  ~Unloadable(f, start, memory)
<1>1. DOMAIN f = 1..n /\ \A i \in DOMAIN f : f[i] \in Record
  BY FileTyped
<1>2. \A i \in (start + 1)..n : f[i].type # "garbled"
  <2>1. \A i \in (start + 1)..n : i \in DOMAIN f
    BY <1>1
  <2> QED BY <1>1, <2>1, RecordKinds
<1>3. ASSUME NEW b \in Branches, memory.branches[b].head # NONE
      PROVE  /\ memory.branches[b].head \in DOMAIN memory.commits
             /\ Readable(f, memory.commits[memory.branches[b].head])
  <2> DEFINE c == memory.branches[b].head
             at == memory.commits[c]
  <2>1. c \in DOMAIN memory.commits
    BY <1>3 DEF HeadsSound
  <2>2. at \in 1..n /\ f[at].type = "commit"
    BY <2>1 DEF CommitsSound
  <2>3. \A i \in 1..n : f[i].type # "torn"
    BY DEF FileSound, RecordSound
  <2> HIDE DEF at
  <2>4. Readable(f, at)
    <3>1. \A j \in 1..at : j \in 1..n
      BY <2>2
    <3> QED BY <1>1, <2>2, <2>3, <3>1 DEF Readable
  <2> QED BY <2>1, <2>4 DEF at
<1> QED BY <1>2, <1>3 DEF Unloadable

\* A file without a ref is given a first commit.
\* A file of no ref, and the first commit behind it.
Begins(h, n, s, low, pages, id, more, f) ==
  /\ h \in Seq(Record) /\ n \in Nat /\ Len(h) = n /\ Length(h) = n /\ s \in 0..n
  /\ low \in [Branches -> Nat] /\ LowOf(h) = low /\ FileSound(h, n, s, pages, low)
  /\ \A i \in 1..n : h[i].type # "ref"
  /\ id \in Ids /\ id \notin DOMAIN pages /\ id \in DOMAIN more /\ more[id] = NONE
  /\ DOMAIN pages \subseteq DOMAIN more /\ \A c \in DOMAIN pages : more[c] = pages[c]
  /\ f \in Seq(Record) /\ Len(f) = n + 3 /\ \A i \in 1..n : f[i] = h[i]
  /\ f[n + 1].type = "commit" /\ f[n + 1].id = id /\ f[n + 1].branch = Main
  /\ f[n + 1].sequence = 0 /\ f[n + 1].tree = 0
  /\ f[n + 2].type = "ref" /\ f[n + 2].branch = Main /\ f[n + 2].head = id
  /\ f[n + 2].sequence = 0
  /\ f[n + 3].type = "meta" /\ f[n + 3].floors = low

\* A file without a ref is given a first commit.
LEMMA FirstWritten ==
  ASSUME NEW h, NEW n, NEW s, NEW low, NEW pages, NEW id, NEW more, NEW f,
         Begins(h, n, s, low, pages, id, more, f)
  PROVE  /\ FileSound(f, n + 3, s, more, low)
         /\ \A i \in DOMAIN f : f[i].type = "ref" => f[i].branch = Main /\ f[i].sequence = 0
<1> SUFFICES ASSUME
         h \in Seq(Record), n \in Nat, Len(h) = n, Length(h) = n, s \in 0..n,
         low \in [Branches -> Nat], LowOf(h) = low,
         FileSound(h, n, s, pages, low),
         \A i \in 1..n : h[i].type # "ref",
         id \in Ids, id \notin DOMAIN pages, id \in DOMAIN more, more[id] = NONE,
         DOMAIN pages \subseteq DOMAIN more, \A c \in DOMAIN pages : more[c] = pages[c],
         f \in Seq(Record), Len(f) = n + 3, \A i \in 1..n : f[i] = h[i],
         f[n + 1].type = "commit", f[n + 1].id = id, f[n + 1].branch = Main,
         f[n + 1].sequence = 0, f[n + 1].tree = 0,
         f[n + 2].type = "ref", f[n + 2].branch = Main, f[n + 2].head = id,
         f[n + 2].sequence = 0,
         f[n + 3].type = "meta", f[n + 3].floors = low
  PROVE  /\ FileSound(f, n + 3, s, more, low)
         /\ \A i \in DOMAIN f : f[i].type = "ref" => f[i].branch = Main /\ f[i].sequence = 0
  BY DEF Begins
<1> DEFINE commit == f[n + 1]
           ref == f[n + 2]
           meta == f[n + 3]
<1>3. /\ Len(f) = n + 3 /\ (\A i \in 1..n : f[i] = h[i])
      /\ f[n + 1] = commit /\ f[n + 2] = ref /\ f[n + 3] = meta
  OBVIOUS
<1>4. \A i \in (n + 1)..(n + 3) : i = n + 1 \/ i = n + 2 \/ i = n + 3
  OBVIOUS
<1>5. Main \in Branches /\ low[Main] \in Nat
  BY FileAssumption
<1>6. \A i \in 1..n : f[i].type # "ref" /\ (f[i].type = "commit" => f[i].id \in DOMAIN pages)
  <2>1. \A i \in 1..n : RecordSound(h, i, pages, low)
    BY DEF FileSound
  <2> QED BY <1>3, <2>1 DEF RecordSound
<1>7. ASSUME NEW i \in (n + 1)..(n + 3)
      PROVE  RecordSound(f, i, more, low) /\ RefSound(f, i, s, 0, <<>>, NoBranches, low)
  <2>1. CASE i = n + 1
    <3>1. f[i] = commit /\ i - 1 = n
      BY <1>3, <2>1
    <3>2. \A j \in 1..n : f[j].type = "commit" => f[j].id # id
      BY <1>6
    <3> QED BY <3>1, <3>2 DEF RecordSound, RefSound, TreeSound
  <2>2. CASE i = n + 2
    <3>1. f[i] = ref /\ i - 1 = n + 1
      BY <1>3, <2>2
    <3>2. \A j \in 1..(n + 1) : f[j].type # "ref"
      <4>1. \A j \in 1..(n + 1) : j \in 1..n \/ j = n + 1
        OBVIOUS
      <4> QED BY <1>3, <1>6, <4>1
    <3>3. RecordSound(f, i, more, low)
      BY <3>1, <3>2 DEF RecordSound
    <3>4. /\ n + 1 \in (0 + 1)..(i - 1) /\ f[n + 1].type = "commit" /\ f[n + 1].id = id
          /\ Published(f, n + 1, Upto(i, s))
      BY <1>3, <3>1 DEF Published
    <3>5. \A k \in (low[Main] + 1)..0 : FALSE
      BY <1>5
    <3>6. NoBranches[Main].sequence <= 0
      BY <1>5 DEF NoBranches, NoBranch
    <3> QED BY <3>1, <3>3, <3>4, <3>5, <3>6 DEF RefSound
  <2>3. CASE i = n + 3
    BY <1>3, <2>3 DEF RecordSound, RefSound
  <2> QED BY <1>4, <2>1, <2>2, <2>3
<1>8. FileSound(f, n + 3, s, more, low)
  <2>1. Len(f) = n + 3 /\ Len(h) <= Len(f) /\ (\A i \in 1..Len(h) : f[i] = h[i]) /\ s \in 0..Len(h)
    BY <1>3
  <2>2. FileSound(h, Len(h), s, pages, low)
    OBVIOUS
  <2>3. \A i \in (Len(h) + 1)..Len(f) :
          RecordSound(f, i, more, low) /\ RefSound(f, i, s, 0, <<>>, NoBranches, low)
    BY <1>7, <2>1
  <2>4. FileSound(f, Len(f), s, more, low)
    BY <2>1, <2>2, <2>3, Extended, ZenonT(20)
  <2> QED BY <2>1, <2>4
<1>9. \A i \in DOMAIN f : f[i].type = "ref" => f[i].branch = Main /\ f[i].sequence = 0
  <2>1. \A i \in DOMAIN f : i \in 1..n \/ i \in (n + 1)..(n + 3)
    BY <1>3, FileTyped
  <2> QED BY <1>3, <1>4, <1>6, <2>1
<1> QED BY <1>8, <1>9

\* A file with its branches is given the metadata, when that is missing.
LEMMA MetaWritten ==
  ASSUME NEW h \in Seq(Record), NEW n \in Nat, Len(h) = n, Length(h) = n, NEW s \in 0..n,
         NEW low \in [Branches -> Nat], LowOf(h) = low,
         NEW pages, FileSound(h, n, s, pages, low),
         NEW meta \in Record, meta.type = "meta", meta.floors = low,
         NEW f \in Seq(Record), \A i \in 1..n : f[i] = h[i],
         f = h \/ (Len(f) = n + 1 /\ f[n + 1] = meta)
  PROVE  /\ FileSound(f, Len(f), s, pages, low)
         /\ \A i \in (n + 1)..Len(f) : f[i].type # "ref"
<1>1. CASE f = h
  BY <1>1
<1>2. CASE Len(f) = n + 1 /\ f[n + 1] = meta
  <2>3. Len(f) = n + 1 /\ (\A i \in 1..n : f[i] = h[i]) /\ f[n + 1] = meta
    BY <1>2
  <2>4. \A i \in (n + 1)..Len(f) : i = n + 1
    BY <2>3
  <2>5. \A i \in (n + 1)..Len(f) :
          RecordSound(f, i, pages, low) /\ RefSound(f, i, s, 0, <<>>, NoBranches, low)
    BY <2>3, <2>4 DEF RecordSound, RefSound
  <2>6. FileSound(f, Len(f), s, pages, low)
    <3>1. /\ Len(h) <= Len(f) /\ (\A i \in 1..Len(h) : f[i] = h[i]) /\ s \in 0..Len(h)
          /\ FileSound(h, Len(h), s, pages, low)
          /\ \A i \in (Len(h) + 1)..Len(f) :
               RecordSound(f, i, pages, low) /\ RefSound(f, i, s, 0, <<>>, NoBranches, low)
      BY <2>3, <2>5
    <3>2. DOMAIN pages \subseteq DOMAIN pages /\ \A c \in DOMAIN pages : pages[c] = pages[c]
      OBVIOUS
    <3> QED BY <3>1, <3>2, Extended
  <2> QED BY <2>3, <2>4, <2>6
<1> QED BY <1>1, <1>2

LEMMA LesserOf ==
  ASSUME NEW n \in Nat, NEW s \in 0..n
  PROVE  Min({s, n}) = s
<1> DEFINE both == {s, n}
           least == Min(both)
<1>1. both \in SUBSET Nat /\ both # {}
  OBVIOUS
<1>2. least \in both /\ \A y \in both : least <= y
  <2> HIDE DEF both
  <2> QED BY <1>1, SmallestIn
<1> HIDE DEF least
<1>3. (least = s \/ least = n) /\ least <= s
  BY <1>2
<1>4. least = s
  BY <1>3
<1> QED BY <1>4 DEF least

\* What a process makes of the file that g names: h of it is whole, and memory is what it says.
Found(g, h, n, s, low, start, memory) ==
  /\ n \in Nat /\ h \in Seq(Record) /\ Len(h) = n /\ Length(h) = n
  /\ s = gens[g].synced /\ s \in 0..n /\ start \in 0..n
  /\ LowOf(h) = low /\ low \in [Branches -> Nat]
  /\ FileSound(h, n, s, content, low)
  /\ low # NoFloors => \E i \in 1..s : h[i].type = "meta"
  /\ memory.branches \in Heads
  /\ CommitsSound(h, n, memory.commits)
  /\ HeadsSound(h, memory.commits, memory.branches, low)
  /\ RefsKnown(h, n, memory.branches)
  /\ memory.floors = low /\ memory.retains \in [Names -> Ids \union {NONE}]
  /\ checkpoint.gen = g =>
       /\ start = checkpoint.offset /\ start \in 1..s /\ checkpoint.floors = low
       /\ checkpoint.boundary = h[start] /\ memory.branches # NoBranches
       /\ checkpoint.retains \in [Names -> Ids \union {NONE}]
       /\ View(h, start, checkpoint.commits, checkpoint.branches, low)
       /\ \A i \in (start + 1)..n :
            RefSound(h, i, s, start, checkpoint.commits, checkpoint.branches, low)
       /\ \A c \in DOMAIN memory.commits :
            memory.commits[c] <= start => c \in DOMAIN checkpoint.commits
       /\ \A b \in Branches : checkpoint.branches[b].sequence <= memory.branches[b].sequence
  /\ memory.branches = NoBranches => \A i \in 1..n : h[i].type # "ref"

\* It walked that file and loaded it from the checkpoint, if it is of this file.
Walked(g, h, n, s, low, start, memory) ==
  \E first :
    /\ memory = Load(h, start, first)
    /\ first = IF checkpoint.gen = g THEN FromCheckpoint ELSE Blank
    /\ start = IF checkpoint.gen = g THEN checkpoint.offset ELSE 0
    /\ n = Length(gens[g].file) /\ low = LowOf(gens[g].file)
    /\ \A i \in 1..n : h[i] = gens[g].file[i]
    /\ Basis(h, n, s, start, first.commits, first.branches, low)

\* What open() recovers and loads is sound.
LEMMA OpenFinds ==
  ASSUME Sound, Open
  PROVE  \E g \in path : \E h, n, s, low, start, memory :
           /\ Found(g, h, n, s, low, start, memory) /\ Walked(g, h, n, s, low, start, memory)
           /\ Enter(g, h, start, memory)
<1>1. PICK g \in path :
        \E file \in {Recovered(gens[g].file, IF ValidCheckpoint(g) THEN checkpoint.offset ELSE 0)} :
        \E memory \in {Load(file, IF ValidCheckpoint(g) THEN checkpoint.offset ELSE 0,
                            IF ValidCheckpoint(g) THEN FromCheckpoint ELSE Blank)} :
          Enter(g, file, IF ValidCheckpoint(g) THEN checkpoint.offset ELSE 0, memory)
  BY Zenon DEF Open
<1>2. state = "down"
  BY DEF Open
<1>3. PICK start : start = IF ValidCheckpoint(g) THEN checkpoint.offset ELSE 0
  OBVIOUS
<1>4. PICK first : first = IF ValidCheckpoint(g) THEN FromCheckpoint ELSE Blank
  OBVIOUS
<1>5. PICK f : f = gens[g].file
  OBVIOUS
<1>6. PICK h : h = Recovered(f, start)
  OBVIOUS
<1>7. PICK memory : memory = Load(h, start, first)
  OBVIOUS
<1>8. Enter(g, h, start, memory)
  BY <1>1, <1>3, <1>4, <1>5, <1>6, <1>7, Zenon
<1>9. PICK n, s, low : n = Length(f) /\ s = gens[g].synced /\ low = LowOf(f)
  OBVIOUS
<1>10. /\ n \in Nat /\ f \in Seq(Record) /\ h \in Seq(Record) /\ Len(h) = n
       /\ Length(h) = n
       /\ \A i \in 1..n : h[i] = f[i]
       /\ s \in 0..n /\ start \in 0..n /\ LowOf(h) = low /\ low \in [Branches -> Nat]
       /\ FileSound(h, n, s, content, low)
       /\ low # NoFloors => \E i \in 1..s : h[i].type = "meta"
       /\ Basis(h, n, s, start, first.commits, first.branches, low)
       /\ checkpoint.gen = g =>
            /\ start = checkpoint.offset /\ first = FromCheckpoint /\ start \in 1..s
            /\ first.branches # NoBranches /\ checkpoint.floors = low
            /\ checkpoint.boundary = h[start]
            /\ checkpoint.retains \in [Names -> Ids \union {NONE}]
            /\ View(h, start, first.commits, first.branches, low)
       /\ checkpoint.gen # g => start = 0 /\ first = Blank
  BY <1>2, <1>3, <1>4, <1>5, <1>6, <1>9, StartsFrom
<1>11. PICK known, heads, mc, mb :
         /\ known = first.commits /\ heads = first.branches
         /\ mc = memory.commits /\ mb = memory.branches
  OBVIOUS
<1>12. /\ mb \in Heads
       /\ CommitsSound(h, n, mc) /\ HeadsSound(h, mc, mb, low) /\ RefsKnown(h, n, mb)
       /\ \A c \in DOMAIN mc : mc[c] <= start => c \in DOMAIN known
       /\ \A b \in Branches : heads[b].sequence <= mb[b].sequence
       /\ \A b \in Branches : heads[b].head # NONE => mb[b].head # NONE
       /\ \A i \in (start + 1)..n : h[i].type = "ref" => mb[h[i].branch].head # NONE
  <2>1. /\ FileSound(h, n, s, content, LowOf(h))
        /\ Basis(h, n, s, start, first.commits, first.branches, LowOf(h))
        /\ known = first.commits /\ heads = first.branches
        /\ mc = Load(h, start, first).commits /\ mb = Load(h, start, first).branches
    BY <1>7, <1>10, <1>11
  <2>2. h \in Seq(Record) /\ n \in Nat /\ Len(h) = n /\ s \in 0..n /\ start \in 0..n
        /\ LowOf(h) = low
    BY <1>10
  <2>3. mb \in Heads
    BY <2>1, <2>2, Loaded
  <2>4. CommitsSound(h, n, mc)
    BY <2>1, <2>2, Loaded
  <2>5. HeadsSound(h, mc, mb, LowOf(h))
    BY <2>1, <2>2, Loaded
  <2>6. RefsKnown(h, n, mb)
    BY <2>1, <2>2, Loaded
  <2>7. NewBehind(mc, start, known)
    BY <2>1, <2>2, Loaded
  <2>8. \A b \in Branches : heads[b].sequence <= mb[b].sequence
    BY <2>1, <2>2, Loaded
  <2>9. \A b \in Branches : heads[b].head # NONE => mb[b].head # NONE
    BY <2>1, <2>2, Loaded
  <2>10. \A i \in (start + 1)..n : h[i].type = "ref" => mb[h[i].branch].head # NONE
    BY <2>1, <2>2, Loaded
  <2> QED BY <2>2, <2>3, <2>4, <2>5, <2>6, <2>7, <2>8, <2>9, <2>10 DEF NewBehind
<1>13. memory.floors = low /\ memory.retains \in [Names -> Ids \union {NONE}]
  <2>1. /\ first.retains \in [Names -> Ids \union {NONE}]
        /\ ((start = 0 /\ first.floors = NoFloors) \/ first.floors = LowOf(h))
    <3>1. CASE checkpoint.gen = g
      BY <1>10, <3>1 DEF FromCheckpoint
    <3>2. CASE checkpoint.gen # g
      <4>1. NoRetains \in [Names -> Ids \union {NONE}]
        BY DEF NoRetains
      <4> QED BY <1>10, <3>2, <4>1 DEF Blank
    <3> QED BY <3>1, <3>2
  <2>2. FileSound(h, n, s, content, LowOf(h))
    BY <1>10
  <2>3. h \in Seq(Record) /\ n \in Nat /\ Len(h) = n /\ start \in 0..n /\ LowOf(h) = low
    BY <1>10
  <2>4. Load(h, start, first).floors = LowOf(h)
    BY <2>1, <2>2, <2>3, MetadataLoaded
  <2>5. Load(h, start, first).retains \in [Names -> Ids \union {NONE}]
    BY <2>1, <2>2, <2>3, MetadataLoaded
  <2> QED BY <1>7, <2>3, <2>4, <2>5
<1>14. checkpoint.gen = g => known = checkpoint.commits /\ heads = checkpoint.branches
  BY <1>10, <1>11 DEF FromCheckpoint
<1>15. heads \in Heads
  BY <1>10, <1>11 DEF Basis
<1>16. heads # NoBranches => mb # NoBranches
  <2> SUFFICES ASSUME heads # NoBranches, mb = NoBranches PROVE FALSE
    OBVIOUS
  <2>1. PICK b \in Branches : heads[b] # NoBranch
    BY <1>15 DEF Heads, NoBranches
  <2>2. heads[b].head # NONE
    BY <1>15, <2>1 DEF Heads
  <2>3. mb[b].head = NONE
    BY DEF NoBranches, NoBranch
  <2> QED BY <1>12, <2>2, <2>3
<1>17. mb = NoBranches => \A i \in 1..n : h[i].type # "ref"
  <2> SUFFICES ASSUME mb = NoBranches, NEW i \in 1..n, h[i].type = "ref" PROVE FALSE
    OBVIOUS
  <2>1. start = 0
    BY <1>10, <1>11, <1>16
  <2>2. i \in (start + 1)..n
    BY <1>10, <2>1
  <2>3. h[i].branch \in Branches
    BY <1>10, FileTyped, RecordKinds
  <2>4. mb[h[i].branch].head = NONE
    BY <2>3 DEF NoBranches, NoBranch
  <2> QED BY <1>12, <2>2, <2>4
<1>18. checkpoint.gen = g =>
         /\ View(h, start, known, heads, low)
         /\ \A i \in (start + 1)..n : RefSound(h, i, s, start, known, heads, low)
         /\ mb # NoBranches
  BY <1>10, <1>11, <1>16 DEF Basis
<1>19. Found(g, h, n, s, low, start, memory)
  BY <1>9, <1>10, <1>11, <1>12, <1>13, <1>14, <1>17, <1>18 DEF Found
<1>20. Walked(g, h, n, s, low, start, memory)
  <2>1. first = IF checkpoint.gen = g THEN FromCheckpoint ELSE Blank
    BY <1>10
  <2>2. start = IF checkpoint.gen = g THEN checkpoint.offset ELSE 0
    BY <1>10
  <2>3. n = Length(gens[g].file) /\ low = LowOf(gens[g].file) /\ \A i \in 1..n : h[i] = gens[g].file[i]
    BY <1>5, <1>9, <1>10
  <2> QED BY <1>7, <1>10, <2>1, <2>2, <2>3 DEF Walked
<1> QED BY <1>8, <1>19, <1>20

\* open() up to its first sync.
LEMMA OpenStep ==
  ASSUME Sound, Open
  PROVE  Sound'
<1>1. PICK g \in path : \E h, n, s, low, start, memory :
        /\ Found(g, h, n, s, low, start, memory) /\ Walked(g, h, n, s, low, start, memory)
        /\ Enter(g, h, start, memory)
  BY OpenFinds
<1>2. PICK h, n, s, low, start, memory :
        Found(g, h, n, s, low, start, memory) /\ Enter(g, h, start, memory)
  BY <1>1
<1>3. /\ state = "down"
      /\ UNCHANGED <<checkpoint, barrier, collected, readers, streams>>
  BY DEF Open, gcVars
<1>4. /\ n \in Nat /\ h \in Seq(Record) /\ Len(h) = n /\ Length(h) = n
      /\ s = gens[g].synced /\ s \in 0..n /\ start \in 0..n
      /\ LowOf(h) = low /\ low \in [Branches -> Nat]
      /\ FileSound(h, n, s, content, low)
      /\ (low # NoFloors => \E i \in 1..s : h[i].type = "meta")
      /\ memory.branches \in Heads
      /\ CommitsSound(h, n, memory.commits)
      /\ HeadsSound(h, memory.commits, memory.branches, low)
      /\ RefsKnown(h, n, memory.branches)
      /\ memory.floors = low /\ memory.retains \in [Names -> Ids \union {NONE}]
  BY <1>2 DEF Found
<1>5. checkpoint.gen = g =>
        /\ start = checkpoint.offset /\ start \in 1..s /\ checkpoint.floors = low
        /\ checkpoint.boundary = h[start] /\ memory.branches # NoBranches
        /\ checkpoint.retains \in [Names -> Ids \union {NONE}]
        /\ View(h, start, checkpoint.commits, checkpoint.branches, low)
        /\ \A i \in (start + 1)..n :
             RefSound(h, i, s, start, checkpoint.commits, checkpoint.branches, low)
        /\ \A c \in DOMAIN memory.commits :
             memory.commits[c] <= start => c \in DOMAIN checkpoint.commits
        /\ \A b \in Branches : checkpoint.branches[b].sequence <= memory.branches[b].sequence
  BY <1>2 DEF Found
<1>6. memory.branches = NoBranches => \A i \in 1..n : h[i].type # "ref"
  BY <1>2 DEF Found
<1>7. ~Unloadable(h, start, memory)
  BY <1>4, LoadableIs
<1>8. PICK missing : missing = Missing(memory, h)
  OBVIOUS
<1>9. PICK f : f = h \o missing
  OBVIOUS
<1>10. Types
  BY DEF Sound
<1>11. Min({s, n}) = s
  BY <1>4, LesserOf
<1>12. /\ path' = {g} /\ current' = g
       /\ gens' = [x \in Generations |->
            IF x = g THEN [NewFile EXCEPT !.file = f, !.synced = gens[g].synced]
            ELSE IF x \in Written THEN Gone ELSE NewFile]
       /\ commits' = memory.commits /\ branches' = memory.branches
       /\ retains' = memory.retains /\ floors' = memory.floors
  BY <1>2, <1>4, <1>8, <1>9, <1>11 DEF Enter
<1>13. /\ (memory.branches = NoBranches => Fresh \in Ids)
       /\ state' = "opening"
       /\ job' = [kind |-> "open",
                  id |-> IF memory.branches = NoBranches THEN Fresh ELSE NONE,
                  at |-> Len(h) + 1, must |-> missing # <<>>]
       /\ content' = IF memory.branches = NoBranches THEN With(content, Fresh, NONE) ELSE content
  BY <1>2, <1>7, <1>8 DEF Enter
<1>14. /\ job'.kind = "open" /\ job'.at = n + 1
       /\ job'.id = IF memory.branches = NoBranches THEN Fresh ELSE NONE
  BY <1>4, <1>13
<1>15. PICK meta : meta = MetaRecord(memory.retains, memory.floors)
  OBVIOUS
<1>16. meta \in Record /\ meta.type = "meta" /\ meta.floors = low
  BY <1>4, <1>15, RecordsMade DEF MetaRecord
<1>17. CASE memory.branches = NoBranches
  <2>1. PICK id : id = Fresh
    OBVIOUS
  <2>2. id \in Ids /\ id \notin DOMAIN content /\ id # NONE
    BY <1>10, <1>13, <1>17, <2>1, FreshIs DEF Ids, NONE
  <2>3. PICK commit, ref : /\ commit = CommitRecord(id, Main, 0, 0)
                           /\ ref = RefRecord("create", Main, id, 0)
    OBVIOUS
  <2>4. /\ commit \in Record /\ commit.type = "commit" /\ commit.id = id /\ commit.branch = Main
        /\ commit.sequence = 0 /\ commit.tree = 0
        /\ ref \in Record /\ ref.type = "ref" /\ ref.branch = Main /\ ref.head = id
        /\ ref.sequence = 0
    BY <2>2, <2>3, RecordsMade, FileAssumption DEF CommitRecord, RefRecord
  <2>5. missing = <<commit, ref, meta>>
    BY <1>8, <1>15, <1>17, <2>1, <2>3 DEF Missing
  <2>6. missing \in Seq(Record) /\ Len(missing) = 3
        /\ missing[1] = commit /\ missing[2] = ref /\ missing[3] = meta
    BY <1>16, <2>4, <2>5
  <2>7. /\ f \in Seq(Record) /\ Len(f) = Len(h) + Len(missing)
        /\ \A i \in 1..Len(h) : f[i] = h[i]
        /\ \A i \in 1..Len(missing) : f[Len(h) + i] = missing[i]
    <3>1. h \in Seq(Record) /\ missing \in Seq(Record)
      BY <1>4, <2>6
    <3> QED BY <1>9, <3>1, TwoParts
  <2>8. /\ Len(f) = n + 3 /\ (\A i \in 1..n : f[i] = h[i])
        /\ f[n + 1] = commit /\ f[n + 2] = ref /\ f[n + 3] = meta
    <3>1. 1 \in 1..Len(missing) /\ 2 \in 1..Len(missing) /\ 3 \in 1..Len(missing)
      BY <2>6
    <3> QED BY <1>4, <2>6, <2>7, <3>1
  <2>9. PICK more : more = With(content, id, NONE)
    OBVIOUS
  <2>10. content' = more
    BY <1>13, <1>17, <2>1, <2>9
  <2>11. /\ \E k \in 0..MaxCommits : more \in [1..k -> Ids \union {NONE}]
         /\ DOMAIN content \subseteq DOMAIN more
         /\ \A c \in DOMAIN content : more[c] = content[c]
         /\ id \in DOMAIN more /\ more[id] = NONE
    BY <1>10, <2>1, <2>2, <2>9, ContentGrows
  <2>12. FileSound(f, n + 3, s, more, low)
         /\ \A i \in DOMAIN f : f[i].type = "ref" => f[i].branch = Main /\ f[i].sequence = 0
    <3>1. \A i \in 1..n : h[i].type # "ref"
      BY <1>6, <1>17
    <3>2. /\ h \in Seq(Record) /\ n \in Nat /\ Len(h) = n /\ Length(h) = n /\ s \in 0..n
          /\ low \in [Branches -> Nat] /\ LowOf(h) = low /\ FileSound(h, n, s, content, low)
      BY <1>4
    <3>3. /\ DOMAIN content \subseteq DOMAIN more /\ \A c \in DOMAIN content : more[c] = content[c]
          /\ id \in DOMAIN more /\ more[id] = NONE /\ id \in Ids /\ id \notin DOMAIN content
      BY <2>2, <2>11
    <3>4. /\ f \in Seq(Record) /\ Len(f) = n + 3 /\ (\A i \in 1..n : f[i] = h[i])
          /\ f[n + 1] = commit /\ f[n + 2] = ref /\ f[n + 3] = meta
      BY <2>7, <2>8
    <3>7. /\ f[n + 1].type = "commit" /\ f[n + 1].id = id /\ f[n + 1].branch = Main
          /\ f[n + 1].sequence = 0 /\ f[n + 1].tree = 0
          /\ f[n + 2].type = "ref" /\ f[n + 2].branch = Main /\ f[n + 2].head = id
          /\ f[n + 2].sequence = 0
          /\ f[n + 3].type = "meta" /\ f[n + 3].floors = low
      BY <1>16, <2>4, <3>4
    <3>8. Len(f) = n + 3 /\ (\A i \in 1..n : f[i] = h[i]) /\ f \in Seq(Record)
      BY <3>4
    <3>5. Begins(h, n, s, low, content, id, more, f)
      BY <3>1, <3>2, <3>3, <3>7, <3>8, Zenon DEF Begins
    <3> QED BY <3>5, FirstWritten
  <2>13. Length(f) = Len(f) /\ LowOf(f) = low
    <3>1. Len(h) <= Len(f) /\ (\A i \in 1..Len(h) : f[i] = h[i])
          /\ FileSound(f, Len(f), s, more, LowOf(h))
      BY <1>4, <2>8, <2>12
    <3> QED BY <1>4, <2>7, <3>1, LowKept
  <2>14. checkpoint.gen # g
    BY <1>5, <1>17
  <2>15. File' = f
    <3>1. gens'[g] = [NewFile EXCEPT !.file = f, !.synced = gens[g].synced]
      BY <1>10, <1>12 DEF Types
    <3>2. gens'[g].file = f
      BY <3>1 DEF NewFile
    <3> QED BY <1>12, <3>2 DEF File
  <2>16. OpenSound'
    <3>1. job'.id = id /\ n + 1 \in 1..(Len(f) - 1) /\ floors' = low
      BY <1>4, <1>12, <1>14, <1>17, <2>1, <2>8
    <3> QED BY <1>3, <1>12, <1>14, <1>17, <2>4, <2>8, <2>12, <2>13, <2>14, <2>15, <3>1 DEF OpenSound
  <2>17. CheckpointSound'
    BY <1>3, <1>12, <2>14 DEF CheckpointSound
  <2>18. (LowOf(f) # NoFloors => \E i \in 1..s : f[i].type = "meta")
    BY <1>4, <2>8, <2>13
  <2>19. /\ Len(f) > 0 /\ s <= Len(f) /\ branches' \in Heads
         /\ retains' \in [Names -> Ids \union {NONE}] /\ floors' = LowOf(f)
    BY <1>4, <1>12, <2>8, <2>13
  <2>20. job'.id # NONE
    BY <1>14, <1>17, <2>1, <2>2
  <2>21. FileSound(f, Len(f), gens[g].synced, content', LowOf(f))
    BY <1>4, <2>8, <2>10, <2>12, <2>13
  <2> QED BY <1>3, <1>4, <1>12, <1>13, <1>14, <2>7, <2>10, <2>11, <2>13, <2>16, <2>17, <2>18,
             <2>19, <2>20, <2>21, Opened
<1>18. CASE memory.branches # NoBranches
  <2>1. content' = content /\ job'.id = NONE
    BY <1>13, <1>14, <1>18
  <2>2. missing = <<>> \/ missing = <<meta>>
    BY <1>8, <1>15, <1>18 DEF Missing
  <2>3. /\ f \in Seq(Record) /\ (\A i \in 1..n : f[i] = h[i])
        /\ (f = h \/ (Len(f) = n + 1 /\ f[n + 1] = meta))
    <3>1. CASE missing = <<>>
      <4>1. f = h
        BY <1>4, <1>9, <3>1
      <4>2. f \in Seq(Record)
        BY <1>4, <4>1
      <4>3. \A i \in 1..n : f[i] = h[i]
        BY <4>1
      <4> QED BY <4>1, <4>2, <4>3, Zenon
    <3>2. CASE missing = <<meta>>
      <4>1. missing \in Seq(Record) /\ Len(missing) = 1 /\ missing[1] = meta
        BY <1>16, <3>2
      <4>2. /\ f \in Seq(Record) /\ Len(f) = Len(h) + Len(missing)
            /\ \A i \in 1..Len(h) : f[i] = h[i]
            /\ \A i \in 1..Len(missing) : f[Len(h) + i] = missing[i]
        <5>1. h \in Seq(Record) /\ missing \in Seq(Record)
          BY <1>4, <4>1
        <5> QED BY <1>9, <5>1, TwoParts
      <4>3. 1 \in 1..Len(missing)
        BY <4>1
      <4> QED BY <1>4, <4>1, <4>2, <4>3
    <3> QED BY <2>2, <3>1, <3>2
  <2>4. /\ FileSound(f, Len(f), s, content, low)
        /\ \A i \in (n + 1)..Len(f) : f[i].type # "ref"
    BY <1>4, <1>16, <2>3, MetaWritten
  <2>5. n <= Len(f) /\ Len(f) \in Nat
    BY <1>4, <2>3
  <2>6. Length(f) = Len(f) /\ LowOf(f) = low
    <3>1. Len(h) <= Len(f) /\ (\A i \in 1..Len(h) : f[i] = h[i])
          /\ FileSound(f, Len(f), s, content, LowOf(h))
      BY <1>4, <2>3, <2>4, <2>5
    <3> QED BY <1>4, <2>3, <3>1, LowKept
  <2>7. View(h, n, memory.commits, memory.branches, low)
    BY <1>4, <1>18 DEF View
  <2>8. View(f, Len(f), memory.commits, memory.branches, low)
    BY <1>4, <2>3, <2>4, <2>5, <2>7, ViewExtends
  <2>9. n > 0
    <3>1. PICK b \in Branches : memory.branches[b].head # NONE
      BY <1>4, <1>18 DEF Heads, NoBranches
    <3>2. memory.branches[b].head \in DOMAIN memory.commits
      BY <1>4, <3>1 DEF HeadsSound
    <3>3. memory.commits[memory.branches[b].head] \in 1..n
      BY <1>4, <3>2 DEF CommitsSound
    <3> QED BY <1>4, <3>3
  <2>10. gens'[g].file = f /\ gens'[g].synced = s
    <3>1. gens'[g] = [NewFile EXCEPT !.file = f, !.synced = gens[g].synced]
      BY <1>10, <1>12 DEF Types
    <3> QED BY <1>4, <3>1 DEF NewFile
  <2>11. CheckpointSound'
    <3> SUFFICES ASSUME checkpoint.gen = g
                 PROVE  /\ checkpoint.offset \in 1..s
                        /\ checkpoint.boundary = f[checkpoint.offset]
                        /\ checkpoint.retains \in [Names -> Ids \union {NONE}]
                        /\ checkpoint.floors = low
                        /\ View(f, checkpoint.offset, checkpoint.commits, checkpoint.branches, low)
                        /\ \A i \in (checkpoint.offset + 1)..Len(f) :
                             RefSound(f, i, s, checkpoint.offset, checkpoint.commits,
                                      checkpoint.branches, low)
      BY <1>3, <1>12, <2>6, <2>10 DEF CheckpointSound
    <3>1. PICK known, heads : known = checkpoint.commits /\ heads = checkpoint.branches
      OBVIOUS
    <3>2. /\ start \in 1..s /\ start \in 1..n /\ View(h, start, known, heads, low)
          /\ \A i \in (start + 1)..n : RefSound(h, i, s, start, known, heads, low)
      BY <1>4, <1>5, <3>1
    <3>3. View(f, start, known, heads, low)
      <4>1. start \in Nat /\ \A i \in 1..start : f[i] = h[i]
        BY <1>4, <2>3, <3>2
      <4> QED BY <3>2, <4>1, ViewAgrees
    <3>4. ASSUME NEW i \in (start + 1)..Len(f)
          PROVE  RefSound(f, i, s, start, known, heads, low)
      <4>1. CASE i \in 1..n
        <5>1. RefSound(h, i, s, start, known, heads, low)
          BY <3>2, <4>1
        <5>2. \A c \in DOMAIN known : known[c] \in 1..n
          BY <1>4, <3>2 DEF View, CommitsSound
        <5>3. s \in Nat /\ s <= s /\ start \in Nat /\ n \in Nat /\ s \in 0..n
          BY <1>4
        <5>4. \A j \in 1..n : f[j] = h[j]
          BY <2>3
        <5> QED BY <4>1, <5>1, <5>2, <5>3, <5>4, RefAgrees
      <4>2. CASE i \notin 1..n
        <5>1. i \in (n + 1)..Len(f)
          BY <1>4, <2>5, <3>2, <4>2
        <5> QED BY <2>4, <5>1 DEF RefSound
      <4> QED BY <4>1, <4>2
    <3> QED BY <1>5, <2>3, <3>1, <3>2, <3>3, <3>4
  <2>12. Behind(commits, branches)'
    BY <1>3, <1>5, <1>12 DEF Behind
  <2>13. OpenSound'
    BY <2>1 DEF OpenSound
  <2>14. \E k \in 0..MaxCommits : content' \in [1..k -> Ids \union {NONE}]
    BY <1>10, <2>1 DEF Types
  <2>15. (LowOf(f) # NoFloors => \E i \in 1..s : f[i].type = "meta")
    BY <1>4, <2>3, <2>6
  <2>16. /\ Len(f) > 0 /\ s <= Len(f) /\ branches' \in Heads
         /\ retains' \in [Names -> Ids \union {NONE}] /\ floors' = LowOf(f)
    BY <1>4, <1>12, <2>5, <2>6, <2>9
  <2>17. FileSound(f, Len(f), gens[g].synced, content', LowOf(f))
    BY <1>4, <2>1, <2>4, <2>6
  <2>18. View(f, Len(f), commits', branches', floors')
    BY <1>12, <2>8, <1>4
  <2> QED BY <1>3, <1>4, <1>12, <1>13, <1>14, <2>3, <2>6, <2>11, <2>12, <2>13, <2>14, <2>15,
             <2>16, <2>17, <2>18, Opened
<1> QED BY <1>17, <1>18

-----------------------------------------------------------------------------
(* Closing and crashing. *)

\* A process is gone: what counts is what is on the disk.
LEMMA ProcessGone ==
  ASSUME Sound, Ended, state' = "down", path' = path,
         gens' \in [Generations -> Generation], Numbered', FilesSound', CheckpointSound'
  PROVE  Sound'
<1>1. Types /\ NoJob.kind = "idle" /\ ~Serving' /\ ~Running'
  BY DEF Sound, NoJob, Serving, Running
<1>2. /\ job' = NoJob /\ collected' = 0 /\ barrier' = 0
      /\ readers' = [r \in Readers |-> NoReader] /\ streams' = [t \in Streams |-> NoStream]
      /\ branches' = NoBranches /\ retains' = NoRetains /\ floors' = NoFloors
      /\ current' = current /\ content' = content
  BY DEF Ended
<1>3. Types'
  <2>1. readers' \in [Readers -> Reader] /\ streams' \in [Streams -> Stream]
    BY <1>2, ReaderTyped
  <2>2. branches' \in Heads /\ floors' \in [Branches -> Nat]
    BY <1>2, NoBranchesAreHeads
  <2>3. retains' \in [Names -> Ids \union {NONE}]
    BY <1>2 DEF NoRetains
  <2> QED BY <1>1, <1>2, <2>1, <2>2, <2>3 DEF Types
<1>4. Room'
  <2>1. PICK k \in 0..(MaxCollections + 1) : Written' = 1..k
    BY DEF Numbered
  <2>2. k \in Nat /\ MaxCollections \in Nat
    BY <2>1, FileAssumption
  <2>3. Cardinality(Written') = k
    <3>1. 1 \in Int /\ k \in Int
      BY <2>2
    <3>2. Cardinality(1..k) = IF 1 > k THEN 0 ELSE k - 1 + 1
      BY <3>1, FS_Interval
    <3> QED BY <2>1, <2>2, <3>2
  <2> QED BY <1>1, <1>2, <2>1, <2>2, <2>3 DEF Room
<1>5. (\A r \in Readers : readers'[r].state = "idle") /\ (\A t \in Streams : streams'[t].state = "idle")
  BY <1>2 DEF NoReader, NoStream
<1>6. Quiet'
  BY <1>1, <1>2, <1>5 DEF Quiet
<1>7. Leased' /\ MemorySound'
  BY <1>1 DEF Leased, MemorySound
<1>8. JobSound'
  BY <1>1, <1>2 DEF JobSound, OpenSound, CommitSound, CollectSound
<1>9. Snapshots'
  BY <1>5 DEF Snapshots
<1> QED BY <1>3, <1>4, <1>6, <1>7, <1>8, <1>9 DEF Sound

\* close() has synced and written its checkpoint.
LEMMA CloseEndsSound ==
  ASSUME Sound, CloseEnds
  PROVE  Sound'
<1>1. /\ state = "closing" /\ job = NoJob /\ state' = "down" /\ Synced /\ Ended
      /\ path' = path /\ current' = current /\ content' = content
      /\ checkpoint' \in {checkpoint} \union Sidecars(commits, branches)
  BY DEF CloseEnds, Ended
<1>2. Types /\ Numbered /\ MemorySound /\ Running /\ Serving /\ ~Running' /\ ~Serving'
  BY <1>1 DEF Sound, Running, Serving
<1>3. /\ gens' \in [Generations -> Generation]
      /\ \A g \in Generations :
           /\ gens'[g].file = gens[g].file
           /\ gens'[g].synced = IF g = current THEN Len(File) ELSE gens[g].synced
  BY <1>1, <1>2, SyncIs
<1>4. current \in Written /\ current \in Generations /\ Len(File) > 0
  BY <1>2, RunningView
<1>5. FilesSound'
  BY <1>1, <1>2, SyncedFiles
<1>6. floors = LowOf(File) /\ View(File, Len(File), commits, branches, floors)
  BY <1>1, <1>2 DEF MemorySound
<1>7. CheckpointSound' /\ (checkpoint' = checkpoint \/ checkpoint'.gen = current)
  <2>1. CASE checkpoint' = checkpoint
    BY <1>1, <1>2, <2>1, SyncedFiles
  <2>2. CASE checkpoint' \in Sidecars(commits, branches)
    <3> DEFINE known == commits
               heads == branches
    <3>1. View(File, Len(File), known, heads, floors) /\ checkpoint' \in Sidecars(known, heads)
      BY <1>6, <2>2
    <3> HIDE DEF known, heads
    <3>2. CheckpointSound' /\ checkpoint'.gen = current
      BY <1>1, <1>2, <1>6, <3>1, SidecarSound
    <3> QED BY <3>2
  <2> QED BY <1>1, <2>1, <2>2
<1>8. Written' = Written
  BY <1>3 DEF Written
<1>9. Numbered'
  <2>1. PICK k \in 0..(MaxCollections + 1) :
          /\ Written = 1..k
          /\ \A g \in path \union {current} : g <= k \/ g = 1
          /\ k > 1 \/ Serving => \A g \in path \union {current} : gens[g].synced > 0
    BY <1>2 DEF Numbered
  <2>2. \A g \in path \union {current} : g \in Generations /\ gens'[g].synced > 0
    BY <1>2, <1>3, <1>4, <2>1 DEF Types
  <2>3. checkpoint'.gen = 0 \/ checkpoint'.gen \in Written
    BY <1>2, <1>4, <1>7 DEF Numbered
  <2> QED BY <1>1, <1>2, <1>8, <2>1, <2>2, <2>3 DEF Numbered
<1> QED BY <1>1, <1>3, <1>5, <1>7, <1>9, ProcessGone

Leaves(f, keep, new) ==
  LET kept == [i \in 1..keep |-> f[i]] IN new = kept \/ new = Append(kept, Torn)

\* What a crash leaves of a file is its first records, and one cut short.
LEMMA CrashLeaves ==
  ASSUME NEW f \in Seq(Record), \A i \in 1..Len(f) : f[i].type # "torn",
         NEW keep \in 0..Len(f), NEW new, Leaves(f, keep, new)
  PROVE  /\ new \in Seq(Record) /\ Length(new) = keep /\ keep <= Len(new)
         /\ \A i \in 1..keep : new[i] = f[i]
<1> DEFINE kept == [i \in 1..keep |-> f[i]]
<1>1. keep \in Nat /\ Len(f) \in Nat /\ \A i \in 1..keep : i \in DOMAIN f /\ f[i] \in Record
  BY FileTyped
<1>2. kept \in Seq(Record) /\ Len(kept) = keep /\ \A i \in 1..keep : kept[i] = f[i]
  BY <1>1
<1>6. new = kept \/ new = Append(kept, Torn)
  BY DEF Leaves
<1> HIDE DEF kept
<1>3. Torn \in Record /\ Torn.type = "torn"
  BY RecordsMade DEF Torn
<1>4. CASE new = kept
  <2>1. new \in Seq(Record) /\ \A i \in DOMAIN new : new[i].type # "torn"
    BY <1>1, <1>2, <1>4
  <2>2. Length(new) = Len(new)
    BY <2>1, LengthOf
  <2> QED BY <1>1, <1>2, <1>4, <2>1, <2>2
<1>5. CASE new = Append(kept, Torn)
  <2>1. /\ new \in Seq(Record) /\ Len(new) = keep + 1 /\ new[keep + 1] = Torn
        /\ \A i \in 1..keep : new[i] = kept[i]
    BY <1>1, <1>2, <1>3, <1>5
  <2>2. new # <<>> /\ new[Len(new)].type = "torn" /\ Len(new) - 1 = keep
    BY <1>1, <1>3, <2>1
  <2>3. Length(new) = keep
    BY <2>2 DEF Length
  <2> QED BY <1>1, <1>2, <2>1, <2>3
<1> QED BY <1>4, <1>5, <1>6

\* A crash with no garbling is one that keeps what was synced.
LEMMA CrashIs ==
  ASSUME Sound, Crash, Garbling = FALSE
  PROVE  /\ Running /\ state' = "down" /\ Ended
         /\ path' = path /\ current' = current /\ content' = content /\ checkpoint' = checkpoint
         /\ \E keep \in gens[current].synced..Len(File), new \in Seq(Record) :
              /\ Length(new) = keep /\ keep <= Len(new)
              /\ \A i \in 1..keep : new[i] = File[i]
              /\ gens' = [gens EXCEPT ![current].file = new]
<1>1. /\ state # "down" /\ state' = "down" /\ Ended
      /\ path' = path /\ current' = current /\ content' = content /\ checkpoint' = checkpoint
  BY DEF Crash, Ended
<1>2. Running
  BY <1>1 DEF Sound, Types, Running
<1>3. PICK f : f = File
  OBVIOUS
<1>4. /\ f \in Seq(Record) /\ Len(f) \in Nat /\ gens[current].synced \in 0..Len(f)
      /\ FileSound(f, Len(f), gens[current].synced, content, LowOf(f))
  BY <1>2, <1>3, RunningView
<1>5. \A i \in 1..Len(f) : f[i].type # "torn"
  BY <1>4 DEF FileSound, RecordSound
<1>6. PICK keep \in gens[current].synced..Len(f), torn \in BOOLEAN :
        \E holes \in {{}} :
          gens' = [gens EXCEPT ![current].file =
             IF torn /\ keep < Len(f)
             THEN Append([i \in 1..keep |-> IF i \in holes THEN Garbled(f[i]) ELSE f[i]], Torn)
             ELSE [i \in 1..keep |-> IF i \in holes THEN Garbled(f[i]) ELSE f[i]]]
  BY <1>3, Zenon DEF Crash
<1>7. keep \in 0..Len(f) /\ keep \in Nat
  BY <1>4, <1>6
<1>8. PICK kept : kept = [i \in 1..keep |-> f[i]]
  OBVIOUS
<1>9. [i \in 1..keep |-> IF i \in {} THEN Garbled(f[i]) ELSE f[i]] = kept
  BY <1>8
<1>10. PICK new : new = IF torn /\ keep < Len(f) THEN Append(kept, Torn) ELSE kept
  OBVIOUS
<1>11. gens' = [gens EXCEPT ![current].file = new]
  BY <1>6, <1>9, <1>10
<1>12. Leaves(f, keep, new)
  BY <1>8, <1>10 DEF Leaves
<1>13. /\ new \in Seq(Record) /\ Length(new) = keep /\ keep <= Len(new)
       /\ \A i \in 1..keep : new[i] = f[i]
  BY <1>4, <1>5, <1>7, <1>12, CrashLeaves
<1> QED BY <1>1, <1>2, <1>3, <1>6, <1>11, <1>13

\* A file that lost what was not synced is as sound as it was.
LEMMA CrashSound ==
  ASSUME Sound, Crash, Garbling = FALSE
  PROVE  Sound'
<1>1. /\ Running /\ state' = "down" /\ Ended
      /\ path' = path /\ current' = current /\ content' = content /\ checkpoint' = checkpoint
  BY CrashIs
<1>2. PICK keep \in gens[current].synced..Len(File), new \in Seq(Record) :
        /\ Length(new) = keep /\ keep <= Len(new)
        /\ \A i \in 1..keep : new[i] = File[i]
        /\ gens' = [gens EXCEPT ![current].file = new]
  BY CrashIs
<1>3. PICK f, s : f = File /\ s = gens[current].synced
  OBVIOUS
<1>4. /\ Types /\ Numbered /\ FilesSound /\ CheckpointSound /\ ~Running' /\ ~Serving'
      /\ path \in SUBSET Generations
  BY <1>1 DEF Sound, Running, Serving, Types
<1>5. /\ current \in path /\ current \in Generations /\ f \in Seq(Record)
      /\ Length(f) = Len(f) /\ Len(f) \in Nat /\ s \in 0..Len(f) /\ current \in Written
      /\ FileSound(f, Len(f), s, content, LowOf(f))
      /\ LowOf(f) # NoFloors => \E i \in 1..s : f[i].type = "meta"
  BY <1>1, <1>3, RunningView
<1>6. keep \in Nat /\ s <= keep /\ keep <= Len(f) /\ s \in Nat /\ Len(new) \in Nat
  BY <1>2, <1>3, <1>5, FileTyped
<1>7. /\ gens' \in [Generations -> Generation]
      /\ \A g \in Generations :
           /\ gens'[g].file = IF g = current THEN new ELSE gens[g].file
           /\ gens'[g].synced = gens[g].synced
  <2> DEFINE after == [gens[current] EXCEPT !.file = new]
  <2>1. gens[current] \in Generation
    BY <1>4, <1>5, GensTyped
  <2>2. after \in Generation /\ after.file = new /\ after.synced = gens[current].synced
    BY <1>2, <2>1 DEF Generation
  <2>3. gens' = [gens EXCEPT ![current] = after]
    BY <1>2
  <2> HIDE DEF after
  <2> QED BY <1>4, <1>5, <2>2, <2>3 DEF Types
<1>8. /\ LowOf(new) = LowOf(f)
      /\ FileSound(new, Length(new), s, content, LowOf(new))
      /\ LowOf(new) # NoFloors => \E i \in 1..s : new[i].type = "meta"
  <2>1. s <= Length(new) /\ Length(new) <= Length(f) /\ \A i \in 1..Length(new) : new[i] = f[i]
    BY <1>2, <1>3, <1>5, <1>6
  <2>2. FileSound(f, Length(f), s, content, LowOf(f))
    BY <1>5
  <2> QED BY <1>2, <1>5, <1>6, <2>1, <2>2, Truncated
<1>9. FilesSound'
  <2> SUFFICES ASSUME NEW g \in path
               PROVE  /\ gens'[g].synced <= Length(gens'[g].file)
                      /\ FileSound(gens'[g].file, Length(gens'[g].file), gens'[g].synced, content,
                                   LowOf(gens'[g].file))
                      /\ LowOf(gens'[g].file) # NoFloors =>
                           \E i \in 1..gens'[g].synced : gens'[g].file[i].type = "meta"
    BY <1>1, <1>4 DEF FilesSound
  <2>1. CASE g = current
    <3>1. gens'[g].file = new /\ gens'[g].synced = s
      BY <1>3, <1>4, <1>7, <2>1
    <3> QED BY <1>2, <1>6, <1>8, <3>1
  <2>2. CASE g # current
    <3>1. gens'[g].file = gens[g].file /\ gens'[g].synced = gens[g].synced
      BY <1>4, <1>7, <2>2
    <3> QED BY <1>4, <3>1 DEF FilesSound
  <2> QED BY <2>1, <2>2
<1>10. checkpoint.gen = current =>
         checkpoint.offset \in 1..s
  BY <1>3, <1>4, <1>5 DEF CheckpointSound
<1>11. CheckpointSound'
  <2> SUFFICES ASSUME checkpoint.gen \in path
               PROVE  LET h == gens'[checkpoint.gen].file
                          start == checkpoint.offset
                      IN
                      /\ start \in 1..gens'[checkpoint.gen].synced
                      /\ checkpoint.boundary = h[start]
                      /\ checkpoint.retains \in [Names -> Ids \union {NONE}]
                      /\ checkpoint.floors = LowOf(h)
                      /\ View(h, start, checkpoint.commits, checkpoint.branches, checkpoint.floors)
                      /\ \A i \in (start + 1)..Length(h) :
                           RefSound(h, i, gens'[checkpoint.gen].synced, start, checkpoint.commits,
                                    checkpoint.branches, checkpoint.floors)
    BY <1>1 DEF CheckpointSound
  <2>1. CASE checkpoint.gen # current
    <3>1. /\ gens'[checkpoint.gen].file = gens[checkpoint.gen].file
          /\ gens'[checkpoint.gen].synced = gens[checkpoint.gen].synced
      BY <1>4, <1>7, <2>1
    <3> QED BY <1>4, <3>1 DEF CheckpointSound
  <2>2. CASE checkpoint.gen = current
    <3>1. PICK start, known, heads, low :
            /\ start = checkpoint.offset /\ known = checkpoint.commits
            /\ heads = checkpoint.branches /\ low = checkpoint.floors
      OBVIOUS
    <3>2. /\ start \in 1..s /\ checkpoint.boundary = f[start]
          /\ checkpoint.retains \in [Names -> Ids \union {NONE}]
          /\ low = LowOf(f)
          /\ View(f, start, known, heads, low)
          /\ \A i \in (start + 1)..Len(f) : RefSound(f, i, s, start, known, heads, low)
      BY <1>3, <1>4, <1>5, <2>2, <3>1 DEF CheckpointSound, File
    <3>3. gens'[checkpoint.gen].file = new /\ gens'[checkpoint.gen].synced = s
      BY <1>3, <1>4, <1>5, <1>7, <2>2
    <3>4. start \in 1..keep
      BY <1>6, <3>2
    <3>5. /\ View(new, start, known, heads, low)
          /\ Basis(new, keep, s, start, known, heads, low)
      <4>1. \A i \in 1..keep : new[i] = f[i]
        BY <1>2, <1>3
      <4>2. \A i \in (start + 1)..keep : RefSound(f, i, s, start, known, heads, low)
        BY <1>6, <3>2
      <4>3. s \in 0..keep
        BY <1>6
      <4> QED BY <1>6, <3>2, <4>1, <4>2, <4>3, BasisMoves
    <3>6. \A i \in (start + 1)..keep : RefSound(new, i, s, start, known, heads, low)
      BY <3>5 DEF Basis
    <3>7. new[start] = f[start] /\ LowOf(new) = low /\ Length(new) = keep
      BY <1>2, <1>3, <1>8, <3>2, <3>4
    <3> QED BY <3>1, <3>2, <3>3, <3>5, <3>6, <3>7
  <2> QED BY <2>1, <2>2
<1>12. Numbered'
  <2>1. PICK k \in 0..(MaxCollections + 1) :
          /\ Written = 1..k
          /\ \A g \in path \union {current} : g <= k \/ g = 1
          /\ k > 1 \/ Serving => \A g \in path \union {current} : gens[g].synced > 0
    BY <1>4 DEF Numbered
  <2>2. k \in Nat /\ MaxCollections \in Nat
    BY <2>1, FileAssumption
  <2>3. CASE new # <<>>
    <3>1. Written' = Written
      BY <1>5, <1>7, <2>3 DEF Written
    <3>2. k > 1 => \A g \in path \union {current} : gens'[g].synced > 0
      BY <1>4, <1>5, <1>7, <2>1
    <3>3. checkpoint.gen = 0 \/ checkpoint.gen \in Written
      BY <1>4 DEF Numbered
    <3> QED BY <1>1, <1>4, <2>1, <3>1, <3>2, <3>3 DEF Numbered
  <2>4. CASE new = <<>>
    <3>1. keep = 0 /\ s = 0
      BY <1>2, <1>6, <2>4
    <3>2. ~(k > 1)
      <4>1. k > 1 => gens[current].synced > 0
        BY <2>1
      <4> QED BY <1>3, <3>1, <4>1
    <3>3. current \in 1..k
      BY <1>5, <2>1
    <3>4. k = 1 /\ current = 1 /\ Written = {1}
      BY <2>1, <2>2, <3>2, <3>3
    <3>5. Written' = {}
      <4>1. \A g \in Generations : g # 1 => gens[g].file = <<>>
        BY <3>4 DEF Written
      <4>2. \A g \in Generations : gens'[g].file = <<>>
        BY <1>7, <2>4, <3>4, <4>1
      <4> QED BY <4>2 DEF Written
    <3>6. Written' = 1..0 /\ 0 \in 0..(MaxCollections + 1) /\ ~(0 > 1)
      BY <2>2, <3>5
    <3>7. \A g \in path' \union {current'} : g <= 0 \/ g = 1
      <4>1. \A g \in path \union {current} : g \in Nat /\ g >= 1
        BY <1>4, <1>5 DEF Generations
      <4> QED BY <1>1, <2>1, <3>4, <4>1
    <3>8. checkpoint.gen = 0
      <4>1. checkpoint.gen = 0 \/ checkpoint.gen = 1
        BY <1>4, <3>4 DEF Numbered
      <4> QED BY <1>10, <3>1, <3>4, <4>1
    <3> QED BY <1>1, <1>4, <3>6, <3>7, <3>8 DEF Numbered
  <2> QED BY <2>3, <2>4
<1> QED BY <1>1, <1>7, <1>9, <1>11, <1>12, ProcessGone

-----------------------------------------------------------------------------
(* The invariant holds. *)

\* An empty file is sound.
LEMMA InitSound ==
  ASSUME Init
  PROVE  Sound
<1>1. /\ gens = [g \in Generations |-> NewFile] /\ path = {1} /\ checkpoint.gen = 0
      /\ state = "down" /\ current = 1 /\ commits = <<>> /\ branches = NoBranches
      /\ retains = NoRetains /\ floors = NoFloors /\ job = NoJob /\ job.kind = "idle"
      /\ barrier = 0 /\ collected = 0
      /\ readers = [r \in Readers |-> NoReader] /\ streams = [t \in Streams |-> NoStream]
      /\ content = <<>>
  BY DEF Init, NoCheckpoint, NoJob
<1>2. ~Running /\ ~Serving /\ MaxCollections \in Nat /\ MaxCommits \in Nat /\ 1 \in Generations
  BY <1>1, FileAssumption DEF Running, Serving, Generations
<1>3. \A g \in Generations :
        gens[g] \in Generation /\ gens[g].file = <<>> /\ gens[g].synced = 0
  BY <1>1, NewFileTyped
<1>4. Written = {} /\ Written = 1..0 /\ Cardinality(Written) = 0
  <2>1. Written = {}
    BY <1>3 DEF Written
  <2>2. 1..0 = {}
    OBVIOUS
  <2> QED BY <2>1, <2>2, FS_EmptySet
<1>5. (\A r \in Readers : readers[r].state = "idle") /\ (\A t \in Streams : streams[t].state = "idle")
  BY <1>1 DEF NoReader, NoStream
<1>6. Types
  <2>1. gens \in [Generations -> Generation]
    BY <1>1, NewFileTyped
  <2>2. readers \in [Readers -> Reader] /\ streams \in [Streams -> Stream]
    BY <1>1, ReaderTyped
  <2>3. branches \in Heads /\ floors \in [Branches -> Nat]
    BY <1>1, NoBranchesAreHeads
  <2>4. retains \in [Names -> Ids \union {NONE}]
    BY <1>1 DEF NoRetains
  <2>5. 0 \in 0..MaxCommits /\ content \in [1..0 -> Ids \union {NONE}]
    BY <1>1, <1>2
  <2>6. path \in SUBSET Generations /\ current \in Generations
        /\ state \in {"down", "opening", "open", "closing"} /\ barrier \in Nat /\ collected \in Nat
    BY <1>1, <1>2
  <2> QED BY <2>1, <2>2, <2>3, <2>4, <2>5, <2>6 DEF Types
<1>7. Numbered
  <2>1. 0 \in 0..(MaxCollections + 1) /\ ~(0 > 1) /\ \A g \in path \union {current} : g <= 0 \/ g = 1
    BY <1>1, <1>2
  <2> QED BY <1>1, <1>2, <1>4, <2>1 DEF Numbered
<1>8. Room /\ Quiet
  BY <1>1, <1>2, <1>4, <1>5 DEF Room, Quiet
<1>9. Leased /\ MemorySound
  BY <1>2 DEF Leased, MemorySound
<1>10. FilesSound
  <2>1. Length(<<>>) = 0
    BY DEF Length
  <2>2. LowOf(<<>>) = NoFloors
    BY DEF LowOf
  <2>3. FileSound(<<>>, 0, 0, content, NoFloors)
    BY DEF FileSound
  <2> QED BY <1>1, <1>2, <1>3, <2>1, <2>2, <2>3 DEF FilesSound
<1>11. CheckpointSound
  <2>1. ~(0 = 1)
    OBVIOUS
  <2> QED BY <1>1, <2>1 DEF CheckpointSound
<1>12. JobSound
  BY <1>1 DEF JobSound, OpenSound, CommitSound, CollectSound
<1>13. Snapshots
  BY <1>5 DEF Snapshots
<1> QED BY <1>6, <1>7, <1>8, <1>9, <1>10, <1>11, <1>12, <1>13 DEF Sound

\* Every step but an append that fails part way keeps the invariant.
LEMMA NextSound ==
  ASSUME Garbling = FALSE, Sound, [Next]_vars, ~AppendFails
  PROVE  Sound'
<1>1. CASE Operation
  <2>1. CASE Open
    BY <2>1, OpenStep
  <2>2. CASE Close
    BY <2>2, CloseSound
  <2>3. CASE \E b \in Branches : Commit(b) \/ CreateBranch(b)
    BY <2>3, CommitStepSound, CreateBranchSound
  <2>4. CASE \E name \in Names : Retain(name) \/ RetainAgain(name) \/ ReleaseRetention(name)
    BY <2>4, RetainSound, RetainAgainSound, ReleaseRetentionSound
  <2>5. CASE \E r \in Readers : CallSnapshot(r) \/ CloseSnapshot(r)
    BY <2>5, CallSnapshotSound, CloseSnapshotSound
  <2>6. CASE \E t \in Streams :
               \/ \E b \in Branches, after \in Sequences : CallChanges(t, b, after)
               \/ EndStream(t)
    BY <2>6, CallChangesSound, EndStreamSound
  <2>7. CASE CollectGarbage
    BY <2>7, CollectGarbageSound
  <2> QED BY <1>1, <2>1, <2>2, <2>3, <2>4, <2>5, <2>6, <2>7 DEF Operation
<1>2. CASE Fault
  BY <1>2, SyncFailsSound, CollectionFailsSound, DirectorySyncFailsSound, CrashSound DEF Fault
<1>3. CASE Progress
  <2>1. CASE SyncDone \/ StartCollection \/ InstallGeneration \/ CollectionDone \/ CloseEnds
    BY <2>1, SyncDoneSound, StartCollectionSound, InstallGenerationSound, CollectionDoneSound,
       CloseEndsSound
  <2>2. CASE \E r \in Readers : Snapshot(r)
    BY <2>2, SnapshotSound
  <2>3. CASE \E t \in Streams : Subscribe(t) \/ Replay(t) \/ Replayed(t) \/ Deliver(t)
    BY <2>3, SubscribeSound, ReplaySound, ReplayedSound, DeliverSound
  <2> QED BY <1>3, <2>1, <2>2, <2>3 DEF Progress
<1>4. CASE UNCHANGED vars
  BY <1>4, StutterSound
<1> QED BY <1>1, <1>2, <1>3, <1>4 DEF Next

\* Appends that fail are counted, and nothing else is.
LEMMA FaultsCounted ==
  ASSUME [Next]_vars
  PROVE  writeFaults' = writeFaults \/ (AppendFails /\ writeFaults' = writeFaults + 1)
<1>1. CASE Operation
  BY <1>1 DEF Operation, Open, Close, Commit, CreateBranch, Retain, RetainAgain,
     ReleaseRetention, CallSnapshot, CloseSnapshot, CallChanges, EndStream, CollectGarbage, faultVars
<1>2. CASE Fault
  BY <1>2 DEF Fault, SyncFails, AppendFails, CollectionFails, DirectorySyncFails, Crash, faultVars
<1>3. CASE Progress
  BY <1>3 DEF Progress, SyncDone, StartCollection, InstallGeneration, CollectionDone, CloseEnds,
     Snapshot, Subscribe, Replay, Replayed, Deliver, faultVars
<1>4. CASE UNCHANGED vars
  BY <1>4 DEF vars, faultVars
<1> QED BY <1>1, <1>2, <1>3, <1>4 DEF Next

-----------------------------------------------------------------------------
(* What follows from it. *)

\* A sound tree of an open file reads its page.
LEMMA SoundReads ==
  ASSUME Sound, NEW g \in Generations, ~gens[g].closed,
         NEW tree, NEW page, TreeSound(gens[g].file, Len(gens[g].file), tree, page),
         \A i \in DOMAIN gens[g].file : gens[g].file[i].type # "torn"
  PROVE  Reading(g, tree) = page
<1>1. PICK f : f = gens[g].file
  OBVIOUS
<1>2. f \in Seq(Record) /\ DOMAIN f = 1..Len(f) /\ Len(f) \in Nat
  BY <1>1, GensTyped, FileTyped DEF Sound
<1>3. CASE tree = 0
  BY <1>3 DEF TreeSound, Reading
<1>4. CASE tree # 0
  <2>1. tree \in 1..Len(f) /\ f[tree].type = "page" /\ f[tree].id = page
    BY <1>1, <1>4 DEF TreeSound
  <2>2. \A j \in 1..tree : f[j].type # "torn"
    <3>1. \A j \in 1..tree : j \in 1..Len(f)
      BY <1>2, <2>1
    <3> QED BY <1>1, <1>2, <3>1
  <2>3. Readable(f, tree)
    BY <1>2, <2>1, <2>2 DEF Readable
  <2> QED BY <1>1, <1>4, <2>1, <2>3 DEF Reading
<1> QED BY <1>3, <1>4

\* The invariant gives HistoryWhole.
LEMMA SoundHistory ==
  ASSUME Sound
  PROVE  HistoryWhole
<1>1. RecoveryOpens
  BY DEF Sound, Types, RecoveryOpens
<1>2. CASE state # "open"
  BY <1>1, <1>2 DEF HistoryWhole, Integrity, NoHoleAboveFloor
<1>3. CASE state = "open"
  <2>1. Serving
    BY <1>3 DEF Serving
  <2>2. /\ FileAndMemory(gens[current].synced) /\ current \in Generations /\ File \in Seq(Record)
        /\ \A i \in DOMAIN File : File[i].type # "torn"
    BY <2>1, ServingView
  <2>3. ~gens[current].closed
    BY <2>1, GenerationOpen
  <2>4. DOMAIN File = 1..Len(File)
    BY <2>2, FileTyped
  <2>5. ASSUME NEW c \in DOMAIN commits
        PROVE  /\ commits[c] \in DOMAIN File /\ RecordAt(c).type = "commit" /\ RecordAt(c).id = c
               /\ Reading(current, RecordAt(c).tree) = content[c]
    <3>1. /\ commits[c] \in 1..Len(File) /\ RecordAt(c).type = "commit" /\ RecordAt(c).id = c
          /\ TreeSound(File, Len(File), RecordAt(c).tree, content[c])
      BY <2>2, RecordsAt
    <3>2. PICK tree, page : tree = RecordAt(c).tree /\ page = content[c]
      OBVIOUS
    <3>3. TreeSound(gens[current].file, Len(gens[current].file), tree, page)
      BY <3>1, <3>2 DEF File
    <3>4. \A i \in DOMAIN gens[current].file : gens[current].file[i].type # "torn"
      BY <2>2 DEF File
    <3>5. Reading(current, tree) = page
      BY <2>2, <2>3, <3>3, <3>4, SoundReads
    <3> QED BY <2>4, <3>1, <3>2, <3>5
  <2>6. Integrity
    BY <2>5 DEF Integrity
  <2>7. ASSUME NEW b \in Branches, branches[b].head # NONE
        PROVE  /\ {branches[b].head, branches[b].base} \subseteq DOMAIN commits
               /\ \A n \in (floors[b] + 1)..branches[b].sequence :
                    \E c \in OfBranch(b) : RecordAt(c).sequence = n
    <3>1. /\ branches[b].head \in DOMAIN commits /\ branches[b].base \in DOMAIN commits
          /\ \A n \in (floors[b] + 1)..branches[b].sequence :
               \E c \in DOMAIN commits : File[commits[c]].branch = b /\ File[commits[c]].sequence = n
      BY <2>2, <2>7 DEF FileAndMemory, View, HeadsSound
    <3> QED BY <3>1 DEF OfBranch, RecordAt
  <2>8. NoHoleAboveFloor
    BY <2>7 DEF NoHoleAboveFloor, Exists
  <2> QED BY <1>1, <2>6, <2>8 DEF HistoryWhole
<1> QED BY <1>2, <1>3

\* The invariant gives GenerationsHeld.
LEMMA SoundGenerations ==
  ASSUME Sound
  PROVE  GenerationsHeld
<1>1. CASE state # "open"
  BY <1>1 DEF GenerationsHeld, SnapshotsStable, NoStrandedGeneration
<1>2. CASE state = "open"
  <2>1. Types /\ Leased /\ Running /\ Snapshots /\ Cardinality({}) = 0
    BY <1>2, FS_EmptySet DEF Sound, Running
  <2>2. \A g \in Generations :
          IF gens[g].closed THEN gens[g].retired /\ Held(g) = 0
          ELSE /\ gens[g].leases = Held(g) + (IF gens[g].retired THEN 0 ELSE 1)
               /\ gens[g].leases > 0
    BY <2>1 DEF Leased
  <2>3. ASSUME NEW r \in Readers, readers[r].state = "open"
        PROVE  /\ readers[r].commit \in DOMAIN commits
               /\ Reading(readers[r].gen, readers[r].tree) = content[readers[r].commit]
    <3>1. PICK g, tree, page : /\ g = readers[r].gen /\ tree = readers[r].tree
                               /\ page = content[readers[r].commit]
      OBVIOUS
    <3>2. g \in Generations
      BY <2>1, <2>3, <3>1 DEF Leased, Written
    <3>3. r \in ReadersOf(g) /\ IsFiniteSet(ReadersOf(g)) /\ IsFiniteSet(StreamsOf(g))
      BY <2>3, <3>1, HeldIs DEF ReadersOf
    <3>4. Cardinality(ReadersOf(g)) \in Nat /\ Cardinality(StreamsOf(g)) \in Nat
      BY <3>3, FS_CardinalityType
    <3>5. Cardinality(ReadersOf(g)) # 0
      BY <3>3, FS_EmptySet
    <3>6. Held(g) # 0
      BY <3>4, <3>5 DEF Held
    <3>7. ~gens[g].closed
      BY <2>2, <3>2, <3>6
    <3>8. /\ readers[r].commit \in DOMAIN commits
          /\ TreeSound(gens[g].file, Len(gens[g].file), tree, page)
          /\ \A i \in DOMAIN gens[g].file : gens[g].file[i].type # "torn"
      BY <2>1, <2>3, <3>1 DEF Snapshots
    <3>9. Reading(g, tree) = page
      BY <3>2, <3>7, <3>8, SoundReads
    <3> QED BY <3>1, <3>8, <3>9
  <2>4. SnapshotsStable
    BY <2>3 DEF SnapshotsStable
  <2>5. ASSUME NEW g \in Generations, gens[g].retired, ~gens[g].closed
        PROVE  \/ \E r \in Readers : readers[r].state = "open" /\ readers[r].gen = g
               \/ \E t \in Streams : streams[t].state = "replaying" /\ streams[t].gen = g
    <3>1. Held(g) \in Nat
      BY HeldIs
    <3>2. Held(g) # 0
      BY <2>2, <2>5, <3>1
    <3>3. ReadersOf(g) # {} \/ StreamsOf(g) # {}
      <4> SUFFICES ASSUME ReadersOf(g) = {}, StreamsOf(g) = {} PROVE Held(g) = 0
        BY <3>2
      <4>1. Held(g) = Cardinality(ReadersOf(g)) + Cardinality(StreamsOf(g))
        BY DEF Held
      <4>2. Held(g) = 0 + 0
        BY <2>1, <4>1
      <4> QED BY <4>2
    <3> QED BY <3>3 DEF ReadersOf, StreamsOf
  <2>6. NoStrandedGeneration
    BY <2>5 DEF NoStrandedGeneration
  <2> QED BY <2>4, <2>6 DEF GenerationsHeld
<1> QED BY <1>1, <1>2

-----------------------------------------------------------------------------
(* The theorems. *)

Safe == writeFaults \in Nat /\ FileInv

\* Crashes, failed syncs and collections leave every file and what memory says of it sound.
THEOREM FilesStaySound ==
  ASSUME Garbling = FALSE
  PROVE  Spec => []Safe
<1>1. Init => Safe
  <2>1. Init => writeFaults = 0
    BY DEF Init
  <2> QED BY <2>1, InitSound DEF Safe, FileInv
<1>2. Safe /\ [Next]_vars => Safe'
  <2> SUFFICES ASSUME writeFaults \in Nat, writeFaults = 0 => Sound, [Next]_vars
               PROVE  writeFaults' \in Nat /\ (writeFaults' = 0 => Sound')
    BY DEF Safe, FileInv
  <2>1. writeFaults' = writeFaults \/ (AppendFails /\ writeFaults' = writeFaults + 1)
    BY FaultsCounted
  <2>2. writeFaults' \in Nat
    BY <2>1
  <2>3. ASSUME writeFaults' = 0 PROVE Sound'
    <3>1. writeFaults = 0 /\ writeFaults' = writeFaults
      BY <2>1, <2>3
    <3>2. ~AppendFails
      <4>1. AppendFails => writeFaults' = writeFaults + 1
        BY DEF AppendFails
      <4> QED BY <3>1, <4>1
    <3> QED BY <3>1, <3>2, NextSound
  <2> QED BY <2>2, <2>3
<1> QED BY <1>1, <1>2, PTL DEF Spec

\* Whatever crashes, failed syncs and collections come in between, as long as no append
\* fails part way: the file opens again, every commit the engine knows reads what it was
\* written with, and above a branch's floor no sequence is missing (recover, load,
\* retainedCommitIds).
THEOREM HistoryStaysWhole ==
  ASSUME Garbling = FALSE
  PROVE  Spec => [](writeFaults = 0 => HistoryWhole)
<1>1. Safe => (writeFaults = 0 => HistoryWhole)
  BY SoundHistory DEF Safe, FileInv
<1> QED BY <1>1, FilesStaySound, PTL

\* Under the same condition a file is open as long as a snapshot reads it, whose commit
\* and rows are there, and no longer than it is read (releaseGeneration, #snapshotPins).
THEOREM GenerationsStayHeld ==
  ASSUME Garbling = FALSE
  PROVE  Spec => [](writeFaults = 0 => GenerationsHeld)
<1>1. Safe => (writeFaults = 0 => GenerationsHeld)
  BY SoundGenerations DEF Safe, FileInv
<1> QED BY <1>1, FilesStaySound, PTL
=============================================================================

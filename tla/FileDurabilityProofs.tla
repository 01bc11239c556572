------------------------- MODULE FileDurabilityProofs -------------------------
(***************************************************************************)
(* What the file engine has answered holds, through crashes, recovery and  *)
(* collections, as long as no sync and no append fails: acknowledged       *)
(* commits are there unless their history was collected, and so are        *)
(* acknowledged retentions.  It goes on from FileStorageProofs.            *)
(*                                                                         *)
(* What is inductive, beside what FileStorageProofs has, is how exact      *)
(* memory and the checkpoint are: they know what the refs of the log lead  *)
(* to, no less and no more.  So what a caller was answered needs to be     *)
(* said of the synced records of a file only; whatever a crash cuts off,   *)
(* recovery finds or a collection copies follows from them.                *)
(*                                                                         *)
(* Its second theorem is about streams: they yield every sequence of their *)
(* branch, in order.  What is inductive there is that the refs of a branch *)
(* rise in every file, and that a stream expects no more than its file,    *)
(* its queue and the known commits have: see Streaming.                    *)
(***************************************************************************)
EXTENDS FileStorageProofs

-----------------------------------------------------------------------------
(* What a log holds. *)

\* A ref up to n leads to this commit.
Named(f, n, c) == \E i \in 1..n : f[i].type = "ref" /\ f[i].head = c

\* A branch's first ref creates it, the others lead to a commit of their own place.
RefsLead(f, n) ==
  \A i \in 1..n : f[i].type = "ref" =>
    /\ f[i].sequence = 0 => f[i].operation = "create"
    /\ \A j \in 1..n : f[j].type = "commit" /\ f[j].id = f[i].head /\ f[i].sequence > 0 =>
         f[j].branch = f[i].branch /\ f[j].sequence = f[i].sequence

\* A branch is created from one commit.
OneBase(f, n) ==
  \A i, k \in 1..n :
    /\ f[i].type = "ref" /\ f[i].operation = "create"
    /\ f[k].type = "ref" /\ f[k].operation = "create" /\ f[k].branch = f[i].branch
    => f[k].head = f[i].head

\* What metadata retains is there before it.
NamesThere(f, n) ==
  \A m \in 1..n : f[m].type = "meta" =>
    \A name \in Names : f[m].retains[name] # NONE => Named(f, m, f[m].retains[name])

LogSound(f, n) == RefsLead(f, n) /\ OneBase(f, n) /\ NamesThere(f, n)

\* What is known is what the refs up to n say, no less ...
RefsHeld(f, n, known, heads) ==
  \A i \in 1..n : f[i].type = "ref" =>
    /\ heads[f[i].branch].head # NONE /\ f[i].sequence <= heads[f[i].branch].sequence
    /\ f[i].head \in DOMAIN known
    /\ f[i].operation = "create" => heads[f[i].branch].base = f[i].head

\* ... and no more.
Exact(f, n, known, heads) ==
  /\ RefsHeld(f, n, known, heads)
  /\ \A c \in DOMAIN known : Named(f, n, c)
  /\ \A b \in Branches : heads[b].sequence > 0 =>
       /\ f[known[heads[b].head]].branch = b
       /\ f[known[heads[b].head]].sequence = heads[b].sequence

\* The last metadata up to n has these names.
LastMeta(f, n, names) ==
  \E m \in 1..n : /\ f[m].type = "meta" /\ f[m].retains = names
                  /\ \A k \in (m + 1)..n : f[k].type # "meta"

\* These commits are published in the first s records of a file that ends at n, except
\* those at or below the floor, and no other has the place of one of them.
CommitsKept(f, n, s, low, answered) ==
  \A a \in answered :
    /\ \E i \in 1..s : f[i].type = "ref" /\ f[i].branch = a.branch /\ f[i].sequence >= a.sequence
    /\ a.sequence > low[a.branch] => Named(f, s, a.id)
    /\ \A j \in 1..n : /\ f[j].type = "commit" /\ Named(f, n, f[j].id)
                       /\ f[j].branch = a.branch /\ f[j].sequence = a.sequence
                       => f[j].id = a.id

\* These names are in the metadata of the first s records, and in all since.
NamesKept(f, n, s, names) ==
  \A name \in Names : names[name] # NONE =>
    \E m \in 1..s : /\ f[m].type = "meta"
                    /\ \A k \in m..n : f[k].type = "meta" => f[k].retains[name] = names[name]

-----------------------------------------------------------------------------
(* The invariant. *)

Answers ==
  /\ \A a \in acked : a.id \in DOMAIN content /\ a.branch \in Branches
                      /\ a.sequence \in Nat /\ a.sequence > 0
  /\ promised \in [Names -> Ids \union {NONE}]

\* A file that ends at n holds what was answered.
Holding(f, n, s, low) ==
  LogSound(f, n) /\ CommitsKept(f, n, s, low, acked) /\ NamesKept(f, n, s, promised)

LogsSound ==
  \A g \in path :
    Holding(gens[g].file, Length(gens[g].file), gens[g].synced, LowOf(gens[g].file))

CheckpointExact ==
  checkpoint.gen \in path =>
    LET f == gens[checkpoint.gen].file IN
    /\ Exact(f, checkpoint.offset, checkpoint.commits, checkpoint.branches)
    /\ LastMeta(f, checkpoint.offset, checkpoint.retains)

\* Where the records begin that memory does not know yet.
Settled == IF job.kind \in {"commit", "create"} THEN job.from ELSE Len(File)

MemoryExact ==
  Running =>
    /\ state = "opening" => job.kind = "open"
    /\ (state = "opening" => job.id = NONE) => Exact(File, Settled, commits, branches)
    /\ LastMeta(File, Len(File), retains)
    /\ job.kind # "install" => path = {current}
    /\ job.kind \in {"idle", "collect", "install"} => gens[current].synced = Len(File)

\* The first commit is the only one that refs lead to.
OpenExact ==
  job.kind = "open" /\ job.id # NONE =>
    /\ \A i \in 1..Len(File) : File[i].type = "ref" => File[i].head = job.id
    /\ \E i \in 1..Len(File) : File[i].type = "ref"

\* What was appended since is this job's ref.
AppendExact ==
  job.kind \in {"commit", "create"} =>
    /\ job.from \in 0..Len(File) /\ gens[current].synced <= job.from
    /\ \A i \in (job.from + 1)..Len(File) :
         /\ File[i].type # "meta"
         /\ File[i].type = "ref" =>
              /\ File[i].operation = job.kind /\ File[i].branch = job.branch
              /\ File[i].head = job.id
              /\ File[i].sequence = IF job.kind = "commit" THEN job.sequence ELSE 0
    /\ \E i \in (job.from + 1)..Len(File) : File[i].type = "ref"

RetainExact ==
  job.kind = "retain" => job.name \in Names /\ retains[job.name] = job.id

CopyExact ==
  job.kind = "collect" =>
    /\ Holding(job.file, Len(job.file), Len(job.file), job.floors)
    /\ Exact(job.file, Len(job.file), Places(job.file, job.retained), branches)
    /\ LastMeta(job.file, Len(job.file), retains)

JobExact == OpenExact /\ AppendExact /\ RetainExact /\ CopyExact

Durable == Answers /\ LogsSound /\ CheckpointExact /\ MemoryExact /\ JobExact

DurableInv == syncFaults = 0 /\ writeFaults = 0 => Durable

-----------------------------------------------------------------------------
(* Files cut short and made longer. *)

\* Refs that agree name the same commits.
LEMMA NamedAgrees ==
  ASSUME NEW m \in Nat, NEW k \in Nat, m <= k, NEW f, NEW g, \A i \in 1..m : g[i] = f[i],
         NEW c, Named(f, m, c)
  PROVE  Named(g, k, c)
<1>1. PICK i \in 1..m : f[i].type = "ref" /\ f[i].head = c
  BY DEF Named
<1>2. i \in 1..k /\ g[i] = f[i]
  BY <1>1
<1> QED BY <1>1, <1>2 DEF Named

\* The first records of a sound log are one.
LEMMA LogAgrees ==
  ASSUME NEW n \in Nat, NEW m \in 0..n, NEW f, NEW g, \A i \in 1..m : g[i] = f[i],
         LogSound(f, n)
  PROVE  LogSound(g, m)
<1>0. \A i \in 1..m : i \in 1..n /\ g[i] = f[i]
  OBVIOUS
<1>1. RefsLead(g, m)
  <2>1. RefsLead(f, n)
    BY DEF LogSound
  <2> QED BY <1>0, <2>1 DEF RefsLead
<1>2. OneBase(g, m)
  <2>1. OneBase(f, n)
    BY DEF LogSound
  <2> QED BY <1>0, <2>1 DEF OneBase
<1>3. NamesThere(g, m)
  <2> SUFFICES ASSUME NEW k \in 1..m, g[k].type = "meta", NEW name \in Names,
                      g[k].retains[name] # NONE
               PROVE  Named(g, k, g[k].retains[name])
    BY DEF NamesThere
  <2>1. NamesThere(f, n)
    BY DEF LogSound
  <2>2. Named(f, k, f[k].retains[name])
    BY <1>0, <2>1 DEF NamesThere
  <2>3. k \in Nat /\ k <= k /\ (\A i \in 1..k : g[i] = f[i]) /\ g[k] = f[k]
    BY <1>0
  <2> QED BY <2>2, <2>3, NamedAgrees
<1> QED BY <1>1, <1>2, <1>3 DEF LogSound

\* What was answered is synced: it is in what a crash leaves.
LEMMA KeptAgrees ==
  ASSUME NEW n \in Nat, NEW m \in 0..n, NEW f, NEW g, \A i \in 1..m : g[i] = f[i],
         NEW s \in 0..m, NEW t \in Nat, s <= t, NEW low, NEW answered, NEW names,
         CommitsKept(f, n, s, low, answered), NamesKept(f, n, s, names)
  PROVE  CommitsKept(g, m, t, low, answered) /\ NamesKept(g, m, t, names)
<1>0. \A i \in 1..m : i \in 1..n /\ g[i] = f[i]
  OBVIOUS
<1>1. ASSUME NEW a \in answered
      PROVE  /\ \E i \in 1..t : /\ g[i].type = "ref" /\ g[i].branch = a.branch
                                /\ g[i].sequence >= a.sequence
             /\ a.sequence > low[a.branch] => Named(g, t, a.id)
             /\ \A j \in 1..m : /\ g[j].type = "commit" /\ Named(g, m, g[j].id)
                                /\ g[j].branch = a.branch /\ g[j].sequence = a.sequence
                                => g[j].id = a.id
  <2>1. PICK i \in 1..s : /\ f[i].type = "ref" /\ f[i].branch = a.branch
                          /\ f[i].sequence >= a.sequence
    BY DEF CommitsKept
  <2>2. i \in 1..t /\ g[i] = f[i]
    BY <2>1
  <2>3. a.sequence > low[a.branch] => Named(f, s, a.id)
    BY DEF CommitsKept
  <2>4. s \in Nat /\ (\A k \in 1..s : g[k] = f[k])
    BY <1>0
  <2>5. Named(f, s, a.id) => Named(g, t, a.id)
    BY <2>4, NamedAgrees
  <2>6. ASSUME NEW j \in 1..m, g[j].type = "commit", Named(g, m, g[j].id),
               g[j].branch = a.branch, g[j].sequence = a.sequence
        PROVE  g[j].id = a.id
    <3>1. \A k \in 1..m : f[k] = g[k]
      BY <1>0
    <3>2. m \in Nat /\ m <= n
      OBVIOUS
    <3>3. Named(f, n, g[j].id)
      BY <2>6, <3>1, <3>2, NamedAgrees
    <3> QED BY <1>0, <2>6, <3>3 DEF CommitsKept
  <2> QED BY <2>1, <2>2, <2>3, <2>5, <2>6
<1>2. ASSUME NEW name \in Names, names[name] # NONE
      PROVE  \E k \in 1..t : /\ g[k].type = "meta"
                             /\ \A l \in k..m : g[l].type = "meta" => g[l].retains[name] = names[name]
  <2>1. PICK k \in 1..s : /\ f[k].type = "meta"
                          /\ \A l \in k..n : f[l].type = "meta" => f[l].retains[name] = names[name]
    BY <1>2 DEF NamesKept
  <2>2. k \in 1..t /\ g[k] = f[k] /\ \A l \in k..m : l \in k..n /\ g[l] = f[l]
    BY <2>1
  <2> QED BY <2>1, <2>2
<1> QED BY <1>1, <1>2 DEF CommitsKept, NamesKept

\* What may follow the first n records: commits of which there was no word, a ref that
\* creates a branch or publishes such a commit, metadata about what is there.
Follows(f, n, g, m) ==
  /\ \A i \in 1..n : g[i] = f[i]
  /\ \A j \in (n + 1)..m : g[j].type = "commit" => ~Named(f, n, g[j].id)
  /\ \A i \in (n + 1)..m : g[i].type = "ref" =>
       \/ /\ g[i].operation = "create" /\ g[i].sequence = 0
          /\ \A k \in 1..n : f[k].type = "ref" => f[k].branch # g[i].branch
       \/ /\ g[i].operation = "commit" /\ g[i].sequence > 0
          /\ \A j \in 1..n : f[j].type = "commit" => f[j].id # g[i].head
          /\ \A j \in (n + 1)..m : g[j].type = "commit" /\ g[j].id = g[i].head =>
               g[j].branch = g[i].branch /\ g[j].sequence = g[i].sequence
  /\ \A i, k \in (n + 1)..m : g[i].type = "ref" /\ g[k].type = "ref" => i = k
  /\ \A i \in (n + 1)..m : g[i].type = "meta" =>
       \A name \in Names : g[i].retains[name] # NONE => Named(g, i, g[i].retains[name])

\* A sound log goes on.
LEMMA LogGrows ==
  ASSUME NEW n \in Nat, NEW m \in Nat, n <= m, NEW f, NEW g, Follows(f, n, g, m), LogSound(f, n)
  PROVE  LogSound(g, m)
<1>0. (\A i \in 1..n : g[i] = f[i]) /\ \A i \in 1..m : i \in 1..n \/ i \in (n + 1)..m
  BY DEF Follows
<1>1. RefsLead(g, m)
  <2> SUFFICES ASSUME NEW i \in 1..m, g[i].type = "ref"
               PROVE  /\ g[i].sequence = 0 => g[i].operation = "create"
                      /\ \A j \in 1..m :
                           g[j].type = "commit" /\ g[j].id = g[i].head /\ g[i].sequence > 0 =>
                             g[j].branch = g[i].branch /\ g[j].sequence = g[i].sequence
    BY DEF RefsLead
  <2>1. CASE i \in 1..n
    <3>1. RefsLead(f, n)
      BY DEF LogSound
    <3>2. Named(f, n, g[i].head)
      BY <1>0, <2>1 DEF Named
    <3>3. \A j \in (n + 1)..m : g[j].type = "commit" => g[j].id # g[i].head
      BY <3>2 DEF Follows
    <3> QED BY <1>0, <2>1, <3>1, <3>3 DEF RefsLead
  <2>2. CASE i \in (n + 1)..m
    <3>1. CASE g[i].operation = "create" /\ g[i].sequence = 0
      BY <3>1
    <3>2. CASE /\ g[i].operation = "commit" /\ g[i].sequence > 0
               /\ \A j \in 1..n : f[j].type = "commit" => f[j].id # g[i].head
               /\ \A j \in (n + 1)..m : g[j].type = "commit" /\ g[j].id = g[i].head =>
                    g[j].branch = g[i].branch /\ g[j].sequence = g[i].sequence
      <4>1. g[i].sequence # 0
        BY <3>2
      <4> QED BY <1>0, <3>2, <4>1
    <3> QED BY <2>2, <3>1, <3>2 DEF Follows
  <2> QED BY <1>0, <2>1, <2>2
<1>2. OneBase(g, m)
  <2> SUFFICES ASSUME NEW i \in 1..m, NEW k \in 1..m,
                      g[i].type = "ref", g[i].operation = "create",
                      g[k].type = "ref", g[k].operation = "create", g[k].branch = g[i].branch
               PROVE  g[k].head = g[i].head
    BY DEF OneBase
  <2>1. CASE i \in 1..n /\ k \in 1..n
    BY <1>0, <2>1 DEF LogSound, OneBase
  <2>2. CASE i \in (n + 1)..m /\ k \in (n + 1)..m
    BY <2>2 DEF Follows
  <2>3. \A x \in (n + 1)..m : g[x].type = "ref" /\ g[x].operation = "create" =>
          \A y \in 1..n : f[y].type = "ref" => f[y].branch # g[x].branch
    BY DEF Follows
  <2> QED BY <1>0, <2>1, <2>2, <2>3
<1>3. NamesThere(g, m)
  <2> SUFFICES ASSUME NEW i \in 1..m, g[i].type = "meta", NEW name \in Names,
                      g[i].retains[name] # NONE
               PROVE  Named(g, i, g[i].retains[name])
    BY DEF NamesThere
  <2>1. CASE i \in 1..n
    <3>1. Named(f, i, f[i].retains[name])
      BY <1>0, <2>1 DEF LogSound, NamesThere
    <3>2. i \in Nat /\ i <= i /\ (\A k \in 1..i : g[k] = f[k]) /\ g[i] = f[i]
      BY <1>0, <2>1
    <3> QED BY <3>1, <3>2, NamedAgrees
  <2>2. CASE i \in (n + 1)..m
    BY <2>2 DEF Follows
  <2> QED BY <1>0, <2>1, <2>2
<1> QED BY <1>1, <1>2, <1>3 DEF LogSound

\* What may follow what was answered: refs to commits that were there or came with them,
\* at places nobody was told, and metadata with the names that are promised.
Spares(f, n, g, m, answered, names) ==
  /\ \A i \in 1..n : g[i] = f[i]
  /\ \A i \in (n + 1)..m : g[i].type = "ref" =>
       Named(f, n, g[i].head) \/ \A j \in 1..n : f[j].type = "commit" => f[j].id # g[i].head
  /\ \A j \in (n + 1)..m : g[j].type = "commit" =>
       \A a \in answered : a.branch = g[j].branch => a.sequence # g[j].sequence
  /\ \A i \in (n + 1)..m : g[i].type = "meta" =>
       \A name \in Names : names[name] # NONE => g[i].retains[name] = names[name]

LEMMA KeptGrows ==
  ASSUME NEW n \in Nat, NEW m \in Nat, n <= m, NEW f, NEW g, NEW s \in 0..n,
         NEW low, NEW answered, NEW names, Spares(f, n, g, m, answered, names),
         CommitsKept(f, n, s, low, answered), NamesKept(f, n, s, names)
  PROVE  CommitsKept(g, m, s, low, answered) /\ NamesKept(g, m, s, names)
<1>0. (\A i \in 1..n : g[i] = f[i]) /\ \A i \in 1..m : i \in 1..n \/ i \in (n + 1)..m
  BY DEF Spares
<1>1. ASSUME NEW a \in answered
      PROVE  /\ \E i \in 1..s : /\ g[i].type = "ref" /\ g[i].branch = a.branch
                                /\ g[i].sequence >= a.sequence
             /\ a.sequence > low[a.branch] => Named(g, s, a.id)
             /\ \A j \in 1..m : /\ g[j].type = "commit" /\ Named(g, m, g[j].id)
                                /\ g[j].branch = a.branch /\ g[j].sequence = a.sequence
                                => g[j].id = a.id
  <2>1. PICK i \in 1..s : /\ f[i].type = "ref" /\ f[i].branch = a.branch
                          /\ f[i].sequence >= a.sequence
    BY DEF CommitsKept
  <2>2. g[i] = f[i]
    BY <1>0, <2>1
  <2>3. a.sequence > low[a.branch] => Named(f, s, a.id)
    BY DEF CommitsKept
  <2>4. s \in Nat /\ s <= s /\ (\A k \in 1..s : g[k] = f[k])
    BY <1>0
  <2>5. Named(f, s, a.id) => Named(g, s, a.id)
    BY <2>4, NamedAgrees
  <2>6. ASSUME NEW j \in 1..m, g[j].type = "commit", Named(g, m, g[j].id),
               g[j].branch = a.branch, g[j].sequence = a.sequence
        PROVE  g[j].id = a.id
    <3>1. j \in 1..n
      <4>1. \A k \in (n + 1)..m : g[k].type = "commit" =>
              (a.branch = g[k].branch => a.sequence # g[k].sequence)
        BY DEF Spares
      <4> QED BY <1>0, <2>6, <4>1
    <3>2. g[j] = f[j]
      BY <1>0, <3>1
    <3>3. PICK k \in 1..m : g[k].type = "ref" /\ g[k].head = g[j].id
      BY <2>6 DEF Named
    <3>4. Named(f, n, f[j].id)
      <4>1. CASE k \in 1..n
        BY <1>0, <3>2, <3>3, <4>1 DEF Named
      <4>2. CASE k \in (n + 1)..m
        <5>1. Named(f, n, g[k].head) \/ \A l \in 1..n : f[l].type = "commit" => f[l].id # g[k].head
          BY <3>3, <4>2 DEF Spares
        <5> QED BY <2>6, <3>1, <3>2, <3>3, <5>1
      <4> QED BY <1>0, <4>1, <4>2
    <3> QED BY <2>6, <3>1, <3>2, <3>4 DEF CommitsKept
  <2> QED BY <2>1, <2>2, <2>3, <2>5, <2>6
<1>2. ASSUME NEW name \in Names, names[name] # NONE
      PROVE  \E k \in 1..s : /\ g[k].type = "meta"
                             /\ \A l \in k..m : g[l].type = "meta" => g[l].retains[name] = names[name]
  <2>1. PICK k \in 1..s : /\ f[k].type = "meta"
                          /\ \A l \in k..n : f[l].type = "meta" => f[l].retains[name] = names[name]
    BY <1>2 DEF NamesKept
  <2>2. g[k] = f[k]
    BY <1>0, <2>1
  <2>3. ASSUME NEW l \in k..m, g[l].type = "meta" PROVE g[l].retains[name] = names[name]
    <3>1. CASE l \in 1..n
      <4>1. l \in k..n /\ g[l] = f[l]
        BY <1>0, <3>1
      <4> QED BY <2>1, <2>3, <4>1
    <3>2. CASE l \in (n + 1)..m
      BY <1>2, <2>3, <3>2 DEF Spares
    <3>3. l \in 1..m
      BY <2>1
    <3> QED BY <1>0, <3>1, <3>2, <3>3
  <2> QED BY <2>1, <2>2, <2>3
<1> QED BY <1>1, <1>2 DEF CommitsKept, NamesKept

-----------------------------------------------------------------------------
(* What is known of a file that goes on. *)

\* The head of a branch that has published is known, where it says.
LEMMA HeadIs ==
  ASSUME NEW n, NEW f, NEW known, NEW heads \in Heads, NEW low,
         CommitsSound(f, n, known), HeadsSound(f, known, heads, low),
         NEW b \in Branches, heads[b].sequence > 0
  PROVE  heads[b].head # NONE /\ heads[b].head \in DOMAIN known /\ known[heads[b].head] \in 1..n
<1>1. heads[b].head = NONE => heads[b].sequence = 0
  BY DEF Heads, NoBranch
<1>2. heads[b].head # NONE
  BY <1>1
<1>3. heads[b].head \in DOMAIN known
  BY <1>2 DEF HeadsSound
<1> QED BY <1>2, <1>3 DEF CommitsSound

\* Without a ref there is nothing new to know.
LEMMA ExactGrows ==
  ASSUME NEW n \in Nat, NEW m \in Nat, n <= m, NEW f, NEW g, \A i \in 1..n : g[i] = f[i],
         \A i \in (n + 1)..m : g[i].type # "ref",
         NEW known, NEW heads \in Heads, NEW low,
         CommitsSound(f, n, known), HeadsSound(f, known, heads, low), Exact(f, n, known, heads)
  PROVE  Exact(g, m, known, heads)
<1>1. RefsHeld(g, m, known, heads)
  <2>1. RefsHeld(f, n, known, heads)
    BY DEF Exact
  <2>2. \A i \in 1..m : g[i].type = "ref" => i \in 1..n /\ g[i] = f[i]
    OBVIOUS
  <2> QED BY <2>1, <2>2 DEF RefsHeld
<1>2. \A c \in DOMAIN known : Named(g, m, c)
  BY NamedAgrees DEF Exact
<1>3. ASSUME NEW b \in Branches, heads[b].sequence > 0
      PROVE  /\ g[known[heads[b].head]].branch = b
             /\ g[known[heads[b].head]].sequence = heads[b].sequence
  <2>1. known[heads[b].head] \in 1..n
    BY <1>3, HeadIs
  <2> QED BY <1>3, <2>1 DEF Exact
<1> QED BY <1>1, <1>2, <1>3 DEF Exact

RefsTyped(f, n) ==
  \A i \in 1..n : f[i].type = "ref" => f[i].branch \in Branches /\ f[i].sequence \in Nat

\* Behind n are refs to one commit of this place and no others.
RefsOfOne(f, n, m, op, b, id, q) ==
  /\ \A i \in (n + 1)..m : f[i].type = "ref" =>
       f[i].operation = op /\ f[i].branch = b /\ f[i].head = id /\ f[i].sequence = q
  /\ \E i \in (n + 1)..m : f[i].type = "ref"

\* One branch moves.
HeadMoves(heads, b, id, q, base, next) ==
  /\ \A x \in Branches : x # b => next[x] = heads[x]
  /\ next[b].head = id /\ next[b].sequence = q /\ next[b].base = base

\* A commit is answered: its branch ends there.
LEMMA ExactCommits ==
  ASSUME NEW n \in Nat, NEW m \in Nat, n <= m, NEW f,
         NEW known, NEW heads \in Heads, NEW low,
         CommitsSound(f, m, known), HeadsSound(f, known, heads, low), Exact(f, n, known, heads),
         NEW b \in Branches, heads[b].head # NONE, NEW id \in Ids, id \notin DOMAIN known,
         RefsOfOne(f, n, m, "commit", b, id, heads[b].sequence + 1),
         NEW at \in 1..m, f[at].branch = b, f[at].sequence = heads[b].sequence + 1,
         RefsTyped(f, m), NEW next \in Heads,
         HeadMoves(heads, b, id, heads[b].sequence + 1, heads[b].base, next),
         NEW more, more = With(known, id, at)
  PROVE  Exact(f, m, more, next)
<1> USE DEF RefsOfOne, HeadMoves, RefsTyped
<1>1. /\ DOMAIN more = DOMAIN known \union {id} /\ more[id] = at
      /\ \A c \in DOMAIN known : more[c] = known[c]
  <2>1. /\ DOMAIN With(known, id, at) = DOMAIN known \union {id}
        /\ With(known, id, at)[id] = at
        /\ \A c \in DOMAIN known : c # id => With(known, id, at)[c] = known[c]
    BY DEF With
  <2> QED BY <2>1
<1>2. id # NONE /\ heads[b].sequence \in Nat
  BY DEF Ids, NONE, Heads, Branch
<1>3. \A i \in 1..m : i \in 1..n \/ i \in (n + 1)..m
  OBVIOUS
<1>4. RefsHeld(f, m, more, next)
  <2> SUFFICES ASSUME NEW i \in 1..m, f[i].type = "ref"
               PROVE  /\ next[f[i].branch].head # NONE
                      /\ f[i].sequence <= next[f[i].branch].sequence
                      /\ f[i].head \in DOMAIN more
                      /\ f[i].operation = "create" => next[f[i].branch].base = f[i].head
    BY DEF RefsHeld
  <2>1. CASE i \in 1..n
    <3>1. /\ heads[f[i].branch].head # NONE /\ f[i].sequence <= heads[f[i].branch].sequence
          /\ f[i].head \in DOMAIN known
          /\ f[i].operation = "create" => heads[f[i].branch].base = f[i].head
      BY <2>1 DEF Exact, RefsHeld
    <3>2. f[i].branch \in Branches /\ f[i].sequence \in Nat
      OBVIOUS
    <3>3. CASE f[i].branch = b
      BY <1>1, <1>2, <3>1, <3>2, <3>3
    <3>4. CASE f[i].branch # b
      BY <1>1, <3>1, <3>2, <3>4
    <3> QED BY <3>3, <3>4
  <2>2. CASE i \in (n + 1)..m
    <3>1. /\ f[i].operation = "commit" /\ f[i].branch = b /\ f[i].head = id
          /\ f[i].sequence = heads[b].sequence + 1
      BY <2>2
    <3> QED BY <1>1, <1>2, <3>1
  <2> QED BY <1>3, <2>1, <2>2
<1>5. ASSUME NEW c \in DOMAIN more PROVE Named(f, m, c)
  <2>1. CASE c = id
    <3>1. PICK i \in (n + 1)..m : f[i].type = "ref"
      OBVIOUS
    <3>2. f[i].head = id /\ i \in 1..m
      BY <3>1
    <3> QED BY <2>1, <3>1, <3>2 DEF Named
  <2>2. CASE c \in DOMAIN known
    <3>1. Named(f, n, c)
      BY <2>2 DEF Exact
    <3> QED BY <3>1, NamedAgrees
  <2> QED BY <1>1, <2>1, <2>2
<1>6. ASSUME NEW x \in Branches, next[x].sequence > 0
      PROVE  /\ f[more[next[x].head]].branch = x
             /\ f[more[next[x].head]].sequence = next[x].sequence
  <2>1. CASE x = b
    BY <1>1, <2>1
  <2>2. CASE x # b
    <3>1. next[x] = heads[x]
      BY <2>2
    <3>2. heads[x].head \in DOMAIN known
      BY <1>6, <3>1, HeadIs
    <3>3. more[heads[x].head] = known[heads[x].head]
      BY <1>1, <3>2
    <3>4. /\ f[known[heads[x].head]].branch = x
          /\ f[known[heads[x].head]].sequence = heads[x].sequence
      BY <1>6, <3>1 DEF Exact
    <3> QED BY <3>1, <3>3, <3>4
  <2> QED BY <2>1, <2>2
<1> QED BY <1>4, <1>5, <1>6 DEF Exact

\* A new branch is answered.
LEMMA ExactCreates ==
  ASSUME NEW n \in Nat, NEW m \in Nat, n <= m, NEW f,
         NEW known, NEW heads \in Heads, Exact(f, n, known, heads),
         NEW b \in Branches, heads[b] = NoBranch, NEW id \in Ids, id \in DOMAIN known,
         RefsOfOne(f, n, m, "create", b, id, 0), RefsTyped(f, m),
         NEW next, HeadMoves(heads, b, id, 0, id, next)
  PROVE  Exact(f, m, known, next)
<1> USE DEF RefsOfOne, HeadMoves, RefsTyped
<1>1. \A i \in 1..m : i \in 1..n \/ i \in (n + 1)..m
  OBVIOUS
<1>2. id # NONE
  BY DEF Ids, NONE
<1>3. RefsHeld(f, m, known, next)
  <2> SUFFICES ASSUME NEW i \in 1..m, f[i].type = "ref"
               PROVE  /\ next[f[i].branch].head # NONE
                      /\ f[i].sequence <= next[f[i].branch].sequence
                      /\ f[i].head \in DOMAIN known
                      /\ f[i].operation = "create" => next[f[i].branch].base = f[i].head
    BY DEF RefsHeld
  <2>1. CASE i \in 1..n
    <3>1. /\ heads[f[i].branch].head # NONE /\ f[i].sequence <= heads[f[i].branch].sequence
          /\ f[i].head \in DOMAIN known
          /\ f[i].operation = "create" => heads[f[i].branch].base = f[i].head
      BY <2>1 DEF Exact, RefsHeld
    <3>2. f[i].branch # b
      BY <3>1 DEF NoBranch
    <3>3. next[f[i].branch] = heads[f[i].branch]
      BY <3>2
    <3> QED BY <3>1, <3>3
  <2>2. CASE i \in (n + 1)..m
    <3>1. f[i].branch = b /\ f[i].head = id /\ f[i].sequence = 0
      BY <2>2
    <3> QED BY <1>2, <3>1
  <2> QED BY <1>1, <2>1, <2>2
<1>4. \A c \in DOMAIN known : Named(f, m, c)
  BY NamedAgrees DEF Exact
<1>5. ASSUME NEW x \in Branches, next[x].sequence > 0
      PROVE  /\ f[known[next[x].head]].branch = x
             /\ f[known[next[x].head]].sequence = next[x].sequence
  <2>1. x # b
    BY <1>5
  <2>2. next[x] = heads[x]
    BY <2>1
  <2> QED BY <1>5, <2>2 DEF Exact
<1> QED BY <1>3, <1>4, <1>5 DEF Exact

\* The last metadata stays the last, or is replaced.
LEMMA MetaStays ==
  ASSUME NEW n \in Nat, NEW m \in Nat, n <= m, NEW f, NEW g, \A i \in 1..n : g[i] = f[i],
         \A i \in (n + 1)..m : g[i].type # "meta", NEW names, LastMeta(f, n, names)
  PROVE  LastMeta(g, m, names)
<1>1. PICK k \in 1..n : /\ f[k].type = "meta" /\ f[k].retains = names
                        /\ \A l \in (k + 1)..n : f[l].type # "meta"
  BY DEF LastMeta
<1>2. k \in 1..m /\ g[k] = f[k]
  BY <1>1
<1>3. \A l \in (k + 1)..m : g[l].type # "meta"
  BY <1>1
<1> QED BY <1>1, <1>2, <1>3 DEF LastMeta

LEMMA MetaNew ==
  ASSUME NEW m \in Nat, m > 0, NEW f, f[m].type = "meta"
  PROVE  LastMeta(f, m, f[m].retains)
<1>1. m \in 1..m /\ \A l \in (m + 1)..m : f[l].type # "meta"
  OBVIOUS
<1> QED BY <1>1 DEF LastMeta

\* There is only one last metadata, so what is promised is in it.
LEMMA PromisesMet ==
  ASSUME NEW n \in Nat, NEW f, NEW s \in 0..n, NEW names, NEW promises,
         LastMeta(f, n, names), NamesKept(f, n, s, promises), NamesThere(f, n),
         NEW name \in Names, promises[name] # NONE
  PROVE  names[name] = promises[name] /\ Named(f, n, promises[name])
<1>1. PICK k \in 1..n : /\ f[k].type = "meta" /\ f[k].retains = names
                        /\ \A l \in (k + 1)..n : f[l].type # "meta"
  BY DEF LastMeta
<1>2. PICK m \in 1..s : /\ f[m].type = "meta"
                        /\ \A l \in m..n : f[l].type = "meta" => f[l].retains[name] = promises[name]
  BY DEF NamesKept
<1>3. ~(m \in (k + 1)..n) /\ m \in 1..n
  BY <1>1, <1>2
<1>4. k \in m..n
  BY <1>3
<1>5. names[name] = promises[name]
  BY <1>1, <1>2, <1>4
<1>6. Named(f, k, f[k].retains[name])
  BY <1>1, <1>5 DEF NamesThere
<1>7. k \in Nat /\ k <= n /\ \A i \in 1..k : f[i] = f[i]
  BY <1>1
<1>8. Named(f, n, f[k].retains[name])
  BY <1>6, <1>7, NamedAgrees
<1> QED BY <1>1, <1>5, <1>8

-----------------------------------------------------------------------------
(* What load() finds. *)

\* A branch is created where its creating ref says, before these refs or by one of them.
LEMMA BaseAfter ==
  ASSUME NEW f \in Seq(Record), NEW refs \in SUBSET DOMAIN f, NEW known, NEW base \in Ids,
         \A i \in refs : f[i].operation = "create" => f[i].head = base,
         known.base = base \/ \E i \in refs : f[i].operation = "create"
  PROVE  BranchAfter(f, refs, known).base = base
<1> DEFINE creates == {i \in refs : f[i].operation = "create"}
<1>1. base # NONE
  BY DEF Ids, NONE
<1>2. CASE refs = {}
  BY <1>2 DEF BranchAfter
<1>3. CASE refs # {}
  <2>1. BranchAfter(f, refs, known).base =
          IF creates # {} THEN f[Max(creates)].head
          ELSE IF known.base # NONE THEN known.base ELSE f[Min(refs)].head
    BY <1>3 DEF BranchAfter
  <2>2. CASE creates = {}
    BY <1>1, <2>1, <2>2
  <2>3. CASE creates # {}
    <3>1. Len(f) \in Nat /\ creates \in SUBSET (0..Len(f))
      BY FileTyped
    <3>2. Max(creates) \in creates
      <4> HIDE DEF creates
      <4> QED BY <2>3, <3>1, LargestBelow
    <3> QED BY <2>1, <2>3, <3>2
  <2> QED BY <2>2, <2>3
<1> QED BY <1>2, <1>3

\* No commit of a sound file has two records.
LEMMA OneRecord ==
  ASSUME NEW f, NEW n \in Nat, NEW s, NEW pages, NEW low, FileSound(f, n, s, pages, low),
         NEW i \in 1..n, NEW j \in 1..n,
         f[i].type = "commit", f[j].type = "commit", f[i].id = f[j].id
  PROVE  i = j
<1>1. ASSUME NEW k \in 1..n, NEW l \in 1..n, k < l, f[k].type = "commit", f[l].type = "commit",
             f[k].id = f[l].id
      PROVE  FALSE
  <2>1. k \in 1..(l - 1)
    BY <1>1
  <2>2. RecordSound(f, l, pages, low)
    BY FileSoundIs
  <2> QED BY <1>1, <2>1, <2>2 DEF RecordSound
<1> QED BY <1>1

\* The sequences of a branch's refs rise.
LEMMA RefsRise ==
  ASSUME NEW f, NEW n \in Nat, NEW s, NEW pages, NEW low, FileSound(f, n, s, pages, low),
         NEW i \in 1..n, NEW j \in 1..n, i <= j, f[i].type = "ref", f[j].type = "ref",
         f[i].branch = f[j].branch, f[j].sequence \in Nat
  PROVE  f[i].sequence <= f[j].sequence
<1>1. CASE i = j
  BY <1>1
<1>2. CASE i # j
  <2>1. i \in 1..(j - 1)
    BY <1>2
  <2>2. RecordSound(f, j, pages, low)
    BY FileSoundIs
  <2> QED BY <2>1, <2>2 DEF RecordSound
<1> QED BY <1>1, <1>2

\* What load() finds behind what was exact is exact.
LEMMA LoadedExact ==
  ASSUME NEW f \in Seq(Record), NEW n \in Nat, Len(f) = n, NEW s \in 0..n, NEW pages,
         FileSound(f, n, s, pages, LowOf(f)), NEW start \in 0..n, NEW first,
         Basis(f, n, s, start, first.commits, first.branches, LowOf(f)),
         NEW known, NEW heads, NEW mc, NEW mb,
         known = first.commits, heads = first.branches,
         mc = Load(f, start, first).commits, mb = Load(f, start, first).branches,
         LogSound(f, n), Exact(f, start, known, heads)
  PROVE  Exact(f, n, mc, mb)
<1> DEFINE records == ReadBehind(f, start, "commit")
           refs == ReadBehind(f, start, "ref")
           published == DOMAIN known \union {f[i].head : i \in refs}
           RecordsOf(c) == {i \in records : f[i].id = c}
           D == (DOMAIN known \union {f[i].id : i \in records}) \intersect published
           RefsOf(b) == {i \in refs : f[i].branch = b}
           low == LowOf(f)
<1>1. mc = [c \in D |-> IF RecordsOf(c) = {} THEN known[c] ELSE Max(RecordsOf(c))]
  BY Zenon DEF Load
<1>2. mb = [b \in Branches |-> BranchAfter(f, RefsOf(b), heads[b])]
  BY Zenon DEF Load
<1>3. /\ records = {i \in (start + 1)..n : f[i].type = "commit"}
      /\ refs = {i \in (start + 1)..n : f[i].type = "ref"}
  BY DEF ReadBehind
<1> HIDE DEF records, refs
<1>4. DOMAIN f = 1..n /\ (\A i \in 1..n : f[i] \in Record) /\ low \in [Branches -> Nat]
  BY FileTyped, LowTyped
<1>5. /\ heads \in Heads /\ CommitsSound(f, start, known) /\ HeadsSound(f, known, heads, low)
      /\ \A i \in (start + 1)..n : RefSound(f, i, s, start, known, heads, low)
  BY DEF Basis
<1> HIDE DEF low
<1>6. /\ FileSound(f, n, s, pages, LowOf(f))
      /\ Basis(f, n, s, start, first.commits, first.branches, LowOf(f))
      /\ known = first.commits /\ heads = first.branches
      /\ mc = Load(f, start, first).commits /\ mb = Load(f, start, first).branches
  OBVIOUS
<1>7. mb \in Heads
  BY <1>6, Loaded
<1>8. CommitsSound(f, n, mc)
  BY <1>6, Loaded
<1>9. HeadsSound(f, mc, mb, LowOf(f))
  BY <1>6, Loaded
<1>10. \A b \in Branches : heads[b].sequence <= mb[b].sequence
  BY <1>6, Loaded
<1>11. \A b \in Branches : heads[b].head # NONE => mb[b].head # NONE
  BY <1>6, Loaded
<1>12. \A i \in (start + 1)..n : f[i].type = "ref" => mb[f[i].branch].head # NONE
  BY <1>6, Loaded
<1>13. DOMAIN mc = D
  BY <1>1
<1>14. DOMAIN known \subseteq D
  OBVIOUS
\* A commit known before is where it was.
<1>15. ASSUME NEW c \in DOMAIN known
       PROVE  c \in DOMAIN mc /\ mc[c] = known[c]
  <2>1. c \in DOMAIN mc
    BY <1>13, <1>14
  <2>2. mc[c] \in 1..n /\ f[mc[c]].type = "commit" /\ f[mc[c]].id = c
    BY <1>8, <2>1 DEF CommitsSound
  <2>3. known[c] \in 1..n /\ f[known[c]].type = "commit" /\ f[known[c]].id = c
    BY <1>5 DEF CommitsSound
  <2>4. mc[c] = known[c]
    BY <2>2, <2>3, <1>6, OneRecord
  <2> QED BY <2>1, <2>4
<1>16. ASSUME NEW i \in (start + 1)..n, f[i].type = "ref"
       PROVE  /\ i \in 1..n /\ i \in refs /\ f[i].branch \in Branches /\ f[i].head \in Ids
              /\ f[i].sequence \in Nat /\ f[i].head \in D
  <2>1. i \in refs /\ i \in 1..n
    BY <1>3, <1>16
  <2>2. f[i].branch \in Branches /\ f[i].head \in Ids /\ f[i].sequence \in Nat
    BY <1>4, <1>16, <2>1, RecordKinds
  <2>3. RefSound(f, i, s, start, known, heads, low)
    BY <1>5
  <2>4. CASE f[i].head \in DOMAIN known
    BY <2>1, <2>2, <2>4
  <2>5. CASE f[i].head \notin DOMAIN known
    <3>1. PICK j \in (start + 1)..(i - 1) : f[j].type = "commit" /\ f[j].id = f[i].head
      BY <1>16, <2>3, <2>5 DEF RefSound
    <3>2. j \in records
      BY <1>3, <2>1, <3>1
    <3>3. f[i].head \in D
      BY <2>1, <3>1, <3>2
    <3> QED BY <2>1, <2>2, <3>3
  <2> QED BY <2>4, <2>5
<1>17. ASSUME NEW b \in Branches
       PROVE  /\ RefsOf(b) = {} => mb[b] = heads[b]
              /\ RefsOf(b) # {} =>
                   \E i \in RefsOf(b) : /\ mb[b].head = f[i].head /\ mb[b].sequence = f[i].sequence
                                        /\ \A j \in RefsOf(b) : j <= i
  <2>1. mb[b] = BranchAfter(f, RefsOf(b), heads[b])
    BY <1>2
  <2>2. RefsOf(b) \in SUBSET DOMAIN f /\ \A i \in RefsOf(b) : f[i].type = "ref"
    BY <1>3, <1>4
  <2>3. heads[b] \in Branch /\ (heads[b].head = NONE => heads[b] = NoBranch)
    BY <1>5 DEF Heads
  <2> HIDE DEF RefsOf
  <2> QED BY <2>1, <2>2, <2>3, BranchAfterIs
<1>18. \A i \in 1..n : i \in 1..start \/ i \in (start + 1)..n
  OBVIOUS
<1>19. RefsLead(f, n) /\ OneBase(f, n) /\ RefsHeld(f, start, known, heads)
  BY DEF LogSound, Exact
\* Refs from before are known as they were, those behind are loaded.
<1>20. ASSUME NEW i \in 1..n, f[i].type = "ref"
       PROVE  /\ f[i].branch \in Branches /\ f[i].head \in Ids /\ f[i].sequence \in Nat
              /\ mb[f[i].branch].head # NONE /\ f[i].head \in DOMAIN mc
              /\ f[i].sequence <= mb[f[i].branch].sequence
  <2>1. f[i].branch \in Branches /\ f[i].head \in Ids /\ f[i].sequence \in Nat
    BY <1>4, <1>20, RecordKinds
  <2>2. heads[f[i].branch].sequence \in Nat /\ mb[f[i].branch].sequence \in Nat
    BY <1>5, <1>7, <2>1 DEF Heads, Branch
  <2>3. CASE i \in 1..start
    <3>1. /\ heads[f[i].branch].head # NONE /\ f[i].sequence <= heads[f[i].branch].sequence
          /\ f[i].head \in DOMAIN known
      BY <1>19, <1>20, <2>3 DEF RefsHeld
    <3>2. heads[f[i].branch].sequence <= mb[f[i].branch].sequence
      BY <1>10, <2>1
    <3> QED BY <1>11, <1>15, <2>1, <2>2, <3>1, <3>2
  <2>4. CASE i \in (start + 1)..n
    <3>1. i \in RefsOf(f[i].branch) /\ f[i].head \in D
      BY <1>16, <1>20, <2>4
    <3>2. PICK j \in RefsOf(f[i].branch) :
            mb[f[i].branch].sequence = f[j].sequence /\ \A k \in RefsOf(f[i].branch) : k <= j
      BY <1>17, <2>1, <3>1
    <3>3. i <= j /\ j \in 1..n /\ f[j].type = "ref" /\ f[j].branch = f[i].branch
      BY <1>3, <3>1, <3>2
    <3>4. f[j].sequence \in Nat
      BY <2>2, <3>2
    <3>5. f[i].sequence <= f[j].sequence
      BY <1>6, <1>20, <3>3, <3>4, RefsRise
    <3> QED BY <1>12, <1>13, <1>20, <2>1, <2>4, <3>1, <3>2, <3>5
  <2> QED BY <1>18, <2>3, <2>4
<1>21. ASSUME NEW i \in 1..n, f[i].type = "ref", f[i].operation = "create"
       PROVE  mb[f[i].branch].base = f[i].head
  <2> DEFINE b == f[i].branch
  <2>1. b \in Branches /\ f[i].head \in Ids
    BY <1>20, <1>21
  <2>2. mb[b] = BranchAfter(f, RefsOf(b), heads[b])
    BY <1>2, <2>1
  <2>3. RefsOf(b) \in SUBSET DOMAIN f
    BY <1>3, <1>4
  <2>4. \A k \in RefsOf(b) : f[k].operation = "create" => f[k].head = f[i].head
    <3>1. \A k \in RefsOf(b) : k \in 1..n /\ f[k].type = "ref" /\ f[k].branch = f[i].branch
      BY <1>3
    <3> QED BY <1>19, <1>21, <3>1 DEF OneBase
  <2>5. heads[b].base = f[i].head \/ \E k \in RefsOf(b) : f[k].operation = "create"
    <3>1. CASE i \in 1..start
      BY <1>19, <1>21, <3>1 DEF RefsHeld
    <3>2. CASE i \in (start + 1)..n
      <4>1. i \in RefsOf(b)
        BY <1>16, <1>21, <3>2
      <4> QED BY <1>21, <4>1
    <3> QED BY <1>18, <3>1, <3>2
  <2> HIDE DEF b, RefsOf
  <2>6. BranchAfter(f, RefsOf(b), heads[b]).base = f[i].head
    BY <2>1, <2>3, <2>4, <2>5, BaseAfter
  <2> QED BY <2>2, <2>6 DEF b
<1>22. RefsHeld(f, n, mc, mb)
  BY <1>20, <1>21 DEF RefsHeld
<1>23. ASSUME NEW c \in D PROVE Named(f, n, c)
  <2>1. CASE c \in DOMAIN known
    <3>1. Named(f, start, c)
      BY <2>1 DEF Exact
    <3>2. start \in Nat /\ start <= n /\ \A i \in 1..start : f[i] = f[i]
      OBVIOUS
    <3> QED BY <3>1, <3>2, NamedAgrees
  <2>2. CASE c \notin DOMAIN known
    <3>1. PICK i \in refs : f[i].head = c
      BY <2>2
    <3>2. i \in 1..n /\ f[i].type = "ref"
      BY <1>3
    <3> QED BY <3>1, <3>2 DEF Named
  <2> QED BY <2>1, <2>2
<1>24. ASSUME NEW b \in Branches, mb[b].sequence > 0
       PROVE  /\ f[mc[mb[b].head]].branch = b
              /\ f[mc[mb[b].head]].sequence = mb[b].sequence
  <2>1. CASE RefsOf(b) = {}
    <3>1. mb[b] = heads[b]
      BY <1>17, <2>1
    <3>2. heads[b].head \in DOMAIN known
      BY <1>5, <1>24, <3>1, HeadIs
    <3>3. mc[heads[b].head] = known[heads[b].head]
      BY <1>15, <3>2
    <3>4. /\ f[known[heads[b].head]].branch = b
          /\ f[known[heads[b].head]].sequence = heads[b].sequence
      <4>1. heads[b].sequence > 0
        BY <1>24, <3>1
      <4> QED BY <4>1 DEF Exact
    <3>5. mb[b].head = heads[b].head /\ mb[b].sequence = heads[b].sequence
      BY <3>1
    <3> QED BY <3>3, <3>4, <3>5
  <2>2. CASE RefsOf(b) # {}
    <3>1. PICK i \in RefsOf(b) : mb[b].head = f[i].head /\ mb[b].sequence = f[i].sequence
      BY <1>17, <2>2
    <3>2. i \in 1..n /\ f[i].type = "ref" /\ f[i].branch = b
      BY <1>3, <3>1
    <3>3. f[i].head \in DOMAIN mc
      BY <1>20, <3>2
    <3>4. mc[f[i].head] \in 1..n /\ f[mc[f[i].head]].type = "commit"
          /\ f[mc[f[i].head]].id = f[i].head
      BY <1>8, <3>3 DEF CommitsSound
    <3>5. f[i].sequence > 0
      BY <1>24, <3>1
    <3>6. f[mc[f[i].head]].branch = f[i].branch /\ f[mc[f[i].head]].sequence = f[i].sequence
      BY <1>19, <3>2, <3>4, <3>5 DEF RefsLead
    <3> QED BY <3>1, <3>2, <3>6
  <2> QED BY <2>1, <2>2
<1> QED BY <1>13, <1>22, <1>23, <1>24 DEF Exact

\* The names load() finds are those of the last metadata, if there is any.
LEMMA LoadedNames ==
  ASSUME NEW f \in Seq(Record), NEW n \in Nat, Len(f) = n, NEW start \in 0..n, NEW first,
         NEW names, names = Load(f, start, first).retains,
         NEW found, found = Load(f, start, first).metadata
  PROVE  /\ first.metadata /\ LastMeta(f, start, first.retains) => found /\ LastMeta(f, n, names)
         /\ start = 0 /\ ~first.metadata =>
              \/ found /\ LastMeta(f, n, names)
              \/ ~found /\ names = first.retains /\ \A i \in 1..n : f[i].type # "meta"
<1> DEFINE metas == ReadBehind(f, start, "meta")
<1>1. metas = {i \in (start + 1)..n : f[i].type = "meta"}
  BY DEF ReadBehind
<1>2. /\ found = (first.metadata \/ metas # {})
      /\ names = IF metas = {} THEN first.retains ELSE f[Max(metas)].retains
  BY Zenon DEF Load
<1> HIDE DEF metas
<1>3. CASE metas = {}
  <2>1. \A i \in (start + 1)..n : f[i].type # "meta"
    BY <1>1, <1>3
  <2>2. first.metadata /\ LastMeta(f, start, first.retains) => LastMeta(f, n, first.retains)
    <3>1. start \in Nat /\ start <= n /\ \A i \in 1..start : f[i] = f[i]
      OBVIOUS
    <3> QED BY <2>1, <3>1, MetaStays
  <2>3. names = first.retains
    BY <1>2, <1>3
  <2>4. found <=> first.metadata
    BY <1>2, <1>3, Zenon
  <2>5. start = 0 => \A i \in 1..n : f[i].type # "meta"
    BY <2>1
  <2> QED BY <2>2, <2>3, <2>4, <2>5, Zenon
<1>4. CASE metas # {}
  <2> DEFINE last == Max(metas)
  <2>1. last \in metas /\ \A i \in metas : i <= last
    <3>1. metas \in SUBSET (0..n)
      BY <1>1
    <3> QED BY <1>4, <3>1, LargestBelow
  <2>2. names = f[last].retains /\ found
    BY <1>2, <1>4
  <2> HIDE DEF last
  <2>3. last \in 1..n /\ f[last].type = "meta" /\ last \in (start + 1)..n
    BY <1>1, <2>1
  <2>4. ASSUME NEW k \in (last + 1)..n, f[k].type = "meta" PROVE FALSE
    <3>1. k \in metas
      BY <1>1, <2>3, <2>4
    <3> QED BY <2>1, <2>3, <3>1
  <2>5. LastMeta(f, n, names)
    BY <2>2, <2>3, <2>4 DEF LastMeta
  <2> QED BY <2>2, <2>5
<1> QED BY <1>3, <1>4

-----------------------------------------------------------------------------
(* What a collection copies. *)

\* The refs of a branch are in order, and no two are the same.
RefsOrdered(g, n) ==
  \A i, j \in 1..n :
    /\ i < j /\ g[i].type = "ref" /\ g[j].type = "ref" /\ g[i].branch = g[j].branch
    => /\ g[i].sequence <= g[j].sequence
       /\ g[i].sequence = g[j].sequence => g[i].head # g[j].head

\* The records of the next generation, whatever the order of the others.
Copied(g, retained) ==
  /\ g \in Seq(Record) /\ Len(g) > 0
  /\ \A i \in 1..Len(g) : g[i].type = "commit" =>
       /\ g[i].id \in retained
       /\ g[i].branch = RecordAt(g[i].id).branch /\ g[i].sequence = RecordAt(g[i].id).sequence
  /\ \A i \in 1..Len(g) : g[i].type = "ref" =>
       /\ g[i].head \in retained /\ g[i].branch \in Branches /\ g[i].sequence \in Nat
       /\ branches[g[i].branch].head # NONE
       /\ g[i].sequence <= branches[g[i].branch].sequence
       /\ \/ /\ g[i].operation = "create" /\ g[i].sequence = 0
             /\ g[i].head = branches[g[i].branch].base
          \/ /\ g[i].operation = "commit" /\ g[i].sequence > 0
             /\ g[i].branch = RecordAt(g[i].head).branch
             /\ g[i].sequence = RecordAt(g[i].head).sequence
  /\ \A c \in retained : RecordAt(c).sequence > 0 =>
       \E i \in 1..Len(g) : /\ g[i].type = "ref" /\ g[i].head = c
                            /\ g[i].branch = RecordAt(c).branch
                            /\ g[i].sequence = RecordAt(c).sequence
  /\ \A b \in Branches : branches[b].head # NONE =>
       \E i \in 1..Len(g) : g[i].type = "ref" /\ g[i].head = branches[b].base
  /\ g[Len(g)].type = "meta" /\ g[Len(g)].retains = retains
  /\ \A i \in 1..(Len(g) - 1) : g[i].type # "meta"
  /\ RefsOrdered(g, Len(g))

LEMMA CopyIs ==
  ASSUME NEW s, FileAndMemory(s), NEW retained \in SUBSET DOMAIN commits, KeepsHeads(retained),
         NEW low, low = HistoryFloorsFor(retained), NEW g, g = Copy(retained, low)
  PROVE  Copied(g, retained)
<1> DEFINE pages == CopiedPages(retained)
           ps == [i \in DOMAIN pages |-> File[pages[i]]]
           cs == CopiedCommits(retained, pages)
           rs == CopiedRefs(retained)
           ms == <<MetaRecord(retains, low)>>
           P == Len(pages)
           C == Len(cs)
           R == Len(rs)
           n == P + C + R + 1
<1>1. low \in [Branches -> Nat]
  BY FloorsAre
<1>2. /\ P \in Nat /\ DOMAIN pages = 1..P /\ ps \in Seq(Record) /\ Len(ps) = P
      /\ \A i \in 1..P : ps[i] = File[pages[i]] /\ ps[i].type = "page"
  BY PagesAre
<1>3. /\ cs \in Seq(Record)
      /\ \A i \in 1..C :
              /\ cs[i].type = "commit" /\ cs[i].id \in retained
              /\ cs[i].branch = RecordAt(cs[i].id).branch
              /\ cs[i].sequence = RecordAt(cs[i].id).sequence
  BY CommitsAre
<1>4. rs \in Seq(Record)
  BY RefsAre
<1>5. \A i \in 1..R :
        /\ rs[i].type = "ref" /\ rs[i].head \in retained
        /\ rs[i].branch \in Branches /\ rs[i].sequence \in Nat
        /\ branches[rs[i].branch].head # NONE
        /\ rs[i].sequence <= branches[rs[i].branch].sequence
        /\ \/ /\ rs[i].operation = "create" /\ rs[i].sequence = 0
              /\ rs[i].head = branches[rs[i].branch].base
           \/ /\ rs[i].operation = "commit" /\ rs[i].sequence > 0
              /\ rs[i].branch = RecordAt(rs[i].head).branch
              /\ rs[i].sequence = RecordAt(rs[i].head).sequence
  BY RefsAre
<1>6. \A c \in retained : RecordAt(c).sequence > 0 =>
        \E i \in 1..R : /\ rs[i].head = c /\ rs[i].branch = RecordAt(c).branch
                        /\ rs[i].sequence = RecordAt(c).sequence
  BY RefsAre
<1>7. \A b \in Branches : branches[b].head # NONE =>
        \E i \in 1..R : rs[i].branch = b /\ rs[i].head = branches[b].base
  BY RefsAre
<1>7a. \A i, j \in 1..R : i < j /\ rs[i].branch = rs[j].branch =>
         /\ rs[i].sequence <= rs[j].sequence
         /\ rs[i].sequence = rs[j].sequence => rs[i].head # rs[j].head
  BY RefsAre
<1>8. ms \in Seq(Record) /\ Len(ms) = 1 /\ ms[1].type = "meta" /\ ms[1].retains = retains
  <2>1. retains \in [Names -> Ids \union {NONE}]
    BY DEF FileAndMemory
  <2>2. MetaRecord(retains, low) \in Record
    BY <1>1, <2>1, RecordsMade
  <2> QED BY <2>2 DEF MetaRecord
<1> DEFINE ts == ps \o cs
           us == ts \o rs
<1>9. g = us \o ms
  BY DEF Copy
<1>10. C \in Nat /\ R \in Nat
  BY <1>3, <1>4
<1> HIDE DEF pages, ps, cs, rs, ms
<1>11. ts = ps \o cs /\ us = ts \o rs
  OBVIOUS
<1> HIDE DEF ts, us
<1>12. /\ g \in Seq(Record) /\ Len(g) = n
       /\ \A i \in 1..P : g[i] = ps[i]
       /\ \A i \in 1..C : g[P + i] = cs[i]
       /\ \A i \in 1..R : g[P + C + i] = rs[i]
       /\ \A i \in 1..1 : g[P + C + R + i] = ms[i]
  <2>1. /\ g \in Seq(Record) /\ Len(g) = Len(ps) + Len(cs) + Len(rs) + Len(ms)
        /\ \A i \in 1..Len(ps) : g[i] = ps[i]
        /\ \A i \in 1..Len(cs) : g[Len(ps) + i] = cs[i]
        /\ \A i \in 1..Len(rs) : g[Len(ps) + Len(cs) + i] = rs[i]
        /\ \A i \in 1..Len(ms) : g[Len(ps) + Len(cs) + Len(rs) + i] = ms[i]
    <3>1. ps \in Seq(Record) /\ cs \in Seq(Record) /\ rs \in Seq(Record) /\ ms \in Seq(Record)
      BY <1>2, <1>3, <1>4, <1>8
    <3> QED BY <3>1, <1>11, <1>9, FourParts, SMTT(20)
  <2> QED BY <1>2, <1>8, <2>1
<1>13. /\ n \in Nat /\ n > 0
       /\ \A i \in 1..n : \/ i \in 1..P
                          \/ i - P \in 1..C /\ i = P + (i - P)
                          \/ i - P - C \in 1..R /\ i = P + C + (i - P - C)
                          \/ i = n
  BY <1>2, <1>10
<1>14. g[n] = ms[1]
  BY <1>2, <1>10, <1>12
\* What each record is.
<1>15. ASSUME NEW i \in 1..n
       PROVE  \/ g[i].type = "page" /\ i # n
              \/ (\E k \in 1..C : g[i] = cs[k]) /\ i # n
              \/ (\E k \in 1..R : g[i] = rs[k] /\ i = P + C + k) /\ i # n
              \/ i = n
  <2>1. CASE i \in 1..P
    <3>1. g[i].type = "page"
      BY <1>2, <1>12, <2>1
    <3> QED BY <3>1
  <2>2. CASE i - P \in 1..C /\ i = P + (i - P)
    <3>1. g[P + (i - P)] = cs[i - P]
      BY <1>12, <2>2
    <3> QED BY <2>2, <3>1
  <2>3. CASE i - P - C \in 1..R /\ i = P + C + (i - P - C)
    <3>1. g[P + C + (i - P - C)] = rs[i - P - C]
      BY <1>12, <2>3
    <3> QED BY <2>3, <3>1
  <2> QED BY <1>13, <2>1, <2>2, <2>3
<1>16. \A k \in 1..R : P + C + k \in 1..n /\ g[P + C + k] = rs[k]
  BY <1>2, <1>10, <1>12
<1>17. Len(g) = n /\ n \in 1..n /\ (\A i \in 1..(n - 1) : i \in 1..n /\ i # n)
  BY <1>12, <1>13
<1> HIDE DEF n
<1>18. ASSUME NEW i \in 1..n, g[i].type = "commit"
       PROVE  /\ g[i].id \in retained
              /\ g[i].branch = RecordAt(g[i].id).branch
              /\ g[i].sequence = RecordAt(g[i].id).sequence
  <2>1. \E k \in 1..C : g[i] = cs[k]
    BY <1>5, <1>8, <1>14, <1>15, <1>18
  <2> QED BY <1>3, <2>1
<1>19. ASSUME NEW i \in 1..n, g[i].type = "ref"
       PROVE  \E k \in 1..R : g[i] = rs[k] /\ i = P + C + k
  BY <1>3, <1>8, <1>14, <1>15, <1>19
<1>20. ASSUME NEW i \in 1..n, g[i].type = "ref"
       PROVE  /\ g[i].head \in retained /\ g[i].branch \in Branches /\ g[i].sequence \in Nat
              /\ branches[g[i].branch].head # NONE
              /\ g[i].sequence <= branches[g[i].branch].sequence
              /\ \/ /\ g[i].operation = "create" /\ g[i].sequence = 0
                    /\ g[i].head = branches[g[i].branch].base
                 \/ /\ g[i].operation = "commit" /\ g[i].sequence > 0
                    /\ g[i].branch = RecordAt(g[i].head).branch
                    /\ g[i].sequence = RecordAt(g[i].head).sequence
  <2>1. PICK k \in 1..R : rs[k] = g[i]
    BY <1>19, <1>20
  <2> QED BY <1>5, <2>1
<1>21. ASSUME NEW c \in retained, RecordAt(c).sequence > 0
       PROVE  \E i \in 1..n : /\ g[i].type = "ref" /\ g[i].head = c
                              /\ g[i].branch = RecordAt(c).branch
                              /\ g[i].sequence = RecordAt(c).sequence
  <2>1. PICK k \in 1..R : /\ rs[k].head = c /\ rs[k].branch = RecordAt(c).branch
                          /\ rs[k].sequence = RecordAt(c).sequence
    BY <1>6, <1>21
  <2>2. P + C + k \in 1..n /\ g[P + C + k] = rs[k] /\ rs[k].type = "ref"
    BY <1>5, <1>16
  <2> QED BY <2>1, <2>2
<1>22. ASSUME NEW b \in Branches, branches[b].head # NONE
       PROVE  \E i \in 1..n : g[i].type = "ref" /\ g[i].head = branches[b].base
  <2>1. PICK k \in 1..R : rs[k].branch = b /\ rs[k].head = branches[b].base
    BY <1>7, <1>22
  <2>2. P + C + k \in 1..n /\ g[P + C + k] = rs[k] /\ rs[k].type = "ref"
    BY <1>5, <1>16
  <2> QED BY <2>1, <2>2
<1>23. ASSUME NEW i \in 1..(n - 1)
       PROVE  g[i].type # "meta"
  <2>1. i \in 1..n /\ i # n
    BY <1>17
  <2>2. CASE \E k \in 1..C : g[i] = cs[k]
    BY <1>3, <2>2
  <2>3. CASE \E k \in 1..R : g[i] = rs[k]
    BY <1>5, <2>3
  <2> QED BY <1>15, <2>1, <2>2, <2>3
<1>24. g \in Seq(Record) /\ n > 0 /\ g[n].type = "meta" /\ g[n].retains = retains
  BY <1>8, <1>12, <1>13, <1>14
<1>25. n = Len(g)
  BY <1>17
<1>26. RefsOrdered(g, n)
  <2> SUFFICES ASSUME NEW i \in 1..n, NEW j \in 1..n, i < j, g[i].type = "ref",
                      g[j].type = "ref", g[i].branch = g[j].branch
               PROVE  /\ g[i].sequence <= g[j].sequence
                      /\ g[i].sequence = g[j].sequence => g[i].head # g[j].head
    BY DEF RefsOrdered
  <2>1. PICK k \in 1..R : g[i] = rs[k] /\ i = P + C + k
    BY <1>19
  <2>2. PICK m \in 1..R : g[j] = rs[m] /\ j = P + C + m
    BY <1>19
  <2>3. k < m
    BY <1>2, <1>10, <2>1, <2>2
  <2> QED BY <1>7a, <2>1, <2>2, <2>3
<1> QED BY <1>18, <1>20, <1>21, <1>22, <1>23, <1>24, <1>25, <1>26 DEF Copied

\* Every commit it retains is named: on its branch, or as the base of one.
LEMMA CopyNames ==
  ASSUME NEW s, FileAndMemory(s), NEW retained \in SUBSET DOMAIN commits,
         NEW g, Copied(g, retained), RefsLead(File, Len(File)),
         Exact(File, Len(File), commits, branches), NEW c \in retained
  PROVE  Named(g, Len(g), c) /\ Named(File, Len(File), c)
<1>1. Named(File, Len(File), c)
  BY DEF Exact
<1>2. CASE RecordAt(c).sequence > 0
  <2>1. PICK i \in 1..Len(g) : g[i].type = "ref" /\ g[i].head = c
    BY <1>2 DEF Copied
  <2> QED BY <1>1, <2>1 DEF Named
<1>3. CASE ~(RecordAt(c).sequence > 0)
  <2>1. PICK i \in 1..Len(File) : File[i].type = "ref" /\ File[i].head = c
    BY <1>1 DEF Named
  <2>2. /\ commits[c] \in 1..Len(File) /\ RecordAt(c) = File[commits[c]]
        /\ RecordAt(c).type = "commit" /\ RecordAt(c).id = c
    BY RecordsAt
  <2>3. File \in Seq(Record)
    BY DEF FileAndMemory
  <2>4. File[i].sequence \in Nat /\ File[i].branch \in Branches
    BY <2>1, <2>3, FileTyped, RecordKinds
  <2>5. File[i].sequence > 0 => RecordAt(c).sequence = File[i].sequence
    BY <2>1, <2>2 DEF RefsLead
  <2>6. File[i].sequence = 0
    BY <1>3, <2>4, <2>5
  <2>7. File[i].operation = "create"
    BY <2>1, <2>6 DEF RefsLead
  <2>8. branches[File[i].branch].head # NONE /\ branches[File[i].branch].base = c
    BY <2>1, <2>7 DEF Exact, RefsHeld
  <2>9. PICK k \in 1..Len(g) : g[k].type = "ref" /\ g[k].head = c
    BY <2>4, <2>8 DEF Copied
  <2> QED BY <1>1, <2>9 DEF Named
<1> QED BY <1>2, <1>3

\* It keeps the names.
KeepsNames(retained) == \A name \in Names : retains[name] # NONE => retains[name] \in retained

\* What a collection copies holds what was answered, and memory is as exact about it.
LEMMA CopyHolds ==
  ASSUME NEW s, FileAndMemory(s), NEW retained \in SUBSET DOMAIN commits, KeepsHeads(retained),
         KeepsNames(retained), NEW low, low = HistoryFloorsFor(retained),
         NEW g, g = Copy(retained, low),
         NEW t \in 0..Len(File), NEW old, Holding(File, Len(File), t, old),
         Exact(File, Len(File), commits, branches), LastMeta(File, Len(File), retains), Answers
  PROVE  /\ Holding(g, Len(g), Len(g), low)
         /\ Exact(g, Len(g), Places(g, retained), branches)
         /\ LastMeta(g, Len(g), retains)
<1> DEFINE n == Len(g)
<1>1. Copied(g, retained)
  BY CopyIs
<1>2. g \in Seq(Record) /\ n \in Nat /\ n > 0 /\ n \in 1..n
  BY <1>1 DEF Copied
<1>3. /\ View(g, n, Places(g, retained), branches, low)
      /\ FileSound(g, n, n, content, low)
  BY CopySound
<1>4. /\ RefsLead(File, Len(File)) /\ OneBase(File, Len(File)) /\ NamesThere(File, Len(File))
      /\ CommitsKept(File, Len(File), t, old, acked) /\ NamesKept(File, Len(File), t, promised)
  BY DEF Holding, LogSound
<1>5. \A c \in retained : Named(g, n, c) /\ Named(File, Len(File), c)
  BY <1>1, <1>4, CopyNames
<1>6. /\ Len(File) \in Nat /\ branches \in Heads
      /\ \A c \in DOMAIN commits :
           /\ commits[c] \in 1..Len(File) /\ RecordAt(c) = File[commits[c]]
           /\ RecordAt(c).type = "commit" /\ RecordAt(c).id = c
           /\ RecordAt(c).branch \in Branches /\ RecordAt(c).sequence \in Nat
  BY RecordsAt
<1>7. \A i \in 1..n : g[i].type = "ref" =>
       /\ g[i].head \in retained /\ g[i].branch \in Branches /\ g[i].sequence \in Nat
       /\ branches[g[i].branch].head # NONE
       /\ g[i].sequence <= branches[g[i].branch].sequence
       /\ \/ /\ g[i].operation = "create" /\ g[i].sequence = 0
             /\ g[i].head = branches[g[i].branch].base
          \/ /\ g[i].operation = "commit" /\ g[i].sequence > 0
             /\ g[i].branch = RecordAt(g[i].head).branch
             /\ g[i].sequence = RecordAt(g[i].head).sequence
  BY <1>1 DEF Copied
<1>8. \A i \in 1..n : g[i].type = "commit" =>
       /\ g[i].id \in retained
       /\ g[i].branch = RecordAt(g[i].id).branch /\ g[i].sequence = RecordAt(g[i].id).sequence
  BY <1>1 DEF Copied
<1>9. /\ g[n].type = "meta" /\ g[n].retains = retains
      /\ \A i \in 1..n : g[i].type = "meta" => i = n
  <2>1. /\ g[n].type = "meta" /\ g[n].retains = retains
        /\ \A i \in 1..(n - 1) : g[i].type # "meta"
    BY <1>1 DEF Copied
  <2>2. \A i \in 1..n : i \in 1..(n - 1) \/ i = n
    BY <1>2
  <2> QED BY <2>1, <2>2
<1>10. LastMeta(g, n, retains)
  <2>1. LastMeta(g, n, g[n].retains)
    BY <1>2, <1>9, MetaNew
  <2> QED BY <1>9, <2>1
<1> HIDE DEF n
<1>11. RefsLead(g, n)
  BY <1>7, <1>8 DEF RefsLead
<1>12. OneBase(g, n)
  BY <1>7 DEF OneBase
<1>13. NamesThere(g, n)
  BY <1>5, <1>9 DEF NamesThere, KeepsNames
<1>14. Exact(g, n, Places(g, retained), branches)
  <2> DEFINE places == Places(g, retained)
  <2>1. DOMAIN places = retained
    BY DEF Places
  <2>2. CommitsSound(g, n, places)
    BY <1>3 DEF View
  <2> HIDE DEF places
  <2>3. RefsHeld(g, n, places, branches)
    BY <1>7, <2>1 DEF RefsHeld
  <2>4. ASSUME NEW b \in Branches, branches[b].sequence > 0
        PROVE  /\ g[places[branches[b].head]].branch = b
               /\ g[places[branches[b].head]].sequence = branches[b].sequence
    <3>1. View(File, Len(File), commits, branches, floors)
      BY DEF FileAndMemory
    <3>2. CommitsSound(File, Len(File), commits) /\ HeadsSound(File, commits, branches, floors)
      BY <3>1 DEF View
    <3>3. branches[b].head # NONE
      BY <1>6, <2>4, <3>2, HeadIs
    <3> DEFINE h == branches[b].head
    <3>4. h \in retained
      BY <3>3 DEF KeepsHeads
    <3>5. places[h] \in 1..n /\ g[places[h]].type = "commit" /\ g[places[h]].id = h
      BY <2>1, <2>2, <3>4 DEF CommitsSound
    <3>6. RecordAt(h).branch = b /\ RecordAt(h).sequence = branches[b].sequence
      BY <1>6, <2>4, <3>4 DEF Exact
    <3> HIDE DEF h
    <3>7. g[places[h]].branch = b /\ g[places[h]].sequence = branches[b].sequence
      BY <1>8, <3>5, <3>6
    <3> QED BY <3>7 DEF h
  <2>5. Exact(g, n, places, branches)
    BY <1>5, <2>1, <2>3, <2>4 DEF Exact
  <2> QED BY <2>5 DEF places
<1>15. ASSUME NEW a \in acked
       PROVE  /\ \E i \in 1..n : /\ g[i].type = "ref" /\ g[i].branch = a.branch
                                 /\ g[i].sequence >= a.sequence
              /\ a.sequence > low[a.branch] => Named(g, n, a.id)
              /\ \A j \in 1..n : /\ g[j].type = "commit" /\ Named(g, n, g[j].id)
                                 /\ g[j].branch = a.branch /\ g[j].sequence = a.sequence
                                 => g[j].id = a.id
  <2>0. a.branch \in Branches /\ a.sequence \in Nat /\ a.sequence > 0
    BY DEF Answers
  <2> DEFINE b == a.branch
             h == branches[b].head
  <2>1. PICK i \in 1..t : /\ File[i].type = "ref" /\ File[i].branch = a.branch
                          /\ File[i].sequence >= a.sequence
    BY <1>4 DEF CommitsKept
  <2>2. i \in 1..Len(File)
    BY <1>6, <2>1
  <2>3. File[i].sequence <= branches[b].sequence /\ h # NONE
    BY <2>1, <2>2 DEF Exact, RefsHeld
  <2>4. branches[b].sequence \in Nat /\ File[i].sequence \in Nat
    <3>1. File \in Seq(Record)
      BY DEF FileAndMemory
    <3>2. File[i].sequence \in Nat
      BY <2>1, <2>2, <3>1, FileTyped, RecordKinds
    <3> QED BY <1>6, <2>0, <3>2 DEF Heads, Branch
  <2>5. a.sequence <= branches[b].sequence /\ branches[b].sequence > 0
    BY <2>0, <2>1, <2>3, <2>4
  <2>6. h \in retained /\ RecordAt(h).branch = b /\ RecordAt(h).sequence = branches[b].sequence
    <3>1. h \in retained
      BY <2>0, <2>3 DEF KeepsHeads
    <3> QED BY <1>6, <2>0, <2>5, <3>1 DEF Exact
  <2>7. PICK k \in 1..n : /\ g[k].type = "ref" /\ g[k].branch = RecordAt(h).branch
                          /\ g[k].sequence = RecordAt(h).sequence
    BY <1>1, <2>5, <2>6 DEF Copied, n
  \* No other commit has its place.
  <2>8. ASSUME NEW c \in retained, RecordAt(c).branch = a.branch, RecordAt(c).sequence = a.sequence
        PROVE  c = a.id
    <3>1. /\ commits[c] \in 1..Len(File) /\ File[commits[c]].type = "commit"
          /\ File[commits[c]].id = c
          /\ File[commits[c]].branch = a.branch /\ File[commits[c]].sequence = a.sequence
      BY <1>6, <2>8
    <3>2. Named(File, Len(File), File[commits[c]].id)
      BY <1>5, <3>1
    <3>3. File[commits[c]].id = a.id
      BY <1>4, <3>1, <3>2 DEF CommitsKept
    <3> QED BY <3>1, <3>3
  <2>9. a.sequence > low[a.branch] => Named(g, n, a.id)
    <3>1. ASSUME a.sequence > low[a.branch]
          PROVE  \E c \in retained : RecordAt(c).branch = a.branch /\ RecordAt(c).sequence = a.sequence
      BY <2>0, <2>5, <3>1, FloorsAre
    <3> QED BY <1>5, <2>8, <3>1
  <2>10. ASSUME NEW j \in 1..n, g[j].type = "commit", g[j].branch = a.branch,
                g[j].sequence = a.sequence
         PROVE  g[j].id = a.id
    BY <1>8, <2>8, <2>10
  <2>11. /\ g[k].type = "ref" /\ g[k].branch = a.branch /\ g[k].sequence >= a.sequence
    BY <2>0, <2>4, <2>5, <2>6, <2>7
  <2> HIDE DEF b, h
  <2> QED BY <2>9, <2>10, <2>11
<1>16. ASSUME NEW name \in Names, promised[name] # NONE
       PROVE  \E m \in 1..n : /\ g[m].type = "meta"
                              /\ \A k \in m..n : g[k].type = "meta" => g[k].retains[name] = promised[name]
  <2>1. retains[name] = promised[name]
    BY <1>4, <1>6, <1>16, PromisesMet
  <2>2. n \in 1..n /\ \A k \in n..n : k = n
    BY <1>2 DEF n
  <2> QED BY <1>9, <2>1, <2>2
<1>17. CommitsKept(g, n, n, low, acked)
  BY <1>15 DEF CommitsKept
<1>18. NamesKept(g, n, n, promised)
  BY <1>16 DEF NamesKept
<1>19. Holding(g, n, n, low)
  BY <1>11, <1>12, <1>13, <1>17, <1>18 DEF Holding, LogSound
<1> QED BY <1>10, <1>14, <1>19 DEF n

-----------------------------------------------------------------------------
(* Steps that leave the log and memory alone. *)

\* Neither the records of a file move nor what was answered.
RecordsStay ==
  /\ \A g \in Generations : gens'[g].file = gens[g].file /\ gens'[g].synced = gens[g].synced
  /\ UNCHANGED <<checkpoint, current, content, acked, promised>>

\* The log of a file that stays is as it was.
LEMMA LogsStay ==
  ASSUME Types, Answers, LogsSound, CheckpointExact, RecordsStay, path' \subseteq path
  PROVE  Answers' /\ LogsSound' /\ CheckpointExact' /\ File' = File
<1>1. path \subseteq Generations /\ current \in Generations
  BY DEF Types
<1>2. Answers'
  BY DEF Answers, RecordsStay
<1>3. \A g \in path' : g \in path /\ gens'[g].file = gens[g].file /\ gens'[g].synced = gens[g].synced
  BY <1>1 DEF RecordsStay
<1>4. LogsSound'
  <2> SUFFICES ASSUME NEW g \in path'
               PROVE  Holding(gens[g].file, Length(gens[g].file), gens[g].synced, LowOf(gens[g].file))'
    BY DEF LogsSound
  <2>1. Holding(gens[g].file, Length(gens[g].file), gens[g].synced, LowOf(gens[g].file))
    BY <1>3 DEF LogsSound
  <2>2. gens'[g].file = gens[g].file /\ gens'[g].synced = gens[g].synced
    BY <1>3
  <2>3. acked' = acked /\ promised' = promised
    BY DEF RecordsStay
  <2> QED BY <2>1, <2>2, <2>3 DEF Holding, LogSound, CommitsKept, NamesKept
<1>5. CheckpointExact'
  BY <1>3 DEF RecordsStay, CheckpointExact
<1>6. File' = File
  BY <1>1 DEF RecordsStay, File
<1> QED BY <1>2, <1>4, <1>5, <1>6

\* The engine goes on where it was, or a collection is over.
LEMMA DurableStays ==
  ASSUME Types, Durable, RecordsStay, SameMemory,
         Running' => Running /\ (state' = "opening" <=> state = "opening"),
         \/ job' = job /\ path' = path
         \/ job' = NoJob /\ job.kind = "collect" /\ path' = path
         \/ job' = NoJob /\ job.kind = "install" /\ path' = {current} /\ current \in path
  PROVE  Durable'
<1>1. path' \subseteq path
  OBVIOUS
<1>2. Answers /\ LogsSound /\ CheckpointExact /\ MemoryExact /\ JobExact
  BY DEF Durable
<1>3. Answers' /\ LogsSound' /\ CheckpointExact' /\ File' = File
  BY <1>1, <1>2, LogsStay
<1>4. /\ gens'[current'].synced = gens[current].synced /\ current' = current
      /\ commits' = commits /\ branches' = branches /\ retains' = retains
  BY DEF RecordsStay, SameMemory, Types
<1>5. NoJob.kind = "idle"
  BY DEF NoJob
<1>6. Settled' = Settled
  BY <1>3, <1>4, <1>5 DEF Settled
<1>7. MemoryExact'
  <2> SUFFICES ASSUME Running'
               PROVE  /\ state' = "opening" => job'.kind = "open"
                      /\ (state' = "opening" => job'.id = NONE) => Exact(File', Settled', commits', branches')
                      /\ LastMeta(File', Len(File'), retains')
                      /\ job'.kind # "install" => path' = {current'}
                      /\ job'.kind \in {"idle", "collect", "install"} =>
                           gens'[current'].synced = Len(File')
    BY DEF MemoryExact
  <2>1. Running /\ (state' = "opening" <=> state = "opening")
    OBVIOUS
  <2>2. /\ state = "opening" => job.kind = "open"
        /\ (state = "opening" => job.id = NONE) => Exact(File, Settled, commits, branches)
        /\ LastMeta(File, Len(File), retains)
        /\ job.kind # "install" => path = {current}
        /\ job.kind \in {"idle", "collect", "install"} => gens[current].synced = Len(File)
    BY <1>2, <2>1 DEF MemoryExact
  <2>3. CASE job' = job /\ path' = path
    BY <1>3, <1>4, <1>6, <2>1, <2>2, <2>3
  <2>4. CASE job' = NoJob /\ job.kind \in {"collect", "install"} /\ path' = {current}
    BY <1>3, <1>4, <1>5, <1>6, <2>1, <2>2, <2>4
  <2>5. job.kind = "collect" => path = {current}
    BY <2>2
  <2> QED BY <2>3, <2>4, <2>5
<1>8. JobExact'
  <2>1. CASE job' = NoJob
    BY <1>5, <2>1 DEF JobExact, OpenExact, AppendExact, RetainExact, CopyExact
  <2>2. CASE job' = job
    <3>1. acked' = acked /\ promised' = promised
      BY DEF RecordsStay
    <3>2. OpenExact' /\ AppendExact' /\ RetainExact'
      BY <1>2, <1>3, <1>4, <2>2 DEF JobExact, OpenExact, AppendExact, RetainExact
    <3>3. CopyExact'
      BY <1>2, <1>3, <1>4, <2>2, <3>1
         DEF JobExact, CopyExact, Holding, LogSound, CommitsKept, NamesKept
    <3> QED BY <3>2, <3>3 DEF JobExact
  <2> QED BY <2>1, <2>2
<1> QED BY <1>3, <1>7, <1>8 DEF Durable

\* A lease more or less is not in the records.
LEMMA LeasesMove ==
  ASSUME Types, NEW h, Holds(h, 1) \/ ReleaseGeneration(h)
  PROVE  \A g \in Generations : gens'[g].file = gens[g].file /\ gens'[g].synced = gens[g].synced
<1>0. gens \in [Generations -> Generation]
  BY DEF Types
<1>1. CASE Holds(h, 1)
  BY <1>0, <1>1 DEF Holds, Generation
<1>2. CASE ReleaseGeneration(h)
  <2> DEFINE last == gens[h].leases = 1 /\ gens[h].retired
             after == [gens[h] EXCEPT !.leases = @ - 1, !.closed = last]
             chosen == IF gens[h].closed THEN gens[h] ELSE after
  <2>1. gens' = [gens EXCEPT ![h] = chosen]
    BY <1>2 DEF ReleaseGeneration
  <2>2. h \in Generations => chosen.file = gens[h].file /\ chosen.synced = gens[h].synced
    <3> SUFFICES ASSUME h \in Generations
                 PROVE  after.file = gens[h].file /\ after.synced = gens[h].synced
      OBVIOUS
    <3>1. PICK n, z : n = gens[h].leases - 1 /\ z = last
      OBVIOUS
    <3> DEFINE other == [gens[h] EXCEPT !.leases = n, !.closed = z]
    <3>2. gens[h] \in Generation
      BY <1>0
    <3>3. other.file = gens[h].file /\ other.synced = gens[h].synced
      BY <3>2 DEF Generation
    <3>4. after = other
      <4> HIDE DEF last
      <4> QED BY <3>1
    <3> HIDE DEF after, other
    <3> QED BY <3>3, <3>4
  <2> HIDE DEF chosen
  <2> QED BY <1>0, <2>1, <2>2
<1> QED BY <1>1, <1>2

\* Callers come and go, wait, read and are told.
CallersStep ==
  \/ \E r \in Readers : CallSnapshot(r) \/ Snapshot(r) \/ CloseSnapshot(r)
  \/ \E t \in Streams :
       \/ \E b \in Branches, after \in Sequences : CallChanges(t, b, after)
       \/ Subscribe(t) \/ Replay(t) \/ Replayed(t) \/ Deliver(t) \/ EndStream(t)
  \/ CollectGarbage

LEMMA CallersStepDurable ==
  ASSUME Types, Durable, CallersStep
  PROVE  Durable'
<1> DEFINE Moves == /\ UNCHANGED <<path, checkpoint, state, memoryVars, job, historyVars>>
                    /\ \/ gens' = gens
                       \/ \E h : Holds(h, 1) \/ ReleaseGeneration(h)
<1>1. Moves
  <2>1. ASSUME NEW r \in Readers, CallSnapshot(r) \/ Snapshot(r) \/ CloseSnapshot(r)
        PROVE  Moves
    BY <2>1 DEF CallSnapshot, Snapshot, CloseSnapshot, diskVars
  <2>2. ASSUME NEW t \in Streams, NEW b \in Branches, NEW after \in Sequences, CallChanges(t, b, after)
        PROVE  Moves
    BY <2>2 DEF CallChanges, diskVars
  <2>3. ASSUME NEW t \in Streams, Subscribe(t) PROVE Moves
    BY <2>3 DEF Subscribe
  <2>4. ASSUME NEW t \in Streams, Replay(t) \/ Replayed(t) \/ Deliver(t) \/ EndStream(t)
        PROVE  Moves
    BY <2>4 DEF Replay, Replayed, Deliver, EndStream, diskVars
  <2>5. ASSUME CollectGarbage PROVE Moves
    BY <2>5 DEF CollectGarbage, diskVars
  <2> QED BY <2>1, <2>2, <2>3, <2>4, <2>5 DEF CallersStep
<1>2. \A g \in Generations : gens'[g].file = gens[g].file /\ gens'[g].synced = gens[g].synced
  BY <1>1, LeasesMove
<1>3. RecordsStay /\ SameMemory
  BY <1>1, <1>2 DEF RecordsStay, SameMemory, memoryVars, historyVars
<1>4. Running' => Running /\ (state' = "opening" <=> state = "opening")
  BY <1>1 DEF Running
<1>5. job' = job /\ path' = path
  BY <1>1
<1> QED BY <1>3, <1>4, <1>5, DurableStays

\* Nothing happens, the engine is about to close, or a collection ends.
QuietStep == Close \/ CollectionFails \/ CollectionDone \/ UNCHANGED vars

LEMMA QuietStepDurable ==
  ASSUME Sound, Durable, QuietStep
  PROVE  Durable'
<1>0. Types
  BY DEF Sound
<1>1. CASE CollectionDone
  <2>1. PICK p : p = job.previous
    OBVIOUS
  <2>2. PICK n, z : n = gens[p].leases - 1 /\ z = (gens[p].leases = 1)
    OBVIOUS
  <2> DEFINE after == [gens[p] EXCEPT !.retired = TRUE, !.leases = n, !.closed = z]
  <2>3. /\ job.kind = "install" /\ gens' = [gens EXCEPT ![p] = after]
        /\ path' = {current} /\ job' = NoJob
        /\ UNCHANGED <<checkpoint, state, memoryVars, historyVars>>
    BY <1>1, <2>1, <2>2 DEF CollectionDone, Retire
  <2>4. p \in Generations => after.file = gens[p].file /\ after.synced = gens[p].synced
    BY <1>0 DEF Types, Generation
  <2> HIDE DEF after
  <2>5. \A g \in Generations : gens'[g].file = gens[g].file /\ gens'[g].synced = gens[g].synced
    BY <1>0, <2>3, <2>4 DEF Types
  <2>6. RecordsStay /\ SameMemory
    BY <2>3, <2>5 DEF RecordsStay, SameMemory, memoryVars, historyVars
  <2>7. state' = state /\ job.kind # "idle" /\ job.kind # "open" /\ Quiet /\ Numbered
    BY <2>3 DEF Sound
  <2>8. Running /\ current \in path
    <3>1. Serving
      BY <2>7, <1>0 DEF Quiet
    <3> QED BY <2>7, <3>1 DEF Serving, Running, Numbered
  <2>9. Running' => Running /\ (state' = "opening" <=> state = "opening")
    BY <2>7, <2>8
  <2> QED BY <1>0, <2>3, <2>6, <2>8, <2>9, DurableStays
<1>2. CASE Close \/ CollectionFails \/ UNCHANGED vars
  <2>1. /\ gens' = gens /\ path' = path
        /\ UNCHANGED <<checkpoint, memoryVars, historyVars>>
        /\ state' = state \/ (state = "open" /\ state' = "closing")
        /\ job' = job \/ (job' = NoJob /\ job.kind = "collect")
    BY <1>2 DEF Close, CollectionFails, vars, diskVars
  <2>2. RecordsStay /\ SameMemory
    BY <2>1 DEF RecordsStay, SameMemory, memoryVars, historyVars
  <2>3. Running' => Running /\ (state' = "opening" <=> state = "opening")
    BY <2>1 DEF Running
  <2> QED BY <1>0, <2>1, <2>2, <2>3, DurableStays
<1> QED BY <1>1, <1>2 DEF QuietStep

-----------------------------------------------------------------------------
(* Syncs and answers. *)

\* The log of the file in use, as long as the engine has one.
LEMMA LogInUse ==
  ASSUME Sound, Durable, Running
  PROVE  /\ Types /\ current \in path /\ current \in Generations /\ File \in Seq(Record)
         /\ Length(File) = Len(File) /\ Len(File) \in Nat /\ gens[current].synced \in 0..Len(File)
         /\ LogSound(File, Len(File))
         /\ CommitsKept(File, Len(File), gens[current].synced, LowOf(File), acked)
         /\ NamesKept(File, Len(File), gens[current].synced, promised)
         /\ LastMeta(File, Len(File), retains)
         /\ job.kind # "install" => path = {current}
<1>1. /\ current \in path /\ current \in Generations /\ File \in Seq(Record)
      /\ Length(File) = Len(File) /\ gens[current].synced \in 0..Len(File) /\ Len(File) \in Nat
  BY RunningView
<1>2. Holding(gens[current].file, Length(gens[current].file), gens[current].synced,
              LowOf(gens[current].file))
  BY <1>1 DEF Durable, LogsSound
<1>3. Holding(File, Len(File), gens[current].synced, LowOf(File))
  <2>1. gens[current].file = File
    BY DEF File
  <2> QED BY <1>1, <1>2, <2>1
<1>4. LastMeta(File, Len(File), retains) /\ (job.kind # "install" => path = {current})
  BY DEF Durable, MemoryExact
<1>5. Types
  BY DEF Sound
<1> QED BY <1>1, <1>3, <1>4, <1>5 DEF Holding

\* Everything is synced, and what was answered is there: so it is on the disk.
LEMMA SyncedLogs ==
  ASSUME Sound, Durable, Running, path = {current},
         \A g \in Generations : gens'[g].file = gens[g].file,
         gens'[current].synced = Len(File), path' = path, current' = current, Answers',
         CommitsKept(File, Len(File), Len(File), LowOf(File), acked'),
         NamesKept(File, Len(File), Len(File), promised'),
         NEW known, NEW heads, Exact(File, Len(File), known, heads),
         checkpoint' = checkpoint \/ checkpoint' \in Sidecars(known, heads)
  PROVE  Answers' /\ LogsSound' /\ CheckpointExact' /\ File' = File
<1>1. /\ current \in Generations /\ Length(File) = Len(File)
      /\ LogSound(File, Len(File)) /\ LastMeta(File, Len(File), retains)
  BY LogInUse
<1>2. gens'[current].file = File /\ gens'[current].synced = Len(File) /\ File' = File
  BY <1>1 DEF File
<1>3. LogsSound'
  <2> SUFFICES ASSUME NEW g \in path'
               PROVE  Holding(gens[g].file, Length(gens[g].file), gens[g].synced, LowOf(gens[g].file))'
    BY DEF LogsSound
  <2>1. g = current
    OBVIOUS
  <2>2. /\ gens'[g].file = File /\ gens'[g].synced = Len(File)
        /\ Length(gens'[g].file) = Len(File)
    BY <1>1, <1>2, <2>1
  <2> QED BY <1>1, <2>2 DEF Holding
<1>4. CheckpointExact'
  <2>1. CASE checkpoint' = checkpoint
    <3>1. CheckpointExact
      BY DEF Durable
    <3> QED BY <1>2, <2>1, <3>1 DEF CheckpointExact, File
  <2>2. CASE checkpoint' \in Sidecars(known, heads)
    <3>1. /\ checkpoint'.gen = current /\ checkpoint'.offset = Len(File)
          /\ checkpoint'.commits = known /\ checkpoint'.branches = heads
          /\ checkpoint'.retains = retains
      BY <2>2 DEF Sidecars
    <3> QED BY <1>1, <1>2, <3>1 DEF CheckpointExact
  <2> QED BY <2>1, <2>2
<1> QED BY <1>2, <1>3, <1>4

\* The engine goes on with the next in its queue.
LEMMA SyncedDurable ==
  ASSUME Sound, Durable, Running, path = {current},
         \A g \in Generations : gens'[g].file = gens[g].file,
         gens'[current].synced = Len(File), path' = path, current' = current, Answers',
         CommitsKept(File, Len(File), Len(File), LowOf(File), acked'),
         NamesKept(File, Len(File), Len(File), promised'),
         Exact(File, Len(File), commits', branches'),
         checkpoint' = checkpoint \/ checkpoint' \in Sidecars(commits', branches'),
         job' = NoJob, state' # "opening", retains' = retains
  PROVE  Durable'
<1>1. Answers' /\ LogsSound' /\ CheckpointExact' /\ File' = File
  BY SyncedLogs
<1>2. LastMeta(File, Len(File), retains)
  BY LogInUse
<1>3. NoJob.kind = "idle"
  BY DEF NoJob
<1>4. Settled' = Len(File)
  BY <1>1, <1>3 DEF Settled
<1>5. MemoryExact'
  BY <1>1, <1>2, <1>3, <1>4 DEF MemoryExact
<1>6. JobExact'
  BY <1>3 DEF JobExact, OpenExact, AppendExact, RetainExact, CopyExact
<1> QED BY <1>1, <1>5, <1>6 DEF Durable

\* A name of the last metadata can be promised.
LEMMA PromiseMore ==
  ASSUME NEW n \in Nat, NEW f, NEW s \in 0..n, NEW names, NEW promises,
         promises \in [Names -> Ids \union {NONE}], NamesKept(f, n, s, promises),
         LastMeta(f, n, names), NEW name \in Names,
         NEW more, more = [promises EXCEPT ![name] = names[name]]
  PROVE  NamesKept(f, n, n, more)
<1> SUFFICES ASSUME NEW x \in Names, more[x] # NONE
             PROVE  \E m \in 1..n : /\ f[m].type = "meta"
                                    /\ \A k \in m..n : f[k].type = "meta" => f[k].retains[x] = more[x]
  BY DEF NamesKept
<1>1. CASE x = name
  <2>1. PICK m \in 1..n : /\ f[m].type = "meta" /\ f[m].retains = names
                          /\ \A k \in (m + 1)..n : f[k].type # "meta"
    BY DEF LastMeta
  <2>2. \A k \in m..n : k = m \/ k \in (m + 1)..n
    BY <2>1
  <2> QED BY <1>1, <2>1, <2>2
<1>2. CASE x # name
  <2>1. more[x] = promises[x]
    BY <1>2
  <2>2. PICK m \in 1..s : /\ f[m].type = "meta"
                          /\ \A k \in m..n : f[k].type = "meta" => f[k].retains[x] = promises[x]
    BY <2>1 DEF NamesKept
  <2>3. m \in 1..n
    OBVIOUS
  <2> QED BY <2>1, <2>2, <2>3
<1> QED BY <1>1, <1>2

\* What holds of the synced records holds of all.
LEMMA KeptSynced ==
  ASSUME NEW n \in Nat, NEW f, NEW s \in 0..n, NEW low, NEW answered, NEW names,
         CommitsKept(f, n, s, low, answered), NamesKept(f, n, s, names)
  PROVE  CommitsKept(f, n, n, low, answered) /\ NamesKept(f, n, n, names)
<1>1. n \in 0..n /\ s <= n /\ \A i \in 1..n : f[i] = f[i]
  OBVIOUS
<1> QED BY <1>1, KeptAgrees

\* retain() of what memory already has.
LEMMA RetainAgainDurable ==
  ASSUME Sound, Durable, NEW name \in Names, RetainAgain(name)
  PROVE  Durable'
<1>1. /\ state = "open" /\ job = NoJob /\ NoJob.kind = "idle"
      /\ promised' = [promised EXCEPT ![name] = retains[name]]
      /\ gens' = gens /\ path' = path /\ checkpoint' = checkpoint /\ state' = state /\ job' = job
      /\ current' = current /\ commits' = commits /\ branches' = branches /\ retains' = retains
      /\ content' = content /\ acked' = acked
  BY DEF RetainAgain, MyTurn, NoJob, diskVars, memoryVars
<1>2. Running
  BY <1>1 DEF Running
<1>3. /\ current \in Generations /\ Len(File) \in Nat /\ gens[current].synced \in 0..Len(File)
      /\ CommitsKept(File, Len(File), gens[current].synced, LowOf(File), acked)
      /\ NamesKept(File, Len(File), gens[current].synced, promised)
      /\ LastMeta(File, Len(File), retains) /\ path = {current}
  BY <1>1, <1>2, LogInUse
<1>4. /\ gens[current].synced = Len(File) /\ Exact(File, Len(File), commits, branches)
  BY <1>1, <1>2 DEF Durable, MemoryExact, Settled
<1>5. promised \in [Names -> Ids \union {NONE}] /\ retains \in [Names -> Ids \union {NONE}]
  BY DEF Durable, Answers, Sound, Types
<1>6. Answers'
  BY <1>1, <1>5 DEF Durable, Answers
<1>7. NamesKept(File, Len(File), Len(File), promised')
  BY <1>1, <1>3, <1>5, PromiseMore
<1>8. CommitsKept(File, Len(File), Len(File), LowOf(File), acked')
  BY <1>1, <1>3, <1>4
<1>9. /\ \A g \in Generations : gens'[g].file = gens[g].file
      /\ gens'[current].synced = Len(File) /\ Exact(File, Len(File), commits', branches')
      /\ state' # "opening" /\ job' = NoJob
  BY <1>1, <1>4
<1> QED BY <1>1, <1>2, <1>3, <1>6, <1>7, <1>8, <1>9, SyncedDurable

-----------------------------------------------------------------------------
(* Ends of a process. *)

\* The checkpoint is about synced records, which no step changes.
LEMMA CheckpointReads ==
  ASSUME Sound, CheckpointExact, checkpoint.gen \in path, NEW h,
         \A i \in 1..gens[checkpoint.gen].synced : h[i] = gens[checkpoint.gen].file[i]
  PROVE  /\ Exact(h, checkpoint.offset, checkpoint.commits, checkpoint.branches)
         /\ LastMeta(h, checkpoint.offset, checkpoint.retains)
<1>1. checkpoint.gen \in path
  OBVIOUS
<1>2. PICK g, start, known, heads, low, names :
        /\ g = checkpoint.gen /\ start = checkpoint.offset /\ known = checkpoint.commits
        /\ heads = checkpoint.branches /\ low = checkpoint.floors /\ names = checkpoint.retains
  OBVIOUS
<1>3. PICK f : f = gens[g].file
  OBVIOUS
<1>4. gens[g].synced \in Nat
  <2>1. Types
    BY DEF Sound
  <2> QED BY <1>1, <1>2, <2>1, GensTyped DEF Types
<1>5. start \in 1..gens[g].synced /\ View(f, start, known, heads, low)
  BY <1>1, <1>2, <1>3 DEF Sound, CheckpointSound
<1>6. Exact(f, start, known, heads) /\ LastMeta(f, start, names)
  BY <1>1, <1>2, <1>3 DEF CheckpointExact
<1>7. /\ start \in Nat /\ start <= start /\ (\A i \in 1..start : h[i] = f[i])
      /\ \A i \in (start + 1)..start : h[i].type # "ref" /\ h[i].type # "meta"
  BY <1>1, <1>2, <1>3, <1>4, <1>5
<1>8. Exact(h, start, known, heads)
  <2>1. heads \in Heads /\ CommitsSound(f, start, known) /\ HeadsSound(f, known, heads, low)
    BY <1>5 DEF View
  <2> QED BY <1>6, <1>7, <2>1, ExactGrows
<1>9. LastMeta(h, start, names)
  BY <1>6, <1>7, MetaStays
<1> QED BY <1>2, <1>3, <1>8, <1>9

LEMMA CheckpointStays ==
  ASSUME Sound, CheckpointExact, checkpoint' = checkpoint,
         checkpoint.gen \in path' => checkpoint.gen \in path,
         \A g \in path : \A i \in 1..gens[g].synced : gens'[g].file[i] = gens[g].file[i]
  PROVE  CheckpointExact'
<1> SUFFICES ASSUME checkpoint.gen \in path'
             PROVE  /\ Exact(gens'[checkpoint.gen].file, checkpoint.offset, checkpoint.commits,
                             checkpoint.branches)
                    /\ LastMeta(gens'[checkpoint.gen].file, checkpoint.offset, checkpoint.retains)
  BY DEF CheckpointExact
<1>1. PICK h : h = gens'[checkpoint.gen].file
  OBVIOUS
<1>2. \A i \in 1..gens[checkpoint.gen].synced : h[i] = gens[checkpoint.gen].file[i]
  BY <1>1
<1>3. /\ Exact(h, checkpoint.offset, checkpoint.commits, checkpoint.branches)
      /\ LastMeta(h, checkpoint.offset, checkpoint.retains)
  BY <1>2, CheckpointReads
<1> QED BY <1>1, <1>3

\* What a process leaves behind are its files.
LEMMA DownDurable ==
  ASSUME Answers', LogsSound', CheckpointExact', state' = "down", job' = NoJob
  PROVE  Durable'
<1>1. MemoryExact'
  BY DEF MemoryExact, Running
<1>2. JobExact'
  BY DEF JobExact, OpenExact, AppendExact, RetainExact, CopyExact, NoJob
<1> QED BY <1>1, <1>2 DEF Durable

\* close() is over.
LEMMA CloseEndsDurable ==
  ASSUME Sound, Durable, CloseEnds
  PROVE  Durable'
<1>1. /\ state = "closing" /\ job = NoJob /\ NoJob.kind = "idle" /\ state' = "down" /\ Synced
      /\ job' = NoJob /\ acked' = acked /\ promised' = promised
      /\ path' = path /\ current' = current /\ content' = content
      /\ checkpoint' = checkpoint \/ checkpoint' \in Sidecars(commits, branches)
  BY DEF CloseEnds, Ended, NoJob
<1>2. Types /\ Running
  BY <1>1 DEF Sound, Running
<1>3. /\ \A g \in Generations : gens'[g].file = gens[g].file
      /\ current \in Generations => gens'[current].synced = Len(File)
  BY <1>1, <1>2, SyncIs
<1>4. /\ current \in Generations /\ Len(File) \in Nat /\ gens[current].synced \in 0..Len(File)
      /\ CommitsKept(File, Len(File), gens[current].synced, LowOf(File), acked)
      /\ NamesKept(File, Len(File), gens[current].synced, promised)
      /\ path = {current}
  BY <1>1, <1>2, LogInUse
<1>5. Exact(File, Len(File), commits, branches) /\ gens[current].synced = Len(File)
  BY <1>1, <1>2 DEF Durable, MemoryExact, Settled
<1>6. Answers'
  BY <1>1 DEF Durable, Answers
<1> DEFINE known == commits
           heads == branches
<1>7. /\ CommitsKept(File, Len(File), Len(File), LowOf(File), acked')
      /\ NamesKept(File, Len(File), Len(File), promised')
      /\ gens'[current].synced = Len(File)
      /\ Exact(File, Len(File), known, heads)
      /\ checkpoint' = checkpoint \/ checkpoint' \in Sidecars(known, heads)
  BY <1>1, <1>3, <1>4, <1>5
<1> HIDE DEF known, heads
<1>8. LogsSound' /\ CheckpointExact'
  BY <1>1, <1>2, <1>3, <1>4, <1>6, <1>7, SyncedLogs
<1> QED BY <1>1, <1>6, <1>8, DownDurable

\* The process dies or the power fails.
LEMMA CrashDurable ==
  ASSUME Sound, Durable, Crash, Garbling = FALSE
  PROVE  Durable'
<1>1. /\ Running /\ state' = "down" /\ Ended
      /\ path' = path /\ current' = current /\ content' = content /\ checkpoint' = checkpoint
  BY CrashIs
<1>2. PICK keep \in gens[current].synced..Len(File), new \in Seq(Record) :
        /\ Length(new) = keep /\ keep <= Len(new)
        /\ \A i \in 1..keep : new[i] = File[i]
        /\ gens' = [gens EXCEPT ![current].file = new]
  BY CrashIs
<1>3. PICK f, s : f = File /\ s = gens[current].synced
  OBVIOUS
<1>4. Types /\ job' = NoJob /\ acked' = acked /\ promised' = promised
  BY <1>1 DEF Sound, Ended
<1>5. /\ current \in Generations /\ path \in SUBSET Generations
      /\ f \in Seq(Record) /\ Length(f) = Len(f) /\ Len(f) \in Nat /\ s \in 0..Len(f)
      /\ LogSound(f, Len(f)) /\ CommitsKept(f, Len(f), s, LowOf(f), acked)
      /\ NamesKept(f, Len(f), s, promised)
  BY <1>1, <1>3, <1>4, LogInUse DEF Types
<1>6. /\ FileSound(f, Len(f), s, content, LowOf(f))
      /\ LowOf(f) # NoFloors => \E i \in 1..s : f[i].type = "meta"
  BY <1>1, <1>3, RunningView
<1>7. keep \in 0..Len(f) /\ s \in 0..keep /\ s \in Nat /\ s <= s
  BY <1>2, <1>3, <1>5
<1>8. LowOf(new) = LowOf(f)
  <2>1. /\ s <= Length(new) /\ Length(new) <= Length(f) /\ \A i \in 1..Length(new) : new[i] = f[i]
        /\ FileSound(f, Length(f), s, content, LowOf(f))
    BY <1>2, <1>3, <1>5, <1>6, <1>7
  <2> QED BY <1>2, <1>5, <1>6, <1>7, <2>1, Truncated
<1>9. \A i \in 1..keep : new[i] = f[i]
  BY <1>2, <1>3
<1>10. LogSound(new, keep)
  BY <1>5, <1>7, <1>9, LogAgrees
<1>11. CommitsKept(new, keep, s, LowOf(f), acked) /\ NamesKept(new, keep, s, promised)
  BY <1>5, <1>7, <1>9, KeptAgrees
<1>12. \A g \in Generations :
         /\ gens'[g].file = IF g = current THEN new ELSE gens[g].file
         /\ gens'[g].synced = gens[g].synced
  BY <1>2, <1>4, <1>5 DEF Types, Generation
<1>13. LogsSound'
  <2> SUFFICES ASSUME NEW g \in path
               PROVE  Holding(gens[g].file, Length(gens[g].file), gens[g].synced, LowOf(gens[g].file))'
    BY <1>1 DEF LogsSound
  <2>1. CASE g = current
    <3>1. /\ gens'[g].file = new /\ gens'[g].synced = s /\ Length(gens'[g].file) = keep
          /\ LowOf(gens'[g].file) = LowOf(f)
      BY <1>2, <1>3, <1>5, <1>8, <1>12, <2>1
    <3> QED BY <1>4, <1>10, <1>11, <3>1 DEF Holding
  <2>2. CASE g # current
    <3>1. gens'[g].file = gens[g].file /\ gens'[g].synced = gens[g].synced
      BY <1>5, <1>12, <2>2
    <3>2. Holding(gens[g].file, Length(gens[g].file), gens[g].synced, LowOf(gens[g].file))
      BY DEF Durable, LogsSound
    <3> QED BY <1>4, <3>1, <3>2 DEF Holding
  <2> QED BY <2>1, <2>2
<1>14. CheckpointExact'
  <2>1. \A g \in path : \A i \in 1..gens[g].synced : gens'[g].file[i] = gens[g].file[i]
    <3> SUFFICES ASSUME NEW g \in path, NEW i \in 1..gens[g].synced
                 PROVE  gens'[g].file[i] = gens[g].file[i]
      OBVIOUS
    <3>1. CASE g = current
      <4>1. i \in 1..keep
        BY <1>3, <1>7, <3>1
      <4>2. gens'[g].file = new /\ gens[g].file = f
        BY <1>3, <1>5, <1>12, <3>1 DEF File
      <4> QED BY <1>9, <4>1, <4>2
    <3>2. CASE g # current
      BY <1>5, <1>12, <3>2
    <3> QED BY <3>1, <3>2
  <2>2. CheckpointExact
    BY DEF Durable
  <2> QED BY <1>1, <2>1, <2>2, CheckpointStays
<1>15. Answers'
  BY <1>1, <1>4 DEF Durable, Answers
<1> QED BY <1>1, <1>4, <1>13, <1>14, <1>15, DownDurable

-----------------------------------------------------------------------------
(* What an operation appends. *)

\* The engine when it is an operation's turn.
LEMMA AtRest ==
  ASSUME Sound, Durable, state = "open", job = NoJob
  PROVE  /\ Running /\ Serving /\ Types /\ Answers
         /\ current \in path /\ current \in Generations /\ path = {current}
         /\ File \in Seq(Record) /\ Len(File) \in Nat /\ Length(File) = Len(File)
         /\ FileAndMemory(gens[current].synced) /\ gens[current].synced = Len(File)
         /\ LogSound(File, Len(File))
         /\ CommitsKept(File, Len(File), Len(File), LowOf(File), acked)
         /\ NamesKept(File, Len(File), Len(File), promised)
         /\ LastMeta(File, Len(File), retains)
         /\ Exact(File, Len(File), commits, branches)
         /\ branches \in Heads /\ \A b \in Branches : branches[b].sequence \in Nat
         /\ \A c : Named(File, Len(File), c) => c \in DOMAIN commits /\ c \in DOMAIN content
<1>1. Running /\ Serving /\ job.kind = "idle"
  BY DEF Running, Serving, NoJob
<1>2. /\ gens[current].synced = Len(File) /\ Exact(File, Len(File), commits, branches)
  BY <1>1 DEF Durable, MemoryExact, Settled
<1>3. FileAndMemory(gens[current].synced)
  BY <1>1, ServingView
<1>4. branches \in Heads /\ \A b \in Branches : branches[b].sequence \in Nat
  BY DEF Sound, Types, Heads, Branch
<1>5. ASSUME NEW c, Named(File, Len(File), c)
      PROVE  c \in DOMAIN commits /\ c \in DOMAIN content
  <2>1. c \in DOMAIN commits
    BY <1>2, <1>5 DEF Named, Exact, RefsHeld
  <2> QED BY <1>3, <2>1, RecordsAt
<1>6. Answers
  BY DEF Durable
<1>7. /\ Types /\ current \in path /\ current \in Generations /\ File \in Seq(Record)
      /\ Length(File) = Len(File) /\ Len(File) \in Nat
      /\ LogSound(File, Len(File))
      /\ CommitsKept(File, Len(File), gens[current].synced, LowOf(File), acked)
      /\ NamesKept(File, Len(File), gens[current].synced, promised)
      /\ LastMeta(File, Len(File), retains)
      /\ job.kind # "install" => path = {current}
  BY <1>1, LogInUse
<1> QED BY <1>1, <1>2, <1>3, <1>4, <1>5, <1>6, <1>7

\* What is appended goes on from a log that holds what was answered.
LEMMA AppendDurable ==
  ASSUME Sound, Durable, Sound', state = "open", job = NoJob,
         NEW new \in Seq(Record), Append_(new),
         UNCHANGED <<path, checkpoint, state, current, commits, branches, acked>>,
         NEW g, g = File \o new,
         Follows(File, Len(File), g, Len(g)), Spares(File, Len(File), g, Len(g), acked, promised'),
         NamesKept(File, Len(File), Len(File), promised'),
         Answers', LastMeta(g, Len(g), retains'),
         job'.kind \in {"commit", "create", "retain", "release"},
         job'.kind \in {"commit", "create"} => job'.from = Len(File),
         job'.kind \in {"retain", "release"} => \A i \in (Len(File) + 1)..Len(g) : g[i].type # "ref",
         File' = g /\ gens'[current].synced = Len(File) => AppendExact' /\ RetainExact'
  PROVE  Durable'
<1> DEFINE n == Len(File)
           m == Len(g)
<1>1. /\ Running /\ Types /\ current \in path /\ current \in Generations /\ path = {current}
      /\ File \in Seq(Record) /\ n \in Nat /\ Length(File) = n
      /\ FileAndMemory(gens[current].synced) /\ gens[current].synced = n
      /\ LogSound(File, n) /\ CommitsKept(File, n, n, LowOf(File), acked)
      /\ LastMeta(File, n, retains) /\ Exact(File, n, commits, branches) /\ branches \in Heads
  BY AtRest
<1>2. /\ g \in Seq(Record) /\ m \in Nat /\ n <= m /\ \A i \in 1..n : g[i] = File[i]
  <2>1. /\ g \in Seq(Record) /\ Len(g) = Len(File) + Len(new)
        /\ \A i \in 1..Len(File) : g[i] = File[i]
    BY <1>1, TwoParts
  <2>2. Len(new) \in Nat
    OBVIOUS
  <2> QED BY <1>1, <2>1, <2>2
<1>3. \A x \in Generations :
        /\ gens'[x].file = IF x = current THEN g ELSE gens[x].file
        /\ gens'[x].synced = gens[x].synced
  BY <1>1, FileGrows
<1>4. File' = g /\ gens'[current].synced = n
  BY <1>1, <1>3 DEF File
<1>5. Running' /\ job'.kind \notin {"open", "idle", "collect", "install"} /\ state' # "opening"
  BY DEF Running
<1> HIDE DEF n, m
<1>6. /\ Length(g) = m
      /\ FileSound(g, m, n, content', LowOf(g))
  <2>1. FilesSound' /\ current' = current /\ path' = path
    BY DEF Sound
  <2>2. gens'[current].file = g
    BY <1>1, <1>3
  <2> QED BY <1>1, <1>4, <1>5, <2>1, <2>2 DEF FilesSound, m
<1>7. LowOf(g) = LowOf(File)
  <2>1. PICK k \in 1..n : File[k].type = "meta"
    BY <1>1 DEF LastMeta
  <2>2. k \in 1..m /\ g[k] = File[k]
    <3>1. n \in Nat /\ m \in Nat /\ n <= m
      BY <1>1, <1>2
    <3>2. k \in 1..m
      BY <3>1
    <3>3. g[k] = File[k]
      BY <1>2, <2>1, Zenon
    <3> QED BY <3>2, <3>3
  <2>3. RecordSound(g, k, content', LowOf(g))
    BY <1>2, <1>6, <2>2, FileSoundIs
  <2>4. FileSound(File, n, gens[current].synced, content, LowOf(File))
    BY <1>1 DEF FileAndMemory, n
  <2>5. RecordSound(File, k, content, LowOf(File))
    BY <1>1, <2>1, <2>4, FileSoundIs
  <2> QED BY <2>1, <2>2, <2>3, <2>5 DEF RecordSound
<1>8. Follows(File, n, g, m) /\ Spares(File, n, g, m, acked, promised')
      /\ NamesKept(File, n, n, promised')
  BY DEF n, m
<1>9. LogSound(g, m)
  BY <1>1, <1>2, <1>8, LogGrows
<1>10. CommitsKept(g, m, n, LowOf(File), acked) /\ NamesKept(g, m, n, promised')
  <2>1. n \in 0..n
    BY <1>1
  <2> QED BY <1>1, <1>2, <1>8, <2>1, KeptGrows
<1>11. LogsSound'
  <2> SUFFICES ASSUME NEW x \in path
               PROVE  Holding(gens[x].file, Length(gens[x].file), gens[x].synced, LowOf(gens[x].file))'
    BY DEF LogsSound
  <2>1. x = current
    BY <1>1
  <2>2. /\ gens'[x].file = g /\ gens'[x].synced = n /\ Length(gens'[x].file) = m
        /\ LowOf(gens'[x].file) = LowOf(File)
    BY <1>1, <1>3, <1>6, <1>7, <2>1
  <2> QED BY <1>9, <1>10, <2>2 DEF Holding
<1>12. CheckpointExact'
  <2>1. CheckpointExact
    BY DEF Durable
  <2>2. \A x \in path : \A i \in 1..gens[x].synced : gens'[x].file[i] = gens[x].file[i]
    BY <1>1, <1>2, <1>3 DEF File
  <2> QED BY <2>1, <2>2, CheckpointStays
<1>13. CommitsSound(File, n, commits) /\ HeadsSound(File, commits, branches, floors)
  BY <1>1 DEF FileAndMemory, View, n
<1>14. Exact(g, Settled', commits, branches)
  <2>1. CASE job'.kind \in {"commit", "create"}
    <3>1. Settled' = n
      BY <2>1 DEF Settled, n
    <3>2. n <= n /\ \A i \in (n + 1)..n : g[i].type # "ref"
      BY <1>1
    <3> QED BY <1>1, <1>2, <1>13, <3>1, <3>2, ExactGrows
  <2>2. CASE job'.kind \in {"retain", "release"}
    <3>1. Settled' = m
      BY <1>4, <2>2 DEF Settled, m
    <3>2. \A i \in (n + 1)..m : g[i].type # "ref"
      BY <2>2 DEF n, m
    <3> QED BY <1>1, <1>2, <1>13, <3>1, <3>2, ExactGrows
  <2> QED BY <2>1, <2>2
<1>15. MemoryExact'
  <2>1. LastMeta(File', Len(File'), retains')
    BY <1>4
  <2> QED BY <1>1, <1>4, <1>5, <1>14, <2>1 DEF MemoryExact
<1>16. JobExact'
  <2>1. AppendExact' /\ RetainExact'
    BY <1>4 DEF n
  <2> QED BY <1>5, <2>1 DEF JobExact, OpenExact, CopyExact
<1> QED BY <1>11, <1>12, <1>15, <1>16 DEF Durable

\* A file with a publication behind it.
Publishes(f, pages, commit, ref, new, g) ==
  /\ f \in Seq(Record) /\ pages \in Seq(Record) /\ commit \in Record /\ ref \in Record
  /\ \A i \in 1..Len(pages) : pages[i].type = "page"
  /\ new = pages \o <<commit, ref>> /\ g = f \o new

\* The records of a publication.
LEMMA PublicationIs ==
  ASSUME NEW f, NEW pages, NEW commit, NEW ref, NEW new, NEW g,
         Publishes(f, pages, commit, ref, new, g)
  PROVE  /\ new \in Seq(Record) /\ Len(f) \in Nat /\ Len(f) + 2 <= Len(g)
         /\ \A i \in 1..Len(f) : g[i] = f[i]
         /\ \A i \in (Len(f) + 1)..Len(g) : /\ i = Len(g) => g[i] = ref
                                            /\ i = Len(g) - 1 => g[i] = commit
                                            /\ i \in {Len(g), Len(g) - 1} \/ g[i].type = "page"
<1> DEFINE two == <<commit, ref>>
           p == Len(pages)
           n == Len(f)
<1> USE DEF Publishes
<1>1. two \in Seq(Record) /\ Len(two) = 2 /\ two[1] = commit /\ two[2] = ref /\ new = pages \o two
  OBVIOUS
<1> HIDE DEF two
<1>2. /\ new \in Seq(Record) /\ Len(new) = Len(pages) + Len(two)
      /\ \A i \in 1..Len(pages) : new[i] = pages[i]
      /\ \A i \in 1..Len(two) : new[Len(pages) + i] = two[i]
  BY <1>1, TwoParts
<1>3. p \in Nat /\ n \in Nat /\ Len(new) = p + 2
  BY <1>1, <1>2
<1>4. new[p + 1] = commit /\ new[p + 2] = ref
  <2>1. 1 \in 1..Len(two) /\ 2 \in 1..Len(two)
    BY <1>1
  <2> QED BY <1>1, <1>2, <2>1
<1>5. /\ Len(g) = Len(f) + Len(new)
      /\ \A i \in 1..Len(f) : g[i] = f[i]
      /\ \A i \in 1..Len(new) : g[Len(f) + i] = new[i]
  BY <1>2, TwoParts
<1>6. ASSUME NEW i \in (n + 1)..Len(g)
      PROVE  /\ i = Len(g) => g[i] = ref
             /\ i = Len(g) - 1 => g[i] = commit
             /\ i \in {Len(g), Len(g) - 1} \/ g[i].type = "page"
  <2> DEFINE j == i - n
  <2>1. j \in 1..Len(new) /\ n + j = i
    BY <1>3, <1>5
  <2>2. g[i] = new[j]
    BY <1>5, <2>1
  <2>3. /\ i = Len(g) => j = p + 2
        /\ i = Len(g) - 1 => j = p + 1
        /\ i # Len(g) /\ i # Len(g) - 1 => j \in 1..p
    BY <1>3, <1>5, <2>1
  <2> HIDE DEF j
  <2>4. j \in 1..p => g[i].type = "page"
    BY <1>2, <2>2
  <2> QED BY <1>4, <2>2, <2>3, <2>4
<1>7. Len(f) + 2 <= Len(g)
  BY <1>3, <1>5
<1> QED BY <1>2, <1>3, <1>5, <1>6, <1>7

\* A publication names a commit of which there was no word, at the next place of its branch.
LEMMA PublicationFollows ==
  ASSUME Sound, Durable, state = "open", job = NoJob,
         NEW b \in Branches, branches[b].head # NONE, NEW id, id \notin DOMAIN content,
         NEW q, q = branches[b].sequence + 1,
         NEW commit, commit.type = "commit", commit.id = id, commit.branch = b, commit.sequence = q,
         NEW ref, ref.type = "ref", ref.operation = "commit", ref.head = id, ref.branch = b,
         ref.sequence = q,
         NEW g, NEW m \in Nat, Len(File) + 2 <= m, \A i \in 1..Len(File) : g[i] = File[i],
         \A i \in (Len(File) + 1)..m : /\ i = m => g[i] = ref
                                       /\ i = m - 1 => g[i] = commit
                                       /\ i \in {m, m - 1} \/ g[i].type = "page"
  PROVE  /\ Follows(File, Len(File), g, m) /\ Spares(File, Len(File), g, m, acked, promised)
         /\ LastMeta(g, m, retains)
         /\ \A i \in (Len(File) + 1)..m : g[i].type # "meta" /\ (g[i].type = "ref" => g[i] = ref)
         /\ \E i \in (Len(File) + 1)..m : g[i].type = "ref"
<1> DEFINE n == Len(File)
<1>1. /\ Types /\ File \in Seq(Record) /\ n \in Nat
      /\ FileAndMemory(gens[current].synced)
      /\ CommitsKept(File, n, n, LowOf(File), acked) /\ LastMeta(File, n, retains)
      /\ Exact(File, n, commits, branches) /\ Answers
      /\ \A x \in Branches : branches[x].sequence \in Nat
      /\ \A c : Named(File, n, c) => c \in DOMAIN content
  BY AtRest
<1>2. \A i \in 1..n : File[i].type = "commit" => File[i].id \in DOMAIN content
  <2>1. FileSound(File, n, gens[current].synced, content, LowOf(File))
    BY <1>1 DEF FileAndMemory
  <2>2. \A i \in 1..n : RecordSound(File, i, content, LowOf(File))
    BY <1>1, <2>1, FileSoundIs
  <2> QED BY <2>2 DEF RecordSound
<1> HIDE DEF n
<1>3. \A i \in (n + 1)..m : /\ i = m => g[i] = ref
                            /\ i = m - 1 => g[i] = commit
                            /\ i \in {m, m - 1} \/ g[i].type = "page"
  BY DEF n
<1>4. n <= m /\ n + 2 <= m /\ \A i \in 1..n : g[i] = File[i]
  BY <1>1 DEF n
<1>5. \A i \in (n + 1)..m :
        /\ g[i].type \in {"page", "commit", "ref"}
        /\ g[i].type = "commit" => g[i] = commit
        /\ g[i].type = "ref" => i = m /\ g[i] = ref
  <2> SUFFICES ASSUME NEW i \in (n + 1)..m
               PROVE  /\ g[i].type \in {"page", "commit", "ref"}
                      /\ g[i].type = "commit" => g[i] = commit
                      /\ g[i].type = "ref" => i = m /\ g[i] = ref
    OBVIOUS
  <2>1. CASE i = m
    BY <1>3, <2>1
  <2>2. CASE i = m - 1
    BY <1>3, <2>2
  <2>3. CASE i # m /\ i # m - 1
    BY <1>3, <2>3
  <2> QED BY <2>1, <2>2, <2>3
<1>6. q > 0 /\ q \in Nat /\ q > branches[b].sequence
  BY <1>1
<1>7. Follows(File, n, g, m)
  <2>1. ASSUME NEW j \in (n + 1)..m, g[j].type = "commit" PROVE ~Named(File, n, g[j].id)
    BY <1>1, <1>5, <2>1
  <2>2. ASSUME NEW i \in (n + 1)..m, g[i].type = "ref"
        PROVE  /\ g[i].operation = "commit" /\ g[i].sequence > 0
               /\ \A j \in 1..n : File[j].type = "commit" => File[j].id # g[i].head
               /\ \A j \in (n + 1)..m : g[j].type = "commit" /\ g[j].id = g[i].head =>
                    g[j].branch = g[i].branch /\ g[j].sequence = g[i].sequence
    BY <1>2, <1>5, <1>6, <2>2
  <2>3. \A i, k \in (n + 1)..m : g[i].type = "ref" /\ g[k].type = "ref" => i = k
    BY <1>5
  <2>4. \A i \in (n + 1)..m : g[i].type # "meta"
    BY <1>5
  <2> QED BY <1>4, <2>1, <2>2, <2>3, <2>4 DEF Follows
<1>8. Spares(File, n, g, m, acked, promised)
  <2>1. ASSUME NEW i \in (n + 1)..m, g[i].type = "ref"
        PROVE  \A j \in 1..n : File[j].type = "commit" => File[j].id # g[i].head
    BY <1>2, <1>5, <2>1
  <2>2. ASSUME NEW j \in (n + 1)..m, g[j].type = "commit", NEW a \in acked, a.branch = g[j].branch
        PROVE  a.sequence # g[j].sequence
    <3>1. g[j].branch = b /\ g[j].sequence = q
      BY <1>5, <2>2
    <3>2. PICK i \in 1..n : /\ File[i].type = "ref" /\ File[i].branch = a.branch
                            /\ File[i].sequence >= a.sequence
      BY <1>1 DEF CommitsKept
    <3>3. File[i].sequence <= branches[b].sequence
      BY <1>1, <2>2, <3>1, <3>2 DEF Exact, RefsHeld
    <3>4. File[i].sequence \in Nat /\ a.sequence \in Nat /\ branches[b].sequence \in Nat
      <4>1. i \in 1..Len(File)
        BY <3>2 DEF n
      <4> QED BY <1>1, <3>2, <4>1, FileTyped, RecordKinds DEF Answers
    <3> QED BY <1>6, <3>1, <3>2, <3>3, <3>4
  <2>3. \A i \in (n + 1)..m : g[i].type # "meta"
    BY <1>5
  <2> QED BY <1>4, <2>1, <2>2, <2>3 DEF Spares
<1>9. LastMeta(g, m, retains)
  <2>1. \A i \in (n + 1)..m : g[i].type # "meta"
    BY <1>5
  <2> QED BY <1>1, <1>4, <2>1, MetaStays
<1>10. \E i \in (n + 1)..m : g[i].type = "ref"
  <2>1. m \in (n + 1)..m
    BY <1>1, <1>4
  <2> QED BY <1>3, <2>1
<1>11. \A i \in (n + 1)..m : g[i].type # "meta" /\ (g[i].type = "ref" => g[i] = ref)
  BY <1>5
<1> QED BY <1>7, <1>8, <1>9, <1>10, <1>11 DEF n

\* commitNow up to its sync.
\* A commit's records are appended.
Commits(b, pages, commit, ref, new, g) ==
  /\ Publishes(File, pages, commit, ref, new, g) /\ Append_(new)
  /\ commit.type = "commit" /\ commit.id = Fresh /\ commit.branch = b
  /\ commit.sequence = branches[b].sequence + 1
  /\ ref.type = "ref" /\ ref.operation = "commit" /\ ref.head = Fresh
  /\ ref.branch = b /\ ref.sequence = branches[b].sequence + 1
  /\ job'.kind = "commit" /\ job'.id = Fresh /\ job'.branch = b
  /\ job'.sequence = branches[b].sequence + 1 /\ job'.from = Len(File)

LEMMA CommitPublishes ==
  ASSUME Sound, Durable, NEW b \in Branches, Commit(b)
  PROVE  \E pages, commit, ref, new, g : Commits(b, pages, commit, ref, new, g)
<1> DEFINE parent == branches[b].head
           n == Len(File)
           q == branches[b].sequence + 1
<1>1. /\ state = "open" /\ job = NoJob /\ branches[b].head # NONE /\ Fresh \in Ids
      /\ UNCHANGED <<path, checkpoint, state, current, commits, branches, retains, acked, promised>>
  BY DEF Commit, MyTurn, Exists, memoryVars
<1>2. PICK writes \in BOOLEAN :
        LET pages == IF writes THEN <<Page(Fresh)>> ELSE <<>> IN
        /\ Append_(Publication(pages, CommitRecord(Fresh, b, q, IF writes THEN n + 1 ELSE File[commits[parent]].tree),
                               RefRecord("commit", b, Fresh, q)))
        /\ content' = With(content, Fresh, IF writes THEN Fresh ELSE content[parent])
        /\ job' = [kind |-> "commit", id |-> Fresh, branch |-> b, sequence |-> q,
                   from |-> n, at |-> n + Len(pages) + 1]
  BY DEF Commit
<1>3. PICK pages : pages = IF writes THEN <<Page(Fresh)>> ELSE <<>>
  OBVIOUS
<1>4. PICK tree : tree = IF writes THEN n + 1 ELSE File[commits[parent]].tree
  OBVIOUS
<1>5. /\ Types /\ Answers /\ File \in Seq(Record) /\ n \in Nat /\ path = {current}
      /\ FileAndMemory(gens[current].synced) /\ branches[b].sequence \in Nat
      /\ NamesKept(File, n, n, promised)
  BY <1>1, AtRest
<1>6. tree \in Nat
  <2>1. parent \in DOMAIN commits
    BY <1>1, <1>5 DEF FileAndMemory, View, HeadsSound
  <2>2. RecordAt(parent) = File[commits[parent]] /\ RecordAt(parent).tree \in Nat
    BY <1>5, <2>1, RecordsAt
  <2> QED BY <1>4, <1>5, <2>2
<1>7. pages \in Seq(Record) /\ \A i \in 1..Len(pages) : pages[i].type = "page"
  <2>1. Page(Fresh) \in Record /\ Page(Fresh).type = "page"
    BY <1>1, RecordsMade DEF Page
  <2>2. CASE writes
    <3>1. pages = <<Page(Fresh)>>
      BY <1>3, <2>2
    <3> QED BY <2>1, <3>1
  <2>3. CASE ~writes
    <3>1. pages = <<>>
      BY <1>3, <2>3
    <3> QED BY <3>1
  <2> QED BY <2>2, <2>3
<1>8. PICK commit, ref : /\ commit = CommitRecord(Fresh, b, q, tree)
                         /\ ref = RefRecord("commit", b, Fresh, q)
  OBVIOUS
<1>9. /\ commit \in Record /\ commit.type = "commit" /\ commit.id = Fresh /\ commit.branch = b
      /\ commit.sequence = q
      /\ ref \in Record /\ ref.type = "ref" /\ ref.operation = "commit" /\ ref.head = Fresh
      /\ ref.branch = b /\ ref.sequence = q
  <2>1. commit \in Record /\ ref \in Record
    BY <1>1, <1>5, <1>6, <1>8, RecordsMade
  <2> QED BY <1>8, <2>1 DEF CommitRecord, RefRecord
<1>10. PICK new : new = pages \o <<commit, ref>>
  OBVIOUS
<1>11. PICK g : g = File \o new
  OBVIOUS
<1>12. /\ Append_(new)
       /\ job'.kind = "commit" /\ job'.id = Fresh /\ job'.branch = b /\ job'.sequence = q /\ job'.from = n
  BY <1>2, <1>3, <1>4, <1>8, <1>10 DEF Publication
<1>13. Publishes(File, pages, commit, ref, new, g)
  BY <1>5, <1>7, <1>9, <1>10, <1>11 DEF Publishes
<1>14. Commits(b, pages, commit, ref, new, g)
  BY <1>9, <1>12, <1>13 DEF Commits
<1> QED BY <1>14

LEMMA CommitDurable ==
  ASSUME Sound, Durable, Sound', NEW b \in Branches, Commit(b)
  PROVE  Durable'
<1> DEFINE n == Len(File)
           q == branches[b].sequence + 1
<1>1. /\ state = "open" /\ job = NoJob /\ branches[b].head # NONE /\ Fresh \in Ids
      /\ UNCHANGED <<path, checkpoint, state, current, commits, branches, retains, acked, promised>>
  BY DEF Commit, MyTurn, Exists, memoryVars
<1>2. DOMAIN content \subseteq DOMAIN content'
  BY DEF Commit, With
<1>3. PICK pages, commit, ref, new, g : Commits(b, pages, commit, ref, new, g)
  BY CommitPublishes
<1>4. /\ Types /\ Answers /\ File \in Seq(Record) /\ n \in Nat /\ path = {current}
      /\ FileAndMemory(gens[current].synced) /\ branches[b].sequence \in Nat
      /\ NamesKept(File, n, n, promised)
  BY <1>1, AtRest
<1>5. PICK id : id = Fresh
  OBVIOUS
<1>6. /\ commit \in Record /\ commit.type = "commit" /\ commit.id = id /\ commit.branch = b
      /\ commit.sequence = q
      /\ ref \in Record /\ ref.type = "ref" /\ ref.operation = "commit" /\ ref.head = id
      /\ ref.branch = b /\ ref.sequence = q
  BY <1>3, <1>5 DEF Commits, Publishes
<1>7. g = File \o new
  BY <1>3 DEF Commits, Publishes
<1>8. /\ Append_(new)
       /\ job'.kind = "commit" /\ job'.id = id /\ job'.branch = b /\ job'.sequence = q /\ job'.from = n
  BY <1>3, <1>5 DEF Commits
<1>9. id \notin DOMAIN content
  BY <1>4, <1>5, FreshIs
<1>10. /\ new \in Seq(Record) /\ n + 2 <= Len(g) /\ Len(g) \in Nat
       /\ \A i \in 1..n : g[i] = File[i]
       /\ \A i \in (n + 1)..Len(g) : /\ i = Len(g) => g[i] = ref
                                     /\ i = Len(g) - 1 => g[i] = commit
                                     /\ i \in {Len(g), Len(g) - 1} \/ g[i].type = "page"
  <2>1. /\ new \in Seq(Record) /\ Len(File) + 2 <= Len(g)
        /\ \A i \in 1..Len(File) : g[i] = File[i]
        /\ \A i \in (Len(File) + 1)..Len(g) : /\ i = Len(g) => g[i] = ref
                                              /\ i = Len(g) - 1 => g[i] = commit
                                              /\ i \in {Len(g), Len(g) - 1} \/ g[i].type = "page"
    <3>1. PICK f : f = File
      OBVIOUS
    <3>2. Publishes(f, pages, commit, ref, new, g)
      BY <1>3, <3>1 DEF Commits
    <3> HIDE DEF n, q
    <3>3. /\ new \in Seq(Record) /\ Len(f) \in Nat /\ Len(f) + 2 <= Len(g)
          /\ \A i \in 1..Len(f) : g[i] = f[i]
          /\ \A i \in (Len(f) + 1)..Len(g) : /\ i = Len(g) => g[i] = ref
                                             /\ i = Len(g) - 1 => g[i] = commit
                                             /\ i \in {Len(g), Len(g) - 1} \/ g[i].type = "page"
      BY <3>2, PublicationIs
    <3> QED BY <3>1, <3>3
  <2>2. g \in Seq(Record)
    BY <1>4, <1>7, <2>1, TwoParts
  <2> QED BY <2>1, <2>2
<1> DEFINE m == Len(g)
<1>11. /\ Follows(File, n, g, m) /\ Spares(File, n, g, m, acked, promised)
       /\ LastMeta(g, m, retains)
       /\ \A i \in (n + 1)..m : g[i].type # "meta" /\ (g[i].type = "ref" => g[i] = ref)
       /\ \E i \in (n + 1)..m : g[i].type = "ref"
  <2> HIDE DEF m
  <2>1. /\ m \in Nat /\ Len(File) + 2 <= m /\ \A i \in 1..Len(File) : g[i] = File[i]
        /\ \A i \in (Len(File) + 1)..m : /\ i = m => g[i] = ref
                                         /\ i = m - 1 => g[i] = commit
                                         /\ i \in {m, m - 1} \/ g[i].type = "page"
    BY <1>10 DEF m
  <2>2. q = branches[b].sequence + 1
    OBVIOUS
  <2> HIDE DEF q
  <2> QED BY <1>1, <1>6, <1>9, <2>1, <2>2, PublicationFollows
<1>12. Answers'
  BY <1>1, <1>2, <1>4 DEF Answers
<1>13. ASSUME File' = g, gens'[current].synced = Len(File) PROVE AppendExact' /\ RetainExact'
  <2>1. /\ \A i \in (n + 1)..m : g[i].type # "meta" /\ (g[i].type = "ref" => g[i] = ref)
        /\ \E i \in (n + 1)..m : g[i].type = "ref"
    BY <1>11
  <2>2. n \in 0..Len(g) /\ n <= n /\ current' = current
    BY <1>1, <1>4, <1>10
  <2> HIDE DEF q, n
  <2>3. \A i \in (job'.from + 1)..Len(g) :
          /\ g[i].type # "meta"
          /\ g[i].type = "ref" =>
               /\ g[i].operation = job'.kind /\ g[i].branch = job'.branch /\ g[i].head = job'.id
               /\ g[i].sequence = IF job'.kind = "commit" THEN job'.sequence ELSE 0
    BY <1>6, <1>8, <2>1
  <2>4. AppendExact'
    BY <1>8, <1>13, <2>1, <2>2, <2>3 DEF AppendExact, n
  <2>5. RetainExact'
    BY <1>8 DEF RetainExact
  <2> QED BY <2>4, <2>5
<1>14. /\ Spares(File, Len(File), g, Len(g), acked, promised')
       /\ NamesKept(File, Len(File), Len(File), promised') /\ LastMeta(g, Len(g), retains')
       /\ Follows(File, Len(File), g, Len(g))
  BY <1>1, <1>4, <1>11
<1>15. /\ job'.kind \in {"commit", "create", "retain", "release"} /\ job'.from = Len(File)
       /\ job'.kind \notin {"retain", "release"} /\ new \in Seq(Record) /\ Append_(new)
  BY <1>8, <1>10
<1> QED BY <1>1, <1>7, <1>12, <1>13, <1>14, <1>15, AppendDurable

\* A file with one record behind it.
LEMMA OneBehind ==
  ASSUME NEW f \in Seq(Record), NEW record \in Record, NEW g, g = f \o <<record>>
  PROVE  /\ <<record>> \in Seq(Record) /\ Len(f) \in Nat /\ Len(g) = Len(f) + 1
         /\ g[Len(g)] = record /\ \A i \in 1..Len(f) : g[i] = f[i]
<1> DEFINE new == <<record>>
<1>1. new \in Seq(Record) /\ Len(new) = 1 /\ new[1] = record /\ g = f \o new
  OBVIOUS
<1> HIDE DEF new
<1>2. /\ Len(g) = Len(f) + Len(new) /\ (\A i \in 1..Len(f) : g[i] = f[i])
      /\ \A i \in 1..Len(new) : g[Len(f) + i] = new[i]
  BY <1>1, TwoParts
<1>3. 1 \in 1..Len(new) /\ Len(f) \in Nat
  BY <1>1
<1>4. g[Len(f) + 1] = record
  BY <1>1, <1>2, <1>3
<1> QED BY <1>1, <1>2, <1>3, <1>4 DEF new

\* A ref that creates a branch which no ref has created.
Creates(record) ==
  /\ record.type = "ref" /\ record.operation = "create" /\ record.sequence = 0
  /\ \A k \in 1..Len(File) : File[k].type = "ref" => File[k].branch # record.branch
  /\ Named(File, Len(File), record.head)
  /\ retains' = retains /\ promised' = promised
  /\ job'.kind = "create" /\ job'.from = Len(File)
  /\ job'.branch = record.branch /\ job'.id = record.head

\* Metadata with the names as they are now, of commits that are there.
Records(record) ==
  /\ record.type = "meta" /\ record.retains = retains'
  /\ \A name \in Names :
       /\ retains'[name] # NONE => Named(File, Len(File), retains'[name])
       /\ promised'[name] # NONE => retains'[name] = promised'[name]
  /\ job'.kind \in {"retain", "release"}
  /\ job'.kind = "retain" => job'.name \in Names /\ retains'[job'.name] = job'.id

\* An operation that appends one record, up to its sync.
LEMMA OneDurable ==
  ASSUME Sound, Durable, Sound', state = "open", job = NoJob,
         NEW record \in Record, Append_(<<record>>), Creates(record) \/ Records(record),
         UNCHANGED <<path, checkpoint, state, current, commits, branches, content, acked>>,
         promised' \in [Names -> Ids \union {NONE}], NamesKept(File, Len(File), Len(File), promised')
  PROVE  Durable'
<1> DEFINE n == Len(File)
<1>1. /\ Types /\ Answers /\ File \in Seq(Record) /\ n \in Nat
      /\ gens[current].synced = n /\ LastMeta(File, n, retains)
      /\ \A c : Named(File, n, c) => c \in DOMAIN commits /\ c \in DOMAIN content
  BY AtRest
<1>2. PICK g : g = File \o <<record>>
  OBVIOUS
<1>3. /\ <<record>> \in Seq(Record) /\ Len(g) = n + 1 /\ g[n + 1] = record
      /\ \A i \in 1..n : g[i] = File[i]
  <2>1. PICK f : f = File
    OBVIOUS
  <2>2. f \in Seq(Record) /\ g = f \o <<record>>
    BY <1>1, <1>2, <2>1
  <2> HIDE DEF n
  <2>3. /\ <<record>> \in Seq(Record) /\ Len(f) \in Nat /\ Len(g) = Len(f) + 1
        /\ g[Len(g)] = record /\ \A i \in 1..Len(f) : g[i] = f[i]
    BY <2>2, OneBehind
  <2> QED BY <2>1, <2>3 DEF n
<1> HIDE DEF n
<1>4. \A i \in (n + 1)..Len(g) : i = n + 1 /\ g[i] = record
  BY <1>1, <1>3
<1>5. Answers'
  BY <1>1 DEF Answers
<1>6. CASE Creates(record)
  <2>1. /\ record.type = "ref" /\ record.operation = "create" /\ record.sequence = 0
        /\ \A k \in 1..n : File[k].type = "ref" => File[k].branch # record.branch
        /\ Named(File, n, record.head)
        /\ retains' = retains /\ promised' = promised
        /\ job'.kind = "create" /\ job'.from = n
        /\ job'.branch = record.branch /\ job'.id = record.head
    BY <1>6 DEF Creates, n
  <2>2. Follows(File, n, g, Len(g))
    <3>1. \A i \in (n + 1)..Len(g) : g[i].type = "ref"
      BY <1>4, <2>1
    <3>2. \A i \in (n + 1)..Len(g) : g[i].operation = "create" /\ g[i].sequence = 0
                                     /\ \A k \in 1..n : File[k].type = "ref" =>
                                          File[k].branch # g[i].branch
      BY <1>4, <2>1
    <3>3. \A i, k \in (n + 1)..Len(g) : i = k
      BY <1>4
    <3> QED BY <1>3, <3>1, <3>2, <3>3 DEF Follows
  <2>3. Spares(File, n, g, Len(g), acked, promised')
    <3>1. \A i \in (n + 1)..Len(g) : g[i].type = "ref" /\ Named(File, n, g[i].head)
      BY <1>4, <2>1
    <3> QED BY <1>3, <3>1 DEF Spares
  <2>4. LastMeta(g, Len(g), retains')
    <3>1. \A i \in (n + 1)..Len(g) : g[i].type # "meta"
      BY <1>4, <2>1
    <3>2. n \in Nat /\ Len(g) \in Nat /\ n <= Len(g)
      BY <1>1, <1>3
    <3>3. LastMeta(g, Len(g), retains)
      BY <1>1, <1>3, <3>1, <3>2, MetaStays
    <3> QED BY <2>1, <3>3
  <2>5. ASSUME File' = g, gens'[current].synced = n PROVE AppendExact' /\ RetainExact'
    <3>1. n \in 0..Len(g) /\ n <= n /\ current' = current /\ n + 1 \in (n + 1)..Len(g)
      BY <1>1, <1>3
    <3>2. \A i \in (n + 1)..Len(g) :
            /\ g[i].type # "meta"
            /\ g[i].type = "ref" =>
                 /\ g[i].operation = job'.kind /\ g[i].branch = job'.branch /\ g[i].head = job'.id
                 /\ g[i].sequence = IF job'.kind = "commit" THEN job'.sequence ELSE 0
      BY <1>4, <2>1
    <3>3. \E i \in (n + 1)..Len(g) : g[i].type = "ref"
      BY <1>3, <2>1, <3>1
    <3>4. AppendExact'
      BY <2>1, <2>5, <3>1, <3>2, <3>3 DEF AppendExact
    <3> QED BY <2>1, <3>4 DEF RetainExact
  <2>6. /\ job'.kind \in {"commit", "create", "retain", "release"}
        /\ job'.kind \notin {"retain", "release"} /\ job'.from = Len(File)
        /\ Follows(File, Len(File), g, Len(g))
        /\ Spares(File, Len(File), g, Len(g), acked, promised')
    BY <2>1, <2>2, <2>3 DEF n
  <2>7. File' = g /\ gens'[current].synced = Len(File) => AppendExact' /\ RetainExact'
    BY <2>5 DEF n
  <2> QED BY <1>2, <1>3, <1>5, <2>4, <2>6, <2>7, AppendDurable
<1>7. CASE Records(record)
  <2>1. /\ record.type = "meta" /\ record.retains = retains'
        /\ \A name \in Names :
             /\ retains'[name] # NONE => Named(File, n, retains'[name])
             /\ promised'[name] # NONE => retains'[name] = promised'[name]
        /\ job'.kind \in {"retain", "release"}
        /\ job'.kind = "retain" => job'.name \in Names /\ retains'[job'.name] = job'.id
    BY <1>7 DEF Records, n
  <2>2. Follows(File, n, g, Len(g))
    <3>1. \A i \in (n + 1)..Len(g) : g[i].type = "meta" /\ i = n + 1 /\ g[i].retains = retains'
      BY <1>4, <2>1
    <3>2. ASSUME NEW i \in (n + 1)..Len(g), NEW name \in Names, g[i].retains[name] # NONE
          PROVE  Named(g, i, g[i].retains[name])
      <4>1. Named(File, n, retains'[name]) /\ i \in Nat /\ n \in Nat /\ n <= i
        BY <1>1, <2>1, <3>1, <3>2
      <4>2. Named(g, i, retains'[name])
        BY <1>3, <4>1, NamedAgrees
      <4> QED BY <3>1, <4>2
    <3> QED BY <1>3, <3>1, <3>2 DEF Follows
  <2>3. Spares(File, n, g, Len(g), acked, promised')
    <3>1. \A i \in (n + 1)..Len(g) : g[i].type = "meta" /\ g[i].retains = retains'
      BY <1>4, <2>1
    <3> QED BY <1>3, <2>1, <3>1 DEF Spares
  <2>4. LastMeta(g, Len(g), retains')
    <3>1. Len(g) \in Nat /\ Len(g) > 0 /\ g[Len(g)] = record
      BY <1>1, <1>3
    <3> QED BY <2>1, <3>1, MetaNew
  <2>5. AppendExact' /\ RetainExact'
    BY <2>1 DEF AppendExact, RetainExact
  <2>6. /\ job'.kind \in {"commit", "create", "retain", "release"}
        /\ job'.kind \notin {"commit", "create"}
        /\ Follows(File, Len(File), g, Len(g))
        /\ Spares(File, Len(File), g, Len(g), acked, promised')
        /\ \A i \in (Len(File) + 1)..Len(g) : g[i].type # "ref"
    BY <1>4, <2>1, <2>2, <2>3 DEF n
  <2> QED BY <1>2, <1>3, <1>5, <2>4, <2>5, <2>6, AppendDurable
<1> QED BY <1>6, <1>7

\* createBranch up to its sync.
LEMMA CreateBranchDurable ==
  ASSUME Sound, Durable, Sound', NEW b \in Branches, CreateBranch(b)
  PROVE  Durable'
<1>1. /\ state = "open" /\ job = NoJob /\ branches[b].head = NONE
      /\ UNCHANGED <<path, checkpoint, state, current, commits, branches, retains, content,
                     acked, promised>>
  BY DEF CreateBranch, MyTurn, Exists, memoryVars, historyVars
<1>2. PICK c \in DOMAIN commits :
        /\ Append_(<<RefRecord("create", b, c, 0)>>)
        /\ job' = [kind |-> "create", id |-> c, branch |-> b, from |-> Len(File)]
  BY DEF CreateBranch
<1>3. /\ Types /\ Answers /\ FileAndMemory(gens[current].synced)
      /\ File \in Seq(Record) /\ Exact(File, Len(File), commits, branches)
      /\ NamesKept(File, Len(File), Len(File), promised)
  BY <1>1, AtRest
<1>4. PICK record : record = RefRecord("create", b, c, 0)
  OBVIOUS
<1>5. /\ record \in Record /\ record.type = "ref" /\ record.operation = "create"
      /\ record.sequence = 0 /\ record.branch = b /\ record.head = c
  <2>1. c \in Ids
    BY <1>3, RecordsAt
  <2>2. record \in Record
    BY <1>4, <2>1, RecordsMade
  <2> QED BY <1>4, <2>2 DEF RefRecord
<1>6. \A k \in 1..Len(File) : File[k].type = "ref" => File[k].branch # record.branch
  BY <1>1, <1>3, <1>5 DEF Exact, RefsHeld
<1>7. Named(File, Len(File), record.head)
  BY <1>3, <1>5 DEF Exact
<1>8. Creates(record)
  BY <1>1, <1>2, <1>5, <1>6, <1>7 DEF Creates
<1>9. promised' \in [Names -> Ids \union {NONE}] /\ Append_(<<record>>)
      /\ NamesKept(File, Len(File), Len(File), promised')
  BY <1>1, <1>2, <1>3, <1>4 DEF Answers
<1> QED BY <1>1, <1>5, <1>8, <1>9, OneDurable

\* What is retained is there, and so is what is promised.
LEMMA RetainedNamed ==
  ASSUME Sound, Durable, state = "open", job = NoJob, NEW name \in Names
  PROVE  /\ retains[name] # NONE => Named(File, Len(File), retains[name])
         /\ promised[name] # NONE => retains[name] = promised[name]
<1> DEFINE n == Len(File)
<1>1. /\ n \in Nat /\ LogSound(File, n) /\ NamesKept(File, n, n, promised)
      /\ LastMeta(File, n, retains)
  BY AtRest
<1> HIDE DEF n
<1>2. NamesThere(File, n)
  BY <1>1 DEF LogSound
<1>3. ASSUME retains[name] # NONE PROVE Named(File, n, retains[name])
  <2>1. PICK m \in 1..n : File[m].type = "meta" /\ File[m].retains = retains
    BY <1>1 DEF LastMeta
  <2>2. Named(File, m, retains[name])
    BY <1>2, <1>3, <2>1 DEF NamesThere
  <2>3. m \in Nat /\ m <= n /\ \A i \in 1..m : File[i] = File[i]
    BY <1>1
  <2> QED BY <1>1, <2>2, <2>3, NamedAgrees
<1>4. ASSUME promised[name] # NONE PROVE retains[name] = promised[name]
  <2>1. n \in 0..n
    BY <1>1
  <2> QED BY <1>1, <1>2, <1>4, <2>1, PromisesMet
<1> QED BY <1>3, <1>4 DEF n

\* retain and releaseRetention up to their sync.
LEMMA RetainDurable ==
  ASSUME Sound, Durable, Sound', NEW name \in Names, Retain(name)
  PROVE  Durable'
<1>1. /\ state = "open" /\ job = NoJob /\ retains[name] = NONE
      /\ UNCHANGED <<path, checkpoint, state, current, commits, branches, floors, content,
                     acked, promised>>
  BY DEF Retain, MyTurn, historyVars
<1>2. PICK c \in DOMAIN commits :
        /\ retains' = [retains EXCEPT ![name] = c]
        /\ WriteMetadata(retains')
        /\ job' = [kind |-> "retain", id |-> c, name |-> name, from |-> Len(File)]
  BY DEF Retain
<1>3. /\ Types /\ Answers /\ FileAndMemory(gens[current].synced)
      /\ File \in Seq(Record) /\ Exact(File, Len(File), commits, branches)
      /\ NamesKept(File, Len(File), Len(File), promised)
  BY <1>1, AtRest
<1>4. PICK record : record = MetaRecord(retains', floors)
  OBVIOUS
<1>5. Append_(<<record>>)
  BY <1>2, <1>4 DEF WriteMetadata
<1>6. /\ retains \in [Names -> Ids \union {NONE}] /\ floors \in [Branches -> Nat]
      /\ c \in Ids
  <2>1. c \in Ids
    BY <1>3, RecordsAt
  <2> QED BY <1>3, <2>1 DEF Types
<1>7. /\ retains' \in [Names -> Ids \union {NONE}] /\ retains'[name] = c
      /\ \A x \in Names : x # name => retains'[x] = retains[x]
  BY <1>2, <1>6
<1>8. record \in Record /\ record.type = "meta" /\ record.retains = retains'
  <2>1. record \in Record
    BY <1>4, <1>6, <1>7, RecordsMade
  <2> QED BY <1>4, <2>1 DEF MetaRecord
<1>9. ASSUME NEW x \in Names
      PROVE  /\ retains'[x] # NONE => Named(File, Len(File), retains'[x])
             /\ promised'[x] # NONE => retains'[x] = promised'[x]
  <2>1. /\ retains[x] # NONE => Named(File, Len(File), retains[x])
        /\ promised[x] # NONE => retains[x] = promised[x]
    BY <1>1, RetainedNamed
  <2>2. CASE x = name
    <3>1. Named(File, Len(File), c)
      BY <1>3 DEF Exact
    <3> QED BY <1>1, <1>7, <2>1, <2>2, <3>1
  <2>3. CASE x # name
    BY <1>1, <1>7, <2>1, <2>3
  <2> QED BY <2>2, <2>3
<1>10. Records(record)
  BY <1>2, <1>7, <1>8, <1>9 DEF Records
<1>11. promised' \in [Names -> Ids \union {NONE}] /\ NamesKept(File, Len(File), Len(File), promised')
  BY <1>1, <1>3 DEF Answers
<1> QED BY <1>1, <1>5, <1>8, <1>10, <1>11, OneDurable

LEMMA ReleaseRetentionDurable ==
  ASSUME Sound, Durable, Sound', NEW name \in Names, ReleaseRetention(name)
  PROVE  Durable'
<1>1. /\ state = "open" /\ job = NoJob
      /\ UNCHANGED <<path, checkpoint, state, current, commits, branches, floors, content, acked>>
      /\ retains' = [retains EXCEPT ![name] = NONE] /\ promised' = [promised EXCEPT ![name] = NONE]
      /\ WriteMetadata(retains') /\ job'.kind = "release"
  BY DEF ReleaseRetention, MyTurn
<1>2. /\ Types /\ Answers /\ File \in Seq(Record)
      /\ NamesKept(File, Len(File), Len(File), promised)
  BY <1>1, AtRest
<1>3. PICK record : record = MetaRecord(retains', floors)
  OBVIOUS
<1>4. Append_(<<record>>)
  BY <1>1, <1>3 DEF WriteMetadata
<1>5. /\ retains \in [Names -> Ids \union {NONE}] /\ floors \in [Branches -> Nat]
      /\ promised \in [Names -> Ids \union {NONE}]
  BY <1>2 DEF Types, Answers
<1>6. /\ retains' \in [Names -> Ids \union {NONE}] /\ retains'[name] = NONE
      /\ \A x \in Names : x # name => retains'[x] = retains[x]
  BY <1>1, <1>5
<1>7. /\ promised' \in [Names -> Ids \union {NONE}] /\ promised'[name] = NONE
      /\ \A x \in Names : x # name => promised'[x] = promised[x]
  BY <1>1, <1>5
<1>8. record \in Record /\ record.type = "meta" /\ record.retains = retains'
  <2>1. record \in Record
    BY <1>3, <1>5, <1>6, RecordsMade
  <2> QED BY <1>3, <2>1 DEF MetaRecord
<1>9. ASSUME NEW x \in Names
      PROVE  /\ retains'[x] # NONE => Named(File, Len(File), retains'[x])
             /\ promised'[x] # NONE => retains'[x] = promised'[x]
  <2>1. /\ retains[x] # NONE => Named(File, Len(File), retains[x])
        /\ promised[x] # NONE => retains[x] = promised[x]
    BY <1>1, RetainedNamed
  <2> QED BY <1>6, <1>7, <2>1
<1>10. Records(record)
  BY <1>1, <1>8, <1>9 DEF Records
<1>11. NamesKept(File, Len(File), Len(File), promised')
  <2> SUFFICES ASSUME NEW x \in Names, promised'[x] # NONE
               PROVE  \E m \in 1..Len(File) :
                        /\ File[m].type = "meta"
                        /\ \A k \in m..Len(File) : File[k].type = "meta" =>
                             File[k].retains[x] = promised'[x]
    BY DEF NamesKept
  <2>1. promised'[x] = promised[x]
    BY <1>7
  <2> QED BY <1>2, <2>1 DEF NamesKept
<1> QED BY <1>1, <1>4, <1>7, <1>8, <1>10, <1>11, OneDurable

-----------------------------------------------------------------------------
(* Syncs. *)

\* What is there when a sync returns.
LEMMA SyncFacts ==
  ASSUME Sound, Durable, Sound', SyncDone
  PROVE  /\ Running /\ path = {current} /\ current \in Generations
         /\ \A g \in Generations : gens'[g].file = gens[g].file
         /\ gens'[current].synced = Len(File) /\ path' = path /\ current' = current
         /\ content' = content /\ retains' = retains /\ job' = NoJob /\ state' # "opening"
         /\ Answers /\ branches \in Heads /\ branches' \in Heads
         /\ Len(File) \in Nat /\ File \in Seq(Record)
         /\ RefsTyped(File, Len(File))
         /\ FileSound(File, Len(File), gens[current].synced, content, LowOf(File))
         /\ gens[current].synced \in 0..Len(File)
         /\ CommitsKept(File, Len(File), Len(File), LowOf(File), acked)
         /\ NamesKept(File, Len(File), gens[current].synced, promised)
         /\ NamesKept(File, Len(File), Len(File), promised)
         /\ LastMeta(File, Len(File), retains)
         /\ job.kind # "open" \/ job.id = NONE =>
              /\ Exact(File, Settled, commits, branches)
              /\ View(File, Len(File), commits, branches, floors)
<1>1. /\ job.kind \in {"open", "commit", "create", "retain", "release"}
      /\ Synced /\ job' = NoJob
      /\ UNCHANGED <<path, current, retains, content>>
  BY DEF SyncDone
<1>2. /\ Running /\ Types /\ branches \in Heads
      /\ job.kind = "open" => state = "opening"
      /\ job.kind # "open" => Serving /\ state # "opening"
      /\ job.kind # "open" \/ job.id = NONE => View(File, Len(File), commits, branches, floors)
  BY <1>1, SyncKeeps
<1>3. /\ current \in path /\ current \in Generations /\ File \in Seq(Record)
      /\ Len(File) \in Nat /\ gens[current].synced \in 0..Len(File)
      /\ CommitsKept(File, Len(File), gens[current].synced, LowOf(File), acked)
      /\ NamesKept(File, Len(File), gens[current].synced, promised)
      /\ LastMeta(File, Len(File), retains) /\ path = {current}
  BY <1>1, <1>2, LogInUse
<1>4. /\ CommitsKept(File, Len(File), Len(File), LowOf(File), acked)
      /\ NamesKept(File, Len(File), Len(File), promised)
  BY <1>3, KeptSynced
<1>5. /\ \A g \in Generations : gens'[g].file = gens[g].file
      /\ gens'[current].synced = Len(File)
  BY <1>1, <1>2, <1>3, SyncIs
<1>6. FileSound(File, Len(File), gens[current].synced, content, LowOf(File))
  BY <1>2, RunningView
<1>7. RefsTyped(File, Len(File))
  BY <1>3, FileTyped, RecordKinds DEF RefsTyped
<1>8. state' # "opening"
  <2>1. CASE job.kind = "open"
    BY <2>1 DEF SyncDone
  <2>2. CASE job.kind # "open"
    <3>1. state' = state
      BY <1>1, <2>2 DEF SyncDone
    <3> QED BY <1>2, <2>2, <3>1
  <2> QED BY <2>1, <2>2
<1>9. Answers
  BY DEF Durable
<1>10. branches' \in Heads
  BY DEF Sound, Types
<1>11. job.kind # "open" \/ job.id = NONE => Exact(File, Settled, commits, branches)
  BY <1>2 DEF Durable, MemoryExact
<1> QED BY <1>1, <1>2, <1>3, <1>4, <1>5, <1>6, <1>7, <1>8, <1>9, <1>10, <1>11

\* Another commit at the place of the one that was just published.
Doubled(f, from, n, s, pages, low, known, heads, floor, b, id, j) ==
  /\ n \in Nat /\ from \in 0..n /\ FileSound(f, n, s, pages, low)
  /\ Exact(f, from, known, heads) /\ CommitsSound(f, n, known)
  /\ HeadsSound(f, known, heads, floor) /\ b \in Branches /\ heads[b].sequence \in Nat
  /\ RefsOfOne(f, from, n, "commit", b, id, heads[b].sequence + 1)
  /\ j \in 1..n /\ f[j].type = "commit" /\ Named(f, n, f[j].id)
  /\ f[j].branch = b /\ f[j].sequence = heads[b].sequence + 1

\* There is none: all that refs led to before were earlier ones.
LEMMA PlaceIsOwn ==
  ASSUME NEW f, NEW from, NEW n, NEW s, NEW pages, NEW low, NEW known, NEW heads, NEW floor,
         NEW b, NEW id, NEW j, Doubled(f, from, n, s, pages, low, known, heads, floor, b, id, j)
  PROVE  f[j].id = id
<1> USE DEF Doubled
<1>1. PICK i \in 1..n : f[i].type = "ref" /\ f[i].head = f[j].id
  BY DEF Named
<1>2. CASE i \in (from + 1)..n
  BY <1>1, <1>2 DEF RefsOfOne
<1>3. CASE i \in 1..from
  <2>1. f[j].id \in DOMAIN known
    BY <1>1, <1>3 DEF Exact, RefsHeld
  <2>2. PICK k \in 1..n : k = known[f[j].id] /\ f[k].type = "commit" /\ f[k].id = f[j].id
    BY <2>1 DEF CommitsSound
  <2>3. k = j
    BY <2>2, OneRecord
  <2>4. PICK c \in DOMAIN known : c = f[j].id /\ known[c] = j
    BY <2>1, <2>2, <2>3
  <2>5. f[known[c]].branch = b /\ f[known[c]].sequence = heads[b].sequence + 1
    BY <2>4
  <2>6. f[known[c]].sequence <= heads[b].sequence
    BY <2>5 DEF HeadsSound
  <2> QED BY <2>5, <2>6
<1> QED BY <1>2, <1>3

\* The sync of a commit: from here on it is acknowledged.
LEMMA SyncedCommitDurable ==
  ASSUME Sound, Durable, Sound', SyncDone, job.kind = "commit"
  PROVE  Durable'
<1> DEFINE n == Len(File)
<1>1. /\ Running /\ path = {current}
      /\ \A g \in Generations : gens'[g].file = gens[g].file
      /\ gens'[current].synced = n /\ path' = path /\ current' = current
      /\ content' = content /\ retains' = retains /\ job' = NoJob /\ state' # "opening"
      /\ Answers /\ branches \in Heads /\ branches' \in Heads /\ n \in Nat
      /\ File \in Seq(Record)
      /\ RefsTyped(File, n)
      /\ FileSound(File, n, gens[current].synced, content, LowOf(File))
      /\ CommitsKept(File, n, n, LowOf(File), acked)
      /\ NamesKept(File, n, n, promised)
      /\ Exact(File, Settled, commits, branches)
      /\ View(File, n, commits, branches, floors)
  BY SyncFacts
<1>2. PICK b, id, at, q, from : /\ b = job.branch /\ id = job.id /\ at = job.at
                                /\ q = job.sequence /\ from = job.from
  OBVIOUS
<1>3. /\ commits' = With(commits, id, at) /\ checkpoint' = checkpoint /\ promised' = promised
      /\ branches' = [branches EXCEPT ![b] = [@ EXCEPT !.head = id, !.sequence = q]]
      /\ acked' = acked \union {[id |-> id, branch |-> b, sequence |-> q]}
  BY <1>2 DEF SyncDone
<1>4. /\ b \in Branches /\ branches[b].head # NONE
      /\ q = branches[b].sequence + 1
      /\ at \in 1..(n - 1) /\ File[at].type = "commit" /\ File[at].id = id
      /\ File[at].branch = b /\ File[at].sequence = q /\ id \notin DOMAIN commits
  <2>1. CommitSound
    BY DEF Sound, JobSound
  <2> QED BY <1>2, <2>1 DEF CommitSound
<1>5. /\ from \in 0..n /\ Settled = from
      /\ RefsOfOne(File, from, n, "commit", b, id, q)
  <2>1. AppendExact
    BY DEF Durable, JobExact
  <2> QED BY <1>2, <2>1 DEF AppendExact, Settled, RefsOfOne
<1> HIDE DEF n
<1>6. at \in 1..n /\ branches[b].sequence \in Nat /\ q \in Nat /\ q > 0 /\ from \in Nat /\ from <= n
  BY <1>1, <1>4, <1>5 DEF Heads, Branch
<1>7. id \in DOMAIN content /\ id \in Ids
  <2>1. RecordSound(File, at, content, LowOf(File))
    BY <1>1, <1>6, FileSoundIs
  <2>2. id \in DOMAIN content
    BY <1>4, <2>1 DEF RecordSound
  <2>3. at \in 1..Len(File)
    BY <1>6 DEF n
  <2>4. id \in Ids
    BY <1>1, <1>4, <2>3, FileTyped, RecordKinds
  <2> QED BY <2>2, <2>4
<1>8. HeadMoves(branches, b, id, q, branches[b].base, branches')
  <2> DEFINE after == [branches[b] EXCEPT !.head = id, !.sequence = q]
  <2>1. after.head = id /\ after.sequence = q /\ after.base = branches[b].base
    BY <1>1, <1>4 DEF Heads, Branch
  <2>2. branches' = [branches EXCEPT ![b] = after]
    BY <1>3
  <2> HIDE DEF after
  <2> QED BY <1>1, <1>4, <2>1, <2>2 DEF Heads, HeadMoves
<1>9. Exact(File, n, commits', branches')
  <2>1. PICK f, known, heads, next, more, low :
          /\ f = File /\ known = commits /\ heads = branches /\ next = branches'
          /\ more = commits' /\ low = floors
    OBVIOUS
  <2>2. /\ CommitsSound(f, n, known) /\ HeadsSound(f, known, heads, low)
        /\ Exact(f, from, known, heads) /\ heads \in Heads /\ next \in Heads
    BY <1>1, <1>5, <2>1 DEF View
  <2>3. RefsOfOne(f, from, n, "commit", b, id, heads[b].sequence + 1)
    BY <1>4, <1>5, <2>1
  <2>4. RefsTyped(f, n) /\ f[at].branch = b /\ f[at].sequence = heads[b].sequence + 1
    BY <1>1, <1>4, <2>1
  <2>5. /\ HeadMoves(heads, b, id, heads[b].sequence + 1, heads[b].base, next)
        /\ heads[b].head # NONE /\ id \notin DOMAIN known /\ more = With(known, id, at)
    BY <1>3, <1>4, <1>8, <2>1
  <2>6. Exact(f, n, more, next)
    BY <1>1, <1>4, <1>6, <1>7, <2>2, <2>3, <2>4, <2>5, ExactCommits
  <2> QED BY <2>1, <2>6
<1>10. PICK new : new = [id |-> id, branch |-> b, sequence |-> q]
  OBVIOUS
<1>11. /\ new.id = id /\ new.branch = b /\ new.sequence = q
       /\ \A a \in acked' : a \in acked \/ a = new
  BY <1>3, <1>10
<1>12. Answers'
  BY <1>1, <1>3, <1>4, <1>6, <1>7, <1>11 DEF Answers
<1>13. CommitsKept(File, n, n, LowOf(File), acked')
  <2>1. PICK i \in (from + 1)..n : File[i].type = "ref"
    BY <1>5 DEF RefsOfOne
  <2>2. i \in 1..n /\ File[i].branch = b /\ File[i].head = id /\ File[i].sequence = q
    BY <1>5, <1>6, <2>1 DEF RefsOfOne
  <2>3. Named(File, n, id)
    BY <2>1, <2>2 DEF Named
  <2>4. ASSUME NEW j \in 1..n, File[j].type = "commit", Named(File, n, File[j].id),
               File[j].branch = b, File[j].sequence = q
        PROVE  File[j].id = id
    <3>1. PICK f, known, heads, low, s, pages, floor :
            /\ f = File /\ known = commits /\ heads = branches /\ low = LowOf(File)
            /\ s = gens[current].synced /\ pages = content /\ floor = floors
      OBVIOUS
    <3>2. /\ CommitsSound(f, n, known) /\ HeadsSound(f, known, heads, floor)
          /\ Exact(f, from, known, heads) /\ FileSound(f, n, s, pages, low)
      BY <1>1, <1>5, <3>1 DEF View
    <3>3. RefsOfOne(f, from, n, "commit", b, id, heads[b].sequence + 1)
      BY <1>4, <1>5, <3>1
    <3>4. /\ f[j].type = "commit" /\ Named(f, n, f[j].id) /\ f[j].branch = b
          /\ f[j].sequence = heads[b].sequence + 1 /\ heads[b].sequence \in Nat
      BY <1>4, <1>6, <2>4, <3>1
    <3>5. f[j].id = id
      <4>1. Doubled(f, from, n, s, pages, low, known, heads, floor, b, id, j)
        BY <1>1, <1>4, <1>5, <3>2, <3>3, <3>4 DEF Doubled
      <4> QED BY <4>1, PlaceIsOwn
    <3> QED BY <3>1, <3>5
  <2>5. q >= q
    BY <1>6
  <2>6. /\ \E k \in 1..n : File[k].type = "ref" /\ File[k].branch = new.branch
                           /\ File[k].sequence >= new.sequence
        /\ Named(File, n, new.id)
        /\ \A j \in 1..n : /\ File[j].type = "commit" /\ Named(File, n, File[j].id)
                           /\ File[j].branch = new.branch /\ File[j].sequence = new.sequence
                           => File[j].id = new.id
    BY <1>11, <2>1, <2>2, <2>3, <2>4, <2>5
  <2> QED BY <1>1, <1>11, <2>6 DEF CommitsKept
<1>14. NamesKept(File, n, n, promised')
  BY <1>1, <1>3
<1>15. /\ gens'[current].synced = Len(File)
       /\ CommitsKept(File, Len(File), Len(File), LowOf(File), acked')
       /\ NamesKept(File, Len(File), Len(File), promised')
       /\ Exact(File, Len(File), commits', branches')
  BY <1>1, <1>9, <1>13, <1>14 DEF n
<1> QED BY <1>1, <1>3, <1>12, <1>15, SyncedDurable

\* The sync of a new branch.
LEMMA SyncedCreateDurable ==
  ASSUME Sound, Durable, Sound', SyncDone, job.kind = "create"
  PROVE  Durable'
<1> DEFINE n == Len(File)
<1>1. /\ Running /\ path = {current}
      /\ \A g \in Generations : gens'[g].file = gens[g].file
      /\ gens'[current].synced = n /\ path' = path /\ current' = current
      /\ content' = content /\ retains' = retains /\ job' = NoJob /\ state' # "opening"
      /\ Answers /\ branches \in Heads /\ branches' \in Heads /\ n \in Nat
      /\ RefsTyped(File, n)
      /\ CommitsKept(File, n, n, LowOf(File), acked)
      /\ NamesKept(File, n, n, promised)
      /\ Exact(File, Settled, commits, branches)
      /\ View(File, n, commits, branches, floors)
  BY SyncFacts
<1>2. PICK b, id, from : b = job.branch /\ id = job.id /\ from = job.from
  OBVIOUS
<1>3. /\ commits' = commits /\ checkpoint' = checkpoint /\ promised' = promised /\ acked' = acked
      /\ branches' = [branches EXCEPT ![b] = [head |-> id, sequence |-> 0, base |-> id]]
  BY <1>2 DEF SyncDone
<1>4. b \in Branches /\ branches[b] = NoBranch /\ id \in DOMAIN commits
  BY <1>2 DEF Sound, JobSound
<1>5. from \in 0..n /\ Settled = from /\ RefsOfOne(File, from, n, "create", b, id, 0)
  <2>1. AppendExact
    BY DEF Durable, JobExact
  <2> QED BY <1>2, <2>1 DEF AppendExact, Settled, RefsOfOne
<1> HIDE DEF n
<1>6. id \in Ids
  <2>1. DOMAIN commits \subseteq Ids
    <3>1. Types /\ Serving
      BY <1>1, SyncKeeps DEF SyncDone
    <3>2. FileAndMemory(gens[current].synced)
      BY <3>1, ServingView
    <3> QED BY <3>2, RecordsAt
  <2> QED BY <1>4, <2>1
<1>7. HeadMoves(branches, b, id, 0, id, branches')
  BY <1>1, <1>3, <1>4 DEF Heads, HeadMoves
<1>8. Exact(File, n, commits', branches')
  <2>1. PICK f, known, heads, next : /\ f = File /\ known = commits /\ heads = branches
                                     /\ next = branches'
    OBVIOUS
  <2>2. /\ Exact(f, from, known, heads) /\ heads \in Heads
        /\ RefsOfOne(f, from, n, "create", b, id, 0) /\ RefsTyped(f, n)
        /\ HeadMoves(heads, b, id, 0, id, next) /\ heads[b] = NoBranch /\ id \in DOMAIN known
    BY <1>1, <1>4, <1>5, <1>7, <2>1
  <2>3. from \in Nat /\ from <= n
    BY <1>1, <1>5
  <2>4. Exact(f, n, known, next)
    BY <1>1, <1>4, <1>6, <2>2, <2>3, ExactCreates
  <2> QED BY <1>3, <2>1, <2>4
<1>9. Answers'
  BY <1>1, <1>3 DEF Answers
<1>10. /\ gens'[current].synced = Len(File)
       /\ CommitsKept(File, Len(File), Len(File), LowOf(File), acked')
       /\ NamesKept(File, Len(File), Len(File), promised')
       /\ Exact(File, Len(File), commits', branches')
  BY <1>1, <1>3, <1>8 DEF n
<1> QED BY <1>1, <1>3, <1>9, <1>10, SyncedDurable

\* The sync of metadata: a retention is promised, a release was when it was called.
LEMMA SyncedRetainDurable ==
  ASSUME Sound, Durable, Sound', SyncDone, job.kind \in {"retain", "release"}
  PROVE  Durable'
<1>1. /\ Running /\ path = {current}
      /\ \A g \in Generations : gens'[g].file = gens[g].file
      /\ gens'[current].synced = Len(File) /\ path' = path /\ current' = current
      /\ content' = content /\ retains' = retains /\ job' = NoJob /\ state' # "opening"
      /\ Answers /\ Len(File) \in Nat /\ gens[current].synced \in 0..Len(File)
      /\ CommitsKept(File, Len(File), Len(File), LowOf(File), acked)
      /\ NamesKept(File, Len(File), gens[current].synced, promised)
      /\ NamesKept(File, Len(File), Len(File), promised)
      /\ LastMeta(File, Len(File), retains)
      /\ Exact(File, Len(File), commits, branches)
  BY SyncFacts DEF Settled
<1>2. /\ commits' = commits /\ branches' = branches /\ checkpoint' = checkpoint /\ acked' = acked
      /\ IF job.kind = "retain" THEN promised' = [promised EXCEPT ![job.name] = job.id]
         ELSE promised' = promised
  BY DEF SyncDone
<1>3. retains \in [Names -> Ids \union {NONE}] /\ promised \in [Names -> Ids \union {NONE}]
  BY <1>1 DEF Sound, Types, Answers
<1>4. /\ promised' \in [Names -> Ids \union {NONE}]
      /\ NamesKept(File, Len(File), Len(File), promised')
  <2>1. CASE job.kind = "retain"
    <3>1. PICK name : name = job.name
      OBVIOUS
    <3>2. name \in Names /\ retains[name] = job.id
      BY <2>1, <3>1 DEF Durable, JobExact, RetainExact
    <3>3. promised' = [promised EXCEPT ![name] = retains[name]]
      BY <1>2, <2>1, <3>1, <3>2
    <3>4. promised' \in [Names -> Ids \union {NONE}]
      BY <1>3, <3>2, <3>3
    <3> QED BY <1>1, <1>3, <3>2, <3>3, <3>4, PromiseMore
  <2>2. CASE job.kind # "retain"
    BY <1>1, <1>2, <1>3, <2>2
  <2> QED BY <2>1, <2>2
<1>5. Answers'
  BY <1>1, <1>2, <1>4 DEF Answers
<1>6. /\ CommitsKept(File, Len(File), Len(File), LowOf(File), acked')
      /\ Exact(File, Len(File), commits', branches')
  BY <1>1, <1>2
<1> QED BY <1>1, <1>2, <1>4, <1>5, <1>6, SyncedDurable

\* The engine has opened: what was there, or its first commit.
LEMMA SyncedOpenDurable ==
  ASSUME Sound, Durable, Sound', SyncDone, job.kind = "open"
  PROVE  Durable'
<1> DEFINE n == Len(File)
<1>1. /\ Running /\ path = {current}
      /\ \A g \in Generations : gens'[g].file = gens[g].file
      /\ gens'[current].synced = n /\ path' = path /\ current' = current
      /\ content' = content /\ retains' = retains /\ job' = NoJob /\ state' # "opening"
      /\ Answers /\ branches' \in Heads /\ n \in Nat
      /\ CommitsKept(File, n, n, LowOf(File), acked)
      /\ NamesKept(File, n, n, promised)
      /\ job.id = NONE => Exact(File, Settled, commits, branches)
  BY SyncFacts
<1>2. /\ acked' = acked /\ promised' = promised
      /\ IF job.id = NONE THEN commits' = commits /\ branches' = branches
         ELSE /\ commits' = With(<<>>, job.id, job.at)
              /\ branches' = [branches EXCEPT ![Main] =
                   [head |-> job.id, sequence |-> 0, base |-> job.id]]
      /\ checkpoint' = checkpoint \/ checkpoint' \in Sidecars(commits', branches')
  BY DEF SyncDone
<1>3. Exact(File, n, commits', branches')
  <2>1. CASE job.id = NONE
    BY <1>1, <1>2, <2>1 DEF Settled
  <2>2. CASE job.id # NONE
    <3>1. PICK id, at : id = job.id /\ at = job.at
      OBVIOUS
    <3>2. /\ branches = NoBranches
          /\ \A i \in 1..n : File[i].type = "ref" => File[i].branch = Main /\ File[i].sequence = 0
      <4>1. DOMAIN File = 1..n
        BY SyncFacts, FileTyped
      <4> QED BY <2>2, <4>1 DEF Sound, JobSound, OpenSound
    <3>3. /\ \A i \in 1..n : File[i].type = "ref" => File[i].head = id
          /\ \E i \in 1..n : File[i].type = "ref"
      BY <2>2, <3>1 DEF Durable, JobExact, OpenExact
    <3>4. DOMAIN commits' = {id}
      BY <1>2, <2>2, <3>1 DEF With
    <3>5. /\ branches'[Main].head = id /\ branches'[Main].sequence = 0
          /\ branches'[Main].base = id
          /\ \A b \in Branches : branches'[b].sequence = 0
      <4> DEFINE after == [head |-> id, sequence |-> 0, base |-> id]
      <4>1. after.head = id /\ after.sequence = 0 /\ after.base = id
        OBVIOUS
      <4>2. branches' = [NoBranches EXCEPT ![Main] = after]
        BY <1>2, <2>2, <3>1, <3>2
      <4> HIDE DEF after
      <4> QED BY <4>1, <4>2, FileAssumption DEF NoBranches, NoBranch
    <3>6. id # NONE
      BY <2>2, <3>1
    <3> HIDE DEF n
    <3>7. RefsHeld(File, n, commits', branches')
      BY <3>2, <3>3, <3>4, <3>5, <3>6 DEF RefsHeld
    <3>8. \A c \in DOMAIN commits' : Named(File, n, c)
      BY <3>3, <3>4 DEF Named
    <3>9. \A b \in Branches : ~(branches'[b].sequence > 0)
      BY <3>5
    <3> QED BY <3>7, <3>8, <3>9 DEF Exact
  <2> QED BY <2>1, <2>2
<1>4. Answers'
  BY <1>1, <1>2 DEF Answers
<1> QED BY <1>1, <1>2, <1>3, <1>4, SyncedDurable

LEMMA SyncDoneDurable ==
  ASSUME Sound, Durable, Sound', SyncDone
  PROVE  Durable'
<1>1. job.kind \in {"open", "commit", "create", "retain", "release"}
  BY DEF SyncDone
<1> QED BY <1>1, SyncedCommitDurable, SyncedCreateDurable, SyncedRetainDurable, SyncedOpenDurable

-----------------------------------------------------------------------------
(* Collections. *)

\* The copy of a collection holds what was answered.
LEMMA StartCollectionDurable ==
  ASSUME Sound, Durable, StartCollection
  PROVE  Durable'
<1>1. /\ state = "open" /\ job = NoJob
      /\ gens' = gens /\ path' = path /\ checkpoint' = checkpoint /\ state' = state
      /\ UNCHANGED <<current, commits, branches, retains, floors, content, acked, promised>>
  BY DEF StartCollection, CollectionTurn, MyTurn, diskVars, memoryVars, historyVars
<1>2. PICK retained : retained = RetainedCommitIds
  OBVIOUS
<1>3. PICK low : low = HistoryFloorsFor(retained)
  OBVIOUS
<1>4. PICK g : g = Copy(retained, low)
  OBVIOUS
<1>5. job' = [kind |-> "collect", retained |-> retained, floors |-> low, file |-> g]
  BY <1>2, <1>3, <1>4 DEF StartCollection
<1>6. /\ Running /\ Serving /\ Types /\ Answers /\ path = {current} /\ Len(File) \in Nat
      /\ FileAndMemory(gens[current].synced) /\ gens[current].synced = Len(File)
      /\ LogSound(File, Len(File))
      /\ CommitsKept(File, Len(File), Len(File), LowOf(File), acked)
      /\ NamesKept(File, Len(File), Len(File), promised)
      /\ LastMeta(File, Len(File), retains)
      /\ Exact(File, Len(File), commits, branches)
      /\ \A c : Named(File, Len(File), c) => c \in DOMAIN commits
  BY <1>1, AtRest
<1>7. retained \in SUBSET DOMAIN commits /\ KeepsHeads(retained)
  BY <1>2, <1>6, RetainedIs
<1>8. KeepsNames(retained)
  <2> SUFFICES ASSUME NEW name \in Names, retains[name] # NONE
               PROVE  retains[name] \in retained
    BY DEF KeepsNames
  <2>1. retains[name] \in DOMAIN commits
    BY <1>1, <1>6, RetainedNamed
  <2> QED BY <1>2, <2>1 DEF RetainedCommitIds
<1>9. /\ Holding(g, Len(g), Len(g), low)
      /\ Exact(g, Len(g), Places(g, retained), branches)
      /\ LastMeta(g, Len(g), retains)
  <2>1. Holding(File, Len(File), Len(File), LowOf(File))
    BY <1>6 DEF Holding
  <2>2. Len(File) \in 0..Len(File)
    BY <1>6
  <2> QED BY <1>3, <1>4, <1>6, <1>7, <1>8, <2>1, <2>2, CopyHolds
<1>10. /\ job'.kind = "collect" /\ job'.file = g /\ job'.floors = low /\ job'.retained = retained
  BY <1>5
<1>11. Answers' /\ LogsSound' /\ CheckpointExact' /\ File' = File
  <2>1. RecordsStay
    BY <1>1 DEF RecordsStay
  <2> QED BY <1>1, <1>6, <2>1, LogsStay DEF Durable
<1>12. CopyExact'
  <2>1. Holding(g, Len(g), Len(g), low)'
    BY <1>1, <1>9, <1>10 DEF Holding
  <2> QED BY <1>1, <1>9, <1>10, <2>1 DEF CopyExact, Holding
<1>13. JobExact'
  BY <1>10, <1>12 DEF JobExact, OpenExact, AppendExact, RetainExact
<1>14. MemoryExact'
  <2>1. Settled' = Len(File)
    BY <1>10, <1>11 DEF Settled
  <2>2. gens'[current'].synced = Len(File') /\ state' # "opening"
    BY <1>1, <1>6, <1>11
  <2> QED BY <1>1, <1>6, <1>11, <2>1, <2>2 DEF MemoryExact
<1> QED BY <1>11, <1>13, <1>14 DEF Durable

\* The copy takes the name, as the generation next.
Installs(next, g, kept) ==
  /\ job.kind = "collect" /\ g = job.file /\ kept = job.retained
  /\ path' = path \union {next} /\ current' = next
  /\ commits' = Places(g, kept) /\ job'.kind = "install"
  /\ UNCHANGED <<checkpoint, state, branches, retains, streams, content, acked, promised>>
  /\ Types /\ Serving /\ Running /\ state' # "opening"
  /\ g \in Seq(Record) /\ Len(g) > 0 /\ job.floors = LowOf(g) /\ Length(g) = Len(g)
  /\ FileSound(g, Len(g), Len(g), content, job.floors)
  /\ next \in Generations /\ next \notin Written
  /\ gens'[next].file = g /\ gens'[next].synced = Len(g) /\ File' = g
  /\ \A x \in path : x # next /\ x \in Generations
  /\ \A x \in Generations : x # next => gens'[x] = gens[x]

LEMMA InstallIs ==
  ASSUME Sound, Durable, InstallGeneration, NEW g, NEW kept, g = job.file, kept = job.retained
  PROVE  \E next : Installs(next, g, kept)
<1>1. PICK next : next = 1 + Cardinality(Written)
  OBVIOUS
<1> DEFINE after == [NewFile EXCEPT !.file = g, !.synced = Len(g)]
<1>3. /\ job.kind = "collect" /\ gens' = [gens EXCEPT ![next] = after]
      /\ path' = path \union {next} /\ current' = next
      /\ commits' = Places(g, kept) /\ job'.kind = "install"
      /\ UNCHANGED <<checkpoint, state, branches, retains, streams, content, acked, promised>>
  BY <1>1 DEF InstallGeneration, historyVars, Places
<1>4. /\ g \in Seq(Record) /\ Len(g) > 0 /\ job.floors = LowOf(g)
      /\ FileSound(g, Len(g), Len(g), content, job.floors)
  BY <1>3 DEF Sound, JobSound, CollectSound
<1>5. /\ Types /\ Serving /\ Running /\ state' # "opening"
  <2>1. Serving
    BY <1>3 DEF Sound, Quiet
  <2> QED BY <1>3, <2>1 DEF Serving, Running, Sound
<1>6. /\ current \in path /\ current \in Written /\ path = {current} /\ current \in Generations
      /\ gens[current].synced = Len(File) /\ Len(File) \in Nat /\ Length(File) = Len(File)
  <2>1. gens[current].synced = Len(File) /\ path = {current}
    BY <1>3, <1>5 DEF Durable, MemoryExact
  <2> QED BY <1>5, <2>1, RunningView
<1>7. next \in Generations /\ next \notin Written
  <2>1. PICK k \in 0..(MaxCollections + 1) : Written = 1..k
    BY DEF Sound, Numbered
  <2>2. Cardinality(Written) = k /\ k + 1 \notin Written /\ k \in Nat
        /\ (k <= MaxCollections => k + 1 \in Generations)
    BY <1>5, <2>1, NextGeneration
  <2>3. k <= MaxCollections
    <3>1. Room /\ barrier \in Nat /\ collected \in Nat
      BY <1>5 DEF Sound, Types
    <3>2. collected + 1 <= barrier
      BY <1>3, <3>1 DEF Room
    <3>3. Cardinality(Written) + barrier <= MaxCollections + 1 + collected
      BY <1>3, <3>1, FileAssumption DEF Room
    <3> QED BY <2>2, <3>1, <3>2, <3>3, FileAssumption
  <2> QED BY <1>1, <2>2, <2>3
<1>8. after.file = g /\ after.synced = Len(g)
  BY <1>4 DEF NewFile
<1> HIDE DEF after
<1>9. /\ gens'[next].file = g /\ gens'[next].synced = Len(g)
      /\ \A x \in path : x # next /\ x \in Generations
      /\ \A x \in Generations : x # next => gens'[x] = gens[x]
  BY <1>3, <1>5, <1>6, <1>7, <1>8 DEF Types
<1>10. File' = g
  BY <1>3, <1>9 DEF File
<1>11. Length(g) = Len(g)
  <2>1. Len(g) \in Nat /\ Len(g) \in 1..Len(g)
    BY <1>4
  <2>2. RecordSound(g, Len(g), content, job.floors)
    BY <1>4, <2>1, FileSoundIs
  <2> QED BY <2>2 DEF RecordSound, Length
<1>12. Installs(next, g, kept)
  <2>1. next \in Generations
    BY <1>7
  <2> QED BY <1>3, <1>4, <1>5, <1>7, <1>9, <1>10, <1>11 DEF Installs
<1> QED BY <1>12

LEMMA InstallGenerationDurable ==
  ASSUME Sound, Durable, InstallGeneration
  PROVE  Durable'
<1>1. PICK g, kept : g = job.file /\ kept = job.retained
  OBVIOUS
<1>2. PICK next : Installs(next, g, kept)
  BY <1>1, InstallIs
<1>3. /\ job.kind = "collect" /\ path' = path \union {next} /\ current' = next
      /\ commits' = Places(g, kept) /\ job'.kind = "install"
      /\ UNCHANGED <<checkpoint, state, branches, retains, content, acked, promised>>
  BY <1>2 DEF Installs
<1>4. g \in Seq(Record) /\ Len(g) > 0 /\ job.floors = LowOf(g) /\ Length(g) = Len(g)
  BY <1>2 DEF Installs
<1>5. Types /\ Serving /\ Running /\ state' # "opening"
  BY <1>2 DEF Installs
<1>7. next \in Generations /\ next \notin Written
  BY <1>2 DEF Installs
<1>9. /\ gens'[next].file = g /\ gens'[next].synced = Len(g) /\ File' = g
      /\ \A x \in path : x # next /\ gens'[x] = gens[x]
  BY <1>2 DEF Installs
<1>12. /\ Holding(g, Len(g), Len(g), job.floors)
       /\ Exact(g, Len(g), Places(g, kept), branches)
       /\ LastMeta(g, Len(g), retains)
  BY <1>1, <1>3 DEF Durable, JobExact, CopyExact
<1>13. Answers'
  BY <1>3 DEF Durable, Answers
<1>14. LogsSound'
  <2> SUFFICES ASSUME NEW x \in path'
               PROVE  Holding(gens[x].file, Length(gens[x].file), gens[x].synced, LowOf(gens[x].file))'
    BY DEF LogsSound
  <2>1. CASE x = next
    BY <1>3, <1>4, <1>9, <1>12, <2>1 DEF Holding
  <2>2. CASE x \in path
    <3>1. gens'[x] = gens[x]
      BY <1>9, <2>2
    <3>2. Holding(gens[x].file, Length(gens[x].file), gens[x].synced, LowOf(gens[x].file))
      BY <2>2 DEF Durable, LogsSound
    <3> QED BY <1>3, <3>1, <3>2 DEF Holding
  <2> QED BY <1>3, <2>1, <2>2
<1>15. CheckpointExact'
  <2>1. CheckpointExact /\ checkpoint' = checkpoint
    BY <1>3 DEF Durable
  <2>2. checkpoint.gen \in path' => checkpoint.gen \in path
    <3>1. checkpoint.gen = 0 \/ checkpoint.gen \in Written
      BY DEF Sound, Numbered
    <3>2. next # 0
      BY <1>7 DEF Generations
    <3> QED BY <1>3, <1>7, <3>1, <3>2
  <2>3. \A x \in path : \A i \in 1..gens[x].synced : gens'[x].file[i] = gens[x].file[i]
    BY <1>9
  <2> QED BY <2>1, <2>2, <2>3, CheckpointStays
<1>16. MemoryExact'
  <2>1. Settled' = Len(g)
    BY <1>3, <1>9 DEF Settled
  <2>2. gens'[current'].synced = Len(File')
    BY <1>3, <1>9
  <2> QED BY <1>3, <1>5, <1>9, <1>12, <2>1, <2>2 DEF MemoryExact
<1>17. JobExact'
  BY <1>3 DEF JobExact, OpenExact, AppendExact, RetainExact, CopyExact
<1> QED BY <1>13, <1>14, <1>15, <1>16, <1>17 DEF Durable

-----------------------------------------------------------------------------
(* Opening. *)

\* What open() makes of a file: all that counted, and what was missing behind it.
Opens(g, h, n, s, low, f, m) ==
  /\ g \in path /\ g \in Generations /\ n \in Nat /\ s \in 0..n /\ m \in Nat /\ n <= m
  /\ s = gens[g].synced /\ n = Length(gens[g].file) /\ low = LowOf(gens[g].file)
  /\ \A i \in 1..n : h[i] = gens[g].file[i]
  /\ path' = {g} /\ current' = g /\ state' = "opening" /\ job'.kind = "open"
  /\ checkpoint' = checkpoint /\ acked' = acked /\ promised' = promised /\ floors' = low
  /\ DOMAIN content \subseteq DOMAIN content'
  /\ gens'[g].file = f /\ gens'[g].synced = s /\ m = Len(f)
  /\ Follows(h, n, f, m)

LEMMA OpensFile ==
  ASSUME Sound, Durable, Sound', NEW g, NEW h, NEW n, NEW s, NEW low, NEW f, NEW m,
         Opens(g, h, n, s, low, f, m), Spares(h, n, f, m, acked, promised), LastMeta(f, m, retains'),
         job'.id = NONE => Exact(f, m, commits', branches'),
         job'.id # NONE =>
           /\ \A i \in 1..m : f[i].type = "ref" => f[i].head = job'.id
           /\ \E i \in 1..m : f[i].type = "ref"
  PROVE  Durable'
<1>1. /\ g \in path /\ g \in Generations /\ n \in Nat /\ s \in 0..n /\ m \in Nat /\ n <= m
      /\ s = gens[g].synced /\ n = Length(gens[g].file) /\ low = LowOf(gens[g].file)
      /\ \A i \in 1..n : h[i] = gens[g].file[i]
      /\ path' = {g} /\ current' = g /\ state' = "opening" /\ job'.kind = "open"
      /\ checkpoint' = checkpoint /\ acked' = acked /\ promised' = promised /\ floors' = low
      /\ DOMAIN content \subseteq DOMAIN content'
      /\ gens'[g].file = f /\ gens'[g].synced = s /\ m = Len(f)
      /\ Follows(h, n, f, m)
  BY DEF Opens
<1>2. Answers'
  BY <1>1 DEF Durable, Answers
<1>3. File' = f /\ Running'
  BY <1>1 DEF File, Running
<1>4. Length(f) = m
  BY <1>1, <1>3 DEF Sound, FilesSound
<1>5. LowOf(f) = low
  <2>1. CASE job'.id = NONE
    BY <1>1, <1>3, <2>1 DEF Sound, MemorySound
  <2>2. CASE job'.id # NONE
    BY <1>1, <1>3, <2>2 DEF Sound, JobSound, OpenSound
  <2> QED BY <2>1, <2>2
<1>6. Holding(h, n, s, low)
  <2>1. PICK x : x = gens[g].file
    OBVIOUS
  <2>2. LogSound(x, n) /\ CommitsKept(x, n, s, low, acked) /\ NamesKept(x, n, s, promised)
    BY <1>1, <2>1 DEF Durable, LogsSound, Holding
  <2>3. n \in Nat /\ s \in 0..n /\ n \in 0..n /\ s \in Nat /\ s <= s /\ \A i \in 1..n : h[i] = x[i]
    BY <1>1, <2>1
  <2>4. LogSound(h, n)
    BY <1>1, <2>2, <2>3, LogAgrees
  <2>5. CommitsKept(h, n, s, low, acked) /\ NamesKept(h, n, s, promised)
    BY <2>2, <2>3, KeptAgrees
  <2> QED BY <2>4, <2>5 DEF Holding
<1>7. LogSound(f, m) /\ CommitsKept(f, m, s, low, acked) /\ NamesKept(f, m, s, promised)
  <2>1. LogSound(f, m)
    BY <1>1, <1>6, LogGrows DEF Holding
  <2>2. CommitsKept(f, m, s, low, acked) /\ NamesKept(f, m, s, promised)
    BY <1>1, <1>6, KeptGrows DEF Holding
  <2> QED BY <2>1, <2>2
<1>8. LogsSound'
  <2> SUFFICES ASSUME NEW x \in path'
               PROVE  Holding(gens[x].file, Length(gens[x].file), gens[x].synced, LowOf(gens[x].file))'
    BY DEF LogsSound
  <2>1. /\ gens'[x].file = f /\ Length(gens'[x].file) = m /\ gens'[x].synced = s
        /\ LowOf(gens'[x].file) = low
    BY <1>1, <1>4, <1>5
  <2> QED BY <1>1, <1>7, <2>1 DEF Holding
<1>9. CheckpointExact'
  <2> SUFFICES ASSUME checkpoint.gen \in path'
               PROVE  /\ Exact(gens'[checkpoint.gen].file, checkpoint.offset, checkpoint.commits,
                               checkpoint.branches)
                      /\ LastMeta(gens'[checkpoint.gen].file, checkpoint.offset, checkpoint.retains)
    BY <1>1 DEF CheckpointExact
  <2>1. checkpoint.gen = g /\ CheckpointExact
    BY <1>1 DEF Durable
  <2>2. \A i \in 1..s : i \in 1..n /\ f[i] = h[i]
    BY <1>1 DEF Follows
  <2>3. \A i \in 1..gens[checkpoint.gen].synced : f[i] = gens[checkpoint.gen].file[i]
    BY <1>1, <2>1, <2>2
  <2>4. /\ Exact(f, checkpoint.offset, checkpoint.commits, checkpoint.branches)
        /\ LastMeta(f, checkpoint.offset, checkpoint.retains)
    BY <1>1, <2>1, <2>3, CheckpointReads
  <2> QED BY <1>1, <2>1, <2>4
<1>10. MemoryExact'
  <2>1. Settled' = m
    BY <1>1, <1>3 DEF Settled
  <2> QED BY <1>1, <1>3, <2>1 DEF MemoryExact
<1>11. OpenExact'
  BY <1>1, <1>3 DEF OpenExact
<1>12. JobExact'
  BY <1>1, <1>11 DEF JobExact, AppendExact, RetainExact, CopyExact
<1> QED BY <1>2, <1>8, <1>9, <1>10, <1>12 DEF Durable

\* What was loaded is exact.
LEMMA OpenLoads ==
  ASSUME Sound, Durable, NEW g \in path, NEW h, NEW n, NEW s, NEW low, NEW start, NEW memory,
         Found(g, h, n, s, low, start, memory), Walked(g, h, n, s, low, start, memory)
  PROVE  /\ Exact(h, n, memory.commits, memory.branches)
         /\ LogSound(h, n) /\ NamesKept(h, n, s, promised)
         /\ \/ memory.metadata /\ LastMeta(h, n, memory.retains)
            \/ ~memory.metadata /\ memory.retains = NoRetains /\ \A i \in 1..n : h[i].type # "meta"
<1>1. /\ n \in Nat /\ h \in Seq(Record) /\ Len(h) = n
      /\ s = gens[g].synced /\ s \in 0..n /\ start \in 0..n
      /\ LowOf(h) = low /\ FileSound(h, n, s, content, low)
  BY DEF Found
<1>2. PICK first :
        /\ memory = Load(h, start, first)
        /\ first = IF checkpoint.gen = g THEN FromCheckpoint ELSE Blank
        /\ start = IF checkpoint.gen = g THEN checkpoint.offset ELSE 0
        /\ n = Length(gens[g].file) /\ low = LowOf(gens[g].file)
        /\ \A i \in 1..n : h[i] = gens[g].file[i]
        /\ Basis(h, n, s, start, first.commits, first.branches, low)
  BY DEF Walked
<1>3. LogSound(h, n) /\ NamesKept(h, n, s, promised)
  <2>1. PICK x : x = gens[g].file
    OBVIOUS
  <2>2. LogSound(x, n) /\ CommitsKept(x, n, s, low, acked) /\ NamesKept(x, n, s, promised)
    BY <1>1, <1>2, <2>1 DEF Durable, LogsSound, Holding
  <2>3. n \in Nat /\ n \in 0..n /\ s \in 0..n /\ s \in Nat /\ s <= s /\ \A i \in 1..n : h[i] = x[i]
    BY <1>1, <1>2, <2>1
  <2>4. LogSound(h, n)
    BY <2>2, <2>3, LogAgrees
  <2>5. NamesKept(h, n, s, promised)
    BY <2>2, <2>3, KeptAgrees
  <2> QED BY <2>4, <2>5
<1>4. PICK known, heads, mc, mb : /\ known = first.commits /\ heads = first.branches
                                  /\ mc = memory.commits /\ mb = memory.branches
  OBVIOUS
<1>5. /\ Exact(h, start, known, heads)
      /\ checkpoint.gen = g => first.metadata /\ LastMeta(h, start, first.retains)
      /\ checkpoint.gen # g => start = 0 /\ ~first.metadata /\ first.retains = NoRetains
  <2>1. CASE checkpoint.gen = g
    <3>1. /\ first.commits = checkpoint.commits /\ first.branches = checkpoint.branches
          /\ first.retains = checkpoint.retains /\ first.metadata /\ start = checkpoint.offset
      BY <1>2, <2>1 DEF FromCheckpoint
    <3>2. \A i \in 1..gens[checkpoint.gen].synced : h[i] = gens[checkpoint.gen].file[i]
      BY <1>1, <1>2, <2>1
    <3>3. CheckpointExact /\ checkpoint.gen \in path
      BY <2>1 DEF Durable
    <3>4. /\ Exact(h, checkpoint.offset, checkpoint.commits, checkpoint.branches)
          /\ LastMeta(h, checkpoint.offset, checkpoint.retains)
      BY <3>2, <3>3, CheckpointReads
    <3> QED BY <1>4, <2>1, <3>1, <3>4
  <2>2. CASE checkpoint.gen # g
    <3>1. first = Blank /\ start = 0
      BY <1>2, <2>2
    <3>2. known = <<>> /\ heads = NoBranches /\ ~first.metadata /\ first.retains = NoRetains
      BY <1>4, <3>1 DEF Blank
    <3>3. RefsHeld(h, 0, <<>>, NoBranches)
      BY DEF RefsHeld
    <3>4. \A b \in Branches : NoBranches[b].sequence = 0
      BY DEF NoBranches, NoBranch
    <3>5. Exact(h, 0, <<>>, NoBranches)
      BY <3>3, <3>4 DEF Exact
    <3> QED BY <2>2, <3>1, <3>2, <3>5
  <2> QED BY <2>1, <2>2
<1>6. Exact(h, n, mc, mb)
  <2>1. /\ known = first.commits /\ heads = first.branches
        /\ mc = Load(h, start, first).commits /\ mb = Load(h, start, first).branches
        /\ FileSound(h, n, s, content, LowOf(h))
        /\ Basis(h, n, s, start, first.commits, first.branches, LowOf(h))
    BY <1>1, <1>2, <1>4
  <2> QED BY <1>1, <1>3, <1>5, <2>1, LoadedExact
<1>7. PICK names, found : names = memory.retains /\ found = memory.metadata
  OBVIOUS
<1>8. /\ first.metadata /\ LastMeta(h, start, first.retains) => found /\ LastMeta(h, n, names)
      /\ start = 0 /\ ~first.metadata =>
           \/ found /\ LastMeta(h, n, names)
           \/ ~found /\ names = first.retains /\ \A i \in 1..n : h[i].type # "meta"
  <2>1. names = Load(h, start, first).retains /\ found = Load(h, start, first).metadata
    BY <1>2, <1>7, Zenon
  <2>2. h \in Seq(Record) /\ n \in Nat /\ Len(h) = n /\ start \in 0..n
    BY <1>1
  <2>3. first.metadata /\ LastMeta(h, start, first.retains) => found /\ LastMeta(h, n, names)
    BY <2>1, <2>2, LoadedNames
  <2>4. start = 0 /\ ~first.metadata =>
           \/ found /\ LastMeta(h, n, names)
           \/ ~found /\ names = first.retains /\ \A i \in 1..n : h[i].type # "meta"
    BY <2>1, <2>2, LoadedNames
  <2> QED BY <2>3, <2>4
<1>9. \/ found /\ LastMeta(h, n, names)
      \/ ~found /\ names = NoRetains /\ \A i \in 1..n : h[i].type # "meta"
  BY <1>5, <1>8, Zenon
<1>10. \/ memory.metadata /\ LastMeta(h, n, memory.retains)
       \/ ~memory.metadata /\ memory.retains = NoRetains /\ \A i \in 1..n : h[i].type # "meta"
  BY <1>7, <1>9, Zenon
<1> QED BY <1>3, <1>4, <1>6, <1>10, Zenon

\* What open() writes behind a log without refs: the first commit, the ref that creates the
\* main branch from it, and metadata with no names.
First(h, n, f, id) ==
  /\ \A i \in 1..n : h[i].type # "ref" /\ (h[i].type = "commit" => h[i].id # id)
  /\ \A i \in 1..n : f[i] = h[i]
  /\ f[n + 1].type = "commit" /\ f[n + 1].id = id /\ f[n + 1].sequence = 0
  /\ f[n + 2].type = "ref" /\ f[n + 2].operation = "create" /\ f[n + 2].sequence = 0
  /\ f[n + 2].head = id
  /\ f[n + 3].type = "meta" /\ \A name \in Names : f[n + 3].retains[name] = NONE

LEMMA FirstFollows ==
  ASSUME NEW n \in Nat, NEW h, NEW f, NEW id, First(h, n, f, id),
         NEW answered, \A a \in answered : a.sequence > 0,
         NEW names, \A name \in Names : names[name] = NONE
  PROVE  /\ Follows(h, n, f, n + 3) /\ Spares(h, n, f, n + 3, answered, names)
         /\ \A i \in 1..(n + 3) : f[i].type = "ref" => f[i].head = id
         /\ \E i \in 1..(n + 3) : f[i].type = "ref"
<1>1. /\ \A i \in 1..n : h[i].type # "ref" /\ (h[i].type = "commit" => h[i].id # id)
      /\ \A i \in 1..n : f[i] = h[i]
      /\ f[n + 1].type = "commit" /\ f[n + 1].id = id /\ f[n + 1].sequence = 0
      /\ f[n + 2].type = "ref" /\ f[n + 2].operation = "create" /\ f[n + 2].sequence = 0
      /\ f[n + 2].head = id
      /\ f[n + 3].type = "meta" /\ \A name \in Names : f[n + 3].retains[name] = NONE
  BY DEF First
<1>2. /\ \A i \in (n + 1)..(n + 3) : i = n + 1 \/ i = n + 2 \/ i = n + 3
      /\ \A i \in 1..(n + 3) : i \in 1..n \/ i \in (n + 1)..(n + 3)
      /\ n + 2 \in 1..(n + 3)
  OBVIOUS
<1>3. \A c : ~Named(h, n, c)
  BY <1>1 DEF Named
<1>4. \A i \in (n + 1)..(n + 3) : f[i].type = "ref" => i = n + 2
  BY <1>1, <1>2
<1>5. \A i \in (n + 1)..(n + 3) : f[i].type = "commit" => i = n + 1
  BY <1>1, <1>2
<1>6. \A i \in (n + 1)..(n + 3) : f[i].type = "meta" => i = n + 3
  BY <1>1, <1>2
<1>7. Follows(h, n, f, n + 3)
  <2>1. \A j \in (n + 1)..(n + 3) : f[j].type = "commit" => ~Named(h, n, f[j].id)
    BY <1>3
  <2>2. \A i \in (n + 1)..(n + 3) : f[i].type = "ref" =>
          /\ f[i].operation = "create" /\ f[i].sequence = 0
          /\ \A k \in 1..n : h[k].type = "ref" => h[k].branch # f[i].branch
    BY <1>1, <1>4
  <2>3. \A i, k \in (n + 1)..(n + 3) : f[i].type = "ref" /\ f[k].type = "ref" => i = k
    BY <1>4
  <2>4. \A i \in (n + 1)..(n + 3) : f[i].type = "meta" =>
          \A name \in Names : f[i].retains[name] # NONE => Named(f, i, f[i].retains[name])
    BY <1>1, <1>6
  <2> QED BY <1>1, <2>1, <2>2, <2>3, <2>4 DEF Follows
<1>8. Spares(h, n, f, n + 3, answered, names)
  <2>1. \A i \in (n + 1)..(n + 3) : f[i].type = "ref" =>
          \A j \in 1..n : h[j].type = "commit" => h[j].id # f[i].head
    BY <1>1, <1>4
  <2>2. \A j \in (n + 1)..(n + 3) : f[j].type = "commit" =>
          \A a \in answered : a.sequence # f[j].sequence
    <3> SUFFICES ASSUME NEW j \in (n + 1)..(n + 3), f[j].type = "commit", NEW a \in answered
                 PROVE  a.sequence # f[j].sequence
      OBVIOUS
    <3>1. f[j].sequence = 0
      BY <1>1, <1>5
    <3>2. a.sequence > 0
      OBVIOUS
    <3> QED BY <3>1, <3>2
  <2> QED BY <1>1, <2>1, <2>2 DEF Spares
<1>9. \A i \in 1..(n + 3) : f[i].type = "ref" => f[i].head = id
  BY <1>1, <1>2, <1>4
<1>10. \E i \in 1..(n + 3) : f[i].type = "ref"
  BY <1>1, <1>2
<1> QED BY <1>7, <1>8, <1>9, <1>10

\* Without refs nothing is promised, and nothing retained.
LEMMA NothingNamed ==
  ASSUME NEW n \in Nat, NEW f, LogSound(f, n), \A i \in 1..n : f[i].type # "ref",
         NEW s \in 0..n, NEW promises, NamesKept(f, n, s, promises)
  PROVE  /\ \A names : LastMeta(f, n, names) => \A name \in Names : names[name] = NONE
         /\ \A name \in Names : promises[name] = NONE
<1>1. NamesThere(f, n)
  BY DEF LogSound
<1>2. \A k \in 1..n : \A c : ~Named(f, k, c)
  BY DEF Named
<1>3. \A m \in 1..n : f[m].type = "meta" => \A name \in Names : f[m].retains[name] = NONE
  BY <1>1, <1>2 DEF NamesThere
<1>4. ASSUME NEW names, LastMeta(f, n, names), NEW name \in Names
      PROVE  names[name] = NONE
  BY <1>3, <1>4 DEF LastMeta
<1>5. ASSUME NEW name \in Names, promises[name] # NONE
      PROVE  FALSE
  <2>1. PICK m \in 1..s : /\ f[m].type = "meta"
                          /\ \A k \in m..n : f[k].type = "meta" => f[k].retains[name] = promises[name]
    BY <1>5 DEF NamesKept
  <2>2. m \in 1..n /\ m \in m..n
    BY <2>1
  <2> QED BY <1>3, <1>5, <2>1, <2>2
<1> QED BY <1>4, <1>5

\* Without metadata nothing is promised.
LEMMA NothingPromised ==
  ASSUME NEW n \in Nat, NEW f, \A i \in 1..n : f[i].type # "meta",
         NEW s \in 0..n, NEW promises, NamesKept(f, n, s, promises)
  PROVE  \A name \in Names : promises[name] = NONE
<1>1. ASSUME NEW name \in Names, promises[name] # NONE
      PROVE  FALSE
  <2>1. PICK m \in 1..s : f[m].type = "meta"
    BY <1>1 DEF NamesKept
  <2> QED BY <2>1
<1> QED BY <1>1

LEMMA OpenDurable ==
  ASSUME Sound, Durable, Sound', Open
  PROVE  Durable'
<1>1. PICK g \in path : \E h, n, s, low, start, memory :
        /\ Found(g, h, n, s, low, start, memory) /\ Walked(g, h, n, s, low, start, memory)
        /\ Enter(g, h, start, memory)
  BY OpenFinds
<1>2. PICK h, n, s, low, start, memory :
        /\ Found(g, h, n, s, low, start, memory) /\ Walked(g, h, n, s, low, start, memory)
        /\ Enter(g, h, start, memory)
  BY <1>1
<1>3. checkpoint' = checkpoint /\ acked' = acked /\ promised' = promised
  BY DEF Open
<1>4. /\ n \in Nat /\ h \in Seq(Record) /\ Len(h) = n
      /\ s = gens[g].synced /\ s \in 0..n
      /\ FileSound(h, n, s, content, low)
      /\ memory.branches \in Heads
      /\ CommitsSound(h, n, memory.commits)
      /\ HeadsSound(h, memory.commits, memory.branches, low)
      /\ memory.floors = low /\ memory.retains \in [Names -> Ids \union {NONE}]
      /\ memory.branches = NoBranches => \A i \in 1..n : h[i].type # "ref"
  BY <1>2 DEF Found
<1>5. ~Unloadable(h, start, memory)
  <2>1. LowOf(h) = low /\ start \in 0..n
    BY <1>2 DEF Found
  <2> QED BY <1>4, <2>1, LoadableIs
<1>6. PICK missing : missing = Missing(memory, h)
  OBVIOUS
<1>7. PICK f : f = h \o missing
  OBVIOUS
<1>8. Types /\ g \in Generations
  BY DEF Sound, Types
<1>9. /\ path' = {g} /\ current' = g
      /\ gens' = [x \in Generations |->
           IF x = g THEN [NewFile EXCEPT !.file = f, !.synced = gens[g].synced]
           ELSE IF x \in Written THEN Gone ELSE NewFile]
      /\ commits' = memory.commits /\ branches' = memory.branches
      /\ retains' = memory.retains /\ floors' = memory.floors
  <2>1. Min({s, n}) = s
    BY <1>4, LesserOf
  <2> QED BY <1>2, <1>4, <1>6, <1>7, <2>1 DEF Enter
<1>10. /\ (memory.branches = NoBranches => Fresh \in Ids)
       /\ state' = "opening" /\ job'.kind = "open"
       /\ job'.id = IF memory.branches = NoBranches THEN Fresh ELSE NONE
       /\ content' = IF memory.branches = NoBranches THEN With(content, Fresh, NONE) ELSE content
  BY <1>2, <1>5 DEF Enter
<1>11. gens'[g].file = f /\ gens'[g].synced = s
  <2>1. gens'[g] = [NewFile EXCEPT !.file = f, !.synced = gens[g].synced]
    BY <1>8, <1>9
  <2> QED BY <1>4, <2>1 DEF NewFile
<1>12. /\ n = Length(gens[g].file) /\ low = LowOf(gens[g].file)
       /\ \A i \in 1..n : h[i] = gens[g].file[i]
  BY <1>2 DEF Walked
<1>13. /\ Exact(h, n, memory.commits, memory.branches)
       /\ LogSound(h, n) /\ NamesKept(h, n, s, promised)
       /\ \/ memory.metadata /\ LastMeta(h, n, memory.retains)
          \/ ~memory.metadata /\ memory.retains = NoRetains /\ \A i \in 1..n : h[i].type # "meta"
  BY <1>2, OpenLoads
<1>14. PICK meta : meta = MetaRecord(memory.retains, memory.floors)
  OBVIOUS
<1>15. meta \in Record /\ meta.type = "meta" /\ meta.retains = memory.retains
  <2>1. low \in [Branches -> Nat]
    BY <1>2 DEF Found
  <2> QED BY <1>4, <1>14, <2>1, RecordsMade DEF MetaRecord
<1>16. \A m \in Nat : n <= m /\ m = Len(f) /\ Follows(h, n, f, m)
                      /\ DOMAIN content \subseteq DOMAIN content' => Opens(g, h, n, s, low, f, m)
  BY <1>3, <1>4, <1>8, <1>9, <1>10, <1>11, <1>12 DEF Opens
<1>17. CASE memory.branches = NoBranches
  <2>1. PICK id : id = Fresh
    OBVIOUS
  <2>2. id \in Ids /\ id \notin DOMAIN content /\ id # NONE
    BY <1>8, <1>10, <1>17, <2>1, FreshIs DEF Ids, NONE
  <2>3. PICK commit, ref : /\ commit = CommitRecord(id, Main, 0, 0)
                           /\ ref = RefRecord("create", Main, id, 0)
    OBVIOUS
  <2>4. /\ commit \in Record /\ commit.type = "commit" /\ commit.id = id
        /\ commit.sequence = 0
        /\ ref \in Record /\ ref.type = "ref" /\ ref.operation = "create" /\ ref.head = id
        /\ ref.sequence = 0
    BY <2>2, <2>3, RecordsMade, FileAssumption DEF CommitRecord, RefRecord
  <2>5. missing = <<commit, ref, meta>>
    BY <1>6, <1>14, <1>17, <2>1, <2>3 DEF Missing
  <2>6. missing \in Seq(Record) /\ Len(missing) = 3
        /\ missing[1] = commit /\ missing[2] = ref /\ missing[3] = meta
    BY <1>15, <2>4, <2>5
  <2>7. /\ f \in Seq(Record) /\ Len(f) = Len(h) + Len(missing)
        /\ \A i \in 1..Len(h) : f[i] = h[i]
        /\ \A i \in 1..Len(missing) : f[Len(h) + i] = missing[i]
    <3>1. h \in Seq(Record) /\ missing \in Seq(Record)
      BY <1>4, <2>6
    <3> QED BY <1>7, <3>1, TwoParts
  <2>8. /\ Len(f) = n + 3 /\ (\A i \in 1..n : f[i] = h[i])
        /\ f[n + 1] = commit /\ f[n + 2] = ref /\ f[n + 3] = meta
    <3>1. 1 \in 1..Len(missing) /\ 2 \in 1..Len(missing) /\ 3 \in 1..Len(missing)
      BY <2>6
    <3> QED BY <1>4, <2>6, <2>7, <3>1
  <2>9. DOMAIN content \subseteq DOMAIN content'
    BY <1>8, <1>10, <1>17, ContentGrows
  <2>10. \A i \in 1..n : h[i].type # "ref" /\ (h[i].type = "commit" => h[i].id # id)
    <3> SUFFICES ASSUME NEW i \in 1..n, h[i].type = "commit"
                 PROVE  h[i].id # id
      BY <1>4, <1>17
    <3>1. RecordSound(h, i, content, low)
      BY <1>4, FileSoundIs
    <3>2. h[i].id \in DOMAIN content
      BY <3>1 DEF RecordSound
    <3> QED BY <2>2, <3>2
  <2>11. (\A name \in Names : memory.retains[name] = NONE) /\ \A name \in Names : promised[name] = NONE
    <3>1. \A i \in 1..n : h[i].type # "ref"
      BY <2>10
    <3>2. \A names : LastMeta(h, n, names) => \A name \in Names : names[name] = NONE
      BY <1>4, <1>13, <3>1, NothingNamed
    <3>3. \A name \in Names : promised[name] = NONE
      BY <1>4, <1>13, <3>1, NothingNamed
    <3>4. \A name \in Names : NoRetains[name] = NONE
      BY DEF NoRetains
    <3>5. \A name \in Names : memory.retains[name] = NONE
      BY <1>13, <3>2, <3>4
    <3> QED BY <3>3, <3>5
  <2>12. First(h, n, f, id)
    BY <1>15, <2>4, <2>8, <2>10, <2>11 DEF First
  <2>13. \A a \in acked : a.sequence > 0
    BY DEF Durable, Answers
  <2>14. /\ Follows(h, n, f, n + 3) /\ Spares(h, n, f, n + 3, acked, promised)
         /\ \A i \in 1..(n + 3) : f[i].type = "ref" => f[i].head = id
         /\ \E i \in 1..(n + 3) : f[i].type = "ref"
    <3>1. n \in Nat /\ \A name \in Names : promised[name] = NONE
      BY <1>4, <2>11
    <3>2. \A answered, names :
            (\A a \in answered : a.sequence > 0) /\ (\A name \in Names : names[name] = NONE) =>
              /\ Follows(h, n, f, n + 3) /\ Spares(h, n, f, n + 3, answered, names)
              /\ \A i \in 1..(n + 3) : f[i].type = "ref" => f[i].head = id
              /\ \E i \in 1..(n + 3) : f[i].type = "ref"
      BY <2>12, <3>1, FirstFollows
    <3> QED BY <2>13, <3>1, <3>2
  <2>15. LastMeta(f, n + 3, retains')
    <3>1. n + 3 \in Nat /\ n + 3 > 0 /\ f[n + 3].type = "meta" /\ f[n + 3].retains = retains'
      BY <1>4, <1>9, <1>15, <2>8
    <3>2. LastMeta(f, n + 3, f[n + 3].retains)
      BY <3>1, MetaNew
    <3> QED BY <3>1, <3>2
  <2>16. n + 3 \in Nat /\ n <= n + 3
    BY <1>4
  <2>17. Opens(g, h, n, s, low, f, n + 3)
    BY <1>16, <2>8, <2>9, <2>14, <2>16
  <2>18. job'.id = id /\ job'.id # NONE
    BY <1>10, <1>17, <2>1, <2>2
  <2> QED BY <2>14, <2>15, <2>17, <2>18, OpensFile
<1>18. CASE memory.branches # NoBranches
  <2>1. content' = content /\ job'.id = NONE
    BY <1>10, <1>18
  <2>2. CASE memory.metadata
    <3>1. f = h
      <4>1. missing = <<>>
        BY <1>6, <1>18, <2>2 DEF Missing
      <4> QED BY <1>4, <1>7, <4>1
    <3>2. Follows(h, n, f, n)
      BY <1>4, <3>1 DEF Follows
    <3>3. Spares(h, n, f, n, acked, promised)
      BY <1>4, <3>1 DEF Spares
    <3>4. Opens(g, h, n, s, low, f, n)
      BY <1>4, <1>16, <2>1, <3>1, <3>2
    <3>5. LastMeta(f, n, retains') /\ Exact(f, n, commits', branches')
      BY <1>9, <1>13, <2>2, <3>1
    <3> QED BY <2>1, <3>3, <3>4, <3>5, OpensFile
  <2>3. CASE ~memory.metadata
    <3>1. missing = <<meta>>
      BY <1>6, <1>14, <1>18, <2>3 DEF Missing
    <3>2. f = h \o <<meta>>
      BY <1>7, <3>1
    <3>3. /\ Len(f) = n + 1 /\ f[Len(f)] = meta /\ \A i \in 1..n : f[i] = h[i]
      BY <1>4, <1>15, <3>2, OneBehind
    <3>4. f[n + 1] = meta /\ n + 1 \in Nat /\ n <= n + 1 /\ \A i \in (n + 1)..(n + 1) : i = n + 1
      BY <1>4, <3>3
    <3>5. memory.retains = NoRetains /\ \A i \in 1..n : h[i].type # "meta"
      BY <1>13, <2>3
    <3>6. \A name \in Names : promised[name] = NONE
      BY <1>4, <1>13, <3>5, NothingPromised
    <3>7. \A name \in Names : meta.retains[name] = NONE
      BY <1>15, <3>5 DEF NoRetains
    <3>8. Follows(h, n, f, n + 1)
      BY <1>15, <3>3, <3>4, <3>7 DEF Follows
    <3>9. Spares(h, n, f, n + 1, acked, promised)
      BY <1>15, <3>3, <3>4, <3>6 DEF Spares
    <3>10. Opens(g, h, n, s, low, f, n + 1)
      BY <1>16, <2>1, <3>3, <3>4, <3>8
    <3>11. LastMeta(f, n + 1, retains')
      <4>1. n + 1 > 0 /\ f[n + 1].type = "meta" /\ f[n + 1].retains = retains'
        BY <1>4, <1>9, <1>15, <3>4
      <4>2. LastMeta(f, n + 1, f[n + 1].retains)
        BY <3>4, <4>1, MetaNew
      <4> QED BY <4>1, <4>2
    <3>12. Exact(f, n + 1, commits', branches')
      <4>1. \A i \in (n + 1)..(n + 1) : f[i].type # "ref"
        BY <1>15, <3>4
      <4>2. Exact(f, n + 1, memory.commits, memory.branches)
        BY <1>4, <1>13, <3>3, <3>4, <4>1, ExactGrows
      <4> QED BY <1>9, <4>2
    <3> QED BY <2>1, <3>9, <3>10, <3>11, <3>12, OpensFile
  <2> QED BY <2>2, <2>3
<1> QED BY <1>17, <1>18

-----------------------------------------------------------------------------
(* Every step, and what follows. *)

LEMMA InitDurable ==
  ASSUME Init
  PROVE  Durable
<1>1. /\ gens = [g \in Generations |-> NewFile] /\ path = {1} /\ checkpoint.gen = 0
      /\ state = "down" /\ job.kind = "idle" /\ acked = {} /\ promised = NoRetains
  BY DEF Init, NoCheckpoint, NoJob
<1>2. 1 \in Generations
  BY FileAssumption DEF Generations
<1>3. gens[1].file = <<>> /\ gens[1].synced = 0
  BY <1>1, <1>2 DEF NewFile
<1>4. Length(<<>>) = 0
  BY DEF Length
<1>5. Answers
  BY <1>1 DEF Answers, NoRetains
<1>6. Holding(<<>>, 0, 0, LowOf(<<>>))
  <2>1. LogSound(<<>>, 0)
    BY DEF LogSound, RefsLead, OneBase, NamesThere
  <2>2. CommitsKept(<<>>, 0, 0, LowOf(<<>>), acked)
    BY <1>1 DEF CommitsKept
  <2>3. NamesKept(<<>>, 0, 0, promised)
    BY <1>1 DEF NamesKept, NoRetains
  <2> QED BY <2>1, <2>2, <2>3 DEF Holding
<1>7. LogsSound
  BY <1>1, <1>3, <1>4, <1>6 DEF LogsSound
<1>8. CheckpointExact
  <2>1. ~(0 = 1)
    OBVIOUS
  <2> QED BY <1>1, <2>1 DEF CheckpointExact
<1>9. MemoryExact /\ JobExact
  BY <1>1 DEF MemoryExact, Running, JobExact, OpenExact, AppendExact, RetainExact, CopyExact
<1> QED BY <1>5, <1>7, <1>8, <1>9 DEF Durable

\* Every step but a sync or an append that fails keeps the invariant.
LEMMA NextDurable ==
  ASSUME Garbling = FALSE, Sound, Durable, Sound', [Next]_vars,
         ~AppendFails, ~SyncFails, ~DirectorySyncFails
  PROVE  Durable'
<1>0. Types
  BY DEF Sound
<1>1. CASE CallersStep
  BY <1>0, <1>1, CallersStepDurable
<1>2. CASE QuietStep
  BY <1>2, QuietStepDurable
<1>3. CASE Operation
  <2>1. CASE Open
    BY <2>1, OpenDurable
  <2>2. CASE Close
    BY <1>2, <2>2 DEF QuietStep
  <2>3. CASE \E b \in Branches : Commit(b) \/ CreateBranch(b)
    BY <2>3, CommitDurable, CreateBranchDurable
  <2>4. CASE \E name \in Names : Retain(name) \/ RetainAgain(name) \/ ReleaseRetention(name)
    BY <2>4, RetainDurable, RetainAgainDurable, ReleaseRetentionDurable
  <2>5. CASE \E r \in Readers : CallSnapshot(r) \/ CloseSnapshot(r)
    BY <1>1, <2>5 DEF CallersStep
  <2>6. CASE \E t \in Streams :
               \/ \E b \in Branches, after \in Sequences : CallChanges(t, b, after)
               \/ EndStream(t)
    BY <1>1, <2>6 DEF CallersStep
  <2>7. CASE CollectGarbage
    BY <1>1, <2>7 DEF CallersStep
  <2> QED BY <1>3, <2>1, <2>2, <2>3, <2>4, <2>5, <2>6, <2>7 DEF Operation
<1>4. CASE Fault
  <2>1. CollectionFails \/ Crash
    BY <1>4 DEF Fault
  <2>2. CASE CollectionFails
    BY <1>2, <2>2 DEF QuietStep
  <2> QED BY <2>1, <2>2, CrashDurable
<1>5. CASE Progress
  <2>1. CASE SyncDone \/ StartCollection \/ InstallGeneration \/ CloseEnds
    BY <2>1, SyncDoneDurable, StartCollectionDurable, InstallGenerationDurable, CloseEndsDurable
  <2>2. CASE CollectionDone
    BY <1>2, <2>2 DEF QuietStep
  <2>3. CASE \E r \in Readers : Snapshot(r)
    BY <1>1, <2>3 DEF CallersStep
  <2>4. CASE \E t \in Streams : Subscribe(t) \/ Replay(t) \/ Replayed(t) \/ Deliver(t)
    BY <1>1, <2>4 DEF CallersStep
  <2> QED BY <1>5, <2>1, <2>2, <2>3, <2>4 DEF Progress
<1>6. CASE UNCHANGED vars
  BY <1>2, <1>6 DEF QuietStep
<1> QED BY <1>3, <1>4, <1>5, <1>6 DEF Next

\* Syncs that fail are counted, and nothing else is.
LEMMA SyncFaultsCounted ==
  ASSUME [Next]_vars
  PROVE  \/ syncFaults' = syncFaults /\ ~SyncFails /\ ~DirectorySyncFails
         \/ (SyncFails \/ DirectorySyncFails) /\ syncFaults' = syncFaults + 1
<1>1. CASE SyncFails \/ DirectorySyncFails
  BY <1>1 DEF SyncFails, DirectorySyncFails
<1>2. CASE ~SyncFails /\ ~DirectorySyncFails
  <2>1. Operation => syncFaults' = syncFaults
    BY DEF Operation, Open, Close, Commit, CreateBranch, Retain, RetainAgain,
       ReleaseRetention, CallSnapshot, CloseSnapshot, CallChanges, EndStream, CollectGarbage,
       faultVars
  <2>2. Fault => syncFaults' = syncFaults
    BY <1>2 DEF Fault, AppendFails, CollectionFails, Crash, faultVars
  <2>3. Progress => syncFaults' = syncFaults
    BY DEF Progress, SyncDone, StartCollection, InstallGeneration, CollectionDone, CloseEnds,
       Snapshot, Subscribe, Replay, Replayed, Deliver, faultVars
  <2>4. UNCHANGED vars => syncFaults' = syncFaults
    BY DEF vars, faultVars
  <2>5. syncFaults' = syncFaults
    BY <2>1, <2>2, <2>3, <2>4 DEF Next
  <2> QED BY <1>2, <2>5
<1> QED BY <1>1, <1>2

\* What was answered is synced, and what is synced is known.
LEMMA DurableAnswers ==
  ASSUME Sound, Durable
  PROVE  AnswersHold
<1> SUFFICES ASSUME state = "open"
             PROVE  NoAckedLost /\ RetainsDurable
  BY DEF AnswersHold, AckedSurvive, NoAckedLost, RetainsDurable
<1>1. Running
  BY DEF Running
<1>2. PICK f, n, s : f = File /\ n = Len(File) /\ s = gens[current].synced
  OBVIOUS
<1>3. /\ Types /\ f \in Seq(Record) /\ n \in Nat /\ n = Len(f) /\ s \in 0..n
      /\ LogSound(f, n) /\ CommitsKept(f, n, s, LowOf(f), acked) /\ NamesKept(f, n, s, promised)
      /\ LastMeta(f, n, retains)
  BY <1>1, <1>2, LogInUse
<1>4. RefsHeld(f, Settled, commits, branches)
  <2>1. Exact(f, Settled, commits, branches)
    BY <1>1, <1>2 DEF Durable, MemoryExact
  <2> QED BY <2>1 DEF Exact
<1>5. Settled \in Nat /\ s <= Settled
  BY <1>2, <1>3 DEF Settled, Durable, JobExact, AppendExact
<1>6. floors = LowOf(f)
  BY <1>1, <1>2 DEF Sound, MemorySound
<1>7. \A i \in 1..s : f[i].type = "ref" =>
        /\ f[i].branch \in Branches /\ f[i].sequence \in Nat
        /\ f[i].sequence <= branches[f[i].branch].sequence
        /\ f[i].head \in DOMAIN commits
  <2> SUFFICES ASSUME NEW i \in 1..s, f[i].type = "ref"
               PROVE  /\ f[i].branch \in Branches /\ f[i].sequence \in Nat
                      /\ f[i].sequence <= branches[f[i].branch].sequence
                      /\ f[i].head \in DOMAIN commits
    OBVIOUS
  <2>1. i \in 1..Settled /\ f[i] \in Record
    BY <1>3, <1>5
  <2> QED BY <1>4, <2>1, RecordKinds DEF RefsHeld
<1>8. \A b \in Branches : branches[b].sequence \in Nat
  BY <1>3 DEF Types, Heads, Branch
<1>9. NoAckedLost
  <2> SUFFICES ASSUME NEW a \in acked
               PROVE  /\ branches[a.branch].sequence >= a.sequence
                      /\ a.sequence > floors[a.branch] => a.id \in DOMAIN commits
    BY DEF NoAckedLost
  <2>1. a.branch \in Branches /\ a.sequence \in Nat
    BY DEF Durable, Answers
  <2>2. branches[a.branch].sequence >= a.sequence
    <3>1. PICK i \in 1..s : /\ f[i].type = "ref" /\ f[i].branch = a.branch
                            /\ f[i].sequence >= a.sequence
      BY <1>3 DEF CommitsKept
    <3> QED BY <1>7, <1>8, <2>1, <3>1
  <2>3. ASSUME a.sequence > floors[a.branch]
        PROVE  a.id \in DOMAIN commits
    <3>1. Named(f, s, a.id)
      BY <1>3, <1>6, <2>3 DEF CommitsKept
    <3> QED BY <1>7, <3>1 DEF Named
  <2> QED BY <2>2, <2>3
<1>10. RetainsDurable
  <2> SUFFICES ASSUME NEW name \in Names, promised[name] # NONE
               PROVE  retains[name] = promised[name] /\ promised[name] \in DOMAIN commits
    BY DEF RetainsDurable
  <2>1. NamesThere(f, n)
    BY <1>3 DEF LogSound
  <2>2. retains[name] = promised[name]
    BY <1>3, <2>1, PromisesMet
  <2>3. PICK m \in 1..s : /\ f[m].type = "meta"
                          /\ \A k \in m..n : f[k].type = "meta" => f[k].retains[name] = promised[name]
    BY <1>3 DEF NamesKept
  <2>4. m \in 1..n /\ m \in m..n
    BY <1>3, <2>3
  <2>5. Named(f, m, promised[name])
    BY <2>1, <2>3, <2>4 DEF NamesThere
  <2>6. \A i \in 1..m : i \in 1..s
    BY <1>3, <2>3
  <2> QED BY <1>7, <2>2, <2>5, <2>6 DEF Named
<1> QED BY <1>9, <1>10

-----------------------------------------------------------------------------
(* The theorem. *)

Kept == syncFaults \in Nat /\ DurableInv

\* What the log holds stays exact, as long as no sync and no append fails.
LEMMA LogStaysExact ==
  ASSUME Garbling = FALSE
  PROVE  Spec => [](Safe /\ Kept)
<1>1. Init => Kept
  <2>1. Init => syncFaults = 0
    BY DEF Init
  <2> QED BY <2>1, InitDurable DEF Kept, DurableInv
<1>2. Safe /\ Safe' /\ Kept /\ [Next]_vars => Kept'
  <2> SUFFICES ASSUME Safe, Safe', Kept, [Next]_vars
               PROVE  Kept'
    OBVIOUS
  <2>1. \/ syncFaults' = syncFaults /\ ~SyncFails /\ ~DirectorySyncFails
        \/ (SyncFails \/ DirectorySyncFails) /\ syncFaults' = syncFaults + 1
    BY SyncFaultsCounted
  <2>2. writeFaults' = writeFaults \/ (AppendFails /\ writeFaults' = writeFaults + 1)
    BY FaultsCounted
  <2>3. syncFaults \in Nat /\ writeFaults \in Nat
    BY DEF Kept, Safe
  <2>4. ASSUME syncFaults' = 0, writeFaults' = 0
        PROVE  Durable'
    <3>1. syncFaults = 0 /\ writeFaults = 0 /\ ~SyncFails /\ ~DirectorySyncFails
      BY <2>1, <2>2, <2>3, <2>4
    <3>2. ~AppendFails
      <4>1. AppendFails => writeFaults' = writeFaults + 1
        BY DEF AppendFails
      <4> QED BY <2>4, <3>1, <4>1
    <3>3. Sound /\ Sound' /\ Durable
      BY <2>4, <3>1 DEF Safe, FileInv, Kept, DurableInv
    <3> QED BY <3>1, <3>2, <3>3, NextDurable
  <2>5. syncFaults' \in Nat
    BY <2>1, <2>3
  <2> QED BY <2>4, <2>5 DEF Kept, DurableInv
<1> QED BY <1>1, <1>2, FilesStaySound, PTL DEF Spec

\* What a caller was answered holds, whatever crashes, recoveries and collections come in
\* between, as long as no sync and no append fails: an acknowledged commit's branch is at
\* least as far, the commit is known unless its history was collected, and a retention has
\* its name and its commit until it is released (commitNow, retain, recover, load).
THEOREM AnswersStay ==
  ASSUME Garbling = FALSE
  PROVE  Spec => [](syncFaults = 0 /\ writeFaults = 0 => AnswersHold)
<1>1. Safe /\ Kept => (syncFaults = 0 /\ writeFaults = 0 => AnswersHold)
  BY DurableAnswers DEF Safe, FileInv, Kept, DurableInv
<1> QED BY <1>1, LogStaysExact, PTL
-----------------------------------------------------------------------------
(* Streams. *)

\* The refs of a branch rise.
RefsStrict(f, n) ==
  \A i \in 1..n : f[i].type = "ref" =>
    /\ f[i].operation = "create" => f[i].sequence = 0
    /\ f[i].operation = "commit" =>
         \A k \in 1..(i - 1) : f[k].type = "ref" /\ f[k].branch = f[i].branch =>
           f[k].sequence < f[i].sequence

\* A ref that a stream replays.
Asked(s, record) ==
  /\ record.type = "ref" /\ record.operation = "commit" /\ record.branch = s.branch
  /\ record.sequence > s.from /\ record.sequence <= s.through

\* The commit c of a log has this place.
PlacedAt(log, known, c, b, q) ==
  c \in DOMAIN known /\ log[known[c]].branch = b /\ log[known[c]].sequence = q

\* What a replay still has to yield is in its file, in order, and its commits are known.
Replayable(s, f, log, known) ==
  /\ \A i \in (s.at + 1)..Len(f) : Asked(s, f[i]) =>
       /\ f[i].sequence > s.retainAfter
       /\ PlacedAt(log, known, f[i].head, s.branch, f[i].sequence)
       /\ \A k \in (s.at + 1)..(i - 1) : Asked(s, f[k]) => f[k].sequence < f[i].sequence
  /\ \A q \in (s.retainAfter + 1)..s.through :
       \E i \in (s.at + 1)..Len(f) : Asked(s, f[i]) /\ f[i].sequence = q

\* The queue of a stream begins where its replay ends, and ends at the branch's head.
Queued(s, top) ==
  LET base == IF s.state = "replaying" THEN s.through ELSE s.retainAfter IN
  /\ s.from <= s.retainAfter /\ s.retainAfter <= base
  /\ s.after = top /\ base + Len(s.queue) = top
  /\ \A i \in 1..Len(s.queue) : s.queue[i] = base + i

\* A stream that waits has seen nothing yet, and asks for what was there.
Waits(s, top) == s.at = 0 /\ s.queue = <<>> /\ s.from = s.retainAfter /\ s.retainAfter <= top

Active(t) == streams[t].state \in {"replaying", "live"}

\* A stream whose branch is at top, which replays f, while these commits are known.
Expects(s, top, f, log, known) ==
  /\ s.state # "lost"
  /\ s.state = "waiting" => Waits(s, top)
  /\ s.state \in {"replaying", "live"} => Queued(s, top)
  /\ s.state = "replaying" => Replayable(s, f, log, known)

StreamsFollow ==
  \A t \in Streams :
    Expects(streams[t], branches[streams[t].branch].sequence, gens[streams[t].gen].file,
            File, commits)

LogsStrict == \A g \in path : RefsStrict(gens[g].file, Length(gens[g].file))

\* What a collection copies keeps its place, and is all that a stream may still ask for.
CopyServes ==
  job.kind = "collect" =>
    /\ RefsStrict(job.file, Len(job.file))
    /\ \A i \in 1..Len(job.file) : job.file[i].type = "commit" =>
         PlacedAt(File, commits, job.file[i].id, job.file[i].branch, job.file[i].sequence)
    /\ \A t \in Streams : Active(t) =>
         \A c \in OfBranch(streams[t].branch) :
           RecordAt(c).sequence > streams[t].retainAfter => c \in job.retained

Streaming == LogsStrict /\ CopyServes /\ StreamsFollow

StreamingInv == syncFaults = 0 /\ writeFaults = 0 => Streaming

LEMMA StrictAgrees ==
  ASSUME NEW n \in Nat, NEW m \in 0..n, NEW f, NEW g, \A i \in 1..m : g[i] = f[i],
         RefsStrict(f, n)
  PROVE  RefsStrict(g, m)
<1>1. \A i \in 1..m : /\ i \in 1..n /\ g[i] = f[i]
                      /\ \A k \in 1..(i - 1) : g[k] = f[k]
  OBVIOUS
<1> QED BY <1>1 DEF RefsStrict

\* New refs that rise above the refs of their branch.
RefsRiseOn(g, n, m) ==
  \A i \in (n + 1)..m : g[i].type = "ref" =>
    /\ g[i].operation = "create" => g[i].sequence = 0
    /\ g[i].operation = "commit" =>
         \A k \in 1..(i - 1) : g[k].type = "ref" /\ g[k].branch = g[i].branch =>
           g[k].sequence < g[i].sequence

LEMMA StrictGrows ==
  ASSUME NEW n \in Nat, NEW m \in Nat, n <= m, NEW f, NEW g, \A i \in 1..n : g[i] = f[i],
         RefsStrict(f, n), RefsRiseOn(g, n, m)
  PROVE  RefsStrict(g, m)
<1>1. n \in 0..n
  OBVIOUS
<1>2. RefsStrict(g, n)
  BY <1>1, StrictAgrees
<1>3. \A i \in 1..m : i \in 1..n \/ i \in (n + 1)..m
  OBVIOUS
<1> QED BY <1>2, <1>3 DEF RefsStrict, RefsRiseOn

\* What a stream still asks for keeps its place.
ServesOn(s, log, known, next, more) ==
  \A c, q : PlacedAt(log, known, c, s.branch, q) /\ q > s.retainAfter =>
              PlacedAt(next, more, c, s.branch, q)

\* A replay goes on in its file, whatever is appended to it, as long as its commits are known.
LEMMA ReplayGoesOn ==
  ASSUME NEW s, NEW f \in Seq(Record), NEW g \in Seq(Record), s.at \in Nat,
         Len(f) <= Len(g), \A i \in 1..Len(f) : g[i] = f[i],
         \A i \in (Len(f) + 1)..Len(g) : ~Asked(s, g[i]),
         NEW log, NEW known, NEW next, NEW more, ServesOn(s, log, known, next, more),
         Replayable(s, f, log, known)
  PROVE  Replayable(s, g, next, more)
<1>1. \A i \in (s.at + 1)..Len(g) : Asked(s, g[i]) => i \in (s.at + 1)..Len(f) /\ g[i] = f[i]
  OBVIOUS
<1>2. ASSUME NEW i \in (s.at + 1)..Len(g), Asked(s, g[i])
      PROVE  /\ g[i].sequence > s.retainAfter
             /\ PlacedAt(next, more, g[i].head, s.branch, g[i].sequence)
             /\ \A k \in (s.at + 1)..(i - 1) : Asked(s, g[k]) => g[k].sequence < g[i].sequence
  <2>1. i \in (s.at + 1)..Len(f) /\ g[i] = f[i]
    BY <1>1, <1>2
  <2>2. /\ f[i].sequence > s.retainAfter
        /\ PlacedAt(log, known, f[i].head, s.branch, f[i].sequence)
        /\ \A k \in (s.at + 1)..(i - 1) : Asked(s, f[k]) => f[k].sequence < f[i].sequence
    BY <1>2, <2>1 DEF Replayable
  <2>3. PlacedAt(next, more, f[i].head, s.branch, f[i].sequence)
    BY <2>2 DEF ServesOn
  <2>4. \A k \in (s.at + 1)..(i - 1) : g[k] = f[k]
    BY <2>1
  <2> QED BY <2>1, <2>2, <2>3, <2>4
<1>3. ASSUME NEW q \in (s.retainAfter + 1)..s.through
      PROVE  \E i \in (s.at + 1)..Len(g) : Asked(s, g[i]) /\ g[i].sequence = q
  <2>1. PICK i \in (s.at + 1)..Len(f) : Asked(s, f[i]) /\ f[i].sequence = q
    BY DEF Replayable
  <2>2. i \in (s.at + 1)..Len(g) /\ g[i] = f[i]
    BY <2>1
  <2> QED BY <2>1, <2>2
<1> QED BY <1>2, <1>3 DEF Replayable

\* The next step of a replay of f, from s to r.
Reads(s, f, log, known, top, at, r) ==
  /\ s \in Stream /\ f \in Seq(Record) /\ f = gens[s.gen].file /\ top \in Nat
  /\ s.state = "replaying" /\ Queued(s, top) /\ Replayable(s, f, log, known)
  /\ Remaining(s) # {} /\ at = Min(Remaining(s))
  /\ r.state = s.state /\ r.branch = s.branch /\ r.from = s.from /\ r.through = s.through
  /\ r.after = s.after /\ r.queue = s.queue /\ r.at = at /\ r.retainAfter = f[at].sequence

\* The next ref of a replay is that of the next commit.
LEMMA ReplayYields ==
  ASSUME NEW s, NEW f, NEW log, NEW known, NEW top, NEW at, NEW r,
         Reads(s, f, log, known, top, at, r)
  PROVE  /\ at > s.at /\ at \in 1..Len(f) /\ f[at].head \in DOMAIN known
         /\ r.retainAfter = s.retainAfter + 1
         /\ Queued(r, top) /\ Replayable(r, f, log, known)
<1> USE DEF Reads
<1>1. Remaining(s) = {i \in (s.at + 1)..Len(f) : Asked(s, f[i])}
  BY DEF Remaining, Asked
<1>2. at \in Remaining(s) /\ \A i \in Remaining(s) : at <= i
  <2>1. Remaining(s) \in SUBSET Nat
    BY <1>1 DEF Stream
  <2> QED BY <2>1, SmallestIn
<1>3. /\ s.at \in Nat /\ s.retainAfter \in Nat /\ s.through \in Nat /\ s.from \in Nat
      /\ Len(f) \in Nat /\ s.queue \in Seq(Nat) /\ Len(s.queue) \in Nat
  BY DEF Stream
<1>4. \A i \in 1..Len(f) : f[i].type = "ref" => f[i].sequence \in Nat
  BY FileTyped, RecordKinds
<1>5. at \in (s.at + 1)..Len(f) /\ Asked(s, f[at]) /\ at \in 1..Len(f) /\ at > s.at
  <2>1. at \in (s.at + 1)..Len(f) /\ Asked(s, f[at])
    BY <1>1, <1>2
  <2> QED BY <1>3, <2>1
<1>6. /\ f[at].sequence > s.retainAfter /\ f[at].head \in DOMAIN known
      /\ f[at].sequence <= s.through /\ f[at].sequence \in Nat
  BY <1>4, <1>5 DEF Replayable, PlacedAt, Asked
<1>7. \A i \in (s.at + 1)..Len(f) : Asked(s, f[i]) /\ i # at =>
        i \in (at + 1)..Len(f) /\ f[at].sequence < f[i].sequence
  <2> SUFFICES ASSUME NEW i \in (s.at + 1)..Len(f), Asked(s, f[i]), i # at
               PROVE  i \in (at + 1)..Len(f) /\ f[at].sequence < f[i].sequence
    OBVIOUS
  <2>1. at <= i
    BY <1>1, <1>2
  <2>2. i \in (at + 1)..Len(f) /\ at \in (s.at + 1)..(i - 1)
    BY <1>3, <1>5, <2>1
  <2> QED BY <1>5, <2>2 DEF Replayable
<1>8. f[at].sequence = s.retainAfter + 1
  <2>1. s.retainAfter + 1 \in (s.retainAfter + 1)..s.through
    BY <1>3, <1>6
  <2>2. PICK i \in (s.at + 1)..Len(f) : Asked(s, f[i]) /\ f[i].sequence = s.retainAfter + 1
    BY <2>1 DEF Replayable
  <2>3. CASE i = at
    BY <2>2, <2>3
  <2>4. CASE i # at
    <3>1. f[at].sequence < s.retainAfter + 1
      BY <1>7, <2>2, <2>4
    <3> QED BY <1>3, <1>6, <3>1
  <2> QED BY <2>3, <2>4
<1>9. Queued(r, top)
  BY <1>3, <1>6, <1>8 DEF Queued
<1>10. \A record : Asked(r, record) <=> Asked(s, record)
  BY DEF Asked
<1>11. ASSUME NEW i \in (r.at + 1)..Len(f), Asked(r, f[i])
       PROVE  /\ f[i].sequence > r.retainAfter
              /\ PlacedAt(log, known, f[i].head, r.branch, f[i].sequence)
              /\ \A k \in (r.at + 1)..(i - 1) : Asked(r, f[k]) => f[k].sequence < f[i].sequence
  <2>1. i \in (s.at + 1)..Len(f) /\ Asked(s, f[i]) /\ i # at
    BY <1>3, <1>5, <1>10, <1>11
  <2>2. /\ PlacedAt(log, known, f[i].head, s.branch, f[i].sequence)
        /\ \A k \in (s.at + 1)..(i - 1) : Asked(s, f[k]) => f[k].sequence < f[i].sequence
    BY <2>1 DEF Replayable
  <2>3. f[at].sequence < f[i].sequence
    BY <1>7, <2>1
  <2>4. \A k \in (r.at + 1)..(i - 1) : k \in (s.at + 1)..(i - 1)
    BY <1>3, <1>5, <2>1
  <2>5. f[i].sequence > r.retainAfter
    BY <1>6, <2>3, <1>4, <2>1, <1>3 DEF Asked
  <2> QED BY <1>10, <2>2, <2>4, <2>5
<1>12. ASSUME NEW q \in (r.retainAfter + 1)..r.through
       PROVE  \E i \in (r.at + 1)..Len(f) : Asked(r, f[i]) /\ f[i].sequence = q
  <2>1. q \in (s.retainAfter + 1)..s.through /\ q # f[at].sequence
    BY <1>3, <1>6, <1>8
  <2>2. PICK i \in (s.at + 1)..Len(f) : Asked(s, f[i]) /\ f[i].sequence = q
    BY <2>1 DEF Replayable
  <2>3. i \in (r.at + 1)..Len(f)
    BY <1>7, <2>1, <2>2
  <2> QED BY <1>10, <2>2, <2>3
<1>13. Replayable(r, f, log, known)
  BY <1>11, <1>12 DEF Replayable
<1> QED BY <1>5, <1>6, <1>8, <1>9, <1>13
-----------------------------------------------------------------------------
(* Steps that leave the records alone. *)

\* What a stream yields in a step comes after what it has yielded.
GoesOn(s, r) ==
  s.state \in {"replaying", "live"} /\ r.state # "idle" =>
    r.retainAfter = s.retainAfter + (IF r.at # s.at \/ Len(r.queue) < Len(s.queue) THEN 1 ELSE 0)

StreamsGoOn == \A t \in Streams : GoesOn(streams[t], streams'[t])

LEMMA StreamTyped ==
  ASSUME Sound, NEW t \in Streams
  PROVE  /\ streams[t] \in Stream
         /\ streams[t].state = "replaying" =>
              /\ streams[t].gen \in Written /\ streams[t].gen \in Generations
              /\ gens[streams[t].gen].file \in Seq(Record)
         /\ streams[t].state # "idle" => Serving
         /\ GoesOn(streams[t], streams[t])
<1>1. Types /\ Leased /\ Quiet
  BY DEF Sound
<1>2. streams[t] \in Stream
  BY <1>1 DEF Types
<1>3. streams[t].state # "idle" => Serving
  BY <1>1 DEF Quiet
<1>4. streams[t].state = "replaying" => streams[t].gen \in Written
  BY <1>1, <1>3 DEF Leased, Serving, Running
<1>5. \A g \in Written : g \in Generations /\ gens[g].file \in Seq(Record)
  BY <1>1 DEF Written, Types, Generation
<1>6. GoesOn(streams[t], streams[t])
  <2>1. streams[t].retainAfter \in Nat /\ Len(streams[t].queue) \in Nat
    BY <1>2 DEF Stream
  <2> QED BY <2>1 DEF GoesOn
<1> QED BY <1>2, <1>3, <1>4, <1>5, <1>6

\* A file goes on, and what is new in it is not asked for.
ReadsOn(s, f, g) ==
  /\ f \in Seq(Record) /\ g \in Seq(Record)
  /\ Len(f) <= Len(g) /\ \A i \in 1..Len(f) : g[i] = f[i]
  /\ \A i \in (Len(f) + 1)..Len(g) : ~Asked(s, g[i])

LEMMA ExpectsOn ==
  ASSUME NEW s \in Stream, NEW top, NEW f, NEW g, NEW log, NEW known, NEW next, NEW more,
         Expects(s, top, f, log, known),
         s.state = "replaying" => ReadsOn(s, f, g) /\ ServesOn(s, log, known, next, more)
  PROVE  Expects(s, top, g, next, more)
<1>1. ASSUME s.state = "replaying"
      PROVE  Replayable(s, g, next, more)
  <2>1. /\ f \in Seq(Record) /\ g \in Seq(Record) /\ Len(f) <= Len(g)
        /\ \A i \in 1..Len(f) : g[i] = f[i]
        /\ \A i \in (Len(f) + 1)..Len(g) : ~Asked(s, g[i])
        /\ ServesOn(s, log, known, next, more)
    BY <1>1 DEF ReadsOn
  <2>2. s.at \in Nat
    BY DEF Stream
  <2>3. Replayable(s, f, log, known)
    BY <1>1 DEF Expects
  <2> QED BY <2>1, <2>2, <2>3, ReplayGoesOn
<1> QED BY <1>1 DEF Expects

\* No record, commit or branch moves.
FilesStay ==
  /\ \A g \in Generations : gens'[g].file = gens[g].file
  /\ current' = current /\ commits' = commits /\ branches' = branches

LEMMA FollowStays ==
  ASSUME Sound, StreamsFollow, FilesStay
  PROVE  /\ File' = File
         /\ \A t \in Streams :
              Expects(streams[t], branches'[streams[t].branch].sequence,
                      gens'[streams[t].gen].file, File', commits')
<1>1. current \in Generations
  BY DEF Sound, Types
<1>2. File' = File
  BY <1>1 DEF FilesStay, File
<1>3. ASSUME NEW t \in Streams
      PROVE  Expects(streams[t], branches'[streams[t].branch].sequence,
                     gens'[streams[t].gen].file, File', commits')
  <2>1. PICK s, top, f, g : /\ s = streams[t] /\ top = branches[s.branch].sequence
                            /\ f = gens[s.gen].file /\ g = gens'[s.gen].file
    OBVIOUS
  <2>2. Expects(s, top, f, File, commits)
    BY <2>1 DEF StreamsFollow
  <2>3. /\ s \in Stream
        /\ s.state = "replaying" => s.gen \in Generations /\ f \in Seq(Record)
    BY <2>1, StreamTyped
  <2>4. s.state = "replaying" => g = f /\ f \in Seq(Record)
    BY <2>1, <2>3 DEF FilesStay
  <2>5. Expects(s, top, g, File, commits)
    <3>1. CASE s.state = "replaying"
      BY <2>2, <2>4, <3>1
    <3>2. CASE s.state # "replaying"
      BY <2>2, <3>2 DEF Expects
    <3> QED BY <3>1, <3>2
  <2>6. branches' = branches /\ commits' = commits
    BY DEF FilesStay
  <2> QED BY <1>2, <2>1, <2>5, <2>6
<1> QED BY <1>2, <1>3

LEMMA StrictStays ==
  ASSUME Sound, LogsStrict, \A g \in Generations : gens'[g].file = gens[g].file,
         path' \subseteq path
  PROVE  LogsStrict'
<1>1. path \subseteq Generations
  BY DEF Sound, Types
<1>2. \A g \in path' : g \in path /\ gens'[g].file = gens[g].file
  BY <1>1
<1> SUFFICES ASSUME NEW g \in path' PROVE RefsStrict(gens'[g].file, Length(gens'[g].file))
  BY DEF LogsStrict
<1>3. RefsStrict(gens[g].file, Length(gens[g].file))
  BY <1>2 DEF LogsStrict
<1> QED BY <1>2, <1>3

\* Streams stay as they are.
LEMMA StreamsStay ==
  ASSUME Sound, Streaming, FilesStay, path' \subseteq path, streams' = streams
  PROVE  /\ LogsStrict' /\ StreamsFollow' /\ StreamsGoOn
         /\ job' = job \/ job'.kind # "collect" => CopyServes'
<1>1. LogsStrict /\ CopyServes /\ StreamsFollow
  BY DEF Streaming
<1>2. LogsStrict'
  BY <1>1, StrictStays DEF FilesStay
<1>3. /\ File' = File
      /\ \A t \in Streams :
           Expects(streams[t], branches'[streams[t].branch].sequence,
                   gens'[streams[t].gen].file, File', commits')
  BY <1>1, FollowStays
<1>4. StreamsFollow'
  BY <1>3 DEF StreamsFollow
<1>5. StreamsGoOn
  BY StreamTyped DEF StreamsGoOn
<1>6. job' = job => CopyServes'
  <2>1. commits' = commits
    BY DEF FilesStay
  <2> QED BY <1>1, <1>3, <2>1 DEF CopyServes, Active, OfBranch, RecordAt
<1>7. job'.kind # "collect" => CopyServes'
  BY DEF CopyServes
<1> QED BY <1>2, <1>4, <1>5, <1>6, <1>7

\* What is known has its place in the file in use.
LEMMA KnownPlaced ==
  ASSUME Sound, Serving
  PROVE  /\ File \in Seq(Record) /\ Len(File) \in Nat
         /\ \A c \in DOMAIN commits :
              /\ commits[c] \in 1..Len(File) /\ RecordAt(c) = File[commits[c]]
              /\ RecordAt(c).type = "commit" /\ RecordAt(c).id = c
              /\ RecordAt(c).sequence \in Nat /\ RecordAt(c).branch \in Branches
              /\ Published(File, commits[c], Len(File))
<1>1. File \in Seq(Record) /\ Len(File) \in Nat
  <2>1. current \in Generations /\ gens \in [Generations -> Generation]
    BY DEF Sound, Types
  <2> QED BY <2>1 DEF File, Generation
<1>2. View(File, Len(File), commits, branches, floors)
  BY DEF Sound, MemorySound, Serving, Running
<1>3. CommitsSound(File, Len(File), commits)
  BY <1>2 DEF View
<1> SUFFICES ASSUME NEW c \in DOMAIN commits
             PROVE  /\ commits[c] \in 1..Len(File) /\ RecordAt(c) = File[commits[c]]
                    /\ RecordAt(c).type = "commit" /\ RecordAt(c).id = c
                    /\ RecordAt(c).sequence \in Nat /\ RecordAt(c).branch \in Branches
                    /\ Published(File, commits[c], Len(File))
  BY <1>1
<1>4. /\ commits[c] \in 1..Len(File) /\ File[commits[c]].type = "commit" /\ File[commits[c]].id = c
      /\ Published(File, commits[c], Len(File))
  BY <1>3 DEF CommitsSound
<1>5. File[commits[c]] \in Record
  BY <1>1, <1>4
<1>6. File[commits[c]].sequence \in Nat /\ File[commits[c]].branch \in Branches
  BY <1>4, <1>5, RecordKinds
<1> QED BY <1>4, <1>6 DEF RecordAt

\* One stream moves.
LEMMA OneStream ==
  ASSUME Sound, Streaming, FilesStay, path' = path, job' = job,
         NEW t \in Streams, NEW r, streams' = [streams EXCEPT ![t] = r],
         Expects(r, branches[r.branch].sequence, gens[r.gen].file, File, commits),
         r.state = "replaying" => r.gen \in Generations,
         GoesOn(streams[t], r),
         job.kind = "collect" /\ r.state \in {"replaying", "live"} =>
           Active(t) /\ r.branch = streams[t].branch /\ r.retainAfter \in Nat
             /\ streams[t].retainAfter <= r.retainAfter
  PROVE  Streaming' /\ StreamsGoOn
<1>1. LogsStrict /\ CopyServes /\ StreamsFollow
  BY DEF Streaming
<1>2. LogsStrict'
  BY <1>1, StrictStays DEF FilesStay
<1>3. /\ File' = File
      /\ \A u \in Streams :
           Expects(streams[u], branches'[streams[u].branch].sequence,
                   gens'[streams[u].gen].file, File', commits')
  BY <1>1, FollowStays
<1>4. \A u \in Streams : streams'[u] = IF u = t THEN r ELSE streams[u]
  BY DEF Sound, Types
<1>5. commits' = commits /\ branches' = branches
  BY DEF FilesStay
<1>6. Expects(r, branches'[r.branch].sequence, gens'[r.gen].file, File', commits')
  <2>1. CASE r.state = "replaying"
    <3>1. gens'[r.gen].file = gens[r.gen].file
      BY <2>1 DEF FilesStay
    <3> QED BY <1>3, <1>5, <3>1
  <2>2. CASE r.state # "replaying"
    <3>1. Expects(r, branches'[r.branch].sequence, gens[r.gen].file, File, commits)
      BY <1>5
    <3> QED BY <2>2, <3>1 DEF Expects
  <2> QED BY <2>1, <2>2
<1>7. StreamsFollow'
  <2> SUFFICES ASSUME NEW u \in Streams
               PROVE  Expects(streams'[u], branches'[streams'[u].branch].sequence,
                              gens'[streams'[u].gen].file, File', commits')
    BY DEF StreamsFollow
  <2>1. CASE u = t
    BY <1>4, <1>6, <2>1
  <2>2. CASE u # t
    BY <1>3, <1>4, <2>2
  <2> QED BY <2>1, <2>2
<1>8. StreamsGoOn
  BY <1>4, StreamTyped DEF StreamsGoOn
<1>9. CopyServes'
  <2> SUFFICES ASSUME job.kind = "collect"
               PROVE  \A u \in Streams : streams'[u].state \in {"replaying", "live"} =>
                        \A c \in OfBranch(streams'[u].branch) :
                          RecordAt(c).sequence > streams'[u].retainAfter => c \in job.retained
    BY <1>1, <1>3, <1>5 DEF CopyServes, Active, OfBranch, RecordAt
  <2>1. TAKE u \in Streams
  <2>2. Active(u) => \A c \in OfBranch(streams[u].branch) :
                       RecordAt(c).sequence > streams[u].retainAfter => c \in job.retained
    BY <1>1 DEF CopyServes
  <2>3. CASE u # t
    BY <1>4, <2>2, <2>3 DEF Active
  <2>4. CASE u = t
    <3> SUFFICES ASSUME r.state \in {"replaying", "live"}, NEW c \in OfBranch(r.branch),
                        RecordAt(c).sequence > r.retainAfter
                 PROVE  c \in job.retained
      BY <1>4, <2>4
    <3>1. /\ Active(t) /\ r.branch = streams[t].branch /\ r.retainAfter \in Nat
          /\ streams[t].retainAfter <= r.retainAfter
      OBVIOUS
    <3>2. streams[t] \in Stream /\ Serving
      BY <3>1, StreamTyped DEF Active
    <3>3. c \in DOMAIN commits /\ RecordAt(c).sequence \in Nat
      BY <3>2, KnownPlaced DEF OfBranch
    <3>4. RecordAt(c).sequence > streams[t].retainAfter
      BY <3>1, <3>2, <3>3 DEF Stream
    <3> QED BY <2>2, <2>4, <3>1, <3>4
  <2> QED BY <2>3, <2>4
<1> QED BY <1>2, <1>7, <1>8, <1>9 DEF Streaming
-----------------------------------------------------------------------------
(* What a subscriber finds. *)

\* The log in use, with what memory says of it.
LEMMA LogServes ==
  ASSUME Sound, Durable, LogsStrict, Serving
  PROVE  /\ File \in Seq(Record) /\ Len(File) \in Nat
         /\ RefsStrict(File, Len(File)) /\ RefsLead(File, Len(File))
         /\ CommitsSound(File, Len(File), commits) /\ HeadsSound(File, commits, branches, floors)
         /\ RefsHeld(File, Settled, commits, branches) /\ Settled \in 0..Len(File)
<1>0. Running /\ state # "opening"
  BY DEF Serving, Running
<1>1. /\ current \in path /\ File \in Seq(Record) /\ Length(File) = Len(File) /\ Len(File) \in Nat
      /\ LogSound(File, Len(File))
  BY <1>0, LogInUse
<1>2. RefsStrict(File, Len(File))
  <2>1. RefsStrict(gens[current].file, Length(gens[current].file))
    BY <1>1 DEF LogsStrict
  <2>2. gens[current].file = File
    BY DEF File
  <2> QED BY <1>1, <2>1, <2>2
<1>3. View(File, Len(File), commits, branches, floors)
  BY <1>0 DEF Sound, MemorySound
<1>4. Exact(File, Settled, commits, branches)
  BY <1>0 DEF Durable, MemoryExact
<1>5. Settled \in 0..Len(File)
  <2>1. job.kind \in {"commit", "create"} => job.from \in 0..Len(File)
    BY DEF Durable, JobExact, AppendExact
  <2> QED BY <1>1, <2>1 DEF Settled
<1> QED BY <1>1, <1>2, <1>3, <1>4, <1>5 DEF LogSound, View, Exact

\* A ref that memory does not know yet is beyond what a subscriber asks for.
LEMMA AskedSettled ==
  ASSUME Sound, Durable, Serving, NEW s, s.branch \in Branches,
         s.through <= branches[s.branch].sequence, s.through \in Nat,
         NEW i \in 1..Len(File), Asked(s, File[i])
  PROVE  i \in 1..Settled
<1>1. File \in Seq(Record) /\ Len(File) \in Nat
  BY KnownPlaced
<1>2. CASE job.kind \notin {"commit", "create"}
  BY <1>2 DEF Settled
<1>3. CASE job.kind \in {"commit", "create"}
  <2>1. /\ job.from \in 0..Len(File)
        /\ \A k \in (job.from + 1)..Len(File) : File[k].type = "ref" =>
             /\ File[k].operation = job.kind /\ File[k].branch = job.branch
             /\ File[k].sequence = IF job.kind = "commit" THEN job.sequence ELSE 0
    BY <1>3 DEF Durable, JobExact, AppendExact
  <2>2. job.kind = "commit" => job.sequence = branches[job.branch].sequence + 1
    BY DEF Sound, JobSound, CommitSound
  <2>3. branches[s.branch].sequence \in Nat
    BY DEF Sound, Types, Heads, Branch
  <2>4. Settled = job.from
    BY <1>3 DEF Settled
  <2>5. i \notin (job.from + 1)..Len(File)
    <3> SUFFICES ASSUME i \in (job.from + 1)..Len(File) PROVE FALSE
      OBVIOUS
    <3>1. /\ File[i].type = "ref" /\ File[i].operation = "commit" /\ File[i].branch = s.branch
          /\ File[i].sequence <= s.through
      BY DEF Asked
    <3>2. job.kind = "commit" /\ s.branch = job.branch /\ File[i].sequence = job.sequence
      BY <2>1, <3>1
    <3> QED BY <2>2, <2>3, <3>1, <3>2
  <2> QED BY <1>1, <2>1, <2>4, <2>5
<1> QED BY <1>2, <1>3

\* All that a subscriber missed is in the file it leases.
LEMMA SubscriberReads ==
  ASSUME Sound, Durable, LogsStrict, Serving,
         NEW s, s.at = 0, s.branch \in Branches, Exists(s.branch), s.from = s.retainAfter,
         s.retainAfter \in Nat, floors[s.branch] <= s.retainAfter,
         s.through = branches[s.branch].sequence
  PROVE  Replayable(s, File, File, commits)
<1>1. PICK f, n : f = File /\ n = Len(File)
  OBVIOUS
<1>2. /\ f \in Seq(Record) /\ n \in Nat /\ n = Len(f)
      /\ RefsStrict(f, n) /\ RefsLead(f, n)
      /\ CommitsSound(f, n, commits) /\ HeadsSound(f, commits, branches, floors)
      /\ RefsHeld(f, Settled, commits, branches) /\ Settled \in 0..n
  BY <1>1, LogServes
<1>3. /\ branches[s.branch].sequence \in Nat /\ branches[s.branch].head # NONE
      /\ floors[s.branch] \in Nat
  BY DEF Sound, Types, Heads, Branch, Exists
<1>4. \A i \in 1..n : f[i] \in Record
  BY <1>2
<1>5. \A i \in 1..n : f[i].type = "ref" => f[i].sequence \in Nat /\ f[i].operation \in {"create", "commit"}
  BY <1>4, RecordKinds
<1>6. ASSUME NEW i \in 1..n, Asked(s, f[i])
      PROVE  /\ f[i].sequence > s.retainAfter
             /\ PlacedAt(f, commits, f[i].head, s.branch, f[i].sequence)
             /\ \A k \in 1..(i - 1) : Asked(s, f[k]) => f[k].sequence < f[i].sequence
  <2>1. /\ f[i].type = "ref" /\ f[i].operation = "commit" /\ f[i].branch = s.branch
        /\ f[i].sequence > s.retainAfter
    BY <1>6 DEF Asked
  <2>2. i \in 1..Settled
    BY <1>1, <1>3, <1>6, AskedSettled
  <2>3. f[i].head \in DOMAIN commits
    BY <1>2, <2>1, <2>2 DEF RefsHeld
  <2>4. PICK j \in 1..n : j = commits[f[i].head] /\ f[j].type = "commit" /\ f[j].id = f[i].head
    BY <1>2, <2>3 DEF CommitsSound
  <2>5. f[i].sequence > 0
    BY <1>5, <2>1
  <2>6. f[j].branch = f[i].branch /\ f[j].sequence = f[i].sequence
    BY <1>2, <2>1, <2>4, <2>5 DEF RefsLead
  <2>7. PlacedAt(f, commits, f[i].head, s.branch, f[i].sequence)
    BY <2>1, <2>3, <2>4, <2>6 DEF PlacedAt
  <2>8. \A k \in 1..(i - 1) : Asked(s, f[k]) => f[k].sequence < f[i].sequence
    BY <1>2, <2>1 DEF RefsStrict, Asked
  <2> QED BY <2>1, <2>7, <2>8
<1>7. ASSUME NEW q \in (s.retainAfter + 1)..s.through
      PROVE  \E i \in 1..n : Asked(s, f[i]) /\ f[i].sequence = q
  <2>1. q \in (floors[s.branch] + 1)..branches[s.branch].sequence /\ q \in Nat /\ q > 0
    BY <1>3
  <2>2. PICK c \in DOMAIN commits : /\ f[commits[c]].branch = s.branch
                                    /\ f[commits[c]].sequence = q
    BY <1>2, <1>3, <2>1 DEF HeadsSound
  <2>3. commits[c] \in 1..n /\ Published(f, commits[c], n)
    BY <1>2 DEF CommitsSound
  <2>4. PICK k \in (commits[c] + 1)..n : /\ f[k].type = "ref" /\ f[k].branch = s.branch
                                         /\ f[k].sequence = q
    BY <2>1, <2>2, <2>3 DEF Published
  <2>5. k \in 1..n
    BY <1>2, <2>3
  <2>6. f[k].operation = "commit"
    BY <1>2, <1>5, <2>1, <2>4, <2>5 DEF RefsStrict
  <2>7. Asked(s, f[k])
    BY <2>1, <2>4, <2>6, <1>3 DEF Asked
  <2> QED BY <2>4, <2>5, <2>7
<1>8. /\ \A i \in (s.at + 1)..Len(f) : Asked(s, f[i]) =>
           /\ f[i].sequence > s.retainAfter
           /\ PlacedAt(f, commits, f[i].head, s.branch, f[i].sequence)
           /\ \A k \in (s.at + 1)..(i - 1) : Asked(s, f[k]) => f[k].sequence < f[i].sequence
      /\ \A q \in (s.retainAfter + 1)..s.through :
           \E i \in (s.at + 1)..Len(f) : Asked(s, f[i]) /\ f[i].sequence = q
  BY <1>2, <1>6, <1>7
<1> QED BY <1>1, <1>8 DEF Replayable
\* A stream that is not there asks for nothing.
LEMMA IdleExpects ==
  ASSUME NEW s, s.state = "idle", NEW top, NEW f, NEW log, NEW known
  PROVE  Expects(s, top, f, log, known)
  BY DEF Expects

\* Streams lease files, and change nothing in them.
LEMMA LeasesStay ==
  ASSUME Types, UNCHANGED memoryVars,
         gens' = gens \/ \E h : Holds(h, 1) \/ ReleaseGeneration(h)
  PROVE  FilesStay
<1>1. \A g \in Generations : gens'[g].file = gens[g].file
  BY LeasesMove
<1> QED BY <1>1 DEF FilesStay, memoryVars

LEMMA CallChangesStreams ==
  ASSUME Sound, Streaming, NEW t \in Streams, NEW b \in Branches, NEW n \in Sequences,
         CallChanges(t, b, n)
  PROVE  Streaming' /\ StreamsGoOn
<1> DEFINE r == [NoStream EXCEPT !.state = "waiting", !.branch = b, !.from = n,
                                 !.retainAfter = n, !.awaits = barrier]
<1>0. /\ r.state = "waiting" /\ r.branch = b /\ r.at = 0 /\ r.queue = <<>>
      /\ r.from = n /\ r.retainAfter = n
  <2>1. PICK z : z = NoStream
    OBVIOUS
  <2>2. z \in Stream /\ z.at = 0 /\ z.queue = <<>>
    <3>1. NoStream.at = 0 /\ NoStream.queue = <<>>
      BY DEF NoStream
    <3> QED BY <2>1, <3>1, ReaderTyped
  <2> DEFINE w == [z EXCEPT !.state = "waiting", !.branch = b, !.from = n,
                            !.retainAfter = n, !.awaits = barrier]
  <2>3. /\ w.state = "waiting" /\ w.branch = b /\ w.at = 0 /\ w.queue = <<>>
        /\ w.from = n /\ w.retainAfter = n
    BY <2>2 DEF Stream
  <2>4. r = w
    BY <2>1
  <2> HIDE DEF r, w
  <2> QED BY <2>3, <2>4
<1>1. /\ streams' = [streams EXCEPT ![t] = r] /\ streams[t].state = "idle"
      /\ n <= branches[b].sequence /\ path' = path /\ job' = job
      /\ gens' = gens /\ UNCHANGED memoryVars
  BY DEF CallChanges, diskVars
<1>2. Types
  BY DEF Sound
<1>3. FilesStay
  BY <1>1, <1>2, LeasesStay
<1> HIDE DEF r
<1>4. Expects(r, branches[r.branch].sequence, gens[r.gen].file, File, commits)
  BY <1>0, <1>1 DEF Expects, Waits
<1>5. GoesOn(streams[t], r) /\ r.state \notin {"replaying", "live"}
  BY <1>0, <1>1 DEF GoesOn
<1> QED BY <1>1, <1>3, <1>4, <1>5, OneStream

LEMMA SubscribeStreams ==
  ASSUME Sound, Durable, Streaming, NEW t \in Streams, Subscribe(t)
  PROVE  Streaming' /\ StreamsGoOn
<1> DEFINE s == streams[t]
           top == branches[s.branch].sequence
<1>1. /\ Types /\ Serving /\ s \in Stream /\ s.state = "waiting"
      /\ path' = path /\ job' = job /\ UNCHANGED memoryVars
  BY CallersServed DEF Subscribe, Serving
<1>2. gens' = gens \/ Holds(current, 1)
  BY DEF Subscribe
<1>3. FilesStay
  BY <1>1, <1>2, LeasesStay
<1>4. CASE ~Exists(s.branch) \/ s.retainAfter < floors[s.branch]
  <2>1. streams' = [streams EXCEPT ![t] = NoStream] /\ NoStream.state = "idle"
    BY <1>4 DEF Subscribe, NoStream
  <2>2. Expects(NoStream, branches[NoStream.branch].sequence, gens[NoStream.gen].file,
                File, commits)
    BY <2>1, IdleExpects
  <2>3. GoesOn(s, NoStream)
    BY <2>1 DEF GoesOn
  <2> QED BY <1>1, <1>3, <2>1, <2>2, <2>3, OneStream
<1>5. CASE Exists(s.branch) /\ ~(s.retainAfter < floors[s.branch])
  <2>1. PICK state1, g : /\ state1 = (IF s.retainAfter < top THEN "replaying" ELSE "live")
                         /\ g = current
    OBVIOUS
  <2> DEFINE r == [s EXCEPT !.state = state1, !.after = top, !.through = top, !.gen = g]
  <2>2. streams' = [streams EXCEPT ![t] = r]
    BY <1>5, <2>1 DEF Subscribe
  <2>3. /\ top \in Nat /\ floors[s.branch] \in Nat /\ s.branch \in Branches
        /\ s.retainAfter \in Nat
    BY <1>1 DEF Types, Heads, Branch, Stream
  <2>4. /\ s.at = 0 /\ s.queue = <<>> /\ s.from = s.retainAfter /\ s.retainAfter <= top
    BY <1>1 DEF Streaming, StreamsFollow, Expects, Waits
  <2>5. /\ r.state = state1 /\ r.branch = s.branch /\ r.gen = current /\ r.at = 0
        /\ r.from = s.retainAfter /\ r.retainAfter = s.retainAfter /\ r.through = top
        /\ r.after = top /\ r.queue = <<>>
    <3> HIDE DEF s, top
    <3> QED BY <1>1, <2>1, <2>4 DEF Stream
  <2> HIDE DEF r
  <2>6. Replayable(r, File, File, commits)
    <3>1. LogsStrict
      BY DEF Streaming
    <3>2. floors[r.branch] <= r.retainAfter /\ Exists(r.branch) /\ r.from = r.retainAfter
      BY <1>5, <2>3, <2>5
    <3> QED BY <1>1, <2>3, <2>5, <3>1, <3>2, SubscriberReads
  <2>7. Queued(r, top)
    BY <2>1, <2>3, <2>4, <2>5 DEF Queued
  <2>8. Expects(r, branches[r.branch].sequence, gens[r.gen].file, File, commits)
    <3>1. r.state = "replaying" \/ r.state = "live"
      BY <2>1, <2>5
    <3>2. gens[r.gen].file = File
      BY <2>5 DEF File
    <3> QED BY <2>5, <2>6, <2>7, <3>1, <3>2 DEF Expects
  <2>9. GoesOn(s, r)
    BY <1>1 DEF GoesOn
  <2>10. job.kind # "collect"
    <3>1. s.awaits \in Nat /\ collected >= s.awaits /\ collected \in Nat
      BY <1>1 DEF Subscribe, BarrierPassed, Types, Stream
    <3> QED BY <1>1, <3>1 DEF Sound, JobSound
  <2>11. r.gen \in Generations
    BY <1>1, <2>5 DEF Types
  <2> QED BY <1>1, <1>3, <2>2, <2>8, <2>9, <2>10, <2>11, OneStream
<1> QED BY <1>4, <1>5

LEMMA ReplayStreams ==
  ASSUME Sound, Streaming, NEW t \in Streams, Replay(t)
  PROVE  Streaming' /\ StreamsGoOn
<1> DEFINE s == streams[t]
           f == gens[s.gen].file
           at == Min(Remaining(s))
           top == branches[s.branch].sequence
<1>1. /\ Types /\ s \in Stream /\ s.state = "replaying" /\ Remaining(s) # {}
      /\ s.gen \in Generations /\ f \in Seq(Record)
      /\ path' = path /\ job' = job /\ UNCHANGED memoryVars
  BY StreamTyped DEF Replay, Sound
<1>2. gens' = gens \/ ReleaseGeneration(s.gen)
  BY DEF Replay
<1>3. FilesStay
  BY <1>1, <1>2, LeasesStay
<1>4. top \in Nat /\ Queued(s, top) /\ Replayable(s, f, File, commits)
  <2>1. top \in Nat
    BY <1>1 DEF Types, Heads, Branch, Stream
  <2> QED BY <1>1, <2>1 DEF Streaming, StreamsFollow, Expects
<1>5. PICK i, q : i = at /\ q = f[at].sequence
  OBVIOUS
<1> DEFINE r == [s EXCEPT !.at = i, !.retainAfter = q]
<1>6. /\ r.state = s.state /\ r.branch = s.branch /\ r.from = s.from /\ r.through = s.through
      /\ r.after = s.after /\ r.queue = s.queue /\ r.gen = s.gen
      /\ r.at = at /\ r.retainAfter = f[at].sequence
  <2> HIDE DEF s, f, at
  <2> QED BY <1>1, <1>5 DEF Stream
<1>7. f[at].head \in DOMAIN commits => streams' = [streams EXCEPT ![t] = r]
  BY <1>5 DEF Replay
<1> HIDE DEF r
<1>8. /\ at > s.at /\ at \in 1..Len(f) /\ f[at].head \in DOMAIN commits
      /\ r.retainAfter = s.retainAfter + 1
      /\ Queued(r, top) /\ Replayable(r, f, File, commits)
  <2>1. PICK z, g, k : z = s /\ g = f /\ k = at
    OBVIOUS
  <2>2. /\ z \in Stream /\ g \in Seq(Record) /\ g = gens[z.gen].file /\ k = Min(Remaining(z))
        /\ z.state = "replaying" /\ Queued(z, top) /\ Replayable(z, g, File, commits)
        /\ Remaining(z) # {} /\ top \in Nat
        /\ r.state = z.state /\ r.branch = z.branch /\ r.from = z.from /\ r.through = z.through
        /\ r.after = z.after /\ r.queue = z.queue /\ r.at = k /\ r.retainAfter = g[k].sequence
    BY <1>1, <1>4, <1>6, <2>1
  <2> HIDE DEF s, f, at, top
  <2>3. Reads(z, g, File, commits, top, k, r)
    BY <2>2 DEF Reads
  <2>4. /\ k > z.at /\ k \in 1..Len(g) /\ g[k].head \in DOMAIN commits
        /\ r.retainAfter = z.retainAfter + 1
        /\ Queued(r, top) /\ Replayable(r, g, File, commits)
    BY <2>3, ReplayYields
  <2> QED BY <2>1, <2>4
<1>9. Expects(r, branches[r.branch].sequence, gens[r.gen].file, File, commits)
  BY <1>1, <1>6, <1>8 DEF Expects
<1>10. GoesOn(s, r)
  <2>1. s.at \in Nat /\ r.at # s.at
    BY <1>1, <1>6, <1>8 DEF Stream
  <2> QED BY <1>8, <2>1 DEF GoesOn
<1>11. /\ Active(t) /\ r.branch = streams[t].branch /\ r.retainAfter \in Nat
       /\ streams[t].retainAfter <= r.retainAfter /\ r.gen \in Generations
  BY <1>1, <1>6, <1>8 DEF Active, Stream
<1> QED BY <1>1, <1>3, <1>7, <1>8, <1>9, <1>10, <1>11, OneStream

LEMMA ReplayedStreams ==
  ASSUME Sound, Streaming, NEW t \in Streams, Replayed(t)
  PROVE  Streaming' /\ StreamsGoOn
<1> DEFINE s == streams[t]
           f == gens[s.gen].file
           top == branches[s.branch].sequence
           r == [s EXCEPT !.state = "live"]
<1>1. /\ Types /\ s \in Stream /\ s.state = "replaying" /\ Remaining(s) = {}
      /\ f \in Seq(Record) /\ streams' = [streams EXCEPT ![t] = r]
      /\ path' = path /\ job' = job /\ UNCHANGED memoryVars
  BY StreamTyped DEF Replayed, Sound
<1>2. ReleaseGeneration(s.gen)
  BY DEF Replayed
<1>3. FilesStay
  BY <1>1, <1>2, LeasesStay
<1>4. top \in Nat /\ Queued(s, top) /\ Replayable(s, f, File, commits)
  <2>1. top \in Nat
    BY <1>1 DEF Types, Heads, Branch, Stream
  <2> QED BY <1>1, <2>1 DEF Streaming, StreamsFollow, Expects
<1>5. /\ r.state = "live" /\ r.branch = s.branch /\ r.from = s.from /\ r.at = s.at
      /\ r.after = s.after /\ r.queue = s.queue /\ r.retainAfter = s.retainAfter
  <2> HIDE DEF s
  <2> QED BY <1>1 DEF Stream
<1>6. /\ s.retainAfter \in Nat /\ s.through \in Nat /\ s.at \in Nat /\ s.queue \in Seq(Nat)
      /\ Len(s.queue) \in Nat
  BY <1>1 DEF Stream
<1>7. s.retainAfter = s.through
  <2>1. s.retainAfter <= s.through
    BY <1>1, <1>4 DEF Queued
  <2>2. ASSUME s.retainAfter < s.through PROVE FALSE
    <3>1. s.retainAfter + 1 \in (s.retainAfter + 1)..s.through
      BY <1>6, <2>2
    <3>2. PICK i \in (s.at + 1)..Len(f) : Asked(s, f[i])
      BY <1>4, <3>1 DEF Replayable
    <3>3. i \in Remaining(s)
      BY <3>2 DEF Remaining, Asked
    <3> QED BY <1>1, <3>3
  <2> QED BY <1>6, <2>1, <2>2
<1> HIDE DEF r
<1>8. Queued(r, top)
  BY <1>1, <1>4, <1>5, <1>7 DEF Queued
<1>9. Expects(r, branches[r.branch].sequence, gens[r.gen].file, File, commits)
  BY <1>5, <1>8 DEF Expects
<1>10. GoesOn(s, r)
  BY <1>5, <1>6 DEF GoesOn
<1>11. /\ Active(t) /\ r.branch = streams[t].branch /\ r.retainAfter \in Nat
       /\ streams[t].retainAfter <= r.retainAfter /\ r.state # "replaying"
  BY <1>1, <1>5, <1>6 DEF Active
<1> QED BY <1>1, <1>3, <1>9, <1>10, <1>11, OneStream

LEMMA DeliverStreams ==
  ASSUME Sound, Streaming, NEW t \in Streams, Deliver(t)
  PROVE  Streaming' /\ StreamsGoOn
<1> DEFINE s == streams[t]
           top == branches[s.branch].sequence
<1>1. PICK rest, q : rest = Tail(s.queue) /\ q = Head(s.queue)
  OBVIOUS
<1> DEFINE r == [s EXCEPT !.queue = rest, !.retainAfter = q]
<1>2. /\ Types /\ s \in Stream /\ s.state = "live" /\ s.queue # <<>>
      /\ streams' = [streams EXCEPT ![t] = r]
      /\ path' = path /\ job' = job /\ gens' = gens /\ UNCHANGED memoryVars
  BY <1>1, StreamTyped DEF Deliver, Sound, diskVars
<1>3. FilesStay
  BY <1>2, LeasesStay
<1>4. top \in Nat /\ Queued(s, top)
  <2>1. top \in Nat
    BY <1>2 DEF Types, Heads, Branch, Stream
  <2> QED BY <1>2, <2>1 DEF Streaming, StreamsFollow, Expects
<1>5. /\ r.state = "live" /\ r.branch = s.branch /\ r.from = s.from /\ r.at = s.at
      /\ r.after = s.after /\ r.queue = rest /\ r.retainAfter = q
  <2> HIDE DEF s
  <2> QED BY <1>2 DEF Stream
<1> HIDE DEF r
<1>6. /\ s.retainAfter \in Nat /\ s.from \in Nat /\ s.queue \in Seq(Nat) /\ Len(s.queue) \in Nat
      /\ Len(s.queue) > 0 /\ Len(rest) = Len(s.queue) - 1
      /\ \A i \in 1..Len(rest) : rest[i] = s.queue[i + 1]
      /\ q = s.queue[1]
  <2>1. s.queue \in Seq(Nat) /\ s.retainAfter \in Nat /\ s.from \in Nat
    BY <1>2 DEF Stream
  <2> HIDE DEF s
  <2> QED BY <1>1, <1>2, <2>1
<1>7. /\ s.from <= s.retainAfter /\ s.after = top /\ s.retainAfter + Len(s.queue) = top
      /\ \A i \in 1..Len(s.queue) : s.queue[i] = s.retainAfter + i
  BY <1>2, <1>4 DEF Queued
<1>8. q = s.retainAfter + 1
  <2>1. 1 \in 1..Len(s.queue)
    BY <1>6
  <2> QED BY <1>6, <1>7, <2>1
<1>9. \A i \in 1..Len(rest) : rest[i] = q + i
  <2> SUFFICES ASSUME NEW i \in 1..Len(rest) PROVE rest[i] = q + i
    OBVIOUS
  <2>1. i + 1 \in 1..Len(s.queue)
    BY <1>6
  <2>2. s.queue[i + 1] = s.retainAfter + (i + 1)
    BY <1>7, <2>1
  <2>3. rest[i] = s.queue[i + 1] /\ s.retainAfter \in Nat /\ i \in Nat
    BY <1>6
  <2> HIDE DEF s
  <2> QED BY <1>8, <2>2, <2>3
<1>10. Queued(r, top)
  BY <1>4, <1>5, <1>6, <1>7, <1>8, <1>9 DEF Queued
<1>11. Expects(r, branches[r.branch].sequence, gens[r.gen].file, File, commits)
  BY <1>5, <1>10 DEF Expects
<1>12. GoesOn(s, r)
  BY <1>5, <1>6, <1>8 DEF GoesOn
<1>13. /\ Active(t) /\ r.branch = streams[t].branch /\ r.retainAfter \in Nat
       /\ streams[t].retainAfter <= r.retainAfter /\ r.state # "replaying"
  BY <1>2, <1>5, <1>6, <1>8 DEF Active
<1> QED BY <1>2, <1>3, <1>11, <1>12, <1>13, OneStream

LEMMA EndStreamStreams ==
  ASSUME Sound, Streaming, NEW t \in Streams, EndStream(t)
  PROVE  Streaming' /\ StreamsGoOn
<1>1. /\ Types /\ streams' = [streams EXCEPT ![t] = NoStream] /\ NoStream.state = "idle"
      /\ path' = path /\ job' = job /\ UNCHANGED memoryVars
  BY DEF EndStream, NoStream, Sound
<1>2. gens' = gens \/ ReleaseGeneration(streams[t].gen)
  BY DEF EndStream
<1>3. FilesStay
  BY <1>1, <1>2, LeasesStay
<1>4. Expects(NoStream, branches[NoStream.branch].sequence, gens[NoStream.gen].file, File, commits)
  BY <1>1, IdleExpects
<1>5. GoesOn(streams[t], NoStream)
  BY <1>1 DEF GoesOn
<1> QED BY <1>1, <1>3, <1>4, <1>5, OneStream
-----------------------------------------------------------------------------
(* Appends. *)

\* At most one ref is new, and it is at the next place of its branch, or creates it.
Adds(g) ==
  \A i \in (Len(File) + 1)..Len(g) : g[i].type = "ref" =>
    /\ i = Len(g)
    /\ \/ g[i].operation = "create" /\ g[i].sequence = 0
       \/ g[i].operation = "commit" /\ g[i].sequence = branches[g[i].branch].sequence + 1

\* What is known stays where it is in a file that goes on.
LEMMA ServesGrown ==
  ASSUME NEW s, NEW f, NEW g, NEW n \in Nat, \A i \in 1..n : g[i] = f[i],
         NEW known, \A c \in DOMAIN known : known[c] \in 1..n
  PROVE  ServesOn(s, f, known, g, known)
  BY DEF ServesOn, PlacedAt

\* No stream asks for what is beyond its branch.
LEMMA NotAsked ==
  ASSUME Sound, StreamsFollow, NEW t \in Streams, streams[t].state = "replaying",
         NEW record \in Record, record.type = "ref",
         \/ record.operation = "create"
         \/ record.sequence = branches[record.branch].sequence + 1
  PROVE  ~Asked(streams[t], record)
<1>1. PICK s, top : s = streams[t] /\ top = branches[s.branch].sequence
  OBVIOUS
<1>2. s \in Stream /\ top \in Nat
  BY <1>1, StreamTyped DEF Sound, Types, Heads, Branch, Stream
<1>3. Queued(s, top)
  BY <1>1 DEF StreamsFollow, Expects
<1>4. s.through <= top
  <2>1. s.through \in Nat /\ Len(s.queue) \in Nat /\ s.through + Len(s.queue) = top
    BY <1>1, <1>2, <1>3 DEF Queued, Stream
  <2> QED BY <1>2, <2>1
<1>5. s.through \in Nat
  BY <1>2 DEF Stream
<1> QED BY <1>1, <1>2, <1>4, <1>5 DEF Asked

LEMMA AppendStreams ==
  ASSUME Sound, Durable, Streaming, Sound', state = "open", job = NoJob,
         NEW new \in Seq(Record), Append_(new), NEW g, g = File \o new, Adds(g),
         UNCHANGED <<path, state, current, commits, branches, streams>>, job'.kind # "collect"
  PROVE  Streaming' /\ StreamsGoOn
<1> DEFINE n == Len(File)
           m == Len(g)
<1>1. /\ Running /\ Serving /\ Types /\ current \in Generations /\ path = {current}
      /\ File \in Seq(Record) /\ n \in Nat
      /\ Exact(File, n, commits, branches)
  BY AtRest DEF Serving
<1>2. /\ g \in Seq(Record) /\ m \in Nat /\ n <= m /\ \A i \in 1..n : g[i] = File[i]
  <2>1. /\ g \in Seq(Record) /\ Len(g) = Len(File) + Len(new)
        /\ \A i \in 1..Len(File) : g[i] = File[i]
    BY <1>1, TwoParts
  <2>2. Len(new) \in Nat
    OBVIOUS
  <2> QED BY <1>1, <2>1, <2>2
<1>3. \A x \in Generations : gens'[x].file = IF x = current THEN g ELSE gens[x].file
  BY <1>1 DEF Append_, File, Types, Generation
<1>4. File' = g
  BY <1>1, <1>3 DEF File
<1>5. LogsStrict /\ CopyServes /\ StreamsFollow
  BY DEF Streaming
<1>6. RefsStrict(File, n)
  BY <1>1, <1>5, LogServes
<1>7. RefsRiseOn(g, n, m)
  <2> SUFFICES ASSUME NEW i \in (n + 1)..m, g[i].type = "ref", g[i].operation = "commit",
                      NEW k \in 1..(i - 1), g[k].type = "ref", g[k].branch = g[i].branch
               PROVE  g[k].sequence < g[i].sequence
    BY DEF RefsRiseOn, Adds
  <2>1. i = m /\ g[i].sequence = branches[g[i].branch].sequence + 1
    BY DEF Adds
  <2>2. k \in 1..m
    BY <1>1, <1>2
  <2>3. k \notin (n + 1)..m
    <3> SUFFICES ASSUME k \in (n + 1)..m PROVE FALSE
      OBVIOUS
    <3>1. k = m
      BY DEF Adds
    <3> QED BY <1>1, <1>2, <2>1, <3>1
  <2>4. k \in 1..n
    BY <1>1, <1>2, <2>2, <2>3
  <2>5. g[k] = File[k] /\ File[k].sequence <= branches[File[k].branch].sequence
    BY <1>1, <1>2, <2>4 DEF Exact, RefsHeld
  <2>6. g[k].branch \in Branches /\ g[k].sequence \in Nat
    <3>1. g[k] \in Record
      BY <1>2, <2>2
    <3> QED BY <3>1, RecordKinds
  <2>7. branches[g[i].branch].sequence \in Nat
    BY <1>1, <2>6 DEF Types, Heads, Branch
  <2>8. g[k].sequence <= branches[g[i].branch].sequence
    BY <2>5
  <2>9. PICK q : q = branches[g[i].branch].sequence
    OBVIOUS
  <2>10. q \in Nat /\ g[k].sequence \in Nat /\ g[k].sequence <= q /\ g[i].sequence = q + 1
    BY <2>1, <2>6, <2>7, <2>8, <2>9
  <2> QED BY <2>10
<1>8. RefsStrict(g, m)
  <2> HIDE DEF n, m
  <2> QED BY <1>1, <1>2, <1>6, <1>7, StrictGrows
<1>9. LogsStrict'
  <2>1. path' = {current'} /\ current' = current /\ gens'[current].file = g
    BY <1>1, <1>3
  <2>2. Length(g) = m
    <3>1. Running' /\ FilesSound'
      BY <1>1 DEF Running, Sound
    <3> QED BY <2>1, <3>1 DEF FilesSound
  <2> QED BY <1>8, <2>1, <2>2 DEF LogsStrict
<1>10. StreamsFollow'
  <2> SUFFICES ASSUME NEW t \in Streams
               PROVE  Expects(streams'[t], branches'[streams'[t].branch].sequence,
                              gens'[streams'[t].gen].file, File', commits')
    BY DEF StreamsFollow
  <2>1. PICK s, top, f, h : /\ s = streams[t] /\ top = branches[s.branch].sequence
                            /\ f = gens[s.gen].file /\ h = gens'[s.gen].file
    OBVIOUS
  <2>2. /\ s \in Stream
        /\ s.state = "replaying" => s.gen \in Generations /\ f \in Seq(Record)
    BY <2>1, StreamTyped
  <2>3. Expects(s, top, f, File, commits)
    BY <1>5, <2>1 DEF StreamsFollow
  <2>4. ServesOn(s, File, commits, g, commits)
    <3>1. \A c \in DOMAIN commits : commits[c] \in 1..n
      BY <1>1, KnownPlaced
    <3> HIDE DEF n
    <3> QED BY <1>1, <1>2, <3>1, ServesGrown
  <2>5. ASSUME s.state = "replaying" PROVE ReadsOn(s, f, h)
    <3>1. CASE s.gen = current
      <4>1. f = File /\ h = g
        BY <1>1, <1>3, <2>1, <3>1 DEF File
      <4>2. ASSUME NEW i \in (n + 1)..m PROVE ~Asked(s, g[i])
        <5>1. g[i] \in Record
          BY <1>1, <1>2
        <5>2. CASE g[i].type = "ref"
          <6>1. \/ g[i].operation = "create"
                \/ g[i].sequence = branches[g[i].branch].sequence + 1
            BY <5>2 DEF Adds
          <6> QED BY <1>5, <2>1, <2>5, <5>1, <5>2, <6>1, NotAsked
        <5>3. CASE g[i].type # "ref"
          BY <5>3 DEF Asked
        <5> QED BY <5>2, <5>3
      <4> QED BY <1>1, <1>2, <4>1, <4>2 DEF ReadsOn
    <3>2. CASE s.gen # current
      <4>1. h = f /\ f \in Seq(Record)
        BY <1>3, <2>1, <2>2, <2>5, <3>2
      <4> QED BY <4>1 DEF ReadsOn
    <3> QED BY <3>1, <3>2
  <2>6. Expects(s, top, h, g, commits)
    BY <2>2, <2>3, <2>4, <2>5, ExpectsOn
  <2> QED BY <1>4, <2>1, <2>6
<1>11. CopyServes'
  BY DEF CopyServes
<1>12. StreamsGoOn
  BY StreamTyped DEF StreamsGoOn
<1> QED BY <1>9, <1>10, <1>11, <1>12 DEF Streaming

LEMMA CommitStreams ==
  ASSUME Sound, Durable, Streaming, Sound', NEW b \in Branches, Commit(b)
  PROVE  Streaming' /\ StreamsGoOn
<1>1. /\ state = "open" /\ job = NoJob
      /\ UNCHANGED <<path, state, current, commits, branches, streams>>
  BY DEF Commit, MyTurn, memoryVars
<1>2. PICK pages, commit, ref, new, g : Commits(b, pages, commit, ref, new, g)
  BY CommitPublishes
<1>3. PICK f : f = File
  OBVIOUS
<1>4. Publishes(f, pages, commit, ref, new, g)
  BY <1>2, <1>3 DEF Commits
<1>5. /\ new \in Seq(Record) /\ Len(f) \in Nat /\ Len(f) + 2 <= Len(g)
      /\ \A i \in (Len(f) + 1)..Len(g) : /\ i = Len(g) => g[i] = ref
                                         /\ i = Len(g) - 1 => g[i] = commit
                                         /\ i \in {Len(g), Len(g) - 1} \/ g[i].type = "page"
  BY <1>4, PublicationIs
<1>6. /\ commit.type = "commit" /\ ref.operation = "commit" /\ ref.branch = b
      /\ ref.sequence = branches[b].sequence + 1 /\ job'.kind = "commit" /\ Append_(new)
  BY <1>2 DEF Commits
<1>7. Adds(g)
  <2> SUFFICES ASSUME NEW i \in (Len(f) + 1)..Len(g), g[i].type = "ref"
               PROVE  /\ i = Len(g) /\ g[i].operation = "commit"
                      /\ g[i].sequence = branches[g[i].branch].sequence + 1
    BY <1>3 DEF Adds
  <2>1. i = Len(g) /\ g[i] = ref
    BY <1>5, <1>6
  <2> QED BY <1>6, <2>1
<1>8. g = File \o new /\ job'.kind # "collect"
  BY <1>3, <1>4, <1>6 DEF Publishes
<1> QED BY <1>1, <1>5, <1>6, <1>7, <1>8, AppendStreams

\* An operation that appends one record.
LEMMA OneStreams ==
  ASSUME Sound, Durable, Streaming, Sound', state = "open", job = NoJob,
         NEW record \in Record, Append_(<<record>>),
         record.type = "ref" => record.operation = "create" /\ record.sequence = 0,
         UNCHANGED <<path, state, current, commits, branches, streams>>, job'.kind # "collect"
  PROVE  Streaming' /\ StreamsGoOn
<1>1. PICK f, g : f = File /\ g = f \o <<record>>
  OBVIOUS
<1>2. f \in Seq(Record)
  BY <1>1, AtRest
<1>3. /\ <<record>> \in Seq(Record) /\ Len(f) \in Nat /\ Len(g) = Len(f) + 1
      /\ g[Len(g)] = record
  BY <1>1, <1>2, OneBehind
<1>4. Adds(g)
  <2>1. \A i \in (Len(f) + 1)..Len(g) : i = Len(g) /\ g[i] = record
    BY <1>3
  <2> QED BY <1>1, <2>1 DEF Adds
<1> QED BY <1>1, <1>3, <1>4, AppendStreams

LEMMA MetaStreams ==
  ASSUME Sound, Durable, Streaming, Sound', state = "open", job = NoJob, WriteMetadata(retains'),
         retains' \in [Names -> Ids \union {NONE}],
         UNCHANGED <<path, state, current, commits, branches, streams>>, job'.kind # "collect"
  PROVE  Streaming' /\ StreamsGoOn
<1>1. PICK record : record = MetaRecord(retains', floors)
  OBVIOUS
<1>2. floors \in [Branches -> Nat]
  BY DEF Sound, Types
<1>3. record \in Record
  BY <1>1, <1>2, RecordsMade
<1>4. record.type = "meta" /\ Append_(<<record>>)
  BY <1>1 DEF MetaRecord, WriteMetadata
<1> QED BY <1>3, <1>4, OneStreams

LEMMA OperationStreams ==
  ASSUME Sound, Durable, Streaming, Sound',
         \/ \E b \in Branches : CreateBranch(b)
         \/ \E name \in Names : Retain(name) \/ ReleaseRetention(name)
  PROVE  Streaming' /\ StreamsGoOn
<1>0. Sound' => retains' \in [Names -> Ids \union {NONE}]
  BY DEF Sound, Types
<1>1. ASSUME NEW b \in Branches, CreateBranch(b)
      PROVE  Streaming' /\ StreamsGoOn
  <2>1. /\ state = "open" /\ job = NoJob
        /\ UNCHANGED <<path, state, current, commits, branches, streams>>
    BY <1>1 DEF CreateBranch, MyTurn, memoryVars
  <2>2. PICK c \in DOMAIN commits :
          /\ Append_(<<RefRecord("create", b, c, 0)>>)
          /\ job' = [kind |-> "create", id |-> c, branch |-> b, from |-> Len(File)]
    BY <1>1 DEF CreateBranch
  <2>3. PICK record : record = RefRecord("create", b, c, 0)
    OBVIOUS
  <2>4. FileAndMemory(gens[current].synced) /\ Types
    BY <2>1, AtRest
  <2>5. c \in Ids
    BY <2>4, RecordsAt
  <2>6. record \in Record
    BY <2>3, <2>5, RecordsMade
  <2>7. record.operation = "create" /\ record.sequence = 0
    BY <2>3 DEF RefRecord
  <2>8. job'.kind # "collect" /\ Append_(<<record>>)
    BY <2>2, <2>3
  <2> QED BY <2>1, <2>6, <2>7, <2>8, OneStreams
<1>2. ASSUME NEW name \in Names, Retain(name)
      PROVE  Streaming' /\ StreamsGoOn
  <2>1. /\ state = "open" /\ job = NoJob /\ WriteMetadata(retains') /\ job'.kind = "retain"
        /\ UNCHANGED <<path, state, current, commits, branches, streams>>
    BY <1>2 DEF Retain, MyTurn
  <2>2. job'.kind # "collect"
    BY <2>1
  <2> QED BY <1>0, <2>1, <2>2, MetaStreams
<1>3. ASSUME NEW name \in Names, ReleaseRetention(name)
      PROVE  Streaming' /\ StreamsGoOn
  <2>1. /\ state = "open" /\ job = NoJob /\ WriteMetadata(retains') /\ job'.kind = "release"
        /\ UNCHANGED <<path, state, current, commits, branches, streams>>
    BY <1>3 DEF ReleaseRetention, MyTurn
  <2>2. job'.kind # "collect"
    BY <2>1
  <2> QED BY <1>0, <2>1, <2>2, MetaStreams
<1> QED BY <1>1, <1>2, <1>3
-----------------------------------------------------------------------------
(* Syncs. *)

\* What a sync leaves of a stream.
SyncedStream(t) ==
  LET s == streams'[t] IN
  /\ Expects(s, branches'[s.branch].sequence, gens[s.gen].file, File, commits)
  /\ s.state = "replaying" => ServesOn(s, File, commits, File, commits')
  /\ GoesOn(streams[t], s)

LEMMA StreamsTyped ==
  ASSUME Sound'
  PROVE  \A t \in Streams :
           /\ streams'[t] \in Stream
           /\ streams'[t].state = "replaying" =>
                streams'[t].gen \in Generations /\ gens'[streams'[t].gen].file \in Seq(Record)
<1> SUFFICES ASSUME NEW t \in Streams
             PROVE  /\ streams'[t] \in Stream
                    /\ streams'[t].state = "replaying" =>
                         streams'[t].gen \in Generations /\ gens'[streams'[t].gen].file \in Seq(Record)
  OBVIOUS
<1>1. Types' /\ Leased' /\ Quiet'
  BY DEF Sound
<1>2. streams'[t] \in Stream
  BY <1>1 DEF Types
<1>3. streams'[t].state # "idle" => Serving'
  BY <1>1 DEF Quiet
<1>4. streams'[t].state = "replaying" => streams'[t].gen \in Written'
  BY <1>1, <1>3 DEF Leased, Serving, Running
<1>5. \A g \in Written' : g \in Generations /\ gens'[g].file \in Seq(Record)
  BY <1>1 DEF Written, Types, Generation
<1> QED BY <1>2, <1>4, <1>5

LEMMA SyncedStreams ==
  ASSUME Sound, Sound', Streaming, \A g \in Generations : gens'[g].file = gens[g].file,
         path' = path, current' = current, job' = NoJob, \A t \in Streams : SyncedStream(t)
  PROVE  Streaming' /\ StreamsGoOn
<1>1. path \subseteq Generations /\ current \in Generations /\ NoJob.kind # "collect"
  BY DEF Sound, Types, NoJob
<1>2. File' = File
  BY <1>1 DEF File
<1>3. LogsStrict'
  <2>1. LogsStrict
    BY DEF Streaming
  <2> QED BY <2>1, StrictStays
<1>4. StreamsFollow'
  <2> SUFFICES ASSUME NEW t \in Streams
               PROVE  Expects(streams'[t], branches'[streams'[t].branch].sequence,
                              gens'[streams'[t].gen].file, File', commits')
    BY DEF StreamsFollow
  <2>1. PICK s, top, f, h : /\ s = streams'[t] /\ top = branches'[s.branch].sequence
                            /\ f = gens[s.gen].file /\ h = gens'[s.gen].file
    OBVIOUS
  <2>2. /\ s \in Stream
        /\ s.state = "replaying" => s.gen \in Generations /\ h \in Seq(Record)
    <3>1. /\ streams'[t] \in Stream
          /\ streams'[t].state = "replaying" =>
               streams'[t].gen \in Generations /\ gens'[streams'[t].gen].file \in Seq(Record)
      BY StreamsTyped
    <3> QED BY <2>1, <3>1
  <2>3. /\ Expects(s, top, f, File, commits)
        /\ s.state = "replaying" => ServesOn(s, File, commits, File, commits')
    BY <2>1 DEF SyncedStream
  <2>4. s.state = "replaying" => ReadsOn(s, f, h)
    <3>1. s.state = "replaying" => f = h /\ h \in Seq(Record)
      BY <2>1, <2>2
    <3> QED BY <3>1 DEF ReadsOn
  <2>5. Expects(s, top, h, File, commits')
    BY <2>2, <2>3, <2>4, ExpectsOn
  <2> QED BY <1>2, <2>1, <2>5
<1>5. StreamsGoOn
  BY DEF StreamsGoOn, SyncedStream
<1>6. CopyServes'
  BY <1>1 DEF CopyServes
<1> QED BY <1>3, <1>4, <1>5, <1>6 DEF Streaming

\* A stream s is handed the commit q that follows what it was told of, and is r then.
Handed(s, top, f, log, known, q, queue, r) ==
  /\ s \in Stream /\ top \in Nat /\ s.state \in {"replaying", "live"}
  /\ Expects(s, top, f, log, known)
  /\ q = top + 1 /\ queue = Append(s.queue, q) /\ r = [s EXCEPT !.queue = queue, !.after = q]

LEMMA DeliveredStream ==
  ASSUME NEW s, NEW top, NEW f, NEW log, NEW known, NEW q, NEW queue, NEW r,
         Handed(s, top, f, log, known, q, queue, r)
  PROVE  /\ q > s.after /\ r.branch = s.branch /\ r.gen = s.gen /\ r.state = s.state
         /\ r.retainAfter = s.retainAfter
         /\ Expects(r, q, f, log, known) /\ GoesOn(s, r)
<1> USE DEF Handed
<1>1. /\ r.branch = s.branch /\ r.gen = s.gen /\ r.state = s.state /\ r.at = s.at
      /\ r.from = s.from /\ r.retainAfter = s.retainAfter /\ r.through = s.through
      /\ r.after = q /\ r.queue = queue
  BY DEF Stream
<1>2. /\ s.queue \in Seq(Nat) /\ s.retainAfter \in Nat /\ s.through \in Nat /\ s.at \in Nat
      /\ Len(s.queue) \in Nat
  BY DEF Stream
<1>3. /\ Len(queue) = Len(s.queue) + 1 /\ queue[Len(s.queue) + 1] = q
      /\ \A i \in 1..Len(s.queue) : queue[i] = s.queue[i]
  BY <1>2
<1>4. Queued(s, top) /\ (s.state = "replaying" => Replayable(s, f, log, known))
  BY DEF Expects
<1>5. q > s.after
  BY <1>4 DEF Queued
<1>6. Queued(r, q)
  <2>1. PICK base : base = IF s.state = "replaying" THEN s.through ELSE s.retainAfter
    OBVIOUS
  <2>2. /\ s.from <= s.retainAfter /\ s.retainAfter <= base
        /\ base + Len(s.queue) = top /\ base \in Nat
        /\ \A i \in 1..Len(s.queue) : s.queue[i] = base + i
    BY <1>2, <1>4, <2>1 DEF Queued
  <2>3. base + Len(queue) = q
    BY <1>2, <1>3, <2>2
  <2>4. \A i \in 1..Len(queue) : queue[i] = base + i
    <3> SUFFICES ASSUME NEW i \in 1..Len(queue) PROVE queue[i] = base + i
      OBVIOUS
    <3>1. i \in 1..Len(s.queue) \/ i = Len(s.queue) + 1
      BY <1>2, <1>3
    <3>2. q = base + (Len(s.queue) + 1)
      BY <1>2, <2>2
    <3> QED BY <1>3, <2>2, <3>1, <3>2
  <2> QED BY <1>1, <2>1, <2>2, <2>3, <2>4 DEF Queued
<1>7. r.state = "replaying" => Replayable(r, f, log, known)
  <2>1. \A record : Asked(r, record) <=> Asked(s, record)
    BY <1>1 DEF Asked
  <2> QED BY <1>1, <1>4, <2>1 DEF Replayable
<1>8. Expects(r, q, f, log, known)
  BY <1>1, <1>6, <1>7 DEF Expects
<1>9. GoesOn(s, r)
  BY <1>1, <1>2, <1>3 DEF GoesOn
<1> QED BY <1>1, <1>5, <1>8, <1>9

LEMMA SyncedCommitStreams ==
  ASSUME Sound, Durable, Streaming, Sound', SyncDone, job.kind = "commit"
  PROVE  Streaming' /\ StreamsGoOn
<1>1. /\ Running /\ current \in Generations
      /\ \A g \in Generations : gens'[g].file = gens[g].file
      /\ path' = path /\ current' = current /\ job' = NoJob /\ branches \in Heads
      /\ File \in Seq(Record)
  BY SyncFacts
<1>2. PICK b, id, at, q : b = job.branch /\ id = job.id /\ at = job.at /\ q = job.sequence
  OBVIOUS
<1>3. /\ commits' = With(commits, id, at)
      /\ branches' = [branches EXCEPT ![b] = [@ EXCEPT !.head = id, !.sequence = q]]
      /\ streams' = Deliveries(b, q)
  BY <1>2 DEF SyncDone
<1>4. b \in Branches /\ q = branches[b].sequence + 1 /\ id \notin DOMAIN commits
  <2>1. CommitSound
    BY DEF Sound, JobSound
  <2> QED BY <1>2, <2>1 DEF CommitSound
<1>5. \A x \in Branches : /\ branches[x].sequence \in Nat
                          /\ branches'[x].sequence = IF x = b THEN q ELSE branches[x].sequence
  BY <1>1, <1>3, <1>4 DEF Heads, Branch
<1>6. ASSUME NEW s PROVE ServesOn(s, File, commits, File, commits')
  BY <1>3, <1>4 DEF ServesOn, PlacedAt, With
<1>7. ASSUME NEW t \in Streams PROVE SyncedStream(t)
  <2>1. PICK s, top, f : /\ s = streams[t] /\ top = branches[s.branch].sequence
                         /\ f = gens[s.gen].file
    OBVIOUS
  <2>2. s \in Stream /\ GoesOn(s, s)
    BY <2>1, StreamTyped
  <2>3. s.branch \in Branches /\ top \in Nat
    BY <1>5, <2>1, <2>2 DEF Stream
  <2>4. Expects(s, top, f, File, commits)
    BY <2>1 DEF Streaming, StreamsFollow
  <2>5. CASE s.state \in {"replaying", "live"} /\ s.branch = b
    <3>1. PICK queue : queue = Append(s.queue, q)
      OBVIOUS
    <3>2. PICK r : r = [s EXCEPT !.queue = queue, !.after = q]
      OBVIOUS
    <3>3. q = top + 1
      BY <1>4, <2>1, <2>5
    <3>4. /\ q > s.after /\ r.branch = s.branch /\ r.gen = s.gen /\ r.state = s.state
          /\ Expects(r, q, f, File, commits) /\ GoesOn(s, r)
      <4>1. Handed(s, top, f, File, commits, q, queue, r)
        BY <2>2, <2>3, <2>4, <2>5, <3>1, <3>2, <3>3 DEF Handed
      <4> QED BY <4>1, DeliveredStream
    <3>5. streams'[t] = r
      BY <1>3, <2>1, <2>5, <3>1, <3>2, <3>4 DEF Deliveries
    <3> QED BY <1>5, <1>6, <2>1, <2>3, <2>5, <3>4, <3>5 DEF SyncedStream
  <2>6. CASE ~(s.state \in {"replaying", "live"} /\ s.branch = b)
    <3>1. streams'[t] = s
      BY <1>3, <2>1, <2>6 DEF Deliveries
    <3>2. Expects(s, branches'[s.branch].sequence, f, File, commits)
      <4>1. CASE s.branch # b
        BY <1>5, <2>1, <2>3, <2>4, <4>1
      <4>2. CASE s.branch = b
        <5>1. s.state \notin {"replaying", "live"} /\ branches'[s.branch].sequence = top + 1
          BY <1>4, <1>5, <2>1, <2>3, <2>6, <4>2
        <5>2. s.retainAfter \in Nat
          BY <2>2 DEF Stream
        <5> QED BY <2>3, <2>4, <5>1, <5>2 DEF Expects, Waits
      <4> QED BY <4>1, <4>2
    <3> QED BY <1>6, <2>1, <2>2, <3>1, <3>2 DEF SyncedStream
  <2> QED BY <2>5, <2>6
<1> QED BY <1>1, <1>7, SyncedStreams

\* No other sync moves a branch's head, or there are no streams yet.
LEMMA SyncDoneStreams ==
  ASSUME Sound, Durable, Streaming, Sound', SyncDone
  PROVE  Streaming' /\ StreamsGoOn
<1>1. /\ Running /\ current \in Generations
      /\ \A g \in Generations : gens'[g].file = gens[g].file
      /\ path' = path /\ current' = current /\ job' = NoJob /\ branches \in Heads
  BY SyncFacts
<1>2. CASE job.kind = "commit"
  BY <1>2, SyncedCommitStreams
<1>3. CASE job.kind = "open"
  <2>1. ~Serving
    BY <1>3 DEF Sound, JobSound, Serving
  <2>2. streams' = streams
    BY <1>3 DEF SyncDone
  <2>3. \A t \in Streams : streams'[t].state = "idle"
    BY <2>1, <2>2 DEF Sound, Quiet
  <2>4. \A t \in Streams : SyncedStream(t)
    BY <2>3, IdleExpects DEF SyncedStream, GoesOn
  <2> QED BY <1>1, <2>4, SyncedStreams
<1>4. CASE job.kind \in {"create", "retain", "release"}
  <2>1. streams' = streams /\ commits' = commits
    BY <1>4 DEF SyncDone
  <2>2. \A x \in Branches : branches'[x].sequence = branches[x].sequence
    <3>1. CASE job.kind = "create"
      <4>1. PICK b, id : b = job.branch /\ id = job.id
        OBVIOUS
      <4>2. b \in Branches /\ branches[b] = NoBranch
        BY <3>1, <4>1 DEF Sound, JobSound
      <4> DEFINE after == [head |-> id, sequence |-> 0, base |-> id]
      <4>3. branches' = [branches EXCEPT ![b] = after]
        BY <3>1, <4>1 DEF SyncDone
      <4>4. after.sequence = 0 /\ branches[b].sequence = 0
        BY <4>2 DEF NoBranch
      <4> HIDE DEF after
      <4> QED BY <1>1, <4>3, <4>4 DEF Heads
    <3>2. CASE job.kind # "create"
      <4>1. branches' = branches
        BY <1>4, <3>2 DEF SyncDone
      <4> QED BY <4>1
    <3> QED BY <3>1, <3>2
  <2>3. ASSUME NEW t \in Streams PROVE SyncedStream(t)
    <3>1. streams[t] \in Stream /\ GoesOn(streams[t], streams[t])
      BY StreamTyped
    <3>2. streams[t].branch \in Branches
      BY <3>1 DEF Stream
    <3>3. Expects(streams[t], branches[streams[t].branch].sequence, gens[streams[t].gen].file,
                  File, commits)
      BY DEF Streaming, StreamsFollow
    <3>4. ServesOn(streams[t], File, commits, File, commits')
      BY <2>1 DEF ServesOn
    <3> QED BY <2>1, <2>2, <3>1, <3>2, <3>3, <3>4 DEF SyncedStream
  <2> QED BY <1>1, <2>3, SyncedStreams
<1>5. job.kind \in {"open", "commit", "create", "retain", "release"}
  BY DEF SyncDone
<1> QED BY <1>2, <1>3, <1>4, <1>5
-----------------------------------------------------------------------------
(* Crashes, recoveries, and what leaves streams alone. *)

\* A process that ends or begins has no streams.
LEMMA NoStreams ==
  ASSUME LogsStrict', \A t \in Streams : streams'[t].state = "idle", job'.kind # "collect"
  PROVE  Streaming' /\ StreamsGoOn
<1>1. StreamsFollow'
  BY IdleExpects DEF StreamsFollow
<1>2. StreamsGoOn
  BY DEF StreamsGoOn, GoesOn
<1>3. CopyServes'
  BY DEF CopyServes
<1> QED BY <1>1, <1>2, <1>3 DEF Streaming

LEMMA EndedStreams ==
  ASSUME Ended, LogsStrict'
  PROVE  Streaming' /\ StreamsGoOn
<1>1. /\ job'.kind = "idle" /\ \A t \in Streams : streams'[t].state = "idle"
  BY DEF Ended, NoJob, NoStream
<1>2. job'.kind # "collect"
  BY <1>1
<1> QED BY <1>1, <1>2, NoStreams

LEMMA CloseEndsStreams ==
  ASSUME Sound, Streaming, CloseEnds
  PROVE  Streaming' /\ StreamsGoOn
<1>1. Synced /\ Ended /\ path' = path
  BY DEF CloseEnds
<1>2. Types /\ current \in Generations
  BY DEF Sound, Types
<1>3. \A g \in Generations : gens'[g].file = gens[g].file
  BY <1>1, <1>2 DEF Synced, Types, Generation
<1>4. LogsStrict
  BY DEF Streaming
<1>5. LogsStrict'
  BY <1>1, <1>3, <1>4, StrictStays
<1> QED BY <1>1, <1>5, EndedStreams

LEMMA CrashStreams ==
  ASSUME Sound, Streaming, Crash, Garbling = FALSE
  PROVE  Streaming' /\ StreamsGoOn
<1>1. Running /\ Ended /\ path' = path
  BY CrashIs
<1>2. PICK keep \in gens[current].synced..Len(File), new \in Seq(Record) :
        /\ Length(new) = keep
        /\ \A i \in 1..keep : new[i] = File[i]
        /\ gens' = [gens EXCEPT ![current].file = new]
  BY CrashIs
<1>3. PICK f, n : f = File /\ n = Len(f)
  OBVIOUS
<1>4. /\ Types /\ current \in path /\ current \in Generations /\ path \subseteq Generations
      /\ Length(f) = n /\ n \in Nat /\ keep \in 0..n
  <2>1. /\ current \in path /\ current \in Generations /\ Length(File) = Len(File)
        /\ gens[current].synced \in 0..Len(File) /\ Len(File) \in Nat
    BY <1>1, RunningView
  <2>2. keep \in 0..Len(File)
    BY <1>2, <2>1
  <2> QED BY <1>3, <2>1, <2>2 DEF Sound, Types
<1>5. \A g \in Generations : gens'[g].file = IF g = current THEN new ELSE gens[g].file
  BY <1>2, <1>4 DEF Types, Generation
<1>6. \A g \in path : RefsStrict(gens[g].file, Length(gens[g].file))
  BY DEF Streaming, LogsStrict
<1>7. RefsStrict(new, keep)
  <2>1. RefsStrict(f, n)
    BY <1>3, <1>4, <1>6 DEF File
  <2>2. \A i \in 1..keep : new[i] = f[i]
    BY <1>2, <1>3
  <2> QED BY <1>4, <2>1, <2>2, StrictAgrees
<1>8. LogsStrict'
  <2> SUFFICES ASSUME NEW g \in path PROVE RefsStrict(gens'[g].file, Length(gens'[g].file))
    BY <1>1 DEF LogsStrict
  <2>1. CASE g = current
    BY <1>2, <1>4, <1>5, <1>7, <2>1
  <2>2. CASE g # current
    BY <1>4, <1>5, <1>6, <2>2
  <2> QED BY <2>1, <2>2
<1> QED BY <1>1, <1>8, EndedStreams

\* What an opening appends are refs that create a branch at most.
LEMMA MissingCreate ==
  ASSUME NEW memory, NEW h, memory.retains \in [Names -> Ids \union {NONE}],
         memory.floors \in [Branches -> Nat], memory.branches = NoBranches => Fresh \in Ids,
         NEW missing, missing = Missing(memory, h)
  PROVE  /\ missing \in Seq(Record)
         /\ \A i \in 1..Len(missing) : missing[i].type = "ref" =>
              missing[i].operation = "create" /\ missing[i].sequence = 0
<1>1. PICK meta : meta = MetaRecord(memory.retains, memory.floors)
  OBVIOUS
<1>2. meta \in Record /\ meta.type = "meta"
  BY <1>1, RecordsMade DEF MetaRecord
<1>3. CASE memory.branches = NoBranches
  <2>1. PICK commit, ref : /\ commit = CommitRecord(Fresh, Main, 0, 0)
                           /\ ref = RefRecord("create", Main, Fresh, 0)
    OBVIOUS
  <2>2. /\ commit \in Record /\ commit.type = "commit"
        /\ ref \in Record /\ ref.operation = "create" /\ ref.sequence = 0
    BY <1>3, <2>1, RecordsMade, FileAssumption DEF CommitRecord, RefRecord
  <2>3. missing = <<commit, ref, meta>>
    BY <1>1, <1>3, <2>1 DEF Missing
  <2>4. /\ missing \in Seq(Record) /\ Len(missing) = 3
        /\ missing[1] = commit /\ missing[2] = ref /\ missing[3] = meta
    BY <1>2, <2>2, <2>3
  <2> QED BY <1>2, <2>2, <2>4
<1>4. CASE memory.branches # NoBranches
  <2>1. missing = <<>> \/ missing = <<meta>>
    BY <1>1, <1>4 DEF Missing
  <2>2. CASE missing = <<>>
    <3>1. missing \in Seq(Record) /\ Len(missing) = 0
      BY <2>2
    <3> QED BY <3>1
  <2>3. CASE missing = <<meta>>
    <3>1. missing \in Seq(Record) /\ Len(missing) = 1 /\ missing[1] = meta
      BY <1>2, <2>3
    <3>2. \A i \in 1..Len(missing) : missing[i].type = "meta"
      BY <1>2, <3>1
    <3> QED BY <3>1, <3>2
  <2> QED BY <2>1, <2>2, <2>3
<1> QED BY <1>3, <1>4

LEMMA OpenStreams ==
  ASSUME Sound, Streaming, Sound', Open
  PROVE  Streaming' /\ StreamsGoOn
<1>1. PICK g \in path : \E h, n, s, low, start, memory :
        /\ Found(g, h, n, s, low, start, memory) /\ Walked(g, h, n, s, low, start, memory)
        /\ Enter(g, h, start, memory)
  BY OpenFinds
<1>2. PICK h, n, s, low, start, memory :
        /\ Found(g, h, n, s, low, start, memory) /\ Walked(g, h, n, s, low, start, memory)
        /\ Enter(g, h, start, memory)
  BY <1>1
<1>3. /\ n \in Nat /\ h \in Seq(Record) /\ Len(h) = n
      /\ CommitsSound(h, n, memory.commits)
      /\ HeadsSound(h, memory.commits, memory.branches, low)
      /\ memory.floors = low /\ memory.retains \in [Names -> Ids \union {NONE}]
      /\ low \in [Branches -> Nat] /\ FileSound(h, n, s, content, low)
      /\ memory.branches \in Heads /\ LowOf(h) = low /\ start \in 0..n
  BY <1>2 DEF Found
<1>4. ~Unloadable(h, start, memory)
  BY <1>3, LoadableIs
<1>5. PICK missing : missing = Missing(memory, h)
  OBVIOUS
<1>6. PICK f : f = h \o missing
  OBVIOUS
<1>7. g \in Generations
  BY DEF Sound, Types
<1>8. /\ path' = {g} /\ current' = g /\ gens'[g].file = f
      /\ job'.kind = "open" /\ state' = "opening"
      /\ memory.branches = NoBranches => Fresh \in Ids
  <2>1. PICK z : gens'[g] = [NewFile EXCEPT !.file = f, !.synced = z]
    BY <1>2, <1>5, <1>6, <1>7 DEF Enter
  <2>2. gens'[g].file = f
    BY <2>1 DEF NewFile
  <2> QED BY <1>2, <1>4, <2>2 DEF Enter
<1>9. n = Length(gens[g].file) /\ \A i \in 1..n : h[i] = gens[g].file[i]
  BY <1>2 DEF Walked
<1>10. /\ missing \in Seq(Record)
       /\ \A i \in 1..Len(missing) : missing[i].type = "ref" =>
            missing[i].operation = "create" /\ missing[i].sequence = 0
  BY <1>3, <1>5, <1>8, MissingCreate
<1>11. /\ f \in Seq(Record) /\ Len(f) = n + Len(missing)
       /\ \A i \in 1..n : f[i] = h[i]
       /\ \A i \in 1..Len(missing) : f[n + i] = missing[i]
  <2>1. h \in Seq(Record) /\ missing \in Seq(Record)
    BY <1>3, <1>10
  <2>2. /\ f \in Seq(Record) /\ Len(f) = Len(h) + Len(missing)
        /\ \A i \in 1..Len(h) : f[i] = h[i]
        /\ \A i \in 1..Len(missing) : f[Len(h) + i] = missing[i]
    BY <1>6, <2>1, TwoParts
  <2> QED BY <1>3, <2>2
<1>12. RefsStrict(h, n)
  <2>1. RefsStrict(gens[g].file, n)
    BY <1>9 DEF Streaming, LogsStrict
  <2>2. n \in 0..n
    BY <1>3
  <2> QED BY <1>3, <1>9, <2>1, <2>2, StrictAgrees
<1>13. RefsRiseOn(f, n, Len(f))
  <2> SUFFICES ASSUME NEW i \in (n + 1)..Len(f), f[i].type = "ref"
               PROVE  f[i].operation = "create" /\ f[i].sequence = 0
    BY DEF RefsRiseOn
  <2>1. i - n \in 1..Len(missing) /\ n + (i - n) = i
    BY <1>3, <1>10, <1>11
  <2>2. f[i] = missing[i - n]
    BY <1>11, <2>1
  <2> QED BY <1>10, <2>1, <2>2
<1>14. RefsStrict(f, Len(f))
  <2>1. Len(f) \in Nat /\ n <= Len(f)
    BY <1>3, <1>10, <1>11
  <2> QED BY <1>3, <1>11, <1>12, <1>13, <2>1, StrictGrows
<1>15. LogsStrict'
  <2>1. Length(f) = Len(f)
    BY <1>8 DEF Sound, FilesSound, Running
  <2> QED BY <1>8, <1>14, <2>1 DEF LogsStrict
<1>16. \A t \in Streams : streams'[t].state = "idle"
  BY <1>8 DEF Sound, Quiet, Serving
<1>17. job'.kind # "collect"
  BY <1>8
<1> QED BY <1>15, <1>16, <1>17, NoStreams

\* Snapshots come and go, the engine is about to close, a collection is called for or ends.
LEMMA QuietStreams ==
  ASSUME Sound, Streaming,
         \/ QuietStep \/ CollectGarbage \/ \E name \in Names : RetainAgain(name)
         \/ \E r \in Readers : CallSnapshot(r) \/ Snapshot(r) \/ CloseSnapshot(r)
  PROVE  Streaming' /\ StreamsGoOn
<1> DEFINE Moves == /\ FilesStay /\ path' \subseteq path /\ streams' = streams
                    /\ job' = job \/ job' = NoJob
<1>0. Types
  BY DEF Sound
<1>1. Moves => Streaming' /\ StreamsGoOn
  <2> SUFFICES ASSUME Moves PROVE Streaming' /\ StreamsGoOn
    OBVIOUS
  <2>1. job' = job \/ job'.kind # "collect"
    BY DEF NoJob
  <2>2. /\ LogsStrict' /\ StreamsFollow' /\ StreamsGoOn
        /\ job' = job \/ job'.kind # "collect" => CopyServes'
    BY StreamsStay
  <2> QED BY <2>1, <2>2 DEF Streaming
<1>2. CASE CollectionDone
  <2>1. PICK p : p = job.previous
    OBVIOUS
  <2>2. PICK k, z : k = gens[p].leases - 1 /\ z = (gens[p].leases = 1)
    OBVIOUS
  <2> DEFINE after == [gens[p] EXCEPT !.retired = TRUE, !.leases = k, !.closed = z]
  <2>3. /\ job.kind = "install" /\ gens' = [gens EXCEPT ![p] = after]
        /\ path' = {current} /\ job' = NoJob /\ streams' = streams
        /\ UNCHANGED memoryVars
    BY <1>2, <2>1, <2>2 DEF CollectionDone, Retire
  <2>4. p \in Generations => after.file = gens[p].file
    BY <1>0 DEF Types, Generation
  <2> HIDE DEF after
  <2>5. \A g \in Generations : gens'[g].file = gens[g].file
    BY <1>0, <2>3, <2>4 DEF Types
  <2>6. current \in path
    <3>1. Serving
      BY <2>3 DEF Sound, Quiet
    <3> QED BY <3>1 DEF Sound, Numbered, Serving, Running
  <2>7. Moves
    BY <2>3, <2>5, <2>6 DEF FilesStay, memoryVars
  <2> QED BY <1>1, <2>7
<1>3. ASSUME NEW r \in Readers, CallSnapshot(r) \/ Snapshot(r) \/ CloseSnapshot(r)
      PROVE  Moves
  <2>1. /\ path' = path /\ streams' = streams /\ job' = job /\ UNCHANGED memoryVars
        /\ gens' = gens \/ \E h : Holds(h, 1) \/ ReleaseGeneration(h)
    BY <1>3 DEF CallSnapshot, Snapshot, CloseSnapshot, diskVars
  <2> QED BY <1>0, <2>1, LeasesStay
<1>4. CASE Close \/ CollectionFails \/ UNCHANGED vars \/ CollectGarbage
  <2>1. /\ path' = path /\ streams' = streams /\ (job' = job \/ job' = NoJob) /\ gens' = gens
        /\ UNCHANGED memoryVars
    BY <1>4 DEF Close, CollectionFails, CollectGarbage, vars, diskVars
  <2>2. Moves
    BY <1>0, <2>1, LeasesStay
  <2> QED BY <1>1, <2>2
<1>5. ASSUME NEW name \in Names, RetainAgain(name)
      PROVE  Moves
  <2>1. /\ path' = path /\ streams' = streams /\ job' = job /\ gens' = gens
        /\ UNCHANGED memoryVars
    BY <1>5 DEF RetainAgain, diskVars
  <2> QED BY <1>0, <2>1, LeasesStay
<1> HIDE DEF Moves
<1> QED BY <1>1, <1>2, <1>3, <1>4, <1>5 DEF QuietStep
-----------------------------------------------------------------------------
(* A collection. *)

\* No two known commits of a branch have the same sequence.
LEMMA OnePlace ==
  ASSUME Sound, Serving, RefsStrict(File, Len(File)), NEW c \in DOMAIN commits,
         NEW d \in DOMAIN commits, RecordAt(c).branch = RecordAt(d).branch,
         RecordAt(c).sequence = RecordAt(d).sequence, RecordAt(c).sequence > 0
  PROVE  c = d
<1> PICK f, n : f = File /\ n = Len(File)
  OBVIOUS
<1>1. /\ f \in Seq(Record) /\ n \in Nat
      /\ \A x \in DOMAIN commits :
           /\ commits[x] \in 1..n /\ RecordAt(x) = f[commits[x]] /\ RecordAt(x).id = x
           /\ RecordAt(x).sequence \in Nat /\ Published(f, commits[x], n)
  BY KnownPlaced
<1>2. ASSUME NEW x \in DOMAIN commits, RecordAt(x).sequence > 0
      PROVE  \E i \in 1..n : /\ f[i].type = "ref" /\ f[i].operation = "commit" /\ f[i].head = x
                             /\ f[i].branch = RecordAt(x).branch
                             /\ f[i].sequence = RecordAt(x).sequence
  <2>1. PICK i \in (commits[x] + 1)..n :
          /\ f[i].type = "ref" /\ f[i].head = x
          /\ f[i].branch = RecordAt(x).branch /\ f[i].sequence = RecordAt(x).sequence
    BY <1>1, <1>2 DEF Published
  <2>2. i \in 1..n
    BY <1>1
  <2>3. f[i].operation \in {"create", "commit"}
    BY <1>1, <2>1, <2>2, FileTyped, RecordKinds
  <2>4. f[i].operation = "create" => f[i].sequence = 0
    BY <2>1, <2>2 DEF RefsStrict
  <2> QED BY <1>1, <1>2, <2>1, <2>2, <2>3, <2>4
<1>3. PICK i \in 1..n : /\ f[i].type = "ref" /\ f[i].operation = "commit" /\ f[i].head = c
                        /\ f[i].branch = RecordAt(c).branch
                        /\ f[i].sequence = RecordAt(c).sequence
  BY <1>2
<1>4. PICK k \in 1..n : /\ f[k].type = "ref" /\ f[k].operation = "commit" /\ f[k].head = d
                        /\ f[k].branch = RecordAt(d).branch
                        /\ f[k].sequence = RecordAt(d).sequence
  BY <1>2
<1>5. RefsStrict(f, n)
  OBVIOUS
<1>6. \A m \in 1..(i - 1) : f[m].type = "ref" /\ f[m].branch = f[i].branch =>
        f[m].sequence < f[i].sequence
  BY <1>3, <1>5 DEF RefsStrict
<1>7. \A m \in 1..(k - 1) : f[m].type = "ref" /\ f[m].branch = f[k].branch =>
        f[m].sequence < f[k].sequence
  BY <1>4, <1>5 DEF RefsStrict
<1>8. f[i].sequence = f[k].sequence /\ f[i].branch = f[k].branch /\ f[i].sequence \in Nat
  BY <1>1, <1>3, <1>4
<1>9. i = k
  <2>1. ~(i \in 1..(k - 1)) /\ ~(k \in 1..(i - 1))
    BY <1>3, <1>4, <1>6, <1>7, <1>8
  <2> QED BY <1>1, <2>1
<1> QED BY <1>3, <1>4, <1>9

\* So the refs of a copy rise.
LEMMA CopyStrict ==
  ASSUME Sound, Serving, RefsStrict(File, Len(File)), NEW retained \in SUBSET DOMAIN commits,
         NEW g, Copied(g, retained)
  PROVE  RefsStrict(g, Len(g))
<1> PICK n : n = Len(g)
  OBVIOUS
<1>1. RefsOrdered(g, n)
  BY DEF Copied
<1>2. \A i \in 1..n : g[i].type = "ref" =>
        /\ g[i].head \in retained /\ g[i].sequence \in Nat
        /\ \/ g[i].operation = "create" /\ g[i].sequence = 0
           \/ /\ g[i].operation = "commit" /\ g[i].sequence > 0
              /\ g[i].branch = RecordAt(g[i].head).branch
              /\ g[i].sequence = RecordAt(g[i].head).sequence
  BY DEF Copied
<1>3. n \in Nat
  BY DEF Copied
<1> SUFFICES ASSUME NEW i \in 1..n, g[i].type = "ref", g[i].operation = "commit",
                    NEW k \in 1..(i - 1), g[k].type = "ref", g[k].branch = g[i].branch
             PROVE  g[k].sequence < g[i].sequence
  BY <1>2 DEF RefsStrict
<1>4. k \in 1..n /\ k < i
  BY <1>3
<1>5. /\ g[k].sequence <= g[i].sequence
      /\ g[k].sequence = g[i].sequence => g[k].head # g[i].head
  BY <1>1, <1>4 DEF RefsOrdered
<1>6. g[k].sequence \in Nat /\ g[i].sequence \in Nat
  BY <1>2, <1>4
<1>7. ASSUME g[k].sequence = g[i].sequence
      PROVE  FALSE
  <2>1. /\ g[i].head \in DOMAIN commits /\ g[i].sequence > 0
        /\ g[i].branch = RecordAt(g[i].head).branch
        /\ g[i].sequence = RecordAt(g[i].head).sequence
    BY <1>2
  <2>2. /\ g[k].head \in DOMAIN commits
        /\ g[k].branch = RecordAt(g[k].head).branch
        /\ g[k].sequence = RecordAt(g[k].head).sequence
    BY <1>2, <1>4, <1>7, <2>1
  <2>3. g[k].head = g[i].head
    BY <1>7, <2>1, <2>2, OnePlace
  <2> QED BY <1>5, <1>7, <2>3
<1> QED BY <1>5, <1>6, <1>7

LEMMA StartCollectionStreams ==
  ASSUME Sound, Durable, Streaming, StartCollection
  PROVE  Streaming' /\ StreamsGoOn
<1>1. /\ state = "open" /\ job = NoJob
      /\ gens' = gens /\ path' = path /\ streams' = streams /\ UNCHANGED memoryVars
  BY DEF StartCollection, CollectionTurn, MyTurn, diskVars
<1>2. PICK retained : retained = RetainedCommitIds
  OBVIOUS
<1>3. PICK low : low = HistoryFloorsFor(retained)
  OBVIOUS
<1>4. PICK g : g = Copy(retained, low)
  OBVIOUS
<1>5. job' = [kind |-> "collect", retained |-> retained, floors |-> low, file |-> g]
  BY <1>2, <1>3, <1>4 DEF StartCollection
<1>6. job'.kind = "collect" /\ job'.file = g /\ job'.retained = retained
  BY <1>5
<1>7. /\ Serving /\ current \in path /\ Length(File) = Len(File)
      /\ FileAndMemory(gens[current].synced)
  BY <1>1, AtRest
<1>8. retained \in SUBSET DOMAIN commits /\ KeepsHeads(retained)
  BY <1>2, <1>7, RetainedIs
<1>9. Copied(g, retained)
  BY <1>3, <1>4, <1>7, <1>8, CopyIs
<1>10. RefsStrict(File, Len(File))
  BY <1>7 DEF Streaming, LogsStrict, File
<1>11. RefsStrict(g, Len(g))
  BY <1>7, <1>8, <1>9, <1>10, CopyStrict
<1>12. FilesStay
  BY <1>1 DEF FilesStay, memoryVars
<1>13. LogsStrict' /\ StreamsFollow' /\ StreamsGoOn
  BY <1>1, <1>12, StreamsStay
<1>14. File' = File /\ commits' = commits
  BY <1>1 DEF File, memoryVars
<1>15. \A i \in 1..Len(g) : g[i].type = "commit" =>
         PlacedAt(File, commits, g[i].id, g[i].branch, g[i].sequence)
  BY <1>8, <1>9 DEF Copied, PlacedAt, RecordAt
<1>16. ASSUME NEW t \in Streams, Active(t), NEW c \in OfBranch(streams[t].branch),
              RecordAt(c).sequence > streams[t].retainAfter
       PROVE  c \in retained
  <2>1. c \in Expected
    BY <1>16 DEF Expected, Active
  <2>2. c \in DOMAIN commits
    BY DEF OfBranch
  <2> QED BY <1>2, <2>1, <2>2 DEF RetainedCommitIds
<1>17. CopyServes'
  <2>1. \A i \in 1..Len(job'.file) : job'.file[i].type = "commit" =>
          PlacedAt(File', commits', job'.file[i].id, job'.file[i].branch, job'.file[i].sequence)
    BY <1>6, <1>14, <1>15
  <2>2. RefsStrict(job'.file, Len(job'.file))
    BY <1>6, <1>11
  <2>3. \A t \in Streams : Active(t) =>
          \A c \in OfBranch(streams[t].branch) :
            RecordAt(c).sequence > streams[t].retainAfter => c \in retained
    BY <1>16
  <2>4. (\A t \in Streams : Active(t) =>
           \A c \in OfBranch(streams[t].branch) :
             RecordAt(c).sequence > streams[t].retainAfter => c \in job.retained)'
    BY <1>1, <1>6, <1>14, <2>3 DEF Active, OfBranch, RecordAt
  <2> QED BY <2>1, <2>2, <2>4 DEF CopyServes
<1> QED BY <1>13, <1>17 DEF Streaming
LEMMA InstallGenerationStreams ==
  ASSUME Sound, Durable, Streaming, InstallGeneration
  PROVE  Streaming' /\ StreamsGoOn
<1>1. PICK g, kept : g = job.file /\ kept = job.retained
  OBVIOUS
<1>2. PICK next : Installs(next, g, kept)
  BY <1>1, InstallIs
<1>3. PICK places : places = Places(g, kept)
  OBVIOUS
<1>4. /\ job.kind = "collect" /\ path' = path \union {next} /\ commits' = places
      /\ job'.kind = "install" /\ branches' = branches /\ streams' = streams
  BY <1>2, <1>3 DEF Installs
<1>5. /\ next \notin Written /\ gens'[next].file = g /\ File' = g /\ Length(g) = Len(g)
      /\ \A x \in path : x # next /\ x \in Generations
      /\ \A x \in Generations : x # next => gens'[x] = gens[x]
  BY <1>2 DEF Installs
<1>6. LogsStrict /\ CopyServes /\ StreamsFollow
  BY DEF Streaming
<1>7. /\ RefsStrict(g, Len(g))
      /\ \A i \in 1..Len(g) : g[i].type = "commit" =>
           PlacedAt(File, commits, g[i].id, g[i].branch, g[i].sequence)
      /\ \A t \in Streams : Active(t) =>
           \A c \in OfBranch(streams[t].branch) :
             RecordAt(c).sequence > streams[t].retainAfter => c \in kept
  BY <1>1, <1>4, <1>6 DEF CopyServes
<1>8. /\ DOMAIN places = kept
      /\ \A c \in kept : /\ places[c] \in 1..Len(g)
                         /\ g[places[c]].type = "commit" /\ g[places[c]].id = c
  <2>1. CommitsSound(g, Len(g), places)
    BY <1>1, <1>3, <1>4 DEF Sound, JobSound, CollectSound, View
  <2>2. DOMAIN places = kept
    BY <1>3 DEF Places
  <2> QED BY <2>1, <2>2 DEF CommitsSound
<1>9. LogsStrict'
  <2> SUFFICES ASSUME NEW x \in path' PROVE RefsStrict(gens'[x].file, Length(gens'[x].file))
    BY DEF LogsStrict
  <2>1. CASE x = next
    BY <1>5, <1>7, <2>1
  <2>2. CASE x \in path
    <3>1. gens'[x] = gens[x]
      BY <1>5, <2>2
    <3> QED BY <1>6, <2>2, <3>1 DEF LogsStrict
  <2> QED BY <1>4, <2>1, <2>2
<1>10. ASSUME NEW t \in Streams
       PROVE  Expects(streams[t], branches[streams[t].branch].sequence,
                      gens'[streams[t].gen].file, g, places)
  <2>1. PICK s, top, f, h : /\ s = streams[t] /\ top = branches[s.branch].sequence
                            /\ f = gens[s.gen].file /\ h = gens'[s.gen].file
    OBVIOUS
  <2>2. Expects(s, top, f, File, commits)
    BY <1>6, <2>1 DEF StreamsFollow
  <2>3. /\ s \in Stream
        /\ s.state = "replaying" => s.gen \in Written /\ s.gen \in Generations /\ f \in Seq(Record)
    BY <2>1, StreamTyped
  <2>4. ASSUME s.state = "replaying"
        PROVE  h = f /\ ReadsOn(s, f, h) /\ ServesOn(s, File, commits, g, places)
    <3>1. h = f
      BY <1>5, <2>1, <2>3, <2>4
    <3>2. ReadsOn(s, f, h)
      BY <2>3, <2>4, <3>1 DEF ReadsOn
    <3>3. ServesOn(s, File, commits, g, places)
      <4> SUFFICES ASSUME NEW c, NEW q, PlacedAt(File, commits, c, s.branch, q), q > s.retainAfter
                   PROVE  PlacedAt(g, places, c, s.branch, q)
        BY DEF ServesOn
      <4>1. /\ c \in DOMAIN commits /\ RecordAt(c).branch = s.branch
            /\ RecordAt(c).sequence = q
        BY DEF PlacedAt, RecordAt
      <4>2. Active(t) /\ c \in OfBranch(streams[t].branch)
            /\ RecordAt(c).sequence > streams[t].retainAfter
        BY <2>1, <2>4, <4>1 DEF Active, OfBranch
      <4>3. c \in kept
        BY <1>7, <4>2
      <4>4. places[c] \in 1..Len(g) /\ g[places[c]].type = "commit" /\ g[places[c]].id = c
        BY <1>8, <4>3
      <4>5. PlacedAt(File, commits, c, g[places[c]].branch, g[places[c]].sequence)
        BY <1>7, <4>4
      <4> QED BY <1>8, <4>3, <4>5 DEF PlacedAt
    <3> QED BY <3>1, <3>2, <3>3
  <2>5. Expects(s, top, h, g, places)
    <3>1. CASE s.state = "replaying"
      <4>1. ReadsOn(s, f, h) /\ ServesOn(s, File, commits, g, places)
        BY <2>4, <3>1
      <4> QED BY <2>2, <2>3, <4>1, ExpectsOn
    <3>2. CASE s.state # "replaying"
      BY <2>2, <3>2 DEF Expects
    <3> QED BY <3>1, <3>2
  <2> QED BY <2>1, <2>5
<1>11. StreamsFollow'
  BY <1>4, <1>5, <1>10 DEF StreamsFollow
<1>12. StreamsGoOn
  BY <1>4, StreamTyped DEF StreamsGoOn
<1>13. CopyServes'
  BY <1>4 DEF CopyServes
<1> QED BY <1>9, <1>11, <1>12, <1>13 DEF Streaming
-----------------------------------------------------------------------------
(* Streams along a behaviour. *)

LEMMA InitStreams ==
  ASSUME Init
  PROVE  Streaming
<1>1. /\ gens = [g \in Generations |-> NewFile] /\ path = {1} /\ job.kind = "idle"
      /\ streams = [t \in Streams |-> NoStream]
  BY DEF Init, NoJob
<1>2. 1 \in Generations
  BY FileAssumption DEF Generations
<1>3. gens[1].file = <<>> /\ Length(<<>>) = 0
  BY <1>1, <1>2 DEF NewFile, Length
<1>4. LogsStrict
  BY <1>1, <1>3 DEF LogsStrict, RefsStrict
<1>5. CopyServes
  BY <1>1 DEF CopyServes
<1>6. StreamsFollow
  <2>1. \A t \in Streams : streams[t].state = "idle"
    BY <1>1 DEF NoStream
  <2> QED BY <2>1, IdleExpects DEF StreamsFollow
<1> QED BY <1>4, <1>5, <1>6 DEF Streaming

LEMMA NextStreams ==
  ASSUME Garbling = FALSE, Sound, Durable, Streaming, Sound', [Next]_vars,
         ~AppendFails, ~SyncFails, ~DirectorySyncFails
  PROVE  Streaming' /\ StreamsGoOn
<1> DEFINE Good == Streaming' /\ StreamsGoOn
<1>1. QuietStep => Good
  BY QuietStreams
<1>2. Operation => Good
  <2>1. Open => Good
    BY OpenStreams
  <2>2. Close => Good
    BY <1>1 DEF QuietStep
  <2>3. (\E b \in Branches : Commit(b) \/ CreateBranch(b)) => Good
    BY CommitStreams, OperationStreams
  <2>4. (\E name \in Names : Retain(name) \/ RetainAgain(name) \/ ReleaseRetention(name)) => Good
    BY OperationStreams, QuietStreams
  <2>5. (\E r \in Readers : CallSnapshot(r) \/ CloseSnapshot(r)) => Good
    BY QuietStreams
  <2>6. (\E t \in Streams :
           \/ \E b \in Branches, after \in Sequences : CallChanges(t, b, after)
           \/ EndStream(t)) => Good
    BY CallChangesStreams, EndStreamStreams
  <2>7. CollectGarbage => Good
    BY QuietStreams
  <2> HIDE DEF Good
  <2> QED BY <2>1, <2>2, <2>3, <2>4, <2>5, <2>6, <2>7 DEF Operation
<1>3. Fault => Good
  <2>1. CollectionFails => Good
    BY <1>1 DEF QuietStep
  <2>2. Crash => Good
    BY CrashStreams
  <2> HIDE DEF Good
  <2> QED BY <2>1, <2>2 DEF Fault
<1>4. Progress => Good
  <2>1. SyncDone => Good
    BY SyncDoneStreams
  <2>2. StartCollection => Good
    BY StartCollectionStreams
  <2>3. InstallGeneration => Good
    BY InstallGenerationStreams
  <2>4. CollectionDone => Good
    BY <1>1 DEF QuietStep
  <2>5. CloseEnds => Good
    BY CloseEndsStreams
  <2>6. (\E r \in Readers : Snapshot(r)) => Good
    BY QuietStreams
  <2>7. (\E t \in Streams : Subscribe(t) \/ Replay(t) \/ Replayed(t) \/ Deliver(t)) => Good
    BY SubscribeStreams, ReplayStreams, ReplayedStreams, DeliverStreams
  <2> HIDE DEF Good
  <2> QED BY <2>1, <2>2, <2>3, <2>4, <2>5, <2>6, <2>7 DEF Progress
<1>5. UNCHANGED vars => Good
  BY <1>1 DEF QuietStep
<1> HIDE DEF Good
<1>6. Good
  BY <1>2, <1>3, <1>4, <1>5 DEF Next
<1> QED BY <1>6 DEF Good
\* A stream that changes() admitted yields one sequence of its branch after the other, none
\* twice and none left out, and is never told that the history is gone, whatever commits,
\* collections, crashes and recoveries come in between, as long as no sync and no append
\* fails (subscribe, readChanges, commitNow, collectGarbageNow).
THEOREM StreamsStayWhole ==
  ASSUME Garbling = FALSE
  PROVE  Spec /\ [](syncFaults = 0 /\ writeFaults = 0) => StreamsWhole
<1> DEFINE Calm == syncFaults = 0 /\ writeFaults = 0
<1>1. Init => StreamingInv
  BY InitStreams DEF StreamingInv
<1>2. ASSUME Safe, Safe', Kept, Kept', StreamingInv, Calm, Calm', [Next]_vars
      PROVE  Streaming' /\ StreamsGoOn
  <2>1. Sound /\ Sound' /\ Durable /\ Streaming
    BY <1>2 DEF Safe, FileInv, Kept, DurableInv, StreamingInv
  <2>2. ~SyncFails /\ ~DirectorySyncFails
    <3>1. \/ syncFaults' = syncFaults /\ ~SyncFails /\ ~DirectorySyncFails
          \/ (SyncFails \/ DirectorySyncFails) /\ syncFaults' = syncFaults + 1
      BY <1>2, SyncFaultsCounted
    <3> QED BY <1>2, <3>1
  <2>3. ~AppendFails
    <3>1. AppendFails => writeFaults' = writeFaults + 1
      BY DEF AppendFails
    <3> QED BY <1>2, <3>1
  <2> QED BY <1>2, <2>1, <2>2, <2>3, NextStreams
<1>3. /\ Safe /\ Safe' /\ Kept /\ Kept' /\ StreamingInv /\ Calm /\ Calm' /\ [Next]_vars
      => StreamingInv'
  BY <1>2 DEF StreamingInv
<1>4. /\ Safe /\ Safe' /\ Kept /\ Kept' /\ StreamingInv /\ Calm /\ Calm' /\ [Next]_vars
      => [\A t \in Streams :
            LET s == streams[t]
                yields == s'.at # s.at \/ Len(s'.queue) < Len(s.queue)
            IN s.state \in {"replaying", "live"} /\ s'.state # "idle" =>
                 s'.retainAfter = s.retainAfter + (IF yields THEN 1 ELSE 0)]_vars
  BY <1>2 DEF StreamsGoOn, GoesOn
<1>5. StreamingInv /\ Calm => StreamsNeverLost
  BY DEF StreamingInv, Streaming, StreamsFollow, Expects, StreamsNeverLost
<1> QED BY <1>1, <1>3, <1>4, <1>5, LogStaysExact, PTL
       DEF Spec, StreamsWhole, InOrderWithoutGaps
=============================================================================

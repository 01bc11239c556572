-------------------------- MODULE KeyValuePublication --------------------------
(***************************************************************************)
(* Several engines over one key-value store, each with a memory of its own *)
(* (KeyValueStorageDatabase.open and publish, with the operations and the  *)
(* collector's batches as far as they decide what is published).  The      *)
(* store applies a batch if the metadata is what the engine last knew, and *)
(* nothing tells an engine that another has published.  KeyValueStorage    *)
(* has one engine with its readers and streams.                            *)
(***************************************************************************)
EXTENDS Integers, FiniteSets, Functions, TLC

CONSTANTS
  Engines,         \* instances, in one process or in several
  Branches, Main,  \* branch names, and the one that always exists
  Names,           \* names given to retain()
  Policies,        \* retention.keepAtLeast an open may ask for, 0 for ever
  MaxCommits,      \* bound: commits drawn, the initial one included
  MaxRevision,     \* bound: publications that are begun
  MaxOpens,        \* bound: calls of open()
  MaxFaults        \* bound: batches whose outcome is uncertain

VARIABLES
  metadata, commits, pages, branchTable, retainTable,  \* the store
  engines,                                             \* what each instance holds
  made, opens, faults                                  \* ids drawn, opens and faults so far

storeVars == <<metadata, commits, pages, branchTable, retainTable>>
vars == <<storeVars, engines, made, opens, faults>>

-----------------------------------------------------------------------------
Branch(head, base, sequence) == [head |-> head, base |-> base, sequence |-> sequence]
NoBranch == Branch(0, 0, 0)
NoMetadata == [revision |-> -1, nextPageId |-> 1, keep |-> 0]

\* Nothing but what it changes is in a batch.
Nothing == [adds |-> <<>>, writes |-> <<>>, drops |-> {}, sweeps |-> {},
            branches |-> <<>>, retains |-> <<>>, keep |-> 0]

Unopened == [state |-> "down", metadata |-> NoMetadata,
             branches |-> [b \in Branches |-> NoBranch],
             retains |-> [n \in Names |-> 0],
             nextId |-> 1, batch |-> Nothing, opening |-> TRUE,
             collecting |-> FALSE, cutoff |-> 0, marked |-> {}]

Init ==
  /\ metadata = NoMetadata /\ commits = <<>> /\ pages = <<>>
  /\ branchTable = Unopened.branches /\ retainTable = Unopened.retains
  /\ engines = [e \in Engines |-> Unopened]
  /\ made = 0 /\ opens = 0 /\ faults = 0

-----------------------------------------------------------------------------
(* open(). *)

Knows(e, known) == [engines[e] EXCEPT !.metadata = known, !.nextId = known.nextPageId]

\* The metadata is read; where there is none, a first batch is prepared.
Begin(e) ==
  /\ engines[e].state = "down" /\ opens < MaxOpens
  /\ opens' = opens + 1
  /\ engines' = [engines EXCEPT ![e] =
       IF metadata = NoMetadata THEN [@ EXCEPT !.state = "initializing"]
       ELSE [Knows(e, metadata) EXCEPT !.state = "loading"]]
  /\ UNCHANGED <<storeVars, made, faults>>

\* The first batch: refused where another engine was first, and open() rejects.
Initialize(e) ==
  /\ engines[e].state = "initializing"
  /\ IF metadata # NoMetadata
     THEN /\ engines' = [engines EXCEPT ![e] = Unopened]
          /\ UNCHANGED <<storeVars, made>>
     ELSE \E keep \in Policies :
       /\ metadata' = [revision |-> 0, nextPageId |-> 1, keep |-> keep]
       /\ commits' = (made + 1) :> [branch |-> Main, parent |-> 0, sequence |-> 0, pages |-> <<>>]
       /\ branchTable' = [branchTable EXCEPT ![Main] = Branch(made + 1, made + 1, 0)]
       /\ made' = made + 1
       /\ engines' = [engines EXCEPT ![e] = [Knows(e, metadata') EXCEPT !.state = "loading"]]
       /\ UNCHANGED <<pages, retainTable>>
  /\ UNCHANGED <<opens, faults>>

\* The scan of the branches.
Load(e) ==
  /\ engines[e].state = "loading"
  /\ engines' = [engines EXCEPT ![e].state = "checking", ![e].branches = branchTable]
  /\ UNCHANGED <<storeVars, made, opens, faults>>

Exists(e, b) == engines[e].branches[b].head # 0

\* The heads are read and the retentions scanned. A retention that differs from
\* the stored one is published before the engine is given away.
Check(e) ==
  /\ engines[e].state = "checking"
  /\ IF \E b \in Branches : Exists(e, b) /\ engines[e].branches[b].head \notin DOMAIN commits
     THEN engines' = [engines EXCEPT ![e] = Unopened]
     ELSE \E keep \in Policies :
       /\ keep = engines[e].metadata.keep \/ engines[e].metadata.revision < MaxRevision
       /\ engines' = [engines EXCEPT
            ![e].retains = retainTable,
            ![e].opening = keep # engines[e].metadata.keep,
            ![e].state = IF keep = engines[e].metadata.keep THEN "open" ELSE "publishing",
            ![e].batch = [Nothing EXCEPT !.keep = keep]]
  /\ UNCHANGED <<storeVars, made, opens, faults>>

-----------------------------------------------------------------------------
(* Operations, up to the batch they hand to the store. *)

MyTurn(e) == engines[e].state = "open" /\ engines[e].metadata.revision < MaxRevision

Publish(e, batch) ==
  engines' = [engines EXCEPT ![e].state = "publishing",
                             ![e].batch = [batch EXCEPT !.keep = engines[e].metadata.keep]]

\* commit: the head's tree, one of its pages replaced at most, and a new page.
CommitTo(e, b) ==
  LET current == engines[e].branches[b]
      id == made + 1
      page == engines[e].nextId
      tree == commits[current.head].pages
  IN
  /\ MyTurn(e) /\ made < MaxCommits
  /\ Exists(e, b) /\ current.head \in DOMAIN commits
  /\ \E replaced \in SUBSET DOMAIN tree :
       /\ Cardinality(replaced) <= 1
       /\ engines' = [engines EXCEPT ![e].nextId = page + 1, ![e].state = "publishing",
            ![e].batch = [Nothing EXCEPT
              !.keep = engines[e].metadata.keep,
              !.writes = page :> id,
              !.adds = id :> [branch |-> b, parent |-> current.head,
                              sequence |-> current.sequence + 1,
                              pages |-> (page :> id) @@ Restrict(tree, DOMAIN tree \ replaced)],
              !.branches = b :> Branch(id, current.base, current.sequence + 1)]]
  /\ made' = id
  /\ UNCHANGED <<storeVars, opens, faults>>

CreateBranch(e, b, from) ==
  /\ MyTurn(e) /\ ~Exists(e, b) /\ from \in DOMAIN commits
  /\ Publish(e, [Nothing EXCEPT !.branches = b :> Branch(from, from, 0)])
  /\ UNCHANGED <<storeVars, made, opens, faults>>

\* retain() and releaseRetention() ask the store whether the name is taken.
Retain(e, n, id) ==
  /\ MyTurn(e) /\ id \in DOMAIN commits /\ retainTable[n] \in {0, id}
  /\ Publish(e, [Nothing EXCEPT !.retains = n :> id])
  /\ UNCHANGED <<storeVars, made, opens, faults>>

Release(e, n) ==
  /\ MyTurn(e) /\ retainTable[n] # 0
  /\ Publish(e, [Nothing EXCEPT !.retains = n :> 0])
  /\ UNCHANGED <<storeVars, made, opens, faults>>

-----------------------------------------------------------------------------
(* The collector: what it reads is the store's, what it protects the engine's. *)

Roots(e) ==
  LET own == engines[e] IN
  UNION {{own.branches[b].head, own.branches[b].base} : b \in Branches}
    \union {own.retains[n] : n \in Names}

PolicyKeeps(e, commit) ==
  LET own == engines[e] IN
  own.metadata.keep = 0 \/ commit.sequence > own.branches[commit.branch].sequence - own.metadata.keep

\* One slice: the scan is no longer than a batch. A commit of a branch that this
\* engine does not know is kept.
Prune(e) ==
  LET gone == {id \in DOMAIN commits \ Roots(e) :
                 Exists(e, commits[id].branch) /\ ~PolicyKeeps(e, commits[id])}
  IN
  /\ MyTurn(e) /\ gone # {}
  /\ Publish(e, [Nothing EXCEPT !.drops = gone])
  /\ UNCHANGED <<storeVars, made, opens, faults>>

\* The trees of the commits that are stored. Where they hold every page there is
\* nothing to sweep, and the collection ends.
Mark(e) ==
  LET marked == UNION {DOMAIN commits[id].pages : id \in DOMAIN commits} IN
  /\ engines[e].state = "open" /\ ~engines[e].collecting
  /\ \E p \in DOMAIN pages \ marked : p < engines[e].nextId
  /\ engines' = [engines EXCEPT ![e].collecting = TRUE, ![e].marked = marked,
                                ![e].cutoff = engines[e].nextId]
  /\ UNCHANGED <<storeVars, made, opens, faults>>

Sweep(e) ==
  LET own == engines[e]
      gone == {p \in DOMAIN pages : p < own.cutoff /\ p \notin own.marked}
  IN
  /\ own.collecting
  /\ IF gone = {}
     THEN engines' = [engines EXCEPT ![e].collecting = FALSE]
     ELSE /\ MyTurn(e)
          /\ engines' = [engines EXCEPT
               ![e].state = "publishing", ![e].collecting = FALSE,
               ![e].batch = [Nothing EXCEPT !.sweeps = gone, !.keep = own.metadata.keep]]
  /\ UNCHANGED <<storeVars, made, opens, faults>>

-----------------------------------------------------------------------------
(* publish(). *)

\* Mutant: a publication does not count.
Uncounted(e) ==
  [engines[e].metadata EXCEPT !.nextPageId = engines[e].nextId, !.keep = engines[e].batch.keep]

NextMetadata(e) ==
  [revision |-> engines[e].metadata.revision + 1, nextPageId |-> engines[e].nextId,
   keep |-> engines[e].batch.keep]

\* The store's condition: the metadata is what the engine last knew.
Accepts(e) == metadata = engines[e].metadata

\* The store applies the batch, all of it.
Apply(e) ==
  LET batch == engines[e].batch IN
  /\ metadata' = NextMetadata(e)
  /\ commits' = batch.adds @@ Restrict(commits, DOMAIN commits \ batch.drops)
  /\ pages' = batch.writes @@ Restrict(pages, DOMAIN pages \ batch.sweeps)
  /\ branchTable' = batch.branches @@ branchTable
  /\ retainTable' = batch.retains @@ retainTable

\* A publication that rejects: the engine must be reopened, or never opened.
Fail(e) ==
  engines' = [engines EXCEPT ![e] =
    IF @.opening THEN Unopened ELSE [@ EXCEPT !.state = "failed", !.batch = Nothing]]

\* The batch is applied, and the operation goes on in memory.
Accept(e) ==
  /\ engines[e].state = "publishing" /\ Accepts(e)
  /\ Apply(e)
  /\ engines' = [engines EXCEPT ![e] =
       [@ EXCEPT !.state = "open", !.opening = FALSE, !.metadata = NextMetadata(e),
                 !.branches = engines[e].batch.branches @@ @,
                 !.retains = engines[e].batch.retains @@ @,
                 !.batch = Nothing]]
  /\ UNCHANGED <<made, opens, faults>>

Refuse(e) ==
  /\ engines[e].state = "publishing" /\ ~Accepts(e)
  /\ Fail(e)
  /\ UNCHANGED <<storeVars, made, opens, faults>>

\* The backend fails, before the batch was durable or after.
Uncertain(e) ==
  /\ engines[e].state = "publishing" /\ faults < MaxFaults
  /\ faults' = faults + 1
  /\ \/ Accepts(e) /\ Apply(e)
     \/ UNCHANGED storeVars
  /\ Fail(e)
  /\ UNCHANGED <<made, opens>>

\* close(), or the end of the process.
Stop(e) ==
  /\ engines[e].state # "down"
  /\ engines' = [engines EXCEPT ![e] = Unopened]
  /\ UNCHANGED <<storeVars, made, opens, faults>>

Next ==
  \E e \in Engines :
    \/ Begin(e) \/ Initialize(e) \/ Load(e) \/ Check(e) \/ Stop(e)
    \/ \E b \in Branches : CommitTo(e, b) \/ \E id \in 1..made : CreateBranch(e, b, id)
    \/ \E n \in Names : Release(e, n) \/ \E id \in 1..made : Retain(e, n, id)
    \/ Prune(e) \/ Mark(e) \/ Sweep(e)
    \/ Accept(e) \/ Refuse(e) \/ Uncertain(e)

Spec == Init /\ [][Next]_vars

-----------------------------------------------------------------------------
\* An engine that may still publish has the branches and the retentions of the
\* store in memory: it never deletes what another engine came to need, or puts a
\* branch back where it was. Metadata is read before branches in open, and every
\* publication changes it (open, publish).
CurrentWriter ==
  \A e \in Engines :
    engines[e].state \in {"open", "publishing"} /\ engines[e].metadata = metadata
      => engines[e].branches = branchTable /\ engines[e].retains = retainTable

\* Whoever collects, what is named is stored: heads, bases and retained commits,
\* and for every commit its pages as they were when it was made, although engines
\* draw page ids without asking each other (publish, collectKeyValueGarbage).
StoredWhole ==
  /\ \A b \in Branches : {branchTable[b].head, branchTable[b].base} \subseteq {0} \union DOMAIN commits
  /\ \A n \in Names : retainTable[n] \in {0} \union DOMAIN commits
  /\ \A id \in DOMAIN commits :
       LET tree == commits[id].pages IN
       DOMAIN tree \subseteq DOMAIN pages /\ \A p \in DOMAIN tree : pages[p] = tree[p]

\* A head moves from one commit to a commit made on it, and never back.
HeadAdvances ==
  \A b \in Branches :
    branchTable[b].head # 0 /\ branchTable'[b] # branchTable[b] =>
      /\ commits'[branchTable'[b].head].parent = branchTable[b].head
      /\ branchTable'[b].sequence = branchTable[b].sequence + 1

\* No commit of one engine is overwritten by another (publish).
HistoryUnbroken == [][HeadAdvances]_vars
=============================================================================

------------------------------ MODULE LiveResults ------------------------------
(***************************************************************************)
(* The results of one live query over a changing database: the rows that   *)
(* SubscriptionRuntime keeps for each source (subscription.ts), those of   *)
(* "c" perhaps only for the keys that matches of "p" demand, the network   *)
(* of module Dataflow, and what the listener is given.  A commit is taken  *)
(* whole (module Runtime has the queueing), and demanded rows are loaded   *)
(* from the snapshot of that commit.                                       *)
(*                                                                         *)
(* Fetch is the executor (executor.ts) on the tables as committed.         *)
(***************************************************************************)
EXTENDS Dataflow, Functions

CONSTANTS
  Queries,     \* the live queries to look at
  Ids,         \* bound: primary keys of each table
  Values,      \* bound: values of column "k" in each table
  MaxChanges   \* bound: changed rows, over all commits

VARIABLES
  query,
  stored,     \* table -> primary key -> row, as committed
  rows,       \* source -> primary key -> row, as kept for the query
  demands,    \* key of "c" -> references
  net,
  shown,      \* the value the listener was given last
  phase,      \* "live", "failed" (the query has no value), "broken" (an assertion)
  changes

vars == <<query, stored, rows, demands, net, shown, phase, changes>>

Sources(q) ==
  <<"p">> \o (IF q.through THEN <<"a">> ELSE <<>>) \o (IF q.nested THEN <<"c">> ELSE <<>>)
OnDemand(q, source) == q.demand /\ source = "c"
ByKey(set) == SetToSortSeq(set, <)

-----------------------------------------------------------------------------
(* Fetch.  rank breaks ties between rows of a table. *)

FetchOrdered(node, table, ids, rank) ==
  LET records == [i \in ids |-> [row |-> table[i], ordinal |-> rank[i]]]
      ordered == Ordered(node, records, ids)
  IN IF node.limit = 0 THEN ordered ELSE SubSeq(ordered, 1, Min({node.limit, Len(ordered)}))

FetchValue(node, ids, Result(_)) ==
  CASE node.cardinality = "count" -> <<"count", Len(ids)>>
    [] node.cardinality = "exists" -> <<"exists", ids # <<>> >>
    [] OTHER -> OfCardinality(node.cardinality, [n \in DOMAIN ids |-> Result(ids[n])])

FetchNested(q, tables, k, rank) ==
  LET ids == {i \in DOMAIN tables.c : IF q.equal THEN tables.c[i] = k ELSE tables.c[i] # k}
      Result(i) == <<"row", tables.c[i]>>
  IN FetchValue(q.child, FetchOrdered(q.child, tables.c, ids, rank.c), Result)

Fetch(q, tables, rank) ==
  LET Authorized(k) == q.through => k \in DOMAIN tables.a /\ tables.a[k] # 0
      ids == {i \in DOMAIN tables.p : tables.p[i] # 0 /\ Authorized(tables.p[i])}
      Result(i) ==
        LET k == tables.p[i]
            nested == IF q.nested THEN FetchNested(q, tables, k, rank) ELSE <<"none">>
        IN IF ~q.nested THEN <<"row", k>>
           ELSE IF IsFailure(nested) THEN Failed ELSE <<"row", k, nested>>
  IN FetchValue(q.root, FetchOrdered(q.root, tables.p, ids, rank.p), Result)

\* Ties in the order in which the network met the rows, or by primary key.
Arrival ==
  [s \in {"p", "c"} |->
     [i \in Ids |-> IF i \in DOMAIN net[s].rows THEN net[s].rows[i].ordinal ELSE 99 + i]]
PrimaryKey == [s \in {"p", "c"} |-> [i \in Ids |-> i]]

-----------------------------------------------------------------------------
(* SubscriptionRuntime.  s: the rows, demands, net and whether it is broken. *)

State(r, d, n, ok) == [rows |-> r, demands |-> d, net |-> n, ok |-> ok]

IsRelevant(q, s, source, k) == OnDemand(q, source) => k \in DOMAIN s.demands

\* filterChanges and query.apply of one scope: a change is [source, id, after].
ApplyScope(q, s, source, commit) ==
  LET Take(t, c) ==
        LET after == {k \in c.after : IsRelevant(q, s, source, k)}
            kept == IF after = {} THEN Without(t.rows, c.id)
                    ELSE (c.id :> CHOOSE k \in after : TRUE) @@ t.rows
        IN IF after = {} /\ c.id \notin DOMAIN t.rows THEN t
           ELSE [rows |-> kept, fed |-> ApplyInput(t.fed, c.id, after)]
      taken == FoldLeft(Take, [rows |-> s.rows[source], fed |-> Nowhere(s.net[source])],
                        SelectSeq(commit, LAMBDA c : c.source = source))
  IN [s EXCEPT !.rows[source] = taken.rows, !.net = Fed(q, s.net, source, taken.fed)]

\* loadRows by a key of the index, mergeRows and query.seed.
Load(q, tables, s, k) ==
  LET ids == ByKey({i \in DOMAIN tables.c : tables.c[i] = k})
      fed == FoldLeft(LAMBDA f, i : SeedInput(f, i, k), Nowhere(s.net.c), ids)
  IN [s EXCEPT !.rows.c = [i \in ToSet(ids) |-> k] @@ @, !.net = Fed(q, s.net, "c", fed)]

\* Mutant: the rows go and the query is not told.
EvictUntold(q, s) ==
  [s EXCEPT !.rows.c = RestrictValues(@, LAMBDA k : IsRelevant(q, s, "c", k))]

\* evictIrrelevantRows.
Evict(q, s) ==
  LET gone == {i \in DOMAIN s.rows.c : ~IsRelevant(q, s, "c", s.rows.c[i])}
      fed == FoldLeft(RemoveInput, Nowhere(s.net.c), ByKey(gone))
  IN [s EXCEPT !.rows.c = [i \in DOMAIN @ \ gone |-> @[i]], !.net = Fed(q, s.net, "c", fed)]

\* The references after a batch of demands.
Counted(references, batch) ==
  FoldLeft(
    LAMBDA d, c :
      LET k == c.value.row
          n == c.diff + (IF k \in DOMAIN d THEN d[k] ELSE 0)
      IN IF n = 0 THEN Without(d, k) ELSE (k :> n) @@ d,
    references, batch)
NeverNegative(references, batch) ==
  \A n \in 1..Len(batch) :
    LET d == Counted(references, SubSeq(batch, 1, n)) IN \A k \in DOMAIN d : d[k] > 0

\* The references are counted, and the rows of new keys loaded.
Demanded(q, tables, s) ==
  LET references == Counted(s.demands, s.net.demands)
  IN FoldLeft(LAMBDA t, k : Load(q, tables, t, k),
              [s EXCEPT !.demands = references, !.net.demands = <<>>],
              ByKey(DOMAIN references \ DOMAIN s.demands))

\* OutputOperator.
Current(n) == Entry(n.output, RootGroup)

\* What becomes of the query once its state is settled.
Show(s, before) ==
  /\ rows' = s.rows /\ demands' = s.demands /\ net' = s.net
  /\ LET value == Current(s.net) IN
       IF ~s.ok THEN phase' = "broken" /\ shown' = shown
       ELSE IF value = before THEN UNCHANGED <<phase, shown>>
       ELSE IF \E v \in value : IsFailure(v) THEN phase' = "failed" /\ shown' = shown
       ELSE phase' = "live" /\ shown' = value

\* settleDemands: rows of the nested query demand nothing, so that one round settles.
SettleDemands(q, tables, s, before) ==
  IF ~OnDemand(q, "c") THEN Show([s EXCEPT !.net.demands = <<>>], before)
  ELSE IF ~NeverNegative(s.demands, s.net.demands) THEN Show([s EXCEPT !.ok = FALSE], before)
  ELSE \E loaded \in {Demanded(q, tables, s)} :
       \E settled \in {IF DOMAIN s.demands \subseteq DOMAIN loaded.demands THEN loaded
                       ELSE Evict(q, loaded)} :
         Show(settled, before)

-----------------------------------------------------------------------------
TablesOf(q) == [s \in {"p", "a", "c"} |->
                IF s \in ToSet(Sources(q)) THEN UNION {[I -> Values[s]] : I \in SUBSET Ids}
                ELSE {Nothing}]

\* bootstrap: what is not on demand is loaded first, in the order of its table.
Bootstrapped(q, tables) ==
  LET Initial(s) == IF OnDemand(q, s) THEN Nothing ELSE tables[s]
      NewInput(s) ==
        FoldLeft(LAMBDA input, i : Put(input, i, tables[s][i]), Input(Nothing, 0),
                 ByKey(DOMAIN Initial(s)))
      kept == [s \in {"p", "a", "c"} |-> Initial(s)]
      new == NewNet(NewInput("p"), NewInput("a"), NewInput("c"))
  IN State(kept, Nothing, BootstrapInputs(q, new, Sources(q)), TRUE)

Init ==
  \E q \in Queries :
    /\ query = q
    /\ stored \in {t \in [{"p", "a", "c"} -> UNION {TablesOf(q)[s] : s \in {"p", "a", "c"}}] :
                     \A s \in {"p", "a", "c"} : t[s] \in TablesOf(q)[s]}
    /\ rows = [s \in {"p", "a", "c"} |-> Nothing]
    /\ demands = Nothing
    /\ net = NewNet(Input(Nothing, 0), Input(Nothing, 0), Input(Nothing, 0))
    /\ shown = {} /\ phase = "new" /\ changes = 0

BootstrapQuery ==
  /\ phase = "new"
  /\ \E s \in {Bootstrapped(query, stored)} :
     \E rooted \in {[s EXCEPT !.net = BootstrapRoot(query, @)]} :
       SettleDemands(query, stored, rooted, {})
  /\ UNCHANGED <<query, stored, changes>>

Apply(tables, commit) ==
  FoldLeft(LAMBDA t, c : [t EXCEPT ![c.source] =
                            IF c.after = {} THEN Without(@, c.id)
                            ELSE (c.id :> CHOOSE k \in c.after : TRUE) @@ @],
           tables, commit)

\* apply of a commit batch.
TakeCommit(commit) ==
  /\ phase = "live" /\ changes + Len(commit) <= MaxChanges
  /\ changes' = changes + Len(commit)
  /\ stored' = Apply(stored, commit)
  /\ \E applied \in {FoldLeft(LAMBDA t, source : ApplyScope(query, t, source, commit),
                              State(rows, demands, net, TRUE), Sources(query))} :
       SettleDemands(query, stored', applied, Current(net))
  /\ UNCHANGED query

\* A change of one row that makes a difference, and commits of one or two.
Changes(tables) ==
  UNION {{c \in [source : {s}, id : Ids, after : {{}} \union {{k} : k \in Values[s]}] :
            c.after # Entry(tables[s], c.id)} : s \in ToSet(Sources(query))}

Commits(tables) ==
  UNION {{<<c>>} \union {<<c, d>> : d \in Changes(Apply(tables, <<c>>))} : c \in Changes(tables)}

Next ==
  \/ BootstrapQuery
  \/ \E commit \in Commits(stored) : TakeCommit(commit)

Spec == Init /\ [][Next]_vars

-----------------------------------------------------------------------------
\* The listener has what fetch() would return after the last commit, with rows that
\* the query does not order in the order of their arrival (dataflow.ts, executor.ts).
LiveIsFetch == phase = "live" => shown = {Fetch(query, stored, Arrival)}

\* A live query ends exactly when fetch() would throw, and never by an assertion of
\* its own: reference counts never go below zero (OutputOperator.read, settleDemands).
FailsAsFetch ==
  /\ phase = "failed" => IsFailure(Fetch(query, stored, Arrival))
  /\ phase # "broken"

\* The rows kept are those the query needs: all of a source, or those whose key some
\* visible match of the root has, counted once per match (settleDemands, isRelevant).
DemandsCounted ==
  phase = "live" /\ OnDemand(query, "c") =>
    LET visible == Selected(query.root, net.rootTop, RootGroup)
        Matches(k) == {i \in DOMAIN visible : visible[i].row = k}
    IN /\ demands = [k \in {visible[i].row : i \in DOMAIN visible} |-> Cardinality(Matches(k))]
       /\ rows.c = [i \in {j \in DOMAIN stored.c : stored.c[j] \in DOMAIN demands} |-> stored.c[i]]

\* What the operators keep stays that of the rows: nothing of a row that is gone is
\* left behind in a network that lives as long as its query (ArrangeOperator).
NothingLeftBehind ==
  phase = "live" =>
    /\ \A s \in ToSet(Sources(query)) :
         rows[s] = [i \in DOMAIN net[s].rows |-> net[s].rows[i].row]
    /\ \A side \in {net.left, net.right, net.children, net.allowed} :
         {b[2] : b \in side.buckets} = DOMAIN side.records
    /\ DOMAIN net.right.records \subseteq DOMAIN rows.c
    /\ DOMAIN net.left.records = net.nestedGroups
    /\ \A i \in DOMAIN net.childTop : i[1] \in net.nestedGroups /\ i[2] \in DOMAIN rows.c

\* The listener has what fetch() would return or throw.
LiveAnswers == LiveIsFetch /\ FailsAsFetch

\* Between commits the query keeps the rows it needs and no trace of others.
KeptAsNeeded == DemandsCounted /\ NothingLeftBehind

\* docs/research/hydb-spillable-sort-and-join.md:94 says that "The physical sort key
\* must append a stable row identity after the SQL/query order keys".
TiesByIdentity == phase = "live" => shown = {Fetch(query, stored, PrimaryKey)}
=============================================================================

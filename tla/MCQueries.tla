------------------------------- MODULE MCQueries -------------------------------
(* How a query comes to its answer, each step by itself: the results of a   *)
(* live query, the plan of one node, and the policies that guard a gateway. *)
(* They share no state here, so a behaviour is about one: part says which.  *)
EXTENDS LiveResults

VARIABLES
  part,
  node, indexes, table, plan, result,              \* Planner
  catalog, database, gateway, asked, answer        \* ReadPolicies

planVars == <<node, indexes, table, plan, result>>
policyVars == <<catalog, database, gateway, asked, answer>>

-----------------------------------------------------------------------------
(* Live queries: nested ones, on demand or not, and ones read through a policy. *)

Shape(cardinality, order, limit) ==
  [cardinality |-> cardinality, order |-> order, limit |-> limit]
Many == Shape("many", "none", 0)
Plain(root) ==
  [root |-> root, child |-> Many, nested |-> FALSE, through |-> FALSE, equal |-> TRUE,
   demand |-> FALSE]
Nested(root, child, equal, demand) ==
  [Plain(root) EXCEPT !.child = child, !.nested = TRUE, !.equal = equal, !.demand = demand]

MCValues == [s \in {"p", "a", "c"} |-> IF s = "p" THEN 0..2 ELSE IF s = "a" THEN 0..1 ELSE 1..2]

MCQueries ==
  {Nested(Shape("many", "desc", 1), Many, TRUE, TRUE),
   Nested(Many, Shape("count", "none", 0), TRUE, TRUE),
   Nested(Shape("one", "none", 0), Shape("one", "asc", 1), FALSE, FALSE),
   [Plain(Shape("many", "asc", 1)) EXCEPT !.through = TRUE],
   [Plain(Shape("count", "none", 0)) EXCEPT !.through = TRUE],
   [Plain(Shape("require", "none", 0)) EXCEPT !.through = TRUE]}

-----------------------------------------------------------------------------
(* Plans. *)

Is(column, v) == [column |-> column, op |-> "eq", value |-> v, outer |-> FALSE]
IsOuter(column) == [column |-> column, op |-> "eq", value |-> 0, outer |-> TRUE]
Above(column, v) == [column |-> column, op |-> "gt", value |-> v, outer |-> FALSE]
By(column, direction) == [column |-> column, direction |-> direction]

MCConditions == {Is("a", 0), Is("a", 1), IsOuter("b"), Above("b", 0), Is("id", 2)}
MCFilters ==
  {<<>>} \union {<< <<c>> >> : c \in MCConditions}
  \union {<< <<c, d>> >> : c, d \in MCConditions}
MCOrders ==
  {<<>>, <<By("a", "asc")>>, <<By("b", "desc")>>, <<By("a", "asc"), By("b", "asc")>>,
   <<By("a", "desc"), By("b", "asc")>>, <<By("b", "desc"), By("a", "desc")>>, <<By("id", "desc")>>}

On(columns, unique) == [columns |-> columns, unique |-> unique]
MCIndexes ==
  {<<>>, <<On(<<"a">>, FALSE)>>, <<On(<<"a">>, FALSE), On(<<"a", "b">>, FALSE)>>,
   <<On(<<"b", "a">>, TRUE), On(<<"b">>, FALSE)>>}

Record(id, a, b) == [id |-> id, a |-> a, b |-> b]
MCContents ==
  {{Record(1, 0, 1), Record(2, 1, 0), Record(3, 1, 1)},
   {Record(1, 1, 1), Record(2, 1, 1), Record(3, 0, 1)},
   {Record(1, 1, 1), Record(2, 0, 0), Record(3, 0, 1)}, {Record(1, 0, 0), Record(2, 1, 1)}, {}}

Plans == INSTANCE Planner WITH
  Nodes <- [filters : MCFilters, order : MCOrders, limit : {1, 99},
            cardinality : {"many", "one", "exists"}, through : BOOLEAN],
  Indexes <- MCIndexes, Tables <- MCContents, Outer <- 1

-----------------------------------------------------------------------------
(* Policies: every catalog of three tables, queries of up to three sources. *)

MCTables == {"orgs", "projects", "tasks"}
Alone == {[kind |-> k, parent |-> "none"] : k \in {"allow", "deny", "where", "none"}}
Through == {[kind |-> "through", parent |-> t] : t \in MCTables}

Row(id, up, mine) == [id |-> id, up |-> up, mine |-> mine]
Rows(a, b, c, d) == {Row(1, a, c), Row(2, b, d)}
MCDatabases ==
  {("orgs" :> Rows(1, 2, TRUE, FALSE)) @@ ("projects" :> Rows(1, 2, a, TRUE))
     @@ ("tasks" :> Rows(u, 2, TRUE, FALSE)) : a \in BOOLEAN, u \in {1, 2}}

Column(source, column) == [source |-> source, column |-> column]
Compare(op, l, r) == [op |-> op, left |-> l, right |-> r]
Node(source, name, filters, cardinality, nested) ==
  [source |-> source, table |-> name, filters |-> filters, cardinality |-> cardinality,
   nested |-> nested, authorization |-> <<>>]

\* What relates an inner source to an outer one, or seems to.
Relations(inner, outer) ==
  {{}, {Compare("eq", Column(inner, "up"), Column(outer, "id"))},
   {Compare("eq", Column(outer, "id"), Column(inner, "up"))},
   {Compare("ne", Column(inner, "up"), Column(outer, "id"))},
   {Compare("either", Column(inner, "up"), Column(outer, "id"))},
   {Compare("eq", Column(inner, "id"), Column(outer, "id"))},
   {Compare("eq", Column(inner, "up"), Column(outer, "up"))}}

Inner(cardinality) ==
  {Node("s2", t, f, cardinality, <<>>) : t \in MCTables, f \in Relations("s2", "s1")}
Middle ==
  {Node("s2", "projects", f, "many", <<Node("s3", "tasks", g, "many", <<>>)>>) :
     f \in Relations("s2", "s1"),
     g \in {{Compare("eq", Column("s3", "up"), Column(s, "id"))} : s \in {"s1", "s2"}}}
Guarded == INSTANCE ReadPolicies WITH
  Tables <- MCTables, Catalogs <- [MCTables -> Alone \union Through],
  Databases <- MCDatabases, query <- asked,
  Queries <-
    {Node("s1", t, {}, c, <<>>) : t \in MCTables, c \in {"many", "count", "exists"}}
    \union {Node("s1", t, {}, "many", <<n>>) :
              t \in MCTables,
              n \in Inner("many") \union Inner("count") \union Inner("exists") \union Middle}

-----------------------------------------------------------------------------
NoQuery ==
  /\ query = <<>> /\ stored = <<>> /\ rows = <<>> /\ demands = <<>> /\ net = <<>>
  /\ shown = {} /\ phase = "none" /\ changes = 0
NoPlan == node = <<>> /\ indexes = <<>> /\ table = {} /\ plan = <<>> /\ result = <<>>
NoGateway ==
  catalog = <<>> /\ database = <<>> /\ gateway = "none" /\ asked = <<>> /\ answer = <<>>

MCInit ==
  /\ part \in {"live", "plan", "policies"}
  /\ IF part = "live" THEN Init ELSE NoQuery
  /\ IF part = "plan" THEN Plans!Init ELSE NoPlan
  /\ IF part = "policies" THEN Guarded!Init ELSE NoGateway

MCNext ==
  \/ part = "live" /\ Next /\ UNCHANGED <<part, planVars, policyVars>>
  \/ part = "plan" /\ Plans!Next /\ UNCHANGED <<part, vars, policyVars>>
  \/ part = "policies" /\ Guarded!Next /\ UNCHANGED <<part, vars, planVars>>

MCSpec == MCInit /\ [][MCNext]_<<part, vars, planVars, policyVars>>

-----------------------------------------------------------------------------
(* The properties of each; those of live results keep their names.          *)

\* A plan answers what the node asks for, with every condition of the node in the access
\* or in the filter (Planner).
PlanAnswers == part = "plan" => Plans!PlanAnswers /\ Plans!ConditionsKept

\* An answer holds no row the caller may not read, and a gateway is made exactly when its
\* policies decide on every table (ReadPolicies).
OnlyReadable == part = "policies" => Guarded!OnlyReadable /\ Guarded!MadeIffDecided
=============================================================================

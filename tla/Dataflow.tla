-------------------------------- MODULE Dataflow --------------------------------
(***************************************************************************)
(* The operators of a live query (dataflow.ts) and the network they form   *)
(* for a query over table "p" with one nested query over table "c", where  *)
(* rows of "p" may have to be read through a parent in table "a".          *)
(*                                                                         *)
(* A batch is a sequence of changes, +1 or -1, of values under ids.  Each  *)
(* operator takes its state and a batch, and gives its new state and the   *)
(* batch it emits; nothing else of the query runs in between.  Ids are     *)
(* numbers, or pairs where rows are joined, and a row is the value of its  *)
(* one column "k" beside the key.  A value the query yields is a tuple     *)
(* that begins with its kind.  Optional values are sets of at most one.    *)
(***************************************************************************)
EXTENDS Integers, Sequences, SequencesExt, FiniteSets, FiniteSetsExt, TLC

RootGroup == 0

Change(id, value, diff) == [id |-> id, value |-> value, diff |-> diff]
Entry(map, id) == IF id \in DOMAIN map THEN {map[id]} ELSE {}
Nothing == [id \in {} |-> 0]
Without(map, id) == [i \in DOMAIN map \ {id} |-> map[i]]
Gather(F(_), set) == FoldSet(LAMBDA x, out : out \o F(x), <<>>, set)
GatherBatch(F(_), batch) == FoldLeft(LAMBDA out, c : out \o F(c), <<>>, batch)

ApplyChanges(state, batch) ==
  FoldLeft(LAMBDA s, c : IF c.diff = -1 THEN Without(s, c.id) ELSE (c.id :> c.value) @@ s,
           state, batch)

ChangeOf(id, entry, diff) ==
  IF entry = {} THEN <<>> ELSE <<Change(id, CHOOSE v \in entry : TRUE, diff)>>

Replacement(id, before, after) ==
  IF before = after THEN <<>>
  ELSE ChangeOf(id, before, -1) \o ChangeOf(id, after, 1)

\* What the consumers of a map are told when before becomes after.
Replacements(before, after) ==
  Gather(LAMBDA id : Replacement(id, Entry(before, id), Entry(after, id)),
         DOMAIN before \union DOMAIN after)

Groups(batch) == {batch[i].value.group : i \in DOMAIN batch}

-----------------------------------------------------------------------------
(* InputOperator: the rows of a source, with the ordinals they came in. *)

Input(rows, next) == [rows |-> rows, next |-> next]

Put(input, id, row) ==
  LET known == id \in DOMAIN input.rows
      record == [row |-> row, ordinal |-> IF known THEN input.rows[id].ordinal ELSE input.next]
  IN Input((id :> record) @@ input.rows, IF known THEN input.next ELSE input.next + 1)

BootstrapInput(input) == Gather(LAMBDA id : <<Change(id, input.rows[id], 1)>>, DOMAIN input.rows)

Nowhere(input) == [input |-> input, out |-> <<>>]

\* seed, of one row after others: a batch tells only of rows that are new or differ.
SeedInput(fed, id, row) ==
  LET after == Put(fed.input, id, row)
  IN [input |-> after,
      out |-> fed.out \o Replacement(id, Entry(fed.input.rows, id), {after.rows[id]})]

\* remove.
RemoveInput(fed, id) ==
  [input |-> Input(Without(fed.input.rows, id), fed.input.next),
   out |-> fed.out \o Replacement(id, Entry(fed.input.rows, id), {})]

\* apply: the batch takes the old row away and brings the new one, if there is one.
ApplyInput(fed, id, after) ==
  LET removed == RemoveInput(fed, id) IN
  IF after = {} THEN removed
  ELSE LET put == Put(fed.input, id, CHOOSE r \in after : TRUE)
       IN [input |-> put, out |-> removed.out \o <<Change(id, put.rows[id], 1)>>]

-----------------------------------------------------------------------------
(* ArrangeOperator and JoinOperator. *)

NoRecords == [records |-> Nothing, buckets |-> {}]

Arrange(state, batch, Key(_)) ==
  FoldLeft(
    LAMBDA s, c :
      LET bucket == <<Key(c.value), c.id>> IN
      IF c.diff < 0
      THEN [records |-> Without(s.records, c.id), buckets |-> s.buckets \ {bucket}]
      ELSE [records |-> (c.id :> c.value) @@ s.records, buckets |-> s.buckets \union {bucket}],
    state, batch)

Lookup(state, key) == {b[2] : b \in {x \in state.buckets : x[1] = key}}

\* One side's batch against the records of the other.
Join(batch, other, Key(_), Joined(_, _, _)) ==
  GatherBatch(
    LAMBDA c : Gather(LAMBDA id : <<Joined(c, id, other.records[id])>>, Lookup(other, Key(c.value))),
    batch)

Filter(batch, Accepts(_)) == SelectSeq(batch, LAMBDA c : Accepts(c.value))

-----------------------------------------------------------------------------
(* OrderTopKOperator.  A node has a cardinality, an order and a limit (0: none). *)

CompareMatches(node, records, i, j) ==
  LET a == records[i]
      b == records[j]
  IN IF node.order = "none" \/ a.row = b.row THEN a.ordinal < b.ordinal
     ELSE IF node.order = "asc" THEN a.row < b.row ELSE b.row < a.row

\* Ids in the order of a node.
Ordered(node, records, ids) ==
  [n \in 1..Cardinality(ids) |->
     CHOOSE i \in ids : Cardinality({j \in ids : CompareMatches(node, records, j, i)}) = n - 1]

Members(records, group) == {i \in DOMAIN records : records[i].group = group}

Selected(node, records, group) ==
  LET ordered == Ordered(node, records, Members(records, group))
      k == IF node.limit = 0 THEN Len(ordered) ELSE Min({node.limit, Len(ordered)})
  IN [i \in {ordered[n] : n \in 1..k} |-> records[i]]

OrderTopK(node, records, batch) ==
  LET after == ApplyChanges(records, batch)
      Of(g) == Replacements(Selected(node, records, g), Selected(node, after, g))
  IN [records |-> after, out |-> Gather(Of, Groups(batch))]

-----------------------------------------------------------------------------
(* ReduceOperator, CardinalityOperator and NestOperator. *)

Failed == <<"failure">>
IsFailure(value) == value[1] = "failure"

Materialized(counts, groups, kind) ==
  [g \in groups |->
     LET n == IF g \in DOMAIN counts THEN counts[g] ELSE 0
     IN IF kind = "count" THEN <<"count", n>> ELSE <<"exists", n > 0>>]

CountInput(counts, batch) ==
  FoldLeft(
    LAMBDA s, c :
      LET g == c.value.group
          n == c.diff + (IF g \in DOMAIN s THEN s[g] ELSE 0)
      IN IF n = 0 THEN Without(s, g) ELSE (g :> n) @@ s,
    counts, batch)

\* The value of a group from those of its rows, in order.
OfCardinality(cardinality, values) ==
  IF \E i \in DOMAIN values : IsFailure(values[i]) THEN Failed
  ELSE CASE cardinality = "many" -> <<"rows", values>>
         [] cardinality = "one" ->
              IF Len(values) > 1 THEN Failed
              ELSE IF values = <<>> THEN <<"null">> ELSE Head(values)
         [] cardinality = "require" -> IF Len(values) = 1 THEN Head(values) ELSE Failed

\* items: projected records, each with its match.
Collected(items, groups, node) ==
  [g \in groups |->
     LET matches == [i \in Members(items, g) |-> items[i].match]
         ordered == Ordered(node, matches, DOMAIN matches)
     IN OfCardinality(node.cardinality, [n \in DOMAIN ordered |-> items[ordered[n]].value])]

\* A record on the left with the value nested into it, where both are there.
Combined(left, right) ==
  [id \in DOMAIN left \intersect DOMAIN right |->
     [left[id] EXCEPT !.value =
        IF IsFailure(@) THEN @ ELSE IF IsFailure(right[id]) THEN Failed ELSE @ \o <<right[id]>>]]

-----------------------------------------------------------------------------
(* The network.  query: root and child (nodes), nested, through (whether   *)
(* "p" is read through "a"), equal (correlated by "k", or else by # ).     *)
(* net: the state of every operator, the demands of the child source and   *)
(* the value of the root group.                                            *)

IsReduced(node) == node.cardinality \in {"count", "exists"}

NewNet(p, a, c) ==
  [p |-> p, a |-> a, c |-> c,
   children |-> NoRecords, allowed |-> NoRecords, parents |-> Nothing, rootTop |-> Nothing,
   left |-> NoRecords, right |-> NoRecords, childTop |-> Nothing,
   counts |-> Nothing, nestedItems |-> Nothing, nestedGroups |-> {},
   nestLeft |-> Nothing, nestRight |-> Nothing,
   items |-> Nothing, rootCounts |-> Nothing, rootGroups |-> {},
   demands |-> <<>>, output |-> Nothing]

\* Stream.emit: nobody is told of an empty batch.
Told(net, batch, then) == IF batch = <<>> THEN net ELSE then

ToOutput(net, batch) == [net EXCEPT !.output = ApplyChanges(@, batch)]

\* The root reducer.
RootValues(query, net) ==
  IF IsReduced(query.root) THEN Materialized(net.rootCounts, net.rootGroups, query.root.cardinality)
  ELSE Collected(net.items, net.rootGroups, query.root)

Emitted(query, before, after) ==
  ToOutput(after, Replacements(RootValues(query, before), RootValues(query, after)))

ToItems(query, net, batch) ==
  Told(net, batch, Emitted(query, net, [net EXCEPT !.items = ApplyChanges(@, batch)]))

ToNest(query, net, nested) ==
  ToItems(query, nested,
          Replacements(Combined(net.nestLeft, net.nestRight),
                       Combined(nested.nestLeft, nested.nestRight)))

ToNestRight(query, net, batch) ==
  Told(net, batch, ToNest(query, net, [net EXCEPT !.nestRight = ApplyChanges(@, batch)]))

\* The nested reducer.
NestedValues(query, net) ==
  IF IsReduced(query.child) THEN Materialized(net.counts, net.nestedGroups, query.child.cardinality)
  ELSE Collected(net.nestedItems, net.nestedGroups, query.child)

ToNested(query, net, reduced) ==
  ToNestRight(query, reduced,
              Replacements(NestedValues(query, net), NestedValues(query, reduced)))

Project(batch) ==
  [i \in DOMAIN batch |->
     LET m == batch[i].value
     IN [batch[i] EXCEPT !.value = [group |-> m.group, match |-> m, value |-> <<"row", m.row>>]]]

\* Visible matches of the nested query.
ToReducer(query, net, batch) ==
  Told(net, batch,
       ToNested(query, net, IF IsReduced(query.child) THEN [net EXCEPT !.counts = CountInput(@, batch)]
                            ELSE [net EXCEPT !.nestedItems = ApplyChanges(@, Project(batch))]))

\* Matches of the nested query, from its join.
ToChildMatches(query, net, batch) ==
  LET Accepts(m) == IF query.equal THEN m.row = m.context[1] ELSE m.row # m.context[1]
      top == OrderTopK(query.child, net.childTop, Filter(batch, Accepts))
  IN Told(net, batch, ToReducer(query, [net EXCEPT !.childTop = top.records], top.out))

JoinedMatch(parentId, parent, childId, child, diff) ==
  Change(<<parentId, childId>>,
         [group |-> parentId, context |-> Append(parent.context, child.row),
          row |-> child.row, ordinal |-> child.ordinal],
         diff)

CorrelationKey(query, row) == IF query.equal THEN row ELSE RootGroup

\* Mutant: a row that leaves does not take its pairs along.
ToLeftAdding(query, net, batch) ==
  LET Key(m) == CorrelationKey(query, m.row)
      Pair(c, id, child) == JoinedMatch(c.id, c.value, id, child, 1)
  IN ToChildMatches(query, [net EXCEPT !.left = Arrange(@, batch, Key)],
                    Join(batch, net.right, Key, Pair))

ToLeft(query, net, batch) ==
  LET Key(m) == CorrelationKey(query, m.row)
      Pair(c, id, child) == JoinedMatch(c.id, c.value, id, child, c.diff)
  IN ToChildMatches(query, [net EXCEPT !.left = Arrange(@, batch, Key)],
                    Join(batch, net.right, Key, Pair))

ToRight(query, net, batch) ==
  LET Key(m) == CorrelationKey(query, m.row)
      Pair(c, id, parent) == JoinedMatch(id, parent, c.id, c.value, c.diff)
  IN ToChildMatches(query, [net EXCEPT !.right = Arrange(@, batch, Key)],
                    Join(batch, net.left, Key, Pair))

ToNestedGroups(query, net, batch) ==
  LET grouped == DOMAIN ApplyChanges([g \in net.nestedGroups |-> RootGroup], batch)
  IN ToNested(query, net, [net EXCEPT !.nestedGroups = grouped])

\* Matches of the root, in the order their consumers subscribed.
ToRootMatches(query, net, batch) ==
  IF batch = <<>> THEN net
  ELSE IF IsReduced(query.root)
  THEN Emitted(query, net, [net EXCEPT !.rootCounts = CountInput(@, batch)])
  ELSE IF ~query.nested THEN ToItems(query, net, Project(batch))
  ELSE LET nested == ToNest(query, net, [net EXCEPT !.nestLeft = ApplyChanges(@, Project(batch))])
           demanded == [nested EXCEPT !.demands = @ \o batch]
       IN ToNestedGroups(query, ToLeft(query, demanded, batch), batch)

ToRoot(query, net, batch) ==
  LET Accepts(m) == m.row # 0
      top == OrderTopK(query.root, net.rootTop, Filter(batch, Accepts))
  IN Told(net, batch, ToRootMatches(query, [net EXCEPT !.rootTop = top.records], top.out))

RootMatches(batch) ==
  [i \in DOMAIN batch |->
     LET r == batch[i].value
     IN [batch[i] EXCEPT !.value = [group |-> RootGroup, context |-> <<r.row>>,
                                    row |-> r.row, ordinal |-> r.ordinal]]]

RowOf(m) == m.row

\* A batch of source "p": "through" joins its rows with the parents allowed.
ToP(query, net, batch) ==
  LET matches == RootMatches(batch)
      Allowed(c, id, parent) == c
  IN ToRoot(query,
            IF query.through THEN [net EXCEPT !.children = Arrange(@, matches, RowOf)] ELSE net,
            IF query.through THEN Join(matches, net.allowed, RowOf, Allowed) ELSE matches)

\* A batch of source "a": its own policy lets the rows with "k" # 0 through.
PlainNode == [cardinality |-> "many", order |-> "none", limit |-> 0]
ParentKey(m) == m.id

ToA(query, net, batch) ==
  LET Identified(b) == [i \in DOMAIN b |-> [b[i] EXCEPT !.value = [id |-> b[i].id] @@ @]]
      Accepts(m) == m.row # 0
      top == OrderTopK(PlainNode, net.parents, Filter(Identified(RootMatches(batch)), Accepts))
      Allowed(c, id, child) == Change(id, child, c.diff)
  IN ToRoot(query,
            [net EXCEPT !.parents = top.records, !.allowed = Arrange(@, top.out, ParentKey)],
            Join(top.out, net.children, ParentKey, Allowed))

ToSource(query, net, source, batch) ==
  CASE source = "p" -> ToP(query, net, batch)
    [] source = "a" -> ToA(query, net, batch)
    [] source = "c" -> ToRight(query, net, batch)

\* QueryCompiler.bootstrap: the inputs, then the root group.
BootstrapInputs(query, net, sources) ==
  FoldLeft(LAMBDA n, s : ToSource(query, n, s, BootstrapInput(n[s])), net, sources)
BootstrapRoot(query, net) == Emitted(query, net, [net EXCEPT !.rootGroups = {RootGroup}])

\* apply, seed or remove of a source, given what becomes of its input.
Fed(query, net, source, fed) ==
  LET after == [net EXCEPT ![source] = fed.input]
  IN Told(after, fed.out, ToSource(query, after, source, fed.out))
=============================================================================

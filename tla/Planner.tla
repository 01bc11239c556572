-------------------------------- MODULE Planner --------------------------------
(***************************************************************************)
(* The physical plan of one node of a query (planner.ts) and its execution *)
(* over a table (executor.ts), against the direct evaluation of the node   *)
(* (query.ts).  The table has a primary key "id" and columns "a" and "b".  *)
(* A filter is a conjunction of conditions; a condition compares a column  *)
(* with a literal or with a field of the outer row, on either side of it.  *)
(***************************************************************************)
EXTENDS Integers, Sequences, SequencesExt, FiniteSets, FiniteSetsExt

CONSTANTS
  Nodes,    \* the nodes to plan
  Indexes,  \* lists of indexes the table may have
  Tables,   \* contents of the table: sets of rows
  Outer     \* the value of the outer field

VARIABLES node, indexes, table, plan, result

vars == <<node, indexes, table, plan, result>>

PrimaryColumns == <<"id">>
Unlimited == 99

\* evaluateExpressionNode, of a condition.
Value(condition) == IF condition.outer THEN Outer ELSE condition.value
Satisfies(row, condition) ==
  IF condition.op = "eq" THEN row[condition.column] = Value(condition)
  ELSE row[condition.column] > Value(condition)

\* The parents allowed, for a node that is read through them.
Authorized(row) == row.a # 0

-----------------------------------------------------------------------------
(* Direct evaluation. *)

\* Rows by the items of an order, then by the primary key.
Before(order, x, y) ==
  LET differ == {i \in DOMAIN order : x[order[i].column] # y[order[i].column]}
      first == order[Min(differ)]
  IN IF differ = {} THEN x.id < y.id
     ELSE IF first.direction = "asc" THEN x[first.column] < y[first.column]
     ELSE x[first.column] > y[first.column]

Sorted(rows, order) == SetToSortSeq(rows, LAMBDA x, y : Before(order, x, y))
Limited(rows, limit) == SubSeq(rows, 1, Min({limit, Len(rows)}))

Materialize(cardinality, rows) ==
  CASE cardinality = "many" -> <<"many", rows>>
    [] cardinality = "exists" -> <<"exists", rows # <<>> >>
    [] cardinality = "count" -> <<"count", Len(rows)>>
    [] cardinality = "one" -> IF Len(rows) > 1 THEN <<"throws">> ELSE <<"many", rows>>

Matching(n, rows) ==
  {r \in rows : /\ n.through => Authorized(r)
                /\ \A f \in ToSet(n.filters) : \A c \in ToSet(f) : Satisfies(r, c)}

-----------------------------------------------------------------------------
(* planNode. *)

Conditions(n) == FlattenSeq(n.filters)

\* equalityByColumn: the first of each column, by its place.
Equalities(conditions) ==
  {i \in DOMAIN conditions :
     conditions[i].op = "eq"
     /\ \A j \in 1..(i - 1) :
          ~(conditions[j].op = "eq" /\ conditions[j].column = conditions[i].column)}
Compared(conditions) == {conditions[i].column : i \in Equalities(conditions)}
EqualityOf(conditions, column) ==
  CHOOSE i \in Equalities(conditions) : conditions[i].column = column

\* The conditions that the key of the columns does not answer for.
Residual(conditions, columns) ==
  LET used == {EqualityOf(conditions, c) : c \in ToSet(columns)}
  IN FlattenSeq([i \in DOMAIN conditions |-> IF i \in used THEN <<>> ELSE <<conditions[i]>>])

Covers(order, columns) ==
  /\ \A i, j \in DOMAIN order : order[i].direction = order[j].direction
  /\ \A i \in DOMAIN order : i <= Len(columns) /\ order[i].column = columns[i]

Backwards(order) == order # <<>> /\ order[1].direction = "desc"

\* indexCandidate.
Candidate(index, conditions, order) ==
  LET columns == index.columns
      Prefix(n) == \A i \in 1..n : columns[i] \in Compared(conditions)
      prefix == Max({n \in 0..Len(columns) : Prefix(n)})
      remaining == SelectSeq(order, LAMBDA o : o.column \notin Compared(conditions))
  IN [index |-> index, prefix |-> prefix,
      covered |-> Covers(remaining, SubSeq(columns, prefix + 1, Len(columns))),
      reverse |-> Backwards(remaining),
      exact |-> index.unique /\ prefix = Len(columns)]

Candidates(list, conditions, order) ==
  SelectSeq([i \in DOMAIN list |-> Candidate(list[i], conditions, order)],
            LAMBDA c : c.prefix > 0 \/ (order # <<>> /\ c.covered))

\* compareCandidates.
Better(x, y) ==
  \/ x.exact /\ ~y.exact
  \/ x.exact = y.exact /\ x.prefix > y.prefix
  \/ x.exact = y.exact /\ x.prefix = y.prefix /\ x.covered /\ ~y.covered

Best(candidates) ==
  candidates[Min({i \in DOMAIN candidates :
                    \A j \in DOMAIN candidates : ~Better(candidates[j], candidates[i])})]

ScanLimit(n) ==
  CASE n.cardinality = "exists" -> Min({n.limit, 1})
    [] n.cardinality \in {"one", "require"} -> Min({n.limit, 2})
    [] OTHER -> n.limit

\* Mutant: a scan stops at the limit although rows are filtered after it.
LimitAlways(n, residual, covered) == IF covered THEN ScanLimit(n) ELSE Unlimited

\* The limit a scan may stop at.
PushedLimit(n, residual, covered) ==
  IF ~n.through /\ residual = <<>> /\ covered THEN ScanLimit(n) ELSE Unlimited

Access(kind, columns, key, reverse, limit) ==
  [kind |-> kind, columns |-> columns, key |-> key, reverse |-> reverse, limit |-> limit]

\* join: the column a hash table of the scanned rows is keyed by, if any.
HashColumn(kind, conditions) ==
  LET outer == {i \in DOMAIN conditions : conditions[i].op = "eq" /\ conditions[i].outer}
  IN IF kind # "table-scan" \/ outer = {} THEN {} ELSE {conditions[Min(outer)].column}

PlanNode(n, list) ==
  LET conditions == Conditions(n)
      Key(columns) == [i \in DOMAIN columns |-> Value(conditions[EqualityOf(conditions, columns[i])])]
      Plan(access, columns, covered) ==
        [access |-> access, filters |-> Residual(conditions, columns), limit |-> n.limit,
         hash |-> HashColumn(access.kind, conditions),
         order |-> IF covered THEN <<>> ELSE n.order,
         cardinality |-> n.cardinality, through |-> n.through]
      candidates == Candidates(list, conditions, n.order)
      best == Best(candidates)
      used == SubSeq(best.index.columns, 1, best.prefix)
      covered == Covers(n.order, PrimaryColumns)
  IN IF ToSet(PrimaryColumns) \subseteq Compared(conditions)
     THEN Plan(Access("primary-key", PrimaryColumns, Key(PrimaryColumns), FALSE, Unlimited),
               PrimaryColumns, TRUE)
     ELSE IF candidates = <<>>
     THEN Plan(Access("table-scan", PrimaryColumns, <<>>, covered /\ Backwards(n.order),
                      PushedLimit(n, conditions, covered)),
               <<>>, covered)
     ELSE Plan(Access("index-scan", best.index.columns, Key(used), best.reverse,
                      PushedLimit(n, Residual(conditions, used), best.covered)),
               used, best.covered)

-----------------------------------------------------------------------------
(* executeNode, and executeNestedNode with its hash table. *)

\* scanRows: the rows under a key, in the order of the columns and the primary key.
ScanRows(access, rows) ==
  LET found == {r \in rows : \A i \in DOMAIN access.key : r[access.columns[i]] = access.key[i]}
      forward == Sorted(found, [i \in DOMAIN access.columns |->
                                  [column |-> access.columns[i], direction |-> "asc"]])
  IN Limited(IF access.reverse THEN Reverse(forward) ELSE forward, access.limit)

Execute(p, rows) ==
  LET Kept(r) == /\ p.through => Authorized(r)
                 /\ \A c \in ToSet(p.filters) : Satisfies(r, c)
      Bucket(r) == \A c \in p.hash : r[c] = Outer
      matches == SelectSeq(SelectSeq(ScanRows(p.access, rows), Bucket), Kept)
      ordered == IF p.order = <<>> THEN matches ELSE Sorted(ToSet(matches), p.order)
  IN Materialize(p.cardinality, Limited(ordered, p.limit))

-----------------------------------------------------------------------------
Pending == <<"pending">>
Unplanned == [access |-> "none"]

\* A unique index holds one row for each key.
Fits(rows, list) ==
  \A index \in ToSet(list) : index.unique =>
    \A x, y \in rows : (\A i \in DOMAIN index.columns :
                          x[index.columns[i]] = y[index.columns[i]]) => x = y

Init ==
  /\ node \in Nodes /\ indexes \in Indexes /\ table \in Tables
  /\ Fits(table, indexes)
  /\ plan = Unplanned /\ result = Pending

PlanQuery ==
  /\ plan = Unplanned
  /\ plan' = PlanNode(node, indexes)
  /\ UNCHANGED <<node, indexes, table, result>>

ExecuteQueryPlan ==
  /\ plan # Unplanned /\ result = Pending
  /\ result' = Execute(plan, table)
  /\ UNCHANGED <<node, indexes, table, plan>>

Next == PlanQuery \/ ExecuteQueryPlan
Spec == Init /\ [][Next]_vars

-----------------------------------------------------------------------------
\* What the plan yields is an answer of the node: the rows that match, in an order
\* the node asks for, as many as its limit leaves; rows that tie may stand in for
\* one another (planNode, executeNode).
PlanAnswers ==
  result # Pending =>
    LET matching == Matching(node, table)
        sorted == Limited(Sorted(matching, node.order), node.limit)
        KeyAt(rows, i) == [c \in {o.column : o \in ToSet(node.order)} |-> rows[i][c]]
        direct == Materialize(node.cardinality, sorted)
    IN IF result[1] # "many" THEN result = direct
       ELSE /\ direct[1] = "many" /\ Len(result[2]) = Len(direct[2])
            /\ IsInjective(result[2]) /\ ToSet(result[2]) \subseteq matching
            /\ \A i \in DOMAIN result[2] : KeyAt(result[2], i) = KeyAt(direct[2], i)

\* Every condition of the node is answered for: by the access, which gives its key,
\* or by a filter above it; none is lost and none applied that the node has not
\* (planNode).
ConditionsKept ==
  plan # Unplanned =>
    LET access == plan.access
        keyed == {<<access.columns[i], access.key[i]>> : i \in DOMAIN access.key}
        asked == {c \in ToSet(Conditions(node)) : c.op = "eq"}
    IN /\ \A c \in ToSet(Conditions(node)) :
            c \in ToSet(plan.filters) \/ (c.op = "eq" /\ <<c.column, Value(c)>> \in keyed)
       /\ keyed \subseteq {<<c.column, Value(c)>> : c \in asked}
       /\ ToSet(plan.filters) \subseteq ToSet(Conditions(node))
=============================================================================

----------------------------- MODULE ReadPolicies -----------------------------
(***************************************************************************)
(* The read policies of a gateway (read-policy.ts): the catalog it is made *)
(* with, the rewriting of a query for a principal, and the rows the        *)
(* rewritten query yields (executor.ts), against the query over the rows   *)
(* the principal may read.  A row has a key "id", a column "up" that may   *)
(* refer to another table, and "mine", on which the predicates of "where"  *)
(* policies decide.                                                        *)
(***************************************************************************)
EXTENDS Integers, Sequences, SequencesExt, FiniteSets, TLC

CONSTANTS
  Tables,     \* names of the tables
  Catalogs,   \* policies a gateway is made with: kind and parent of each table
  Databases,  \* contents of the tables
  Queries     \* nodes: source, table, filters, cardinality and nested nodes

VARIABLES catalog, database, gateway, query, answer

vars == <<catalog, database, gateway, query, answer>>

-----------------------------------------------------------------------------
(* createReadPolicyEnforcer. *)

Covered(policies) == \A t \in Tables : policies[t].kind # "none"

\* visit: the tables reached from a table through its parents, the table first.
RECURSIVE ParentsMeet(_, _, _)
ParentsMeet(policies, table, stack) ==
  \/ table \in ToSet(stack)
  \/ /\ policies[table].kind = "through"
     /\ ParentsMeet(policies, policies[table].parent, Append(stack, table))

Cyclic(policies) == \E t \in Tables : ParentsMeet(policies, t, <<>>)

-----------------------------------------------------------------------------
(* authorizeNode. *)

Field(source, column) == [source |-> source, column |-> column]

\* Mutant: an equality proves the relationship wherever it stands in the filter.
ProvesAnywhere(node, fact) ==
  \E c \in node.filters :
    /\ c.op \in {"eq", "either"}
    /\ {c.left, c.right} = {Field(node.source, "up"), Field(fact.source, "id")}

\* provesRelationship: a condition of the conjunction equates the two columns.
ProvesRelationship(node, fact) ==
  \E c \in node.filters :
    /\ c.op = "eq"
    /\ {c.left, c.right} = {Field(node.source, "up"), Field(fact.source, "id")}

Literal(value) == [op |-> "literal", value |-> value]
Predicate(source) == [op |-> "mine", left |-> Field(source, "mine")]
ParentNode(parent) ==
  [source |-> parent, table |-> parent, filters |-> {}, cardinality |-> "many",
   nested |-> <<>>, authorization |-> <<>>]

RECURSIVE AuthorizeNode(_, _, _)
AuthorizeNode(policies, node, facts) ==
  LET policy == policies[node.table]
      proven == \E f \in facts : f.table = policy.parent /\ ProvesRelationship(node, f)
      added == CASE policy.kind = "deny" -> {Literal(FALSE)}
                 [] policy.kind = "where" -> {Predicate(node.source)}
                 [] OTHER -> {}
      childFacts == facts \union {[table |-> node.table, source |-> node.source]}
  IN [node EXCEPT
        !.filters = @ \union added,
        !.nested = [i \in DOMAIN @ |-> AuthorizeNode(policies, @[i], childFacts)],
        !.authorization =
           IF policy.kind = "through" /\ ~proven
           THEN <<AuthorizeNode(policies, ParentNode(policy.parent), {})>> ELSE @]

-----------------------------------------------------------------------------
(* Evaluation of a node for the rows of the nodes around it. *)

Of(context, field) == context[field.source][field.column]

Satisfied(condition, context) ==
  CASE condition.op = "literal" -> condition.value
    [] condition.op = "mine" -> Of(context, condition.left)
    [] condition.op = "eq" -> Of(context, condition.left) = Of(context, condition.right)
    [] condition.op = "ne" -> Of(context, condition.left) # Of(context, condition.right)
    [] condition.op = "either" -> TRUE \* an equality or a literal that is true

RECURSIVE Evaluate(_, _, _)
Evaluate(node, tables, context) ==
  LET Around(row) == (node.source :> row) @@ context
      AllowedParents == {p[1].id : p \in Evaluate(node.authorization[1], tables, <<>>)}
      matches == {row \in tables[node.table] :
                    /\ \A c \in node.filters : Satisfied(c, Around(row))
                    /\ node.authorization # <<>> => row.up \in AllowedParents}
  IN CASE node.cardinality = "count" -> Cardinality(matches)
       [] node.cardinality = "exists" -> matches # {}
       [] OTHER -> {<<row, [i \in DOMAIN node.nested |-> Evaluate(node.nested[i], tables, Around(row))]>> :
                      row \in matches}

-----------------------------------------------------------------------------
None == <<>>

Init ==
  /\ catalog \in Catalogs /\ database \in Databases
  /\ gateway = "unmade" /\ query = None /\ answer = None

Make ==
  /\ gateway = "unmade"
  /\ gateway' = IF Covered(catalog) /\ ~Cyclic(catalog) THEN "made" ELSE "throws"
  /\ UNCHANGED <<catalog, database, query, answer>>

Fetch ==
  /\ gateway = "made" /\ query = None
  /\ \E node \in Queries :
       /\ query' = <<node>>
       /\ answer' = <<Evaluate(AuthorizeNode(catalog, node, {}), database, <<>>)>>
  /\ UNCHANGED <<catalog, database, gateway>>

Next == Make \/ Fetch
Spec == Init /\ [][Next]_vars

-----------------------------------------------------------------------------
\* The rows of a table a principal may read: by the table's own policy, or through a
\* row of the parent it may read.
RECURSIVE Readable(_)
Readable(table) ==
  LET policy == catalog[table]
      rows == database[table]
  IN CASE policy.kind = "allow" -> rows
       [] policy.kind = "where" -> {r \in rows : r.mine}
       [] policy.kind = "through" -> {r \in rows : \E p \in Readable(policy.parent) : p.id = r.up}
       [] OTHER -> {}

\* A query through the gateway is answered as it would be over a database that holds
\* only what the principal may read: nested queries, counts and tests for existence
\* included, and also where a filter stands for the relationship (authorizeNode).
OnlyReadable ==
  answer # None =>
    answer[1] = Evaluate(query[1], [t \in Tables |-> Readable(t)], <<>>)

\* A gateway is made only if every table has a policy that ends, through however many
\* parents, in one that decides by itself; then it can answer every query (assertAcyclic).
RECURSIVE Decided(_)
Decided(undecided) ==
  LET now == {t \in undecided : \/ catalog[t].kind \in {"allow", "deny", "where"}
                                \/ catalog[t].kind = "through" /\ catalog[t].parent \notin undecided}
  IN undecided = {} \/ (now # {} /\ Decided(undecided \ now))

MadeIffDecided == gateway # "unmade" => (gateway = "made") = Decided(Tables)
=============================================================================

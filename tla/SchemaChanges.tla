----------------------------- MODULE SchemaChanges -----------------------------
(***************************************************************************)
(* An application whose schema evolves: each migration declares operations *)
(* and data steps, and its publication fixes the schema that storages may  *)
(* be left at.  What the planner derives from the current schema alone is  *)
(* compared with the schemas there really were.                            *)
(***************************************************************************)
EXTENDS SchemaDescriptions

CONSTANTS
  TableNames, ColumnNames, Types,
  MaxSteps,       \* bound: steps of the whole list
  MaxMigrations,  \* bound: migrations published
  Drops           \* whether columns are dropped

VARIABLES
  schema,     \* the application's schema as declared so far
  declared,   \* the migrations published
  pending,    \* the steps of the next one
  published   \* the base schema and the schema of each publication

vars == <<schema, declared, pending, published>>

Id == Column("id", "id", TRUE, TRUE)
Plain(name, type, notNull) == Column(name, type, notNull, FALSE)
PlainColumns == {Plain(n, t, b) : n \in ColumnNames, t \in Types, b \in BOOLEAN}
NewTable == [columns |-> <<Id>>, indexes |-> {}]

\* One table with a column of each name, at most one of them indexed.
Bases ==
  {Description(t :> [columns |-> <<Id>> \o SetToSeq({Plain(n, y, FALSE) : n \in ColumnNames}),
                     indexes |-> i]) :
   t \in TableNames, y \in Types, i \in {{}} \union {{{n}} : n \in ColumnNames}}

Ops ==
  {AddTable(t, NewTable) : t \in TableNames}
  \union {DropTable(t, schema.tables[t]) : t \in DOMAIN schema.tables}
  \union {AddColumn(t, c) : t \in DOMAIN schema.tables, c \in PlainColumns}
  \union (IF Drops THEN {DropColumn(t, c) : t \in DOMAIN schema.tables, c \in PlainColumns}
          ELSE {})
  \union {ChangeColumn(t, c, [c EXCEPT !.dataType = y, !.notNull = b]) :
            t \in DOMAIN schema.tables, c \in PlainColumns, y \in Types, b \in BOOLEAN}

Steps(list) == FlattenSeq(list)
Newest == published[Len(published)]

\* The schema without the order of its columns.
Shape(d) ==
  [ok |-> d.ok,
   tables |-> [t \in DOMAIN d.tables |->
     [columns |-> ToSet(d.tables[t].columns), indexes |-> d.tables[t].indexes]]]

\* The model declares the columns of a migration wherever it likes; the others
\* keep their order.
Arrangements(d) ==
  {e \in {Description(f) : f \in
            [DOMAIN d.tables -> UNION {{[d.tables[t] EXCEPT !.columns = s] :
                                         s \in SetToSeqs(ToSet(d.tables[t].columns))} :
                                       t \in DOMAIN d.tables}]} :
     /\ Shape(e) = Shape(d)
     /\ \A t \in DOMAIN d.tables \intersect DOMAIN Newest.tables :
          LET old(c) == c.name \in Names(Newest.tables[t].columns)
          IN SelectSeq(e.tables[t].columns, old) = SelectSeq(d.tables[t].columns, old)
     /\ \A t \in DOMAIN d.tables : e.tables[t].columns[1] = Id}

Init ==
  /\ published \in {<<d>> : d \in Bases}
  /\ schema = published[1] /\ declared = <<>> /\ pending = <<>>

Room == Len(Steps(declared)) + Len(pending) < MaxSteps /\ Len(declared) < MaxMigrations

\* An operation the constructors and the schema allow.
Declare(op) ==
  /\ Room /\ WellFormed(op)
  /\ Apply(schema, op).ok /\ Apply(schema, op) # schema
  /\ schema' = Apply(schema, op)
  /\ pending' = Append(pending, op)
  /\ UNCHANGED <<declared, published>>

DeclareData ==
  /\ Room
  /\ pending' = Append(pending, DataStep)
  /\ UNCHANGED <<schema, declared, published>>

\* defineMigration: at least one step.
Publish ==
  /\ pending # <<>>
  /\ schema' \in Arrangements(schema)
  /\ published' = Append(published, schema')
  /\ declared' = Append(declared, pending)
  /\ pending' = <<>>

Next == (\E op \in Ops : Declare(op)) \/ DeclareData \/ Publish

Spec == Init /\ [][Next]_vars

-----------------------------------------------------------------------------
AtRest == pending = <<>> /\ declared # <<>>

\* Walking the list back from the current schema finds every schema that was
\* ever published: its tables and columns always, and to the order of the
\* columns, which is what a fingerprint tells, as long as none was dropped
\* (reverseSchemaChanges, deriveMigrationFingerprints).
HistoryDerived ==
  AtRest =>
    LET nodes == Derive(schema, declared) IN
    /\ \A i \in DOMAIN published : Shape(nodes[i]) = Shape(published[i])
    /\ (\A i \in DOMAIN Steps(declared) : Steps(declared)[i].type \notin {"dropColumn", "dropTable"})
         => nodes = published

\* Every published schema is where the plan says the steps before it lead, each
\* step starts where the one before ended, and no boundary stands for a schema
\* that the operations before it do not give (buildMigrationPlan).
PlanLeadsThrough ==
  AtRest =>
    LET plan == BuildPlan(schema, declared)
        steps == plan.steps
        walked(i) == ApplySchemaChanges(published[1],
                       SchemaOps(SubSeq(Steps(declared), 1, i)))
        done(m) == Len(Steps(SubSeq(declared, 1, m)))
    IN /\ \A i \in DOMAIN steps :
            /\ steps[i].from = IF i = 1 THEN plan.base ELSE steps[i - 1].to
            /\ Shape(steps[i].to) = Shape(walked(i))
       /\ \A m \in DOMAIN declared :
            steps[done(m)].to = Derive(schema, declared)[m + 1]

SameIndexes(d, e) ==
  \A t \in DOMAIN d.tables \intersect DOMAIN e.tables :
    d.tables[t].indexes = e.tables[t].indexes

\* The operations between two schemas that index the tables they share alike,
\* applied, give the second one, but for the
\* order of its columns, and undone give the first one (diffSchemaDescriptions).
DiffRoundTrips ==
  AtRest =>
    LET ops == Diff(published[1], schema) IN
    (SameIndexes(published[1], schema) /\ \A i \in DOMAIN ops : WellFormed(ops[i])) =>
      /\ Shape(ApplySchemaChanges(published[1], ops)) = Shape(schema)
      /\ Shape(ReverseSchemaChanges(schema, ops)) = Shape(published[1])

\* A list that has lost one of its operations is never taken for one that starts
\* at the real base, but for those on a table that the list itself adds, which
\* takes its last form from the model (checkMigrationChain).
LostStepFound ==
  AtRest =>
    \A m \in DOMAIN declared : \A i \in DOMAIN declared[m] :
      LET lost == declared[m][i]
          list == [declared EXCEPT ![m] = RemoveAt(@, i)]
          remade == \E op \in ToSet(Steps(list)) :
                      op.type = "addTable" /\ op.table = lost.table
      IN (lost.type # "data" /\ ~remade) =>
           CheckMigrationChain(schema, list, published[1]) # "ok"

\* migration.ts:135 says that a list "can be walked backwards from the current
\* schema to reconstruct every historical fingerprint".
EveryFingerprintReconstructed ==
  AtRest => Derive(schema, declared) = published

\* migration.ts:712 says of the difference of two schemas that it "applied
\* forward via applySchemaChanges yields exactly the target description".
DiffYieldsTarget ==
  AtRest =>
    LET ops == Diff(published[1], schema) IN
    (SameIndexes(published[1], schema) /\ \A i \in DOMAIN ops : WellFormed(ops[i])) =>
      ApplySchemaChanges(published[1], ops) = schema
=============================================================================

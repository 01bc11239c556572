-------------------------- MODULE SchemaDescriptions --------------------------
(***************************************************************************)
(* Schema descriptions and the operations on them (node/migration.ts): how *)
(* an operation is applied and inverted, how a list of migrations is       *)
(* walked back from the current schema and planned, how two descriptions   *)
(* are compared and a list is checked.                                     *)
(*                                                                         *)
(* A description maps table names to their columns, in order, and to the   *)
(* sets of columns they index.  A fingerprint is the description itself:   *)
(* SHA-256 tells any two apart, and so does the order of the columns.      *)
(***************************************************************************)
EXTENDS Integers, Sequences, FiniteSets, SequencesExt, FiniteSetsExt, Functions

Column(name, type, notNull, key) ==
  [name |-> name, dataType |-> type, notNull |-> notNull, primaryKey |-> key]

\* What a call that throws gives.
Rejected == [ok |-> FALSE, tables |-> <<>>]
Description(tables) == [ok |-> TRUE, tables |-> tables]

Names(columns) == {columns[i].name : i \in DOMAIN columns}
At(columns, name) == CHOOSE i \in DOMAIN columns : columns[i].name = name
Named(columns, name) == columns[At(columns, name)]
Without(columns, name) == SelectSeq(columns, LAMBDA c : c.name # name)
Swap(columns, column) == [columns EXCEPT ![At(columns, column.name)] = column]
Indexed(table, name) == \E columns \in table.indexes : name \in columns
HasKey(table) == \E i \in DOMAIN table.columns : table.columns[i].primaryKey

-----------------------------------------------------------------------------
(* Operations. *)

AddTable(name, table) == [type |-> "addTable", table |-> name, description |-> table]
DropTable(name, table) == [type |-> "dropTable", table |-> name, description |-> table]
AddColumn(name, column) == [type |-> "addColumn", table |-> name, column |-> column]
DropColumn(name, column) == [type |-> "dropColumn", table |-> name, column |-> column]
ChangeColumn(name, previous, column) ==
  [type |-> "changeColumn", table |-> name, column |-> column, previous |-> previous]
DataStep == [type |-> "data"]

\* What the constructors take.
WellFormed(op) ==
  CASE op.type = "addTable" -> HasKey(op.description)
    [] op.type = "addColumn" -> ~op.column.notNull /\ ~op.column.primaryKey
    [] op.type = "changeColumn" -> op.column.primaryKey = op.previous.primaryKey
    [] OTHER -> TRUE

WithTable(d, name, table) == Description((name :> table) @@ d.tables)
WithColumns(d, name, columns) == WithTable(d, name, [d.tables[name] EXCEPT !.columns = columns])
WithoutTable(d, name) == Description([n \in DOMAIN d.tables \ {name} |-> d.tables[n]])

\* applySchemaChanges, one operation: the schema after it.
Apply(d, op) ==
  LET known == op.table \in DOMAIN d.tables
      table == d.tables[op.table]
      has(column) == column.name \in Names(table.columns)
      is(column) == has(column) /\ Named(table.columns, column.name) = column
  IN
  IF ~d.ok THEN Rejected
  ELSE CASE op.type = "addTable" ->
              IF known \/ ~HasKey(op.description) THEN Rejected
              ELSE WithTable(d, op.table, op.description)
         [] op.type = "dropTable" ->
              IF known THEN WithoutTable(d, op.table) ELSE Rejected
         [] op.type = "addColumn" ->
              IF ~known \/ has(op.column) \/ Indexed(table, op.column.name) THEN Rejected
              ELSE WithColumns(d, op.table, Append(table.columns, op.column))
         [] op.type = "dropColumn" ->
              IF ~known \/ ~is(op.column) \/ op.column.primaryKey
                 \/ Indexed(table, op.column.name)
              THEN Rejected
              ELSE WithColumns(d, op.table, Without(table.columns, op.column.name))
         [] op.type = "changeColumn" ->
              IF ~known \/ ~is(op.previous) THEN Rejected
              ELSE WithColumns(d, op.table, Swap(table.columns, op.column))

\* reverseSchemaChanges, one operation: the schema before it.
Undo(d, op) ==
  LET known == op.table \in DOMAIN d.tables
      table == d.tables[op.table]
      has(column) == column.name \in Names(table.columns)
      is(column) == has(column) /\ Named(table.columns, column.name) = column
  IN
  IF ~d.ok THEN Rejected
  ELSE CASE op.type = "addTable" ->
              IF known THEN WithoutTable(d, op.table) ELSE Rejected
         [] op.type = "dropTable" ->
              IF known THEN Rejected ELSE WithTable(d, op.table, op.description)
         [] op.type = "addColumn" ->
              IF ~known \/ ~is(op.column) THEN Rejected
              ELSE WithColumns(d, op.table, Without(table.columns, op.column.name))
         [] op.type = "dropColumn" ->
              IF ~known \/ has(op.column) THEN Rejected
              ELSE WithColumns(d, op.table, Append(table.columns, op.column))
         [] op.type = "changeColumn" ->
              IF ~known \/ ~is(op.column) THEN Rejected
              ELSE WithColumns(d, op.table, Swap(table.columns, op.previous))

\* Mutant: the operations are undone in the order they were done.
UndoForwards(d, ops) == FoldLeft(Undo, d, ops)
ApplySchemaChanges(d, ops) == FoldLeft(Apply, d, ops)
ReverseSchemaChanges(d, ops) == FoldRight(LAMBDA op, after : Undo(after, op), ops, d)

SchemaOps(steps) == SelectSeq(steps, LAMBDA s : s.type # "data")

-----------------------------------------------------------------------------
(* Lists of migrations: each is a sequence of operations and data steps. *)

\* deriveMigrationFingerprints: the base, then the target of each migration.
Derive(schema, migrations) ==
  LET n == Len(migrations)
      node[i \in 0..n] ==
        IF i = n THEN schema
        ELSE ReverseSchemaChanges(node[i + 1], SchemaOps(migrations[i + 1]))
  IN [i \in 1..(n + 1) |-> node[i - 1]]

\* The last operation of a migration leads to the schema derived for it: the
\* model may declare a new column anywhere, and addColumn only appends.
AtBoundary(nodes, m, applied, last) == IF last THEN nodes[m + 1] ELSE applied

\* buildMigrationPlan: one step after the other, with the fingerprints it takes
\* a branch from and to.  A data step keeps its fingerprint.
BuildPlan(schema, migrations) ==
  LET nodes == Derive(schema, migrations)
      last(m) == {i \in DOMAIN migrations[m] : migrations[m][i].type # "data"}
      Plan(acc, m, i) ==
        LET step == migrations[m][i] IN
        IF step.type = "data"
        THEN [acc EXCEPT !.steps = Append(@, [op |-> step, from |-> acc.at, to |-> acc.at])]
        ELSE LET next == AtBoundary(nodes, m, Apply(acc.at, step), i = Max(last(m))) IN
             [at |-> next,
              steps |-> Append(acc.steps, [op |-> step, from |-> acc.at, to |-> next])]
      PlanMigration(acc, m) ==
        FoldLeft(LAMBDA a, i : Plan(a, m, i), acc, [i \in DOMAIN migrations[m] |-> i])
  IN [base |-> nodes[1], final |-> nodes[Len(nodes)],
      steps |-> FoldLeft(PlanMigration, [at |-> nodes[1], steps |-> <<>>],
                         [m \in DOMAIN migrations |-> m]).steps]

\* schemaOpKey.
OpKey(op) ==
  IF op.type \in {"addTable", "dropTable"} THEN <<op.type, op.table>>
  ELSE <<op.type, op.table, op.column.name>>

Changed(c, d) == c.dataType # d.dataType \/ c.notNull # d.notNull

\* diffSchemaDescriptions: the operations between two schemas, a table at a
\* time; the tables come in the order of their names, which here is any.
Diff(from, to) ==
  LET columns(name) ==
        LET before == from.tables[name].columns
            after == to.tables[name].columns
            kept == SelectSeq(before, LAMBDA c : c.name \notin Names(after)
                                                 \/ Changed(c, Named(after, c.name)))
            new == SelectSeq(after, LAMBDA c : c.name \notin Names(before))
        IN [i \in DOMAIN kept |->
              IF kept[i].name \in Names(after)
              THEN ChangeColumn(name, kept[i], Named(after, kept[i].name))
              ELSE DropColumn(name, kept[i])]
           \o [i \in DOMAIN new |-> AddColumn(name, new[i])]
      old == SetToSeq(DOMAIN from.tables)
      added == SetToSeq(DOMAIN to.tables \ DOMAIN from.tables)
  IN FlattenSeq([i \in DOMAIN old |->
       IF old[i] \in DOMAIN to.tables THEN columns(old[i])
       ELSE <<DropTable(old[i], from.tables[old[i]])>>])
     \o [i \in DOMAIN added |-> AddTable(added[i], to.tables[added[i]])]

\* Where the list starts is where the caller says it does.
StartsAt(nodes, base) == nodes[1] = base

\* checkMigrationChain with a base: ok, or what is wrong; it throws where the
\* difference takes an operation that no constructor gives.
CheckMigrationChain(schema, migrations, base) ==
  LET nodes == Derive(schema, migrations)
      difference == ToSet(Diff(base, schema))
      declared == {OpKey(op) : op \in UNION {ToSet(SchemaOps(m)) : m \in ToSet(migrations)}}
      expected == {OpKey(op) : op \in difference}
  IN IF ~nodes[1].ok THEN "inconsistent"
     ELSE IF \E op \in difference : ~WellFormed(op) THEN "throws"
     ELSE IF ~(expected \subseteq declared) THEN "missing"
     ELSE IF ~StartsAt(nodes, base) THEN "other base"
     ELSE "ok"
=============================================================================

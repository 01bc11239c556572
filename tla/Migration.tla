------------------------------- MODULE Migration -------------------------------
(***************************************************************************)
(* The migrations of the file engine (node/node-storage.ts load, migrate): *)
(* the application opens its storage with its current schema and a list of *)
(* migrations that grows; each step left becomes one commit on every       *)
(* branch, marked with its number, and a crash or a failing step leaves    *)
(* the rest to the next opening.  An ordinary commit carries no mark.      *)
(*                                                                         *)
(* A commit is its manifest: schema, mark (-1: none), the rows of each     *)
(* table, and, for the properties, the steps taken on its line.  Rows and  *)
(* their columns hold the key they were written under, or null.  Commits   *)
(* are published as in module FileStorage; here one is there or not.       *)
(***************************************************************************)
EXTENDS SchemaDescriptions

CONSTANTS
  Base,        \* the schema before the first migration
  List,        \* the migrations the application ever ships, in order
  Branches,    \* bound: branch names, with "main"
  Keys,        \* bound: primary key values
  MaxCommits,  \* bound: ordinary commits
  MaxOpens,    \* bound: openings of the storage
  OldBases     \* whether branches are created from any commit, or from heads

VARIABLES
  heads,      \* branch -> the manifest of its head
  history,    \* every commit, in order
  plan,       \* the plan of the application that has it open, with its schema
  phase,      \* "closed", "migrating", "open"
  todo,       \* branches left to migrate, in order
  next,       \* the step the first of them is at, or Unread
  commits, opens

vars == <<heads, history, plan, phase, todo, next, commits, opens>>

Unread == -1
Unmarked == -1
Null == "null"
NoRows == [k \in {} |-> Null]

ListAt(v) == SubSeq(List, 1, v)
SchemaAt(v) == ApplySchemaChanges(Base, SchemaOps(FlattenSeq(ListAt(v))))
PlanAt(v) ==
  LET made == BuildPlan(SchemaAt(v), ListAt(v))
  IN [schema |-> SchemaAt(v), base |-> made.base, final |-> made.final, steps |-> made.steps]
PlannedTables == plan.schema.tables

IsData(step) == step.op.type = "data"

\* #schemaFingerprints: what a head may be at.
Fingerprints(p) ==
  {p.schema, p.base, p.final}
  \union UNION {{p.steps[i].from, p.steps[i].to} : i \in DOMAIN p.steps}

\* cloneManifest: an ordinary commit drops the mark.
Unmark(manifest) == [manifest EXCEPT !.mark = Unmarked]

-----------------------------------------------------------------------------
(* Steps.  Each gives ok and the manifest it leaves. *)

Failed == [ok |-> FALSE]
Done(manifest) == [ok |-> TRUE, manifest |-> manifest]

MapRows(manifest, name, F(_)) ==
  [manifest EXCEPT !.tables[name] = [k \in DOMAIN @ |-> F(@[k])]]

\* assertIndexFree: by the schema of the application.
HeldByIndex(name, column) == Indexed(PlannedTables[name], column)

Stripped(row, column) == Restrict(row, DOMAIN row \ {column})

\* applySchemaOp: tables are those of the manifest, and those the application
\* still knows.
ApplySchemaOp(manifest, op) ==
  LET stored == op.table \in DOMAIN manifest.tables
      known == op.table \in DOMAIN PlannedTables
      column == op.column.name
  IN CASE op.type = "addTable" ->
            IF known THEN Done([manifest EXCEPT !.tables = (op.table :> NoRows) @@ @]) ELSE Failed
       [] op.type = "dropTable" ->
            IF stored THEN Done([manifest EXCEPT !.tables = Restrict(@, DOMAIN @ \ {op.table})])
            ELSE Failed
       [] op.type = "changeColumn" ->
            IF stored /\ known /\ ~HeldByIndex(op.table, column) THEN Done(manifest) ELSE Failed
       [] op.type = "addColumn" ->
            IF stored /\ known /\ ~HeldByIndex(op.table, column)
            THEN Done(MapRows(manifest, op.table, LAMBDA row : (column :> Null) @@ row))
            ELSE Failed
       [] op.type = "dropColumn" ->
            IF stored /\ known /\ ~HeldByIndex(op.table, column)
            THEN Done(MapRows(manifest, op.table, LAMBDA row : Stripped(row, column)))
            ELSE Failed

\* A data step of the application: it copies one column into another (the calls it
\* makes and their commit are module DataSteps).
Copy(table, from, to) ==
  [type |-> "data", table |-> table, fromColumn |-> from, toColumn |-> to]
RunCopy(manifest, step) ==
  IF step.table \in DOMAIN manifest.tables /\ step.table \in DOMAIN PlannedTables
  THEN Done(MapRows(manifest, step.table,
                    LAMBDA row : [row EXCEPT ![step.toColumn] = row[step.fromColumn]]))
  ELSE Failed

Mark(manifest, i) == [manifest EXCEPT !.mark = i]

\* runSchemaStep, runDataStep: step i on a head.
RunStep(manifest, i) ==
  LET step == plan.steps[i]
      result == IF IsData(step) THEN RunCopy(manifest, step.op)
                ELSE ApplySchemaOp(manifest, step.op)
  IN IF manifest.schema # step.from \/ ~result.ok THEN Failed
     ELSE Done([Mark(result.manifest, i) EXCEPT !.schema = step.to, !.ran = Append(@, i)])

\* Mutant: a mark is never looked at.
BySchemaAlone(manifest) == FALSE

\* The mark agrees with the schema of the head.
MarkAgrees(manifest) ==
  LET step == manifest.mark + 1 IN
  /\ manifest.mark # Unmarked
  /\ manifest.schema = IF step > Len(plan.steps) THEN plan.final ELSE plan.steps[step].from

\* resumeStepIndex: the steps taken, or Unread where none fits.
ResumeStepIndex(manifest) ==
  LET n == Len(plan.steps)
      reached == {i \in 1..n : plan.steps[i].to = manifest.schema}
  IN IF manifest.mark > n THEN Unread
     ELSE IF MarkAgrees(manifest) THEN manifest.mark
     ELSE IF manifest.schema = plan.final THEN n
     ELSE IF manifest.schema = plan.base THEN 0
     ELSE IF reached = {} THEN Unread
     ELSE Max(reached)

-----------------------------------------------------------------------------
\* initialize: the application creates the storage with its first v migrations.
Init ==
  /\ plan \in {PlanAt(v) : v \in 0..Len(List)}
  /\ heads = [b \in {"main"} |->
                [schema |-> plan.schema, mark |-> Unmarked,
                 tables |-> [t \in DOMAIN PlannedTables |-> NoRows],
                 ran |-> [i \in DOMAIN plan.steps |-> i]]]
  /\ history = <<heads["main"]>>
  /\ phase = "open" /\ todo = <<>> /\ next = Unread /\ commits = 0 /\ opens = 0

Close ==
  /\ phase' = "closed" /\ todo' = <<>> /\ next' = Unread
  /\ UNCHANGED <<heads, history, plan, commits, opens>>

CrashOrClose == phase # "closed" /\ Close

\* load: every head is at a schema of the list before anything is written.
Valid(p) == \A b \in DOMAIN heads : heads[b].schema \in Fingerprints(p)

OpenStorage(v) ==
  /\ phase = "closed" /\ opens < MaxOpens
  /\ opens' = opens + 1
  /\ plan' = PlanAt(v) /\ Valid(plan')
  /\ phase' = "migrating"
  /\ todo' \in SetToSeqs(DOMAIN heads)
  /\ next' = Unread
  /\ UNCHANGED <<heads, history, commits>>

Migrating == phase = "migrating" /\ todo # <<>>

\* migrate: where the next branch is to go on.
Resume ==
  /\ Migrating /\ next = Unread
  /\ next' = ResumeStepIndex(heads[Head(todo)])
  /\ next' # Unread
  /\ UNCHANGED <<heads, history, plan, phase, todo, commits, opens>>

\* One step, one commit.
Step ==
  /\ Migrating /\ next \in 0..(Len(plan.steps) - 1)
  /\ LET result == RunStep(heads[Head(todo)], next + 1) IN
       /\ result.ok
       /\ heads' = [heads EXCEPT ![Head(todo)] = result.manifest]
       /\ history' = Append(history, result.manifest)
  /\ next' = next + 1
  /\ UNCHANGED <<plan, phase, todo, commits, opens>>

Unfit ==
  \/ next = Unread /\ ResumeStepIndex(heads[Head(todo)]) = Unread
  \/ next \in 0..(Len(plan.steps) - 1) /\ ~RunStep(heads[Head(todo)], next + 1).ok
\* The code of a data step may throw at any time.
Throws == next \in 0..(Len(plan.steps) - 1) /\ IsData(plan.steps[next + 1])
StepFails == Migrating /\ (Unfit \/ Throws) /\ Close

BranchDone ==
  /\ Migrating /\ next = Len(plan.steps)
  /\ todo' = Tail(todo) /\ next' = Unread
  /\ UNCHANGED <<heads, history, plan, phase, commits, opens>>

Opened ==
  /\ phase = "migrating" /\ todo = <<>>
  /\ heads["main"].schema = plan.schema
  /\ phase' = "open"
  /\ UNCHANGED <<heads, history, plan, todo, next, commits, opens>>

\* commitNow, with one row written whole or removed: rows have the columns of the
\* schema of the application.
Publish(b, manifest) ==
  /\ phase = "open" /\ commits < MaxCommits /\ b \in DOMAIN heads
  /\ commits' = commits + 1
  /\ heads' = [heads EXCEPT ![b] = Unmark(manifest)]
  /\ history' = Append(history, Unmark(manifest))
  /\ UNCHANGED <<plan, phase, todo, next, opens>>

Write(b, t, k) ==
  /\ b \in DOMAIN heads /\ t \in DOMAIN heads[b].tables /\ t \in DOMAIN PlannedTables
  /\ LET row == [c \in Names(PlannedTables[t].columns) |-> k]
     IN Publish(b, [heads[b] EXCEPT !.tables[t] = (k :> row) @@ @])

Erase(b, t, k) ==
  /\ b \in DOMAIN heads /\ t \in DOMAIN heads[b].tables /\ t \in DOMAIN PlannedTables
  /\ k \in DOMAIN heads[b].tables[t]
  /\ Publish(b, [heads[b] EXCEPT !.tables[t] = Restrict(@, DOMAIN @ \ {k})])

CreateBranch(b, from) ==
  /\ phase = "open" /\ b \notin DOMAIN heads
  /\ OldBases \/ \E c \in DOMAIN heads : heads[c] = from
  /\ heads' = (b :> from) @@ heads
  /\ UNCHANGED <<history, plan, phase, todo, next, commits, opens>>

Next ==
  \/ \E v \in 0..Len(List) : OpenStorage(v)
  \/ Resume \/ Step \/ StepFails \/ BranchDone \/ Opened \/ CrashOrClose
  \/ \E b \in Branches, k \in Keys : \E t \in DOMAIN PlannedTables : Write(b, t, k) \/ Erase(b, t, k)
  \/ \E b \in Branches, i \in DOMAIN history : CreateBranch(b, history[i])

Spec == Init /\ [][Next]_vars

-----------------------------------------------------------------------------
\* On every line of commits each step was taken at most once, in order and without
\* a gap, whatever crashed, failed or was committed in between (resumeStepIndex).
\* docs/api/storage.md:173 says that "Progress is durable per step and branch, so
\* reopening resumes completed progress".
StepsOnceInOrder ==
  \A i \in DOMAIN history : \A j \in DOMAIN history[i].ran : history[i].ran[j] = j

\* While the storage is open every branch that was there has taken every step of
\* the list (migrate).  node-storage.ts:771 says that "a stale index must never
\* skip or repeat work".
OpenIsMigrated ==
  phase = "open" =>
    \A b \in DOMAIN heads : heads[b].schema = plan.schema => Len(heads[b].ran) = Len(plan.steps)

\* Rows have the columns of the schema their commit declares, in every table it
\* declares and no other, at every step (applySchemaOp).
RowsMatchSchema ==
  \A i \in DOMAIN history :
    LET c == history[i] IN
    /\ DOMAIN c.tables = DOMAIN c.schema.tables
    /\ \A t \in DOMAIN c.tables : \A k \in DOMAIN c.tables[t] :
         DOMAIN c.tables[t][k] = Names(c.schema.tables[t].columns)

\* A row keeps what was written under its key through every migration: while the
\* storage is open no column of it is left null (runDataStep, applySchemaOp).
NothingLost ==
  phase = "open" =>
    \A b \in DOMAIN heads : \A t \in DOMAIN heads[b].tables :
      \A k \in DOMAIN heads[b].tables[t] :
        \A c \in DOMAIN heads[b].tables[t][k] : heads[b].tables[t][k][c] = k

\* No branch that is not at a schema of the list is changed (load).
HeadsOfList ==
  heads' # heads /\ DOMAIN heads' = DOMAIN heads =>
    \A b \in DOMAIN heads : heads[b].schema \in Fingerprints(plan)
NoHeadOutsideList == [][HeadsOfList]_vars

\* Once the heads are looked through no step fails but by the code of the
\* application: every head has a step to go on from, and every operation finds its
\* table (resumeStepIndex, runSchemaStep).  node-storage.ts:723 says that
\* "rerunning safely completes only the remaining old-schema heads".
NoStepUnfit == Migrating => ~Unfit
=============================================================================

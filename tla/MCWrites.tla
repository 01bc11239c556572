------------------------------- MODULE MCWrites -------------------------------
(* What changes data and schema, each by itself: a command's transaction,   *)
(* a data step, the descriptions of a schema that evolves, migrations, and  *)
(* engines that publish to one store.  They share no state here, so a       *)
(* behaviour is about one: part says which.                                 *)
EXTENDS Transactions, TLC

VARIABLES
  part,
  tree, buffer, direct, scan, seen, made, ended,        \* DataSteps
  schema, declared, steps, published,                   \* SchemaChanges
  heads, history, plan, phase, todo, next, commits, opens,  \* Migration
  metadata, stored, pages, branchTable, retainTable, engines, drawn, openings,
  faults                                                \* KeyValuePublication

stepVars == <<tree, buffer, direct, scan, seen, made, ended>>
schemaVars == <<schema, declared, steps, published>>
migrationVars == <<heads, history, plan, phase, todo, next, commits, opens>>
storeVars == <<metadata, stored, pages, branchTable, retainTable, engines, drawn, openings, faults>>

Symmetry == Permutations(Calls)

-----------------------------------------------------------------------------
MCTables == {"orgs", "tasks"}
PolicyOf(kind, parent) == [kind |-> kind, parent |-> parent]

\* The kinds one table alone can have, and the chains two form, one a circle.
MCCatalogs ==
  {("orgs" :> o) @@ ("tasks" :> t) :
     o \in {PolicyOf("allow", "orgs"), PolicyOf("deny", "orgs"), PolicyOf("where", "orgs"),
            PolicyOf("through", "tasks")},
     t \in {PolicyOf("where", "tasks"), PolicyOf("through", "orgs")}}

Row(up, mine) == [up |-> up, mine |-> mine]
MCValues == {Row(k, m) : k \in Keys \union {NoKey}, m \in BOOLEAN}
MCPatches == {[mine |-> FALSE], [mine |-> TRUE]} \union {[up |-> k] : k \in Keys}
FullSnapshots ==
  {[c \in Cells |-> IF c[1] = "orgs" THEN IF c[2] = k THEN Row(NoKey, m) ELSE Absent
                    ELSE IF c[2] = k THEN Row(k, ~m) ELSE Absent] :
     k \in Keys, m \in BOOLEAN}

\* Where steps overlap, little depends on the policies and the rows.
FewCatalog == [t \in MCTables |-> PolicyOf("where", t)]
FewSnapshot == [c \in Cells |-> IF c[1] = "orgs" THEN Row(NoKey, TRUE) ELSE Absent]
FewOperands == {Row(NoKey, FALSE), [mine |-> TRUE], Absent}
MCSnapshots == FullSnapshots \union {FewSnapshot}

Few ==
  /\ snapshot = FewSnapshot <=> ~awaits
  /\ ~awaits => /\ policies = FewCatalog
                /\ \A c \in Calls : calls[c] # Idle => calls[c].value \in FewOperands

-----------------------------------------------------------------------------
Data == INSTANCE DataSteps WITH
  PrimaryColumns <- <<"id">>, Indexes <- {[name |-> "by_a", unique |-> FALSE, columns |-> <<"a">>]},
  Ids <- {1, 2}, Values <- {0, 1}, MaxCalls <- 3, pending <- buffer, calls <- made

Schemas == INSTANCE SchemaChanges WITH
  TableNames <- {"t", "u"}, ColumnNames <- {"a", "b"}, Types <- {"text", "json"},
  MaxSteps <- 3, MaxMigrations <- 2, Drops <- TRUE, pending <- steps

S == INSTANCE SchemaDescriptions
Plain(name) == S!Column(name, "text", FALSE, FALSE)
Id == S!Column("id", "id", TRUE, TRUE)
MCBase == S!Description("t" :> [columns |-> <<Id, Plain("a")>>, indexes |-> {{"a"}}])
Copy(table, from, to) ==
  [type |-> "data", table |-> table, fromColumn |-> from, toColumn |-> to]

\* A column is added and filled; its copy replaces it; a table comes and a type
\* changes.
MCList ==
  << <<S!AddColumn("t", Plain("c")), Copy("t", "a", "c")>>,
     <<S!AddColumn("t", Plain("d")), Copy("t", "c", "d"), S!DropColumn("t", Plain("c"))>>,
     <<S!AddTable("u", [columns |-> <<Id>>, indexes |-> {}]),
       S!ChangeColumn("t", Plain("d"), [Plain("d") EXCEPT !.dataType = "json"])>> >>

Migrations == INSTANCE Migration WITH
  Base <- MCBase, List <- MCList, Branches <- {"main", "side"}, Keys <- {"k"},
  MaxCommits <- 2, MaxOpens <- 3, OldBases <- FALSE

Engines == {"first", "second"}

Publishing == INSTANCE KeyValuePublication WITH
  Branches <- {"main", "side"}, Main <- "main", Names <- {"n"}, Policies <- {0, 1},
  MaxCommits <- 3, MaxRevision <- 4, MaxOpens <- 2, MaxFaults <- 1,
  commits <- stored, made <- drawn, opens <- openings

\* One of a second branch, a retention, a policy and an uncertain batch at a time.
Batches == {engines[e].batch : e \in Engines}
Sided == branchTable["side"].head # 0 \/ \E b \in Batches : "side" \in DOMAIN b.branches
Named == retainTable["n"] # 0 \/ \E b \in Batches : "n" \in DOMAIN b.retains
Kept == metadata.keep = 0 /\ metadata.revision >= 0
Features == {<<"branch", Sided>>, <<"name", Named>>, <<"policy", Kept>>, <<"fault", faults > 0>>}
FewFeatures == Cardinality({f \in Features : f[2]}) <= 1

-----------------------------------------------------------------------------
IdleTransaction == Init /\ awaits = FALSE /\ Few
IdleStep ==
  /\ tree = <<>> /\ direct = <<>> /\ buffer = <<>> /\ scan = <<>> /\ seen = <<>>
  /\ made = 0 /\ ended = "no"
IdleSchema == schema = <<>> /\ declared = <<>> /\ steps = <<>> /\ published = <<>>
IdleMigration ==
  /\ heads = <<>> /\ history = <<>> /\ plan = <<>> /\ phase = "closed"
  /\ todo = <<>> /\ next = 0 /\ commits = 0 /\ opens = 0
IdleStore ==
  /\ metadata = <<>> /\ stored = <<>> /\ pages = <<>> /\ branchTable = <<>>
  /\ retainTable = <<>> /\ engines = <<>> /\ drawn = 0 /\ openings = 0 /\ faults = 0

MCInit ==
  /\ part \in {"transaction", "step", "schema", "migration", "store"}
  /\ IF part = "transaction" THEN Init /\ Few ELSE IdleTransaction
  /\ IF part = "step" THEN Data!Init ELSE IdleStep
  /\ IF part = "schema" THEN Schemas!Init ELSE IdleSchema
  /\ IF part = "migration" THEN Migrations!Init ELSE IdleMigration
  /\ IF part = "store" THEN Publishing!Init ELSE IdleStore

MCNext ==
  \/ /\ part = "transaction" /\ Next /\ Few'
     /\ UNCHANGED <<part, stepVars, schemaVars, migrationVars, storeVars>>
  \/ /\ part = "step" /\ Data!Next
     /\ UNCHANGED <<part, vars, schemaVars, migrationVars, storeVars>>
  \/ /\ part = "schema" /\ Schemas!Next
     /\ UNCHANGED <<part, vars, stepVars, migrationVars, storeVars>>
  \/ /\ part = "migration" /\ Migrations!Next
     /\ UNCHANGED <<part, vars, stepVars, schemaVars, storeVars>>
  \/ /\ part = "store" /\ Publishing!Next /\ FewFeatures'
     /\ UNCHANGED <<part, vars, stepVars, schemaVars, migrationVars>>

MCSpec == MCInit /\ [][MCNext]_<<part, vars, stepVars, schemaVars, migrationVars, storeVars>>

-----------------------------------------------------------------------------
(* The properties of each; those of the transaction keep their names.       *)

\* Every call of a data step sees the rows as the calls before it left them, a scan those
\* of when it began, and a flush that succeeds leaves what the calls did; only a row made
\* and unmade, or a unique index, makes one fail (DataSteps).
StepIsItsCalls ==
  part = "step" =>
    /\ Data!ReadsOwnWrites /\ Data!ScansOneMoment
    /\ Data!FlushIsTheCalls /\ Data!FlushFailsOnlyFor

\* The list, walked back, gives every schema that was published; each step of the plan
\* starts where the one before ended; a difference of two schemas leads from one to the
\* other and back; a list that lost an operation is not taken for whole (SchemaChanges).
HistoryDerived ==
  part = "schema" =>
    /\ Schemas!HistoryDerived /\ Schemas!PlanLeadsThrough
    /\ Schemas!DiffRoundTrips /\ Schemas!LostStepFound

\* Each step was taken at most once, in order, on every branch that is at a schema of the
\* list, and on no other; an open storage has taken all of them; rows have the columns of
\* their schema and keep what was written under their key (Migration).
StepsTaken ==
  /\ [](part = "migration" =>
          /\ Migrations!StepsOnceInOrder /\ Migrations!OpenIsMigrated
          /\ Migrations!RowsMatchSchema /\ Migrations!NothingLost /\ Migrations!NoStepUnfit)
  /\ [][part = "migration" => Migrations!HeadsOfList]_migrationVars

\* An engine that may still publish knows what the store holds, what is named is stored,
\* and a head moves to a commit made on it, whoever publishes and collects
\* (KeyValuePublication).
OneHistory ==
  /\ [](part = "store" => Publishing!CurrentWriter /\ Publishing!StoredWhole)
  /\ [][part = "store" => Publishing!HeadAdvances]_storeVars
=============================================================================

------------------------------ MODULE MCDelivery ------------------------------
(* What reaches an application, each by itself: the branches and streams of *)
(* the in-memory storage, a live query in the browser, and the calls of     *)
(* commands.  They share no state here, so a behaviour is about one: part   *)
(* says which.  Commands come with two sets of calls: three that may be of  *)
(* the same command, and one of each form.                                  *)
EXTENDS MemoryStorage, TLC

CONSTANTS move, add, ask, c1, c2, c3

VARIABLES
  part,
  head, effects, active, begun, shown, failures,            \* GatewayQueries
  calls, inFlight, pending, server, committed, faults       \* GatewayCommands

queryVars == <<head, effects, active, begun, shown, failures>>
callVars == <<calls, inFlight, pending, server, committed, faults>>

-----------------------------------------------------------------------------
Queries == INSTANCE GatewayQueries WITH
  MaxEffects <- 2, MaxHead <- 3, MaxFaults <- 1, faults <- failures

\* The output schema accepts one result and refuses the other.
Checked == "one" :> "one" @@ "bad" :> "invalid"

\* Two calls of a command with both methods, and one of the server method alone.
Overlapping == INSTANCE GatewayCommands WITH
  Calls <- {c1, c2, c3}, CommandOf <- c1 :> move @@ c2 :> move @@ c3 :> ask,
  Names <- {move, ask}, Optimistic <- {move}, Custom <- {move, ask}, Layered <- TRUE,
  Results <- {"one", "bad"}, Parse <- Checked, Invalid <- "invalid",
  MaxApplied <- 2, MaxFaults <- 1

\* A call of each form: the optimistic method alone, the server method alone, both.
EachForm == INSTANCE GatewayCommands WITH
  Calls <- {c1, c2, c3}, CommandOf <- c1 :> add @@ c2 :> ask @@ c3 :> move,
  Names <- {move, add, ask}, Optimistic <- {move, add}, Custom <- {move, ask}, Layered <- TRUE,
  Results <- {"one", "bad"}, Parse <- Checked, Invalid <- "invalid",
  MaxApplied <- 1, MaxFaults <- 1

\* A retention meets commits; streams do not see it.
FewUsers ==
  (\E name \in Retentions : retains[name] # None) =>
    Len(commits) <= 1 /\ \A s \in Streams : streams[s] = Fresh

-----------------------------------------------------------------------------
MCInit ==
  /\ part \in {"storage", "query", "overlapping", "each"}
  /\ Init /\ Queries!Init
  /\ IF part = "overlapping" THEN Overlapping!Init ELSE EachForm!Init

MCNext ==
  \/ part = "storage" /\ Next /\ FewUsers' /\ UNCHANGED <<part, queryVars, callVars>>
  \/ part = "query" /\ Queries!Next /\ UNCHANGED <<part, vars, callVars>>
  \/ part = "overlapping" /\ Overlapping!Next /\ UNCHANGED <<part, vars, queryVars>>
  \/ part = "each" /\ EachForm!Next /\ UNCHANGED <<part, vars, queryVars>>

\* Each with the fairness of its specification; a part that is not the behaviour's
\* has no step to take.
MCSpec ==
  /\ MCInit /\ [][MCNext]_<<part, vars, queryVars, callVars>>
  /\ Fairness
  /\ Queries!Fairness
  /\ \A c \in {c1, c2, c3} : WF_callVars(part = "each" /\ EachForm!Runs(c))

-----------------------------------------------------------------------------
(* The properties of each; those of the storage keep their names.           *)

Calling == part \in {"overlapping", "each"}

\* A live query that is not loading shows its own data, or an error, and the last result
\* once its stream has said all there is; disposed, it changes no more (GatewayQueries).
ShownIsCurrent ==
  /\ [](part = "query" => Queries!SettledIsCurrent /\ Queries!LoadedIsOfNow)
  /\ [][part = "query" => Queries!Quiet]_queryVars

\* A command is pending while one of its calls is under way, the optimistic method has run
\* at most once in what commits, and a layer is told its outcome once: settled when its
\* call ends, committed when the call succeeds, rejected by an answer only when nothing
\* was committed (GatewayCommands).
LayersSettle ==
  /\ [](part = "overlapping" => Overlapping!PendingIsInFlight)
  /\ [](Calling => Overlapping!LayersEndSettled /\ Overlapping!OptimisticOnce)
  /\ [][Calling => Overlapping!SettledStays /\ Overlapping!AnswerRejects]_callVars

\* Streams deliver and end, no query loads for ever, and every call ends
\* (MemoryStorage, GatewayQueries, GatewayCommands).
EveryoneIsAnswered ==
  /\ StreamsDeliver /\ StreamsEnd
  /\ Queries!LoadingEnds
  /\ \A c \in {c1, c2, c3} :
       part = "each" /\ calls[c].at # "idle" ~> calls[c].at \in {"done", "failed"}
=============================================================================

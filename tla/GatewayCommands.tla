--------------------------- MODULE GatewayCommands ---------------------------
(***************************************************************************)
(* Commands from the browser to the database: the pending set of           *)
(* createCommandDispatcher (solid.ts), dispatch() of the gateway client    *)
(* with its optimistic layer (gateway-client.ts), the HTTP transport, and  *)
(* executeServerCommand on the server (command.ts) with its transaction,   *)
(* whose write and commit are those of Transactions and Runtime.           *)
(***************************************************************************)
EXTENDS Integers, FiniteSets

CONSTANTS
  Calls,        \* calls of dispatch()
  Names,        \* registered commands
  CommandOf,    \* command of each call
  Optimistic,   \* commands with an optimistic method
  Custom,       \* commands with a server method
  Layered,      \* BOOLEAN: the client has an OptimisticCoordinator
  Results,      \* what a server method may return
  Parse,        \* the output schema: result -> parsed result, or Invalid, which is no result
  Invalid,
  None,
  MaxApplied,   \* bound: calls of applyOptimistic() by one server method
  MaxFaults     \* bound: failures of the application or the network

VARIABLES
  calls,      \* progress of dispatch(): where it is, its layer and its result
  inFlight,   \* calls of each command that have not ended
  pending,    \* commands shown as pending
  server,     \* progress of executeServerCommand()
  committed,  \* result of the transaction of each call, or None
  faults

vars == <<calls, inFlight, pending, server, committed, faults>>

Command(c) == CommandOf[c]
\* A command without an output schema has no result, and parses that.
Parsed(value) == IF value = None THEN None ELSE Parse[value]
Fault == faults < MaxFaults /\ faults' = faults + 1

-----------------------------------------------------------------------------
(* createCommandDispatcher. *)

AdjustPending(name, change) ==
  LET count == inFlight[name] + change IN
  /\ inFlight' = [inFlight EXCEPT ![name] = count]
  /\ pending' = IF inFlight[name] = 0 /\ count = 1 THEN pending \cup {name}
                ELSE IF inFlight[name] = 1 /\ count = 0 THEN pending \ {name} ELSE pending

Goes(c, from, to) == calls[c].at = from /\ calls' = [calls EXCEPT ![c].at = to]
GoesWith(c, from, to, layer) ==
  calls[c].at = from /\ calls' = [calls EXCEPT ![c].at = to, ![c].layer = layer]

\* dispatch() returns or throws, and the dispatcher's finally block runs.
Ends(c, from, to, layer) == GoesWith(c, from, to, layer) /\ AdjustPending(Command(c), -1)

-----------------------------------------------------------------------------
(* dispatch() of the gateway client. *)

Dispatch(c) ==
  /\ Goes(c, "idle", IF Layered /\ Command(c) \in Optimistic THEN "beginning" ELSE "parsing")
  /\ AdjustPending(Command(c), 1)
  /\ UNCHANGED <<server, committed, faults>>

\* options.optimistic.begin(request)
Begin(c) ==
  /\ \/ GoesWith(c, "beginning", "applying", "open") /\ UNCHANGED <<inFlight, pending, faults>>
     \/ Ends(c, "beginning", "failed", "none") /\ Fault
  /\ UNCHANGED <<server, committed>>

\* The input is parsed and the optimistic method run, then layer.applied() awaited.
ApplyLayer(c) ==
  /\ \/ Goes(c, "applying", "sending") /\ UNCHANGED faults
     \/ Goes(c, "applying", "rejecting") /\ Fault
  /\ UNCHANGED <<inFlight, pending, server, committed>>

ParseInput(c) ==
  /\ \/ Goes(c, "parsing", "sending") /\ UNCHANGED <<inFlight, pending, faults>>
     \/ Ends(c, "parsing", "failed", "none") /\ Fault
  /\ UNCHANGED <<server, committed>>

\* transport.dispatch(request): the POST, which may not get there.
Send(c) ==
  /\ \/ Goes(c, "sending", "waiting") /\ server' = [server EXCEPT ![c].at = "received"]
        /\ UNCHANGED faults
     \/ Goes(c, "sending", "rejecting") /\ Fault /\ UNCHANGED server
  /\ UNCHANGED <<inFlight, pending, committed>>

\* The answer: an error, or a result the client parses in its turn.
ReceiveAnswer(c) ==
  /\ server[c].at \in {"answered", "failed"}
  /\ LET result == IF server[c].at = "failed" THEN Invalid ELSE Parsed(server[c].answer) IN
     IF result = Invalid THEN Goes(c, "waiting", "rejecting")
     ELSE /\ calls[c].at = "waiting"
          /\ calls' = [calls EXCEPT ![c].at = "acknowledging", ![c].result = result]
  /\ UNCHANGED <<inFlight, pending, server, committed, faults>>

\* The connection breaks while the client waits; the server goes on.
LoseAnswer(c) ==
  /\ Goes(c, "waiting", "rejecting") /\ Fault
  /\ UNCHANGED <<inFlight, pending, server, committed>>

Settled(c, layer) == IF calls[c].layer = "none" THEN "none" ELSE layer

\* layer.acknowledged(response); its failure is passed on and the layer left to its owner.
Acknowledge(c) ==
  /\ \/ Ends(c, "acknowledging", "done", Settled(c, "acknowledged")) /\ UNCHANGED faults
     \/ /\ calls[c].layer # "none" /\ Fault
        /\ Ends(c, "acknowledging", "failed", "unacknowledged")
  /\ UNCHANGED <<server, committed>>

\* rejectOptimisticLayer
RejectLayer(c) ==
  /\ \/ Ends(c, "rejecting", "failed", Settled(c, "rejected")) /\ UNCHANGED faults
     \/ /\ calls[c].layer # "none" /\ Fault
        /\ Ends(c, "rejecting", "failed", "unrejected")
  /\ UNCHANGED <<server, committed>>

-----------------------------------------------------------------------------
(* executeServerCommand. *)

Client == <<calls, inFlight, pending>>

Fails(c, from) == server[c].at = from /\ server' = [server EXCEPT ![c].at = "failed"]

\* The principal and the input are parsed and the transaction begins.
Execute(c) ==
  /\ \/ /\ server[c].at = "received" /\ server' = [server EXCEPT ![c].at = "running"]
        /\ UNCHANGED faults
     \/ Fails(c, "received") /\ Fault
  /\ UNCHANGED <<Client, committed>>

\* Without a server method applyOptimistic() is the command.
MayApply(c) == IF Command(c) \in Custom THEN MaxApplied ELSE 1

\* Mutant: the command is marked as applied when the optimistic method has ended.
ApplyOptimisticLate(c) ==
  /\ server[c].at = "running" /\ server[c].applies < MayApply(c)
  /\ \/ /\ ~server[c].applied /\ Command(c) \in Optimistic
        /\ server' = [server EXCEPT ![c].applies = @ + 1, ![c].ran = @ + 1]
     \/ /\ server[c].ran > 0 /\ ~server[c].applied
        /\ server' = [server EXCEPT ![c].applied = TRUE]
  /\ UNCHANGED <<Client, committed, faults>>

\* applyOptimistic(), which a server method may call without awaiting the call before; a
\* second call throws, and the method may catch that.
ApplyOptimistic(c) ==
  /\ server[c].at = "running" /\ server[c].applies < MayApply(c)
  /\ \/ /\ ~server[c].applied /\ Command(c) \in Optimistic
        /\ server' = [server EXCEPT ![c].applies = @ + 1, ![c].applied = TRUE, ![c].ran = @ + 1]
     \/ /\ server[c].applied \/ Command(c) \notin Optimistic
        /\ \/ server' = [server EXCEPT ![c].applies = @ + 1]
           \/ server' = [server EXCEPT ![c].at = "failed"]
  /\ UNCHANGED <<Client, committed, faults>>

\* What the method returned; without one the optimistic method has run and there is nothing.
Returns(c) ==
  IF Command(c) \in Custom THEN Results ELSE IF server[c].ran = 1 THEN {None} ELSE {}

\* The method returns, its result is parsed within the transaction, and the transaction
\* commits; a method that throws, an output that does not parse or a conflict aborts it.
Commit(c) ==
  /\ server[c].at = "running"
  /\ \/ /\ UNCHANGED faults
        /\ \E value \in Returns(c) :
             \/ Parsed(value) = Invalid /\ Fails(c, "running") /\ UNCHANGED committed
             \/ /\ Parsed(value) # Invalid
                /\ server' = [server EXCEPT ![c].at = "answered", ![c].answer = Parsed(value)]
                /\ committed' = [committed EXCEPT ![c] = {Parsed(value)}]
     \/ Fails(c, "running") /\ Fault /\ UNCHANGED committed
  /\ UNCHANGED Client

-----------------------------------------------------------------------------
Init ==
  /\ calls = [c \in Calls |-> [at |-> "idle", layer |-> "none", result |-> None]]
  /\ inFlight = [name \in Names |-> 0] /\ pending = {}
  /\ server = [c \in Calls |-> [at |-> "idle", applied |-> FALSE, applies |-> 0, ran |-> 0,
                                answer |-> None]]
  /\ committed = [c \in Calls |-> {}] /\ faults = 0

Runs(c) ==
  \/ Begin(c) \/ ApplyLayer(c) \/ ParseInput(c) \/ Send(c) \/ ReceiveAnswer(c)
  \/ Acknowledge(c) \/ RejectLayer(c) \/ Execute(c) \/ Commit(c)
  \/ Command(c) \notin Custom /\ ApplyOptimistic(c)

Next ==
  \E c \in Calls : Dispatch(c) \/ Runs(c) \/ LoseAnswer(c) \/ ApplyOptimistic(c)

\* A call that was made goes on: what it awaits is answered or fails.
Spec == Init /\ [][Next]_vars /\ \A c \in Calls : WF_vars(Runs(c))

-----------------------------------------------------------------------------
\* A command is shown as pending exactly while one of its calls is under way, however calls of
\* one command overlap (adjustPending).
PendingIsInFlight ==
  pending = {Command(c) : c \in {d \in Calls : calls[d].at \notin {"idle", "done", "failed"}}}

\* A layer is told its outcome once: acknowledged or rejected, also if being told fails
\* ("an error from acknowledged propagates without automatically invoking rejected").
SettledStays ==
  \A c \in Calls : calls[c].layer \notin {"none", "open"} => calls'[c].layer = calls[c].layer
LayersSettleOnce == [][SettledStays]_vars

\* An answer of the server rejects a layer only if nothing was committed; only a lost answer
\* leaves the client with the wrong idea (the output is parsed within the transaction).
AnswerRejects ==
  \A c \in Calls : calls[c].at = "waiting" /\ calls'[c].at = "rejecting" /\ faults' = faults
                     => committed[c] = {}
RejectedIsUncommitted == [][AnswerRejects]_vars

\* A layer whose call has ended is not left open, and an acknowledged one is committed.
LayersEndSettled ==
  \A c \in Calls : /\ calls[c].at \in {"done", "failed"} => calls[c].layer # "open"
                   /\ calls[c].at = "done" => committed[c] # {}

\* What commits has run the optimistic method at most once, also if the server method calls
\* applyOptimistic() twice without awaiting it ("may be called at most once").
OptimisticOnce == \A c \in Calls : committed[c] # {} => server[c].ran <= 1

\* Every call of dispatch() ends, and its command is not shown as pending for ever.
CallsEnd == \A c \in Calls : calls[c].at # "idle" ~> calls[c].at \in {"done", "failed"}

\* The caller gets the output the transaction returned: "output is parsed before it crosses the
\* command boundary" (packages/hyapp/skills/hyapp/references/commands.md).
ResultIsCommitted == \A c \in Calls : calls[c].at = "done" => committed[c] = {calls[c].result}
=============================================================================

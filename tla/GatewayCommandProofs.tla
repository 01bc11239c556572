------------------------- MODULE GatewayCommandProofs -------------------------
(***************************************************************************)
(* How calls of commands settle, for any calls, commands and failures:     *)
(* proofs about module GatewayCommands.                                    *)
(***************************************************************************)
EXTENDS GatewayCommands, FiniteSetTheorems, TLAPS

-----------------------------------------------------------------------------
(* The inductive invariant. *)

\* Where dispatch() is before it has a layer, while one may be open, and when it has ended.
Early == {"idle", "beginning", "parsing"}
Late == {"sending", "waiting", "acknowledging", "rejecting"}
Over == {"done", "failed"}
Outcomes == {"acknowledged", "rejected", "unacknowledged", "unrejected"}

Answers == {None} \union ({Parsed(value) : value \in Results} \ {Invalid})
Outputs == {Parsed(value) : value \in Answers}

CallRecord ==
  [at : Early \union {"applying"} \union Late \union Over,
   layer : {"none", "open"} \union Outcomes, result : {None} \union Outputs]
ServerRecord ==
  [at : {"idle", "received", "running", "answered", "failed"}, applied : BOOLEAN,
   applies : Nat, ran : Nat, answer : Answers]

CallTypeOK ==
  /\ calls \in [Calls -> CallRecord] /\ server \in [Calls -> ServerRecord]
  /\ inFlight \in [Names -> Nat] /\ pending \subseteq Names
  /\ committed \in [Calls -> SUBSET Answers] /\ faults \in Nat

\* The calls of a command that are under way.
UnderWay(name) == {c \in Calls : Command(c) = name /\ calls[c].at \notin {"idle"} \union Over}

\* The number kept of each command is that of its calls, and none means not pending.
Counted ==
  \A name \in Names : /\ inFlight[name] = Cardinality(UnderWay(name))
                      /\ name \in pending <=> inFlight[name] > 0

\* How far the layer, the server and the transaction of a call are when it is where it is.
Fits(at, layer, result, serves, applied, ran, answer, transaction) ==
  /\ at \in Early => layer = "none"
  /\ at = "applying" => layer = "open"
  /\ at \in Late => layer \in {"none", "open"}
  /\ at \in Over => layer # "open"
  /\ at \in Early \union {"applying", "sending"} => serves = "idle"
  /\ at \in {"acknowledging", "done"} =>
       serves = "answered" /\ result = Parsed(answer) /\ result # Invalid
  /\ ran <= 1 /\ (~applied => ran = 0)
  /\ transaction = IF serves = "answered" THEN {answer} ELSE {}
  /\ serves = "answered" => answer # Invalid

InStep ==
  \A c \in Calls :
    Fits(calls[c].at, calls[c].layer, calls[c].result, server[c].at, server[c].applied,
         server[c].ran, server[c].answer, committed[c])

Constants == IsFiniteSet(Calls) /\ CommandOf \in [Calls -> Names]
CallsInv == Constants /\ CallTypeOK /\ Counted /\ InStep

-----------------------------------------------------------------------------
(* What a step does to one call and to its server. *)

\* Nothing changes in the calls but this one, which is now there.
Moved(c, at, layer, result) ==
  /\ calls' \in [Calls -> CallRecord]
  /\ calls'[c].at = at /\ calls'[c].layer = layer /\ calls'[c].result = result
  /\ \A d \in Calls : d # c => calls'[d] = calls[d]

Serves(c, at, applied, ran, answer) ==
  /\ server' \in [Calls -> ServerRecord]
  /\ server'[c].at = at /\ server'[c].applied = applied
  /\ server'[c].ran = ran /\ server'[c].answer = answer
  /\ \A d \in Calls : d # c => server'[d] = server[d]

Ats == Early \union {"applying"} \union Late \union Over
Layers == {"none", "open"} \union Outcomes
ServerAts == {"idle", "received", "running", "answered", "failed"}

LEMMA GoesMoves ==
  ASSUME CallTypeOK, NEW c \in Calls, NEW from, NEW to \in Ats, Goes(c, from, to)
  PROVE  calls[c].at = from /\ Moved(c, to, calls[c].layer, calls[c].result)
<1>1. calls[c] \in CallRecord
  BY DEF CallTypeOK
<1> DEFINE after == [calls[c] EXCEPT !.at = to]
<1>2. after \in CallRecord
  BY <1>1 DEF CallRecord, Ats
<1>3. after.at = to /\ after.layer = calls[c].layer /\ after.result = calls[c].result
  BY <1>1 DEF CallRecord
<1>4. calls' = [calls EXCEPT ![c] = after]
  BY DEF Goes, CallTypeOK
<1> HIDE DEF after
<1>. QED BY <1>2, <1>3, <1>4 DEF Moved, CallTypeOK, Goes

LEMMA GoesWithMoves ==
  ASSUME CallTypeOK, NEW c \in Calls, NEW from, NEW to \in Ats, NEW layer \in Layers,
         GoesWith(c, from, to, layer)
  PROVE  calls[c].at = from /\ Moved(c, to, layer, calls[c].result)
<1>1. calls[c] \in CallRecord
  BY DEF CallTypeOK
<1> DEFINE after == [calls[c] EXCEPT !.at = to, !.layer = layer]
<1>2. after \in CallRecord
  BY <1>1 DEF CallRecord, Ats, Layers
<1>3. after.at = to /\ after.layer = layer /\ after.result = calls[c].result
  BY <1>1 DEF CallRecord
<1>4. calls' = [calls EXCEPT ![c] = after]
  BY DEF GoesWith, CallTypeOK
<1> HIDE DEF after
<1>. QED BY <1>2, <1>3, <1>4 DEF Moved, CallTypeOK, GoesWith

LEMMA AnswerMoves ==
  ASSUME CallTypeOK, NEW c \in Calls, NEW result \in {None} \union Outputs,
         calls' = [calls EXCEPT ![c].at = "acknowledging", ![c].result = result]
  PROVE  Moved(c, "acknowledging", calls[c].layer, result)
<1>1. calls[c] \in CallRecord
  BY DEF CallTypeOK
<1> DEFINE after == [calls[c] EXCEPT !.at = "acknowledging", !.result = result]
<1>2. after \in CallRecord
  BY <1>1 DEF CallRecord, Late
<1>3. after.at = "acknowledging" /\ after.layer = calls[c].layer /\ after.result = result
  BY <1>1 DEF CallRecord
<1>4. calls' = [calls EXCEPT ![c] = after]
  BY DEF CallTypeOK
<1> HIDE DEF after
<1>. QED BY <1>2, <1>3, <1>4 DEF Moved, CallTypeOK

LEMMA ServerMoves ==
  ASSUME CallTypeOK, NEW c \in Calls, NEW at \in ServerAts,
         server' = [server EXCEPT ![c].at = at]
  PROVE  Serves(c, at, server[c].applied, server[c].ran, server[c].answer)
<1>1. server[c] \in ServerRecord
  BY DEF CallTypeOK
<1> DEFINE after == [server[c] EXCEPT !.at = at]
<1>2. after \in ServerRecord
  BY <1>1 DEF ServerRecord, ServerAts
<1>3. /\ after.at = at /\ after.applied = server[c].applied
      /\ after.ran = server[c].ran /\ after.answer = server[c].answer
  BY <1>1 DEF ServerRecord
<1>4. server' = [server EXCEPT ![c] = after]
  BY DEF CallTypeOK
<1> HIDE DEF after
<1>. QED BY <1>2, <1>3, <1>4 DEF Serves, CallTypeOK

LEMMA ServerAnswers ==
  ASSUME CallTypeOK, NEW c \in Calls, NEW answer \in Answers,
         server' = [server EXCEPT ![c].at = "answered", ![c].answer = answer]
  PROVE  Serves(c, "answered", server[c].applied, server[c].ran, answer)
<1>1. server[c] \in ServerRecord
  BY DEF CallTypeOK
<1> DEFINE after == [server[c] EXCEPT !.at = "answered", !.answer = answer]
<1>2. after \in ServerRecord
  BY <1>1 DEF ServerRecord
<1>3. /\ after.at = "answered" /\ after.applied = server[c].applied
      /\ after.ran = server[c].ran /\ after.answer = answer
  BY <1>1 DEF ServerRecord
<1>4. server' = [server EXCEPT ![c] = after]
  BY DEF CallTypeOK
<1> HIDE DEF after
<1>. QED BY <1>2, <1>3, <1>4 DEF Serves, CallTypeOK

LEMMA ServerApplies ==
  ASSUME CallTypeOK, NEW c \in Calls,
         server' = [server EXCEPT ![c].applies = @ + 1, ![c].applied = TRUE, ![c].ran = @ + 1]
  PROVE  Serves(c, server[c].at, TRUE, server[c].ran + 1, server[c].answer)
<1>1. server[c] \in ServerRecord
  BY DEF CallTypeOK
<1> DEFINE applies == server[c].applies + 1
           ran == server[c].ran + 1
           after == [server[c] EXCEPT !.applies = applies, !.applied = TRUE, !.ran = ran]
<1>2. applies \in Nat /\ ran \in Nat
  BY <1>1 DEF ServerRecord
<1>4. server' = [server EXCEPT ![c] = after]
  BY DEF CallTypeOK
<1> HIDE DEF applies, ran
<1>5. after \in ServerRecord
  BY <1>1, <1>2 DEF ServerRecord
<1>3. /\ after.at = server[c].at /\ after.applied = TRUE
      /\ after.ran = ran /\ after.answer = server[c].answer
  BY <1>1 DEF ServerRecord
<1> HIDE DEF after
<1>. QED BY <1>3, <1>4, <1>5 DEF Serves, CallTypeOK, ran

LEMMA ServerRefuses ==
  ASSUME CallTypeOK, NEW c \in Calls, server' = [server EXCEPT ![c].applies = @ + 1]
  PROVE  Serves(c, server[c].at, server[c].applied, server[c].ran, server[c].answer)
<1>1. server[c] \in ServerRecord
  BY DEF CallTypeOK
<1> DEFINE applies == server[c].applies + 1
           after == [server[c] EXCEPT !.applies = applies]
<1>2. applies \in Nat
  BY <1>1 DEF ServerRecord
<1>4. server' = [server EXCEPT ![c] = after]
  BY DEF CallTypeOK
<1> HIDE DEF applies
<1>5. after \in ServerRecord
  BY <1>1, <1>2 DEF ServerRecord
<1>3. /\ after.at = server[c].at /\ after.applied = server[c].applied
      /\ after.ran = server[c].ran /\ after.answer = server[c].answer
  BY <1>1 DEF ServerRecord
<1> HIDE DEF after
<1>. QED BY <1>3, <1>4, <1>5 DEF Serves, CallTypeOK

-----------------------------------------------------------------------------
(* The count of the calls under way. *)

Going(at) == at \notin {"idle"} \union Over

LEMMA CountStays ==
  ASSUME CallsInv, NEW c \in Calls, NEW at, NEW layer, NEW result, Moved(c, at, layer, result),
         Going(calls[c].at), Going(at), UNCHANGED <<inFlight, pending>>
  PROVE  Counted'
<1>1. \A name \in Names : UnderWay(name)' = UnderWay(name)
  BY DEF UnderWay, Going, Moved, Command
<1>. QED BY <1>1 DEF CallsInv, Counted

LEMMA CountGrows ==
  ASSUME CallsInv, NEW c \in Calls, NEW at, NEW layer, NEW result, Moved(c, at, layer, result),
         ~Going(calls[c].at), Going(at), AdjustPending(Command(c), 1)
  PROVE  Counted' /\ inFlight' \in [Names -> Nat] /\ pending' \subseteq Names
<1> DEFINE own == Command(c)
<1>1. own \in Names /\ inFlight \in [Names -> Nat] /\ pending \subseteq Names
  BY DEF CallsInv, Constants, CallTypeOK, Command
<1>2. inFlight' = [inFlight EXCEPT ![own] = inFlight[own] + 1]
  BY DEF AdjustPending
<1>3. \A name \in Names : name # own => UnderWay(name)' = UnderWay(name)
  BY DEF UnderWay, Moved, Command
<1>4. UnderWay(own)' = UnderWay(own) \union {c} /\ c \notin UnderWay(own)
  BY DEF UnderWay, Going, Moved, Command
<1>5. IsFiniteSet(UnderWay(own))
  <2>1. UnderWay(own) \subseteq Calls /\ IsFiniteSet(Calls)
    BY DEF UnderWay, CallsInv, Constants
  <2>. QED BY <2>1, FS_Subset
<1>6. Cardinality(UnderWay(own)') = Cardinality(UnderWay(own)) + 1
  BY <1>4, <1>5, FS_AddElement
<1>7. pending' = IF inFlight[own] = 0 THEN pending \union {own} ELSE pending
  BY <1>1 DEF AdjustPending, CallsInv, Counted
<1>. QED BY <1>1, <1>2, <1>3, <1>6, <1>7 DEF CallsInv, Counted

LEMMA CountFalls ==
  ASSUME CallsInv, NEW c \in Calls, NEW at, NEW layer, NEW result, Moved(c, at, layer, result),
         Going(calls[c].at), ~Going(at), AdjustPending(Command(c), -1)
  PROVE  Counted' /\ inFlight' \in [Names -> Nat] /\ pending' \subseteq Names
<1> DEFINE own == Command(c)
<1>1. own \in Names /\ inFlight \in [Names -> Nat] /\ pending \subseteq Names
  BY DEF CallsInv, Constants, CallTypeOK, Command
<1>2. inFlight' = [inFlight EXCEPT ![own] = inFlight[own] + (-1)]
  BY DEF AdjustPending
<1>3. \A name \in Names : name # own => UnderWay(name)' = UnderWay(name)
  BY DEF UnderWay, Moved, Command
<1>4. UnderWay(own)' = UnderWay(own) \ {c} /\ c \in UnderWay(own)
  BY DEF UnderWay, Going, Moved, Command
<1>5. IsFiniteSet(UnderWay(own))
  <2>1. UnderWay(own) \subseteq Calls /\ IsFiniteSet(Calls)
    BY DEF UnderWay, CallsInv, Constants
  <2>. QED BY <2>1, FS_Subset
<1>6. Cardinality(UnderWay(own)') = Cardinality(UnderWay(own)) - 1
  BY <1>4, <1>5, FS_RemoveElement
<1>8. Cardinality(UnderWay(own)) \in Nat /\ Cardinality(UnderWay(own)) # 0
  BY <1>4, <1>5, FS_CardinalityType, FS_EmptySet
<1>7. pending' = IF inFlight[own] = 1 THEN pending \ {own} ELSE pending
  BY <1>1, <1>8 DEF AdjustPending, CallsInv, Counted
<1>. QED BY <1>1, <1>2, <1>3, <1>6, <1>7, <1>8 DEF CallsInv, Counted

-----------------------------------------------------------------------------
(* Each step keeps the invariant. *)

\* A step of the client that goes on: its server and transaction are as they were.
LEMMA ClientGoes ==
  ASSUME CallsInv, NEW c \in Calls, NEW at, NEW layer, NEW result, Moved(c, at, layer, result),
         Fits(at, layer, result, server[c].at, server[c].applied, server[c].ran,
              server[c].answer, committed[c]),
         UNCHANGED <<server, committed>>, Counted', inFlight' \in [Names -> Nat],
         pending' \subseteq Names, faults' \in Nat
  PROVE  CallsInv'
<1>1. CallTypeOK'
  BY DEF CallsInv, CallTypeOK, Moved
<1>2. InStep'
  BY DEF CallsInv, InStep, Moved
<1>. QED BY <1>1, <1>2 DEF CallsInv, Constants

\* A step of the server: the client is where it was.
LEMMA ServerGoes ==
  ASSUME CallsInv, NEW c \in Calls, NEW at, NEW applied, NEW ran, NEW answer,
         Serves(c, at, applied, ran, answer), UNCHANGED Client, faults' \in Nat,
         committed' \in [Calls -> SUBSET Answers],
         \A d \in Calls : d # c => committed'[d] = committed[d],
         Fits(calls[c].at, calls[c].layer, calls[c].result, at, applied, ran, answer,
              committed'[c])
  PROVE  CallsInv'
<1>1. CallTypeOK'
  BY DEF CallsInv, CallTypeOK, Serves, Client
<1>2. InStep'
  BY DEF CallsInv, InStep, Serves, Client
<1>3. Counted'
  BY DEF CallsInv, Counted, UnderWay, Client, Command
<1>. QED BY <1>1, <1>2, <1>3 DEF CallsInv, Constants

\* What is known of a call before it steps.
LEMMA Stands ==
  ASSUME CallsInv, NEW c \in Calls
  PROVE  /\ CallTypeOK /\ calls[c].layer \in Layers /\ faults \in Nat /\ server[c].answer \in Answers
         /\ server[c].ran \in Nat /\ server[c].at \in ServerAts
         /\ committed \in [Calls -> SUBSET Answers]
         /\ Fits(calls[c].at, calls[c].layer, calls[c].result, server[c].at, server[c].applied,
                 server[c].ran, server[c].answer, committed[c])
         /\ inFlight \in [Names -> Nat] /\ pending \subseteq Names
BY DEF CallsInv, CallTypeOK, InStep, CallRecord, ServerRecord, Layers, ServerAts

\* A failure that a bound allows is one more.
LEMMA FaultCounts ==
  ASSUME faults \in Nat, Fault PROVE faults' \in Nat /\ faults' # faults
BY DEF Fault

LEMMA DispatchInv ==
  ASSUME CallsInv, NEW c \in Calls, Dispatch(c) PROVE CallsInv'
<1> DEFINE to == IF Layered /\ Command(c) \in Optimistic THEN "beginning" ELSE "parsing"
<1>1. to \in {"beginning", "parsing"} /\ to \in Ats
  BY DEF Ats, Early
<1>2. Goes(c, "idle", to)
  BY DEF Dispatch
<1> HIDE DEF to
<1>3. calls[c].at = "idle" /\ Moved(c, to, calls[c].layer, calls[c].result)
  BY <1>1, <1>2, GoesMoves, Stands
<1>4. Counted' /\ inFlight' \in [Names -> Nat] /\ pending' \subseteq Names
  BY <1>1, <1>3, CountGrows DEF Dispatch, Going, Over
<1>5. Fits(to, calls[c].layer, calls[c].result, server[c].at, server[c].applied,
           server[c].ran, server[c].answer, committed[c])
  BY <1>1, <1>3, Stands DEF Fits, Early, Late, Over
<1>. QED BY <1>3, <1>4, <1>5, ClientGoes, Stands DEF Dispatch

\* A call that ends: done with a result, or failed; its layer is not left open.
LEMMA EndsInv ==
  ASSUME CallsInv, NEW c \in Calls, NEW from \in {"beginning", "parsing", "acknowledging", "rejecting"},
         NEW to \in Over, NEW layer \in {"none"} \union Outcomes, Ends(c, from, to, layer),
         to = "done" => from = "acknowledging",
         UNCHANGED <<server, committed>>, faults' \in Nat
  PROVE  CallsInv'
<1>1. to \in Ats /\ layer \in Layers
  BY DEF Ats, Layers
<1>2. calls[c].at = from /\ Moved(c, to, layer, calls[c].result)
  BY <1>1, GoesWithMoves, Stands DEF Ends
<1>3. Counted' /\ inFlight' \in [Names -> Nat] /\ pending' \subseteq Names
  BY <1>1, <1>2, CountFalls DEF Ends, Going, Over
<1>4. Fits(to, layer, calls[c].result, server[c].at, server[c].applied,
           server[c].ran, server[c].answer, committed[c])
  BY <1>1, <1>2, Stands DEF Fits, Early, Late, Over, Outcomes
<1>. QED BY <1>2, <1>3, <1>4, ClientGoes

\* A call that goes from one point under way to another.
LEMMA GoesInv ==
  ASSUME CallsInv, NEW c \in Calls, NEW from, NEW to \in Ats, Goes(c, from, to),
         Going(from), Going(to),
         Fits(to, calls[c].layer, calls[c].result, server[c].at, server[c].applied,
              server[c].ran, server[c].answer, committed[c]),
         UNCHANGED <<inFlight, pending, server, committed>>, faults' \in Nat
  PROVE  CallsInv'
<1>1. calls[c].at = from /\ Moved(c, to, calls[c].layer, calls[c].result)
  BY GoesMoves, Stands
<1>2. Counted'
  BY <1>1, CountStays
<1>. QED BY <1>1, <1>2, ClientGoes, Stands

LEMMA BeginInv ==
  ASSUME CallsInv, NEW c \in Calls, Begin(c) PROVE CallsInv'
<1>1. CASE GoesWith(c, "beginning", "applying", "open") /\ UNCHANGED <<inFlight, pending, faults>>
  <2>1. "applying" \in Ats /\ "open" \in Layers
    BY DEF Ats, Layers
  <2>2. calls[c].at = "beginning" /\ Moved(c, "applying", "open", calls[c].result)
    BY <1>1, <2>1, GoesWithMoves, Stands
  <2>3. Counted'
    BY <1>1, <2>2, CountStays DEF Going, Over
  <2>4. Fits("applying", "open", calls[c].result, server[c].at, server[c].applied,
             server[c].ran, server[c].answer, committed[c])
    BY <2>2, Stands DEF Fits, Early, Late, Over
  <2>. QED BY <1>1, <2>2, <2>3, <2>4, ClientGoes, Stands DEF Begin
<1>2. CASE Ends(c, "beginning", "failed", "none") /\ Fault
  BY <1>2, EndsInv, FaultCounts, Stands DEF Begin, Over
<1>. QED BY <1>1, <1>2 DEF Begin

LEMMA ApplyLayerInv ==
  ASSUME CallsInv, NEW c \in Calls, ApplyLayer(c) PROVE CallsInv'
<1>1. ASSUME NEW to \in {"sending", "rejecting"}, Goes(c, "applying", to), faults' \in Nat
      PROVE CallsInv'
  <2>1. to \in Ats /\ Going("applying") /\ Going(to)
    BY DEF Ats, Late, Going, Over
  <2>2. Fits(to, calls[c].layer, calls[c].result, server[c].at, server[c].applied,
             server[c].ran, server[c].answer, committed[c])
    BY <1>1, Stands DEF Fits, Early, Late, Over, Goes
  <2>. QED BY <1>1, <2>1, <2>2, GoesInv DEF ApplyLayer
<1>. QED BY <1>1, FaultCounts, Stands DEF ApplyLayer

LEMMA ParseInputInv ==
  ASSUME CallsInv, NEW c \in Calls, ParseInput(c) PROVE CallsInv'
<1>1. CASE Goes(c, "parsing", "sending") /\ UNCHANGED <<inFlight, pending, faults>>
  <2>1. "sending" \in Ats /\ Going("parsing") /\ Going("sending")
    BY DEF Ats, Late, Going, Over
  <2>2. Fits("sending", calls[c].layer, calls[c].result, server[c].at, server[c].applied,
             server[c].ran, server[c].answer, committed[c])
    BY <1>1, Stands DEF Fits, Early, Late, Over, Goes
  <2>. QED BY <1>1, <2>1, <2>2, GoesInv, Stands DEF ParseInput
<1>2. CASE Ends(c, "parsing", "failed", "none") /\ Fault
  BY <1>2, EndsInv, FaultCounts, Stands DEF ParseInput, Over
<1>. QED BY <1>1, <1>2 DEF ParseInput

LEMMA LoseAnswerInv ==
  ASSUME CallsInv, NEW c \in Calls, LoseAnswer(c) PROVE CallsInv'
<1>1. "rejecting" \in Ats /\ Going("waiting") /\ Going("rejecting")
  BY DEF Ats, Late, Going, Over
<1>2. Fits("rejecting", calls[c].layer, calls[c].result, server[c].at, server[c].applied,
           server[c].ran, server[c].answer, committed[c])
  BY Stands DEF Fits, Early, Late, Over, LoseAnswer, Goes
<1>. QED BY <1>1, <1>2, GoesInv, FaultCounts, Stands DEF LoseAnswer

LEMMA ReceiveAnswerInv ==
  ASSUME CallsInv, NEW c \in Calls, ReceiveAnswer(c) PROVE CallsInv'
<1> DEFINE result == IF server[c].at = "failed" THEN Invalid ELSE Parsed(server[c].answer)
<1>1. CASE result = Invalid
  <2>1. Goes(c, "waiting", "rejecting")
    BY <1>1 DEF ReceiveAnswer
  <2>2. "rejecting" \in Ats /\ Going("waiting") /\ Going("rejecting")
    BY DEF Ats, Late, Going, Over
  <2>3. Fits("rejecting", calls[c].layer, calls[c].result, server[c].at, server[c].applied,
             server[c].ran, server[c].answer, committed[c])
    BY <2>1, Stands DEF Fits, Early, Late, Over, Goes
  <2>. QED BY <2>1, <2>2, <2>3, GoesInv, Stands DEF ReceiveAnswer
<1>2. CASE result # Invalid
  <2>1. /\ calls[c].at = "waiting" /\ server[c].at = "answered"
        /\ calls' = [calls EXCEPT ![c].at = "acknowledging", ![c].result = result]
    BY <1>2 DEF ReceiveAnswer
  <2>2. result = Parsed(server[c].answer) /\ result \in Outputs
    BY <2>1, Stands DEF Outputs
  <2> HIDE DEF result
  <2>3. Moved(c, "acknowledging", calls[c].layer, result)
    BY <2>1, <2>2, AnswerMoves, Stands
  <2>4. Counted'
    BY <2>1, <2>3, CountStays DEF Going, Over, ReceiveAnswer
  <2>5. Fits("acknowledging", calls[c].layer, result, server[c].at, server[c].applied,
             server[c].ran, server[c].answer, committed[c])
    BY <1>2, <2>1, <2>2, Stands DEF Fits, Early, Late, Over
  <2>. QED BY <2>3, <2>4, <2>5, ClientGoes, Stands DEF ReceiveAnswer
<1>. QED BY <1>1, <1>2

LEMMA AcknowledgeInv ==
  ASSUME CallsInv, NEW c \in Calls, Acknowledge(c) PROVE CallsInv'
<1>1. CASE Ends(c, "acknowledging", "done", Settled(c, "acknowledged")) /\ UNCHANGED faults
  <2>1. Settled(c, "acknowledged") \in {"none"} \union Outcomes
    BY DEF Settled, Outcomes
  <2>. QED BY <1>1, <2>1, EndsInv, Stands DEF Acknowledge, Over
<1>2. CASE Fault /\ Ends(c, "acknowledging", "failed", "unacknowledged")
  BY <1>2, EndsInv, FaultCounts, Stands DEF Acknowledge, Over, Outcomes
<1>. QED BY <1>1, <1>2 DEF Acknowledge

LEMMA RejectLayerInv ==
  ASSUME CallsInv, NEW c \in Calls, RejectLayer(c) PROVE CallsInv'
<1>1. CASE Ends(c, "rejecting", "failed", Settled(c, "rejected")) /\ UNCHANGED faults
  <2>1. Settled(c, "rejected") \in {"none"} \union Outcomes
    BY DEF Settled, Outcomes
  <2>. QED BY <1>1, <2>1, EndsInv, Stands DEF RejectLayer, Over
<1>2. CASE Fault /\ Ends(c, "rejecting", "failed", "unrejected")
  BY <1>2, EndsInv, FaultCounts, Stands DEF RejectLayer, Over, Outcomes
<1>. QED BY <1>1, <1>2 DEF RejectLayer

LEMMA SendInv ==
  ASSUME CallsInv, NEW c \in Calls, Send(c) PROVE CallsInv'
<1>1. CASE Goes(c, "sending", "rejecting") /\ Fault /\ UNCHANGED server
  <2>1. "rejecting" \in Ats /\ Going("sending") /\ Going("rejecting")
    BY DEF Ats, Late, Going, Over
  <2>2. Fits("rejecting", calls[c].layer, calls[c].result, server[c].at, server[c].applied,
             server[c].ran, server[c].answer, committed[c])
    BY <1>1, Stands DEF Fits, Early, Late, Over, Goes
  <2>. QED BY <1>1, <2>1, <2>2, GoesInv, FaultCounts, Stands DEF Send
<1>2. CASE /\ Goes(c, "sending", "waiting") /\ server' = [server EXCEPT ![c].at = "received"]
           /\ UNCHANGED faults
  <2>1. "waiting" \in Ats /\ "received" \in ServerAts
    BY DEF Ats, Late, ServerAts
  <2>2. calls[c].at = "sending" /\ Moved(c, "waiting", calls[c].layer, calls[c].result)
    BY <1>2, <2>1, GoesMoves, Stands
  <2>3. Serves(c, "received", server[c].applied, server[c].ran, server[c].answer)
    BY <1>2, <2>1, ServerMoves, Stands
  <2>4. Counted'
    BY <2>2, CountStays DEF Going, Over, Send
  <2>5. Fits("waiting", calls[c].layer, calls[c].result, "received", server[c].applied,
             server[c].ran, server[c].answer, committed[c])
    BY <2>2, Stands DEF Fits, Early, Late, Over
  <2>6. CallTypeOK'
    BY <1>2, <2>2, <2>3 DEF CallsInv, CallTypeOK, Moved, Serves, Send
  <2>7. ASSUME NEW d \in Calls
        PROVE Fits(calls'[d].at, calls'[d].layer, calls'[d].result, server'[d].at,
                   server'[d].applied, server'[d].ran, server'[d].answer, committed'[d])
    <3>1. CASE d = c
      BY <2>2, <2>3, <2>5, <3>1 DEF Moved, Serves, Send
    <3>2. CASE d # c
      BY <2>2, <2>3, <3>2 DEF CallsInv, InStep, Moved, Serves, Send
    <3>. QED BY <3>1, <3>2
  <2>8. InStep'
    BY <2>7 DEF InStep
  <2>. QED BY <2>4, <2>6, <2>8 DEF CallsInv, Constants
<1>. QED BY <1>1, <1>2 DEF Send

\* The server moves on, and its transaction has not committed.
LEMMA ServerAtInv ==
  ASSUME CallsInv, NEW c \in Calls, NEW at \in {"running", "failed"},
         server[c].at \in {"received", "running"},
         server' = [server EXCEPT ![c].at = at], UNCHANGED <<Client, committed>>, faults' \in Nat
  PROVE  CallsInv'
<1>1. at \in ServerAts
  BY DEF ServerAts
<1>2. Serves(c, at, server[c].applied, server[c].ran, server[c].answer)
  BY <1>1, ServerMoves, Stands
<1>3. Fits(calls[c].at, calls[c].layer, calls[c].result, at, server[c].applied,
           server[c].ran, server[c].answer, committed[c])
  BY Stands DEF Fits
<1>. QED BY <1>2, <1>3, ServerGoes, Stands

LEMMA ExecuteInv ==
  ASSUME CallsInv, NEW c \in Calls, Execute(c) PROVE CallsInv'
BY ServerAtInv, FaultCounts, Stands DEF Execute, Fails

LEMMA ApplyOptimisticInv ==
  ASSUME CallsInv, NEW c \in Calls, ApplyOptimistic(c) PROVE CallsInv'
<1>1. CASE ~server[c].applied /\
           server' = [server EXCEPT ![c].applies = @ + 1, ![c].applied = TRUE, ![c].ran = @ + 1]
  <2>1. Serves(c, server[c].at, TRUE, server[c].ran + 1, server[c].answer)
    BY <1>1, ServerApplies, Stands
  <2>2. Fits(calls[c].at, calls[c].layer, calls[c].result, server[c].at, TRUE,
             server[c].ran + 1, server[c].answer, committed[c])
    <3> DEFINE applied == server[c].applied
    <3>1. Fits(calls[c].at, calls[c].layer, calls[c].result, server[c].at, applied,
               server[c].ran, server[c].answer, committed[c]) /\ ~applied
      BY <1>1, Stands
    <3> HIDE DEF applied
    <3>2. server[c].ran = 0
      BY <3>1, Zenon DEF Fits
    <3>3. server[c].ran + 1 = 1
      BY <3>2
    <3>4. Fits(calls[c].at, calls[c].layer, calls[c].result, server[c].at, TRUE, 1,
               server[c].answer, committed[c])
      BY <3>1 DEF Fits
    <3>. QED BY <3>3, <3>4
  <2>. QED BY <2>1, <2>2, ServerGoes, Stands DEF ApplyOptimistic
<1>2. CASE server' = [server EXCEPT ![c].applies = @ + 1]
  <2>1. Serves(c, server[c].at, server[c].applied, server[c].ran, server[c].answer)
    BY <1>2, ServerRefuses, Stands
  <2>. QED BY <2>1, ServerGoes, Stands DEF ApplyOptimistic
<1>3. CASE server' = [server EXCEPT ![c].at = "failed"]
  BY <1>3, ServerAtInv, Stands DEF ApplyOptimistic
<1>. QED BY <1>1, <1>2, <1>3 DEF ApplyOptimistic

LEMMA CommitInv ==
  ASSUME CallsInv, NEW c \in Calls, Commit(c) PROVE CallsInv'
<1>1. CASE Fails(c, "running") /\ UNCHANGED committed /\ (Fault \/ UNCHANGED faults)
  BY <1>1, ServerAtInv, FaultCounts, Stands DEF Commit, Fails
<1>2. ASSUME NEW value \in Returns(c), Parsed(value) # Invalid, UNCHANGED faults,
             server' = [server EXCEPT ![c].at = "answered", ![c].answer = Parsed(value)],
             committed' = [committed EXCEPT ![c] = {Parsed(value)}]
      PROVE CallsInv'
  <2> DEFINE answer == Parsed(value)
  <2>1. value \in Results \/ value = None
    BY DEF Returns
  <2>2. answer \in Answers /\ answer # Invalid
    BY <1>2, <2>1 DEF Answers, Parsed
  <2>3. server' = [server EXCEPT ![c].at = "answered", ![c].answer = answer]
    BY <1>2
  <2>4. committed' = [committed EXCEPT ![c] = {answer}]
    BY <1>2
  <2> HIDE DEF answer
  <2>5. Serves(c, "answered", server[c].applied, server[c].ran, answer)
    BY <2>2, <2>3, ServerAnswers, Stands
  <2>6. /\ committed' \in [Calls -> SUBSET Answers] /\ committed'[c] = {answer}
        /\ \A d \in Calls : d # c => committed'[d] = committed[d]
    BY <2>2, <2>4, Stands
  <2>7. Fits(calls[c].at, calls[c].layer, calls[c].result, "answered", server[c].applied,
             server[c].ran, answer, {answer})
    BY <2>2, Stands DEF Fits, Early, Commit
  <2>. QED BY <1>2, <2>5, <2>6, <2>7, ServerGoes, Stands DEF Commit
<1>. QED BY <1>1, <1>2 DEF Commit

LEMMA InitInv ==
  ASSUME Constants, Init PROVE CallsInv
<1>1. calls \in [Calls -> CallRecord]
  BY DEF Init, CallRecord, Early
<1>2. server \in [Calls -> ServerRecord]
  BY DEF Init, ServerRecord, Answers
<1>3. CallTypeOK
  BY <1>1, <1>2 DEF Init, CallTypeOK
<1>4. \A name \in Names : UnderWay(name) = {}
  BY DEF Init, UnderWay
<1>5. Cardinality({}) = 0
  BY FS_EmptySet
<1>6. Counted
  BY <1>4, <1>5 DEF Init, Counted
<1>7. InStep
  BY DEF Init, InStep, Fits, Early, Late, Over
<1>. QED BY <1>3, <1>6, <1>7 DEF CallsInv

LEMMA NextInv ==
  CallsInv /\ [Next]_vars => CallsInv'
<1> SUFFICES ASSUME CallsInv, [Next]_vars PROVE CallsInv'
  OBVIOUS
<1>1. ASSUME NEW c \in Calls, Dispatch(c) \/ Runs(c) \/ LoseAnswer(c) \/ ApplyOptimistic(c)
      PROVE CallsInv'
  BY <1>1, DispatchInv, BeginInv, ApplyLayerInv, ParseInputInv, SendInv, ReceiveAnswerInv,
     LoseAnswerInv, AcknowledgeInv, RejectLayerInv, ExecuteInv, ApplyOptimisticInv, CommitInv
  DEF Runs
<1>2. CASE UNCHANGED vars
  BY <1>2 DEF vars, CallsInv, Constants, CallTypeOK, Counted, InStep, UnderWay, Command
<1>. QED BY <1>1, <1>2 DEF Next

-----------------------------------------------------------------------------
(* What holds for any calls. *)

\* The invariant holds throughout, for a finite set of calls, each of a registered command.
THEOREM CallsInvariant ==
  ASSUME IsFiniteSet(Calls), CommandOf \in [Calls -> Names]
  PROVE  Spec => []CallsInv
<1>1. Init => CallsInv
  BY InitInv DEF Constants
<1>. QED BY <1>1, NextInv, PTL DEF Spec

\* A command is shown as pending exactly while one of its calls is under way
\* (createCommandDispatcher, adjustPending).
THEOREM PendingWhileUnderWay ==
  ASSUME IsFiniteSet(Calls), CommandOf \in [Calls -> Names]
  PROVE  Spec => []PendingIsInFlight
<1>1. CallsInv => PendingIsInFlight
  <2> SUFFICES ASSUME CallsInv PROVE PendingIsInFlight
    OBVIOUS
  <2>1. pending \subseteq Names /\ inFlight \in [Names -> Nat]
    BY DEF CallsInv, CallTypeOK
  <2>2. ASSUME NEW name \in Names PROVE name \in pending <=> UnderWay(name) # {}
    <3>1. UnderWay(name) \subseteq Calls /\ IsFiniteSet(Calls)
      BY DEF UnderWay, CallsInv, Constants
    <3>2. IsFiniteSet(UnderWay(name))
      BY <3>1, FS_Subset
    <3>3. Cardinality(UnderWay(name)) \in Nat
      BY <3>2, FS_CardinalityType
    <3>4. Cardinality(UnderWay(name)) = 0 <=> UnderWay(name) = {}
      BY <3>2, FS_EmptySet
    <3>. QED BY <3>3, <3>4 DEF CallsInv, Counted
  <2>3. \A c \in Calls : Command(c) \in Names
    BY DEF CallsInv, Constants, Command
  <2>. QED BY <2>1, <2>2, <2>3 DEF PendingIsInFlight, UnderWay, Over
<1>. QED BY <1>1, CallsInvariant, PTL

\* No call leaves its optimistic layer open, and one that returned has committed
\* (dispatch of the gateway client, executeServerCommand).
THEOREM NoLayerIsLeftOpen ==
  ASSUME IsFiniteSet(Calls), CommandOf \in [Calls -> Names]
  PROVE  Spec => []LayersEndSettled
<1>1. CallsInv => LayersEndSettled
  BY DEF CallsInv, InStep, Fits, LayersEndSettled, Over
<1>. QED BY <1>1, CallsInvariant, PTL

\* What commits has run the optimistic method once at most, although a server method
\* may call applyOptimistic() again before the call before has ended.
THEOREM OptimisticRunsOnce ==
  ASSUME IsFiniteSet(Calls), CommandOf \in [Calls -> Names]
  PROVE  Spec => []OptimisticOnce
<1>1. CallsInv => OptimisticOnce
  BY DEF CallsInv, InStep, Fits, OptimisticOnce
<1>. QED BY <1>1, CallsInvariant, PTL

\* A call that has ended is not touched again, so its layer is told one outcome.
LEMMA EndedStays ==
  ASSUME CallsInv, Next PROVE SettledStays
<1> SUFFICES ASSUME NEW d \in Calls, calls[d].layer \notin {"none", "open"}
             PROVE calls'[d] = calls[d]
  BY DEF SettledStays
<1>1. calls[d].at \in Over
  <2>1. calls[d] \in CallRecord
    BY DEF CallsInv, CallTypeOK
  <2>. QED BY <2>1, Stands DEF CallRecord, Fits, Early, Late
<1>2. calls \in [Calls -> CallRecord]
  BY DEF CallsInv, CallTypeOK
<1>3. PICK c \in Calls : Dispatch(c) \/ Runs(c) \/ LoseAnswer(c) \/ ApplyOptimistic(c)
  BY DEF Next
<1>4. CASE d = c
  BY <1>1, <1>3, <1>4 DEF Dispatch, Runs, LoseAnswer, ApplyOptimistic, Begin, ApplyLayer,
     ParseInput, Send, ReceiveAnswer, Acknowledge, RejectLayer, Execute, Commit, Goes, GoesWith,
     Ends, Over, Client
<1>5. CASE d # c
  BY <1>2, <1>3, <1>5 DEF Dispatch, Runs, LoseAnswer, ApplyOptimistic, Begin, ApplyLayer,
     ParseInput, Send, ReceiveAnswer, Acknowledge, RejectLayer, Execute, Commit, Goes, GoesWith,
     Ends, Client
<1>. QED BY <1>4, <1>5

\* A layer is told its outcome once (OptimisticLayer, rejectOptimisticLayer).
THEOREM OutcomeIsToldOnce ==
  ASSUME IsFiniteSet(Calls), CommandOf \in [Calls -> Names]
  PROVE  Spec => LayersSettleOnce
<1>1. CallsInv /\ [Next]_vars => [SettledStays]_vars
  BY EndedStays
<1>. QED BY <1>1, CallsInvariant, PTL DEF Spec, LayersSettleOnce

\* If the schema of a command accepts what it returned before, an answer of the
\* server rejects a layer only where nothing was committed: the output is parsed
\* within the transaction (executeServerCommand).
THEOREM RejectedByAnswer ==
  ASSUME IsFiniteSet(Calls), CommandOf \in [Calls -> Names], None # Invalid,
         \A value \in Results : Parsed(value) # Invalid => Parsed(Parsed(value)) # Invalid
  PROVE  Spec => RejectedIsUncommitted
<1>1. ASSUME CallsInv, Next PROVE AnswerRejects
  <2> SUFFICES ASSUME NEW d \in Calls, calls[d].at = "waiting", calls'[d].at = "rejecting",
                      faults' = faults
               PROVE committed[d] = {}
    BY DEF AnswerRejects
  <2>1. calls \in [Calls -> CallRecord] /\ faults \in Nat
    BY <1>1 DEF CallsInv, CallTypeOK
  <2>2. PICK c \in Calls : Dispatch(c) \/ Runs(c) \/ LoseAnswer(c) \/ ApplyOptimistic(c)
    BY <1>1 DEF Next
  <2>3. c = d
    BY <2>1, <2>2 DEF Dispatch, Runs, LoseAnswer, ApplyOptimistic, Begin, ApplyLayer,
       ParseInput, Send, ReceiveAnswer, Acknowledge, RejectLayer, Execute, Commit, Goes,
       GoesWith, Ends, Client
  <2>4. ReceiveAnswer(d)
    BY <2>1, <2>2, <2>3 DEF Dispatch, Runs, LoseAnswer, ApplyOptimistic, Begin, ApplyLayer,
       ParseInput, Send, Acknowledge, RejectLayer, Execute, Commit, Goes, GoesWith, Ends,
       Client, Fault
  <2>5. CASE server[d].at = "failed"
    BY <1>1, <2>5, Stands DEF Fits
  <2>6. CASE server[d].at = "answered"
    <3>1. Parsed(server[d].answer) = Invalid
      <4>1. CASE Parsed(server[d].answer) # Invalid
        <5> DEFINE result == Parsed(server[d].answer)
        <5>1. calls' = [calls EXCEPT ![d].at = "acknowledging", ![d].result = result]
          BY <2>4, <2>6, <4>1 DEF ReceiveAnswer
        <5>2. result \in Outputs
          BY <1>1, <4>1, Stands DEF Outputs
        <5> HIDE DEF result
        <5>3. Moved(d, "acknowledging", calls[d].layer, result)
          BY <1>1, <5>1, <5>2, AnswerMoves, Stands
        <5>4. calls'[d].at = "acknowledging"
          BY <5>3 DEF Moved
        <5>. QED BY <5>4
      <4>. QED BY <4>1
    <3>2. server[d].answer \in Answers
      BY <1>1, Stands
    <3>. QED BY <3>1, <3>2 DEF Answers, Parsed
  <2>. QED BY <2>4, <2>5, <2>6 DEF ReceiveAnswer
<1>2. CallsInv /\ [Next]_vars => [AnswerRejects]_vars
  BY <1>1
<1>. QED BY <1>2, CallsInvariant, PTL DEF Spec, RejectedIsUncommitted

\* If parsing an output a second time changes nothing, the caller gets what the
\* transaction returned; the client parses the answer again (dispatch).
THEOREM CallerGetsTheResult ==
  ASSUME IsFiniteSet(Calls), CommandOf \in [Calls -> Names],
         \A value \in Results : Parsed(value) # Invalid => Parsed(Parsed(value)) = Parsed(value)
  PROVE  Spec => []ResultIsCommitted
<1>1. \A answer \in Answers : Parsed(answer) = answer
  BY DEF Answers, Parsed
<1>2. CallsInv => ResultIsCommitted
  BY <1>1, Stands DEF ResultIsCommitted, Fits
<1>. QED BY <1>2, CallsInvariant, PTL
=============================================================================

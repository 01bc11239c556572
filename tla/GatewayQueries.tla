---------------------------- MODULE GatewayQueries ----------------------------
(***************************************************************************)
(* A live query in the browser: createGatewayQuery (solid.ts) over the     *)
(* HTTP transport (http.ts) and the handler on the server (node/http.ts).  *)
(* Each run of the effect fetches the query once and subscribes to it, on  *)
(* two connections that answer in any order.  The result of the query is   *)
(* the number of the commit it is of.                                      *)
(***************************************************************************)
EXTENDS Integers, Sequences

CONSTANTS
  MaxEffects,  \* bound: runs of the effect (first, refetch(), another client or query)
  MaxHead,     \* bound: commits
  MaxFaults    \* bound: requests and streams that fail

VARIABLES
  head,     \* last commit on the server
  effects,  \* one record for each run of the effect
  active,   \* the run whose generation is current, 0 for none
  begun,    \* runs so far
  shown,    \* data, and the run it came from, loading and error
  faults

vars == <<head, effects, active, begun, shown, faults>>
Effects == 1..MaxEffects

Unused == [fetch |-> <<"none">>, client |-> "none", server |-> "none", closed |-> FALSE,
           sent |-> 0, transit |-> <<>>, delivered |-> FALSE]
\* The requests of subscribe() and fetch() have left.
Begun == [Unused EXCEPT !.fetch = <<"asked">>, !.client = "open", !.server = "waiting"]

-----------------------------------------------------------------------------
(* The component. *)

\* onCleanup: the stream is aborted, what it still carries is not read.
Cleaned == [e \in Effects |->
  IF e = active /\ effects[e].client = "open"
  THEN [effects[e] EXCEPT !.client = "aborted", !.transit = <<>>] ELSE effects[e]]

RunEffect ==
  /\ begun < MaxEffects
  /\ begun' = begun + 1 /\ active' = begun'
  /\ effects' = [Cleaned EXCEPT ![begun'] = Begun]
  /\ shown' = [shown EXCEPT !.loading = TRUE, !.error = FALSE]
  /\ UNCHANGED <<head, faults>>

Dispose ==
  /\ active # 0
  /\ effects' = Cleaned /\ active' = 0 /\ begun' = MaxEffects
  /\ UNCHANGED <<head, shown, faults>>

Loaded(e, value) == [data |-> value, of |-> e, loading |-> FALSE, error |-> FALSE]

\* Mutant: a fetch is shown though the subscription has answered.
FetchArrivesOver(e) ==
  /\ effects[e].fetch[1] \in {"answer", "failed"}
  /\ effects' = [effects EXCEPT ![e].fetch = <<"settled">>]
  /\ shown' = IF e # active THEN shown
              ELSE IF effects[e].fetch[1] = "answer"
                   THEN [Loaded(e, effects[e].fetch[2]) EXCEPT !.error = shown.error]
                   ELSE [shown EXCEPT !.loading = FALSE, !.error = TRUE]
  /\ UNCHANGED <<head, active, begun, faults>>

\* A fetch is shown if its run is current and the subscription has not answered first; an
\* error the subscription reported stays.
FetchArrives(e) ==
  /\ effects[e].fetch[1] \in {"answer", "failed"}
  /\ effects' = [effects EXCEPT ![e].fetch = <<"settled">>]
  /\ shown' = IF e # active \/ effects[e].delivered THEN shown
              ELSE IF effects[e].fetch[1] = "answer"
                   THEN [Loaded(e, effects[e].fetch[2]) EXCEPT !.error = shown.error]
                   ELSE [shown EXCEPT !.loading = FALSE, !.error = TRUE]
  /\ UNCHANGED <<head, active, begun, faults>>

\* The listener of the subscription.
MessageArrives(e) ==
  /\ effects[e].client = "open" /\ effects[e].transit # <<>>
  /\ effects' = [effects EXCEPT ![e].transit = Tail(@), ![e].delivered = @ \/ e = active]
  /\ shown' = IF e = active THEN Loaded(e, Head(effects[e].transit)) ELSE shown
  /\ UNCHANGED <<head, active, begun, faults>>

\* The stream ends with an error, which is reported unless the client aborted it.
StreamFails(e) ==
  /\ faults < MaxFaults /\ effects[e].client = "open"
  /\ faults' = faults + 1
  /\ effects' = [effects EXCEPT ![e].client = "failed", ![e].transit = <<>>]
  /\ shown' = IF e = active THEN [shown EXCEPT !.loading = FALSE, !.error = TRUE] ELSE shown
  /\ UNCHANGED <<head, active, begun>>

-----------------------------------------------------------------------------
(* The server. *)

Commit ==
  /\ head < MaxHead /\ head' = head + 1
  /\ UNCHANGED <<effects, active, begun, shown, faults>>

\* GET /reads/:name: the query is evaluated on the server, or the request fails.
AnswerFetch(e) ==
  /\ effects[e].fetch = <<"asked">>
  /\ \/ effects' = [effects EXCEPT ![e].fetch = <<"answer", head>>] /\ UNCHANGED faults
     \/ /\ faults < MaxFaults /\ faults' = faults + 1
        /\ effects' = [effects EXCEPT ![e].fetch = <<"failed">>]
  /\ UNCHANGED <<head, active, begun, shown>>

Written(record, value) ==
  [record EXCEPT !.sent = value, !.transit = IF record.client = "open" THEN Append(@, value) ELSE @]

\* GET /subscriptions/:name: once the principal is known the server subscribes, gives the
\* listener the result of that moment and, from then on, disposes it when the response closes.
Subscribe(e) ==
  /\ effects[e].server = "waiting"
  /\ effects' = [effects EXCEPT ![e] = Written([@ EXCEPT !.server = "listening"], head)]
  /\ UNCHANGED <<head, active, begun, shown, faults>>

Push(e) ==
  /\ effects[e].server = "listening" /\ effects[e].sent < head
  /\ effects' = [effects EXCEPT ![e] = Written(@, @.sent + 1)]
  /\ UNCHANGED <<head, active, begun, shown, faults>>

\* The response closes after the client has gone; the event finds the handler of
\* once("close") only if it has been registered.
ResponseCloses(e) ==
  /\ effects[e].client \in {"aborted", "failed"} /\ ~effects[e].closed
  /\ effects' = [effects EXCEPT ![e].closed = TRUE,
                   ![e].server = IF @ = "listening" THEN "disposed" ELSE @]
  /\ UNCHANGED <<head, active, begun, shown, faults>>

-----------------------------------------------------------------------------
Init ==
  /\ head = 1 /\ effects = [e \in Effects |-> Unused]
  /\ active = 0 /\ begun = 0 /\ faults = 0
  /\ shown = [data |-> 0, of |-> 0, loading |-> TRUE, error |-> FALSE]

Next ==
  \/ RunEffect \/ Dispose \/ Commit
  \/ \E e \in Effects : \/ FetchArrives(e) \/ MessageArrives(e) \/ StreamFails(e)
                        \/ AnswerFetch(e) \/ Subscribe(e) \/ Push(e) \/ ResponseCloses(e)

\* A request of fetch() is answered or fails; nothing is assumed of the subscription.
Fairness == \A e \in Effects : WF_vars(AnswerFetch(e)) /\ WF_vars(FetchArrives(e))

Spec == Init /\ [][Next]_vars /\ Fairness

-----------------------------------------------------------------------------
\* Whatever the order in which the fetch and the subscription answered, once the stream has
\* said all there is the query shows the last result, without an error (createGatewayQuery).
SettledIsCurrent ==
  \A e \in Effects :
    /\ e = active /\ effects[e].client = "open" /\ effects[e].server = "listening"
    /\ effects[e].transit = <<>> /\ effects[e].sent = head
    => shown = Loaded(e, head)

\* A query that is not loading shows the data of the client and query it has now, or an
\* error: the answer to an earlier one is never taken for it (activeGeneration).
LoadedIsOfNow == active # 0 /\ ~shown.loading => shown.of = active \/ shown.error

\* After its owner is disposed the query changes no more, though answers still come.
Quiet == active = 0 /\ active' = 0 => UNCHANGED shown
DisposedIsQuiet == [][Quiet]_vars

\* A query does not load for ever, even if its subscription never answers (setLoading).
LoadingEnds == \A e \in Effects : active = e ~> (active # e \/ ~shown.loading)

\* The results one run shows never go back: createGatewayQuery "avoids fetch/subscription
\* races" (packages/hyapp/skills/hyapp/references/clients-and-solid.md).
NeverOlder == [][shown'.of = shown.of => shown'.data >= shown.data]_vars

\* "Disconnecting a subscription disposes its server listener" (docs/api/application.md): none
\* listens for a response that has closed.
ListenersReleased == \A e \in Effects : effects[e].closed => effects[e].server # "listening"
=============================================================================

-------------------------- MODULE GatewayQueryProofs --------------------------
(***************************************************************************)
(* What a live query in the browser shows, for any number of runs of its   *)
(* effect, commits and failures: proofs about module GatewayQueries.       *)
(***************************************************************************)
EXTENDS GatewayQueries, SequenceTheorems, TLAPS

-----------------------------------------------------------------------------
(* The inductive invariant. *)

Fetches ==
  {<<"none">>, <<"asked">>, <<"failed">>, <<"settled">>} \union ({"answer"} \X Nat)

Records ==
  [fetch : Fetches, client : {"none", "open", "aborted", "failed"},
   server : {"none", "waiting", "listening", "disposed"}, closed : BOOLEAN,
   sent : Nat, transit : Seq(Nat), delivered : BOOLEAN]

QueryTypeOK ==
  /\ head \in Nat /\ begun \in 0..MaxEffects /\ active \in 0..begun
  /\ effects \in [Effects -> Records]
  /\ shown \in [data : Nat, of : Nat, loading : BOOLEAN, error : BOOLEAN]
  /\ faults \in Nat

\* A run that has not begun has no connections; only the current one has an open
\* one, and while it does the stream that the server listens for is not disposed.
OneOpen ==
  \A e \in Effects :
    /\ e > begun => effects[e] = Unused
    /\ effects[e].client = "open" => e = active /\ effects[e].server \in {"waiting", "listening"}

\* What the server has written is on its way, or has been shown last.
SentIsShown ==
  \A e \in Effects : effects[e].client = "open" =>
    IF effects[e].server = "waiting" THEN effects[e].transit = <<>>
    ELSE IF effects[e].transit = <<>>
         THEN effects[e].delivered /\ shown = Loaded(e, effects[e].sent)
         ELSE effects[e].transit[Len(effects[e].transit)] = effects[e].sent

QueryInv ==
  MaxEffects \in Nat /\ QueryTypeOK /\ OneOpen /\ SentIsShown /\ LoadedIsOfNow

-----------------------------------------------------------------------------
LEMMA UnusedIsRecord == Unused \in Records /\ Begun \in Records
<1>1. <<"none">> \in Fetches /\ <<"asked">> \in Fetches
  BY DEF Fetches
<1>2. <<>> \in Seq(Nat)
  OBVIOUS
<1>3. Unused \in Records
  BY <1>1, <1>2 DEF Unused, Records
<1>4. Begun \in Records
  BY <1>1, <1>3 DEF Begun, Records
<1>. QED BY <1>3, <1>4

LEMMA CleanedIsRecords ==
  ASSUME effects \in [Effects -> Records]
  PROVE  /\ Cleaned \in [Effects -> Records]
         /\ \A e \in Effects : e # active => Cleaned[e] = effects[e]
         /\ (\A e \in Effects : effects[e].client = "open" => e = active)
              => \A e \in Effects : Cleaned[e].client # "open"
<1>1. ASSUME NEW e \in Effects PROVE
        /\ [effects[e] EXCEPT !.client = "aborted", !.transit = <<>>] \in Records
        /\ [effects[e] EXCEPT !.client = "aborted", !.transit = <<>>].client = "aborted"
  <2>1. effects[e] \in Records /\ <<>> \in Seq(Nat)
    OBVIOUS
  <2>. QED BY <2>1 DEF Records
<1>. QED BY <1>1 DEF Cleaned

LEMMA InitInv == MaxEffects \in Nat /\ Init => QueryInv
<1> SUFFICES ASSUME MaxEffects \in Nat, Init PROVE QueryInv
  OBVIOUS
<1>1. QueryTypeOK
  BY UnusedIsRecord DEF Init, QueryTypeOK
<1>2. OneOpen /\ SentIsShown /\ LoadedIsOfNow
  BY DEF Init, OneOpen, SentIsShown, LoadedIsOfNow, Unused
<1>. QED BY <1>1, <1>2 DEF QueryInv

LEMMA RunEffectInv == QueryInv /\ RunEffect => QueryInv'
<1> SUFFICES ASSUME QueryInv, RunEffect PROVE QueryInv'
  OBVIOUS
<1> USE DEF QueryInv
<1>0. begun + 1 \in Effects /\ begun \in Nat
  BY DEF QueryTypeOK, RunEffect, Effects
<1>1. Cleaned \in [Effects -> Records]
  BY CleanedIsRecords DEF QueryTypeOK
<1>2. \A e \in Effects : effects'[e] = IF e = begun + 1 THEN Begun ELSE Cleaned[e]
  BY <1>0, <1>1 DEF RunEffect
<1>3. QueryTypeOK'
  <2>1. effects' \in [Effects -> Records]
    BY <1>0, <1>1, UnusedIsRecord DEF RunEffect
  <2>2. shown' \in [data : Nat, of : Nat, loading : BOOLEAN, error : BOOLEAN]
    BY DEF QueryTypeOK, RunEffect
  <2>. QED BY <1>0, <2>1, <2>2 DEF QueryTypeOK, RunEffect, Effects
<1>4. \A e \in Effects : Cleaned[e].client # "open"
  BY CleanedIsRecords DEF OneOpen, QueryTypeOK
<1>5. \A e \in Effects : e > begun + 1 => Cleaned[e] = Unused
  <2> SUFFICES ASSUME NEW e \in Effects, e > begun + 1 PROVE Cleaned[e] = Unused
    OBVIOUS
  <2>1. e # active /\ e > begun
    BY <1>0 DEF QueryTypeOK, Effects
  <2>. QED BY <2>1, CleanedIsRecords DEF OneOpen, QueryTypeOK
<1>6. OneOpen'
  BY <1>0, <1>2, <1>4, <1>5 DEF OneOpen, RunEffect, Begun, Unused
<1>7. SentIsShown'
  BY <1>0, <1>2, <1>4 DEF SentIsShown, Begun, Unused
<1>8. LoadedIsOfNow'
  BY DEF RunEffect, LoadedIsOfNow, QueryTypeOK
<1>. QED BY <1>3, <1>6, <1>7, <1>8

LEMMA DisposeInv == QueryInv /\ Dispose => QueryInv'
<1> SUFFICES ASSUME QueryInv, Dispose PROVE QueryInv'
  OBVIOUS
<1> USE DEF QueryInv
<1>1. effects' \in [Effects -> Records] /\ \A e \in Effects : effects'[e].client # "open"
  BY CleanedIsRecords DEF QueryTypeOK, OneOpen, Dispose
<1>2. \A e \in Effects : e \in Int /\ e <= MaxEffects
  BY DEF Effects
<1>. QED BY <1>1, <1>2
     DEF QueryTypeOK, OneOpen, SentIsShown, LoadedIsOfNow, Dispose, Effects

LEMMA UnusedFields ==
  /\ Unused.fetch[1] = "none" /\ Unused.client = "none" /\ Unused.server = "none"
  /\ Unused.transit = <<>>
BY DEF Unused

\* What each step of a connection does to its record.
LEMMA RecordSteps ==
  ASSUME NEW record \in Records, NEW value \in Nat
  PROVE  /\ [record EXCEPT !.fetch = <<"settled">>] \in Records
         /\ [record EXCEPT !.fetch = <<"answer", value>>] \in Records
         /\ [record EXCEPT !.fetch = <<"failed">>] \in Records
         /\ [record EXCEPT !.client = "failed", !.transit = <<>>] \in Records
         /\ record.transit # <<>> => \A seen \in BOOLEAN :
              [record EXCEPT !.transit = Tail(@), !.delivered = seen] \in Records
         /\ Written(record, value) \in Records
         /\ [record EXCEPT !.server = "listening"] \in Records
<1>1. /\ <<"settled">> \in Fetches /\ <<"failed">> \in Fetches
      /\ <<"answer", value>> \in Fetches
  BY DEF Fetches
<1>2. <<>> \in Seq(Nat) /\ record.transit \in Seq(Nat)
  BY DEF Records
<1>3. Append(record.transit, value) \in Seq(Nat)
  BY <1>2
<1>4. record.transit # <<>> => Tail(record.transit) \in Seq(Nat)
  BY <1>2
<1>5. Written(record, value) \in Records
  BY <1>3 DEF Written, Records
<1>. QED BY <1>1, <1>2, <1>4, <1>5 DEF Records

LEMMA FetchArrivesInv ==
  ASSUME QueryInv, NEW e \in Effects, FetchArrives(e) PROVE QueryInv'
<1> USE DEF QueryInv
<1>1. effects[e] \in Records /\ effects[e].fetch \in Fetches
  BY DEF QueryTypeOK, Records
<1>2. effects[e].fetch[1] = "answer" => effects[e].fetch[2] \in Nat
  BY <1>1 DEF Fetches
<1>3. effects' \in [Effects -> Records]
  BY <1>1, RecordSteps, 0 \in Nat DEF FetchArrives, QueryTypeOK
<1>4. shown' \in [data : Nat, of : Nat, loading : BOOLEAN, error : BOOLEAN]
  <2>1. ASSUME NEW value \in Nat
        PROVE  [Loaded(e, value) EXCEPT !.error = shown.error]
                 \in [data : Nat, of : Nat, loading : BOOLEAN, error : BOOLEAN]
    <3>1. Loaded(e, value) \in [data : Nat, of : Nat, loading : BOOLEAN, error : BOOLEAN]
      BY DEF Loaded, Effects
    <3>2. shown.error \in BOOLEAN
      BY DEF QueryTypeOK
    <3>. QED BY <3>1, <3>2
  <2>2. [shown EXCEPT !.loading = FALSE, !.error = TRUE]
          \in [data : Nat, of : Nat, loading : BOOLEAN, error : BOOLEAN]
    BY DEF QueryTypeOK
  <2>. QED BY <1>2, <2>1, <2>2 DEF FetchArrives, QueryTypeOK
<1>5. QueryTypeOK'
  BY <1>3, <1>4 DEF QueryTypeOK, FetchArrives
<1>6. \A x \in Effects :
        /\ effects'[x].client = effects[x].client /\ effects'[x].server = effects[x].server
        /\ effects'[x].sent = effects[x].sent /\ effects'[x].transit = effects[x].transit
        /\ effects'[x].delivered = effects[x].delivered
        /\ effects[x] = Unused => effects'[x] = effects[x]
  BY <1>1, UnusedFields DEF FetchArrives, QueryTypeOK, Records
<1>7. OneOpen'
  BY <1>6 DEF OneOpen, FetchArrives
<1>8. SentIsShown'
  <2>1. ASSUME NEW x \in Effects, effects[x].client = "open", effects[x].delivered
        PROVE shown' = shown
    BY <2>1 DEF FetchArrives, OneOpen
  <2>. QED BY <1>6, <2>1 DEF SentIsShown
<1>9. LoadedIsOfNow'
  BY <1>4 DEF LoadedIsOfNow, FetchArrives, Loaded, QueryTypeOK
<1>. QED BY <1>5, <1>7, <1>8, <1>9

LEMMA MessageArrivesInv ==
  ASSUME QueryInv, NEW e \in Effects, MessageArrives(e) PROVE QueryInv'
<1> USE DEF QueryInv
<1> DEFINE record == effects[e]
<1>1. record \in Records /\ record.transit \in Seq(Nat) /\ record.transit # <<>>
  BY DEF QueryTypeOK, Records, MessageArrives
<1>2. Head(record.transit) \in Nat /\ Tail(record.transit) \in Seq(Nat)
  BY <1>1
<1>5. e = active /\ active # 0
  BY DEF OneOpen, MessageArrives, Effects
<1> DEFINE after == [record EXCEPT !.transit = Tail(@), !.delivered = TRUE]
<1>3. effects' = [effects EXCEPT ![e] = after]
  <2>1. (record.delivered \/ e = active) = TRUE
    BY <1>5
  <2>. QED BY <2>1 DEF MessageArrives, QueryTypeOK
<1>11. /\ after.client = record.client /\ after.server = record.server
       /\ after.sent = record.sent /\ after.delivered /\ after.transit = Tail(record.transit)
  BY <1>1 DEF Records
<1>12. after \in Records
  BY <1>1, RecordSteps, 0 \in Nat
<1> HIDE DEF after
<1>4. effects' \in [Effects -> Records]
  BY <1>3, <1>12 DEF QueryTypeOK
<1>13. effects'[e] = after /\ \A x \in Effects : x # e => effects'[x] = effects[x]
  BY <1>3 DEF QueryTypeOK
<1>6. shown' = Loaded(e, Head(record.transit))
  BY <1>5 DEF MessageArrives
<1>7. QueryTypeOK'
  BY <1>2, <1>4, <1>6 DEF QueryTypeOK, MessageArrives, Loaded, Effects
<1>8. OneOpen'
  BY <1>1, <1>5, <1>11, <1>13, UnusedFields DEF OneOpen, MessageArrives
<1>9. SentIsShown'
  <2>1. \A x \in Effects : x # e => effects'[x].client # "open"
    BY <1>13, <1>5 DEF OneOpen
  <2>2. /\ effects'[e].client = "open" /\ effects'[e].server = record.server
        /\ effects'[e].sent = record.sent /\ effects'[e].delivered
        /\ effects'[e].transit = Tail(record.transit)
    BY <1>11, <1>13 DEF MessageArrives
  <2>3. record.server # "waiting" /\ record.transit[Len(record.transit)] = record.sent
    BY <1>1 DEF SentIsShown, MessageArrives
  <2>4. IF Tail(record.transit) = <<>> THEN Head(record.transit) = record.sent
        ELSE Tail(record.transit)[Len(Tail(record.transit))] = record.sent
    <3>1. /\ Len(Tail(record.transit)) = Len(record.transit) - 1
          /\ \A i \in 1..Len(record.transit) - 1 :
               Tail(record.transit)[i] = record.transit[i + 1]
          /\ Head(record.transit) = record.transit[1] /\ Len(record.transit) \in Nat
          /\ Len(record.transit) # 0
      BY <1>1
    <3>2. Tail(record.transit) = <<>> <=> Len(Tail(record.transit)) = 0
      BY <1>2, EmptySeq
    <3>. QED BY <2>3, <3>1, <3>2
  <2>. QED BY <1>6, <2>1, <2>2, <2>3, <2>4 DEF SentIsShown
<1>10. LoadedIsOfNow'
  BY <1>5, <1>6 DEF LoadedIsOfNow, MessageArrives, Loaded
<1>. QED BY <1>7, <1>8, <1>9, <1>10 DEF MessageArrives

LEMMA StreamFailsInv ==
  ASSUME QueryInv, NEW e \in Effects, StreamFails(e) PROVE QueryInv'
<1> USE DEF QueryInv
<1>1. effects[e] \in Records
  BY DEF QueryTypeOK
<1>2. effects' = [effects EXCEPT ![e] = [effects[e] EXCEPT !.client = "failed", !.transit = <<>>]]
  BY DEF StreamFails, QueryTypeOK
<1>3. effects' \in [Effects -> Records]
  BY <1>1, <1>2, RecordSteps, 0 \in Nat DEF QueryTypeOK
<1>4. e = active
  BY DEF OneOpen, StreamFails
<1>5. \A x \in Effects : effects'[x].client # "open"
  BY <1>1, <1>2, <1>4 DEF OneOpen, QueryTypeOK, Records
<1>6. QueryTypeOK'
  <2>1. shown' \in [data : Nat, of : Nat, loading : BOOLEAN, error : BOOLEAN]
    BY DEF QueryTypeOK, StreamFails
  <2>. QED BY <1>3, <2>1 DEF QueryTypeOK, StreamFails
<1>7. OneOpen'
  <2>1. effects[e] # Unused
    BY UnusedFields DEF StreamFails
  <2>2. \A x \in Effects : x # e => effects'[x] = effects[x]
    BY <1>2 DEF QueryTypeOK
  <2>. QED BY <1>5, <2>1, <2>2 DEF OneOpen, StreamFails
<1>8. LoadedIsOfNow'
  BY <1>4 DEF LoadedIsOfNow, StreamFails, QueryTypeOK
<1>. QED BY <1>5, <1>6, <1>7, <1>8 DEF SentIsShown, StreamFails

LEMMA AnswerFetchInv ==
  ASSUME QueryInv, NEW e \in Effects, AnswerFetch(e) PROVE QueryInv'
<1> USE DEF QueryInv
<1>1. effects[e] \in Records /\ head \in Nat
  BY DEF QueryTypeOK
<1>2. effects' \in [Effects -> Records]
  BY <1>1, RecordSteps DEF QueryTypeOK, AnswerFetch
<1>3. QueryTypeOK'
  BY <1>2 DEF QueryTypeOK, AnswerFetch
<1>4. \A x \in Effects :
        /\ effects'[x].client = effects[x].client /\ effects'[x].server = effects[x].server
        /\ effects'[x].sent = effects[x].sent /\ effects'[x].transit = effects[x].transit
        /\ effects'[x].delivered = effects[x].delivered
        /\ effects[x] = Unused => effects'[x] = effects[x]
  <2>1. effects[e] # Unused
    BY UnusedFields DEF AnswerFetch
  <2>2. \A x \in Effects : x # e => effects'[x] = effects[x]
    BY DEF AnswerFetch, QueryTypeOK
  <2>3. /\ effects'[e].client = effects[e].client /\ effects'[e].server = effects[e].server
        /\ effects'[e].sent = effects[e].sent /\ effects'[e].transit = effects[e].transit
        /\ effects'[e].delivered = effects[e].delivered
    BY <1>1 DEF AnswerFetch, QueryTypeOK, Records
  <2>. QED BY <2>1, <2>2, <2>3
<1>. QED BY <1>3, <1>4 DEF OneOpen, SentIsShown, LoadedIsOfNow, AnswerFetch

\* The server writes a result: what the client sees of it is on its way.
LEMMA WrittenFields ==
  ASSUME NEW record \in Records, NEW value \in Nat
  PROVE  LET after == Written(record, value) IN
         /\ after.fetch = record.fetch /\ after.client = record.client
         /\ after.server = record.server /\ after.closed = record.closed
         /\ after.sent = value /\ after.delivered = record.delivered
         /\ record.client = "open" => after.transit = Append(record.transit, value)
BY DEF Written, Records

\* Whatever the server writes keeps the invariant while it listens.
LEMMA WritesInv ==
  ASSUME QueryInv, NEW e \in Effects, NEW value \in Nat, NEW record \in Records,
         record.client = effects[e].client, record.transit = effects[e].transit,
         record.server = "listening", effects[e].server \in {"waiting", "listening"},
         effects' = [effects EXCEPT ![e] = Written(record, value)],
         UNCHANGED <<head, active, begun, shown, faults>>
  PROVE  QueryInv'
<1> USE DEF QueryInv
<1> DEFINE after == Written(record, value)
<1>1. /\ after.client = record.client /\ after.server = record.server /\ after.sent = value
      /\ record.client = "open" => after.transit = Append(record.transit, value)
  BY WrittenFields
<1>2. after \in Records
  BY RecordSteps
<1> HIDE DEF after
<1>3. effects' \in [Effects -> Records]
  BY <1>2 DEF QueryTypeOK, after
<1>4. effects'[e] = after /\ \A x \in Effects : x # e => effects'[x] = effects[x]
  BY DEF QueryTypeOK, after
<1>5. QueryTypeOK'
  BY <1>3 DEF QueryTypeOK
<1>6. OneOpen'
  BY <1>1, <1>4, UnusedFields DEF OneOpen
<1>7. SentIsShown'
  <2>1. /\ Append(record.transit, value) # <<>>
        /\ Append(record.transit, value)[Len(Append(record.transit, value))] = value
    <3>1. record.transit \in Seq(Nat)
      BY DEF Records
    <3>. QED BY <3>1, AppendProperties
  <2>. QED BY <1>1, <1>4, <2>1 DEF SentIsShown
<1>. QED BY <1>5, <1>6, <1>7 DEF LoadedIsOfNow

LEMMA SubscribeInv ==
  ASSUME QueryInv, NEW e \in Effects, Subscribe(e) PROVE QueryInv'
<1> DEFINE record == [effects[e] EXCEPT !.server = "listening"]
<1>1. effects[e] \in Records /\ head \in Nat
  BY DEF QueryInv, QueryTypeOK
<1>2. record \in Records
  BY <1>1, RecordSteps
<1>4. /\ record.client = effects[e].client /\ record.transit = effects[e].transit
      /\ record.server = "listening"
  BY <1>1 DEF Records
<1>3. effects' = [effects EXCEPT ![e] = Written(record, head)]
  BY DEF Subscribe, QueryInv, QueryTypeOK
<1>. HIDE DEF record
<1>. QED BY <1>1, <1>2, <1>3, <1>4, WritesInv DEF Subscribe

LEMMA PushInv ==
  ASSUME QueryInv, NEW e \in Effects, Push(e) PROVE QueryInv'
<1>1. effects[e] \in Records /\ effects[e].sent + 1 \in Nat /\ effects[e].server = "listening"
  BY DEF QueryInv, QueryTypeOK, Records, Push
<1>2. effects' = [effects EXCEPT ![e] = Written(effects[e], effects[e].sent + 1)]
  BY DEF Push, QueryInv, QueryTypeOK
<1>. QED BY <1>1, <1>2, WritesInv DEF Push

LEMMA ResponseClosesInv ==
  ASSUME QueryInv, NEW e \in Effects, ResponseCloses(e) PROVE QueryInv'
<1> USE DEF QueryInv
<1> DEFINE server == IF effects[e].server = "listening" THEN "disposed" ELSE effects[e].server
           after == [effects[e] EXCEPT !.closed = TRUE, !.server = server]
<1>1. effects[e] \in Records /\ server \in {"none", "waiting", "listening", "disposed"}
  BY DEF QueryTypeOK, Records
<1>2. effects' = [effects EXCEPT ![e] = after]
  BY DEF ResponseCloses, QueryTypeOK
<1> HIDE DEF server
<1>3. after \in Records /\ after.client = effects[e].client
  BY <1>1 DEF Records
<1> HIDE DEF after
<1>4. effects' \in [Effects -> Records]
  BY <1>2, <1>3 DEF QueryTypeOK
<1>5. effects'[e] = after /\ \A x \in Effects : x # e => effects'[x] = effects[x]
  BY <1>2 DEF QueryTypeOK
<1>6. effects[e].client # "open" /\ effects[e] # Unused
  BY UnusedFields DEF ResponseCloses
<1>. QED BY <1>3, <1>4, <1>5, <1>6
     DEF ResponseCloses, QueryTypeOK, OneOpen, SentIsShown, LoadedIsOfNow

LEMMA CommitInv == QueryInv /\ Commit => QueryInv'
BY DEF QueryInv, Commit, QueryTypeOK, OneOpen, SentIsShown, LoadedIsOfNow

LEMMA NextInv == QueryInv /\ [Next]_vars => QueryInv'
<1> SUFFICES ASSUME QueryInv, [Next]_vars PROVE QueryInv'
  OBVIOUS
<1>1. CASE RunEffect
  BY <1>1, RunEffectInv
<1>2. CASE Dispose
  BY <1>2, DisposeInv
<1>3. CASE Commit
  BY <1>3, CommitInv
<1>4. ASSUME NEW e \in Effects, FetchArrives(e) PROVE QueryInv'
  BY <1>4, FetchArrivesInv
<1>5. ASSUME NEW e \in Effects, MessageArrives(e) PROVE QueryInv'
  BY <1>5, MessageArrivesInv
<1>6. ASSUME NEW e \in Effects, StreamFails(e) PROVE QueryInv'
  BY <1>6, StreamFailsInv
<1>7. ASSUME NEW e \in Effects, AnswerFetch(e) PROVE QueryInv'
  BY <1>7, AnswerFetchInv
<1>8. ASSUME NEW e \in Effects, Subscribe(e) PROVE QueryInv'
  BY <1>8, SubscribeInv
<1>9. ASSUME NEW e \in Effects, Push(e) PROVE QueryInv'
  BY <1>9, PushInv
<1>10. ASSUME NEW e \in Effects, ResponseCloses(e) PROVE QueryInv'
  BY <1>10, ResponseClosesInv
<1>11. CASE UNCHANGED vars
  BY <1>11 DEF QueryInv, vars, QueryTypeOK, OneOpen, SentIsShown, LoadedIsOfNow
<1>. QED BY <1>1, <1>2, <1>3, <1>4, <1>5, <1>6, <1>7, <1>8, <1>9, <1>10, <1>11 DEF Next

-----------------------------------------------------------------------------
(* The theorems. *)

\* The state of a live query keeps its types, whatever answers come and in whatever order,
\* and the invariant above holds (createGatewayQuery).
THEOREM QueryInvariant ==
  ASSUME MaxEffects \in Nat PROVE Spec => []QueryInv
<1>1. Init => QueryInv
  BY InitInv
<1>. QED BY <1>1, NextInv, PTL DEF Spec

\* Once its stream has said all there is, the query shows the last result without an error,
\* however the fetch and the subscription overtook each other and whatever ran before.
THEOREM LastResultIsShown ==
  ASSUME MaxEffects \in Nat PROVE Spec => []SettledIsCurrent
<1>1. QueryInv => SettledIsCurrent
  BY DEF QueryInv, SentIsShown, SettledIsCurrent
<1>. QED BY <1>1, QueryInvariant, PTL

\* A query that is not loading shows the data of the client and the query it has now, or an
\* error: an answer to an earlier run of the effect is never taken for it.
THEOREM NoOldAnswerIsShown ==
  ASSUME MaxEffects \in Nat PROVE Spec => []LoadedIsOfNow
<1>1. QueryInv => LoadedIsOfNow
  BY DEF QueryInv
<1>. QED BY <1>1, QueryInvariant, PTL

\* After its owner is disposed the query changes no more, though answers still come.
THEOREM DisposedStaysQuiet ==
  ASSUME MaxEffects \in Nat PROVE Spec => DisposedIsQuiet
<1>1. QueryInv /\ [Next]_vars => [Quiet]_vars
  <2> SUFFICES ASSUME QueryInv, Next, active = 0, active' = 0 PROVE UNCHANGED shown
    BY DEF Quiet, vars
  <2>1. 0 \notin Effects
    BY DEF Effects
  <2>2. ~RunEffect
    BY DEF RunEffect, QueryInv, QueryTypeOK
  <2>. QED BY <2>1, <2>2 DEF Next, Dispose, Commit, FetchArrives, MessageArrives, StreamFails,
                             AnswerFetch, Subscribe, Push, ResponseCloses
<1>. QED BY <1>1, QueryInvariant, PTL DEF Spec, DisposedIsQuiet

==============================================================================

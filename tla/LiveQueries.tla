----------------------------- MODULE LiveQueries -----------------------------
(***************************************************************************)
(* What the runtime promises, without queues, snapshots or streams: main   *)
(* is a log of commits, a live query shows a prefix of it that grows one   *)
(* commit at a time, and a write is acknowledged only when every live      *)
(* query shows it.                                                         *)
(***************************************************************************)
EXTENDS Integers

CONSTANTS Commands, Subs, MaxCommits

VARIABLES
  head,     \* length of the log
  written,  \* the commit each command made, 0 before
  acked,    \* commands answered as written
  view      \* the prefix each live query shows, or UNSEEN, or GONE

vars == <<head, written, acked, view>>

UNSEEN == -1
GONE == -2
Watching(s) == view[s] >= 0

Init ==
  /\ head = 0
  /\ written = [c \in Commands |-> 0]
  /\ acked = {}
  /\ view = [s \in Subs |-> UNSEEN]

\* A command commits, or somebody else does.
Write ==
  /\ head < MaxCommits
  /\ head' = head + 1
  /\ \/ \E c \in Commands :
          written[c] = 0 /\ written' = [written EXCEPT ![c] = head + 1]
     \/ UNCHANGED written
  /\ UNCHANGED <<acked, view>>

\* Commands are answered once every live query shows what they wrote.
Acknowledge ==
  /\ \E answered \in SUBSET {c \in Commands : written[c] > 0} :
       /\ \A c \in answered, s \in Subs : Watching(s) => written[c] <= view[s]
       /\ acked' = acked \union answered
  /\ UNCHANGED <<head, written, view>>

\* The first result holds at least what has been acknowledged.
Show(s) ==
  /\ view[s] = UNSEEN
  /\ \E n \in 0..head : /\ \A c \in acked : written[c] <= n
                        /\ view' = [view EXCEPT ![s] = n]
  /\ UNCHANGED <<head, written, acked>>

\* The next commit is folded in.
Advance(s) ==
  /\ Watching(s) /\ view[s] < head
  /\ view' = [view EXCEPT ![s] = @ + 1]
  /\ UNCHANGED <<head, written, acked>>

\* Subscriptions end.
Stop ==
  /\ \E D \in SUBSET Subs :
       view' = [s \in Subs |-> IF s \in D THEN GONE ELSE view[s]]
  /\ UNCHANGED <<head, written, acked>>

Next ==
  \/ Write \/ Acknowledge \/ Stop
  \/ \E s \in Subs : Show(s) \/ Advance(s)

Spec == Init /\ [][Next]_vars
=============================================================================

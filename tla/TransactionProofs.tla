-------------------------- MODULE TransactionProofs --------------------------
(***************************************************************************)
(* What a command's transaction guarantees for every schema, catalog,      *)
(* snapshot and handler: it reads what it will store, and, if the handler  *)
(* awaits its steps, its changes apply in order and were all permitted.    *)
(***************************************************************************)
EXTENDS Transactions, SequenceTheorems, FiniteSetTheorems, TLAPS

Ops == {"insert", "update", "delete"}
Mutation == [op : Ops, cell : Cells, found : Contents, row : Contents, within : SUBSET Nat]
Call == [pc : {"reading", "staging"}, op : Ops, value : Values \union Patches \union {Absent},
         cell : Cells, found : Contents, within : SUBSET Nat]

\* An operation has a value of its kind, and one that was accepted leaves a row or none.
WellFormed(call) ==
  /\ call.op = "insert" => call.value \in Values
  /\ call.op = "update" => call.value \in Patches
  /\ call.pc = "staging" => ((call.op = "insert") = (call.found = Absent))

TypeOK ==
  /\ policies \in Policies /\ snapshot \in [Cells -> Contents]
  /\ overlay \in [Cells -> Contents \union {Unset}]
  /\ mutations \in Seq(Mutation)
  /\ DOMAIN calls = Calls
  /\ \A c \in Calls : calls[c] # Idle => calls[c] \in Call /\ WellFormed(calls[c])
  /\ scopes \in Seq(Nat) /\ running \subseteq 1..opened /\ opened \in Nat

-----------------------------------------------------------------------------
(* Lemmas on the operators. *)

LEMMA LatestIs ==
  ASSUME NEW S, S \subseteq Int, NEW n \in S, \A k \in S : k <= n
  PROVE  Latest(S) = n
<1>1. \E j \in S : \A k \in S : k <= j
  OBVIOUS
<1>2. Latest(S) \in S /\ \A k \in S : k <= Latest(S)
  BY <1>1, Zenon DEF Latest
<1>3. Latest(S) <= n /\ n <= Latest(S)
  BY <1>2
<1>4. Latest(S) \in Int /\ n \in Int
  BY <1>2
<1> QED BY <1>3, <1>4

LEMMA ViewType ==
  ASSUME NEW written \in [Cells -> Contents \union {Unset}], NEW read \in [Cells -> Contents]
  PROVE  View(written, read) \in [Cells -> Contents]
BY DEF View

\* A staged change is what its cell holds from then on, and nothing else changes.
LEMMA StagedView ==
  ASSUME NEW written \in [Cells -> Contents \union {Unset}], NEW read \in [Cells -> Contents],
         NEW cell \in Cells, NEW row \in Contents
  PROVE  View([written EXCEPT ![cell] = row], read) = [View(written, read) EXCEPT ![cell] = row]
BY TransactionAssumption DEF View

\* Among the changes of a cell before any place of the plan, one is the latest.
HasLatest(plan) ==
  \A i \in 1..(Len(plan) + 1), c \in Cells :
    Earlier(plan, i, c) # {} => \E n \in Earlier(plan, i, c) : \A k \in Earlier(plan, i, c) : k <= n

LEMMA EarlierAppended ==
  ASSUME NEW plan \in Seq(Mutation), NEW m \in Mutation, NEW c
  PROVE  /\ \A i \in 1..(Len(plan) + 1) : Earlier(Append(plan, m), i, c) = Earlier(plan, i, c)
         /\ m.cell = c => Earlier(Append(plan, m), Len(plan) + 2, c)
                            = Earlier(plan, Len(plan) + 1, c) \union {Len(plan) + 1}
         /\ m.cell # c => Earlier(Append(plan, m), Len(plan) + 2, c) = Earlier(plan, Len(plan) + 1, c)
<1>1. ASSUME NEW i \in 1..(Len(plan) + 1), NEW j \in 1..(i - 1)
      PROVE  Append(plan, m)[j] = plan[j]
  OBVIOUS
<1>2. Append(plan, m)[Len(plan) + 1] = m
  OBVIOUS
<1>3. \A i \in 1..(Len(plan) + 1) : Earlier(Append(plan, m), i, c) = Earlier(plan, i, c)
  BY <1>1 DEF Earlier
<1>4. /\ Len(plan) \in Nat
      /\ \A j : j \in 1..((Len(plan) + 2) - 1) <=> (j \in 1..((Len(plan) + 1) - 1) \/ j = Len(plan) + 1)
  OBVIOUS
<1>5. \A j \in 1..((Len(plan) + 1) - 1) : Append(plan, m)[j] = plan[j]
  OBVIOUS
<1>6. m.cell = c => Earlier(Append(plan, m), Len(plan) + 2, c)
                      = Earlier(plan, Len(plan) + 1, c) \union {Len(plan) + 1}
  BY <1>2, <1>4, <1>5 DEF Earlier
<1>7. m.cell # c => Earlier(Append(plan, m), Len(plan) + 2, c) = Earlier(plan, Len(plan) + 1, c)
  BY <1>2, <1>4, <1>5 DEF Earlier
<1> QED BY <1>3, <1>6, <1>7

LEMMA LatestAppended ==
  ASSUME NEW plan \in Seq(Mutation), NEW m \in Mutation, HasLatest(plan)
  PROVE  HasLatest(Append(plan, m))
<1> DEFINE q == Append(plan, m)
<1> SUFFICES ASSUME NEW i \in 1..(Len(plan) + 2), NEW c \in Cells, Earlier(q, i, c) # {}
             PROVE  \E n \in Earlier(q, i, c) : \A k \in Earlier(q, i, c) : k <= n
  BY DEF HasLatest
<1>1. CASE i \in 1..(Len(plan) + 1)
  BY <1>1, EarlierAppended DEF HasLatest
<1>2. CASE i = Len(plan) + 2
  <2>1. Earlier(plan, Len(plan) + 1, c) \subseteq 1..Len(plan)
    BY DEF Earlier
  <2>2. CASE m.cell = c
    <3>1. Earlier(q, i, c) = Earlier(plan, Len(plan) + 1, c) \union {Len(plan) + 1}
      BY <1>2, <2>2, EarlierAppended
    <3>2. Len(plan) + 1 \in Earlier(q, i, c) /\ \A k \in Earlier(q, i, c) : k <= Len(plan) + 1
      BY <2>1, <3>1
    <3> QED BY <3>2
  <2>3. CASE m.cell # c
    <3>1. Earlier(q, i, c) = Earlier(plan, Len(plan) + 1, c)
      BY <1>2, <2>3, EarlierAppended
    <3> QED BY <3>1 DEF HasLatest
  <2> QED BY <2>2, <2>3
<1> QED BY <1>1, <1>2

\* Rows before a change depend on the changes before it only, ...
LEMMA KeptBefore ==
  ASSUME NEW plan \in Seq(Mutation), NEW m \in Mutation, NEW read, HasLatest(plan),
         NEW i \in 1..(Len(plan) + 1)
  PROVE  RowsBefore(Append(plan, m), read, i) = RowsBefore(plan, read, i)
<1> DEFINE q == Append(plan, m)
<1>1. ASSUME NEW c \in Cells, Earlier(plan, i, c) # {}
      PROVE  q[Latest(Earlier(plan, i, c))] = plan[Latest(Earlier(plan, i, c))]
  <2>1. Earlier(plan, i, c) \subseteq 1..(i - 1)
    BY DEF Earlier
  <2>2. PICK n \in Earlier(plan, i, c) : \A k \in Earlier(plan, i, c) : k <= n
    BY <1>1 DEF HasLatest
  <2>3. Latest(Earlier(plan, i, c)) = n
    BY <2>1, <2>2, LatestIs
  <2> QED BY <2>1, <2>3
<1>2. \A c \in Cells : Earlier(q, i, c) = Earlier(plan, i, c)
  BY EarlierAppended
<1> QED BY <1>1, <1>2 DEF RowsBefore

\* ... and a further change replaces the row of its cell.
LEMMA AppendedBefore ==
  ASSUME NEW plan \in Seq(Mutation), NEW m \in Mutation, NEW read, HasLatest(plan)
  PROVE  RowsBefore(Append(plan, m), read, Len(plan) + 2)
           = [RowsBefore(plan, read, Len(plan) + 1) EXCEPT ![m.cell] = m.row]
<1> DEFINE q == Append(plan, m)
           n == Len(plan) + 1
<1>1. n \in 1..n /\ RowsBefore(q, read, n) = RowsBefore(plan, read, n)
  BY KeptBefore
<1>2. ASSUME NEW c \in Cells
      PROVE  RowsBefore(q, read, Len(plan) + 2)[c]
               = IF c = m.cell THEN m.row ELSE RowsBefore(plan, read, Len(plan) + 1)[c]
  <2>1. CASE c = m.cell
    <3>1. Earlier(q, Len(plan) + 2, c) = Earlier(plan, Len(plan) + 1, c) \union {Len(plan) + 1}
      BY <2>1, EarlierAppended
    <3>2. Earlier(plan, Len(plan) + 1, c) \subseteq 1..Len(plan)
      BY DEF Earlier
    <3>3. Latest(Earlier(q, Len(plan) + 2, c)) = Len(plan) + 1
      BY <3>1, <3>2, LatestIs
    <3>4. q[Len(plan) + 1] = m /\ Earlier(q, Len(plan) + 2, c) # {}
      BY <3>1
    <3> QED BY <2>1, <3>3, <3>4 DEF RowsBefore
  <2>2. CASE c # m.cell
    <3>1. Earlier(q, Len(plan) + 2, c) = Earlier(plan, Len(plan) + 1, c)
      BY <2>2, EarlierAppended
    <3>2. Earlier(q, Len(plan) + 1, c) = Earlier(plan, Len(plan) + 1, c)
      BY <1>1, EarlierAppended
    <3>3. RowsBefore(q, read, Len(plan) + 2)[c] = RowsBefore(q, read, Len(plan) + 1)[c]
      BY <3>1, <3>2 DEF RowsBefore
    <3> QED BY <1>1, <2>2, <3>3
  <2> QED BY <2>1, <2>2
<1> QED BY <1>2 DEF RowsBefore

-----------------------------------------------------------------------------
(* Type correctness. *)

LEMMA AfterType ==
  ASSUME NEW call \in Call, WellFormed(call), call.pc = "staging"
  PROVE  After(call) \in Contents
<1>1. CASE call.op = "insert"
  BY <1>1, TransactionAssumption DEF After, WellFormed, Contents
<1>2. CASE call.op = "update"
  <2>1. call.found \in Rows
    BY <1>2 DEF WellFormed, Call, Contents
  <2> QED BY <1>2, <2>1, TransactionAssumption DEF After, WellFormed, Contents
<1>3. CASE call.op = "delete"
  BY <1>3 DEF After, Contents
<1> QED BY <1>1, <1>2, <1>3 DEF Call, Ops

LEMMA StagedType ==
  ASSUME TypeOK, NEW c \in Calls, calls[c] \in Call, WellFormed(calls[c]), calls[c].pc = "staging"
  PROVE  Staged(calls[c]) \in Mutation
BY AfterType DEF Staged, Mutation, Call

LEMMA InitType == Init => TypeOK
BY TransactionAssumption DEF Init, TypeOK

LEMMA NextType == TypeOK /\ [Next]_vars => TypeOK'
<1> SUFFICES ASSUME TypeOK, [Next]_vars PROVE TypeOK'
  OBVIOUS
<1> USE DEF TypeOK
<1>1. ASSUME NEW c \in Calls, Begin(c) PROVE TypeOK'
  <2>1. PICK operation \in Operations, cell \in Cells :
          calls' = [calls EXCEPT ![c] =
                      [pc |-> "reading", op |-> operation.op, value |-> operation.value,
                       cell |-> cell, found |-> View(overlay, snapshot)[cell], within |-> running]]
    BY <1>1 DEF Begin, givenVars
  <2>2. View(overlay, snapshot)[cell] \in Contents
    BY ViewType
  <2>3. operation.op \in Ops /\ operation.value \in Values \union Patches \union {Absent}
    BY DEF Operations, Ops
  <2>4. running \in SUBSET Nat
    OBVIOUS
  <2>5. calls'[c] \in Call
    BY <2>1, <2>2, <2>3, <2>4 DEF Call
  <2>6. WellFormed(calls'[c])
    BY <2>1 DEF WellFormed, Operations
  <2>7. \A d \in Calls : d # c => calls'[d] = calls[d]
    BY <2>1
  <2> QED BY <1>1, <2>1, <2>5, <2>6, <2>7 DEF Begin, givenVars, stateVars, scopeVars
<1>2. ASSUME NEW c \in Calls, Authorize(c) PROVE TypeOK'
  <2>1. calls[c] # Idle /\ calls[c] \in Call /\ WellFormed(calls[c])
    BY <1>2 DEF Authorize, Idle, givenVars
  <2>2. \/ calls'[c] = Idle
        \/ /\ calls'[c] = [calls[c] EXCEPT !.pc = "staging"]
           /\ (calls[c].op = "insert") = (calls[c].found = Absent)
    BY <1>2 DEF Authorize, givenVars
  <2>3. calls'[c] # Idle => calls'[c] \in Call /\ WellFormed(calls'[c])
    BY <2>1, <2>2 DEF Call, WellFormed
  <2>4. DOMAIN calls' = Calls /\ \A d \in Calls : d # c => calls'[d] = calls[d]
    BY <1>2 DEF Authorize, givenVars
  <2> QED BY <1>2, <2>3, <2>4 DEF Authorize, givenVars, stateVars, scopeVars
<1>3. ASSUME NEW c \in Calls, Stage(c) PROVE TypeOK'
  <2>1. calls[c] # Idle /\ calls[c] \in Call /\ WellFormed(calls[c]) /\ calls[c].pc = "staging"
    BY <1>3 DEF Stage, Idle, givenVars
  <2>2. Staged(calls[c]) \in Mutation /\ After(calls[c]) \in Contents
    BY <2>1, StagedType, AfterType
  <2>3. mutations' \in Seq(Mutation)
    BY <1>3, <2>2 DEF Stage, givenVars
  <2>5. overlay' \in [Cells -> Contents \union {Unset}]
    BY <1>3, <2>2 DEF Stage, givenVars
  <2>4. DOMAIN calls' = Calls /\ calls'[c] = Idle /\ \A d \in Calls : d # c => calls'[d] = calls[d]
    BY <1>3 DEF Stage, givenVars
  <2> QED BY <1>3, <2>3, <2>5, <2>4 DEF Stage, scopeVars, givenVars
<1>4. ASSUME Enter PROVE TypeOK'
  BY <1>4 DEF Enter, givenVars, stateVars
<1>5. ASSUME NEW s \in 1..opened, AssertAuthorization(s) PROVE TypeOK'
  BY <1>5 DEF AssertAuthorization, givenVars, stateVars
<1>6. ASSUME NEW s \in running, Leave(s) PROVE TypeOK'
  BY <1>6 DEF Leave, givenVars, stateVars
<1>7. ASSUME End PROVE TypeOK'
  BY <1>7 DEF End, givenVars, stateVars, scopeVars
<1>8. CASE UNCHANGED vars
  BY <1>8 DEF vars, givenVars, stateVars, scopeVars
<1> QED BY <1>1, <1>2, <1>3, <1>4, <1>5, <1>6, <1>7, <1>8 DEF Next

\* The state of a transaction keeps its types, whatever the handler does.
THEOREM TypeCorrect == Spec => []TypeOK
BY InitType, NextType, PTL DEF Spec

-----------------------------------------------------------------------------
(* A transaction reads its own writes, whether or not its steps overlap. *)

Reads == TypeOK /\ HasLatest(mutations) /\ ReadsOwnWrites

LEMMA InitReads == Init => Reads
<1> SUFFICES ASSUME Init PROVE Reads
  OBVIOUS
<1>1. TypeOK
  BY InitType
<1>2. \A i, c : i \in 1..(Len(mutations) + 1) => Earlier(mutations, i, c) = {}
  BY DEF Init, Earlier
<1>3. Len(mutations) + 1 \in 1..(Len(mutations) + 1)
  BY DEF Init
<1>4. RowsBefore(mutations, snapshot, Len(mutations) + 1) = [c \in Cells |-> snapshot[c]]
  BY <1>2, <1>3 DEF RowsBefore
<1>5. View(overlay, snapshot) = [c \in Cells |-> snapshot[c]]
  BY DEF Init, View
<1> QED BY <1>1, <1>2, <1>4, <1>5 DEF Reads, HasLatest, ReadsOwnWrites, Before

LEMMA StageReads ==
  ASSUME Reads, NEW c \in Calls, Stage(c)
  PROVE  /\ calls[c] # Idle /\ calls[c] \in Call /\ WellFormed(calls[c]) /\ calls[c].pc = "staging"
         /\ Staged(calls[c]) \in Mutation
         /\ HasLatest(mutations)'
         /\ \A i \in 1..(Len(mutations) + 1) : Before(i)' = Before(i)
         /\ ReadsOwnWrites'
<1> DEFINE m == Staged(calls[c])
<1>1. calls[c] # Idle /\ calls[c] \in Call /\ WellFormed(calls[c]) /\ calls[c].pc = "staging"
  BY DEF Stage, Idle, Reads, TypeOK, givenVars
<1>2. m \in Mutation /\ After(calls[c]) \in Contents /\ calls[c].cell \in Cells
  BY <1>1, StagedType, AfterType DEF Reads, Call
<1>3. mutations \in Seq(Mutation) /\ mutations' = Append(mutations, m) /\ snapshot' = snapshot
  BY DEF Stage, Reads, TypeOK, givenVars
<1>4. HasLatest(mutations)'
  BY <1>2, <1>3, LatestAppended DEF Reads
<1>5. \A i \in 1..(Len(mutations) + 1) : Before(i)' = Before(i)
  <2>1. \A i \in 1..(Len(mutations) + 1) :
          RowsBefore(Append(mutations, m), snapshot, i) = RowsBefore(mutations, snapshot, i)
    <3> HIDE DEF m
    <3>1. mutations \in Seq(Mutation) /\ m \in Mutation /\ HasLatest(mutations)
      BY <1>2, <1>3 DEF Reads
    <3>2. ASSUME NEW i \in 1..(Len(mutations) + 1)
          PROVE  RowsBefore(Append(mutations, m), snapshot, i) = RowsBefore(mutations, snapshot, i)
      BY <3>1, KeptBefore
    <3> QED BY <3>2
  <2> QED BY <1>3, <2>1 DEF Before
<1>6. RowsBefore(mutations', snapshot', Len(mutations) + 2)
        = [RowsBefore(mutations, snapshot, Len(mutations) + 1) EXCEPT ![m.cell] = m.row]
  BY <1>2, <1>3, AppendedBefore DEF Reads
<1>7. Len(mutations') + 1 = Len(mutations) + 2
  BY <1>3
<1>8. m.cell = calls[c].cell /\ m.row = After(calls[c])
  BY DEF Staged
<1>9. overlay' = [overlay EXCEPT ![calls[c].cell] = After(calls[c])]
  BY DEF Stage, givenVars
<1>10. View(overlay', snapshot') = [View(overlay, snapshot) EXCEPT ![m.cell] = m.row]
  <2>1. overlay \in [Cells -> Contents \union {Unset}] /\ snapshot \in [Cells -> Contents]
    BY DEF Reads, TypeOK
  <2>2. View([overlay EXCEPT ![calls[c].cell] = After(calls[c])], snapshot)
          = [View(overlay, snapshot) EXCEPT ![calls[c].cell] = After(calls[c])]
    <3> DEFINE cell == calls[c].cell
               row == After(calls[c])
    <3>1. cell \in Cells /\ row \in Contents
      BY <1>2
    <3> HIDE DEF cell, row
    <3>2. View([overlay EXCEPT ![cell] = row], snapshot) = [View(overlay, snapshot) EXCEPT ![cell] = row]
      BY <2>1, <3>1, TransactionAssumption DEF View
    <3> QED BY <3>2 DEF cell, row
  <2> QED BY <1>3, <1>8, <1>9, <2>2
<1>11. ReadsOwnWrites'
  BY <1>6, <1>7, <1>10 DEF Reads, ReadsOwnWrites, Before
<1> QED BY <1>1, <1>2, <1>4, <1>5, <1>11

LEMMA NextReads == Reads /\ [Next]_vars => Reads'
<1> SUFFICES ASSUME Reads, [Next]_vars PROVE Reads'
  OBVIOUS
<1>1. TypeOK'
  BY NextType DEF Reads
<1>2. CASE UNCHANGED <<snapshot, overlay, mutations>>
  BY <1>1, <1>2 DEF Reads, ReadsOwnWrites, Before
<1>3. ASSUME NEW c \in Calls, Stage(c) PROVE Reads'
  BY <1>1, <1>3, StageReads DEF Reads
<1> QED BY <1>2, <1>3
  DEF Next, Begin, Authorize, Enter, AssertAuthorization, Leave, End, vars, givenVars, stateVars, scopeVars

\* What get() answers is what the commit will store: the snapshot with the changes staged
\* so far, applied in order.
THEOREM TransactionReads == Spec => []ReadsOwnWrites
<1>1. Reads => ReadsOwnWrites
  BY DEF Reads
<1> QED BY <1>1, InitReads, NextReads, PTL DEF Spec

-----------------------------------------------------------------------------
(* A handler that awaits its steps. *)

\* The scopes are those of the callbacks that run, the innermost last.
LexicalScopes ==
  /\ \A i \in 1..Len(scopes) : scopes[i] \in running
  /\ \A s \in running : \E i \in 1..Len(scopes) : scopes[i] = s
  /\ \A i, j \in 1..Len(scopes) : i < j => scopes[i] < scopes[j]

\* One call is in flight, and what it found and was allowed still holds.
InFlight ==
  /\ \A c, d \in Calls : calls[c] # Idle /\ calls[d] # Idle => c = d
  /\ \A c \in Calls : calls[c] # Idle =>
       /\ calls[c].within = running
       /\ calls[c].found = View(overlay, snapshot)[calls[c].cell]
       /\ calls[c].pc = "staging" =>
            Allowed(policies, View(overlay, snapshot), asserted, Staged(calls[c]))

Orderly == Reads /\ LexicalScopes /\ InFlight /\ PlanApplies /\ EveryWritePermitted

LEMMA InnermostScope ==
  ASSUME TypeOK, LexicalScopes
  PROVE  /\ scopes = <<>> <=> running = {}
         /\ scopes # <<>> => Latest(running) = scopes[Len(scopes)]
<1>1. scopes \in Seq(Nat) /\ running \subseteq Int
  BY DEF TypeOK
<1>2. scopes = <<>> <=> running = {}
  BY <1>1 DEF LexicalScopes
<1>3. ASSUME scopes # <<>> PROVE Latest(running) = scopes[Len(scopes)]
  <2>1. Len(scopes) \in 1..Len(scopes) /\ scopes[Len(scopes)] \in running
    BY <1>1, <1>3 DEF LexicalScopes
  <2>2. \A i \in 1..Len(scopes) : i = Len(scopes) \/ i < Len(scopes)
    BY <1>1
  <2>3. \A s \in running : s <= scopes[Len(scopes)]
    BY <1>1, <2>1, <2>2 DEF LexicalScopes
  <2> QED BY <1>1, <2>1, <2>3, LatestIs
<1> QED BY <1>2, <1>3

\* Assertions only add to what is allowed.
LEMMA AllowedLater ==
  ASSUME NEW catalog, NEW view, NEW before, NEW after, NEW m, before \subseteq after,
         Allowed(catalog, view, before, m)
  PROVE  Allowed(catalog, view, after, m)
BY DEF Allowed

LEMMA InitOrderly == Init => Orderly
BY InitReads DEF Init, Orderly, LexicalScopes, InFlight, PlanApplies, EveryWritePermitted

LEMMA BeginOrderly ==
  ASSUME awaits, Orderly, NEW c \in Calls, Begin(c)
  PROVE  InFlight'
<1>1. \A d \in Calls : calls[d] = Idle
  BY DEF Begin, MayStep, Awaited, givenVars
<1>2. PICK operation \in Operations, cell \in Cells :
        calls' = [calls EXCEPT ![c] =
                    [pc |-> "reading", op |-> operation.op, value |-> operation.value,
                     cell |-> cell, found |-> View(overlay, snapshot)[cell], within |-> running]]
  BY DEF Begin, givenVars
<1>3. DOMAIN calls = Calls
  BY DEF Orderly, Reads, TypeOK
<1>4. \A d \in Calls : d # c => calls'[d] = Idle
  BY <1>1, <1>2, <1>3
<1>5. /\ calls'[c].within = running /\ calls'[c].pc = "reading"
      /\ calls'[c].found = View(overlay, snapshot)[calls'[c].cell]
  BY <1>2, <1>3
<1>6. UNCHANGED <<overlay, snapshot, running>>
  BY DEF Begin, givenVars, stateVars, scopeVars
<1>7. View(overlay', snapshot') = View(overlay, snapshot)
  BY <1>6
<1> QED BY <1>4, <1>5, <1>6, <1>7 DEF InFlight

LEMMA AuthorizeOrderly ==
  ASSUME awaits, Orderly, NEW c \in Calls, Authorize(c)
  PROVE  InFlight'
<1>1. DOMAIN calls = Calls /\ calls[c] # Idle /\ calls[c] \in Call
  BY DEF Orderly, Reads, TypeOK, Authorize, Idle, givenVars
<1>2. \A d \in Calls : d # c => calls'[d] = calls[d] /\ calls[d] = Idle
  BY <1>1 DEF Authorize, Orderly, InFlight, givenVars
<1>3. UNCHANGED <<policies, overlay, snapshot, running, asserted>>
  BY DEF Authorize, givenVars, stateVars, scopeVars
<1>4. CASE calls'[c] = Idle
  BY <1>2, <1>4 DEF InFlight
<1>5. CASE calls'[c] = [calls[c] EXCEPT !.pc = "staging"] /\ Granted(calls[c])
  <2>1. /\ calls'[c].within = calls[c].within /\ calls'[c].found = calls[c].found
        /\ calls'[c].cell = calls[c].cell /\ Staged(calls'[c]) = Staged(calls[c])
    BY <1>1, <1>5 DEF Call, Staged, After
  <2>2. calls[c].within = running /\ calls[c].found = View(overlay, snapshot)[calls[c].cell]
    BY <1>1 DEF Orderly, InFlight
  <2>3. Allowed(policies, View(overlay, snapshot), asserted, Staged(calls[c]))
    BY <1>5, <2>2, InnermostScope DEF Orderly, Reads, Granted, Allowed, Staged
  <2>4. Allowed(policies', View(overlay', snapshot'), asserted', Staged(calls'[c]))
    BY <1>3, <2>1, <2>3
  <2>5. View(overlay', snapshot') = View(overlay, snapshot)
    BY <1>3
  <2> QED BY <1>2, <1>3, <2>1, <2>2, <2>4, <2>5 DEF InFlight
<1> QED BY <1>1, <1>4, <1>5 DEF Authorize, givenVars

LEMMA StageOrderly ==
  ASSUME awaits, Orderly, NEW c \in Calls, Stage(c)
  PROVE  InFlight' /\ PlanApplies' /\ EveryWritePermitted'
<1> DEFINE m == Staged(calls[c])
<1>1. /\ calls[c] # Idle /\ calls[c] \in Call /\ WellFormed(calls[c]) /\ calls[c].pc = "staging"
      /\ m \in Mutation
      /\ \A i \in 1..(Len(mutations) + 1) : Before(i)' = Before(i)
  BY StageReads DEF Orderly
<1>2. mutations \in Seq(Mutation) /\ mutations' = Append(mutations, m)
  BY DEF Stage, Orderly, Reads, TypeOK, givenVars
<1>3. /\ \A i \in 1..Len(mutations) : mutations'[i] = mutations[i]
      /\ mutations'[Len(mutations) + 1] = m
      /\ DOMAIN mutations' = 1..Len(mutations) \union {Len(mutations) + 1}
      /\ DOMAIN mutations = 1..Len(mutations)
      /\ 1..Len(mutations) \subseteq 1..(Len(mutations) + 1)
      /\ Len(mutations) + 1 \in 1..(Len(mutations) + 1)
  BY <1>2
<1>4. RowsBefore(mutations', snapshot', Len(mutations) + 1) = View(overlay, snapshot)
  <2>1. RowsBefore(mutations, snapshot, Len(mutations) + 1) = View(overlay, snapshot)
    BY DEF Orderly, Reads, ReadsOwnWrites, Before
  <2>2. RowsBefore(mutations', snapshot', Len(mutations) + 1)
          = RowsBefore(mutations, snapshot, Len(mutations) + 1)
    BY <1>1, <1>3 DEF Before
  <2> QED BY <2>1, <2>2
<1>5. InFlight'
  BY <1>1 DEF Stage, Orderly, Reads, TypeOK, InFlight, givenVars
<1>6. PlanApplies'
  <2>1. m.found = View(overlay, snapshot)[m.cell]
    BY <1>1 DEF Staged, Orderly, InFlight
  <2>2. (m.op = "insert") = (m.found = Absent)
    BY <1>1 DEF Staged, WellFormed
  <2>3. (m.op = "delete") = (m.row = Absent)
    <3>1. calls[c].op = "delete" => After(calls[c]) = Absent
      BY DEF After
    <3>2. calls[c].op = "insert" => After(calls[c]) \in Rows
      BY <1>1, TransactionAssumption DEF After, WellFormed
    <3>3. calls[c].op = "update" => After(calls[c]) \in Rows
      BY <1>1, TransactionAssumption DEF After, WellFormed, Call, Contents
    <3> QED BY <1>1, <3>1, <3>2, <3>3, TransactionAssumption DEF Staged, Call, Ops
  <2>4. ASSUME NEW i \in 1..Len(mutations)
        PROVE  /\ mutations'[i].found = RowsBefore(mutations', snapshot', i)[mutations'[i].cell]
               /\ (mutations'[i].op = "insert") = (mutations'[i].found = Absent)
               /\ (mutations'[i].op = "delete") = (mutations'[i].row = Absent)
    BY <1>1, <1>3 DEF Orderly, PlanApplies, Before
  <2> QED BY <1>3, <1>4, <2>1, <2>2, <2>3, <2>4 DEF PlanApplies, Before
<1>7. EveryWritePermitted'
  <2>1. UNCHANGED <<policies, asserted>>
    BY DEF Stage, scopeVars, givenVars
  <2>2. Allowed(policies, View(overlay, snapshot), asserted, m)
    BY <1>1 DEF Orderly, InFlight
  <2>3. Allowed(policies', RowsBefore(mutations', snapshot', Len(mutations) + 1), asserted', mutations'[Len(mutations) + 1])
    BY <1>3, <1>4, <2>1, <2>2
  <2>4. ASSUME NEW i \in 1..Len(mutations)
        PROVE  Allowed(policies', RowsBefore(mutations', snapshot', i), asserted', mutations'[i])
    BY <1>1, <1>3, <2>1 DEF Orderly, EveryWritePermitted, Before
  <2> QED BY <1>3, <2>3, <2>4 DEF EveryWritePermitted, Before
<1> QED BY <1>5, <1>6, <1>7

LEMMA ScopesOrderly ==
  ASSUME awaits, Orderly, Enter \/ \E s \in running : Leave(s)
  PROVE  LexicalScopes' /\ InFlight'
<1>1. scopes \in Seq(Nat) /\ running \subseteq 1..opened /\ opened \in Nat
  BY DEF Orderly, Reads, TypeOK
<1>2. \A c \in Calls : calls'[c] = Idle
  BY DEF Enter, Leave, MayStep, Awaited, givenVars
<1>3. InFlight'
  BY <1>2 DEF InFlight
<1>4. ASSUME Enter PROVE LexicalScopes'
  <2>1. /\ scopes' = Append(scopes, opened + 1) /\ running' = running \union {opened + 1}
    BY <1>4 DEF Enter, givenVars
  <2>2. /\ Len(scopes') = Len(scopes) + 1 /\ scopes'[Len(scopes) + 1] = opened + 1
        /\ \A i \in 1..Len(scopes) : scopes'[i] = scopes[i]
    BY <1>1, <2>1
  <2>3. \A i \in 1..Len(scopes) : scopes[i] \in running /\ scopes[i] < opened + 1
    BY <1>1 DEF Orderly, LexicalScopes
  <2>4. \A i \in 1..(Len(scopes) + 1) : i \in 1..Len(scopes) \/ i = Len(scopes) + 1
    BY <1>1
  <2>5. \A i \in 1..Len(scopes') : scopes'[i] \in running'
    BY <2>1, <2>2, <2>3, <2>4
  <2>6. \A s \in running' : \E i \in 1..Len(scopes') : scopes'[i] = s
    <3>1. \A s \in running : \E i \in 1..Len(scopes) : scopes'[i] = s
      BY <2>2 DEF Orderly, LexicalScopes
    <3>2. 1..Len(scopes) \subseteq 1..Len(scopes') /\ Len(scopes) + 1 \in 1..Len(scopes')
      BY <1>1, <2>2
    <3> QED BY <2>1, <2>2, <3>1, <3>2
  <2>7. \A i, j \in 1..Len(scopes') : i < j => scopes'[i] < scopes'[j]
    <3> SUFFICES ASSUME NEW i \in 1..Len(scopes'), NEW j \in 1..Len(scopes'), i < j
                 PROVE  scopes'[i] < scopes'[j]
      OBVIOUS
    <3>1. i \in 1..Len(scopes)
      BY <1>1, <2>2
    <3>2. CASE j \in 1..Len(scopes)
      BY <2>2, <3>1, <3>2 DEF Orderly, LexicalScopes
    <3>3. CASE j = Len(scopes) + 1
      BY <2>2, <2>3, <3>1, <3>3
    <3> QED BY <2>2, <2>4, <3>2, <3>3
  <2> QED BY <2>5, <2>6, <2>7 DEF LexicalScopes
<1>5. ASSUME NEW s \in running, Leave(s) PROVE LexicalScopes'
  <2>1. /\ s = scopes[Len(scopes)] /\ running' = running \ {s}
        /\ scopes' = SubSeq(scopes, 1, Len(scopes) - 1)
    BY <1>5 DEF Leave, givenVars
  <2>2. Len(scopes) \in Nat /\ Len(scopes) > 0
    BY <1>1 DEF Orderly, LexicalScopes
  <2>3. /\ Len(scopes') = Len(scopes) - 1
        /\ \A i \in 1..Len(scopes') : i \in 1..Len(scopes) /\ i < Len(scopes) /\ scopes'[i] = scopes[i]
    <3>1. Len(scopes) - 1 \in Nat /\ Len(scopes) - 1 <= Len(scopes)
      BY <2>2
    <3>2. /\ Len(SubSeq(scopes, 1, Len(scopes) - 1)) = Len(scopes) - 1
          /\ \A i \in 1..(Len(scopes) - 1) : SubSeq(scopes, 1, Len(scopes) - 1)[i] = scopes[i]
      <4> DEFINE n == Len(scopes) - 1
      <4>1. n \in Nat /\ \A i \in 1..n : scopes[i] \in Nat
        BY <1>1, <3>1
      <4> HIDE DEF n
      <4>2. /\ Len(SubSeq(scopes, 1, n)) = IF 1 <= n THEN n - 1 + 1 ELSE 0
            /\ \A i \in 1..(n - 1 + 1) : SubSeq(scopes, 1, n)[i] = scopes[1 + i - 1]
        BY <4>1, SubSeqProperties
      <4>3. Len(SubSeq(scopes, 1, n)) = n /\ \A i \in 1..n : SubSeq(scopes, 1, n)[i] = scopes[i]
        BY <4>1, <4>2
      <4> QED BY <4>3 DEF n
    <3> QED BY <2>1, <2>2, <3>2
  <2>4. Len(scopes) \in 1..Len(scopes)
    BY <2>2
  <2>5. \A i \in 1..Len(scopes') : scopes'[i] \in running'
    <3> SUFFICES ASSUME NEW i \in 1..Len(scopes') PROVE scopes'[i] \in running'
      OBVIOUS
    <3>2. i \in 1..Len(scopes) /\ i < Len(scopes)
      BY <2>3
    <3>3. scopes[i] < scopes[Len(scopes)] /\ scopes[i] \in running
      BY <2>4, <3>2 DEF Orderly, LexicalScopes
    <3>1. scopes[i] < scopes[Len(scopes)] /\ scopes[i] \in running /\ scopes[i] \in Nat
      BY <1>1, <3>2, <3>3
    <3> QED BY <1>1, <2>1, <2>3, <3>1
  <2>6. \A t \in running' : \E i \in 1..Len(scopes') : scopes'[i] = t
    <3> SUFFICES ASSUME NEW t \in running, t # s PROVE \E i \in 1..Len(scopes') : scopes'[i] = t
      BY <2>1
    <3>1. PICK i \in 1..Len(scopes) : scopes[i] = t
      BY DEF Orderly, LexicalScopes
    <3>2. i # Len(scopes)
      BY <2>1, <3>1
    <3>3. i \in 1..Len(scopes')
      BY <2>2, <2>3, <3>2
    <3> QED BY <2>3, <3>1, <3>3
  <2>7. \A i, j \in 1..Len(scopes') : i < j => scopes'[i] < scopes'[j]
    BY <2>3 DEF Orderly, LexicalScopes
  <2> QED BY <2>5, <2>6, <2>7 DEF LexicalScopes
<1> QED BY <1>3, <1>4, <1>5

LEMMA NextOrderly == awaits /\ Orderly /\ [Next]_vars => Orderly'
<1> SUFFICES ASSUME awaits, Orderly, [Next]_vars PROVE Orderly'
  OBVIOUS
<1>1. Reads'
  BY NextReads DEF Orderly
<1>2. ASSUME UNCHANGED <<policies, snapshot, mutations, asserted>>
      PROVE  PlanApplies' /\ EveryWritePermitted'
  BY <1>2 DEF Orderly, PlanApplies, EveryWritePermitted, Before
<1>3. ASSUME UNCHANGED <<scopes, running>> PROVE LexicalScopes'
  BY <1>3 DEF Orderly, LexicalScopes
<1>4. ASSUME NEW c \in Calls, Begin(c) PROVE Orderly'
  BY <1>1, <1>2, <1>3, <1>4, BeginOrderly DEF Begin, Orderly, givenVars, stateVars, scopeVars
<1>5. ASSUME NEW c \in Calls, Authorize(c) PROVE Orderly'
  BY <1>1, <1>2, <1>3, <1>5, AuthorizeOrderly DEF Authorize, Orderly, givenVars, stateVars, scopeVars
<1>6. ASSUME NEW c \in Calls, Stage(c) PROVE Orderly'
  BY <1>1, <1>3, <1>6, StageOrderly DEF Stage, Orderly, scopeVars, givenVars
<1>7. ASSUME Enter PROVE Orderly'
  BY <1>1, <1>2, <1>7, ScopesOrderly DEF Enter, Orderly, givenVars, stateVars
<1>8. ASSUME NEW s \in running, Leave(s) PROVE Orderly'
  BY <1>1, <1>2, <1>8, ScopesOrderly DEF Leave, Orderly, givenVars, stateVars
<1>9. ASSUME NEW s \in 1..opened, AssertAuthorization(s) PROVE Orderly'
  <2>1. /\ UNCHANGED <<policies, snapshot, overlay, mutations, calls, scopes, running>>
        /\ asserted \subseteq asserted'
    BY <1>9 DEF AssertAuthorization, givenVars, stateVars
  <2>2. InFlight'
    BY <2>1, AllowedLater DEF Orderly, InFlight, Staged, After
  <2>3. PlanApplies'
    BY <2>1 DEF Orderly, PlanApplies, Before
  <2>4. EveryWritePermitted'
    <3> SUFFICES ASSUME NEW i \in DOMAIN mutations
                 PROVE  Allowed(policies, Before(i), asserted', mutations[i])
      BY <2>1 DEF EveryWritePermitted, Before
    <3> QED BY <2>1, AllowedLater DEF Orderly, EveryWritePermitted
  <2> QED BY <1>1, <1>3, <2>1, <2>2, <2>3, <2>4 DEF Orderly
<1>10. ASSUME UNCHANGED <<policies, snapshot, overlay, mutations, calls, scopes, running, asserted>>
       PROVE  Orderly'
  BY <1>1, <1>2, <1>3, <1>10 DEF Orderly, InFlight, Staged, After
<1>11. CASE End \/ UNCHANGED vars
  BY <1>10, <1>11 DEF End, vars, givenVars, stateVars, scopeVars
<1> QED BY <1>4, <1>5, <1>6, <1>7, <1>8, <1>9, <1>11 DEF Next

\* Whether the handler awaits its steps is settled at the start.
Inv == awaits => Orderly

LEMMA InitInv == Init => Inv
BY InitOrderly DEF Inv

LEMMA NextInv == Inv /\ [Next]_vars => Inv'
<1>1. [Next]_vars => awaits' = awaits
  BY DEF Next, Begin, Authorize, Stage, Enter, AssertAuthorization, Leave, End, vars, givenVars
<1> QED BY <1>1, NextOrderly DEF Inv

\* The storage accepts the changes of a handler that awaits its steps, in their order.
THEOREM AwaitedPlanApplies == Spec => []PlanApplies
<1>1. Inv => PlanApplies
  BY DEF Inv, Orderly, PlanApplies
<1> QED BY <1>1, InitInv, NextInv, PTL DEF Spec

\* Every change of a handler that awaits its steps was made under an asserted scope or
\* permitted by the policies, on the rows as they were.
THEOREM AwaitedWritesPermitted == Spec => []EveryWritePermitted
<1>1. Inv => EveryWritePermitted
  BY DEF Inv, Orderly, EveryWritePermitted
<1> QED BY <1>1, InitInv, NextInv, PTL DEF Spec

-----------------------------------------------------------------------------
(* Scopes, whatever the handler awaits. *)

Balanced == TypeOK /\ ScopesBalanced

LEMMA RunningIsFinite ==
  ASSUME TypeOK
  PROVE  IsFiniteSet(running) /\ Cardinality(running) \in Nat
<1>1. IsFiniteSet(1..opened) /\ running \subseteq 1..opened
  BY FS_Interval DEF TypeOK
<1> QED BY <1>1, FS_Subset, FS_CardinalityType

LEMMA InitBalanced == Init => Balanced
BY InitType, FS_EmptySet DEF Init, Balanced, ScopesBalanced

LEMMA NextBalanced == Balanced /\ [Next]_vars => Balanced'
<1> SUFFICES ASSUME Balanced, [Next]_vars PROVE Balanced'
  OBVIOUS
<1>1. TypeOK /\ TypeOK' /\ ScopesBalanced
  BY NextType DEF Balanced
<1>2. scopes \in Seq(Nat) /\ opened \in Nat /\ running \subseteq 1..opened /\ IsFiniteSet(running)
  BY <1>1, RunningIsFinite DEF TypeOK
<1>3. ASSUME UNCHANGED <<scopes, running>> PROVE ScopesBalanced'
  BY <1>1, <1>3 DEF ScopesBalanced
<1>4. ASSUME Enter PROVE ScopesBalanced'
  <2>1. scopes' = Append(scopes, opened + 1) /\ running' = running \union {opened + 1}
    BY <1>4 DEF Enter
  <2>2. opened + 1 \notin running
    BY <1>2
  <2>3. Cardinality(running') = Cardinality(running) + 1
    BY <1>2, <2>1, <2>2, FS_AddElement
  <2>4. Len(scopes') = Len(scopes) + 1
    BY <1>2, <2>1
  <2> QED BY <1>1, <2>3, <2>4 DEF ScopesBalanced
<1>5. ASSUME NEW s \in running, Leave(s) PROVE ScopesBalanced'
  <2>1. scopes' = SubSeq(scopes, 1, Len(scopes) - 1) /\ running' = running \ {s}
    BY <1>5 DEF Leave
  <2>2. Cardinality(running') = Cardinality(running) - 1 /\ Cardinality(running') \in Nat
    <3>1. Cardinality(running \ {s}) = Cardinality(running) - 1
      BY <1>2, FS_RemoveElement
    <3>2. IsFiniteSet(running \ {s}) /\ Cardinality(running \ {s}) \in Nat
      BY <1>2, FS_RemoveElement, FS_CardinalityType
    <3> QED BY <2>1, <3>1, <3>2
  <2>3. Len(scopes) \in Nat /\ Len(scopes) - 1 \in Nat
    BY <1>1, <1>2, <2>2 DEF ScopesBalanced
  <2>4. Len(scopes') = Len(scopes) - 1
    <3> DEFINE n == Len(scopes) - 1
    <3>1. n \in Nat /\ n <= Len(scopes) /\ \A i \in 1..n : scopes[i] \in Nat
      BY <1>2, <2>3
    <3> HIDE DEF n
    <3>2. Len(SubSeq(scopes, 1, n)) = IF 1 <= n THEN n - 1 + 1 ELSE 0
      BY <3>1, SubSeqProperties
    <3>3. Len(SubSeq(scopes, 1, n)) = n
      BY <3>1, <3>2
    <3> QED BY <2>1, <3>3 DEF n
  <2> QED BY <1>1, <2>2, <2>4 DEF ScopesBalanced
<1>6. ASSUME UNCHANGED vars \/ End PROVE ScopesBalanced'
  BY <1>3, <1>6 DEF vars, End, scopeVars
<1>7. ASSUME NEW c \in Calls, Begin(c) \/ Authorize(c) \/ Stage(c) PROVE ScopesBalanced'
  BY <1>3, <1>7 DEF Begin, Authorize, Stage, scopeVars
<1>8. ASSUME NEW s \in 1..opened, AssertAuthorization(s) PROVE ScopesBalanced'
  BY <1>3, <1>8 DEF AssertAuthorization
<1>9. ScopesBalanced'
  BY <1>4, <1>5, <1>6, <1>7, <1>8 DEF Next
<1> QED BY <1>1, <1>9 DEF Balanced

\* As many scopes are open as callbacks run, however their ends overlap.
THEOREM ScopesStayBalanced == Spec => []ScopesBalanced
<1>1. Balanced => ScopesBalanced
  BY DEF Balanced
<1> QED BY <1>1, InitBalanced, NextBalanced, PTL DEF Spec

\* What a transaction hands to the storage applies in its order, was permitted, and leaves no
\* admin scope behind.
THEOREM TransactionWrites == Spec => []WritesSound
BY AwaitedPlanApplies, AwaitedWritesPermitted, ScopesStayBalanced, PTL DEF WritesSound
=============================================================================

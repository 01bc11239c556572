----------------------------- MODULE Transactions -----------------------------
(***************************************************************************)
(* A command's transaction (CommandTransaction in command.ts) and the      *)
(* write policies that decide on its changes (write-policy.ts).  The       *)
(* handler is any program that reads, stages changes, opens admin scopes   *)
(* and carries on after an error; docs/api/application.md asks it to await *)
(* each step before the next, and a handler for which awaits is FALSE does *)
(* not.                                                                    *)
(*                                                                         *)
(* A row has a column "up" that may refer to a row of another table, and   *)
(* "mine", on which the functions of "where" policies decide.  Reads are   *)
(* not actions: what get() answers is View.                                *)
(***************************************************************************)
EXTENDS Integers, Sequences, FiniteSets

CONSTANTS
  Tables, Keys,
  Catalogs,      \* policies a command is made with: kind and parent of each table
  Snapshots,     \* contents of the storage snapshot
  Values,        \* rows given to insert()
  Patches,       \* changes given to update()
  Calls,         \* calls of insert(), update() and delete() in flight at once
  MaxMutations,  \* bound: changes staged
  MaxScopes,     \* bound: calls of withAdminPolicy()
  Absent, Unset, NoKey

Cells == Tables \X Keys
Rows == [up : Keys \union {NoKey}, mine : BOOLEAN]
Contents == Rows \union {Absent}
Kinds == {"allow", "deny", "where", "through"}
Policies == [Tables -> [kind : Kinds, parent : Tables]]

\* {...current, ...changes}: a patch is a record of some of the columns.
Patched(row, patch) ==
  [column \in DOMAIN row |-> IF column \in DOMAIN patch THEN patch[column] ELSE row[column]]

ASSUME TransactionAssumption ==
  /\ Absent \notin Rows /\ Unset \notin Contents /\ NoKey \notin Keys
  /\ Catalogs \subseteq Policies
  /\ Snapshots \subseteq [Cells -> Contents]
  /\ Values \subseteq Rows
  /\ \A r \in Rows, p \in Patches : Patched(r, p) \in Rows
  /\ MaxMutations \in Nat /\ MaxScopes \in Nat

VARIABLES
  awaits,     \* whether the handler awaits each step before it starts the next
  policies,   \* the catalog of the enforcer
  snapshot,
  overlay,    \* #overlays: Unset where nothing was staged, Absent where a row was deleted
  mutations,  \* #mutations, each with the admin callbacks it was called within
  calls,
  scopes,     \* #adminScopes
  running,    \* callbacks of withAdminPolicy that have not ended
  opened,     \* scopes opened so far
  asserted,   \* scopes with a successful assertion
  status      \* "active", "finished" or "aborted"

stateVars == <<overlay, mutations>>
scopeVars == <<scopes, running, opened, asserted>>
givenVars == <<awaits, policies, snapshot>>
vars == <<givenVars, stateVars, calls, scopeVars, status>>

Idle == [pc |-> "idle"]

-----------------------------------------------------------------------------
(* Reading. *)

\* get(): the transaction's own changes over the snapshot.
View(written, read) ==
  [c \in Cells |-> IF written[c] = Unset THEN read[c] ELSE written[c]]

-----------------------------------------------------------------------------
(* createWritePolicyEnforcer: authorize() for one row of a change, led through its
   parents.  A table met twice throws, which refuses the change as well. *)

RowPermitted(catalog, view) ==
  LET row[t \in Tables, r \in Rows, path \in SUBSET Tables] ==
        LET policy == catalog[t]
            parent == view[<<policy.parent, r.up>>]
        IN /\ t \notin path
           /\ \/ policy.kind = "allow"
              \/ policy.kind = "where" /\ r.mine
              \/ /\ policy.kind = "through" /\ r.up # NoKey /\ parent # Absent
                 /\ row[policy.parent, parent, path \union {t}]
  IN row

\* A change is permitted on the row before it and on the row after it.
Permitted(catalog, view, table, before, after) ==
  \A r \in {before, after} \ {Absent} : RowPermitted(catalog, view)[table, r, {}]

-----------------------------------------------------------------------------
(* insert(), update() and delete(): the part up to the answer of get(), the part up to
   the answer of authorize(), and the rest. *)

Awaited == \A c \in Calls : calls[c] = Idle
MayStep == status = "active" /\ (~awaits \/ Awaited)

Operations ==
  {[op |-> "insert", value |-> v] : v \in Values} \union
  {[op |-> "update", value |-> p] : p \in Patches} \union {[op |-> "delete", value |-> Absent]}

Begin(c) ==
  /\ MayStep /\ calls[c] = Idle
  /\ Len(mutations) + Cardinality({d \in Calls : calls[d] # Idle}) < MaxMutations
  /\ \E operation \in Operations, cell \in Cells :
       calls' = [calls EXCEPT ![c] =
                   [pc |-> "reading", op |-> operation.op, value |-> operation.value,
                    cell |-> cell, found |-> View(overlay, snapshot)[cell], within |-> running]]
  /\ UNCHANGED <<givenVars, stateVars, scopeVars, status>>

\* materializeInsert, and the row an update makes of the one it found.
After(call) ==
  CASE call.op = "insert" -> call.value
    [] call.op = "update" -> Patched(call.found, call.value)
    [] OTHER -> Absent

\* Mutant: the policies read parents as the snapshot has them.
GrantedOnSnapshot(call) ==
  IF scopes # <<>> THEN scopes[Len(scopes)] \in asserted
  ELSE Permitted(policies, snapshot, call.cell[1], call.found, After(call))

\* authorize(): an open admin scope must be asserted, else the policies decide.
Granted(call) ==
  IF scopes # <<>> THEN scopes[Len(scopes)] \in asserted
  ELSE Permitted(policies, View(overlay, snapshot), call.cell[1], call.found, After(call))

Authorize(c) ==
  /\ calls[c].pc = "reading"
  /\ LET call == calls[c]
         accepted == /\ (call.op = "insert") = (call.found = Absent)
                     /\ Granted(call)
     IN calls' = [calls EXCEPT ![c] = IF accepted THEN [@ EXCEPT !.pc = "staging"] ELSE Idle]
  /\ UNCHANGED <<givenVars, stateVars, scopeVars, status>>

Staged(call) == [op |-> call.op, cell |-> call.cell, found |-> call.found,
                 row |-> After(call), within |-> call.within]

\* Mutant: deleting a row forgets what was staged for it.
StageForgets(c) ==
  /\ calls[c].pc = "staging"
  /\ overlay' = [overlay EXCEPT ![calls[c].cell] =
                   IF calls[c].op = "delete" THEN Unset ELSE After(calls[c])]
  /\ mutations' = Append(mutations, Staged(calls[c]))
  /\ calls' = [calls EXCEPT ![c] = Idle]
  /\ UNCHANGED <<givenVars, scopeVars, status>>

Stage(c) ==
  /\ calls[c].pc = "staging"
  /\ overlay' = [overlay EXCEPT ![calls[c].cell] = After(calls[c])]
  /\ mutations' = Append(mutations, Staged(calls[c]))
  /\ calls' = [calls EXCEPT ![c] = Idle]
  /\ UNCHANGED <<givenVars, scopeVars, status>>

-----------------------------------------------------------------------------
(* withAdminPolicy(). *)

Enter ==
  /\ MayStep /\ opened < MaxScopes
  /\ opened' = opened + 1
  /\ scopes' = Append(scopes, opened') /\ running' = running \union {opened'}
  /\ UNCHANGED <<givenVars, stateVars, calls, asserted, status>>

\* assert(true, message): the callback may keep the function and call it later.
AssertAuthorization(s) ==
  /\ s \notin asserted /\ asserted' = asserted \union {s}
  /\ UNCHANGED <<givenVars, stateVars, calls, scopes, running, opened, status>>

\* The callback returned or threw: the last scope goes, whichever it is, and the call
\* throws if it was not the callback's own or had no assertion.
Leave(s) ==
  /\ ~awaits \/ (Awaited /\ s = scopes[Len(scopes)])
  /\ running' = running \ {s}
  /\ scopes' = SubSeq(scopes, 1, Len(scopes) - 1)
  /\ UNCHANGED <<givenVars, stateVars, calls, opened, asserted, status>>

-----------------------------------------------------------------------------
\* The handler returned (finish) or threw (abort); its steps may still be under way.
End ==
  /\ MayStep /\ (~awaits \/ running = {})
  /\ status' \in {"finished", "aborted"}
  /\ UNCHANGED <<givenVars, stateVars, calls, scopeVars>>

Init ==
  /\ awaits \in BOOLEAN
  /\ policies \in Catalogs /\ snapshot \in Snapshots
  /\ overlay = [c \in Cells |-> Unset] /\ mutations = <<>>
  /\ calls = [c \in Calls |-> Idle]
  /\ scopes = <<>> /\ running = {} /\ opened = 0 /\ asserted = {}
  /\ status = "active"

Next ==
  \/ \E c \in Calls : Begin(c) \/ Authorize(c) \/ Stage(c)
  \/ Enter
  \/ \E s \in 1..opened : AssertAuthorization(s)
  \/ \E s \in running : Leave(s)
  \/ End

Spec == Init /\ [][Next]_vars

-----------------------------------------------------------------------------
(* What the storage will make of the changes. *)

Earlier(plan, i, c) == {j \in 1..(i - 1) : plan[j].cell = c}
Latest(S) == CHOOSE j \in S : \A k \in S : k <= j

\* The rows as they are before change i of a plan that is applied in order.
RowsBefore(plan, read, i) ==
  [c \in Cells |-> IF Earlier(plan, i, c) = {} THEN read[c]
                   ELSE plan[Latest(Earlier(plan, i, c))].row]
Before(i) == RowsBefore(mutations, snapshot, i)

Allowed(catalog, view, assertions, m) ==
  IF m.within # {} THEN Latest(m.within) \in assertions
  ELSE Permitted(catalog, view, m.cell[1], m.found, m.row)

\* A transaction reads what its commit will store: the snapshot with the changes staged
\* so far, rows deleted and inserted again included, whatever steps overlap (get, setOverlay).
ReadsOwnWrites == View(overlay, snapshot) = Before(Len(mutations) + 1)

\* The storage accepts the changes in the order they were staged: it inserts where no row
\* is, updates and deletes where one is, and each was decided on for the row it replaces.
PlanApplies ==
  awaits => \A i \in DOMAIN mutations :
    /\ mutations[i].found = Before(i)[mutations[i].cell]
    /\ (mutations[i].op = "insert") = (mutations[i].found = Absent)
    /\ (mutations[i].op = "delete") = (mutations[i].row = Absent)

\* Every change was called within an admin callback whose scope was asserted, the innermost
\* one, or is permitted by the policies on the rows as they were then, for the row it
\* replaces and for the row it leaves (docs/api/application.md).
EveryWritePermitted ==
  awaits => \A i \in DOMAIN mutations :
    Allowed(policies, Before(i), asserted, mutations[i])

\* As many scopes are open as callbacks run, in whatever order overlapping ones end, so
\* the default policies are back when the last has ended (withAdminPolicy).
ScopesBalanced == Len(scopes) = Cardinality(running)

\* What a transaction hands to the storage is accepted and permitted.
WritesSound == PlanApplies /\ EveryWritePermitted /\ ScopesBalanced
=============================================================================

------------------------------- MODULE DataSteps -------------------------------
(***************************************************************************)
(* A data step of a migration (node/node-storage.ts runDataStep,           *)
(* migrationDatabase): its calls read the rows of its branch under the     *)
(* writes it has buffered, a scan may stay open while it writes, and when  *)
(* it ends the buffer becomes one commit.  Beside it, the rows as they     *)
(* would be had every call been applied at once.                           *)
(***************************************************************************)
EXTENDS StorageTables

CONSTANTS
  Ids,       \* bound: primary key values
  Values,    \* bound: values of the columns "a" and "b"
  MaxCalls   \* bound: writes of the step

VARIABLES
  tree,     \* the table at the head of the branch
  pending,  \* the buffer, in the order its keys were first written
  direct,   \* the table with every call applied to it, as one batch
  scan,     \* the open scan: entries of the tree and of the buffer still to come
  seen,     \* what it has given, and what it should give
  calls,
  ended     \* "no", or how the flush went

vars == <<tree, pending, direct, scan, seen, calls, ended>>

Rows == [id : Ids, a : Values, b : Values]
RowKeys == {<<id>> : id \in Ids}

NoScan == [root |-> <<>>, ops |-> <<>>, open |-> FALSE]

\* pending.get, and the row a call sees: none or one.
Buffered(key) == {i \in DOMAIN pending : pending[i].key = key}
TreeRow(key) == RowAt(tree.primary, key)
CurrentRow(key) ==
  IF Buffered(key) = {} THEN TreeRow(key)
  ELSE UNION {pending[i].after : i \in Buffered(key)}

\* What a row was before the step: the first call that found it in the tree tells.
FirstBefore(previous, before) == IF previous # {} THEN previous ELSE before

\* Mutant: a key is buffered once.
BufferOnce(key, after, before) ==
  pending' = IF Buffered(key) # {} THEN pending
             ELSE Append(pending, [key |-> key, after |-> after, before |-> before])

\* buffer.
Buffer(key, after, before) ==
  pending' =
    IF Buffered(key) = {}
    THEN Append(pending, [key |-> key, after |-> after, before |-> before])
    ELSE [i \in DOMAIN pending |->
            IF pending[i].key # key THEN pending[i]
            ELSE [key |-> key, after |-> after,
                  before |-> FirstBefore(pending[i].before, before)]]

\* The row update and delete report as the one before: of the tree, when the
\* buffer has nothing under the key.
Original(key) == IF Buffered(key) = {} THEN TreeRow(key) ELSE {}

\* The mutations of the buffer (runDataStep).
Flushed(op) ==
  IF op.after = {} THEN Delete(op.key)
  ELSE LET row == CHOOSE r \in op.after : TRUE
       IN IF op.before = {} THEN Insert(row) ELSE Update(op.key, row)
Mutations == [i \in DOMAIN pending |-> Flushed(pending[i])]

Init ==
  /\ tree \in {ApplyTreeMutations(EmptyTrees, [i \in 1..n |-> Insert(f[i])]).table :
                n \in 0..1, f \in [1..1 -> Rows]}
  /\ direct = Begin(tree)
  /\ pending = <<>> /\ scan = NoScan /\ calls = 0 /\ ended = "no"
  /\ seen = [rows |-> <<>>, expected |-> <<>>]

Calling == ended = "no" /\ calls < MaxCalls

\* What the call does to the table at once: a clash of a unique index, which no
\* call looks for, ends it.
Directly(mutation) == direct' = IF direct.ok THEN TreeMutate(direct, mutation) ELSE direct

\* insert: a key that is there is refused; calls that throw change nothing.
CallInsert(row) ==
  /\ Calling /\ CurrentRow(PrimaryKey(row)) = {}
  /\ Directly(Insert(row))
  /\ Buffer(PrimaryKey(row), {row}, {})
  /\ calls' = calls + 1
  /\ UNCHANGED <<tree, scan, seen, ended>>

\* update, with a patch that gives every column but the key.
CallUpdate(key, row) ==
  /\ Calling /\ CurrentRow(key) # {} /\ PrimaryKey(row) = key
  /\ Directly(Update(key, row))
  /\ Buffer(key, {row}, Original(key))
  /\ calls' = calls + 1
  /\ UNCHANGED <<tree, scan, seen, ended>>

CallDelete(key) ==
  /\ Calling /\ CurrentRow(key) # {}
  /\ Directly(Delete(key))
  /\ Buffer(key, {}, Original(key))
  /\ calls' = calls + 1
  /\ UNCHANGED <<tree, scan, seen, ended>>

-----------------------------------------------------------------------------
(* A scan holds the tree and the buffer as they are when it begins. *)

InOrder(rows) == LET keys == Ascending(DOMAIN rows) IN [i \in DOMAIN keys |-> rows[keys[i]]]

CallScan ==
  /\ ended = "no" /\ ~scan.open /\ seen.expected = <<>>
  /\ scan' = [open |-> TRUE, root |-> Ascending(DOMAIN tree.primary),
              ops |-> SortSeq(pending, LAMBDA p, q : Precedes(p.key, q.key))]
  /\ seen' = [rows |-> <<>>, expected |-> InOrder(direct.table.primary)]
  /\ UNCHANGED <<tree, pending, direct, calls, ended>>

\* The entry of the tree with the key of the buffered row is skipped.
Hidden(ops, root) == IF root # <<>> /\ Head(root) = Head(ops).key THEN Tail(root) ELSE root

\* The next buffered row up to the next entry of the tree; a deleted one is
\* passed over.
ScanBuffer ==
  /\ scan.open /\ scan.ops # <<>>
  /\ scan.root # <<>> => ~Precedes(Head(scan.root), Head(scan.ops).key)
  /\ scan' = [scan EXCEPT !.ops = Tail(@), !.root = Hidden(scan.ops, @)]
  /\ seen' = [seen EXCEPT !.rows = @ \o SetToSeq(Head(scan.ops).after)]
  /\ UNCHANGED <<tree, pending, direct, calls, ended>>

ScanTree ==
  /\ scan.open /\ scan.root # <<>>
  /\ scan.ops # <<>> => Precedes(Head(scan.root), Head(scan.ops).key)
  /\ scan' = [scan EXCEPT !.root = Tail(@)]
  /\ seen' = [seen EXCEPT !.rows = Append(@, tree.primary[Head(scan.root)])]
  /\ UNCHANGED <<tree, pending, direct, calls, ended>>

ScanEnds ==
  /\ scan.open /\ scan.root = <<>> /\ scan.ops = <<>>
  /\ scan' = NoScan
  /\ UNCHANGED <<tree, pending, direct, seen, calls, ended>>

\* The step returns: one commit, or none of it.
Flush ==
  /\ ended = "no" /\ ~scan.open
  /\ LET batch == ApplyTreeMutations(tree, Mutations)
     IN /\ ended' = IF batch.ok THEN "committed" ELSE "failed"
        /\ tree' = IF batch.ok THEN batch.table ELSE tree
  /\ UNCHANGED <<pending, direct, scan, seen, calls>>

Next ==
  \/ \E row \in Rows : CallInsert(row) \/ CallUpdate(PrimaryKey(row), row)
  \/ \E key \in RowKeys : CallDelete(key)
  \/ CallScan \/ ScanBuffer \/ ScanTree \/ ScanEnds
  \/ Flush

Spec == Init /\ [][Next]_vars

-----------------------------------------------------------------------------
\* Every call sees the rows as the calls before it left them (currentRow, buffer).
ReadsOwnWrites ==
  ended = "no" /\ direct.ok =>
    \A key \in RowKeys : CurrentRow(key) = RowAt(direct.table.primary, key)

\* A scan gives each row once, in the order of the keys, as they were when it
\* began, whatever is written while it is open (scanRows).
ScansOneMoment ==
  direct.ok =>
    /\ IsPrefix(seen.rows, seen.expected)
    /\ ~scan.open => seen.rows = seen.expected

\* A flush that succeeds leaves what the calls did, indexes included; one that
\* does not leaves the head as it was (runDataStep, commitNow).
FlushIsTheCalls == ended = "committed" /\ direct.ok => tree = direct.table

\* A row that the step only changed or removed reaches the commit as an update or
\* a removal, so that only a row made and unmade by the step, or a clash of a
\* unique index, makes the flush fail (runDataStep).
FlushFailsOnlyFor ==
  ended = "failed" =>
    \/ \E i \in DOMAIN pending : pending[i].after = {} /\ pending[i].key \notin DOMAIN tree.primary
    \/ \E i \in Indexes : i.unique

\* docs/api/storage.md:221 says that a data step "sees its own buffered writes and
\* publishes one commit when it succeeds": every call has succeeded, and would
\* have on the table itself.
StepPublishes == direct.ok => ended # "failed"
=============================================================================

---------------------------- MODULE SpillOperators ----------------------------
(***************************************************************************)
(* The operators that move what they hold to spill runs: an arrangement    *)
(* (spill-arrangement.ts), a sorter (spill-sort.ts) and a hash index       *)
(* (spill-join.ts), each over its own runs.  A run gives back the records  *)
(* it was written with.  A record is the value of a row: its identity, the *)
(* key it is looked up by and its rank in the order of a sort.             *)
(***************************************************************************)
EXTENDS Integers, Sequences, SequencesExt, FiniteSets, FiniteSetsExt, TLC

CONSTANTS
  Rows,        \* rows: id, key, rank
  Batches,     \* batches of changes an arrangement is given
  Weight,      \* bytes of a record
  Limit,       \* memoryBytes of an operator
  MaxInputs    \* bound: batches applied, rows pushed

VARIABLES
  arranged,   \* the arrangement that may spill
  plain,      \* the same changes in one that may not
  sorter, index,
  pushed      \* the rows the sorter and the index were given, in order

vars == <<arranged, plain, sorter, index, pushed>>

Keys == {r.key : r \in Rows}

\* partitionFor, with two partitions: rows of different keys may share one.
Partition(key) == key % 2

\* The records of runs, one after another.
Replay(runs) == FlattenSeq(runs)

-----------------------------------------------------------------------------
(* SpillableArrangement.  Records are in the order of the maps they are in. *)

EmptyArrangement ==
  [records |-> <<>>, hot |-> <<>>, runs |-> [p \in 0..1 |-> <<>>], bytes |-> 0, spilled |-> FALSE]

\* A map's set and delete: a new entry is last, one it has keeps its place.
SetRow(rows, row) ==
  IF \E r \in ToSet(rows) : r.id = row.id
  THEN [i \in DOMAIN rows |-> IF rows[i].id = row.id THEN row ELSE rows[i]]
  ELSE Append(rows, row)
DropRow(rows, row) == SelectSeq(rows, LAMBDA r : r.id # row.id)
ApplyRow(rows, change) ==
  IF change.diff < 0 THEN DropRow(rows, change.row) ELSE SetRow(rows, change.row)

\* flushHot: a run for each partition that has records.
FlushHot(a) ==
  LET Of(p) == SelectSeq(a.hot, LAMBDA e : Partition(e.row.key) = p)
  IN [a EXCEPT !.hot = <<>>, !.bytes = 0,
               !.runs = [p \in 0..1 |-> IF Of(p) = <<>> THEN @[p] ELSE Append(@[p], Of(p))]]

\* spillSnapshot.
SpillSnapshot(a) ==
  FlushHot([a EXCEPT !.spilled = TRUE, !.records = <<>>,
                     !.hot = [i \in DOMAIN a.records |-> [row |-> a.records[i], diff |-> 1]]])

\* apply.
ApplyBatch(a, changes, limit) ==
  IF ~a.spilled
  THEN LET records == FoldLeft(ApplyRow, a.records, changes)
           now == [a EXCEPT !.records = records, !.bytes = Weight * Len(records)]
       IN IF now.bytes > limit THEN SpillSnapshot(now) ELSE now
  ELSE LET now == [a EXCEPT !.hot = @ \o changes, !.bytes = @ + Weight * Len(changes)]
       IN IF now.bytes >= limit THEN FlushHot(now) ELSE now

\* lookup.
Lookup(a, key) ==
  LET entries == Replay(a.runs[Partition(key)]) \o a.hot
  IN IF ~a.spilled THEN SelectSeq(a.records, LAMBDA r : r.key = key)
     ELSE FoldLeft(ApplyRow, <<>>, SelectSeq(entries, LAMBDA e : e.row.key = key))

-----------------------------------------------------------------------------
(* SpillableSorter: ranks first, then ids. *)

EmptySorter == [buffer |-> <<>>, runs |-> <<>>, output |-> <<>>, finished |-> FALSE]

Precedes(x, y) == x.rank < y.rank \/ (x.rank = y.rank /\ x.id < y.id)
SortedRows(rows) == SetToSortSeq(ToSet(rows), Precedes)

SpillBuffer(s) == [s EXCEPT !.runs = Append(@, SortedRows(s.buffer)), !.buffer = <<>>]

PushSorter(s, row) ==
  LET roomy == IF s.buffer # <<>> /\ Weight * (Len(s.buffer) + 1) > Limit THEN SpillBuffer(s) ELSE s
      now == [roomy EXCEPT !.buffer = Append(@, row)]
  IN IF Weight * Len(now.buffer) > Limit THEN SpillBuffer(now) ELSE now

\* mergeRuns: the least head of all runs, again and again.
RECURSIVE Merge(_)
Merge(runs) ==
  LET heads == {i \in DOMAIN runs : runs[i] # <<>>}
      least == CHOOSE i \in heads : \A j \in heads : ~Precedes(Head(runs[j]), Head(runs[i]))
  IN IF heads = {} THEN <<>>
     ELSE <<Head(runs[least])>> \o Merge([runs EXCEPT ![least] = Tail(@)])

\* Mutant: the rows still in the buffer are not written as a run.
FinishWithoutBuffer(s) ==
  [s EXCEPT !.finished = TRUE,
            !.output = IF s.runs = <<>> THEN SortedRows(s.buffer) ELSE Merge(s.runs)]

FinishSorter(s) ==
  LET last == IF s.buffer = <<>> THEN s ELSE SpillBuffer(s)
  IN [s EXCEPT !.finished = TRUE,
               !.output = IF s.runs = <<>> THEN SortedRows(s.buffer) ELSE Merge(last.runs)]

-----------------------------------------------------------------------------
(* SpillableHashIndex. *)

EmptyIndex ==
  [memory |-> <<>>, buffer |-> <<>>, runs |-> [p \in 0..1 |-> <<>>], bytes |-> 0,
   spilled |-> FALSE, finished |-> FALSE]

\* flush.
FlushIndex(x) ==
  LET Of(p) == SelectSeq(x.buffer, LAMBDA r : Partition(r.key) = p)
  IN [x EXCEPT !.buffer = <<>>, !.bytes = 0,
               !.runs = [p \in 0..1 |-> IF Of(p) = <<>> THEN @[p] ELSE Append(@[p], Of(p))]]

\* The rows of a map of arrays: keys by their first row, then the rows of a key.
ByKey(rows) ==
  LET First(key) == Min({i \in DOMAIN rows : rows[i].key = key})
      keys == SetToSortSeq({r.key : r \in ToSet(rows)}, LAMBDA j, k : First(j) < First(k))
  IN FlattenSeq([i \in DOMAIN keys |-> SelectSeq(rows, LAMBDA r : r.key = keys[i])])

\* push; what was in memory goes to the buffer and is not counted there.
PushIndex(x, row) ==
  IF ~x.spilled /\ x.bytes + Weight <= Limit
  THEN [x EXCEPT !.memory = Append(@, row), !.bytes = @ + Weight]
  ELSE LET moved == IF x.spilled THEN x
                    ELSE [x EXCEPT !.spilled = TRUE, !.buffer = ByKey(x.memory),
                                   !.memory = <<>>, !.bytes = 0]
           now == [moved EXCEPT !.buffer = Append(@, row), !.bytes = @ + Weight]
       IN IF now.bytes >= Limit THEN FlushIndex(now) ELSE now

FinishIndex(x) ==
  LET last == IF x.spilled /\ x.buffer # <<>> THEN FlushIndex(x) ELSE x
  IN [last EXCEPT !.finished = TRUE]

LookupIndex(x, key) ==
  SelectSeq(IF x.spilled THEN Replay(x.runs[Partition(key)]) ELSE x.memory,
            LAMBDA r : r.key = key)

-----------------------------------------------------------------------------
Init ==
  /\ arranged = EmptyArrangement /\ plain = EmptyArrangement
  /\ sorter = EmptySorter /\ index = EmptyIndex /\ pushed = <<>>

\* A change retracts the row an id has, or adds one for an id without.
Follows(rows, change) ==
  IF change.diff < 0 THEN change.row \in ToSet(rows)
  ELSE \A r \in ToSet(rows) : r.id # change.row.id
Consistent(rows, batch) ==
  \A i \in DOMAIN batch : Follows(FoldLeft(ApplyRow, rows, SubSeq(batch, 1, i - 1)), batch[i])

Arrange ==
  /\ pushed = <<>> /\ ~sorter.finished
  /\ \E batch \in Batches :
       /\ Consistent(plain.records, batch)
       /\ arranged' = ApplyBatch(arranged, batch, Limit)
       /\ plain' = ApplyBatch(plain, batch, Weight * Cardinality(Rows))
  /\ UNCHANGED <<sorter, index, pushed>>

Push ==
  /\ ~sorter.finished /\ plain = EmptyArrangement /\ ~arranged.spilled
  /\ Len(pushed) < MaxInputs
  /\ \E row \in Rows \ ToSet(pushed) :
       /\ pushed' = Append(pushed, row)
       /\ sorter' = PushSorter(sorter, row)
       /\ index' = PushIndex(index, row)
  /\ UNCHANGED <<arranged, plain>>

Finish ==
  /\ ~sorter.finished
  /\ sorter' = FinishSorter(sorter)
  /\ index' = FinishIndex(index)
  /\ UNCHANGED <<arranged, plain, pushed>>

Next == Arrange \/ Push \/ Finish
Spec == Init /\ [][Next]_vars

\* Bound: entries an arrangement has been given since it spilled.
FewEntries ==
  Len(arranged.hot) + Len(Replay(arranged.runs[0])) + Len(Replay(arranged.runs[1])) <= MaxInputs + 2

-----------------------------------------------------------------------------
\* Whether and when an arrangement spilled, a lookup finds the rows of the key, in the
\* order in which an arrangement that never spilled has them (spill-arrangement.ts).
ArrangementUnchanged ==
  \A key \in Keys : Lookup(arranged, key) = Lookup(plain, key)

\* However the input was cut into runs, the sorter yields each row once, in order
\* (spill-sort.ts).
SortUnchanged == sorter.finished => sorter.output = SortedRows(pushed)

\* A lookup in the index yields the rows of a key in the order in which they were
\* pushed, on which a plan relies that takes its order from the scan (spill-join.ts).
IndexUnchanged ==
  index.finished => \A key \in Keys : LookupIndex(index, key) = SelectSeq(pushed, LAMBDA r : r.key = key)

\* Beyond the record it was given last, an operator holds no more than its limit
\* (spill.ts:40).
WorkingSetBounded ==
  /\ Weight * (Len(index.memory) + Len(index.buffer) - 1) <= Limit
  /\ Weight * (Len(sorter.buffer) - 1) <= Limit
=============================================================================

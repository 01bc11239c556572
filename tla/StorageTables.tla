----------------------------- MODULE StorageTables -----------------------------
(***************************************************************************)
(* One table under the mutations of commits, as the two families of        *)
(* engines keep it: the trees of the persistent ones                       *)
(* (node/tree-storage-model.ts applyTreeMutations, node/tree-snapshot.ts   *)
(* scan), and the maps of the in-memory one (storage.ts, commit,           *)
(* updateIndexes, scan).                                                   *)
(*                                                                         *)
(* A value is an integer, 0 for null.  A key is a sequence of values; the  *)
(* bytes of keys come in the order of the keys (module OrderedKeys), so a  *)
(* tree is a function from keys and a scan visits them in order.           *)
(***************************************************************************)
EXTENDS Integers, Sequences, SequencesExt, FiniteSetsExt, Functions

CONSTANTS
  PrimaryColumns,  \* the columns of the primary key, in order
  Indexes          \* the indexes: name, unique, columns in order

\* primaryKey, indexPrefix, indexKey.
Project(row, columns) == [i \in DOMAIN columns |-> row[columns[i]]]
PrimaryKey(row) == Project(row, PrimaryColumns)
IndexPrefix(index, row) == Project(row, index.columns)
IndexKey(index, row, key) == IndexPrefix(index, row) \o key

\* The order of the bytes of two keys.
Precedes(a, b) ==
  \E i \in 0..Len(a) :
    /\ i <= Len(b) /\ SubSeq(a, 1, i) = SubSeq(b, 1, i)
    /\ IF i = Len(a) THEN i < Len(b) ELSE i < Len(b) /\ a[i + 1] < b[i + 1]
Ascending(keys) == SetToSortSeq(keys, Precedes)

Insert(row) == [type |-> "insert", row |-> row]
Update(key, row) == [type |-> "update", key |-> key, row |-> row]
Delete(key) == [type |-> "delete", key |-> key]
KeyOf(m) == IF m.type = "insert" THEN PrimaryKey(m.row) ELSE m.key

\* The row under a key, and the row a mutation leaves there: none or one.
RowAt(rows, key) == IF key \in DOMAIN rows THEN {rows[key]} ELSE {}
RowAfter(m) == IF m.type = "delete" THEN {} ELSE {m.row}

\* What both engines refuse: a key twice, a missing row, a changed primary key.
Allowed(rows, m) ==
  CASE m.type = "insert" -> KeyOf(m) \notin DOMAIN rows
    [] m.type = "update" -> m.key \in DOMAIN rows /\ PrimaryKey(m.row) = m.key
    [] m.type = "delete" -> m.key \in DOMAIN rows

Change(m, before) == [key |-> KeyOf(m), before |-> before, after |-> RowAfter(m)]

\* A batch in progress: a refusal stops it, and its commit is never published.
Begin(table) == [ok |-> TRUE, table |-> table, changes |-> <<>>]
Refuse(batch) == [batch EXCEPT !.ok = FALSE]
InTurn(Mutate(_, _), table, mutations) ==
  FoldLeft(LAMBDA batch, m : IF batch.ok THEN Mutate(batch, m) ELSE batch,
           Begin(table), mutations)

-----------------------------------------------------------------------------
(* The trees. *)

EmptyTrees == [primary |-> <<>>, indexes |-> [i \in Indexes |-> <<>>]]

Cut(tree, keys) == Restrict(tree, DOMAIN tree \ keys)

DropEntry(index, root, key, before) == Cut(root, {IndexKey(index, r, key) : r \in before})

\* A row of a unique index finds no entry that begins with its columns.
Taken(index, root, after) ==
  index.unique /\ \E r \in after, e \in DOMAIN root : IsPrefix(IndexPrefix(index, r), e)

\* applyTreeMutations, one mutation.
TreeMutate(batch, m) ==
  LET key == KeyOf(m)
      before == RowAt(batch.table.primary, key)
      after == RowAfter(m)
      dropped == [i \in Indexes |-> DropEntry(i, batch.table.indexes[i], key, before)]
      put(i) == [e \in {IndexKey(i, r, key) : r \in after} |-> key]
  IN IF ~Allowed(batch.table.primary, m) \/ \E i \in Indexes : Taken(i, dropped[i], after)
     THEN Refuse(batch)
     ELSE [batch EXCEPT
            !.table = [primary |-> [k \in {key : r \in after} |-> m.row] @@ Cut(batch.table.primary, {key}),
                       indexes |-> [i \in Indexes |-> put(i) @@ dropped[i]]],
            !.changes = Append(@, Change(m, before))]

ApplyTreeMutations(table, mutations) == InTurn(TreeMutate, table, mutations)

\* What a scan asks for: a table or an index, a key to find or bounds, each none
\* or one key, a direction and a limit (0: none).
Everything == [key |-> {}, gt |-> {}, gte |-> {}, lt |-> {}, lte |-> {},
               reverse |-> FALSE, limit |-> 0]

\* encodedRange: over an index a bound is a prefix; gt begins after the last
\* entry of the prefix and lte ends there.
InTreeRange(index, range, e) ==
  LET prefixed(k) == index # {} /\ IsPrefix(k, e) IN
  /\ \A k \in range.key : IsPrefix(k, e)
  /\ \A k \in range.gt : Precedes(k, e) /\ ~prefixed(k)
  /\ \A k \in range.gte : ~Precedes(e, k)
  /\ \A k \in range.lt : Precedes(e, k)
  /\ \A k \in range.lte : ~Precedes(k, e) \/ prefixed(k)

Limited(range, s) == IF range.limit = 0 THEN s ELSE SubSeq(s, 1, Min({range.limit, Len(s)}))
Directed(range, s) == IF range.reverse THEN Reverse(s) ELSE s

\* NodeSnapshot.scan: index is none or one.  A key to find leaves the bounds out.
TreeScan(table, index, range) ==
  LET root == IF index = {} THEN table.primary
              ELSE table.indexes[CHOOSE i \in index : TRUE]
      asked == IF range.key = {} THEN range
               ELSE [Everything EXCEPT !.key = range.key, !.reverse = range.reverse,
                                       !.limit = range.limit]
      found == Ascending({e \in DOMAIN root : InTreeRange(index, asked, e)})
      entries == Limited(range, Directed(range, found))
      row(e) == IF index = {} THEN root[e] ELSE table.primary[root[e]]
  IN [n \in DOMAIN entries |-> row(entries[n])]

-----------------------------------------------------------------------------
(* The maps.  A Map keeps the order its keys were first put in. *)

EmptyMaps == [order |-> <<>>, rows |-> <<>>, indexes |-> [i \in Indexes |-> <<>>]]

BucketAt(entries, k) == IF k \in DOMAIN entries THEN entries[k] ELSE {}

\* Mutant: a bucket of one row is always taken over.
OnlyCrowded(index, entries, key, after) ==
  index.unique /\ \E r \in after : Cardinality(BucketAt(entries, IndexPrefix(index, r))) > 1

\* updateIndexes, one index: the entries without the old row; whether the new one
\* is refused; the entries with it.
Left(index, entries, key, before) ==
  LET old == {IndexPrefix(index, r) : r \in before}
      bucket(k) == IF k \in old THEN entries[k] \ {key} ELSE entries[k]
  IN [k \in {k \in DOMAIN entries : bucket(k) # {}} |-> bucket(k)]
Rejected(index, entries, key, after) ==
  index.unique /\ \E r \in after : BucketAt(entries, IndexPrefix(index, r)) \ {key} # {}
Joined(index, entries, key, after) ==
  [k \in {IndexPrefix(index, r) : r \in after} |-> BucketAt(entries, k) \union {key}] @@ entries

\* commit, one mutation.
MapMutate(batch, m) ==
  LET key == KeyOf(m)
      rows == batch.table.rows
      before == RowAt(rows, key)
      after == RowAfter(m)
      left == [i \in Indexes |-> Left(i, batch.table.indexes[i], key, before)]
  IN IF ~Allowed(rows, m) \/ \E i \in Indexes : Rejected(i, left[i], key, after)
     THEN Refuse(batch)
     ELSE [batch EXCEPT
            !.table =
              [order |-> CASE m.type = "insert" -> Append(batch.table.order, key)
                           [] m.type = "update" -> batch.table.order
                           [] m.type = "delete" -> SelectSeq(batch.table.order,
                                                             LAMBDA k : k # key),
               rows |-> [k \in {key : r \in after} |-> m.row] @@ Cut(rows, {key}),
               indexes |-> [i \in Indexes |-> Joined(i, left[i], key, after)]],
            !.changes = Append(@, Change(m, before))]

ApplyMapMutations(table, mutations) == InTurn(MapMutate, table, mutations)

\* storageKeyInRange: a longer key comes after its prefix.
InMapRange(range, k) ==
  /\ \A b \in range.gt : Precedes(b, k)
  /\ \A b \in range.gte : ~Precedes(k, b)
  /\ \A b \in range.lt : Precedes(k, b)
  /\ \A b \in range.lte : ~Precedes(b, k)

\* MemorySnapshot.scan: the rows in the order of the map, sorted by what was
\* asked for; rows with equal keys stay in the order of the map.
MapScan(table, index, range) ==
  LET columns == IF index = {} THEN PrimaryColumns ELSE (CHOOSE i \in index : TRUE).columns
      key(n) == Project(table.rows[table.order[n]], columns)
      asked(n) == IF index # {} /\ range.key # {}
                  THEN \A k \in range.key : IsPrefix(k, key(n))
                  ELSE InMapRange(range, key(n))
      first(n, m) == Precedes(key(n), key(m)) \/ (key(n) = key(m) /\ n < m)
      found == SetToSortSeq({n \in DOMAIN table.order : asked(n)}, first)
      picked == Limited(range, Directed(range, found))
  IN [n \in DOMAIN picked |-> table.rows[table.order[picked[n]]]]
=============================================================================

------------------------------- MODULE BPlusTree -------------------------------
(***************************************************************************)
(* The copy-on-write B+ tree (bplus-tree.ts).  A page is never rewritten,  *)
(* so a page id stands for the page it names and a tree for its root page. *)
(* Binary searches are modelled by the position they find.                 *)
(***************************************************************************)
EXTENDS Integers, Sequences, SequencesExt, FiniteSets, FiniteSetsExt, TLC

CONSTANTS
  MaxEntries,  \* keys and entries a page may hold
  Initial,     \* batches whose trees the runs start from
  Batches,     \* batches of mutations
  Ranges,      \* ranges that are scanned
  MaxUpdates   \* bound: batches applied

ASSUME MaxEntriesAssumption == MaxEntries \in Nat /\ MaxEntries >= 4

VARIABLES root, updates

vars == <<root, updates>>

-----------------------------------------------------------------------------
(* Pages. *)

Null == [kind |-> "null"]
Leaf(entries) == [kind |-> "leaf", entries |-> entries]
Internal(keys, children) == [kind |-> "internal", keys |-> keys, children |-> children]

LowerBound(entries, key) == 1 + Cardinality({i \in DOMAIN entries : entries[i].key < key})

ChildIndex(keys, key) == 1 + Cardinality({i \in DOMAIN keys : keys[i] <= key})

Found(entries, key) ==
  LET i == LowerBound(entries, key) IN i \in DOMAIN entries /\ entries[i].key = key

\* firstKey: of the leftmost leaf, which is not empty.
RECURSIVE FirstKey(_)
FirstKey(page) ==
  IF page.kind = "leaf" THEN page.entries[1].key ELSE FirstKey(page.children[1])

Half(items) == Len(items) \div 2
FirstHalf(items) == SubSeq(items, 1, Half(items))
SecondHalf(items) == SubSeq(items, Half(items) + 1, Len(items))

\* The two pages an overfull internal page becomes: its middle key goes up.
LeftOf(keys, children) == Internal(FirstHalf(keys), SubSeq(children, 1, Half(keys) + 1))
RightOf(keys, children) ==
  Internal(Tail(SecondHalf(keys)), SubSeq(children, Half(keys) + 2, Len(children)))

-----------------------------------------------------------------------------
(* insert: the page, and what it was split into. *)

Whole(page) == [page |-> page, split |-> <<>>]
Split(left, separator, right) == [page |-> left, split |-> <<[separator |-> separator, right |-> right]>>]

InsertEntry(page, entry) ==
  LET i == LowerBound(page.entries, entry.key)
      entries == IF Found(page.entries, entry.key)
                 THEN [page.entries EXCEPT ![i] = entry]
                 ELSE InsertAt(page.entries, i, entry)
  IN IF Len(entries) <= MaxEntries THEN Whole(Leaf(entries))
     ELSE Split(Leaf(FirstHalf(entries)), SecondHalf(entries)[1].key, Leaf(SecondHalf(entries)))

InsertChild(page, i, child) ==
  LET replaced == [page.children EXCEPT ![i] = child.page]
      keys == IF child.split = <<>> THEN page.keys
              ELSE InsertAt(page.keys, i, child.split[1].separator)
      children == IF child.split = <<>> THEN replaced
                  ELSE InsertAt(replaced, i + 1, child.split[1].right)
  IN IF Len(keys) <= MaxEntries THEN Whole(Internal(keys, children))
     ELSE Split(LeftOf(keys, children), keys[Half(keys) + 1], RightOf(keys, children))

RECURSIVE Insert(_, _)
Insert(page, entry) ==
  CASE page.kind = "null" -> Whole(Leaf(<<entry>>))
    [] page.kind = "leaf" -> InsertEntry(page, entry)
    [] OTHER -> LET i == ChildIndex(page.keys, entry.key)
                IN InsertChild(page, i, Insert(page.children[i], entry))

-----------------------------------------------------------------------------
(* remove: the page, whether it changed, whether it is too empty, and its   *)
(* first key if it has one.                                                 *)

Unchanged(page) ==
  [page |-> page, changed |-> FALSE, underflow |-> FALSE, firstKey |-> {}]

\* The two children at left are replaced by two pages and the key between them.
Replaced(keys, children, left, pages, between) ==
  Internal(SubSeq(keys, 1, left - 1) \o between \o SubSeq(keys, left + 1, Len(keys)),
           SubSeq(children, 1, left - 1) \o pages \o SubSeq(children, left + 2, Len(children)))

\* rebalanceChildren: the child and its left sibling, or its right one if it is the
\* first, are merged or share their content evenly.
Rebalanced(keys, children, position) ==
  LET left == IF position > 1 THEN position - 1 ELSE position
      x == children[left]
      y == children[left + 1]
      entries == x.entries \o y.entries
      innerKeys == x.keys \o <<keys[left]>> \o y.keys
      inner == x.children \o y.children
      Merged(page) == Replaced(keys, children, left, <<page>>, <<>>)
      Shared(a, between, b) == Replaced(keys, children, left, <<a, b>>, <<between>>)
  IN IF x.kind = "leaf"
     THEN IF Len(entries) <= MaxEntries THEN Merged(Leaf(entries))
          ELSE Shared(Leaf(FirstHalf(entries)), SecondHalf(entries)[1].key, Leaf(SecondHalf(entries)))
     ELSE IF Len(innerKeys) <= MaxEntries THEN Merged(Internal(innerKeys, inner))
          ELSE Shared(LeftOf(innerKeys, inner), innerKeys[Half(innerKeys) + 1],
                      RightOf(innerKeys, inner))

\* Mutant: a leaf one entry short of half is not yet too empty.
ShortLeaf(page, key, isRoot) ==
  LET entries == RemoveAt(page.entries, LowerBound(page.entries, key))
  IN [page |-> Leaf(entries), changed |-> TRUE,
      underflow |-> ~isRoot /\ 2 * Len(entries) < MaxEntries - 2,
      firstKey |-> IF entries = <<>> THEN {} ELSE {entries[1].key}]

RemoveEntry(page, key, isRoot) ==
  LET entries == RemoveAt(page.entries, LowerBound(page.entries, key))
  IN [page |-> Leaf(entries), changed |-> TRUE,
      underflow |-> ~isRoot /\ 2 * Len(entries) < MaxEntries,
      firstKey |-> IF entries = <<>> THEN {} ELSE {entries[1].key}]

\* The separator before a changed child follows its first key.
KeysAfter(keys, i, child) ==
  IF i > 1 /\ child.firstKey # {}
  THEN [keys EXCEPT ![i - 1] = CHOOSE k \in child.firstKey : TRUE] ELSE keys

RemoveChild(page, i, child, isRoot) ==
  LET keys == KeysAfter(page.keys, i, child)
      children == [page.children EXCEPT ![i] = child.page]
      written == IF child.underflow /\ Len(children) > 1 THEN Rebalanced(keys, children, i)
                 ELSE Internal(keys, children)
  IN [page |-> written, changed |-> TRUE,
      underflow |-> ~isRoot /\ Len(written.keys) < MaxEntries \div 2,
      firstKey |-> {FirstKey(written)}]

RECURSIVE RemoveKey(_, _, _)
RemoveKey(page, key, isRoot) ==
  IF page.kind = "leaf"
  THEN IF Found(page.entries, key) THEN RemoveEntry(page, key, isRoot) ELSE Unchanged(page)
  ELSE LET i == ChildIndex(page.keys, key)
           child == RemoveKey(page.children[i], key, FALSE)
       IN IF child.changed THEN RemoveChild(page, i, child, isRoot) ELSE Unchanged(page)

-----------------------------------------------------------------------------
(* mutate. *)

Put(tree, entry) ==
  LET inserted == Insert(tree, entry)
  IN IF inserted.split = <<>> THEN inserted.page
     ELSE Internal(<<inserted.split[1].separator>>, <<inserted.page, inserted.split[1].right>>)

\* A root without entries is no tree; one with a single child is that child.
Delete(tree, key) ==
  LET page == RemoveKey(tree, key, TRUE).page
  IN CASE tree = Null -> Null
       [] tree # Null /\ page = Leaf(<<>>) -> Null
       [] tree # Null /\ page.kind = "internal" /\ Len(page.children) = 1 -> page.children[1]
       [] OTHER -> page

Mutated(tree, mutation) ==
  IF mutation.type = "put" THEN Put(tree, [key |-> mutation.key, value |-> mutation.value])
  ELSE Delete(tree, mutation.key)

MutateAll(tree, batch) == FoldLeft(Mutated, tree, batch)

-----------------------------------------------------------------------------
(* get and scan. *)

RECURSIVE Get(_, _)
Get(page, key) ==
  CASE page.kind = "null" -> {}
    [] page.kind = "leaf" -> {e.value : e \in {x \in ToSet(page.entries) : x.key = key}}
    [] OTHER -> Get(page.children[ChildIndex(page.keys, key)], key)

RECURSIVE Walk(_, _)
Walk(page, reverse) ==
  LET InOrder(items) == IF reverse THEN Reverse(items) ELSE items
  IN CASE page.kind = "null" -> <<>>
       [] page.kind = "leaf" -> InOrder(page.entries)
       [] OTHER -> FlattenSeq([i \in DOMAIN page.children |->
                                 Walk(InOrder(page.children)[i], reverse)])

RECURSIVE Entries(_)
Entries(page) ==
  CASE page.kind = "null" -> {}
    [] page.kind = "leaf" -> ToSet(page.entries)
    [] OTHER -> UNION {Entries(page.children[i]) : i \in DOMAIN page.children}

InRange(key, range) == range.from <= key /\ key < range.to

Scan(tree, range) ==
  LET inRange == SelectSeq(Walk(tree, range.reverse), LAMBDA e : InRange(e.key, range))
  IN SubSeq(inRange, 1, Min({range.limit, Len(inRange)}))

-----------------------------------------------------------------------------
Init ==
  /\ \E batch \in Initial : root = MutateAll(Null, batch)
  /\ updates = 0

Mutate ==
  /\ updates < MaxUpdates
  /\ \E batch \in Batches : root' = MutateAll(root, batch)
  /\ updates' = updates + 1

Next == Mutate
Spec == Init /\ [][Next]_vars

-----------------------------------------------------------------------------
RECURSIVE Depths(_)
Depths(page) ==
  IF page.kind = "internal"
  THEN {d + 1 : d \in UNION {Depths(page.children[i]) : i \in DOMAIN page.children}} ELSE {0}

RECURSIVE Filled(_, _)
Filled(page, isRoot) ==
  LET size == IF page.kind = "leaf" THEN Len(page.entries) ELSE Len(page.keys)
      least == IF ~isRoot THEN MaxEntries \div 2 ELSE 1
  IN page.kind # "null" =>
       /\ size \in least..MaxEntries
       /\ page.kind = "internal" => \A i \in DOMAIN page.children : Filled(page.children[i], FALSE)

\* Whatever was put and deleted in whatever order, every leaf is as deep as every
\* other and no page but the root is less than half full or too full: siblings that
\* are merged are of one kind and no leaf below the root is empty (rebalanceChildren,
\* firstKey).
Balanced == Cardinality(Depths(root)) = 1 /\ Filled(root, TRUE)

\* The descent by separators finds exactly what a walk of all leaves finds, and a
\* scan gives the entries of its range, in order, up to its limit (get, scan).
ReadsAgree ==
  LET entries == Walk(root, FALSE)
      keys == {e.key : e \in ToSet(entries)}
      AllKeys == keys \union {m.key : m \in UNION {ToSet(b) : b \in Batches}}
  IN /\ ToSet(entries) = Entries(root)
     /\ \A i, j \in DOMAIN entries : i < j => entries[i].key < entries[j].key
     /\ \A k \in AllKeys : Get(root, k) = {e.value : e \in {x \in ToSet(entries) : x.key = k}}
     /\ \A range \in Ranges :
          LET found == Scan(root, range)
              asked == {e \in ToSet(entries) : range.from <= e.key /\ e.key < range.to}
          IN /\ Len(found) = Min({range.limit, Cardinality(asked)})
             /\ ToSet(found) \subseteq asked
             /\ \A i \in DOMAIN found :
                  Cardinality({e \in asked : IF range.reverse THEN e.key > found[i].key
                                             ELSE e.key < found[i].key}) = i - 1

\* A tree is the map of its entries, and a batch updates it as it updates the map
\* (mutate); it stays balanced, and is read as the map is.
Map == INSTANCE OrderedMap WITH map <- Entries(root)
IsMap == Map!MapSpec /\ [](Balanced /\ ReadsAgree)
=============================================================================

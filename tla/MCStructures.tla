----------------------------- MODULE MCStructures -----------------------------
(* The structures under the engines, each by itself: the B+ tree, the       *)
(* ordered keys, tables over trees and over maps, page caches with their    *)
(* memory manager, the spill store and the operators that spill.  They      *)
(* share no state, so a behaviour is one structure's: part says whose.      *)
EXTENDS BPlusTree

VARIABLES
  part,
  left, right,                               \* OrderedKeys
  trees, maps, commits, agreed,              \* StorageEngines
  caches, bytes, used, order, budget,        \* CacheMemory
  phase, runs, written, shut,                \* SpillStore
  arranged, plain, sorter, index, pushed     \* SpillOperators

keyVars == <<left, right>>
tableVars == <<trees, maps, commits, agreed>>
cacheVars == <<caches, bytes, used, order, budget>>
fileVars == <<phase, runs, written, shut>>
spillVars == <<arranged, plain, sorter, index, pushed>>

-----------------------------------------------------------------------------
PutOf(k, v) == [type |-> "put", key |-> k, value |-> v]
DeleteOf(k) == [type |-> "delete", key |-> k]

\* Trees of up to three levels, filled upwards, downwards and from both ends.
Upwards(n) == [i \in 1..n |-> PutOf(2 * i, 0)]
Downwards(n) == [i \in 1..n |-> PutOf(2 * (n + 1 - i), 0)]
Inwards(n) == [i \in 1..n |-> PutOf(IF i % 2 = 0 THEN i ELSE 2 * n - i, 0)]

Deletes == {<<DeleteOf(2 * k)>> : k \in 1..17}
MCInitial == {Upwards(n) : n \in {0, 4, 5, 14, 17}} \union {Downwards(17), Inwards(15)}
MCBatches ==
  Deletes \union {<<PutOf(2 * k + 1, 1)>> : k \in {0, 3, 8}} \union {<<PutOf(8, 1)>>}
  \union {<<DeleteOf(6), PutOf(6, 1), DeleteOf(10), PutOf(9, 1)>>}
MCRanges == [from : {0, 6}, to : {13, 99}, limit : {0, 2, 99}, reverse : BOOLEAN]

Ordered == INSTANCE OrderedKeys WITH
  Bits <- 3, Bytes <- {0, 16}, MaxString <- 2, MaxParts <- 2

\* Where first parts of different types decide, one of the keys has one part.
FewKeys == Len(left) = 2 /\ Len(right) = 2 => left[1].type = right[1].type

TableIndexes ==
  {[name |-> "by_a", unique |-> FALSE, columns |-> <<"a">>],
   [name |-> "by_b_a", unique |-> TRUE, columns |-> <<"b", "a">>]}
Tables == INSTANCE StorageEngines WITH
  PrimaryColumns <- <<"id">>, Indexes <- TableIndexes,
  Ids <- {1, 2, 3}, Values <- {0, 1}, BatchSize <- 2, MaxCommits <- 2

Memory == INSTANCE CacheMemory WITH
  Caches <- {"current", "next"}, Keys <- {1, 2}, Weights <- {1, 2},
  Budgets <- {0, 3}, Limits <- {1, 3}, MaxTracked <- 2

Files == INSTANCE SpillStore WITH
  Sessions <- {"fetch", "subscription"}, RunIds <- {1, 2}, RunBytes <- {1, 2}, MaxBytes <- 3,
  used <- written

Row(id, key, rank) == [id |-> id, key |-> key, rank |-> rank]
SpilledRows ==
  {Row(1, 0, 2), Row(2, 1, 1), Row(3, 0, 1), Row(4, 2, 1), Row(5, 2, 3), Row(6, 1, 2)}
Add(row) == [row |-> row, diff |-> 1]
Retract(row) == [row |-> row, diff |-> -1]

\* Rows that come and go, and rows that move to another key.
RowChanges ==
  {<<Add(r)>> : r \in {Row(1, 0, 2), Row(2, 1, 1), Row(3, 0, 1)}}
  \union {<<Retract(r)>> : r \in {Row(1, 0, 2), Row(2, 0, 1), Row(3, 0, 1)}}
  \union {<<Retract(Row(1, 0, 2)), Add(Row(1, 2, 2))>>, <<Retract(Row(1, 2, 2)), Add(Row(1, 0, 2))>>,
          <<Retract(Row(2, 1, 1)), Add(Row(2, 0, 1))>>, <<Retract(Row(3, 0, 1)), Add(Row(3, 0, 1))>>}
Spill == INSTANCE SpillOperators WITH
  Rows <- SpilledRows, Batches <- RowChanges, Weight <- 1, Limit <- 2, MaxInputs <- 6

-----------------------------------------------------------------------------
MCInit ==
  /\ part \in {"tree", "keys", "tables", "caches", "files", "spill"}
  /\ IF part = "tree" THEN Init ELSE root = Null /\ updates = 0
  /\ IF part = "caches" THEN Memory!Init
     ELSE caches = <<>> /\ bytes = <<>> /\ used = 0 /\ order = <<>> /\ budget = 0
  /\ Ordered!Init /\ Tables!Init /\ Files!Init /\ Spill!Init

MCNext ==
  \/ /\ part = "tree" /\ Next
     /\ UNCHANGED <<part, keyVars, tableVars, cacheVars, fileVars, spillVars>>
  \/ /\ part = "keys" /\ Ordered!Next /\ FewKeys'
     /\ UNCHANGED <<part, vars, tableVars, cacheVars, fileVars, spillVars>>
  \/ /\ part = "tables" /\ Tables!Next
     /\ UNCHANGED <<part, vars, keyVars, cacheVars, fileVars, spillVars>>
  \/ /\ part = "caches" /\ Memory!Next
     /\ UNCHANGED <<part, vars, keyVars, tableVars, fileVars, spillVars>>
  \/ /\ part = "files" /\ Files!Next
     /\ UNCHANGED <<part, vars, keyVars, tableVars, cacheVars, spillVars>>
  \/ /\ part = "spill" /\ Spill!Next /\ Spill!FewEntries'
     /\ UNCHANGED <<part, vars, keyVars, tableVars, cacheVars, fileVars>>

MCSpec ==
  MCInit /\ [][MCNext]_<<part, vars, keyVars, tableVars, cacheVars, fileVars, spillVars>>

-----------------------------------------------------------------------------
(* The properties of each structure; that of the B+ tree keeps its name.    *)

\* Keys come in the same order as bytes and as values, two keys have the same bytes
\* only if they are the same, and the range of a prefix holds the keys that begin with
\* it (OrderedKeys).
KeysOrdered ==
  part = "keys" =>
    Ordered!OrderPreserved /\ Ordered!KeysKeptApart /\ Ordered!PrefixIsRange

\* The file engine and the in-memory engine answer commits and scans alike; an index has
\* an entry for each row and no other, and a unique one no two of the same key
\* (StorageEngines).
EnginesAgree ==
  part = "tables" =>
    Tables!EnginesAgree /\ Tables!IndexesHoldRows /\ Tables!UniqueKept /\ Tables!ScansAgree

\* What the memory manager counts is what there is, more than the budget only when no
\* cache has a page left; reservations are granted within it, and the caches give pages
\* in the order they were touched (CacheMemory).
CachesAccounted ==
  /\ [](part = "caches" => Memory!Accounted /\ Memory!OverBudgetOnlyWhenDry)
  /\ [][part = "caches" => Memory!Granted /\ Memory!GivenOldestFirst]_cacheVars

\* The store over files keeps the promise of the one in memory, within its budget and
\* without leaving anything behind (SpillStore).
KeepsMemoryPromise ==
  /\ Files!KeepsMemoryPromise
  /\ [](part = "files" => Files!WithinBudget /\ Files!NothingLeft)

\* Arrangements, sorters and indexes that spilled answer as if they had not
\* (SpillOperators).
SpillUnnoticed ==
  part = "spill" =>
    Spill!ArrangementUnchanged /\ Spill!SortUnchanged /\ Spill!IndexUnchanged
=============================================================================

---------------------------- MODULE StorageEngines ----------------------------
(***************************************************************************)
(* The same commits given to a persistent engine and to the in-memory one. *)
(***************************************************************************)
EXTENDS StorageTables

CONSTANTS
  Ids,        \* bound: primary key values
  Values,     \* bound: values of the columns "a" and "b"
  BatchSize,  \* bound: mutations of a commit
  MaxCommits  \* bound: commits

VARIABLES trees, maps, commits, agreed

vars == <<trees, maps, commits, agreed>>

Rows == [id : Ids, a : Values, b : Values]
RowKeys == {<<id>> : id \in Ids}
Mutations ==
  {Insert(r) : r \in Rows} \union {Update(k, r) : k \in RowKeys, r \in Rows}
  \union {Delete(k) : k \in RowKeys}

Init == trees = EmptyTrees /\ maps = EmptyMaps /\ commits = 0 /\ agreed = TRUE

\* A commit of each engine: all of its mutations or none.
Commit(mutations) ==
  LET tree == ApplyTreeMutations(trees, mutations)
      map == ApplyMapMutations(maps, mutations)
  IN /\ commits < MaxCommits
     /\ commits' = commits + 1
     /\ trees' = IF tree.ok THEN tree.table ELSE trees
     /\ maps' = IF map.ok THEN map.table ELSE maps
     /\ agreed' = (tree.ok = map.ok /\ tree.changes = map.changes)

Next == \E n \in 1..BatchSize : \E mutations \in [1..n -> Mutations] : Commit(mutations)

Spec == Init /\ [][Next]_vars

-----------------------------------------------------------------------------
\* Both engines take and refuse the same batches, report the same changes and
\* keep the same rows (applyTreeMutations, MemoryStorage.commit).
EnginesAgree == agreed /\ trees.primary = maps.rows

\* Every row has exactly one entry in every index, under its present columns, and
\* every entry has its row (applyTreeMutations, updateIndexes).
IndexesHoldRows ==
  \A i \in Indexes :
    /\ trees.indexes[i] = [e \in {IndexKey(i, trees.primary[k], k) : k \in DOMAIN trees.primary}
                             |-> SubSeq(e, Len(i.columns) + 1, Len(e))]
    /\ maps.indexes[i] = [p \in {IndexPrefix(i, maps.rows[k]) : k \in DOMAIN maps.rows}
                            |-> {k \in DOMAIN maps.rows : IndexPrefix(i, maps.rows[k]) = p}]

\* No two rows share the columns of a unique index.
UniqueKept ==
  \A i \in Indexes : i.unique =>
    \A k, l \in DOMAIN trees.primary :
      IndexPrefix(i, trees.primary[k]) = IndexPrefix(i, trees.primary[l]) => k = l

\* The bounds of a scan: none, the whole key, or its first column alone.
Bounds(columns) == {{}} \union {{k} : k \in [1..Len(columns) -> Values]}
Firsts(columns) == {{<<v>>} : v \in Values}
ScanRanges(bounds) ==
  {[Everything EXCEPT !.gt = k] : k \in bounds} \union {[Everything EXCEPT !.gte = k] : k \in bounds}
  \union {[Everything EXCEPT !.lt = k] : k \in bounds}
  \union {[Everything EXCEPT !.lte = k] : k \in bounds}

Sources == {{}} \union {{i} : i \in Indexes}
Columns(source) == IF source = {} THEN PrimaryColumns ELSE (CHOOSE i \in source : TRUE).columns
Directions(ranges) == ranges \union {[r EXCEPT !.reverse = TRUE] : r \in ranges}

SortedBy(columns, rows) ==
  \A n \in 1..(Len(rows) - 1) :
    ~Precedes(Project(rows[n + 1], columns), Project(rows[n], columns))

\* With bounds that give every column, both engines find the rows within them and
\* no others, in the order of the columns asked for; by primary key, and by a
\* prefix of an index, in the same order up to equal columns (NodeSnapshot.scan,
\* MemorySnapshot.scan).
ScansAgree ==
  \A source \in Sources : LET columns == Columns(source) IN
    \A range \in Directions(ScanRanges(Bounds(columns))
                            \union {[Everything EXCEPT !.key = p] : p \in Firsts(columns)}) :
      (source = {} => range.key = {}) =>
        LET tree == TreeScan(trees, source, range)
            map == MapScan(maps, source, range)
        IN /\ ToSet(tree) = ToSet(map) /\ Len(tree) = Len(map)
           /\ source = {} => tree = map
           /\ SortedBy(columns, Directed(range, tree)) /\ SortedBy(columns, Directed(range, map))

\* test/memory-storage.test.ts:250 says "memory storage shares branch, historical
\* snapshot, and range semantics": a bound that gives the first column alone.
SharedRanges ==
  \A source \in Sources : LET columns == Columns(source) IN
    \A range \in ScanRanges(Firsts(columns)) :
      ToSet(TreeScan(trees, source, range)) = ToSet(MapScan(maps, source, range))
=============================================================================

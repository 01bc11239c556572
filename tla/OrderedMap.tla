------------------------------ MODULE OrderedMap ------------------------------
(***************************************************************************)
(* What a tree promises: a map, as the set of its entries, that a batch of *)
(* mutations updates at once, the later mutation of a key last             *)
(* (ImmutableBPlusTree.mutate).                                            *)
(***************************************************************************)
EXTENDS Sequences, SequencesExt

CONSTANT Batches  \* sequences of mutations

VARIABLE map  \* one entry for a key

ApplyMutation(entries, mutation) ==
  LET others == {e \in entries : e.key # mutation.key}
  IN IF mutation.type = "put"
     THEN others \union {[key |-> mutation.key, value |-> mutation.value]} ELSE others

Update == \E batch \in Batches : map' = FoldLeft(ApplyMutation, map, batch)

MapSpec == [][Update]_map
=============================================================================

------------------------------ MODULE MCRuntime ------------------------------
(* Instances of Runtime for TLC.                                           *)
EXTENDS Runtime, FiniteSets, TLC

CONSTANT MaxActors  \* bound: callers, and commits and subscribers
Symmetry == Permutations(Commands) \union Permutations(Subs)

\* A second caller or a second subscriber; a third commit or a second subscriber.
Callers == Cardinality({c \in Commands : pc[c] # "idle"})
Subscribers == Cardinality({s \in Subs : boot[s] # "absent"})
FewActors == Callers + Subscribers <= MaxActors /\ head + Subscribers <= MaxActors + 1

\* Bound: no step leads beyond.
StaysFew == FewActors'
=============================================================================

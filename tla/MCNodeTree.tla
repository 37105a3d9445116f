----------------------------- MODULE MCNodeTree -----------------------------
(* NodeTree on a handful of nodes.                                         *)
EXTENDS NodeTree, TLC

CONSTANT ArenaNodes     \* the nodes that are not of the default allocator

Mems == [n \in Nodes |-> IF n \in ArenaNodes THEN "arena" ELSE "default"]

\* Nodes of one allocator differ in nothing else: no operation orders them.
SameAllocator == Permutations(Nodes \ ArenaNodes)
=============================================================================

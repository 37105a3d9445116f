----------------------------- MODULE TreeShapes -----------------------------
(***************************************************************************)
(* All document trees of a given size, to start a traversal from.  With    *)
(* nodes numbered in document order, a tree is determined by the parent of *)
(* each node, and every shape arises that way.                             *)
(***************************************************************************)
EXTENDS NodeLinks, FiniteSetsExt

\* The k nodes 1 .. k as a tree with root 1; the other nodes are unused.
ParentFunctions(k) ==
    {f \in [Nodes -> Ptr] : \A m \in Nodes :
        IF m \in 2 .. k THEN f[m] \in 1 .. m - 1 ELSE f[m] = NULL}

LeastOf(S) == IF S = {} THEN NULL ELSE Min(S)
GreatestOf(S) == IF S = {} THEN NULL ELSE Max(S)

TreeOf(f) ==
    LET Kids(p) == {m \in Nodes : f[m] = p}
        Later(m) == {k \in Nodes : k > m /\ f[k] = f[m] /\ f[m] # NULL}
        Earlier(m) == {k \in Nodes : k < m /\ f[k] = f[m] /\ f[m] # NULL}
    IN  [next        |-> [m \in Nodes |-> LeastOf(Later(m))],
         prev        |-> [m \in Nodes |-> GreatestOf(Earlier(m))],
         parent      |-> f,
         first_child |-> [m \in Nodes |-> LeastOf(Kids(m))],
         last_child  |-> [m \in Nodes |-> GreatestOf(Kids(m))]]

TreesOfSize(k) == {TreeOf(f) : f \in ParentFunctions(k)}

=============================================================================

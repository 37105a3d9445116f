----------------------------- MODULE NodeLinks ------------------------------
(***************************************************************************)
(* The pointer fields of the nodes of src/src/node.c (next, prev, parent,  *)
(* first_child, last_child) as one record of functions, a `tree', and the  *)
(* surgery the operations perform on it.  An operation that calls another  *)
(* is a composition of operators on trees.                                 *)
(***************************************************************************)
EXTENDS Naturals, FiniteSets

CONSTANTS
    Nodes,   \* the addresses the allocator may hand out
    NULL     \* the null pointer

Ptr == Nodes \union {NULL}

Trees == [next        : [Nodes -> Ptr],
          prev        : [Nodes -> Ptr],
          parent      : [Nodes -> Ptr],
          first_child : [Nodes -> Ptr],
          last_child  : [Nodes -> Ptr]]

\* n and its ancestors: what is in every set that holds n and that no parent link
\* leaves.
AncSelf(t, n) ==
    {m \in Nodes : \A S \in SUBSET Nodes :
        (n \in S /\ m \notin S) => \E k \in S : t.parent[k] \notin S \union {NULL}}

\* n and everything below it.
Subtree(t, n) == {m \in Nodes : n \in AncSelf(t, m)}

-----------------------------------------------------------------------------
(* Pointer surgery.                                                        *)

\* "if (p) p->field = v", for the field f.
Store(f, p, v) == [m \in Nodes |-> IF m = p THEN v ELSE f[m]]

\* Mutant of S_node_unlink: the next sibling keeps pointing back to n.
S_node_unlink_OneWay(t, n) ==
    [t EXCEPT
       !.next = Store(t.next, t.prev[n], t.next[n]),
       !.first_child = [m \in Nodes |->
           IF m = t.parent[n] /\ t.first_child[m] = n
           THEN t.next[n] ELSE t.first_child[m]],
       !.last_child = [m \in Nodes |->
           IF m = t.parent[n] /\ t.last_child[m] = n
           THEN t.prev[n] ELSE t.last_child[m]]]

\* Unlink a node without adjusting its next, prev, and parent pointers.
S_node_unlink(t, n) ==
    [t EXCEPT
       !.next = Store(t.next, t.prev[n], t.next[n]),
       !.prev = Store(t.prev, t.next[n], t.prev[n]),
       !.first_child = [m \in Nodes |->
           IF m = t.parent[n] /\ t.first_child[m] = n
           THEN t.next[n] ELSE t.first_child[m]],
       !.last_child = [m \in Nodes |->
           IF m = t.parent[n] /\ t.last_child[m] = n
           THEN t.prev[n] ELSE t.last_child[m]]]

\* What cmark_node_unlink leaves: n alone, keeping its own children.
Unlinked(t, n) ==
    LET u == S_node_unlink(t, n)
    IN  [u EXCEPT !.next = Store(u.next, n, NULL),
                  !.prev = Store(u.prev, n, NULL),
                  !.parent = Store(u.parent, n, NULL)]

\* sib, already unlinked, goes between node's prev and node.
InsertedBefore(t, node, sib) ==
    LET u == S_node_unlink(t, sib)
        old_prev == u.prev[node]
        p == u.parent[node]
    IN  [u EXCEPT
           !.next = Store(Store(u.next, old_prev, sib), sib, node),
           !.prev = Store(Store(u.prev, sib, old_prev), node, sib),
           !.parent = Store(u.parent, sib, p),
           !.first_child = IF old_prev = NULL
                           THEN Store(u.first_child, p, sib)
                           ELSE u.first_child]

\* Mutant of InsertedAfter: old_next is read before sib is unlinked, so that
\* moving a node behind its own predecessor loses the rest of the list.
InsertedAfter_StaleNext(t, node, sib) ==
    LET u == S_node_unlink(t, sib)
        old_next == t.next[node]
        p == u.parent[node]
    IN  [u EXCEPT
           !.next = Store(Store(u.next, sib, old_next), node, sib),
           !.prev = Store(Store(u.prev, old_next, sib), sib, node),
           !.parent = Store(u.parent, sib, p),
           !.last_child = IF old_next = NULL
                          THEN Store(u.last_child, p, sib)
                          ELSE u.last_child]

InsertedAfter(t, node, sib) ==
    LET u == S_node_unlink(t, sib)
        old_next == u.next[node]
        p == u.parent[node]
    IN  [u EXCEPT
           !.next = Store(Store(u.next, sib, old_next), node, sib),
           !.prev = Store(Store(u.prev, old_next, sib), sib, node),
           !.parent = Store(u.parent, sib, p),
           !.last_child = IF old_next = NULL
                          THEN Store(u.last_child, p, sib)
                          ELSE u.last_child]

Prepended(t, node, child) ==
    LET u == S_node_unlink(t, child)
        old_first_child == u.first_child[node]
    IN  [u EXCEPT
           !.next = Store(u.next, child, old_first_child),
           !.prev = Store(Store(u.prev, child, NULL), old_first_child, child),
           !.parent = Store(u.parent, child, node),
           !.first_child = Store(u.first_child, node, child),
           !.last_child = IF old_first_child = NULL
                          THEN Store(u.last_child, node, child)
                          ELSE u.last_child]

Appended(t, node, child) ==
    LET u == S_node_unlink(t, child)
        old_last_child == u.last_child[node]
    IN  [u EXCEPT
           !.next = Store(Store(u.next, child, NULL), old_last_child, child),
           !.prev = Store(u.prev, child, old_last_child),
           !.parent = Store(u.parent, child, node),
           !.last_child = Store(u.last_child, node, child),
           !.first_child = IF old_last_child = NULL
                           THEN Store(u.first_child, node, child)
                           ELSE u.first_child]

\* Freed memory is unreachable; its fields read NULL, as the calloc of
\* the next cmark_node_new at that address makes them.
Cleared(f, S) == [m \in Nodes |-> IF m \in S THEN NULL ELSE f[m]]

Freed(t, S) ==
    [next        |-> Cleared(t.next, S),
     prev        |-> Cleared(t.prev, S),
     parent      |-> Cleared(t.parent, S),
     first_child |-> Cleared(t.first_child, S),
     last_child  |-> Cleared(t.last_child, S)]

-----------------------------------------------------------------------------
(* Consistency of the links.                                               *)

\* Sibling links mirror each other and stay within one parent.
SiblingLinks(t) ==
    /\ \A m \in Nodes : t.next[m] # NULL =>
         /\ t.prev[t.next[m]] = m
         /\ t.parent[t.next[m]] = t.parent[m]
    /\ \A m \in Nodes : t.prev[m] # NULL => t.next[t.prev[m]] = m

\* A child without prev (next) is its parent's first (last) child, and a first
\* (last) child points back to its parent; a root has no siblings; there is a
\* first child just when there is a last one.
ParentLinks(t) ==
    /\ \A m \in Nodes : t.parent[m] = NULL =>
         t.next[m] = NULL /\ t.prev[m] = NULL
    /\ \A m \in Nodes : t.parent[m] # NULL =>
         /\ t.prev[m] = NULL => t.first_child[t.parent[m]] = m
         /\ t.next[m] = NULL => t.last_child[t.parent[m]] = m
    /\ \A p \in Nodes : t.first_child[p] # NULL =>
         /\ t.parent[t.first_child[p]] = p
         /\ t.prev[t.first_child[p]] = NULL
    /\ \A p \in Nodes : t.last_child[p] # NULL =>
         /\ t.parent[t.last_child[p]] = p
         /\ t.next[t.last_child[p]] = NULL
    /\ \A p \in Nodes : t.first_child[p] = NULL <=> t.last_child[p] = NULL

\* No nonempty set of nodes is closed under the pointer f: a walk along f ends.
WellFounded(f) ==
    \A S \in SUBSET Nodes : S # {} => \E m \in S : f[m] \notin S

=============================================================================

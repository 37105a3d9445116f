------------------------------ MODULE NodeFree ------------------------------
(***************************************************************************)
(* cmark_node_free of src/src/node.c, one iteration of the loop of         *)
(* S_free_nodes per step.  The loop needs no stack: the children of the    *)
(* node being freed are spliced into the sibling list in front of what is  *)
(* still to be freed.  A module that frees nodes extends this one.         *)
(***************************************************************************)
EXTENDS TreeShapes

VARIABLES
    tree, live,  \* the pointer fields; the nodes that are allocated
    e,           \* the loop variable; NULL when no call is under way
    call         \* the tree, the live nodes and the argument of the call

fvars == <<tree, live, e, call>>

NoCall == [tree |-> NULL, live |-> {}, target |-> NULL]

\* cmark_node_free(n) when the fields are t and the nodes L are allocated, up
\* to its call of S_free_nodes.
cmark_node_free(t, L, n) ==
    /\ e' = n
    /\ call' = [tree |-> t, live |-> L, target |-> n]
    /\ LET u == S_node_unlink(t, n)
       IN  tree' = [u EXCEPT !.next = Store(u.next, n, NULL)]
    /\ live' = L

\* Mutant of SpliceChildren: the node's own next is overwritten first.
SpliceChildren_Swapped(t, n) ==
    IF t.last_child[n] = NULL THEN t.next
    ELSE Store(Store(t.next, n, t.first_child[n]),
               t.last_child[n], t.first_child[n])

\* Mutant of SpliceChildren: the children are dropped.
SpliceChildren_None(t, n) == t.next

\* "if (e->last_child) { e->last_child->next = e->next; e->next = e->first_child; }"
SpliceChildren(t, n) ==
    IF t.last_child[n] = NULL THEN t.next
    ELSE Store(Store(t.next, t.last_child[n], t.next[n]), n, t.first_child[n])

\* One iteration: e is freed, then the loop goes on with what was its next.
S_free_nodes ==
    /\ e # NULL
    /\ LET next == SpliceChildren(tree, e)
       IN  /\ tree' = Freed([tree EXCEPT !.next = next], {e})
           /\ e' = next[e]
           /\ call' = IF next[e] = NULL THEN NoCall ELSE call
    /\ live' = live \ {e}

-----------------------------------------------------------------------------
\* When the loop ends, exactly the subtree of the node has been freed, and the
\* links among the nodes that are left are as unlinking the node leaves them:
\* no node leaks and nothing outside the subtree is touched (S_free_nodes).
FreesSubtree ==
    [][e # NULL /\ e' = NULL =>
         LET S == Subtree(call.tree, call.target)
         IN  /\ live' = call.live \ S
             /\ tree' = Freed(S_node_unlink(call.tree, call.target), S)]_fvars
=============================================================================

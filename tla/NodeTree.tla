------------------------------ MODULE NodeTree ------------------------------
(***************************************************************************)
(* The document tree of src/src/node.c: the public operations that create, *)
(* relink, retype and free nodes, in any order a client may call them.     *)
(***************************************************************************)
EXTENDS NodeLinks, Sequences, SequencesExt

CONSTANTS
    MemOf,        \* MemOf[n]: the allocator (cmark_mem) that owns address n
    TypesUsed,    \* the node types the client creates or converts to
    SelfSibling   \* TRUE: the client may insert a node next to itself

BlockTypes ==
    {"document", "block_quote", "list", "item", "code_block", "html_block",
     "custom_block", "paragraph", "heading", "thematic_break",
     "footnote_definition", "table", "table_row", "table_cell"}

InlineTypes ==
    {"text", "softbreak", "linebreak", "code", "html_inline", "custom_inline",
     "emph", "strong", "link", "image", "footnote_reference", "attribute",
     "strikethrough"}

NodeTypes == BlockTypes \union InlineTypes

ASSUME NodeTreeAssumption ==
    /\ NULL \notin Nodes
    /\ TypesUsed \subseteq NodeTypes
    /\ SelfSibling \in BOOLEAN

VARIABLES
    live,                  \* the nodes that are allocated
    type,                  \* cmark_node.type
    tree,                  \* the five pointer fields
    enable_safety_checks,  \* the process-wide flag of node.c
    ret                    \* what the last operation returned

vars == <<live, type, tree, enable_safety_checks, ret>>

-----------------------------------------------------------------------------
(* What a node may contain.                                                *)

\* The types a table cell holds (the table extension's can_contain).
CellTypes == {"text", "code", "emph", "strong", "link", "image",
              "attribute", "strikethrough", "html_inline",
              "footnote_reference"}

\* The child types a node of type ty accepts.  Table and strikethrough nodes
\* carry their extension, whose can_contain_func decides for them: who makes one,
\* or converts a node to one, sets it; other nodes have none.
cmark_node_can_contain_type(ty, child) ==
    /\ child # "document"
    /\ \/ /\ ty \in {"document", "block_quote", "footnote_definition", "item"}
          /\ child \in BlockTypes \ {"item"}
       \/ ty = "list"  /\ child = "item"
       \/ ty = "custom_block"
       \/ /\ ty \in {"paragraph", "heading", "emph", "strong", "link", "image",
                     "attribute", "custom_inline", "strikethrough"}
          /\ child \in InlineTypes
       \/ ty = "table"      /\ child = "table_row"
       \/ ty = "table_row"  /\ child = "table_cell"
       \/ ty = "table_cell" /\ child \in CellTypes

\* Mutant of S_can_contain: a child that changes its type is asked for with the
\* type it had.
S_can_contain_OldType(node, child, ty) ==
    /\ node # NULL /\ child # NULL
    /\ MemOf[node] = MemOf[child]
    /\ enable_safety_checks => child \notin AncSelf(tree, node)
    /\ cmark_node_can_contain_type(type[node], type[child])

\* Whether child, taken to be of type ty, may be put under node.
S_can_contain(node, child, ty) ==
    /\ node # NULL /\ child # NULL
    /\ MemOf[node] = MemOf[child]
    /\ enable_safety_checks => child \notin AncSelf(tree, node)
    /\ cmark_node_can_contain_type(type[node], ty)

-----------------------------------------------------------------------------
(* The operations.                                                         *)

Init ==
    /\ live = {}
    /\ type = [n \in Nodes |-> "none"]
    /\ tree = [next        |-> [n \in Nodes |-> NULL],
               prev        |-> [n \in Nodes |-> NULL],
               parent      |-> [n \in Nodes |-> NULL],
               first_child |-> [n \in Nodes |-> NULL],
               last_child  |-> [n \in Nodes |-> NULL]]
    /\ enable_safety_checks = FALSE
    /\ ret = 1

\* A relinking operation: refused with 0, or done with result 1.
Relink(ok, t) ==
    /\ tree' = IF ok THEN t ELSE tree
    /\ ret' = IF ok THEN 1 ELSE 0
    /\ UNCHANGED <<live, type, enable_safety_checks>>

\* With the checks off, no caller puts a node under itself or its descendants:
\* the contract that the parser keeps by attaching only fresh nodes.
NoLoop(node, child) ==
    enable_safety_checks \/ child \notin AncSelf(tree, node)

cmark_enable_safety_checks(enable) ==
    /\ enable_safety_checks' = enable
    /\ UNCHANGED <<live, type, tree, ret>>

cmark_node_new(n, ty) ==
    /\ n \notin live
    /\ live' = live \union {n}
    /\ type' = [type EXCEPT ![n] = ty]
    /\ ret' = 1
    /\ UNCHANGED <<tree, enable_safety_checks>>

cmark_node_unlink(n) ==
    /\ tree' = Unlinked(tree, n)
    /\ ret' = 1
    /\ UNCHANGED <<live, type, enable_safety_checks>>

\* Unlink, then release the node and its descendants (S_free_nodes, whose
\* loop is module NodeFree).
cmark_node_free(n) ==
    LET S == Subtree(tree, n)
    IN  /\ live' = live \ S
        /\ type' = [m \in Nodes |-> IF m \in S THEN "none" ELSE type[m]]
        /\ tree' = Freed(S_node_unlink(tree, n), S)
        /\ ret' = 1
        /\ UNCHANGED enable_safety_checks

cmark_node_insert_before(node, sibling) ==
    /\ node # sibling \/ SelfSibling
    /\ tree.parent[node] # NULL => NoLoop(tree.parent[node], sibling)
    /\ Relink(S_can_contain(tree.parent[node], sibling, type[sibling]),
              InsertedBefore(tree, node, sibling))

cmark_node_insert_after(node, sibling) ==
    /\ node # sibling \/ SelfSibling
    /\ tree.parent[node] # NULL => NoLoop(tree.parent[node], sibling)
    /\ Relink(S_can_contain(tree.parent[node], sibling, type[sibling]),
              InsertedAfter(tree, node, sibling))

cmark_node_replace(oldnode, newnode) ==
    /\ oldnode # newnode \/ SelfSibling
    /\ tree.parent[oldnode] # NULL => NoLoop(tree.parent[oldnode], newnode)
    /\ Relink(S_can_contain(tree.parent[oldnode], newnode, type[newnode]),
              Unlinked(InsertedBefore(tree, oldnode, newnode), oldnode))

cmark_node_prepend_child(node, child) ==
    /\ NoLoop(node, child)
    /\ Relink(S_can_contain(node, child, type[child]),
              Prepended(tree, node, child))

cmark_node_append_child(node, child) ==
    /\ NoLoop(node, child)
    /\ Relink(S_can_contain(node, child, type[child]),
              Appended(tree, node, child))

\* The parent is asked whether it may hold the new type, so that a root keeps
\* its own; whether the new type may hold the children is not asked.
cmark_node_set_type(n, ty) ==
    /\ LET ok == \/ ty = type[n]
                 \/ S_can_contain(tree.parent[n], n, ty)
       IN  /\ type' = [type EXCEPT ![n] = IF ok THEN ty ELSE @]
           /\ ret' = IF ok THEN 1 ELSE 0
    /\ UNCHANGED <<live, tree, enable_safety_checks>>

Next ==
    \/ \E b \in BOOLEAN : cmark_enable_safety_checks(b)
    \/ \E n \in Nodes, ty \in TypesUsed : cmark_node_new(n, ty)
    \/ \E n \in live : cmark_node_unlink(n)
    \/ \E n \in live : cmark_node_free(n)
    \/ \E n, m \in live : cmark_node_insert_before(n, m)
    \/ \E n, m \in live : cmark_node_insert_after(n, m)
    \/ \E n, m \in live : cmark_node_replace(n, m)
    \/ \E n, m \in live : cmark_node_prepend_child(n, m)
    \/ \E n, m \in live : cmark_node_append_child(n, m)
    \/ \E n \in live, ty \in TypesUsed : cmark_node_set_type(n, ty)

Spec == Init /\ [][Next]_vars

-----------------------------------------------------------------------------
(* Properties.                                                             *)

\* Every field holds a value of its C type.
TypeOK ==
    /\ live \subseteq Nodes
    /\ type \in [Nodes -> NodeTypes \union {"none"}]
    /\ tree \in Trees
    /\ enable_safety_checks \in BOOLEAN
    /\ ret \in {0, 1}

\* The five pointers of every node describe one tree structure: what
\* cmark_node_check verifies, and what every traversal relies on.
LinksOK == SiblingLinks(tree) /\ ParentLinks(tree)

\* Walks to the root (S_can_contain, add_child) and along a sibling list
\* (S_free_nodes, the iterator, the renderers) end.
Acyclic == WellFounded(tree.parent) /\ WellFounded(tree.next)

\* No node points to one that is not allocated: nothing dangles after
\* cmark_node_free, and a fresh node starts unlinked.
NoDangling ==
    \A m \in Nodes \ live :
        /\ tree.next[m] = NULL        /\ tree.prev[m] = NULL
        /\ tree.parent[m] = NULL
        /\ tree.first_child[m] = NULL /\ tree.last_child[m] = NULL
        /\ \A k \in Nodes : m \notin {tree.next[k], tree.prev[k], tree.parent[k],
                                      tree.first_child[k], tree.last_child[k]}

\* Of the types that ty gives them, p's may hold m's.
MayHold(ty, p, m) == cmark_node_can_contain_type(ty[p], ty[m])

\* Every child is of a type its parent may hold.  It is not so in general:
\* cmark_node_set_type on a node with children does not ask about them.
ContainmentOK ==
    \A m \in Nodes : tree.parent[m] # NULL => MayHold(type, tree.parent[m], m)

\* A parent and its children are of one allocator, on which cmark_node_free
\* and the arena rely.
OneAllocator ==
    \A m \in Nodes : tree.parent[m] # NULL => MemOf[tree.parent[m]] = MemOf[m]

\* A child that its parent may not hold after a call was there, and was what it
\* is, before the call.
KeepsContainment ==
    \A m \in Nodes :
        LET p == tree'.parent[m]
        IN  p # NULL /\ ~MayHold(type', p, m)
              => tree.parent[m] = p /\ type'[m] = type[m]

\* Whatever the sequence of relinking and retyping, with the safety checks on or
\* off: only converting the parent puts a child where it may not be.  No call
\* moves one into such a place, not even beside others there, or converts one
\* in its place (S_can_contain, cmark_node_set_type); and no allocators mix.
ContainmentKept == []OneAllocator /\ [][KeepsContainment]_vars

-----------------------------------------------------------------------------
(* The tree as a forest of sequences.                                      *)

\* q lists the set kids from the first child of p on, by next.
Lists(t, p, kids, q) ==
    /\ t.first_child[p] = IF kids = {} THEN NULL ELSE q[1]
    /\ \A i \in DOMAIN q :
         t.next[q[i]] = IF i + 1 \in DOMAIN q THEN q[i + 1] ELSE NULL

\* The nodes whose parent is p, in the order of their next pointers.
ChildSeq(t, p) ==
    LET kids == {m \in Nodes : t.parent[m] = p}
        lists == {q \in [1 .. Cardinality(kids) -> kids] : Lists(t, p, kids, q)}
    IN  IF lists = {} THEN << >> ELSE CHOOSE q \in lists : TRUE

Children == [p \in Nodes |-> ChildSeq(tree, p)]

F == INSTANCE Forest WITH alloc <- live, children <- Children

\* Each operation that succeeds puts the node where cmark-gfm.h says: first,
\* last, or directly before or after a sibling, in the list left by taking
\* the node out of wherever it was (possibly that same list).
DocumentedPlace ==
    tree' # tree /\ ret' = 1 => \A n, m \in live :
        LET c == F!Detached(Children, m)
            p == tree.parent[n]
            at == CHOOSE i \in 1 .. Len(c[p]) : c[p][i] = n
        IN  /\ cmark_node_prepend_child(n, m) => F!Place(n, 1, m)
            /\ cmark_node_append_child(n, m) => F!Place(n, Len(c[n]) + 1, m)
            /\ cmark_node_insert_before(n, m) => F!Place(p, at, m)
            /\ cmark_node_insert_after(n, m) => F!Place(p, at + 1, m)
            /\ cmark_node_replace(n, m) => F!Substitute(n, m)

\* Every step of node.c's pointer surgery is one step of an ordered forest:
\* a node is created, placed, replaced, detached or deleted with all it holds,
\* and no other child list changes; and it is the step the header names.
ImplementsForest == F!FSpec /\ [][DocumentedPlace]_vars

=============================================================================

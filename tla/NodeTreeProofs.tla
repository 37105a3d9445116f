--------------------------- MODULE NodeTreeProofs ---------------------------
(***************************************************************************)
(* The safety properties of NodeTree and its refinement of Forest, for     *)
(* every set of nodes: each call is a composition of the surgery           *)
(* NodeLinksProofs has the lemmas of, and each piece of surgery takes a    *)
(* node out of one child list or puts it into another.                     *)
(***************************************************************************)
EXTENDS NodeTree, NodeLinksProofs, SequenceTheorems, FiniteSetTheorems

-----------------------------------------------------------------------------
(* The inductive invariant.                                                *)

\* No edge of t mixes allocators.
Owned(t) == \A m \in Nodes : t.parent[m] # NULL => MemOf[t.parent[m]] = MemOf[m]

Good(t, L) == t \in Trees /\ Shape(t) /\ Untouched(t, L) /\ Owned(t)

\* v is t with c under p.
Moved(t, v, p, c) ==
    \A m \in Nodes : v.parent[m] = IF m = c THEN p ELSE t.parent[m]

\* The part of S_can_contain that does not depend on the safety checks.
Accepts(p, c, ty) ==
    MemOf[p] = MemOf[c] /\ MayHold(ty, p, c)

\* The conjunction of the properties is inductive.
IInv == TypeOK /\ LinksOK /\ Acyclic /\ NoDangling /\ OneAllocator

\* IInv in terms of the lemmas' predicates.
LEMMA IInvIsGood ==
    IInv <=> /\ live \subseteq Nodes
             /\ type \in [Nodes -> NodeTypes \union {"none"}]
             /\ enable_safety_checks \in BOOLEAN /\ ret \in {0, 1}
             /\ Good(tree, live)
  <1>1. LinksOK <=> Links(tree)
    BY DEF LinksOK, Links
  <1>2. TypeOK /\ LinksOK => (NoDangling <=> Untouched(tree, live))
    BY NodeTreeAssumption
       DEF NoDangling, Untouched, TypeOK, LinksOK, SiblingLinks, ParentLinks,
           Trees, Ptr
  <1>3. OneAllocator <=> Owned(tree)
    BY DEF OneAllocator, Owned
  <1> QED BY <1>1, <1>2, <1>3 DEF IInv, TypeOK, Good, Shape, Acyclic

\* The same for the next state.
LEMMA IInvPrimeIsGood ==
    IInv' <=> /\ live' \subseteq Nodes
              /\ type' \in [Nodes -> NodeTypes \union {"none"}]
              /\ enable_safety_checks' \in BOOLEAN /\ ret' \in {0, 1}
              /\ Good(tree', live')
  <1>1. LinksOK' <=> Links(tree')
    BY DEF LinksOK, Links
  <1>2. TypeOK' /\ LinksOK' => (NoDangling' <=> Untouched(tree', live'))
    BY NodeTreeAssumption
       DEF NoDangling, Untouched, TypeOK, LinksOK, SiblingLinks, ParentLinks,
           Trees, Ptr
  <1>3. OneAllocator' <=> Owned(tree')
    BY DEF OneAllocator, Owned
  <1> QED BY <1>1, <1>2, <1>3 DEF IInv, TypeOK, Good, Shape, Acyclic

\* The tree after cmark_node_unlink.
LEMMA UnlinkedGood ==
    ASSUME NULL \notin Nodes, NEW t, NEW L, Good(t, L),
           NEW n \in Nodes, n \in L
    PROVE  Good(Unlinked(t, n), L) /\ Moved(t, Unlinked(t, n), NULL, n)
  <1> DEFINE u == Unlinked(t, n)
  <1>1. t \in Trees /\ Shape(t) /\ Untouched(t, L) /\ Owned(t)
    BY DEF Good
  <1>2. /\ u \in Trees /\ Shape(u) /\ Untouched(u, L)
        /\ \A m \in Nodes : u.parent[m] = IF m = n THEN NULL ELSE t.parent[m]
    BY <1>1, UnlinkedShape
  <1>3. Owned(u)
    BY <1>1, <1>2 DEF Owned
  <1> QED BY <1>2, <1>3 DEF Good, Moved

\* The tree after cmark_node_insert_before.
LEMMA InsertedBeforeGood ==
    ASSUME NULL \notin Nodes, NEW t, NEW L, Good(t, L),
           NEW node \in Nodes, NEW sib \in Nodes, sib \in L, node # sib,
           t.parent[node] # NULL, sib \notin AncSelf(t, t.parent[node]),
           MemOf[t.parent[node]] = MemOf[sib]
    PROVE  /\ Good(InsertedBefore(t, node, sib), L)
           /\ Moved(t, InsertedBefore(t, node, sib), t.parent[node], sib)
  <1> DEFINE u == Unlinked(t, sib)
             v == InsertedBefore(t, node, sib)
  <1>1. t \in Trees /\ Shape(t) /\ Untouched(t, L) /\ Links(t)
    BY DEF Good, Shape
  <1>2. t.next[sib] # sib
    BY <1>1, NoSelfNext DEF Shape
  <1>3. /\ t.parent[node] \in Nodes /\ t.parent[node] \in L
        /\ MemOf[t.parent[node]] = MemOf[sib]
    BY <1>1 DEF Trees, Ptr, Untouched
  <1>4. u \in Trees
    BY <1>1, UnlinkedFields
  <1>5. /\ Gap(u, t.parent[node], u.prev[node], node)
        /\ v = Spliced(u, t.parent[node], u.prev[node], node, sib)
    BY <1>1, <1>2, <1>3, InsertedBeforeIsSplice
  <1>6. u.prev[node] \in Ptr /\ node \in Ptr
    BY <1>4 DEF Trees, Ptr
  <1>7. /\ v \in Trees /\ Shape(v) /\ Untouched(v, L)
        /\ \A m \in Nodes : v.parent[m] = IF m = sib THEN t.parent[node] ELSE t.parent[m]
    BY <1>1, <1>3, <1>5, <1>6, MovedShape
  <1>8. Owned(v)
    BY <1>1, <1>3, <1>7 DEF Good, Owned
  <1> QED BY <1>7, <1>8 DEF Good, Moved

\* The tree after cmark_node_insert_after.
LEMMA InsertedAfterGood ==
    ASSUME NULL \notin Nodes, NEW t, NEW L, Good(t, L),
           NEW node \in Nodes, NEW sib \in Nodes, sib \in L, node # sib,
           t.parent[node] # NULL, sib \notin AncSelf(t, t.parent[node]),
           MemOf[t.parent[node]] = MemOf[sib]
    PROVE  /\ Good(InsertedAfter(t, node, sib), L)
           /\ Moved(t, InsertedAfter(t, node, sib), t.parent[node], sib)
  <1> DEFINE u == Unlinked(t, sib)
             v == InsertedAfter(t, node, sib)
  <1>1. t \in Trees /\ Shape(t) /\ Untouched(t, L) /\ Links(t)
    BY DEF Good, Shape
  <1>2. t.next[sib] # sib
    BY <1>1, NoSelfNext DEF Shape
  <1>3. /\ t.parent[node] \in Nodes /\ t.parent[node] \in L
        /\ MemOf[t.parent[node]] = MemOf[sib]
    BY <1>1 DEF Trees, Ptr, Untouched
  <1>4. u \in Trees
    BY <1>1, UnlinkedFields
  <1>5. /\ Gap(u, t.parent[node], node, u.next[node])
        /\ v = Spliced(u, t.parent[node], node, u.next[node], sib)
    BY <1>1, <1>2, <1>3, InsertedAfterIsSplice
  <1>6. node \in Ptr /\ u.next[node] \in Ptr
    BY <1>4 DEF Trees, Ptr
  <1>7. /\ v \in Trees /\ Shape(v) /\ Untouched(v, L)
        /\ \A m \in Nodes : v.parent[m] = IF m = sib THEN t.parent[node] ELSE t.parent[m]
    BY <1>1, <1>3, <1>5, <1>6, MovedShape
  <1>8. Owned(v)
    BY <1>1, <1>3, <1>7 DEF Good, Owned
  <1> QED BY <1>7, <1>8 DEF Good, Moved

\* The tree after cmark_node_prepend_child.
LEMMA PrependedGood ==
    ASSUME NULL \notin Nodes, NEW t, NEW L, Good(t, L),
           NEW node \in Nodes, NEW child \in Nodes, child \in L, node \in L,
           child \notin AncSelf(t, node), MemOf[node] = MemOf[child]
    PROVE  /\ Good(Prepended(t, node, child), L)
           /\ Moved(t, Prepended(t, node, child), node, child)
  <1> DEFINE u == Unlinked(t, child)
             v == Prepended(t, node, child)
  <1>1. t \in Trees /\ Shape(t) /\ Untouched(t, L) /\ Links(t)
    BY DEF Good, Shape
  <1>2. t.next[child] # child
    BY <1>1, NoSelfNext DEF Shape
  <1>3. MemOf[node] = MemOf[child]
    OBVIOUS
  <1>4. u \in Trees
    BY <1>1, UnlinkedFields
  <1>5. /\ Gap(u, node, NULL, u.first_child[node])
        /\ v = Spliced(u, node, NULL, u.first_child[node], child)
    BY <1>1, <1>2, <1>3, PrependedIsSplice
  <1>6. NULL \in Ptr /\ u.first_child[node] \in Ptr
    BY <1>4 DEF Trees, Ptr
  <1>7. /\ v \in Trees /\ Shape(v) /\ Untouched(v, L)
        /\ \A m \in Nodes : v.parent[m] = IF m = child THEN node ELSE t.parent[m]
    BY <1>1, <1>3, <1>5, <1>6, MovedShape
  <1>8. Owned(v)
    BY <1>1, <1>3, <1>7 DEF Good, Owned
  <1> QED BY <1>7, <1>8 DEF Good, Moved

\* The tree after cmark_node_append_child.
LEMMA AppendedGood ==
    ASSUME NULL \notin Nodes, NEW t, NEW L, Good(t, L),
           NEW node \in Nodes, NEW child \in Nodes, child \in L, node \in L,
           child \notin AncSelf(t, node), MemOf[node] = MemOf[child]
    PROVE  /\ Good(Appended(t, node, child), L)
           /\ Moved(t, Appended(t, node, child), node, child)
  <1> DEFINE u == Unlinked(t, child)
             v == Appended(t, node, child)
  <1>1. t \in Trees /\ Shape(t) /\ Untouched(t, L) /\ Links(t)
    BY DEF Good, Shape
  <1>2. t.next[child] # child
    BY <1>1, NoSelfNext DEF Shape
  <1>3. MemOf[node] = MemOf[child]
    OBVIOUS
  <1>4. u \in Trees
    BY <1>1, UnlinkedFields
  <1>5. /\ Gap(u, node, u.last_child[node], NULL)
        /\ v = Spliced(u, node, u.last_child[node], NULL, child)
    BY <1>1, <1>2, <1>3, AppendedIsSplice
  <1>6. u.last_child[node] \in Ptr /\ NULL \in Ptr
    BY <1>4 DEF Trees, Ptr
  <1>7. /\ v \in Trees /\ Shape(v) /\ Untouched(v, L)
        /\ \A m \in Nodes : v.parent[m] = IF m = child THEN node ELSE t.parent[m]
    BY <1>1, <1>3, <1>5, <1>6, MovedShape
  <1>8. Owned(v)
    BY <1>1, <1>3, <1>7 DEF Good, Owned
  <1> QED BY <1>7, <1>8 DEF Good, Moved

\* Initially nothing is allocated and nothing is linked.
LEMMA InitIInv == Init => IInv
  <1> SUFFICES ASSUME Init PROVE IInv
    OBVIOUS
  <1> USE NodeTreeAssumption
  <1>1. tree \in Trees
    BY DEF Init, Trees, Ptr
  <1>2. /\ \A m \in Nodes : /\ tree.next[m] = NULL /\ tree.prev[m] = NULL
                            /\ tree.parent[m] = NULL
                            /\ tree.first_child[m] = NULL
                            /\ tree.last_child[m] = NULL
    BY DEF Init
  <1>3. TypeOK
    BY <1>1 DEF Init, TypeOK
  <1>4. LinksOK /\ NoDangling /\ OneAllocator
    BY <1>2 DEF LinksOK, SiblingLinks, ParentLinks, NoDangling, OneAllocator
  <1>5. Acyclic
    BY <1>2 DEF Acyclic, WellFounded
  <1> QED BY <1>3, <1>4, <1>5 DEF IInv

\* A relinking operation preserves the invariant if the tree it builds when
\* it succeeds is good.
LEMMA RelinkIInv ==
    ASSUME IInv, NEW ok \in BOOLEAN, NEW t, ok => Good(t, live),
           Relink(ok, t)
    PROVE  IInv'
  <1>1. /\ live \subseteq Nodes
        /\ type \in [Nodes -> NodeTypes \union {"none"}]
        /\ enable_safety_checks \in BOOLEAN
        /\ Good(tree, live)
    BY IInvIsGood
  <1>2. /\ live' = live /\ type' = type
        /\ enable_safety_checks' = enable_safety_checks
        /\ ret' \in {0, 1}
        /\ tree' = IF ok THEN t ELSE tree
    BY DEF Relink
  <1>3. Good(tree', live')
    BY <1>1, <1>2
  <1> QED BY <1>1, <1>2, <1>3, IInvPrimeIsGood

\* What a successful S_can_contain means for a caller that keeps the contract
\* NoLoop.
LEMMA CanContainMeans ==
    ASSUME NEW p \in Ptr, NEW c \in Nodes, S_can_contain(p, c, type[c]),
           p # NULL => NoLoop(p, c)
    PROVE  p # NULL /\ p \in Nodes /\ c \notin AncSelf(tree, p)
           /\ Accepts(p, c, type)
  BY DEF S_can_contain, NoLoop, Accepts, MayHold, Ptr

-----------------------------------------------------------------------------
(* Every operation preserves the invariant, for clients that do not insert *)
(* a node next to itself.                                                  *)

\* One step of the specification preserves IInv.
LEMMA NextIInv ==
    ASSUME ~SelfSibling, IInv, [Next]_vars
    PROVE  IInv'
  <1> USE NodeTreeAssumption
  <1>1. /\ live \subseteq Nodes
        /\ type \in [Nodes -> NodeTypes \union {"none"}]
        /\ enable_safety_checks \in BOOLEAN /\ ret \in {0, 1}
        /\ Good(tree, live)
    BY IInvIsGood
  <1>2. tree \in Trees /\ Shape(tree) /\ Untouched(tree, live) /\ Owned(tree)
    BY <1>1 DEF Good
  <1>3. \A n \in live : n \in Nodes /\ tree.parent[n] \in Ptr
    BY <1>1, <1>2 DEF Trees
  <1>4. ASSUME NEW b \in BOOLEAN, cmark_enable_safety_checks(b) PROVE IInv'
    BY <1>1, <1>4, IInvPrimeIsGood DEF cmark_enable_safety_checks
  <1>5. ASSUME NEW n \in Nodes, NEW ty \in TypesUsed, cmark_node_new(n, ty)
        PROVE  IInv'
    <2>1. /\ n \notin live /\ live' = live \union {n} /\ tree' = tree
          /\ type' = [type EXCEPT ![n] = ty] /\ ret' = 1
          /\ enable_safety_checks' = enable_safety_checks
      BY <1>5 DEF cmark_node_new
    <2>2. type' \in [Nodes -> NodeTypes \union {"none"}]
      BY <1>1, <2>1
    <2>3. Untouched(tree', live')
      BY <1>2, <2>1 DEF Untouched
    <2>4. Owned(tree')
      BY <1>1, <1>2, <2>1 DEF Owned, Untouched, Trees, Ptr
    <2> QED BY <1>1, <1>2, <2>1, <2>2, <2>3, <2>4, IInvPrimeIsGood DEF Good
  <1>6. ASSUME NEW n \in live, cmark_node_unlink(n) PROVE IInv'
    <2>1. Good(Unlinked(tree, n), live)
      BY <1>1, <1>3, UnlinkedGood
    <2> QED BY <1>1, <1>6, <2>1, IInvPrimeIsGood DEF cmark_node_unlink
  <1>7. ASSUME NEW n \in live, cmark_node_free(n) PROVE IInv'
    <2> DEFINE S == Subtree(tree, n)
    <2>1. /\ live' = live \ S
          /\ type' = [m \in Nodes |-> IF m \in S THEN "none" ELSE type[m]]
          /\ tree' = Freed(S_node_unlink(tree, n), S)
          /\ ret' = 1 /\ enable_safety_checks' = enable_safety_checks
      BY <1>7 DEF cmark_node_free
    <2>2. /\ tree' \in Trees /\ Shape(tree') /\ Untouched(tree', live \ S)
          /\ \A m \in Nodes : tree'.parent[m] = IF m \in S THEN NULL
                                                ELSE tree.parent[m]
      BY <1>2, <1>3, <2>1, FreedShape
    <2>3. \A m \in Nodes : tree.parent[m] \in S => m \in S
      BY <1>2, <1>3, SubtreeClosed
    <2> HIDE DEF S
    <2>4. type' \in [Nodes -> NodeTypes \union {"none"}]
      BY <1>1, <2>1
    <2>5. Owned(tree')
      BY <1>1, <1>2, <2>1, <2>2, <2>3 DEF Owned, Trees, Ptr
    <2> QED BY <1>1, <2>1, <2>2, <2>4, <2>5, IInvPrimeIsGood DEF Good
  <1>8. ASSUME NEW n \in live, NEW m \in live, cmark_node_insert_before(n, m)
        PROVE  IInv'
    <2> DEFINE ok == S_can_contain(tree.parent[n], m, type[m])
    <2>1. n # m /\ Relink(ok, InsertedBefore(tree, n, m))
      BY <1>8 DEF cmark_node_insert_before
    <2>2. ok => Good(InsertedBefore(tree, n, m), live)
      BY <1>1, <1>3, <1>8, <2>1, CanContainMeans, InsertedBeforeGood
         DEF cmark_node_insert_before, Accepts
    <2>3. ok \in BOOLEAN
      BY DEF S_can_contain
    <2> HIDE DEF ok
    <2> QED BY <2>1, <2>2, <2>3, RelinkIInv
  <1>9. ASSUME NEW n \in live, NEW m \in live, cmark_node_insert_after(n, m)
        PROVE  IInv'
    <2> DEFINE ok == S_can_contain(tree.parent[n], m, type[m])
    <2>1. n # m /\ Relink(ok, InsertedAfter(tree, n, m))
      BY <1>9 DEF cmark_node_insert_after
    <2>2. ok => Good(InsertedAfter(tree, n, m), live)
      BY <1>1, <1>3, <1>9, <2>1, CanContainMeans, InsertedAfterGood
         DEF cmark_node_insert_after, Accepts
    <2>3. ok \in BOOLEAN
      BY DEF S_can_contain
    <2> HIDE DEF ok
    <2> QED BY <2>1, <2>2, <2>3, RelinkIInv
  <1>10. ASSUME NEW n \in live, NEW m \in live, cmark_node_replace(n, m)
         PROVE  IInv'
    <2> DEFINE ok == S_can_contain(tree.parent[n], m, type[m])
    <2>1. n # m /\ Relink(ok, Unlinked(InsertedBefore(tree, n, m), n))
      BY <1>10 DEF cmark_node_replace
    <2>2. ok => Good(InsertedBefore(tree, n, m), live)
      BY <1>1, <1>3, <1>10, <2>1, CanContainMeans, InsertedBeforeGood
         DEF cmark_node_replace, Accepts
    <2>3. ok => Good(Unlinked(InsertedBefore(tree, n, m), n), live)
      BY <1>3, <2>2, UnlinkedGood
    <2>4. ok \in BOOLEAN
      BY DEF S_can_contain
    <2> HIDE DEF ok
    <2> QED BY <2>1, <2>3, <2>4, RelinkIInv
  <1>11. ASSUME NEW n \in live, NEW m \in live, cmark_node_prepend_child(n, m)
         PROVE  IInv'
    <2> DEFINE ok == S_can_contain(n, m, type[m])
    <2>1. Relink(ok, Prepended(tree, n, m))
      BY <1>11 DEF cmark_node_prepend_child
    <2>2. ok => Good(Prepended(tree, n, m), live)
      BY <1>1, <1>3, <1>11, CanContainMeans, PrependedGood
         DEF cmark_node_prepend_child, Accepts, Ptr
    <2>3. ok \in BOOLEAN
      BY DEF S_can_contain
    <2> HIDE DEF ok
    <2> QED BY <2>1, <2>2, <2>3, RelinkIInv
  <1>12. ASSUME NEW n \in live, NEW m \in live, cmark_node_append_child(n, m)
         PROVE  IInv'
    <2> DEFINE ok == S_can_contain(n, m, type[m])
    <2>1. Relink(ok, Appended(tree, n, m))
      BY <1>12 DEF cmark_node_append_child
    <2>2. ok => Good(Appended(tree, n, m), live)
      BY <1>1, <1>3, <1>12, CanContainMeans, AppendedGood
         DEF cmark_node_append_child, Accepts, Ptr
    <2>3. ok \in BOOLEAN
      BY DEF S_can_contain
    <2> HIDE DEF ok
    <2> QED BY <2>1, <2>2, <2>3, RelinkIInv
  <1>13. ASSUME NEW n \in live, NEW ty \in TypesUsed, cmark_node_set_type(n, ty)
         PROVE  IInv'
    <2> DEFINE ok == ty = type[n] \/ S_can_contain(tree.parent[n], n, ty)
    <2>1. /\ type' = [type EXCEPT ![n] = IF ok THEN ty ELSE type[n]]
          /\ ret' \in {0, 1} /\ live' = live /\ tree' = tree
          /\ enable_safety_checks' = enable_safety_checks
      BY <1>13 DEF cmark_node_set_type
    <2>2. type' \in [Nodes -> NodeTypes \union {"none"}]
      BY <1>1, <2>1
    <2> QED BY <1>1, <2>1, <2>2, IInvPrimeIsGood
  <1>14. CASE UNCHANGED vars
    BY <1>1, <1>14, IInvPrimeIsGood DEF vars
  <1> QED BY <1>4, <1>5, <1>6, <1>7, <1>8, <1>9, <1>10, <1>11, <1>12, <1>13,
             <1>14 DEF Next

LEMMA IInvAlways ==
    ASSUME ~SelfSibling
    PROVE  Spec => []IInv
  <1>1. Init => IInv
    BY InitIInv
  <1>2. IInv /\ [Next]_vars => IInv'
    BY NextIInv
  <1> QED BY <1>1, <1>2, PTL DEF Spec

\* For every set of nodes, assignment of allocators and set of types, and for
\* every sequence of calls by a client that keeps the contract of NodeTree and
\* inserts no node next to itself: the links stay consistent and acyclic, and
\* no pointer dangles (the operations of node.c).
THEOREM TreeSafe ==
    ASSUME ~SelfSibling
    PROVE  Spec => [](TypeOK /\ LinksOK /\ Acyclic /\ NoDangling)
  <1>1. IInv => TypeOK /\ LinksOK /\ Acyclic /\ NoDangling
    BY DEF IInv
  <1> QED BY <1>1, IInvAlways, PTL

-----------------------------------------------------------------------------
(* What the operations do to containment.                                  *)

\* A relinking operation asks p about the only child it gives a new parent.
LEMMA RelinkKeeps ==
    ASSUME IInv, NEW ok \in BOOLEAN, NEW t, Relink(ok, t), NEW p, NEW c,
           ok => /\ Accepts(p, c, type)
                 /\ \A m \in Nodes : \/ t.parent[m] \in {NULL, tree.parent[m]}
                                     \/ m = c /\ t.parent[m] = p
    PROVE  KeepsContainment
  <1>1. /\ type' = type
        /\ tree' = IF ok THEN t ELSE tree
    BY DEF Relink
  <1>2. CASE ok
    BY <1>1, <1>2 DEF KeepsContainment, Accepts
  <1>3. CASE ~ok
    BY <1>1, <1>3 DEF KeepsContainment
  <1> QED BY <1>2, <1>3

\* One step of the specification puts no child where it may not be, unless it
\* converts the parent.
LEMMA NextKeeps ==
    ASSUME ~SelfSibling, IInv, [Next]_vars
    PROVE  KeepsContainment
  <1> USE NodeTreeAssumption
  <1>1. /\ live \subseteq Nodes
        /\ type \in [Nodes -> NodeTypes \union {"none"}]
        /\ Good(tree, live)
    BY IInvIsGood
  <1>2. tree \in Trees /\ Shape(tree) /\ Untouched(tree, live)
    BY <1>1 DEF Good
  <1>3. \A n \in live : n \in Nodes /\ tree.parent[n] \in Ptr
    BY <1>1, <1>2 DEF Trees
  <1>4. CASE type' = type /\ tree' = tree
    BY <1>4 DEF KeepsContainment
  <1>5. ASSUME NEW b \in BOOLEAN, cmark_enable_safety_checks(b)
        PROVE  KeepsContainment
    BY <1>4, <1>5 DEF cmark_enable_safety_checks
  <1>6. ASSUME NEW n \in Nodes, NEW ty \in TypesUsed, cmark_node_new(n, ty)
        PROVE  KeepsContainment
    <2>1. n \notin live /\ tree' = tree /\ type' = [type EXCEPT ![n] = ty]
      BY <1>6 DEF cmark_node_new
    <2>2. tree.parent[n] = NULL
      BY <1>2, <2>1 DEF Untouched
    <2> QED BY <1>1, <2>1, <2>2 DEF KeepsContainment
  <1>7. ASSUME NEW n \in live, cmark_node_unlink(n) PROVE KeepsContainment
    <2>1. tree' = Unlinked(tree, n) /\ type' = type
      BY <1>7 DEF cmark_node_unlink
    <2>2. Moved(tree, tree', NULL, n)
      BY <1>1, <1>3, <2>1, UnlinkedGood
    <2> QED BY <2>1, <2>2 DEF KeepsContainment, Moved
  <1>8. ASSUME NEW n \in live, cmark_node_free(n) PROVE KeepsContainment
    <2> DEFINE S == Subtree(tree, n)
    <2>1. type' = [m \in Nodes |-> IF m \in S THEN "none" ELSE type[m]]
      BY <1>8 DEF cmark_node_free
    <2>2. \A m \in Nodes : tree'.parent[m] = IF m \in S THEN NULL
                                             ELSE tree.parent[m]
      <3> DEFINE v == tree'
      <3>1. S = Subtree(tree, n) /\ v = Freed(S_node_unlink(tree, n), S)
        BY <1>8 DEF cmark_node_free
      <3>2. NULL \notin Nodes /\ n \in Nodes /\ n \in live
        BY <1>3
      <3> HIDE DEF S, v
      <3>3. /\ v \in Trees /\ Shape(v) /\ Untouched(v, live \ S)
            /\ \A m \in Nodes : v.parent[m] = IF m \in S THEN NULL
                                              ELSE tree.parent[m]
        BY ONLY <1>2, <3>1, <3>2, FreedShape
      <3> QED BY <3>3 DEF v
    <2> HIDE DEF S
    <2>3. ASSUME NEW m \in Nodes, tree'.parent[m] # NULL
          PROVE  tree.parent[m] = tree'.parent[m] /\ type'[m] = type[m]
      BY <2>1, <2>2, <2>3
    <2> QED BY <2>3 DEF KeepsContainment
  <1>9. ASSUME NEW n \in live, NEW m \in live, cmark_node_insert_before(n, m)
        PROVE  KeepsContainment
    <2> DEFINE ok == S_can_contain(tree.parent[n], m, type[m])
    <2>1. n # m /\ Relink(ok, InsertedBefore(tree, n, m))
      BY <1>9 DEF cmark_node_insert_before
    <2>2. ok => /\ Accepts(tree.parent[n], m, type)
                /\ Moved(tree, InsertedBefore(tree, n, m), tree.parent[n], m)
      BY <1>1, <1>3, <1>9, <2>1, CanContainMeans, InsertedBeforeGood
         DEF cmark_node_insert_before, Accepts
    <2>3. ok \in BOOLEAN
      BY DEF S_can_contain
    <2> HIDE DEF ok
    <2> QED BY <2>1, <2>2, <2>3, RelinkKeeps DEF Moved
  <1>10. ASSUME NEW n \in live, NEW m \in live, cmark_node_insert_after(n, m)
         PROVE  KeepsContainment
    <2> DEFINE ok == S_can_contain(tree.parent[n], m, type[m])
    <2>1. n # m /\ Relink(ok, InsertedAfter(tree, n, m))
      BY <1>10 DEF cmark_node_insert_after
    <2>2. ok => /\ Accepts(tree.parent[n], m, type)
                /\ Moved(tree, InsertedAfter(tree, n, m), tree.parent[n], m)
      BY <1>1, <1>3, <1>10, <2>1, CanContainMeans, InsertedAfterGood
         DEF cmark_node_insert_after, Accepts
    <2>3. ok \in BOOLEAN
      BY DEF S_can_contain
    <2> HIDE DEF ok
    <2> QED BY <2>1, <2>2, <2>3, RelinkKeeps DEF Moved
  <1>11. ASSUME NEW n \in live, NEW m \in live, cmark_node_replace(n, m)
         PROVE  KeepsContainment
    <2> DEFINE ok == S_can_contain(tree.parent[n], m, type[m])
               w == InsertedBefore(tree, n, m)
    <2>1. n # m /\ Relink(ok, Unlinked(w, n))
      BY <1>11 DEF cmark_node_replace
    <2>2. ok => /\ Accepts(tree.parent[n], m, type)
                /\ Good(w, live) /\ Moved(tree, w, tree.parent[n], m)
      BY <1>1, <1>3, <1>11, <2>1, CanContainMeans, InsertedBeforeGood
         DEF cmark_node_replace, Accepts
    <2>3. ok \in BOOLEAN
      BY DEF S_can_contain
    <2> HIDE DEF ok, w
    <2>4. ok => Moved(w, Unlinked(w, n), NULL, n)
      BY <1>3, <2>2, UnlinkedGood
    <2>5. ok => \A k \in Nodes :
                  \/ Unlinked(w, n).parent[k] \in {NULL, tree.parent[k]}
                  \/ k = m /\ Unlinked(w, n).parent[k] = tree.parent[n]
      BY <2>2, <2>4 DEF Moved
    <2> QED BY <2>1, <2>2, <2>3, <2>5, RelinkKeeps
  <1>12. ASSUME NEW n \in live, NEW m \in live, cmark_node_prepend_child(n, m)
         PROVE  KeepsContainment
    <2> DEFINE ok == S_can_contain(n, m, type[m])
    <2>1. Relink(ok, Prepended(tree, n, m))
      BY <1>12 DEF cmark_node_prepend_child
    <2>2. ok => Accepts(n, m, type) /\ Moved(tree, Prepended(tree, n, m), n, m)
      BY <1>1, <1>3, <1>12, CanContainMeans, PrependedGood
         DEF cmark_node_prepend_child, Accepts, Ptr
    <2>3. ok \in BOOLEAN
      BY DEF S_can_contain
    <2> HIDE DEF ok
    <2> QED BY <2>1, <2>2, <2>3, RelinkKeeps DEF Moved
  <1>13. ASSUME NEW n \in live, NEW m \in live, cmark_node_append_child(n, m)
         PROVE  KeepsContainment
    <2> DEFINE ok == S_can_contain(n, m, type[m])
    <2>1. Relink(ok, Appended(tree, n, m))
      BY <1>13 DEF cmark_node_append_child
    <2>2. ok => Accepts(n, m, type) /\ Moved(tree, Appended(tree, n, m), n, m)
      BY <1>1, <1>3, <1>13, CanContainMeans, AppendedGood
         DEF cmark_node_append_child, Accepts, Ptr
    <2>3. ok \in BOOLEAN
      BY DEF S_can_contain
    <2> HIDE DEF ok
    <2> QED BY <2>1, <2>2, <2>3, RelinkKeeps DEF Moved
  <1>14. ASSUME NEW n \in live, NEW ty \in TypesUsed, cmark_node_set_type(n, ty)
         PROVE  KeepsContainment
    <2> DEFINE p == tree.parent[n]
               ok == ty = type[n] \/ S_can_contain(p, n, ty)
    <2>1. type' = [type EXCEPT ![n] = IF ok THEN ty ELSE type[n]] /\ tree' = tree
      BY <1>14 DEF cmark_node_set_type
    <2>2. p # n
      <3>1. {n} \in SUBSET Nodes /\ {n} # {}
        BY <1>3
      <3> QED BY <1>2, <3>1 DEF Shape, WellFounded
    <2>3. ok /\ ty # type[n] => cmark_node_can_contain_type(type[p], ty)
      BY DEF S_can_contain
    <2> HIDE DEF ok
    <2>4. ASSUME NEW m \in Nodes, p # NULL, m = n, type'[n] # type[n]
          PROVE  MayHold(type', p, m)
      <3>1. ok /\ ty # type[n] /\ type'[n] = ty
        BY <1>1, <1>3, <2>1, <2>4
      <3>2. p \in Nodes /\ type'[p] = type[p]
        BY <1>1, <1>3, <2>1, <2>2, <2>4 DEF Ptr
      <3> QED BY <2>3, <2>4, <3>1, <3>2 DEF MayHold
    <2>5. \A m \in Nodes : m # n => type'[m] = type[m]
      BY <1>1, <2>1
    <2> QED BY <2>1, <2>4, <2>5 DEF KeepsContainment
  <1>15. CASE UNCHANGED vars
    BY <1>4, <1>15 DEF vars
  <1> QED BY <1>5, <1>6, <1>7, <1>8, <1>9, <1>10, <1>11, <1>12, <1>13, <1>14,
             <1>15 DEF Next

\* For the same calls, whether safety checks are on or off, for every set of
\* types: a parent and its children are of one allocator, and a child that its
\* parent may not hold, as the parent was converted over it, was there and was
\* of its type before (S_can_contain, cmark_node_set_type).
THEOREM ContainmentSafe ==
    ASSUME ~SelfSibling
    PROVE  Spec => ContainmentKept
  <1>1. Init => IInv
    BY InitIInv
  <1>2. IInv /\ [Next]_vars => IInv'
    BY NextIInv
  <1>3. IInv => OneAllocator
    BY DEF IInv
  <1>4. IInv /\ [Next]_vars => [KeepsContainment]_vars
    BY NextKeeps
  <1> QED BY <1>1, <1>2, <1>3, <1>4, PTL DEF Spec, ContainmentKept

\* Only nodes without children are converted, as in the two calls of
\* cmark_node_set_type that the extensions make.
ConvertsLeaves ==
    \A n \in live : n \in live' /\ type'[n] # type[n] =>
        \A m \in Nodes : tree.parent[m] # n

\* A client that converts only nodes without children has every child where its
\* type may be, however often nodes are moved and converted: what the table and
\* strikethrough extensions need of cmark_node_set_type.
THEOREM LeavesKeepContainment ==
    ASSUME ~SelfSibling
    PROVE  Spec /\ [][ConvertsLeaves]_vars => []ContainmentOK
  <1>1. Init => IInv /\ ContainmentOK
    <2>1. Init => \A m \in Nodes : tree.parent[m] = NULL
      BY DEF Init
    <2> QED BY <2>1, InitIInv DEF ContainmentOK
  <1>2. IInv /\ [Next]_vars => IInv'
    BY NextIInv
  <1>3. ASSUME IInv, IInv', ContainmentOK, [Next]_vars, [ConvertsLeaves]_vars
        PROVE  ContainmentOK'
    <2> SUFFICES ASSUME NEW m \in Nodes, tree'.parent[m] # NULL,
                        ~MayHold(type', tree'.parent[m], m)
                 PROVE  FALSE
      BY DEF ContainmentOK, MayHold
    <2> DEFINE p == tree'.parent[m]
    <2>1. tree.parent[m] = p /\ type'[m] = type[m]
      BY <1>3, NextKeeps DEF KeepsContainment
    <2>2. p \in live /\ p \in live'
      <3>1. /\ Good(tree, live) /\ Good(tree', live')
        BY <1>3, IInvIsGood, IInvPrimeIsGood
      <3> QED BY <2>1, <3>1 DEF Good, Untouched, Trees, Ptr
    <2>3. type'[p] # type[p]
      BY <1>3, <2>1 DEF ContainmentOK, MayHold
    <2>4. ConvertsLeaves
      BY <1>3, <2>3 DEF vars
    <2> QED BY <2>1, <2>2, <2>3, <2>4 DEF ConvertsLeaves
  <1> QED BY <1>1, <1>2, <1>3, PTL DEF Spec


-----------------------------------------------------------------------------
(* Sequences.                                                              *)

\* q without its i-th element.
Dropped(q, i) == [j \in 1 .. Len(q) - 1 |-> IF j < i THEN q[j] ELSE q[j + 1]]

\* q with e as its i-th element.
Inserted(q, i, e) ==
    [j \in 1 .. Len(q) + 1 |->
        IF j < i THEN q[j] ELSE IF j = i THEN e ELSE q[j - 1]]

\* A function on 1 .. n is a sequence of length n.
LEMMA FunctionIsSeq ==
    ASSUME NEW S, NEW n \in Nat, NEW f \in [1 .. n -> S]
    PROVE  f \in Seq(S) /\ Len(f) = n
  <1>1. f \in Seq(S)
    BY SeqDef
  <1> QED BY <1>1, LenProperties

\* Its length and its elements.
LEMMA DroppedIsSeq ==
    ASSUME NEW S, NEW q \in Seq(S), NEW i \in 1 .. Len(q)
    PROVE  /\ Dropped(q, i) \in Seq(S) /\ Len(Dropped(q, i)) = Len(q) - 1
           /\ \A j \in 1 .. Len(q) - 1 :
                Dropped(q, i)[j] = IF j < i THEN q[j] ELSE q[j + 1]
  <1>1. Len(q) \in Nat /\ q \in [1 .. Len(q) -> S]
    BY LenProperties
  <1>2. Dropped(q, i) \in [1 .. Len(q) - 1 -> S] /\ Len(q) - 1 \in Nat
    BY <1>1 DEF Dropped
  <1> QED BY <1>2, FunctionIsSeq DEF Dropped

\* Its length and its elements.
LEMMA InsertedIsSeq ==
    ASSUME NEW S, NEW q \in Seq(S), NEW i \in 1 .. Len(q) + 1, NEW e \in S
    PROVE  /\ Inserted(q, i, e) \in Seq(S) /\ Len(Inserted(q, i, e)) = Len(q) + 1
           /\ \A j \in 1 .. Len(q) + 1 :
                Inserted(q, i, e)[j] = IF j < i THEN q[j]
                                       ELSE IF j = i THEN e ELSE q[j - 1]
  <1>1. Len(q) \in Nat /\ q \in [1 .. Len(q) -> S]
    BY LenProperties
  <1>2. Inserted(q, i, e) \in [1 .. Len(q) + 1 -> S] /\ Len(q) + 1 \in Nat
    BY <1>1 DEF Inserted
  <1> QED BY <1>2, FunctionIsSeq DEF Inserted

\* SubSeq of a sequence of S from m to n, as SubSeqProperties has it.
LEMMA Slice ==
    ASSUME NEW S, NEW q \in Seq(S), NEW m \in 1 .. Len(q) + 1, NEW n \in 0 .. Len(q)
    PROVE  /\ SubSeq(q, m, n) \in Seq(S)
           /\ Len(SubSeq(q, m, n)) = IF m <= n THEN n - m + 1 ELSE 0
           /\ \A j \in 1 .. n - m + 1 : SubSeq(q, m, n)[j] = q[m + j - 1]
  <1>1. Len(q) \in Nat /\ q \in [1 .. Len(q) -> S]
    BY LenProperties
  <1>2. m \in Int /\ n \in Int /\ \A j \in m .. n : q[j] \in S
    BY <1>1
  <1> QED BY ONLY <1>2, SubSeqProperties

\* RemoveAt, element by element.
LEMMA RemoveAtIsDropped ==
    ASSUME NEW S, NEW q \in Seq(S), NEW i \in 1 .. Len(q)
    PROVE  RemoveAt(q, i) = Dropped(q, i)
  <1> DEFINE a == SubSeq(q, 1, i - 1)
             b == SubSeq(q, i + 1, Len(q))
             c == a \o b
  <1>1. Len(q) \in Nat
    BY LenProperties
  <1>2. /\ a \in Seq(S) /\ Len(a) = i - 1
        /\ \A j \in 1 .. i - 1 : a[j] = q[j]
    <2>1. 1 \in 1 .. Len(q) + 1 /\ i - 1 \in 0 .. Len(q)
      BY <1>1
    <2>2. /\ a \in Seq(S) /\ Len(a) = IF 1 <= i - 1 THEN i - 1 - 1 + 1 ELSE 0
          /\ \A j \in 1 .. i - 1 - 1 + 1 : a[j] = q[1 + j - 1]
      BY ONLY <2>1, Slice, q \in Seq(S)
    <2> HIDE DEF a
    <2> QED BY <2>2, <1>1
  <1>3. /\ b \in Seq(S) /\ Len(b) = Len(q) - i
        /\ \A j \in 1 .. Len(q) - i : b[j] = q[i + j]
    <2>1. i + 1 \in 1 .. Len(q) + 1 /\ Len(q) \in 0 .. Len(q)
      BY <1>1
    <2>2. /\ b \in Seq(S)
          /\ Len(b) = IF i + 1 <= Len(q) THEN Len(q) - (i + 1) + 1 ELSE 0
          /\ \A j \in 1 .. Len(q) - (i + 1) + 1 : b[j] = q[i + 1 + j - 1]
      BY ONLY <2>1, Slice, q \in Seq(S)
    <2> HIDE DEF b
    <2> QED BY <2>2, <1>1
  <1> HIDE DEF a, b
  <1>4. /\ c \in Seq(S) /\ Len(c) = Len(a) + Len(b)
        /\ \A j \in 1 .. Len(a) + Len(b) :
             c[j] = IF j <= Len(a) THEN a[j] ELSE b[j - Len(a)]
    BY ONLY <1>2, <1>3, ConcatProperties
  <1>5. c = RemoveAt(q, i)
    BY DEF RemoveAt, a, b
  <1> HIDE DEF c
  <1>6. Len(c) = Len(q) - 1
    BY <1>1, <1>2, <1>3, <1>4
  <1>7. ASSUME NEW j \in 1 .. Len(c) PROVE c[j] = Dropped(q, i)[j]
    <2>1. Dropped(q, i)[j] = IF j < i THEN q[j] ELSE q[j + 1]
      BY <1>6, <1>7, DroppedIsSeq
    <2>2. CASE j < i
      BY <1>1, <1>2, <1>3, <1>4, <1>6, <2>1, <2>2
    <2>3. CASE ~(j < i)
      <3>1. c[j] = b[j - (i - 1)]
        BY <1>1, <1>2, <1>3, <1>4, <1>6, <2>3
      <3>2. j - (i - 1) \in 1 .. Len(q) - i /\ i + (j - (i - 1)) = j + 1
        BY <1>1, <1>6, <2>3
      <3>3. b[j - (i - 1)] = q[i + (j - (i - 1))]
        BY <1>3, <3>2
      <3> QED BY <2>1, <2>3, <3>1, <3>2, <3>3
    <2> QED BY <2>2, <2>3
  <1>8. Dropped(q, i) \in Seq(S) /\ Len(Dropped(q, i)) = Len(c)
    BY <1>6, DroppedIsSeq
  <1>9. c = Dropped(q, i)
    BY ONLY <1>4, <1>7, <1>8, SeqEqual
  <1> QED BY <1>5, <1>9

\* RemoveFirst of an element that occurs once.
LEMMA RemoveFirstIsDropped ==
    ASSUME NEW S, NEW q \in Seq(S), NEW i \in 1 .. Len(q),
           \A j \in 1 .. Len(q) : q[j] = q[i] => j = i
    PROVE  RemoveFirst(q, q[i]) = Dropped(q, i)
  <1> DEFINE I == {j \in 1 .. Len(q) : q[j] = q[i]}
  <1>1. I = {i}
    OBVIOUS
  <1>2. Min({i}) = i
    BY DEF Min
  <1>3. SelectInSeq(q, LAMBDA v : v = q[i]) = i
    BY <1>1, <1>2 DEF SelectInSeq
  <1>4. RemoveFirst(q, q[i]) = RemoveAt(q, i)
    BY <1>3 DEF RemoveFirst
  <1> QED BY <1>4, RemoveAtIsDropped

\* RemoveFirst of what does not occur.
LEMMA RemoveFirstOfNone ==
    ASSUME NEW q, NEW e, \A j \in 1 .. Len(q) : q[j] # e
    PROVE  RemoveFirst(q, e) = q
  BY DEF RemoveFirst

\* InsertAt, element by element.
LEMMA InsertAtIsInserted ==
    ASSUME NEW S, NEW q \in Seq(S), NEW i \in 1 .. Len(q) + 1, NEW e \in S
    PROVE  InsertAt(q, i, e) = Inserted(q, i, e)
  <1> DEFINE a == SubSeq(q, 1, i - 1)
             b == SubSeq(q, i, Len(q))
             ae == a \o << e >>
             c == ae \o b
  <1>1. Len(q) \in Nat
    BY LenProperties
  <1>2. /\ a \in Seq(S) /\ Len(a) = i - 1
        /\ \A j \in 1 .. i - 1 : a[j] = q[j]
    <2>1. 1 \in 1 .. Len(q) + 1 /\ i - 1 \in 0 .. Len(q)
      BY <1>1
    <2>2. /\ a \in Seq(S) /\ Len(a) = IF 1 <= i - 1 THEN i - 1 - 1 + 1 ELSE 0
          /\ \A j \in 1 .. i - 1 - 1 + 1 : a[j] = q[1 + j - 1]
      BY ONLY <2>1, Slice, q \in Seq(S)
    <2> HIDE DEF a
    <2> QED BY <2>2, <1>1
  <1>3. /\ b \in Seq(S) /\ Len(b) = Len(q) - i + 1
        /\ \A j \in 1 .. Len(q) - i + 1 : b[j] = q[i + j - 1]
    <2>1. i \in 1 .. Len(q) + 1 /\ Len(q) \in 0 .. Len(q)
      BY <1>1
    <2>2. /\ b \in Seq(S) /\ Len(b) = IF i <= Len(q) THEN Len(q) - i + 1 ELSE 0
          /\ \A j \in 1 .. Len(q) - i + 1 : b[j] = q[i + j - 1]
      BY ONLY <2>1, Slice, q \in Seq(S)
    <2> HIDE DEF b
    <2> QED BY <2>2, <1>1
  <1> HIDE DEF a, b
  <1>4. /\ ae \in Seq(S) /\ Len(ae) = i
        /\ \A j \in 1 .. i : ae[j] = IF j < i THEN q[j] ELSE e
    <2>1. << e >> \in Seq(S) /\ Len(<< e >>) = 1 /\ << e >>[1] = e
      OBVIOUS
    <2> DEFINE s == << e >>
    <2> HIDE DEF s
    <2>2. /\ a \o s \in Seq(S) /\ Len(a \o s) = Len(a) + Len(s)
          /\ \A j \in 1 .. Len(a) + Len(s) :
               (a \o s)[j] = IF j <= Len(a) THEN a[j] ELSE s[j - Len(a)]
      BY ONLY <1>2, <2>1, ConcatProperties DEF s
    <2> DEFINE z == a \o s
    <2>3. z = ae
      BY DEF s
    <2>4. s[1] = e /\ Len(s) = 1
      BY <2>1 DEF s
    <2>5. /\ z \in Seq(S) /\ Len(z) = Len(a) + Len(s)
          /\ \A j \in 1 .. Len(a) + Len(s) :
               z[j] = IF j <= Len(a) THEN a[j] ELSE s[j - Len(a)]
      BY <2>2
    <2> HIDE DEF z, ae
    <2>6. z \in Seq(S) /\ Len(z) = i
      BY ONLY <1>1, <1>2, <2>4, <2>5, i \in 1 .. Len(q) + 1
    <2>7. \A j \in 1 .. i : z[j] = IF j < i THEN q[j] ELSE e
      BY ONLY <1>1, <1>2, <2>4, <2>5, i \in 1 .. Len(q) + 1
    <2> QED BY ONLY <2>3, <2>6, <2>7
  <1> HIDE DEF ae
  <1>5. /\ c \in Seq(S) /\ Len(c) = Len(ae) + Len(b)
        /\ \A j \in 1 .. Len(ae) + Len(b) :
             c[j] = IF j <= Len(ae) THEN ae[j] ELSE b[j - Len(ae)]
    BY ONLY <1>3, <1>4, ConcatProperties
  <1>6. c = InsertAt(q, i, e)
    BY DEF InsertAt, ae, a, b
  <1> HIDE DEF c
  <1>7. Len(c) = Len(q) + 1
    BY <1>1, <1>3, <1>4, <1>5
  <1>8. ASSUME NEW j \in 1 .. Len(c) PROVE c[j] = Inserted(q, i, e)[j]
    <2>1. Inserted(q, i, e)[j] = IF j < i THEN q[j]
                                 ELSE IF j = i THEN e ELSE q[j - 1]
      BY <1>7, <1>8, InsertedIsSeq
    <2>2. CASE j <= i
      BY <1>1, <1>3, <1>4, <1>5, <1>7, <2>1, <2>2
    <2>3. CASE ~(j <= i)
      <3>1. c[j] = b[j - i]
        BY <1>1, <1>3, <1>4, <1>5, <1>7, <2>3
      <3>2. j - i \in 1 .. Len(q) - i + 1 /\ i + (j - i) - 1 = j - 1
        BY <1>1, <1>7, <2>3
      <3>3. b[j - i] = q[i + (j - i) - 1]
        BY <1>3, <3>2
      <3> QED BY <2>1, <2>3, <3>1, <3>2, <3>3
    <2> QED BY <2>2, <2>3
  <1>9. Inserted(q, i, e) \in Seq(S) /\ Len(Inserted(q, i, e)) = Len(c)
    BY <1>7, InsertedIsSeq
  <1>10. c = Inserted(q, i, e)
    BY ONLY <1>5, <1>8, <1>9, SeqEqual
  <1> QED BY <1>6, <1>10

\* Every nonempty set of numbers has a least one.
LEMMA LeastNat ==
    ASSUME NEW S \in SUBSET Nat, S # {}
    PROVE  \E m \in S : \A k \in S : m <= k
  <1> DEFINE R == {ss \in Nat \X Nat : ss[1] < ss[2]}
  <1>1. IsWellFoundedOn(R, Nat)
    BY NatLessThanWellFounded DEF OpToRel
  <1>2. \E x \in S : \A y \in S : ~ (<<y, x>> \in R)
    <2> HIDE DEF R
    <2> QED BY <1>1, WFMin
  <1>3. \A x, y \in S : <<y, x>> \in R <=> y < x
    OBVIOUS
  <1> HIDE DEF R
  <1>4. PICK x \in S : \A y \in S : ~(y < x)
    BY <1>2, <1>3
  <1> QED BY <1>4

-----------------------------------------------------------------------------
(* The children of a node as a sequence.                                   *)

\* The nodes whose parent is p.
Kids(t, p) == {m \in Nodes : t.parent[m] = p}

\* q lists the children of p in t, each once, in the order of next.
IsList(t, p, q) ==
    /\ q \in Seq(Nodes)
    /\ \A i \in 1 .. Len(q) : t.parent[q[i]] = p
    /\ \A m \in Nodes : t.parent[m] = p => \E i \in 1 .. Len(q) : q[i] = m
    /\ \A i, j \in 1 .. Len(q) : q[i] = q[j] => i = j
    /\ t.first_child[p] = IF Len(q) = 0 THEN NULL ELSE q[1]
    /\ \A i \in 1 .. Len(q) : t.next[q[i]] = IF i < Len(q) THEN q[i + 1] ELSE NULL

HasLists(t) == \A p \in Nodes : \E q : IsList(t, p, q)

\* The list has as many elements as p has children.
LEMMA ListCounts ==
    ASSUME NEW t, NEW p \in Nodes, NEW q, IsList(t, p, q)
    PROVE  Cardinality(Kids(t, p)) = Len(q)
  <1>1. Len(q) \in Nat /\ q \in [1 .. Len(q) -> Nodes]
    BY LenProperties DEF IsList
  <1>2. \A i \in 1 .. Len(q) : q[i] \in Kids(t, p)
    BY <1>1 DEF IsList, Kids
  <1>3. q \in [1 .. Len(q) -> Kids(t, p)]
    BY <1>1, <1>2
  <1>4. \A m \in Kids(t, p) : \E i \in 1 .. Len(q) : q[i] = m
    BY DEF IsList, Kids
  <1>5. \A i, j \in 1 .. Len(q) : q[i] = q[j] => i = j
    BY DEF IsList
  <1>6. q \in Bijection(1 .. Len(q), Kids(t, p))
    BY <1>3, <1>4, <1>5 DEF Bijection, Injection, Surjection, IsInjective
  <1>7. ExistsBijection(1 .. Len(q), Kids(t, p))
    BY <1>6 DEF ExistsBijection
  <1>8. IsFiniteSet(1 .. Len(q)) /\ Cardinality(1 .. Len(q)) = Len(q)
    BY <1>1, FS_Interval
  <1> QED BY <1>7, <1>8, FS_Bijection

\* Two sequences of one length that follow the same pointers are equal.
LEMMA OneList ==
    ASSUME NULL \notin Nodes, NEW t, NEW p \in Nodes, NEW q, IsList(t, p, q),
           NEW r \in [1 .. Len(q) -> Kids(t, p)], Lists(t, p, Kids(t, p), r)
    PROVE  r = q
  <1>1. Len(q) \in Nat /\ q \in [1 .. Len(q) -> Nodes]
    BY LenProperties DEF IsList
  <1>2. DOMAIN r = 1 .. Len(q)
    OBVIOUS
  <1>3. /\ t.first_child[p] = IF Kids(t, p) = {} THEN NULL ELSE r[1]
        /\ \A i \in 1 .. Len(q) :
             t.next[r[i]] = IF i + 1 \in 1 .. Len(q) THEN r[i + 1] ELSE NULL
    BY <1>2 DEF Lists
  <1>4. /\ t.first_child[p] = IF Len(q) = 0 THEN NULL ELSE q[1]
        /\ \A i \in 1 .. Len(q) : t.next[q[i]] = IF i < Len(q) THEN q[i + 1] ELSE NULL
    BY DEF IsList
  <1> DEFINE D == {k \in 1 .. Len(q) : r[k] # q[k]}
  <1>5. D = {}
    <2> SUFFICES ASSUME D # {} PROVE FALSE
      OBVIOUS
    <2>1. D \in SUBSET Nat
      OBVIOUS
    <2>2. PICK k \in D : \A j \in D : k <= j
      <3> HIDE DEF D
      <3> QED BY <2>1, LeastNat
    <2>3. k \in 1 .. Len(q) /\ r[k] # q[k]
      OBVIOUS
    <2>4. CASE k = 1
      <3>1. r[1] \in Kids(t, p)
        BY <2>3, <2>4
      <3> QED BY <1>1, <1>3, <1>4, <2>3, <2>4, <3>1
    <2>5. CASE k # 1
      <3>1. k - 1 \in 1 .. Len(q) /\ k - 1 + 1 = k /\ ~(k <= k - 1)
        BY <1>1, <2>3, <2>5
      <3>2. r[k - 1] = q[k - 1]
        BY <2>2, <3>1
      <3>3. t.next[r[k - 1]] = r[k]
        BY <1>3, <2>3, <3>1
      <3>4. t.next[q[k - 1]] = q[k]
        BY <1>1, <1>4, <2>3, <3>1
      <3> QED BY <2>3, <3>2, <3>3, <3>4
    <2> QED BY <2>4, <2>5
  <1>6. \A k \in 1 .. Len(q) : r[k] = q[k]
    BY <1>5
  <1> QED BY <1>1, <1>6

\* A node with a list of children has no other: the list is its ChildSeq.
LEMMA ChildSeqIs ==
    ASSUME NULL \notin Nodes, NEW t, NEW p \in Nodes, NEW q, IsList(t, p, q)
    PROVE  ChildSeq(t, p) = q
  <1> DEFINE lists == {r \in [1 .. Cardinality(Kids(t, p)) -> Kids(t, p)] :
                          Lists(t, p, Kids(t, p), r)}
  <1>1. Cardinality(Kids(t, p)) = Len(q)
    BY ListCounts
  <1>2. Len(q) \in Nat /\ q \in [1 .. Len(q) -> Nodes]
    BY LenProperties DEF IsList
  <1>3. q \in [1 .. Len(q) -> Kids(t, p)]
    BY <1>2 DEF IsList, Kids
  <1>4. Lists(t, p, Kids(t, p), q)
    <2>1. Kids(t, p) = {} <=> Len(q) = 0
      <3>1. Len(q) # 0 => q[1] \in Kids(t, p)
        BY <1>2, <1>3
      <3>2. \A m \in Kids(t, p) : \E i \in 1 .. Len(q) : q[i] = m
        BY DEF IsList, Kids
      <3> QED BY <1>2, <3>1, <3>2
    <2>2. DOMAIN q = 1 .. Len(q)
      BY <1>2
    <2>3. \A i \in 1 .. Len(q) : i + 1 \in 1 .. Len(q) <=> i < Len(q)
      BY <1>2
    <2>4. \A i \in DOMAIN q :
             t.next[q[i]] = IF i + 1 \in DOMAIN q THEN q[i + 1] ELSE NULL
      BY <2>2, <2>3 DEF IsList
    <2>5. t.first_child[p] = IF Kids(t, p) = {} THEN NULL ELSE q[1]
      BY <2>1 DEF IsList
    <2> QED BY <2>4, <2>5 DEF Lists
  <1>5. q \in lists
    BY <1>1, <1>3, <1>4
  <1>6. \A r \in lists : r = q
    BY <1>1, OneList
  <1>7. ChildSeq(t, p) = IF lists = {} THEN << >> ELSE CHOOSE r \in lists : TRUE
    BY DEF ChildSeq, Kids
  <1> HIDE DEF lists
  <1> QED BY <1>5, <1>6, <1>7

\* ChildSeq lists the children of a node.
LEMMA ChildSeqLists ==
    ASSUME NULL \notin Nodes, NEW t, HasLists(t), NEW p \in Nodes
    PROVE  IsList(t, p, ChildSeq(t, p))
  BY ChildSeqIs DEF HasLists

-----------------------------------------------------------------------------
(* What the surgery does to the lists.                                     *)

\* cmark_node_unlink: the list that holds n loses it.
LEMMA UnlinkedOwnList ==
    ASSUME NULL \notin Nodes, NEW t \in Trees, Links(t), NEW n \in Nodes,
           NEW p \in Nodes, NEW q, IsList(t, p, q),
           NEW i \in 1 .. Len(q), q[i] = n,
           NEW u, u = Unlinked(t, n)
    PROVE  IsList(u, p, Dropped(q, i))
  <1> DEFINE L == Len(q)
             r == Dropped(q, i)
  <1>1. L \in Nat /\ \A j \in 1 .. L : q[j] \in Nodes
    BY LenProperties, ElementOfSeq DEF IsList
  <1>2. /\ \A j \in 1 .. L : t.parent[q[j]] = p
        /\ \A m \in Nodes : t.parent[m] = p => \E j \in 1 .. L : q[j] = m
        /\ \A j, k \in 1 .. L : q[j] = q[k] => j = k
        /\ t.first_child[p] = IF L = 0 THEN NULL ELSE q[1]
        /\ \A j \in 1 .. L : t.next[q[j]] = IF j < L THEN q[j + 1] ELSE NULL
    BY DEF IsList
  <1>3. /\ r \in Seq(Nodes) /\ Len(r) = L - 1
        /\ \A j \in 1 .. L - 1 : r[j] = IF j < i THEN q[j] ELSE q[j + 1]
    BY DroppedIsSeq DEF IsList
  <1>4. \A m \in Nodes :
          /\ u.next[m] = IF m = n THEN NULL
                         ELSE IF m = t.prev[n] THEN t.next[n] ELSE t.next[m]
          /\ u.parent[m] = IF m = n THEN NULL ELSE t.parent[m]
          /\ u.first_child[m] = IF m = t.parent[n] /\ t.first_child[m] = n
                                THEN t.next[n] ELSE t.first_child[m]
    BY UnlinkedFields
  <1>5. \A m \in Nodes : m = t.prev[n] <=> t.next[m] = n
    BY DEF Links, SiblingLinks
  <1>6. i \in 1 .. L /\ q[i] = n /\ t.parent[n] = p
    BY <1>2
  <1> HIDE DEF L, r
  <1>7. ASSUME NEW j \in 1 .. L - 1
        PROVE  r[j] \in Nodes /\ r[j] # n /\ t.parent[r[j]] = p
    <2>1. CASE j < i
      <3>1. r[j] = q[j] /\ j \in 1 .. L /\ j # i
        BY <1>1, <1>3, <1>6, <2>1
      <3> QED BY <1>1, <1>2, <1>6, <3>1
    <2>2. CASE ~(j < i)
      <3>1. r[j] = q[j + 1] /\ j + 1 \in 1 .. L /\ j + 1 # i
        BY <1>1, <1>3, <1>6, <2>2
      <3> QED BY <1>1, <1>2, <1>6, <3>1
    <2> QED BY <2>1, <2>2
  <1>8. \A j \in 1 .. L - 1 : u.parent[r[j]] = p
    BY <1>4, <1>7
  <1>9. ASSUME NEW m \in Nodes, u.parent[m] = p
        PROVE  \E j \in 1 .. L - 1 : r[j] = m
    <2>1. m # n /\ t.parent[m] = p
      BY <1>4, <1>9
    <2>2. PICK k \in 1 .. L : q[k] = m
      BY <1>2, <2>1
    <2>3. CASE k < i
      <3>1. k \in 1 .. L - 1 /\ r[k] = m
        BY <1>1, <1>3, <1>6, <2>2, <2>3
      <3> QED BY <3>1
    <2>4. CASE ~(k < i)
      <3>1. k # i
        BY <1>6, <2>1, <2>2
      <3>2. k - 1 \in 1 .. L - 1 /\ ~(k - 1 < i) /\ k - 1 + 1 = k
        BY <1>1, <1>6, <2>4, <3>1
      <3>3. r[k - 1] = m
        BY <1>3, <2>2, <3>2
      <3> QED BY <3>2, <3>3
    <2> QED BY <2>3, <2>4
  <1>10. \A j, k \in 1 .. L - 1 : r[j] = r[k] => j = k
    BY <1>1, <1>2, <1>3, <1>6
  <1>11. u.first_child[p] = IF L - 1 = 0 THEN NULL ELSE r[1]
    <2>1. CASE i = 1
      <3>1. t.first_child[p] = n
        BY <1>1, <1>2, <1>6, <2>1
      <3>2. u.first_child[p] = t.next[n]
        BY <1>4, <1>6, <3>1
      <3>3. t.next[n] = IF 1 < L THEN q[2] ELSE NULL
        BY <1>2, <1>6, <2>1
      <3>4. L - 1 # 0 => r[1] = q[2]
        BY <1>1, <1>3, <1>6, <2>1
      <3> QED BY <1>1, <1>6, <3>2, <3>3, <3>4
    <2>2. CASE i # 1
      <3>1. 1 < i /\ 1 < L
        BY <1>1, <1>6, <2>2
      <3>2. q[1] # n
        BY <1>1, <1>2, <1>6, <3>1
      <3>3. t.first_child[p] = q[1]
        BY <1>1, <1>2, <3>1
      <3>4. r[1] = q[1]
        BY <1>1, <1>3, <3>1
      <3>5. L - 1 # 0
        BY <1>1, <3>1
      <3> QED BY <1>4, <3>2, <3>3, <3>4, <3>5
    <2> QED BY <2>1, <2>2
  <1>12. ASSUME NEW j \in 1 .. L - 1
         PROVE  u.next[r[j]] = IF j < L - 1 THEN r[j + 1] ELSE NULL
    <2>1. j \in 1 .. L /\ j + 1 \in 1 .. L /\ j < L /\ j \in Int
      BY <1>1
    <2>2. CASE j < i
      <3>1. r[j] = q[j] /\ q[j] \in Nodes /\ q[j] # n
        BY <1>3, <1>7, <2>2
      <3>2. t.next[q[j]] = q[j + 1]
        BY <1>2, <2>1
      <3>3. CASE j + 1 = i
        <4>1. u.next[r[j]] = t.next[n]
          BY <1>4, <1>5, <1>6, <3>1, <3>2, <3>3
        <4>2. t.next[n] = IF i < L THEN q[i + 1] ELSE NULL
          BY <1>2, <1>6
        <4>3. j < L - 1 => r[j + 1] = q[i + 1]
          BY <1>1, <1>3, <3>3
        <4>4. j < L - 1 <=> i < L
          BY <1>1, <3>3
        <4> QED BY <4>1, <4>2, <4>3, <4>4
      <3>4. CASE j + 1 # i
        <4>1. q[j + 1] # n
          BY <1>2, <1>6, <2>1, <3>4
        <4>2. u.next[r[j]] = q[j + 1]
          BY <1>4, <1>5, <3>1, <3>2, <4>1
        <4>3. j + 1 < i /\ j + 1 \in 1 .. L - 1 /\ j < L - 1
          BY <1>1, <1>6, <2>2, <3>4
        <4>4. r[j + 1] = q[j + 1]
          BY <1>3, <4>3
        <4> QED BY <4>2, <4>3, <4>4
      <3> QED BY <3>3, <3>4
    <2>3. CASE ~(j < i)
      <3>1. r[j] = q[j + 1] /\ q[j + 1] \in Nodes /\ q[j + 1] # n
        BY <1>3, <1>7, <2>3
      <3>2. t.next[q[j + 1]] = IF j + 1 < L THEN q[j + 1 + 1] ELSE NULL
        BY <1>2, <2>1
      <3>3. t.next[q[j + 1]] # n
        <4>1. CASE j + 1 < L
          <5>1. j + 1 + 1 \in 1 .. L /\ j + 1 + 1 # i
            BY <1>1, <1>6, <2>1, <2>3, <4>1
          <5> QED BY <1>2, <1>6, <3>2, <4>1, <5>1
        <4>2. CASE ~(j + 1 < L)
          BY <3>2, <4>2
        <4> QED BY <4>1, <4>2
      <3>4. u.next[r[j]] = t.next[q[j + 1]]
        BY <1>4, <1>5, <3>1, <3>3
      <3>5. j < L - 1 => r[j + 1] = q[j + 1 + 1]
        BY <1>1, <1>3, <1>6, <2>3
      <3>6. j < L - 1 <=> j + 1 < L
        BY <1>1
      <3> QED BY <3>2, <3>4, <3>5, <3>6
    <2> QED BY <2>2, <2>3
  <1>13. IsList(u, p, r)
    BY <1>3, <1>8, <1>9, <1>10, <1>11, <1>12 DEF IsList
  <1> QED BY <1>13 DEF r

\* cmark_node_unlink: the lists that do not hold n stay.
LEMMA UnlinkedOtherList ==
    ASSUME NULL \notin Nodes, NEW t \in Trees, Links(t), NEW n \in Nodes,
           NEW p \in Nodes, NEW q, IsList(t, p, q), t.parent[n] # p,
           NEW u, u = Unlinked(t, n)
    PROVE  IsList(u, p, q) /\ \A j \in 1 .. Len(q) : q[j] # n
  <1>1. \A j \in 1 .. Len(q) : q[j] \in Nodes
    BY ElementOfSeq DEF IsList
  <1>2. \A m \in Nodes :
          /\ u.next[m] = IF m = n THEN NULL
                         ELSE IF m = t.prev[n] THEN t.next[n] ELSE t.next[m]
          /\ u.parent[m] = IF m = n THEN NULL ELSE t.parent[m]
          /\ u.first_child[m] = IF m = t.parent[n] /\ t.first_child[m] = n
                                THEN t.next[n] ELSE t.first_child[m]
    BY UnlinkedFields
  <1>3. \A j \in 1 .. Len(q) : q[j] # n /\ t.parent[q[j]] = p
    BY DEF IsList
  <1>4. \A m \in Nodes : t.next[m] = n => t.parent[m] = t.parent[n]
    BY DEF Links, SiblingLinks
  <1>5. \A j \in 1 .. Len(q) : t.next[q[j]] # n
    BY <1>1, <1>3, <1>4
  <1>6. \A m \in Nodes : m = t.prev[n] => t.next[m] = n
    BY DEF Links, SiblingLinks
  <1>7. \A j \in 1 .. Len(q) : q[j] # t.prev[n]
    BY <1>1, <1>5, <1>6
  <1>8. \A j \in 1 .. Len(q) : u.next[q[j]] = t.next[q[j]] /\ u.parent[q[j]] = p
    BY <1>1, <1>2, <1>3, <1>7
  <1>9. u.first_child[p] = t.first_child[p]
    BY <1>2
  <1>10. \A m \in Nodes : u.parent[m] = p => t.parent[m] = p
    BY <1>2
  <1>11. IsList(u, p, q)
    BY <1>8, <1>9, <1>10 DEF IsList
  <1> QED BY <1>3, <1>11

\* cmark_node_unlink takes n out of the list that holds it.
LEMMA UnlinkedLists ==
    ASSUME NULL \notin Nodes, NEW t \in Trees, Links(t), HasLists(t),
           NEW n \in Nodes, NEW u, u = Unlinked(t, n), NEW p \in Nodes
    PROVE  IsList(u, p, RemoveFirst(ChildSeq(t, p), n))
  <1> DEFINE q == ChildSeq(t, p)
  <1>1. IsList(t, p, q)
    BY ChildSeqLists
  <1> HIDE DEF q
  <1>2. CASE t.parent[n] = p
    <2>1. PICK i \in 1 .. Len(q) : q[i] = n
      BY <1>1, <1>2 DEF IsList
    <2>2. IsList(u, p, Dropped(q, i))
      BY <1>1, <2>1, UnlinkedOwnList
    <2>3. q \in Seq(Nodes) /\ \A j \in 1 .. Len(q) : q[j] = q[i] => j = i
      BY <1>1 DEF IsList
    <2>4. RemoveFirst(q, n) = Dropped(q, i)
      BY <2>1, <2>3, RemoveFirstIsDropped
    <2> QED BY <2>2, <2>4 DEF q
  <1>3. CASE t.parent[n] # p
    <2>1. IsList(u, p, q) /\ \A j \in 1 .. Len(q) : q[j] # n
      BY <1>1, <1>3, UnlinkedOtherList
    <2>2. RemoveFirst(q, n) = q
      BY <2>1, RemoveFirstOfNone
    <2> QED BY <2>1, <2>2 DEF q
  <1> QED BY <1>2, <1>3

\* A splice puts c into the list of p, at the gap.
LEMMA SplicedOwnList ==
    ASSUME NULL \notin Nodes, NEW u \in Trees, Links(u),
           NEW p \in Nodes, NEW c \in Nodes, NEW a \in Ptr, NEW b \in Ptr,
           Alone(u, c), Gap(u, p, a, b),
           NEW q, IsList(u, p, q), NEW i \in 1 .. Len(q) + 1,
           IF a = NULL THEN i = 1 ELSE i # 1 /\ q[i - 1] = a,
           NEW v, v = Spliced(u, p, a, b, c)
    PROVE  IsList(v, p, Inserted(q, i, c))
  <1> DEFINE L == Len(q)
             r == Inserted(q, i, c)
  <1>1. L \in Nat /\ \A j \in 1 .. L : q[j] \in Nodes
    BY LenProperties, ElementOfSeq DEF IsList
  <1>2. /\ \A j \in 1 .. L : u.parent[q[j]] = p
        /\ \A m \in Nodes : u.parent[m] = p => \E j \in 1 .. L : q[j] = m
        /\ \A j, k \in 1 .. L : q[j] = q[k] => j = k
        /\ u.first_child[p] = IF L = 0 THEN NULL ELSE q[1]
        /\ \A j \in 1 .. L : u.next[q[j]] = IF j < L THEN q[j + 1] ELSE NULL
    BY DEF IsList
  <1>3. /\ r \in Seq(Nodes) /\ Len(r) = L + 1
        /\ \A j \in 1 .. L + 1 : r[j] = IF j < i THEN q[j]
                                        ELSE IF j = i THEN c ELSE q[j - 1]
    BY InsertedIsSeq DEF IsList
  <1>4. \A m \in Nodes :
          /\ v.next[m] = IF m = c THEN b ELSE IF m = a THEN c ELSE u.next[m]
          /\ v.parent[m] = IF m = c THEN p ELSE u.parent[m]
          /\ v.first_child[m] = IF a = NULL /\ m = p THEN c ELSE u.first_child[m]
    BY SplicedFields
  <1>5. i \in 1 .. L + 1 /\ IF a = NULL THEN i = 1 ELSE i # 1 /\ q[i - 1] = a
    OBVIOUS
  <1> HIDE DEF L, r
  <1>6. \A j \in 1 .. L : q[j] # c
    BY <1>2 DEF Alone
  <1>7. b = IF i <= L THEN q[i] ELSE NULL
    <2>1. CASE a = NULL
      BY <1>1, <1>2, <1>5, <2>1 DEF Gap
    <2>2. CASE a # NULL
      <3>1. i - 1 \in 1 .. L /\ q[i - 1] = a /\ i - 1 + 1 = i /\ (i - 1 < L <=> i <= L)
        BY <1>1, <1>5, <2>2
      <3>2. u.next[a] = b
        BY <2>2 DEF Gap
      <3> QED BY <1>2, <3>1, <3>2
    <2> QED BY <2>1, <2>2
  <1>8. /\ \A j \in 1 .. L + 1 : j < i => r[j] = q[j] /\ j \in 1 .. L
        /\ r[i] = c
        /\ \A j \in 1 .. L + 1 : i < j => r[j] = q[j - 1] /\ j - 1 \in 1 .. L
        /\ \A j \in 1 .. L + 1 : j < i \/ j = i \/ i < j
    BY <1>1, <1>3, <1>5
  <1>9. ASSUME NEW j \in 1 .. L + 1 PROVE v.parent[r[j]] = p
    <2>1. \A k \in 1 .. L : v.parent[q[k]] = p
      BY <1>1, <1>2, <1>4
    <2>2. v.parent[c] = p
      BY <1>4
    <2> QED BY <1>8, <2>1, <2>2
  <1>10. ASSUME NEW m \in Nodes, v.parent[m] = p
         PROVE  \E j \in 1 .. L + 1 : r[j] = m
    <2>1. CASE m = c
      BY <1>5, <1>8, <2>1
    <2>2. CASE m # c
      <3>1. PICK k \in 1 .. L : q[k] = m
        BY <1>2, <1>4, <1>10, <2>2
      <3>2. CASE k < i
        <4>1. k \in 1 .. L + 1
          BY <1>1
        <4> QED BY <1>8, <3>1, <3>2, <4>1
      <3>3. CASE ~(k < i)
        <4>1. k + 1 \in 1 .. L + 1 /\ i < k + 1 /\ k + 1 - 1 = k
          BY <1>1, <1>5, <3>3
        <4>2. r[k + 1] = m
          BY <1>8, <3>1, <4>1
        <4> QED BY <4>1, <4>2
      <3> QED BY <3>2, <3>3
    <2> QED BY <2>1, <2>2
  <1>11. ASSUME NEW j \in 1 .. L + 1, NEW k \in 1 .. L + 1, r[j] = r[k]
         PROVE  j = k
    <2>1. j = i <=> k = i
      BY <1>6, <1>8, <1>11
    <2>2. ASSUME NEW x \in 1 .. L + 1, x # i
          PROVE  \E y \in 1 .. L : r[x] = q[y] /\ x = IF y < i THEN y ELSE y + 1
      <3>1. CASE x < i
        BY <1>8, <3>1
      <3>2. CASE i < x
        <4>1. r[x] = q[x - 1] /\ x - 1 \in 1 .. L /\ ~(x - 1 < i) /\ x = x - 1 + 1
          BY <1>1, <1>5, <1>8, <3>2
        <4> QED BY <4>1
      <3> QED BY <1>8, <2>2, <3>1, <3>2
    <2>3. CASE j # i
      <3>1. k # i
        BY <2>1, <2>3
      <3>2. PICK y \in 1 .. L : r[j] = q[y] /\ j = IF y < i THEN y ELSE y + 1
        BY <2>2, <2>3
      <3>3. PICK z \in 1 .. L : r[k] = q[z] /\ k = IF z < i THEN z ELSE z + 1
        BY <2>2, <3>1
      <3>4. q[y] = q[z]
        BY ONLY <1>11, <3>2, <3>3
      <3>5. y = z
        BY <1>2, <3>4
      <3> QED BY <3>2, <3>3, <3>5
    <2> QED BY <2>1, <2>3
  <1>12. v.first_child[p] = IF L + 1 = 0 THEN NULL ELSE r[1]
    <2>1. L + 1 # 0 /\ 1 \in 1 .. L + 1
      BY <1>1
    <2>2. CASE a = NULL
      BY <1>4, <1>5, <1>8, <2>1, <2>2
    <2>3. CASE a # NULL
      <3>1. 1 < i /\ L # 0
        BY <1>1, <1>5, <2>3
      <3> QED BY <1>2, <1>4, <1>8, <2>1, <2>3, <3>1
    <2> QED BY <2>2, <2>3
  <1>13. ASSUME NEW j \in 1 .. L + 1
         PROVE  v.next[r[j]] = IF j < L + 1 THEN r[j + 1] ELSE NULL
    <2>1. CASE j = i
      <3>1. v.next[r[j]] = b
        BY <1>4, <1>8, <2>1
      <3>2. j < L + 1 <=> i <= L
        BY <1>1, <1>5, <2>1
      <3>3. i <= L => r[j + 1] = q[i]
        <4>1. i <= L => i + 1 \in 1 .. L + 1 /\ i < i + 1 /\ i + 1 - 1 = i
          BY <1>1, <1>5
        <4> QED BY <1>8, <2>1, <4>1
      <3> QED BY <1>7, <3>1, <3>2, <3>3
    <2>2. CASE j < i
      <3>1. r[j] = q[j] /\ j \in 1 .. L /\ q[j] \in Nodes /\ q[j] # c /\ j < L + 1
        BY <1>1, <1>6, <1>8, <2>2
      <3>2. CASE j + 1 = i
        <4>1. a # NULL /\ q[j] = a
          BY <1>1, <1>5, <3>2
        <4>2. v.next[r[j]] = c
          BY <1>4, <3>1, <4>1
        <4> QED BY <1>8, <3>1, <3>2, <4>2
      <3>3. CASE j + 1 # i
        <4>1. j + 1 < i /\ j + 1 \in 1 .. L + 1 /\ j < L /\ j + 1 \in 1 .. L
          BY <1>1, <1>5, <2>2, <3>3
        <4>2. q[j] # a
          <5>1. a = NULL \/ (i - 1 \in 1 .. L /\ q[i - 1] = a /\ j # i - 1)
            BY <1>1, <1>5, <4>1
          <5> QED BY <1>2, <3>1, <5>1
        <4>3. v.next[r[j]] = q[j + 1]
          BY <1>2, <1>4, <3>1, <4>1, <4>2
        <4>4. r[j + 1] = q[j + 1]
          BY <1>8, <4>1
        <4> QED BY <3>1, <4>3, <4>4
      <3> QED BY <3>2, <3>3
    <2>3. CASE i < j
      <3>1. r[j] = q[j - 1] /\ j - 1 \in 1 .. L
        BY <1>8, <2>3
      <3>2. q[j - 1] \in Nodes /\ q[j - 1] # c
        BY <1>1, <1>6, <3>1
      <3>3. q[j - 1] # a
        <4>1. a = NULL \/ (i - 1 \in 1 .. L /\ q[i - 1] = a /\ j - 1 # i - 1)
          BY <1>1, <1>5, <2>3
        <4> QED BY <1>2, <3>1, <3>2, <4>1
      <3>4. v.next[r[j]] = IF j - 1 < L THEN q[j - 1 + 1] ELSE NULL
        BY <1>2, <1>4, <3>1, <3>2, <3>3
      <3>5. (j - 1 < L <=> j < L + 1) /\ j - 1 + 1 = j
        BY <1>1
      <3>6. j < L + 1 => r[j + 1] = q[j]
        <4>1. j < L + 1 => j + 1 \in 1 .. L + 1 /\ i < j + 1 /\ j + 1 - 1 = j
          BY <1>1, <1>5, <2>3
        <4> QED BY <1>8, <4>1
      <3> QED BY <3>4, <3>5, <3>6
    <2> QED BY <1>8, <2>1, <2>2, <2>3
  <1>14. IsList(v, p, r)
    BY <1>3, <1>9, <1>10, <1>11, <1>12, <1>13 DEF IsList
  <1> QED BY <1>14 DEF r

\* A splice leaves the other lists as they are.
LEMMA SplicedOtherList ==
    ASSUME NULL \notin Nodes, NEW u \in Trees,
           NEW p \in Nodes, NEW c \in Nodes, NEW a \in Ptr, NEW b \in Ptr,
           Alone(u, c), Gap(u, p, a, b),
           NEW o \in Nodes, o # p, NEW q, IsList(u, o, q),
           NEW v, v = Spliced(u, p, a, b, c)
    PROVE  IsList(v, o, q)
  <1>1. \A j \in 1 .. Len(q) : q[j] \in Nodes
    BY ElementOfSeq DEF IsList
  <1>2. \A m \in Nodes :
          /\ v.next[m] = IF m = c THEN b ELSE IF m = a THEN c ELSE u.next[m]
          /\ v.parent[m] = IF m = c THEN p ELSE u.parent[m]
          /\ v.first_child[m] = IF a = NULL /\ m = p THEN c ELSE u.first_child[m]
    <2>1. /\ v.next = Store(Store(u.next, a, c), c, b)
          /\ v.parent = Store(u.parent, c, p)
          /\ v.first_child = IF a = NULL THEN Store(u.first_child, p, c)
                             ELSE u.first_child
      BY DEF Spliced
    <2> QED BY <2>1 DEF Store
  <1>3. \A j \in 1 .. Len(q) : u.parent[q[j]] = o
    BY DEF IsList
  <1>4. \A j \in 1 .. Len(q) : q[j] # c /\ q[j] # a
    BY <1>1, <1>3 DEF Alone, Gap
  <1>5. \A j \in 1 .. Len(q) : v.next[q[j]] = u.next[q[j]] /\ v.parent[q[j]] = o
    BY <1>1, <1>2, <1>3, <1>4
  <1>6. v.first_child[o] = u.first_child[o]
    BY <1>2
  <1>7. \A m \in Nodes : v.parent[m] = o => u.parent[m] = o
    BY <1>2
  <1> QED BY <1>5, <1>6, <1>7 DEF IsList

\* Forest's copies of the sequence operators.
LEMMA SameOperators ==
    /\ \A s, e : F!RemoveFirst(s, e) = RemoveFirst(s, e)
    /\ \A s, i, e : F!InsertAt(s, i, e) = InsertAt(s, i, e)
    /\ \A s : F!ToSet(s) = ToSet(s)
  <1>1. \A S : F!Min(S) = Min(S)
    BY DEF F!Min, Min
  <1>2. \A s, i : F!RemoveAt(s, i) = RemoveAt(s, i)
    BY DEF F!RemoveAt, RemoveAt
  <1>3. ASSUME NEW s, NEW e PROVE F!RemoveFirst(s, e) = RemoveFirst(s, e)
    BY <1>1, <1>2 DEF F!RemoveFirst, RemoveFirst, F!SelectInSeq, SelectInSeq
  <1>4. \A s, i, e : F!InsertAt(s, i, e) = InsertAt(s, i, e)
    BY DEF F!InsertAt, InsertAt
  <1>5. \A s : F!ToSet(s) = ToSet(s)
    BY DEF F!ToSet, ToSet
  <1> QED BY <1>3, <1>4, <1>5

\* The child lists of all nodes of t.
SeqsOf(t) == [p \in Nodes |-> ChildSeq(t, p)]

\* Lists for all nodes determine the child sequences.
LEMMA SeqsAre ==
    ASSUME NULL \notin Nodes, NEW t, NEW c,
           \A p \in Nodes : IsList(t, p, c[p])
    PROVE  HasLists(t) /\ SeqsOf(t) = [p \in Nodes |-> c[p]]
  <1>1. HasLists(t)
    BY DEF HasLists
  <1>2. \A p \in Nodes : ChildSeq(t, p) = c[p]
    BY ChildSeqIs
  <1> QED BY <1>1, <1>2 DEF SeqsOf

\* cmark_node_unlink takes n out of the forest's lists.
LEMMA UnlinkedForest ==
    ASSUME NULL \notin Nodes, NEW t \in Trees, Links(t), HasLists(t),
           NEW n \in Nodes, NEW u, u = Unlinked(t, n)
    PROVE  HasLists(u) /\ SeqsOf(u) = F!Detached(SeqsOf(t), n)
  <1> DEFINE c == F!Detached(SeqsOf(t), n)
  <1>1. /\ \A p \in Nodes : c[p] = RemoveFirst(ChildSeq(t, p), n)
        /\ c = [p \in Nodes |-> c[p]]
    BY SameOperators DEF F!Detached, SeqsOf
  <1> HIDE DEF c
  <1>2. \A p \in Nodes : IsList(u, p, RemoveFirst(ChildSeq(t, p), n))
    BY UnlinkedLists
  <1>3. \A p \in Nodes : IsList(u, p, c[p])
    BY <1>1, <1>2
  <1>4. HasLists(u) /\ SeqsOf(u) = [p \in Nodes |-> c[p]]
    BY <1>3, SeqsAre
  <1> QED BY <1>1, <1>4 DEF c

\* Where in the list q the gap between a and b lies.
AtGap(q, i, a) ==
    i \in 1 .. Len(q) + 1 /\ IF a = NULL THEN i = 1 ELSE i # 1 /\ q[i - 1] = a

\* A splice places c in the forest's list of p.
LEMMA SplicedForest ==
    ASSUME NULL \notin Nodes, NEW u \in Trees, Links(u), HasLists(u),
           NEW p \in Nodes, NEW c \in Nodes, NEW a \in Ptr, NEW b \in Ptr,
           Alone(u, c), Gap(u, p, a, b),
           NEW i, AtGap(ChildSeq(u, p), i, a),
           NEW v, v = Spliced(u, p, a, b, c)
    PROVE  HasLists(v) /\ SeqsOf(v) = F!Placed(SeqsOf(u), p, i, c)
  <1> DEFINE q == ChildSeq(u, p)
             d == [SeqsOf(u) EXCEPT ![p] = Inserted(q, i, c)]
  <1>1. IsList(u, p, q)
    BY ChildSeqLists
  <1>2. i \in 1 .. Len(q) + 1 /\ IF a = NULL THEN i = 1 ELSE i # 1 /\ q[i - 1] = a
    BY DEF AtGap
  <1>3. \A o \in Nodes : d[o] = IF o = p THEN Inserted(q, i, c) ELSE ChildSeq(u, o)
    BY DEF SeqsOf
  <1>4. d = [o \in Nodes |-> d[o]]
    BY DEF SeqsOf
  <1>5. SeqsOf(u)[p] = q
    BY DEF SeqsOf
  <1> HIDE DEF q, d
  <1>6. q \in Seq(Nodes)
    BY <1>1 DEF IsList
  <1>7. InsertAt(q, i, c) = Inserted(q, i, c)
    BY <1>2, <1>6, InsertAtIsInserted
  <1>8. ASSUME NEW o \in Nodes PROVE IsList(v, o, d[o])
    <2>1. CASE o = p
      <3>1. IsList(v, p, Inserted(q, i, c))
        BY <1>1, <1>2, SplicedOwnList
      <3> QED BY <1>3, <2>1, <3>1
    <2>2. CASE o # p
      <3>1. IsList(u, o, ChildSeq(u, o))
        BY ChildSeqLists
      <3>2. IsList(v, o, ChildSeq(u, o))
        BY <2>2, <3>1, SplicedOtherList
      <3> QED BY <1>3, <2>2, <3>2
    <2> QED BY <2>1, <2>2
  <1>9. HasLists(v) /\ SeqsOf(v) = [o \in Nodes |-> d[o]]
    BY <1>8, SeqsAre
  <1>10. F!Placed(SeqsOf(u), p, i, c) = d
    BY <1>5, <1>7, SameOperators DEF F!Placed, d
  <1> QED BY <1>4, <1>9, <1>10

\* A node taken out of one list and spliced into a gap of another.
LEMMA MovedForest ==
    ASSUME NULL \notin Nodes, NEW t \in Trees, Shape(t), HasLists(t),
           NEW p \in Nodes, NEW c \in Nodes, NEW a \in Ptr, NEW b \in Ptr,
           NEW u, u = Unlinked(t, c), Gap(u, p, a, b),
           NEW i, AtGap(F!Detached(SeqsOf(t), c)[p], i, a),
           NEW v, v = Spliced(u, p, a, b, c)
    PROVE  HasLists(v) /\ SeqsOf(v) = F!Placed(F!Detached(SeqsOf(t), c), p, i, c)
  <1>1. Links(t) /\ t.next[c] # c
    BY NoSelfNext DEF Shape
  <1>2. u \in Trees /\ Links(u) /\ Alone(u, c)
    BY <1>1, UnlinkedLinks
  <1>3. HasLists(u) /\ SeqsOf(u) = F!Detached(SeqsOf(t), c)
    BY <1>1, UnlinkedForest
  <1>4. SeqsOf(u)[p] = ChildSeq(u, p)
    BY DEF SeqsOf
  <1>5. AtGap(ChildSeq(u, p), i, a)
    BY <1>3, <1>4
  <1>6. HasLists(v) /\ SeqsOf(v) = F!Placed(SeqsOf(u), p, i, c)
    BY <1>2, <1>3, <1>5, SplicedForest
  <1> QED BY <1>3, <1>6

\* The list of p that Unlinked(t, c) leaves.
LEMMA DetachedList ==
    ASSUME NULL \notin Nodes, NEW t \in Trees, Shape(t), HasLists(t),
           NEW c \in Nodes, NEW p \in Nodes, NEW u, u = Unlinked(t, c)
    PROVE  u \in Trees /\ Links(u) /\ IsList(u, p, F!Detached(SeqsOf(t), c)[p])
  <1>1. Links(t) /\ t.next[c] # c
    BY NoSelfNext DEF Shape
  <1>2. u \in Trees /\ Links(u) /\ Alone(u, c)
    BY <1>1, UnlinkedLinks
  <1>3. HasLists(u) /\ SeqsOf(u) = F!Detached(SeqsOf(t), c)
    BY <1>1, UnlinkedForest
  <1>4. SeqsOf(u)[p] = ChildSeq(u, p)
    BY DEF SeqsOf
  <1> QED BY <1>2, <1>3, <1>4, ChildSeqLists

\* The index of node, a child of p, and what precedes it.
LEMMA IndexIn ==
    ASSUME NULL \notin Nodes, NEW u \in Trees, Links(u), NEW p \in Nodes,
           NEW q, IsList(u, p, q), NEW node \in Nodes,
           NEW i \in 1 .. Len(q), q[i] = node
    PROVE  AtGap(q, i, u.prev[node]) /\ AtGap(q, i + 1, node)
  <1>1. Len(q) \in Nat /\ \A k \in 1 .. Len(q) : q[k] \in Nodes
    BY LenProperties, ElementOfSeq DEF IsList
  <1>3. i \in 1 .. Len(q) /\ q[i] = node
    OBVIOUS
  <1>4. AtGap(q, i, u.prev[node])
    <2>1. CASE i = 1
      <3>1. u.first_child[p] = node
        BY <1>1, <1>3, <2>1 DEF IsList
      <3>2. u.prev[node] = NULL
        BY <3>1 DEF Links, ParentLinks
      <3> QED BY <1>1, <1>3, <2>1, <3>2 DEF AtGap
    <2>2. CASE i # 1
      <3>1. i - 1 \in 1 .. Len(q) /\ i - 1 < Len(q) /\ i - 1 + 1 = i
        BY <1>1, <1>3, <2>2
      <3>2. u.next[q[i - 1]] = node /\ q[i - 1] \in Nodes
        BY <1>1, <1>3, <3>1 DEF IsList
      <3>3. u.prev[node] = q[i - 1] /\ q[i - 1] # NULL
        BY <3>2 DEF Links, SiblingLinks
      <3> QED BY <1>1, <1>3, <2>2, <3>3 DEF AtGap
    <2> QED BY <2>1, <2>2
  <1>5. AtGap(q, i + 1, node)
    BY <1>1, <1>3 DEF AtGap
  <1> QED BY <1>4, <1>5

\* A node other than the one that moves keeps its place in a list.
LEMMA HasIndex ==
    ASSUME NULL \notin Nodes, NEW t \in Trees, Shape(t), HasLists(t),
           NEW c \in Nodes, NEW p \in Nodes, NEW d, d = F!Detached(SeqsOf(t), c),
           NEW node \in Nodes, node # c, t.parent[node] = p
    PROVE  \E k \in 1 .. Len(d[p]) : d[p][k] = node
  <1> DEFINE u == Unlinked(t, c)
  <1>1. IsList(u, p, d[p])
    BY DetachedList
  <1>2. u.parent[node] = p
    BY UnlinkedFields
  <1> QED BY <1>1, <1>2 DEF IsList

\* cmark_node_insert_before places sib at the index of node.
LEMMA InsertedBeforeForest ==
    ASSUME NULL \notin Nodes, NEW t \in Trees, Shape(t), HasLists(t),
           NEW node \in Nodes, NEW sib \in Nodes, node # sib,
           NEW p, p = t.parent[node], p # NULL,
           NEW c, c = F!Detached(SeqsOf(t), sib),
           NEW i \in 1 .. Len(c[p]), c[p][i] = node,
           NEW v, v = InsertedBefore(t, node, sib)
    PROVE  HasLists(v) /\ SeqsOf(v) = F!Placed(c, p, i, sib)
  <1> DEFINE u == Unlinked(t, sib)
  <1>1. p \in Nodes
    BY DEF Trees, Ptr
  <1>2. Links(t) /\ t.next[sib] # sib
    BY NoSelfNext DEF Shape
  <1>3. u \in Trees /\ Links(u) /\ IsList(u, p, c[p])
    BY <1>1, DetachedList
  <1>4. Gap(u, p, u.prev[node], node) /\ v = Spliced(u, p, u.prev[node], node, sib)
    BY <1>2, InsertedBeforeIsSplice
  <1>6. u.prev[node] \in Ptr /\ node \in Ptr
    BY <1>3 DEF Trees, Ptr
  <1>0. u = Unlinked(t, sib)
    OBVIOUS
  <1> HIDE DEF u
  <1>7. AtGap(c[p], i, u.prev[node])
    BY <1>1, <1>3, IndexIn
  <1>8. HasLists(v) /\ SeqsOf(v) = F!Placed(c, p, i, sib)
    BY <1>0, <1>1, <1>4, <1>6, <1>7, MovedForest
  <1> QED BY <1>8

\* cmark_node_insert_after places sib one behind the index of node.
LEMMA InsertedAfterForest ==
    ASSUME NULL \notin Nodes, NEW t \in Trees, Shape(t), HasLists(t),
           NEW node \in Nodes, NEW sib \in Nodes, node # sib,
           NEW p, p = t.parent[node], p # NULL,
           NEW c, c = F!Detached(SeqsOf(t), sib),
           NEW i \in 1 .. Len(c[p]), c[p][i] = node,
           NEW v, v = InsertedAfter(t, node, sib)
    PROVE  HasLists(v) /\ SeqsOf(v) = F!Placed(c, p, i + 1, sib)
  <1> DEFINE u == Unlinked(t, sib)
  <1>1. p \in Nodes
    BY DEF Trees, Ptr
  <1>2. Links(t) /\ t.next[sib] # sib
    BY NoSelfNext DEF Shape
  <1>3. u \in Trees /\ Links(u) /\ IsList(u, p, c[p])
    BY <1>1, DetachedList
  <1>4. Gap(u, p, node, u.next[node]) /\ v = Spliced(u, p, node, u.next[node], sib)
    BY <1>2, InsertedAfterIsSplice
  <1>6. u.next[node] \in Ptr /\ node \in Ptr
    BY <1>3 DEF Trees, Ptr
  <1>0. u = Unlinked(t, sib)
    OBVIOUS
  <1> HIDE DEF u
  <1>7. AtGap(c[p], i + 1, node)
    BY <1>1, <1>3, IndexIn
  <1>8. HasLists(v) /\ SeqsOf(v) = F!Placed(c, p, i + 1, sib)
    BY <1>0, <1>1, <1>4, <1>6, <1>7, MovedForest
  <1> QED BY <1>8

\* cmark_node_prepend_child places child first.
LEMMA PrependedForest ==
    ASSUME NULL \notin Nodes, NEW t \in Trees, Shape(t), HasLists(t),
           NEW node \in Nodes, NEW child \in Nodes,
           NEW c, c = F!Detached(SeqsOf(t), child),
           NEW v, v = Prepended(t, node, child)
    PROVE  /\ Len(c[node]) \in Nat
           /\ HasLists(v) /\ SeqsOf(v) = F!Placed(c, node, 1, child)
  <1> DEFINE u == Unlinked(t, child)
  <1>2. Links(t) /\ t.next[child] # child
    BY NoSelfNext DEF Shape
  <1>3. u \in Trees /\ Links(u) /\ IsList(u, node, c[node])
    BY DetachedList
  <1>4. /\ Gap(u, node, NULL, u.first_child[node])
        /\ v = Spliced(u, node, NULL, u.first_child[node], child)
    BY <1>2, PrependedIsSplice
  <1>6. u.first_child[node] \in Ptr /\ NULL \in Ptr
    BY <1>3 DEF Trees, Ptr
  <1>0. u = Unlinked(t, child)
    OBVIOUS
  <1> HIDE DEF u
  <1>7. Len(c[node]) \in Nat
    BY <1>3, LenProperties DEF IsList
  <1>8. AtGap(c[node], 1, NULL)
    BY <1>7 DEF AtGap
  <1>9. HasLists(v) /\ SeqsOf(v) = F!Placed(c, node, 1, child)
    BY <1>0, <1>4, <1>6, <1>8, MovedForest
  <1> QED BY <1>7, <1>9

\* cmark_node_append_child places child last.
LEMMA AppendedForest ==
    ASSUME NULL \notin Nodes, NEW t \in Trees, Shape(t), HasLists(t),
           NEW node \in Nodes, NEW child \in Nodes,
           NEW c, c = F!Detached(SeqsOf(t), child),
           NEW v, v = Appended(t, node, child)
    PROVE  /\ Len(c[node]) \in Nat
           /\ HasLists(v)
           /\ SeqsOf(v) = F!Placed(c, node, Len(c[node]) + 1, child)
  <1> DEFINE u == Unlinked(t, child)
             q == c[node]
  <1>2. Links(t) /\ t.next[child] # child
    BY NoSelfNext DEF Shape
  <1>3. u \in Trees /\ Links(u) /\ IsList(u, node, q)
    BY DetachedList
  <1>4. /\ Gap(u, node, u.last_child[node], NULL)
        /\ v = Spliced(u, node, u.last_child[node], NULL, child)
    BY <1>2, AppendedIsSplice
  <1>6. u.last_child[node] \in Ptr /\ NULL \in Ptr
    BY <1>3 DEF Trees, Ptr
  <1>0. u = Unlinked(t, child) /\ q = c[node]
    OBVIOUS
  <1> HIDE DEF u, q
  <1>7. Len(q) \in Nat /\ \A k \in 1 .. Len(q) : q[k] \in Nodes
    BY <1>3, LenProperties, ElementOfSeq DEF IsList
  <1>8. AtGap(q, Len(q) + 1, u.last_child[node])
    <2>1. CASE Len(q) = 0
      <3>1. u.first_child[node] = NULL
        BY <1>3, <2>1 DEF IsList
      <3>2. u.last_child[node] = NULL
        BY <1>3, <3>1 DEF Links, ParentLinks
      <3> QED BY <2>1, <3>2 DEF AtGap
    <2>2. CASE Len(q) # 0
      <3>1. Len(q) \in 1 .. Len(q) /\ ~(Len(q) < Len(q))
        BY <1>7, <2>2
      <3>2. u.next[q[Len(q)]] = NULL /\ u.parent[q[Len(q)]] = node
        BY <1>3, <3>1 DEF IsList
      <3>3. u.last_child[node] = q[Len(q)] /\ q[Len(q)] # NULL
        BY <1>3, <1>7, <3>1, <3>2 DEF Links, ParentLinks
      <3> QED BY <1>7, <2>2, <3>3 DEF AtGap
    <2> QED BY <2>1, <2>2
  <1>9. HasLists(v) /\ SeqsOf(v) = F!Placed(c, node, Len(q) + 1, child)
    BY <1>0, <1>4, <1>6, <1>8, MovedForest
  <1> QED BY <1>0, <1>7, <1>9

\* Inserting c in front of the i-th element and taking that one out again
\* leaves c in its place.
LEMMA InsertThenRemove ==
    ASSUME NEW S, NEW q \in Seq(S), NEW i \in 1 .. Len(q), NEW c \in S,
           \A j, k \in 1 .. Len(q) + 1 :
              Inserted(q, i, c)[j] = Inserted(q, i, c)[k] => j = k
    PROVE  RemoveFirst(Inserted(q, i, c), q[i]) = [q EXCEPT ![i] = c]
  <1> DEFINE r == Inserted(q, i, c)
             x == Dropped(r, i + 1)
             y == [q EXCEPT ![i] = c]
  <1>1. Len(q) \in Nat /\ i \in 1 .. Len(q) + 1
    BY LenProperties
  <1>2. /\ r \in Seq(S) /\ Len(r) = Len(q) + 1
        /\ \A j \in 1 .. Len(q) + 1 :
             r[j] = IF j < i THEN q[j] ELSE IF j = i THEN c ELSE q[j - 1]
    BY <1>1, InsertedIsSeq
  <1>3. \A j, k \in 1 .. Len(q) + 1 : r[j] = r[k] => j = k
    OBVIOUS
  <1> HIDE DEF r
  <1>4. i + 1 \in 1 .. Len(r) /\ r[i + 1] = q[i]
    <2>1. i + 1 \in 1 .. Len(q) + 1 /\ ~(i + 1 < i) /\ i + 1 # i /\ i + 1 - 1 = i
      BY <1>1
    <2> QED BY <1>2, <2>1
  <1>5. RemoveFirst(r, q[i]) = x
    <2>1. \A j \in 1 .. Len(r) : r[j] = r[i + 1] => j = i + 1
      BY <1>2, <1>3, <1>4
    <2>2. RemoveFirst(r, r[i + 1]) = Dropped(r, i + 1)
      BY ONLY <1>2, <1>4, <2>1, RemoveFirstIsDropped
    <2> QED BY <1>4, <2>2
  <1>6. /\ x \in Seq(S) /\ Len(x) = Len(r) - 1
        /\ \A j \in 1 .. Len(r) - 1 : x[j] = IF j < i + 1 THEN r[j] ELSE r[j + 1]
    BY ONLY <1>2, <1>4, DroppedIsSeq
  <1>7. /\ y \in Seq(S) /\ Len(y) = Len(q)
        /\ \A j \in 1 .. Len(q) : y[j] = IF j = i THEN c ELSE q[j]
    BY ExceptSeq
  <1> HIDE DEF x, y
  <1>8. Len(x) = Len(y)
    BY <1>1, <1>2, <1>6, <1>7
  <1>9. ASSUME NEW j \in 1 .. Len(x) PROVE x[j] = y[j]
    <2>0. j \in 1 .. Len(q) /\ j \in 1 .. Len(r) - 1
      BY <1>6, <1>7, <1>8
    <2>1. CASE j < i
      <3>1. x[j] = r[j] /\ r[j] = q[j]
        BY <1>1, <1>2, <1>6, <2>0, <2>1
      <3> QED BY <1>1, <1>7, <2>0, <2>1, <3>1
    <2>2. CASE j = i
      <3>1. x[j] = r[j] /\ r[j] = c
        BY <1>1, <1>2, <1>6, <2>0, <2>2
      <3> QED BY <1>7, <2>0, <2>2, <3>1
    <2>3. CASE i < j
      <3>1. x[j] = r[j + 1]
        BY <1>1, <1>6, <2>0, <2>3
      <3>2. j + 1 \in 1 .. Len(q) + 1 /\ ~(j + 1 < i) /\ j + 1 # i /\ j + 1 - 1 = j
        BY <1>1, <2>0, <2>3
      <3>3. r[j + 1] = q[j]
        BY <1>2, <3>2
      <3> QED BY <1>1, <1>7, <2>0, <2>3, <3>1, <3>3
    <2> QED BY <1>1, <2>0, <2>1, <2>2, <2>3
  <1>10. x = y
    BY ONLY <1>6, <1>7, <1>8, <1>9, SeqEqual
  <1> QED BY <1>5, <1>10 DEF r, y

\* The lists c with n for the i-th child of p.
Swapped(c, p, i, n) == [c EXCEPT ![p][i] = n]

\* cmark_node_replace puts new at the index of old.
LEMMA ReplacedForest ==
    ASSUME NULL \notin Nodes, NEW t \in Trees, Shape(t), HasLists(t),
           NEW old \in Nodes, NEW new \in Nodes, old # new,
           NEW p, p = t.parent[old], p # NULL,
           NEW w, w = InsertedBefore(t, old, new), w \in Trees, Shape(w),
           NEW c, c = F!Detached(SeqsOf(t), new),
           NEW i \in 1 .. Len(c[p]), c[p][i] = old,
           NEW v, v = Unlinked(w, old)
    PROVE  HasLists(v) /\ SeqsOf(v) = Swapped(c, p, i, new)
  <1> DEFINE u == Unlinked(t, new)
             d == F!Placed(c, p, i, new)
             e == [c EXCEPT ![p][i] = new]
  <1>1. p \in Nodes
    BY DEF Trees, Ptr
  <1>2. HasLists(w) /\ SeqsOf(w) = d
    BY InsertedBeforeForest
  <1>3. HasLists(v) /\ SeqsOf(v) = F!Detached(d, old)
    BY <1>2, UnlinkedForest DEF Shape
  <1>4. \A o \in Nodes : IsList(u, o, c[o])
    BY DetachedList
  <1>5. c[p] \in Seq(Nodes) /\ c = [o \in Nodes |-> c[o]]
    <2>1. c = [o \in Nodes |-> c[o]]
      BY DEF F!Detached
    <2> QED BY <1>1, <1>4, <2>1 DEF IsList
  <1>6. i \in 1 .. Len(c[p]) + 1
    BY <1>5, LenProperties
  <1>7. InsertAt(c[p], i, new) = Inserted(c[p], i, new)
    BY <1>5, <1>6, InsertAtIsInserted
  <1>8. d = [c EXCEPT ![p] = Inserted(c[p], i, new)]
    BY <1>7, SameOperators DEF F!Placed
  <1>9. d[p] = Inserted(c[p], i, new) /\ \A o \in Nodes : o # p => d[o] = c[o]
    BY <1>1, <1>5, <1>8
  <1>10. e = [c EXCEPT ![p] = [c[p] EXCEPT ![i] = new]]
    BY <1>1, <1>5
  <1>11. \A o \in Nodes : e[o] = IF o = p THEN [c[p] EXCEPT ![i] = new] ELSE c[o]
    BY <1>5, <1>10
  <1>12. e = [o \in Nodes |-> e[o]]
    BY <1>5, <1>10
  <1> HIDE DEF d, e
  <1>13. \A o \in Nodes : o # p => RemoveFirst(c[o], old) = c[o]
    <2> SUFFICES ASSUME NEW o \in Nodes, o # p PROVE RemoveFirst(c[o], old) = c[o]
      OBVIOUS
    <2>1. \A j \in 1 .. Len(c[o]) : u.parent[c[o][j]] = o
      BY <1>4 DEF IsList
    <2>2. u.parent[old] = p
      BY UnlinkedFields
    <2> QED BY <2>1, <2>2, RemoveFirstOfNone
  <1>14. RemoveFirst(d[p], old) = [c[p] EXCEPT ![i] = new]
    <2>1. IsList(w, p, d[p])
      <3>1. SeqsOf(w)[p] = ChildSeq(w, p)
        BY <1>1 DEF SeqsOf
      <3> QED BY <1>1, <1>2, <3>1, ChildSeqLists
    <2>2. Len(d[p]) = Len(c[p]) + 1
      BY <1>5, <1>6, <1>9, InsertedIsSeq
    <2>3. \A j, k \in 1 .. Len(c[p]) + 1 :
             Inserted(c[p], i, new)[j] = Inserted(c[p], i, new)[k] => j = k
      BY <1>9, <2>1, <2>2 DEF IsList
    <2>4. RemoveFirst(Inserted(c[p], i, new), c[p][i]) = [c[p] EXCEPT ![i] = new]
      <3> DEFINE q == c[p]
      <3>1. /\ q \in Seq(Nodes) /\ i \in 1 .. Len(q)
            /\ \A j, k \in 1 .. Len(q) + 1 :
                 Inserted(q, i, new)[j] = Inserted(q, i, new)[k] => j = k
        BY <1>5, <2>3
      <3> HIDE DEF q
      <3>2. RemoveFirst(Inserted(q, i, new), q[i]) = [q EXCEPT ![i] = new]
        BY ONLY <3>1, new \in Nodes, InsertThenRemove
      <3> QED BY <3>2 DEF q
    <2> QED BY <1>9, <2>4
  <1>15. \A o \in Nodes : RemoveFirst(d[o], old) = e[o]
    BY <1>9, <1>11, <1>13, <1>14
  <1>16. F!Detached(d, old) = [o \in Nodes |-> RemoveFirst(d[o], old)]
    BY SameOperators DEF F!Detached
  <1>17. F!Detached(d, old) = e
    BY <1>12, <1>15, <1>16
  <1> QED BY <1>3, <1>17 DEF e, Swapped

\* The links that cmark_node_free leaves.
LEMMA FreedFields ==
    ASSUME NULL \notin Nodes, NEW t \in Trees, NEW n \in Nodes,
           NEW S, n \in S, NEW v, v = Freed(S_node_unlink(t, n), S),
           NEW u, u = Unlinked(t, n)
    PROVE  \A m \in Nodes :
             /\ v.next[m] = IF m \in S THEN NULL ELSE u.next[m]
             /\ v.parent[m] = IF m \in S THEN NULL ELSE u.parent[m]
             /\ v.first_child[m] = IF m \in S THEN NULL ELSE u.first_child[m]
  <1> DEFINE w == S_node_unlink(t, n)
  <1>1. /\ w \in Trees
        /\ w.first_child = u.first_child
        /\ \A m \in Nodes : m # n => /\ w.next[m] = u.next[m]
                                     /\ w.parent[m] = u.parent[m]
    BY UnlinkStepVsUnlinked
  <1>2. v = Freed(w, S)
    OBVIOUS
  <1> HIDE DEF w
  <1>3. /\ v.next = Cleared(w.next, S) /\ v.parent = Cleared(w.parent, S)
        /\ v.first_child = Cleared(w.first_child, S)
    BY <1>2 DEF Freed
  <1> QED BY <1>1, <1>3 DEF Cleared

\* cmark_node_free empties the lists of the subtree and takes n out of its own.
LEMMA FreedForest ==
    ASSUME NULL \notin Nodes, NEW t \in Trees, Shape(t), HasLists(t),
           NEW n \in Nodes, NEW S, S = Subtree(t, n),
           NEW c, c = F!Detached(SeqsOf(t), n),
           NEW v, v = Freed(S_node_unlink(t, n), S)
    PROVE  /\ HasLists(v)
           /\ SeqsOf(v) = [p \in Nodes |-> IF p \in S THEN << >> ELSE c[p]]
  <1> DEFINE u == Unlinked(t, n)
             d == [p \in Nodes |-> IF p \in S THEN << >> ELSE c[p]]
  <1>1. /\ n \in S /\ S \subseteq Nodes
        /\ \A m \in Nodes : t.parent[m] \in S => m \in S
        /\ \A m \in S : m # n => t.parent[m] \in S
    BY SubtreeClosed
  <1>2. \A m \in Nodes :
             /\ v.next[m] = IF m \in S THEN NULL ELSE u.next[m]
             /\ v.parent[m] = IF m \in S THEN NULL ELSE u.parent[m]
             /\ v.first_child[m] = IF m \in S THEN NULL ELSE u.first_child[m]
    BY <1>1, FreedFields
  <1>3. \A m \in Nodes : u.parent[m] = IF m = n THEN NULL ELSE t.parent[m]
    BY UnlinkedFields
  <1>4. \A p \in Nodes : IsList(u, p, c[p])
    BY DetachedList
  <1> HIDE DEF u
  <1>5. ASSUME NEW p \in Nodes, p \in S PROVE IsList(v, p, << >>)
    <2>1. << >> \in Seq(Nodes) /\ Len(<< >>) = 0
      OBVIOUS
    <2>2. v.first_child[p] = NULL
      BY <1>2, <1>5
    <2>3. \A m \in Nodes : v.parent[m] # p
      BY <1>1, <1>2, <1>3, <1>5
    <2> QED BY <2>1, <2>2, <2>3 DEF IsList
  <1>6. ASSUME NEW p \in Nodes, p \notin S PROVE IsList(v, p, c[p])
    <2> DEFINE q == c[p]
    <2>1. IsList(u, p, q)
      BY <1>4
    <2> HIDE DEF q
    <2>2. \A j \in 1 .. Len(q) : q[j] \in Nodes /\ u.parent[q[j]] = p
      BY <2>1, ElementOfSeq DEF IsList
    <2>3. \A j \in 1 .. Len(q) : q[j] \notin S
      BY <1>1, <1>3, <1>6, <2>2
    <2>4. \A j \in 1 .. Len(q) : v.next[q[j]] = u.next[q[j]] /\ v.parent[q[j]] = p
      BY <1>2, <2>2, <2>3
    <2>5. v.first_child[p] = u.first_child[p]
      BY <1>2, <1>6
    <2>6. \A m \in Nodes : v.parent[m] = p => u.parent[m] = p
      BY <1>2
    <2>7. IsList(v, p, q)
      BY <2>1, <2>4, <2>5, <2>6 DEF IsList
    <2> QED BY <2>7 DEF q
  <1>7. \A p \in Nodes : IsList(v, p, d[p])
    BY <1>5, <1>6
  <1>8. HasLists(v) /\ SeqsOf(v) = [p \in Nodes |-> d[p]]
    <2> HIDE DEF d
    <2> QED BY <1>7, SeqsAre
  <1> QED BY <1>8

-----------------------------------------------------------------------------
(* Every operation is a step of the forest.                                *)

\* The lists of the tree are those of the forest.
LEMMA ChildrenAre == Children = SeqsOf(tree) /\ Children' = SeqsOf(tree')
  BY DEF Children, SeqsOf

\* The forest invariant: every node's children form a list.
FInv == IInv /\ HasLists(tree)

\* The invariant in terms of the lemmas' predicates.
LEMMA FInvGives ==
    ASSUME FInv
    PROVE  /\ NULL \notin Nodes /\ live \subseteq Nodes
           /\ tree \in Trees /\ Shape(tree) /\ Links(tree) /\ HasLists(tree)
           /\ Untouched(tree, live) /\ Good(tree, live)
           /\ \A n \in Nodes : tree.parent[n] # NULL => tree.parent[n] \in live
  <1>1. /\ live \subseteq Nodes /\ Good(tree, live)
    BY IInvIsGood DEF FInv
  <1>2. tree \in Trees /\ Shape(tree) /\ Links(tree) /\ Untouched(tree, live)
    BY <1>1 DEF Good, Shape
  <1>3. \A n \in Nodes : tree.parent[n] # NULL => tree.parent[n] \in live
    BY <1>2 DEF Untouched, Trees, Ptr
  <1> QED BY <1>1, <1>2, <1>3, NodeTreeAssumption DEF FInv

\* What lies below n in the forest is its subtree.
LEMMA BelowIsSubtree ==
    ASSUME FInv, NEW n \in live
    PROVE  F!Below(n) = Subtree(tree, n)
  <1> DEFINE T == Subtree(tree, n)
  <1>1. /\ NULL \notin Nodes /\ live \subseteq Nodes /\ tree \in Trees
        /\ Shape(tree) /\ HasLists(tree) /\ Untouched(tree, live) /\ n \in Nodes
    BY FInvGives
  <1>2. /\ n \in T /\ T \subseteq Nodes
        /\ \A m \in Nodes : tree.parent[m] \in T => m \in T
        /\ \A m \in T : m # n => tree.parent[m] \in T
    BY <1>1, SubtreeClosed
  <1> HIDE DEF T
  <1>3. T \subseteq live
    <2> SUFFICES ASSUME NEW m \in T, m \notin live PROVE FALSE
      OBVIOUS
    <2>1. tree.parent[m] = NULL
      BY <1>1, <1>2 DEF Untouched
    <2> QED BY <1>1, <1>2, <2>1
  <1>4. \A k \in Nodes : ToSet(Children[k]) = {m \in Nodes : tree.parent[m] = k}
    <2> SUFFICES ASSUME NEW k \in Nodes
                 PROVE  ToSet(Children[k]) = {m \in Nodes : tree.parent[m] = k}
      OBVIOUS
    <2> DEFINE q == Children[k]
    <2>1. IsList(tree, k, q)
      BY <1>1, ChildSeqLists DEF Children
    <2> HIDE DEF q
    <2>2. DOMAIN q = 1 .. Len(q) /\ \A j \in 1 .. Len(q) : q[j] \in Nodes
      BY <2>1, LenProperties, ElementOfSeq DEF IsList
    <2>3. ToSet(q) = {q[j] : j \in 1 .. Len(q)}
      BY <2>2 DEF ToSet
    <2>4. ToSet(q) = {m \in Nodes : tree.parent[m] = k}
      BY <2>1, <2>2, <2>3 DEF IsList
    <2> QED BY <2>4 DEF q
  <1>5. F!Below(n) =
          {m \in live : \A S \in SUBSET live :
             (n \in S /\ \A k \in S : ToSet(Children[k]) \subseteq S) => m \in S}
    BY SameOperators DEF F!Below
  <1>6. ASSUME NEW S \in SUBSET live,
               n \in S, \A k \in S : ToSet(Children[k]) \subseteq S
        PROVE  T \subseteq S
    <2> SUFFICES ASSUME T \ S # {} PROVE FALSE
      OBVIOUS
    <2>1. T \ S \in SUBSET Nodes
      BY <1>2
    <2>2. PICK m \in T \ S : tree.parent[m] \notin T \ S
      BY <1>1, <2>1 DEF Shape, WellFounded
    <2>3. m \in Nodes /\ m # n /\ tree.parent[m] \in T
      BY <1>2, <1>6, <2>2
    <2>4. tree.parent[m] \in S /\ tree.parent[m] \in Nodes
      BY <1>2, <2>2, <2>3
    <2>5. m \in ToSet(Children[tree.parent[m]])
      BY <1>4, <2>3, <2>4
    <2> QED BY <1>6, <2>2, <2>4, <2>5
  <1>7. n \in T /\ \A k \in T : ToSet(Children[k]) \subseteq T
    BY <1>2, <1>4
  <1>8. ASSUME NEW m \in F!Below(n) PROVE m \in T
    BY <1>3, <1>5, <1>7, <1>8
  <1>9. ASSUME NEW m \in T PROVE m \in F!Below(n)
    BY <1>3, <1>5, <1>6, <1>9
  <1>10. F!Below(n) = T
    BY <1>8, <1>9
  <1> QED BY <1>10 DEF T

\* What a step that moves c under p, at place i of its list, has to show.
LEMMA PlaceStep ==
    ASSUME FInv, NEW p \in live, NEW c \in live, c \notin AncSelf(tree, p),
           NEW d, d = F!Detached(SeqsOf(tree), c),
           NEW i \in 1 .. Len(d[p]) + 1, live' = live,
           SeqsOf(tree') = F!Placed(d, p, i, c)
    PROVE  F!Place(p, i, c)
  <1>1. p \notin F!Below(c)
    BY BelowIsSubtree DEF Subtree
  <1>2. Children = SeqsOf(tree) /\ Children' = SeqsOf(tree')
    BY ChildrenAre
  <1> QED BY <1>1, <1>2 DEF F!Place

\* Taking a node out makes no list longer.
LEMMA DetachedLen ==
    ASSUME FInv, NEW p \in Nodes, NEW c \in Nodes
    PROVE  /\ Len(Children[p]) \in Nat
           /\ Len(F!Detached(SeqsOf(tree), c)[p]) \in Nat
           /\ Len(F!Detached(SeqsOf(tree), c)[p]) <= Len(Children[p])
  <1> DEFINE q == ChildSeq(tree, p)
  <1>1. F!Detached(SeqsOf(tree), c)[p] = RemoveFirst(q, c) /\ Children[p] = q
    BY SameOperators DEF F!Detached, SeqsOf, Children
  <1>2. IsList(tree, p, q)
    BY FInvGives, ChildSeqLists
  <1> HIDE DEF q
  <1>3. q \in Seq(Nodes) /\ Len(q) \in Nat
    BY <1>2, LenProperties DEF IsList
  <1>4. CASE \A j \in 1 .. Len(q) : q[j] # c
    BY <1>1, <1>3, <1>4, RemoveFirstOfNone
  <1>5. ASSUME NEW i \in 1 .. Len(q), q[i] = c
        PROVE  Len(RemoveFirst(q, c)) = Len(q) - 1
    <2>1. \A j \in 1 .. Len(q) : q[j] = q[i] => j = i
      BY <1>2 DEF IsList
    <2>2. RemoveFirst(q, c) = Dropped(q, i)
      BY <1>3, <1>5, <2>1, RemoveFirstIsDropped
    <2> QED BY <1>3, <1>5, <2>2, DroppedIsSeq
  <1>6. CASE \E i \in 1 .. Len(q) : q[i] = c
    <2>1. PICK i \in 1 .. Len(q) : q[i] = c
      BY <1>6
    <2>2. Len(RemoveFirst(q, c)) = Len(q) - 1
      BY <1>5, <2>1
    <2>3. Len(q) - 1 \in Nat /\ Len(q) - 1 <= Len(q)
      BY <1>3, <2>1
    <2> QED BY <1>1, <1>3, <2>2, <2>3
  <1> QED BY <1>4, <1>6

\* The place of x in the list q.
Spot(q, x) == CHOOSE i \in 1 .. Len(q) : q[i] = x

\* The list of p once c is taken out of wherever it is.
RestOf(p, c) == F!Detached(SeqsOf(tree), c)[p]

\* A refused relinking changes nothing.
Refused == ret' # 1 /\ tree' = tree /\ live' = live

\* A relinking operation is refused or builds the new tree.
LEMMA RelinkOutcome ==
    ASSUME NEW ok \in BOOLEAN, NEW t, Relink(ok, t)
    PROVE  Refused \/ (ok /\ live' = live /\ tree' = t)
  BY DEF Relink, Refused

\* A successful insertion next to a sibling.
LEMMA SiblingPlace ==
    ASSUME FInv, NEW n \in live, NEW m \in live, n # m,
           S_can_contain(tree.parent[n], m, type[m]),
           tree.parent[n] # NULL => NoLoop(tree.parent[n], m)
    PROVE  /\ tree.parent[n] # NULL /\ tree.parent[n] \in live
           /\ m \notin AncSelf(tree, tree.parent[n])
           /\ Accepts(tree.parent[n], m, type)
           /\ Spot(RestOf(tree.parent[n], m), n)
                \in 1 .. Len(RestOf(tree.parent[n], m))
           /\ RestOf(tree.parent[n], m)[Spot(RestOf(tree.parent[n], m), n)] = n
           /\ Len(RestOf(tree.parent[n], m)) \in Nat
           /\ Len(Children[tree.parent[n]]) \in Nat
           /\ Len(RestOf(tree.parent[n], m)) <= Len(Children[tree.parent[n]])
  <1> DEFINE p == tree.parent[n]
             q == RestOf(p, m)
  <1>1. n \in Nodes /\ m \in Nodes /\ p \in Ptr
    BY FInvGives DEF Trees
  <1>2. p # NULL /\ p \in Nodes /\ m \notin AncSelf(tree, p) /\ Accepts(p, m, type)
    BY <1>1, CanContainMeans
  <1>3. p \in live
    BY <1>1, <1>2, FInvGives
  <1>4. \E k \in 1 .. Len(q) : q[k] = n
    <2>1. \E k \in 1 .. Len(F!Detached(SeqsOf(tree), m)[p]) :
             F!Detached(SeqsOf(tree), m)[p][k] = n
      BY <1>1, <1>2, FInvGives, HasIndex
    <2> QED BY <2>1 DEF RestOf
  <1>5. Spot(q, n) \in 1 .. Len(q) /\ q[Spot(q, n)] = n
    BY <1>4 DEF Spot
  <1>6. Len(q) \in Nat /\ Len(Children[p]) \in Nat /\ Len(q) <= Len(Children[p])
    BY <1>1, <1>2, DetachedLen DEF RestOf
  <1> QED BY <1>2, <1>3, <1>5, <1>6

\* cmark_node_insert_before is refused or a placement.
LEMMA InsertBeforeStep ==
    ASSUME ~SelfSibling, FInv, NEW n \in live, NEW m \in live,
           cmark_node_insert_before(n, m),
           NEW p, p = tree.parent[n], NEW i, i = Spot(RestOf(p, m), n)
    PROVE  /\ HasLists(tree')
           /\ \/ Refused
              \/ p \in live /\ i \in 1 .. Len(Children[p]) + 1 /\ F!Place(p, i, m)
  <1> DEFINE ok == S_can_contain(tree.parent[n], m, type[m])
  <1>1. n # m /\ Relink(ok, InsertedBefore(tree, n, m))
    BY DEF cmark_node_insert_before
  <1>2. tree.parent[n] # NULL => NoLoop(tree.parent[n], m)
    BY DEF cmark_node_insert_before
  <1>3. ok \in BOOLEAN
    BY DEF S_can_contain
  <1>4. ok => /\ p # NULL /\ p \in live /\ m \notin AncSelf(tree, p)
              /\ i \in 1 .. Len(RestOf(p, m)) /\ RestOf(p, m)[i] = n
              /\ Len(RestOf(p, m)) \in Nat /\ Len(Children[p]) \in Nat
              /\ Len(RestOf(p, m)) <= Len(Children[p])
    BY <1>1, <1>2, SiblingPlace
  <1> HIDE DEF ok
  <1>5. CASE Refused
    BY <1>5, FInvGives DEF Refused
  <1>6. CASE ok /\ live' = live /\ tree' = InsertedBefore(tree, n, m)
    <2> DEFINE c == F!Detached(SeqsOf(tree), m)
    <2>1. c[p] = RestOf(p, m) /\ c = F!Detached(SeqsOf(tree), m)
      BY DEF RestOf
    <2>2. n \in Nodes /\ m \in Nodes
      BY FInvGives
    <2>3. i \in 1 .. Len(c[p]) /\ c[p][i] = n /\ p # NULL
      BY <1>4, <1>6, <2>1
    <2> HIDE DEF c
    <2>4. HasLists(tree') /\ SeqsOf(tree') = F!Placed(c, p, i, m)
      BY <1>1, <1>6, <2>1, <2>2, <2>3, FInvGives, InsertedBeforeForest
    <2>5. i \in 1 .. Len(c[p]) + 1 /\ i \in 1 .. Len(Children[p]) + 1
      BY <1>4, <1>6, <2>1, <2>3
    <2>6. F!Place(p, i, m)
      BY <1>4, <1>6, <2>1, <2>4, <2>5, PlaceStep
    <2> QED BY <1>4, <1>6, <2>4, <2>5, <2>6
  <1> QED BY <1>1, <1>3, <1>5, <1>6, RelinkOutcome

\* cmark_node_insert_after is refused or a placement.
LEMMA InsertAfterStep ==
    ASSUME ~SelfSibling, FInv, NEW n \in live, NEW m \in live,
           cmark_node_insert_after(n, m),
           NEW p, p = tree.parent[n], NEW i, i = Spot(RestOf(p, m), n)
    PROVE  /\ HasLists(tree')
           /\ \/ Refused
              \/ /\ p \in live /\ i + 1 \in 1 .. Len(Children[p]) + 1
                 /\ F!Place(p, i + 1, m)
  <1> DEFINE ok == S_can_contain(tree.parent[n], m, type[m])
  <1>1. n # m /\ Relink(ok, InsertedAfter(tree, n, m))
    BY DEF cmark_node_insert_after
  <1>2. tree.parent[n] # NULL => NoLoop(tree.parent[n], m)
    BY DEF cmark_node_insert_after
  <1>3. ok \in BOOLEAN
    BY DEF S_can_contain
  <1>4. ok => /\ p # NULL /\ p \in live /\ m \notin AncSelf(tree, p)
              /\ i \in 1 .. Len(RestOf(p, m)) /\ RestOf(p, m)[i] = n
              /\ Len(RestOf(p, m)) \in Nat /\ Len(Children[p]) \in Nat
              /\ Len(RestOf(p, m)) <= Len(Children[p])
    BY <1>1, <1>2, SiblingPlace
  <1> HIDE DEF ok
  <1>5. CASE Refused
    BY <1>5, FInvGives DEF Refused
  <1>6. CASE ok /\ live' = live /\ tree' = InsertedAfter(tree, n, m)
    <2> DEFINE c == F!Detached(SeqsOf(tree), m)
    <2>1. c[p] = RestOf(p, m) /\ c = F!Detached(SeqsOf(tree), m)
      BY DEF RestOf
    <2>2. n \in Nodes /\ m \in Nodes
      BY FInvGives
    <2>3. i \in 1 .. Len(c[p]) /\ c[p][i] = n /\ p # NULL
      BY <1>4, <1>6, <2>1
    <2> HIDE DEF c
    <2>4. HasLists(tree') /\ SeqsOf(tree') = F!Placed(c, p, i + 1, m)
      BY <1>1, <1>6, <2>1, <2>2, <2>3, FInvGives, InsertedAfterForest
    <2>5. i + 1 \in 1 .. Len(c[p]) + 1 /\ i + 1 \in 1 .. Len(Children[p]) + 1
      BY <1>4, <1>6, <2>1, <2>3
    <2>6. F!Place(p, i + 1, m)
      BY <1>4, <1>6, <2>1, <2>4, <2>5, PlaceStep
    <2> QED BY <1>4, <1>6, <2>4, <2>5, <2>6
  <1> QED BY <1>1, <1>3, <1>5, <1>6, RelinkOutcome

\* cmark_node_prepend_child is refused or a placement.
LEMMA PrependStep ==
    ASSUME FInv, NEW n \in live, NEW m \in live, cmark_node_prepend_child(n, m)
    PROVE  /\ HasLists(tree')
           /\ \/ Refused
              \/ 1 \in 1 .. Len(Children[n]) + 1 /\ F!Place(n, 1, m)
  <1> DEFINE ok == S_can_contain(n, m, type[m])
             c == F!Detached(SeqsOf(tree), m)
  <1>1. Relink(ok, Prepended(tree, n, m)) /\ NoLoop(n, m)
    BY DEF cmark_node_prepend_child
  <1>2. n \in Nodes /\ m \in Nodes /\ n \in Ptr
    BY FInvGives DEF Ptr
  <1>3. ok \in BOOLEAN
    BY DEF S_can_contain
  <1>4. ok => m \notin AncSelf(tree, n)
    BY <1>1, <1>2, CanContainMeans
  <1>5. Len(Children[n]) \in Nat /\ Len(c[n]) \in Nat
    BY <1>2, DetachedLen
  <1>6. c = F!Detached(SeqsOf(tree), m)
    OBVIOUS
  <1> HIDE DEF ok, c
  <1>7. CASE Refused
    BY <1>7, FInvGives DEF Refused
  <1>8. CASE ok /\ live' = live /\ tree' = Prepended(tree, n, m)
    <2>1. HasLists(tree') /\ SeqsOf(tree') = F!Placed(c, n, 1, m)
      BY <1>2, <1>6, <1>8, FInvGives, PrependedForest
    <2>2. 1 \in 1 .. Len(c[n]) + 1 /\ 1 \in 1 .. Len(Children[n]) + 1
      BY <1>5
    <2>3. F!Place(n, 1, m)
      BY <1>4, <1>6, <1>8, <2>1, <2>2, PlaceStep
    <2> QED BY <2>1, <2>2, <2>3
  <1> QED BY <1>1, <1>3, <1>7, <1>8, RelinkOutcome

\* cmark_node_append_child is refused or a placement.
LEMMA AppendStep ==
    ASSUME FInv, NEW n \in live, NEW m \in live, cmark_node_append_child(n, m),
           NEW i, i = Len(RestOf(n, m)) + 1
    PROVE  /\ HasLists(tree')
           /\ \/ Refused
              \/ i \in 1 .. Len(Children[n]) + 1 /\ F!Place(n, i, m)
  <1> DEFINE ok == S_can_contain(n, m, type[m])
             c == F!Detached(SeqsOf(tree), m)
  <1>1. Relink(ok, Appended(tree, n, m)) /\ NoLoop(n, m)
    BY DEF cmark_node_append_child
  <1>2. n \in Nodes /\ m \in Nodes /\ n \in Ptr
    BY FInvGives DEF Ptr
  <1>3. ok \in BOOLEAN
    BY DEF S_can_contain
  <1>4. ok => m \notin AncSelf(tree, n)
    BY <1>1, <1>2, CanContainMeans
  <1>5. /\ Len(Children[n]) \in Nat /\ Len(c[n]) \in Nat
        /\ Len(c[n]) <= Len(Children[n])
    BY <1>2, DetachedLen
  <1>6. c = F!Detached(SeqsOf(tree), m) /\ i = Len(c[n]) + 1
    BY DEF RestOf
  <1> HIDE DEF ok, c
  <1>7. CASE Refused
    BY <1>7, FInvGives DEF Refused
  <1>8. CASE ok /\ live' = live /\ tree' = Appended(tree, n, m)
    <2>1. HasLists(tree') /\ SeqsOf(tree') = F!Placed(c, n, i, m)
      BY <1>2, <1>6, <1>8, FInvGives, AppendedForest
    <2>2. i \in 1 .. Len(c[n]) + 1 /\ i \in 1 .. Len(Children[n]) + 1
      BY <1>5, <1>6
    <2>3. F!Place(n, i, m)
      BY <1>4, <1>6, <1>8, <2>1, <2>2, PlaceStep
    <2> QED BY <2>1, <2>2, <2>3
  <1> QED BY <1>1, <1>3, <1>7, <1>8, RelinkOutcome

\* cmark_node_replace is refused or a substitution.
LEMMA ReplaceStep ==
    ASSUME ~SelfSibling, FInv, NEW n \in live, NEW m \in live,
           cmark_node_replace(n, m)
    PROVE  HasLists(tree') /\ (Refused \/ F!Substitute(n, m))
  <1> DEFINE ok == S_can_contain(tree.parent[n], m, type[m])
             p == tree.parent[n]
             w == InsertedBefore(tree, n, m)
             c == F!Detached(SeqsOf(tree), m)
             i == Spot(RestOf(p, m), n)
  <1>1. n # m /\ Relink(ok, Unlinked(w, n))
    BY DEF cmark_node_replace
  <1>2. p # NULL => NoLoop(p, m)
    BY DEF cmark_node_replace
  <1>3. ok \in BOOLEAN
    BY DEF S_can_contain
  <1>4. ok => /\ p # NULL /\ p \in live /\ m \notin AncSelf(tree, p)
              /\ Accepts(p, m, type)
              /\ i \in 1 .. Len(RestOf(p, m)) /\ RestOf(p, m)[i] = n
    BY <1>1, <1>2, SiblingPlace
  <1>5. /\ c = F!Detached(SeqsOf(tree), m) /\ c[p] = RestOf(p, m)
        /\ w = InsertedBefore(tree, n, m) /\ p = tree.parent[n]
    BY DEF RestOf
  <1>6. n \in Nodes /\ m \in Nodes
    BY FInvGives
  <1> HIDE DEF ok, c, i, w, p
  <1>7. CASE Refused
    BY <1>7, FInvGives DEF Refused
  <1>8. CASE ok /\ live' = live /\ tree' = Unlinked(w, n)
    <2>1. i \in 1 .. Len(c[p]) /\ c[p][i] = n /\ p # NULL
      BY <1>4, <1>5, <1>8
    <2>2. Good(w, live)
      BY <1>1, <1>4, <1>5, <1>6, <1>8, FInvGives, InsertedBeforeGood
         DEF Accepts
    <2>3. w \in Trees /\ Shape(w)
      BY <2>2 DEF Good
    <2>4. HasLists(tree') /\ SeqsOf(tree') = Swapped(c, p, i, m)
      <3>1. NULL \notin Nodes /\ tree \in Trees /\ Shape(tree) /\ HasLists(tree)
        BY FInvGives
      <3> DEFINE x == Unlinked(w, n)
      <3>2. tree' = x /\ x = Unlinked(w, n)
        BY <1>8
      <3> HIDE DEF x
      <3>3. HasLists(x) /\ SeqsOf(x) = Swapped(c, p, i, m)
        BY ONLY <1>1, <1>5, <1>6, <2>1, <2>3, <3>1, <3>2, ReplacedForest
      <3> QED BY <3>2, <3>3
    <2>5. p \notin F!Below(m)
      BY <1>4, <1>8, BelowIsSubtree DEF Subtree
    <2>6. Children = SeqsOf(tree) /\ Children' = SeqsOf(tree')
      BY ChildrenAre
    <2>7. F!Substitute(n, m)
      BY <1>1, <1>4, <1>5, <1>8, <2>1, <2>4, <2>5, <2>6
         DEF F!Substitute, Swapped
    <2> QED BY <2>4, <2>7
  <1> QED BY <1>1, <1>3, <1>7, <1>8, RelinkOutcome

\* cmark_node_unlink detaches.
LEMMA UnlinkStep ==
    ASSUME FInv, NEW n \in live, cmark_node_unlink(n)
    PROVE  HasLists(tree') /\ F!Detach(n)
  <1>1. tree' = Unlinked(tree, n) /\ live' = live /\ n \in Nodes
    BY FInvGives DEF cmark_node_unlink
  <1>2. HasLists(tree') /\ SeqsOf(tree') = F!Detached(SeqsOf(tree), n)
    BY <1>1, FInvGives, UnlinkedForest
  <1> QED BY <1>1, <1>2, ChildrenAre DEF F!Detach

\* cmark_node_free deletes all that is below n.
LEMMA FreeStep ==
    ASSUME FInv, NEW n \in live, cmark_node_free(n)
    PROVE  HasLists(tree') /\ F!Delete(n)
  <1> DEFINE S == Subtree(tree, n)
             c == F!Detached(SeqsOf(tree), n)
  <1>1. /\ tree' = Freed(S_node_unlink(tree, n), S) /\ live' = live \ S
        /\ n \in Nodes /\ S = Subtree(tree, n) /\ c = F!Detached(SeqsOf(tree), n)
    BY FInvGives DEF cmark_node_free
  <1>2. n \in S
    BY <1>1, FInvGives, SubtreeClosed
  <1>3. F!Below(n) = S
    BY BelowIsSubtree
  <1> HIDE DEF S, c
  <1>4. /\ HasLists(tree')
        /\ SeqsOf(tree') = [p \in Nodes |-> IF p \in S THEN << >> ELSE c[p]]
    BY <1>1, FInvGives, FreedForest
  <1>5. F!Delete(n)
    <2>1. n \notin live' /\ live' = live \ F!Below(n)
      BY <1>1, <1>2, <1>3
    <2>2. Children' = [p \in Nodes |-> IF p \in F!Below(n) THEN << >>
                                       ELSE F!Detached(Children, n)[p]]
      BY <1>1, <1>3, <1>4, ChildrenAre
    <2> QED BY <2>1, <2>2 DEF F!Delete
  <1> QED BY <1>4, <1>5

\* Every step keeps the lists and is a step of the forest.
LEMMA NextForest ==
    ASSUME ~SelfSibling, FInv, [Next]_vars
    PROVE  HasLists(tree') /\ [F!FNext]_F!fvars
  <1>1. ASSUME tree' = tree, live' = live
        PROVE  HasLists(tree') /\ UNCHANGED F!fvars
    BY <1>1, FInvGives, ChildrenAre DEF F!fvars
  <1>2. ASSUME NEW b \in BOOLEAN, cmark_enable_safety_checks(b)
        PROVE  HasLists(tree') /\ UNCHANGED F!fvars
    BY <1>1, <1>2 DEF cmark_enable_safety_checks
  <1>3. ASSUME NEW n \in Nodes, NEW ty \in TypesUsed, cmark_node_new(n, ty)
        PROVE  HasLists(tree') /\ F!FNext
    <2>1. tree' = tree /\ n \notin live /\ live' = live \union {n}
      BY <1>3 DEF cmark_node_new
    <2>2. F!Create(n)
      BY <2>1, ChildrenAre DEF F!Create
    <2> QED BY <2>1, <2>2, FInvGives DEF F!FNext
  <1>4. ASSUME NEW n \in live, cmark_node_unlink(n)
        PROVE  HasLists(tree') /\ F!FNext
    BY <1>4, UnlinkStep DEF F!FNext
  <1>5. ASSUME NEW n \in live, cmark_node_free(n)
        PROVE  HasLists(tree') /\ F!FNext
    BY <1>5, FreeStep DEF F!FNext
  <1>6. ASSUME Refused PROVE [F!FNext]_F!fvars
    BY <1>1, <1>6 DEF Refused
  <1>7. ASSUME NEW p \in live, NEW n \in live, NEW i \in 1 .. Len(Children[p]) + 1,
               F!Place(p, i, n)
        PROVE  F!FNext
    BY <1>7 DEF F!FNext
  <1>8. ASSUME NEW n \in live, NEW m \in live, cmark_node_insert_before(n, m)
        PROVE  HasLists(tree') /\ [F!FNext]_F!fvars
    BY <1>6, <1>7, <1>8, InsertBeforeStep
  <1>9. ASSUME NEW n \in live, NEW m \in live, cmark_node_insert_after(n, m)
        PROVE  HasLists(tree') /\ [F!FNext]_F!fvars
    BY <1>6, <1>7, <1>9, InsertAfterStep
  <1>10. ASSUME NEW n \in live, NEW m \in live, cmark_node_replace(n, m)
         PROVE  HasLists(tree') /\ [F!FNext]_F!fvars
    <2>1. HasLists(tree') /\ (Refused \/ F!Substitute(n, m))
      BY <1>10, ReplaceStep
    <2>2. F!Substitute(n, m) => F!FNext
      BY DEF F!FNext
    <2> QED BY <1>6, <2>1, <2>2
  <1>11. ASSUME NEW n \in live, NEW m \in live, cmark_node_prepend_child(n, m)
         PROVE  HasLists(tree') /\ [F!FNext]_F!fvars
    BY <1>6, <1>7, <1>11, PrependStep
  <1>12. ASSUME NEW n \in live, NEW m \in live, cmark_node_append_child(n, m)
         PROVE  HasLists(tree') /\ [F!FNext]_F!fvars
    BY <1>6, <1>7, <1>12, AppendStep
  <1>13. ASSUME NEW n \in live, NEW ty \in TypesUsed, cmark_node_set_type(n, ty)
         PROVE  HasLists(tree') /\ UNCHANGED F!fvars
    BY <1>1, <1>13 DEF cmark_node_set_type
  <1>14. CASE UNCHANGED vars
    BY <1>1, <1>14 DEF vars
  <1> QED BY <1>2, <1>3, <1>4, <1>5, <1>8, <1>9, <1>10, <1>11, <1>12, <1>13,
             <1>14 DEF Next

\* Every step puts the node where the header says.
LEMMA NextDocumented ==
    ASSUME ~SelfSibling, FInv
    PROVE  DocumentedPlace
  <1> SUFFICES ASSUME tree' # tree, ret' = 1, NEW n \in live, NEW m \in live
               PROVE  LET c == F!Detached(Children, m)
                          p == tree.parent[n]
                          at == CHOOSE i \in 1 .. Len(c[p]) : c[p][i] = n
                      IN  /\ cmark_node_prepend_child(n, m) => F!Place(n, 1, m)
                          /\ cmark_node_append_child(n, m) => F!Place(n, Len(c[n]) + 1, m)
                          /\ cmark_node_insert_before(n, m) => F!Place(p, at, m)
                          /\ cmark_node_insert_after(n, m) => F!Place(p, at + 1, m)
                          /\ cmark_node_replace(n, m) => F!Substitute(n, m)
    BY DEF DocumentedPlace
  <1> DEFINE c == F!Detached(Children, m)
             p == tree.parent[n]
             at == CHOOSE i \in 1 .. Len(c[p]) : c[p][i] = n
  <1>1. ~Refused
    BY DEF Refused
  <1>2. /\ RestOf(n, m) = c[n]
        /\ Spot(RestOf(p, m), n) = at
    BY ChildrenAre DEF RestOf, Spot
  <1>3. cmark_node_prepend_child(n, m) => F!Place(n, 1, m)
    BY <1>1, PrependStep
  <1>4. cmark_node_append_child(n, m) => F!Place(n, Len(RestOf(n, m)) + 1, m)
    BY <1>1, AppendStep
  <1>5. cmark_node_insert_before(n, m) => F!Place(p, Spot(RestOf(p, m), n), m)
    BY <1>1, InsertBeforeStep
  <1>6. cmark_node_insert_after(n, m) => F!Place(p, Spot(RestOf(p, m), n) + 1, m)
    BY <1>1, InsertAfterStep
  <1>7. cmark_node_replace(n, m) => F!Substitute(n, m)
    BY <1>1, ReplaceStep
  <1> HIDE DEF c, p, at
  <1>8. /\ cmark_node_prepend_child(n, m) => F!Place(n, 1, m)
        /\ cmark_node_append_child(n, m) => F!Place(n, Len(c[n]) + 1, m)
        /\ cmark_node_insert_before(n, m) => F!Place(p, at, m)
        /\ cmark_node_insert_after(n, m) => F!Place(p, at + 1, m)
        /\ cmark_node_replace(n, m) => F!Substitute(n, m)
    BY <1>2, <1>3, <1>4, <1>5, <1>6, <1>7
  <1> QED BY <1>8 DEF c, p, at

\* Initially there is no node, and no node has a child.
LEMMA InitForest == Init => FInv /\ F!FInit
  <1> SUFFICES ASSUME Init PROVE FInv /\ F!FInit
    OBVIOUS
  <1>1. IInv
    BY InitIInv
  <1>2. /\ live = {}
        /\ \A m \in Nodes : tree.parent[m] = NULL /\ tree.first_child[m] = NULL
    BY DEF Init
  <1>3. NULL \notin Nodes
    BY NodeTreeAssumption
  <1>4. \A p \in Nodes : IsList(tree, p, << >>)
    <2>1. << >> \in Seq(Nodes) /\ Len(<< >>) = 0
      OBVIOUS
    <2> QED BY <1>2, <1>3, <2>1 DEF IsList
  <1>5. HasLists(tree)
    BY <1>4 DEF HasLists
  <1>6. \A p \in Nodes : ChildSeq(tree, p) = << >>
    BY <1>3, <1>4, ChildSeqIs
  <1> QED BY <1>1, <1>2, <1>5, <1>6 DEF FInv, F!FInit, Children

\* For every set of nodes, assignment of allocators and set of types, and for
\* every sequence of calls by a client that keeps the contract of NodeTree and
\* inserts no node next to itself: the pointers always read as a forest of
\* child lists, and every call is one step of that forest, the one cmark-gfm.h
\* names (the operations of node.c).
THEOREM NodeTreeImplementsForest ==
    ASSUME ~SelfSibling
    PROVE  Spec => ImplementsForest
  <1>1. Init => FInv /\ F!FInit
    BY InitForest
  <1>2. FInv /\ [Next]_vars => FInv'
    BY NextIInv, NextForest DEF FInv
  <1>3. FInv /\ [Next]_vars => [F!FNext]_F!fvars
    BY NextForest
  <1>4. FInv /\ [Next]_vars => [DocumentedPlace]_vars
    BY NextDocumented
  <1> QED BY <1>1, <1>2, <1>3, <1>4, PTL DEF Spec, ImplementsForest, F!FSpec

=============================================================================

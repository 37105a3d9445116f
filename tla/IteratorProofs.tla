--------------------------- MODULE IteratorProofs ---------------------------
(***************************************************************************)
(* The safety properties of Iterator and NodeFree, for any tree and any    *)
(* changes of the client: the loop of S_free_nodes frees a subtree and     *)
(* nothing else, the event computed ahead stays on a live node, and the    *)
(* events nest.                                                            *)
(***************************************************************************)
EXTENDS Iterator, NodeLinksProofs, WellFoundedInduction

-----------------------------------------------------------------------------
(* The list of S_free_nodes, apart from trees: X is what is on the list, x *)
(* is where it starts, and f leads from each node to the next.             *)

Worklist(f, X, x) ==
    /\ x \in X \union {NULL}
    /\ \A m \in X : f[m] \in (X \ {x}) \union {NULL}
    /\ \A m, k \in X : f[m] = f[k] /\ f[m] # NULL => m = k
    /\ \A Y \in SUBSET X :
          x \in Y \union {NULL} /\ (\A m \in Y : f[m] \in Y \union {NULL}) => Y = X

\* The first node is taken off.
LEMMA WorklistTail ==
    ASSUME NEW f, NEW X, NEW x \in X, NULL \notin X, Worklist(f, X, x),
           NEW g, \A m \in X \ {x} : g[m] = f[m]
    PROVE  Worklist(g, X \ {x}, f[x])
<1> DEFINE X2 == X \ {x}
<1>1. f[x] \in X2 \union {NULL}
  BY DEF Worklist
<1>2. \A m \in X2 : g[m] \in (X2 \ {f[x]}) \union {NULL}
  BY DEF Worklist
<1>3. \A m, k \in X2 : g[m] = g[k] /\ g[m] # NULL => m = k
  BY DEF Worklist
<1>4. ASSUME NEW Y \in SUBSET X2, f[x] \in Y \union {NULL},
             \A m \in Y : g[m] \in Y \union {NULL}
      PROVE  Y = X2
  <2> DEFINE Z == Y \union {x}
  <2>1. Z \in SUBSET X /\ x \in Z /\ \A m \in Z : f[m] \in Z \union {NULL}
    BY <1>4
  <2> HIDE DEF Z
  <2>2. Z = X
    BY <2>1 DEF Worklist
  <2> QED BY <2>2 DEF Z
<1> QED BY <1>1, <1>2, <1>3, <1>4 DEF Worklist

\* The first node is taken off, and a list K from a to z takes its place.
LEMMA WorklistSpliced ==
    ASSUME NEW f, NEW X, NEW x \in X, NULL \notin X, Worklist(f, X, x),
           NEW K, NULL \notin K, K \intersect X = {}, NEW a \in K, NEW z \in K,
           NEW g, \A m \in X \ {x} : g[m] = f[m], g[z] = f[x],
           \A m \in K \ {z} : g[m] \in K \ {a},
           \A m, k \in K \ {z} : g[m] = g[k] => m = k,
           \A Y \in SUBSET K : a \in Y /\ (\A m \in Y \ {z} : g[m] \in Y) => Y = K
    PROVE  Worklist(g, (X \ {x}) \union K, a)
<1> DEFINE X2 == (X \ {x}) \union K
<1>1. g[z] \in (X \ {x}) \union {NULL} /\ \A m \in X \ {x} : g[m] \in (X \ {x}) \union {NULL}
  BY DEF Worklist
<1>2. \A m \in X2 : g[m] \in (X2 \ {a}) \union {NULL}
  BY <1>1
<1>3. ASSUME NEW m \in X2, NEW k \in X2, g[m] = g[k], g[m] # NULL PROVE m = k
  <2>1. CASE m \in X /\ k \in X
    BY <1>3, <2>1 DEF Worklist
  <2>2. CASE m \in K \ {z} /\ k \in K \ {z}
    BY <1>3, <2>2
  <2>3. CASE m \in X /\ k = z
    <3>1. f[m] = f[x] /\ m \in X \ {x}
      BY <1>3, <2>3
    <3> QED BY <1>3, <3>1 DEF Worklist
  <2>4. CASE k \in X /\ m = z
    <3>1. f[k] = f[x] /\ k \in X \ {x}
      BY <1>3, <2>4
    <3> QED BY <1>3, <2>4, <3>1 DEF Worklist
  <2>5. CASE m \in K \ {z} /\ (k \in X \/ k = z)
    BY <1>1, <1>3, <2>5
  <2>6. CASE k \in K \ {z} /\ (m \in X \/ m = z)
    BY <1>1, <1>3, <2>6
  <2>7. CASE m = z /\ k = z
    BY <2>7
  <2> QED BY <2>1, <2>2, <2>3, <2>4, <2>5, <2>6, <2>7
<1>4. ASSUME NEW Y \in SUBSET X2, a \in Y \union {NULL},
             \A m \in Y : g[m] \in Y \union {NULL}
      PROVE  Y = X2
  <2>1. K \subseteq Y
    <3> DEFINE Z == Y \intersect K
    <3>1. Z \in SUBSET K /\ a \in Z /\ \A m \in Z \ {z} : g[m] \in Z
      BY <1>4
    <3> HIDE DEF Z
    <3>2. Z = K
      BY <3>1
    <3> QED BY <3>2 DEF Z
  <2> DEFINE Z == (Y \ K) \union {x}
  <2>2. Z \in SUBSET X /\ x \in Z
    OBVIOUS
  <2>3. f[x] \in Z \union {NULL}
    BY <1>1, <1>4, <2>1
  <2>4. \A m \in Y \ K : f[m] \in Z \union {NULL}
    BY <1>1, <1>4
  <2>5. \A m \in Z : f[m] \in Z \union {NULL}
    BY <2>3, <2>4
  <2> HIDE DEF Z
  <2>6. Z = X
    BY <2>2, <2>5 DEF Worklist
  <2> QED BY <2>1, <2>6 DEF Z
<1> QED BY <1>2, <1>3, <1>4 DEF Worklist

-----------------------------------------------------------------------------
(* The children of a node.                                                 *)

Kids(t, p) == {m \in Nodes : t.parent[m] = p}

\* The children of p are what next reaches from the first, and the last is the one
\* that has no next.
LEMMA KidsReached ==
    ASSUME NULL \notin Nodes, NEW t \in Trees, Shape(t), NEW p \in Nodes,
           t.last_child[p] # NULL,
           NEW a, a = t.first_child[p], NEW z, z = t.last_child[p], NEW K, K = Kids(t, p)
    PROVE  /\ a \in K /\ z \in K /\ NULL \notin K
           /\ \A m \in K \ {z} : t.next[m] \in K \ {a}
           /\ \A m, k \in K \ {z} : t.next[m] = t.next[k] => m = k
           /\ \A Y \in SUBSET K : a \in Y /\ (\A m \in Y \ {z} : t.next[m] \in Y) => Y = K
<1>1. /\ t.next \in [Nodes -> Ptr] /\ t.prev \in [Nodes -> Ptr]
      /\ t.first_child \in [Nodes -> Ptr] /\ t.last_child \in [Nodes -> Ptr]
      /\ SiblingLinks(t) /\ ParentLinks(t)
  BY DEF Trees, Shape, Links
<1>2. /\ a \in Nodes /\ t.parent[a] = p /\ t.prev[a] = NULL
      /\ z \in Nodes /\ t.parent[z] = p /\ t.next[z] = NULL
  BY <1>1 DEF ParentLinks, Ptr
<1>3. a \in K /\ z \in K /\ NULL \notin K
  BY <1>2 DEF Kids
<1>4. \A m \in K : m # z => /\ t.next[m] \in K /\ t.next[m] # a
                            /\ t.prev[t.next[m]] = m
  BY <1>1, <1>2 DEF Kids, ParentLinks, SiblingLinks, Ptr
<1>5. ASSUME NEW Y \in SUBSET K, a \in Y, \A m \in Y \ {z} : t.next[m] \in Y
      PROVE  Y = K
  <2> DEFINE Closed(Q) == a \in Q /\ \A m \in Q \ {z} : t.next[m] \in Q
             Z == {m \in K : \A Q \in SUBSET K : Closed(Q) => m \in Q}
  <2>1. Z \subseteq Y
    BY <1>5
  <2>2. a \in Z /\ \A m \in Z \ {z} : t.next[m] \in Z
    BY <1>3, <1>4
  <2>3. Z \in SUBSET Nodes /\ Z \subseteq K
    BY DEF Kids
  <2>4. \A m \in Z : m # a => \E k \in Z : k # z /\ t.next[k] = m
    <3> SUFFICES ASSUME NEW m \in Z, m # a, \A k \in Z : k # z => t.next[k] # m
                 PROVE  FALSE
      OBVIOUS
    <3> DEFINE Q == Z \ {m}
    <3>1. Q \in SUBSET K /\ Closed(Q)
      BY <2>2
    <3>2. m \in Q
      BY <3>1
    <3> QED BY <3>2
  <2> HIDE DEF Z
  <2>5. z \in Z
    <3>1. PICK m \in Z : t.next[m] \notin Z
      BY <2>2, <2>3 DEF WellFounded, Shape
    <3> QED BY <2>2, <3>1
  <2>6. K \ Z = {}
    <3> SUFFICES ASSUME K \ Z # {} PROVE FALSE
      OBVIOUS
    <3>1. K \ Z \in SUBSET Nodes
      BY DEF Kids
    <3>2. PICK m \in K \ Z : t.next[m] \notin K \ Z
      BY <3>1 DEF WellFounded, Shape
    <3>3. m # z /\ t.next[m] \in Z /\ t.next[m] # a /\ t.prev[t.next[m]] = m
      BY <1>4, <2>5, <3>2
    <3>4. PICK k \in Z : k # z /\ t.next[k] = t.next[m]
      BY <2>4, <3>3
    <3>5. t.prev[t.next[k]] = k
      BY <1>4, <2>3, <3>4
    <3> QED BY <3>2, <3>3, <3>4, <3>5
  <2> QED BY <2>1, <2>3, <2>6
<1> QED BY <1>3, <1>4, <1>5

-----------------------------------------------------------------------------
(* The loop of S_free_nodes, which frees n in the tree T with live nodes L. *)

GoodTree(t, L) == t \in Trees /\ L \subseteq Nodes /\ Shape(t) /\ Untouched(t, L)

\* Of the nodes S to be freed and D that are: those whose turn comes without
\* another node's being freed first.
Exposed(T, n, S, D) == {m \in S \ D : m = n \/ T.parent[m] \in D}

\* Where only next changes: u and t but for the nodes D, which t has cleared.
ClearedBut(u, t, D) ==
    /\ \A m \in Nodes \ D : /\ t.prev[m] = u.prev[m] /\ t.parent[m] = u.parent[m]
                            /\ t.first_child[m] = u.first_child[m]
                            /\ t.last_child[m] = u.last_child[m]
    /\ \A m \in D : /\ t.next[m] = NULL /\ t.prev[m] = NULL /\ t.parent[m] = NULL
                    /\ t.first_child[m] = NULL /\ t.last_child[m] = NULL

\* The tree t, live nodes lv and loop variable x on the way: the nodes D were freed,
\* from n downwards; those on the list are exposed; next is otherwise as it was.
FreeingAt(T, n, L, S, D, t, lv, x) ==
    /\ t \in Trees
    /\ D \subseteq S /\ lv = L \ D
    /\ \A m \in D : m # n => T.parent[m] \in D
    /\ ClearedBut(S_node_unlink(T, n), t, D)
    /\ \A m \in Nodes \ S : t.next[m] = S_node_unlink(T, n).next[m]
    /\ \A m \in S \ D : m # n /\ T.parent[m] \notin D => t.next[m] = T.next[m]
    /\ Worklist(t.next, Exposed(T, n, S, D), x)

Freeing(T, n, L, t, lv, x) == FreeingAt(T, n, L, Subtree(T, n), L \ lv, t, lv, x)

\* What cmark_node_free works on: its subtree is among the live nodes, and the
\* unlinking touches nothing in it.
LEMMA SubtreeFacts ==
    ASSUME NULL \notin Nodes, NEW T, NEW L, GoodTree(T, L), NEW n \in L,
           NEW S, S = Subtree(T, n), NEW u, u = S_node_unlink(T, n)
    PROVE  /\ n \in S /\ S \subseteq Nodes /\ S \subseteq L /\ NULL \notin S
           /\ \A m \in Nodes : T.parent[m] \in S => m \in S
           /\ \A m \in S : m # n => T.parent[m] \in S
           /\ T.parent[n] \notin S
           /\ u \in Trees
           /\ \A m \in S : /\ u.next[m] = T.next[m]
                           /\ u.first_child[m] = T.first_child[m]
                           /\ u.last_child[m] = T.last_child[m]
<1>1. T \in Trees /\ n \in Nodes /\ Shape(T) /\ Untouched(T, L) /\ L \subseteq Nodes
  BY DEF GoodTree
<1>2. /\ n \in S /\ S \subseteq Nodes
      /\ \A m \in Nodes : T.parent[m] \in S => m \in S
      /\ \A m \in S : m # n => T.parent[m] \in S
  BY <1>1, SubtreeClosed
<1>3. S \subseteq L /\ NULL \notin S
  BY <1>1, <1>2 DEF Untouched
<1>4. T.parent[n] \notin S
  <2> SUFFICES ASSUME T.parent[n] \in S PROVE FALSE
    OBVIOUS
  <2>1. \A m \in S : T.parent[m] \in S
    BY <1>2
  <2> QED BY <1>1, <1>2, <2>1 DEF Shape, WellFounded
<1>5. /\ u \in Trees
      /\ u.next = Store(T.next, T.prev[n], T.next[n])
      /\ u.first_child = [m \in Nodes |-> IF m = T.parent[n] /\ T.first_child[m] = n
                                          THEN T.next[n] ELSE T.first_child[m]]
      /\ u.last_child = [m \in Nodes |-> IF m = T.parent[n] /\ T.last_child[m] = n
                                         THEN T.prev[n] ELSE T.last_child[m]]
  BY <1>1, UnlinkStepFields
<1>6. T.prev[n] \notin S
  <2> SUFFICES ASSUME T.prev[n] \in S PROVE FALSE
    OBVIOUS
  <2> DEFINE q == T.prev[n]
  <2>1. q \in Nodes /\ T.next[q] = n /\ T.parent[q] = T.parent[n]
    BY <1>1, <1>2, <1>3 DEF Shape, Links, SiblingLinks, Trees
  <2>2. q # n
    BY <1>1, <2>1, NoSelfNext DEF Shape
  <2> QED BY <1>2, <1>4, <2>1, <2>2
<1>7. \A m \in S : u.next[m] = T.next[m]
  BY <1>2, <1>5, <1>6 DEF Store
<1>8. \A m \in S : u.first_child[m] = T.first_child[m] /\ u.last_child[m] = T.last_child[m]
  BY <1>2, <1>4, <1>5
<1> QED BY <1>2, <1>3, <1>4, <1>5, <1>7, <1>8

\* The loop starts with n alone on the list.
LEMMA FreeingBegins ==
    ASSUME NULL \notin Nodes, NEW T, NEW L, GoodTree(T, L), NEW n \in L,
           NEW u, u = S_node_unlink(T, n),
           NEW t, t = [u EXCEPT !.next = Store(u.next, n, NULL)]
    PROVE  Freeing(T, n, L, t, L, n)
<1> DEFINE S == Subtree(T, n)
<1>1. /\ n \in S /\ S \subseteq Nodes /\ S \subseteq L /\ NULL \notin S
      /\ \A m \in S : m # n => T.parent[m] \in S
      /\ u \in Trees /\ \A m \in S : u.next[m] = T.next[m]
  BY SubtreeFacts
<1>2. /\ t \in Trees
      /\ t.next = Store(u.next, n, NULL)
      /\ t.prev = u.prev /\ t.parent = u.parent
      /\ t.first_child = u.first_child /\ t.last_child = u.last_child
  <2>1. u.next \in [Nodes -> Ptr]
    BY <1>1 DEF Trees
  <2>2. Store(u.next, n, NULL) \in [Nodes -> Ptr]
    BY <2>1 DEF Store, Ptr
  <2> QED BY <1>1, <2>2 DEF Trees
<1>3. \A m \in Nodes : t.next[m] = IF m = n THEN NULL ELSE u.next[m]
  BY <1>2 DEF Store
<1> HIDE DEF S
<1>4. Exposed(T, n, S, {}) = {n}
  BY <1>1 DEF Exposed
<1>5. Worklist(t.next, {n}, n)
  <2>1. t.next[n] = NULL
    BY <1>1, <1>3
  <2>2. \A Y \in SUBSET {n} : n \in Y \union {NULL} => Y = {n}
    BY <1>1
  <2> QED BY <2>1, <2>2 DEF Worklist
<1>6. \A m \in Nodes \ S : t.next[m] = u.next[m]
  BY <1>1, <1>3
<1>7. \A m \in S : m # n => t.next[m] = T.next[m]
  BY <1>1, <1>3
<1>8. ClearedBut(u, t, {})
  BY <1>2 DEF ClearedBut
<1>9. FreeingAt(T, n, L, S, {}, t, L, n)
  BY <1>2, <1>4, <1>5, <1>6, <1>7, <1>8 DEF FreeingAt
<1>10. L \ L = {}
  OBVIOUS
<1> QED BY <1>9, <1>10 DEF Freeing, S

\* When the list is empty, the whole subtree was freed.
LEMMA FreeingEnds ==
    ASSUME NULL \notin Nodes, NEW T, NEW L, GoodTree(T, L), NEW n \in L,
           NEW t, NEW lv, lv \subseteq L, Freeing(T, n, L, t, lv, NULL)
    PROVE  /\ lv = L \ Subtree(T, n)
           /\ t = Freed(S_node_unlink(T, n), Subtree(T, n))
<1> DEFINE S == Subtree(T, n)
           D == L \ lv
           u == S_node_unlink(T, n)
<1>1. /\ n \in S /\ S \subseteq Nodes /\ S \subseteq L /\ NULL \notin S
      /\ \A m \in Nodes : T.parent[m] \in S => m \in S
      /\ \A m \in S : m # n => T.parent[m] \in S
      /\ u \in Trees
  BY SubtreeFacts
<1>2. FreeingAt(T, n, L, S, D, t, lv, NULL)
  BY DEF Freeing
<1>3. D \subseteq S
  BY <1>2 DEF FreeingAt
<1> HIDE DEF S, D, u
<1>4. Exposed(T, n, S, D) = {}
  <2>1. {} \in SUBSET Exposed(T, n, S, D) /\ NULL \in {} \union {NULL}
    OBVIOUS
  <2> QED BY <1>2, <2>1 DEF FreeingAt, Worklist
<1>5. S = D
  <2> SUFFICES ASSUME S # D PROVE FALSE
    OBVIOUS
  <2>1. S \ D # {} /\ S \ D \in SUBSET Nodes
    BY <1>1, <1>3
  <2>2. PICK m \in S \ D : T.parent[m] \notin S \ D
    BY <2>1 DEF GoodTree, Shape, WellFounded
  <2>3. m = n \/ T.parent[m] \in D
    BY <1>1, <2>2
  <2> QED BY <1>4, <2>2, <2>3 DEF Exposed
<1>6. lv = L \ S
  BY <1>5 DEF D
<1>7. /\ t \in Trees
      /\ \A m \in Nodes : /\ t.next[m] = Cleared(u.next, S)[m]
                          /\ t.prev[m] = Cleared(u.prev, S)[m]
                          /\ t.parent[m] = Cleared(u.parent, S)[m]
                          /\ t.first_child[m] = Cleared(u.first_child, S)[m]
                          /\ t.last_child[m] = Cleared(u.last_child, S)[m]
  BY <1>1, <1>2, <1>5 DEF FreeingAt, ClearedBut, Cleared, u
<1>8. t = Freed(u, S)
  <2>1. /\ t.next \in [Nodes -> Ptr] /\ t.prev \in [Nodes -> Ptr]
        /\ t.parent \in [Nodes -> Ptr] /\ t.first_child \in [Nodes -> Ptr]
        /\ t.last_child \in [Nodes -> Ptr]
    BY <1>7 DEF Trees
  <2>2. t.next = Cleared(u.next, S)
    BY <1>7, <2>1 DEF Cleared
  <2>3. t.prev = Cleared(u.prev, S)
    BY <1>7, <2>1 DEF Cleared
  <2>4. t.parent = Cleared(u.parent, S)
    BY <1>7, <2>1 DEF Cleared
  <2>5. t.first_child = Cleared(u.first_child, S)
    BY <1>7, <2>1 DEF Cleared
  <2>6. t.last_child = Cleared(u.last_child, S)
    BY <1>7, <2>1 DEF Cleared
  <2>7. t = [next |-> t.next, prev |-> t.prev, parent |-> t.parent,
             first_child |-> t.first_child, last_child |-> t.last_child]
    BY <1>7 DEF Trees
  <2> QED BY <2>2, <2>3, <2>4, <2>5, <2>6, <2>7 DEF Freed
<1> QED BY <1>6, <1>8 DEF S, u

\* An iteration frees the first node of the list, which was not freed before, and its
\* children take its place.
LEMMA FreeingGoesOn ==
    ASSUME NULL \notin Nodes, NEW T, NEW L, GoodTree(T, L), NEW n \in L,
           NEW t, NEW lv, lv \subseteq L, NEW x, x # NULL, Freeing(T, n, L, t, lv, x),
           NEW g, g = SpliceChildren(t, x),
           NEW t2, t2 = Freed([t EXCEPT !.next = g], {x})
    PROVE  x \in lv /\ Freeing(T, n, L, t2, lv \ {x}, g[x])
<1> DEFINE S == Subtree(T, n)
           D == L \ lv
           D2 == L \ (lv \ {x})
           u == S_node_unlink(T, n)
           K == Kids(T, x)
           X == Exposed(T, n, S, D)
           X2 == Exposed(T, n, S, D2)
<1>1. /\ n \in S /\ S \subseteq Nodes /\ S \subseteq L /\ NULL \notin S
      /\ \A m \in Nodes : T.parent[m] \in S => m \in S
      /\ \A m \in S : m # n => T.parent[m] \in S
      /\ T.parent[n] \notin S /\ u \in Trees
      /\ \A m \in S : /\ u.next[m] = T.next[m]
                      /\ u.first_child[m] = T.first_child[m]
                      /\ u.last_child[m] = T.last_child[m]
  BY SubtreeFacts
<1>2. FreeingAt(T, n, L, S, D, t, lv, x)
  BY DEF Freeing
<1> HIDE DEF S, u
<1>3. /\ D \subseteq S /\ t \in Trees /\ \A m \in D : m # n => T.parent[m] \in D
      /\ ClearedBut(u, t, D)
      /\ \A m \in Nodes \ S : t.next[m] = u.next[m]
      /\ \A m \in S \ D : m # n /\ T.parent[m] \notin D => t.next[m] = T.next[m]
      /\ Worklist(t.next, X, x)
  BY <1>2 DEF FreeingAt, u
<1>4. /\ x \in X /\ x \in S /\ x \notin D /\ x \in Nodes /\ x \in L /\ x \in lv
      /\ D2 = D \union {x}
  <2>1. x \in X
    BY <1>3 DEF Worklist
  <2>2. x \in S /\ x \notin D
    BY <2>1 DEF Exposed
  <2> QED BY <1>1, <2>1, <2>2
<1> HIDE DEF D2
<1>5. T \in Trees /\ Shape(T) /\ T.parent \in [Nodes -> Ptr]
  BY DEF GoodTree, Trees
<1>6. /\ K \subseteq S /\ K \intersect D = {} /\ x \notin K /\ n \notin K
      /\ K \intersect X = {} /\ NULL \notin K /\ NULL \notin X
  <2>1. K \subseteq S /\ n \notin K
    BY <1>1, <1>4 DEF Kids
  <2>2. K \intersect D = {}
    BY <1>3, <1>4, <2>1 DEF Kids
  <2>3. x \notin K
    <3> SUFFICES ASSUME T.parent[x] = x PROVE FALSE
      BY DEF Kids
    <3>1. {x} \in SUBSET Nodes /\ {x} # {}
      BY <1>4
    <3> QED BY <1>5, <3>1 DEF Shape, WellFounded
  <2>4. K \intersect X = {}
    BY <1>4, <2>1 DEF Kids, Exposed
  <2> QED BY <1>1, <2>1, <2>2, <2>3, <2>4 DEF Exposed
<1>7. X2 = (X \ {x}) \union K
  <2>1. \A m : m \in X2 <=> m \in X \ {x} \/ m \in K
    BY <1>1, <1>4, <1>6 DEF Exposed, Kids
  <2> QED BY <2>1
<1>8. /\ t.first_child[x] = T.first_child[x] /\ t.last_child[x] = T.last_child[x]
  BY <1>1, <1>3, <1>4 DEF ClearedBut
<1> HIDE DEF K, D, X, X2
<1>9. g \in [Nodes -> Ptr]
  <2>1. /\ t.next \in [Nodes -> Ptr] /\ t.first_child[x] \in Ptr /\ t.next[x] \in Ptr
    BY <1>3, <1>4 DEF Trees
  <2> QED BY <2>1 DEF SpliceChildren, Store, Ptr
<1>10. /\ t2.next = Cleared(g, {x}) /\ t2.prev = Cleared(t.prev, {x})
       /\ t2.parent = Cleared(t.parent, {x})
       /\ t2.first_child = Cleared(t.first_child, {x})
       /\ t2.last_child = Cleared(t.last_child, {x})
       /\ t2 \in Trees
  <2> DEFINE w == [t EXCEPT !.next = g]
  <2>1. /\ w \in Trees /\ w.next = g /\ w.prev = t.prev /\ w.parent = t.parent
        /\ w.first_child = t.first_child /\ w.last_child = t.last_child
    BY <1>3, <1>9 DEF Trees
  <2>2. t2 = Freed(w, {x})
    OBVIOUS
  <2> HIDE DEF w
  <2>3. /\ t2.next = Cleared(w.next, {x}) /\ t2.prev = Cleared(w.prev, {x})
        /\ t2.parent = Cleared(w.parent, {x})
        /\ t2.first_child = Cleared(w.first_child, {x})
        /\ t2.last_child = Cleared(w.last_child, {x})
    BY <2>2 DEF Freed
  <2>4. /\ w.next \in [Nodes -> Ptr] /\ w.prev \in [Nodes -> Ptr]
        /\ w.parent \in [Nodes -> Ptr] /\ w.first_child \in [Nodes -> Ptr]
        /\ w.last_child \in [Nodes -> Ptr]
    BY <2>1 DEF Trees
  <2>5. /\ Cleared(w.next, {x}) \in [Nodes -> Ptr]
        /\ Cleared(w.prev, {x}) \in [Nodes -> Ptr]
        /\ Cleared(w.parent, {x}) \in [Nodes -> Ptr]
        /\ Cleared(w.first_child, {x}) \in [Nodes -> Ptr]
        /\ Cleared(w.last_child, {x}) \in [Nodes -> Ptr]
    BY <2>4 DEF Cleared, Ptr
  <2>6. t2 \in Trees
    BY <2>2, <2>5 DEF Freed, Trees
  <2> QED BY <2>1, <2>3, <2>6
<1>11. \A m \in Nodes : t2.next[m] = IF m = x THEN NULL ELSE g[m]
  BY <1>10 DEF Cleared
<1>12. ClearedBut(u, t2, D2)
  <2>1. \A m \in Nodes :
          /\ t2.prev[m] = IF m = x THEN NULL ELSE t.prev[m]
          /\ t2.parent[m] = IF m = x THEN NULL ELSE t.parent[m]
          /\ t2.first_child[m] = IF m = x THEN NULL ELSE t.first_child[m]
          /\ t2.last_child[m] = IF m = x THEN NULL ELSE t.last_child[m]
    BY <1>10 DEF Cleared
  <2>2. D \subseteq Nodes
    BY <1>1, <1>3
  <2>3. \A m \in D : m # x => g[m] = t.next[m]
    <3>1. t.last_child[x] # NULL => t.last_child[x] \notin D
      <4> SUFFICES ASSUME T.last_child[x] # NULL PROVE T.last_child[x] \notin D
        BY <1>8
      <4>1. T.last_child[x] \in K
        BY <1>4, <1>5, KidsReached DEF K
      <4> QED BY <1>6, <4>1
    <3> QED BY <1>3, <2>2, <3>1 DEF SpliceChildren, Store, Trees
  <2>4. \A m \in D2 : t2.next[m] = NULL
    BY <1>3, <1>4, <1>11, <2>2, <2>3 DEF ClearedBut
  <2>5. \A m \in D2 : /\ t2.prev[m] = NULL /\ t2.parent[m] = NULL
                      /\ t2.first_child[m] = NULL /\ t2.last_child[m] = NULL
    <3>1. \A m \in D : /\ t.prev[m] = NULL /\ t.parent[m] = NULL
                       /\ t.first_child[m] = NULL /\ t.last_child[m] = NULL
      BY <1>3 DEF ClearedBut
    <3>2. \A m \in D2 : m \in Nodes /\ (m = x \/ m \in D)
      BY <1>4, <2>2
    <3> QED BY <2>1, <3>1, <3>2
  <2>6. \A m \in Nodes \ D2 : /\ t2.prev[m] = u.prev[m] /\ t2.parent[m] = u.parent[m]
                              /\ t2.first_child[m] = u.first_child[m]
                              /\ t2.last_child[m] = u.last_child[m]
    BY <1>3, <1>4, <2>1 DEF ClearedBut
  <2> QED BY <2>4, <2>5, <2>6 DEF ClearedBut
<1>13. \A m \in D2 : m # n => T.parent[m] \in D2
  BY <1>3, <1>4 DEF X, Exposed
<1>14. D2 \subseteq S /\ L \ D2 = lv \ {x}
  BY <1>3, <1>4 DEF D
<1>15. CASE T.last_child[x] = NULL
  <2>1. g = t.next
    BY <1>8, <1>15 DEF SpliceChildren
  <2>2. K = {}
    <3>1. T.first_child[x] = NULL
      BY <1>4, <1>5, <1>15 DEF Shape, Links, ParentLinks
    <3> QED BY <1>4, <1>5, <3>1, NoChildren DEF K, Kids
  <2>3. Worklist(t2.next, X2, g[x])
    <3>1. \A m \in X \ {x} : t2.next[m] = t.next[m]
      BY <1>1, <1>11, <2>1 DEF X, Exposed
    <3>2. Worklist(t2.next, X \ {x}, t.next[x])
      BY <1>3, <1>4, <1>6, <3>1, WorklistTail
    <3> QED BY <1>7, <2>1, <2>2, <3>2
  <2>4. \A m \in Nodes \ S : t2.next[m] = u.next[m]
    BY <1>3, <1>4, <1>11, <2>1
  <2>5. \A m \in S \ D2 : m # n /\ T.parent[m] \notin D2 => t2.next[m] = T.next[m]
    BY <1>1, <1>3, <1>4, <1>11, <2>1
  <2>6. FreeingAt(T, n, L, S, D2, t2, lv \ {x}, g[x])
    BY <1>10, <1>12, <1>13, <1>14, <2>3, <2>4, <2>5 DEF FreeingAt, X2, u
  <2> QED BY <1>4, <2>6 DEF Freeing, S, D2
<1>16. CASE T.last_child[x] # NULL
  <2> DEFINE a == T.first_child[x]
             z == T.last_child[x]
  <2>1. /\ a \in K /\ z \in K
        /\ \A m \in K \ {z} : T.next[m] \in K \ {a}
        /\ \A m, k \in K \ {z} : T.next[m] = T.next[k] => m = k
        /\ \A Y \in SUBSET K : a \in Y /\ (\A m \in Y \ {z} : T.next[m] \in Y) => Y = K
    BY <1>4, <1>5, <1>16, KidsReached DEF K
  <2>2. g = Store(Store(t.next, z, t.next[x]), x, a)
    BY <1>8, <1>16 DEF SpliceChildren
  <2> HIDE DEF a, z
  <2>3. \A m \in Nodes : g[m] = IF m = x THEN a ELSE IF m = z THEN t.next[x] ELSE t.next[m]
    BY <2>2 DEF Store
  <2>4. K \subseteq Nodes /\ X \subseteq Nodes
    BY <1>1, <1>6 DEF X, Exposed
  <2>5. g[x] = a
    BY <1>4, <2>3
  <2>6. \A m \in K \ {z} : t.next[m] = T.next[m]
    <3>1. \A m \in K : m \in S \ D /\ m # n /\ T.parent[m] = x
      BY <1>6 DEF K, Kids
    <3> QED BY <1>3, <1>4, <3>1
  <2>7. Worklist(t2.next, X2, g[x])
    <3>1. t2.next[z] = t.next[x]
      BY <1>6, <1>11, <2>1, <2>3, <2>4
    <3>2. \A m \in X \ {x} : t2.next[m] = t.next[m]
      BY <1>6, <1>11, <2>1, <2>3, <2>4
    <3>3. \A m \in K \ {z} : t2.next[m] = T.next[m]
      BY <1>6, <1>11, <2>3, <2>4, <2>6
    <3>4. /\ \A m \in K \ {z} : t2.next[m] \in K \ {a}
          /\ \A m, k \in K \ {z} : t2.next[m] = t2.next[k] => m = k
      BY <2>1, <3>3
    <3>5. \A Y \in SUBSET K : a \in Y /\ (\A m \in Y \ {z} : t2.next[m] \in Y) => Y = K
      BY <2>1, <3>3
    <3>6. Worklist(t2.next, (X \ {x}) \union K, a)
      <4> DEFINE f == t.next
                 h == t2.next
      <4>1. /\ x \in X /\ NULL \notin X /\ Worklist(f, X, x)
            /\ NULL \notin K /\ K \intersect X = {} /\ a \in K /\ z \in K
            /\ \A m \in X \ {x} : h[m] = f[m]
            /\ h[z] = f[x]
            /\ \A m \in K \ {z} : h[m] \in K \ {a}
            /\ \A m, k \in K \ {z} : h[m] = h[k] => m = k
            /\ \A Y \in SUBSET K : a \in Y /\ (\A m \in Y \ {z} : h[m] \in Y) => Y = K
        BY <1>3, <1>4, <1>6, <2>1, <3>1, <3>2, <3>4, <3>5
      <4> HIDE DEF f, h
      <4>2. Worklist(h, (X \ {x}) \union K, a)
        BY ONLY <4>1, WorklistSpliced
      <4> QED BY <4>2 DEF h
    <3> QED BY <1>7, <2>5, <3>6
  <2>8. \A m \in Nodes \ S : t2.next[m] = u.next[m]
    BY <1>3, <1>4, <1>6, <1>11, <2>1, <2>3
  <2>9. \A m \in S \ D2 : m # n /\ T.parent[m] \notin D2 => t2.next[m] = T.next[m]
    <3> SUFFICES ASSUME NEW m \in S \ D2, m # n, T.parent[m] \notin D2
                 PROVE  t2.next[m] = T.next[m]
      OBVIOUS
    <3>1. m # x /\ m \in Nodes /\ m \in S \ D /\ T.parent[m] \notin D
      BY <1>1, <1>4
    <3>2. m # z
      BY <1>4, <2>1 DEF K, Kids
    <3> QED BY <1>3, <1>11, <2>3, <3>1, <3>2
  <2>10. FreeingAt(T, n, L, S, D2, t2, lv \ {x}, g[x])
    BY <1>10, <1>12, <1>13, <1>14, <2>7, <2>8, <2>9 DEF FreeingAt, X2, u
  <2> QED BY <1>4, <2>10 DEF Freeing, S, D2
<1> QED BY <1>15, <1>16

-----------------------------------------------------------------------------
(* The inductive invariant.                                                *)

\* What the call of cmark_node_free leaves when its loop ends.
LeftTree == Freed(S_node_unlink(call.tree, call.target), Subtree(call.tree, call.target))
LeftLive == call.live \ Subtree(call.tree, call.target)

IsEvent(s, A) == s.ev \in {"ENTER", "EXIT"} /\ s.node \in A

IsDone(s) == s.ev = "DONE" /\ s.node = NULL

\* Of the tree t with live nodes L: the event computed ahead is on a live node below
\* the root; while the client may change the current node, that node is not below it;
\* the node to be merged next is the one of the next event.
Walk(t, L) ==
    /\ ~asserted /\ t.parent[root] = NULL
    /\ IsDone(next) \/ IsEvent(next, Subtree(t, root) \intersect L)
    /\ client = "general" => tmp = NULL
    /\ client = "general" /\ ~gone /\ cur.ev \in {"ENTER", "EXIT"} =>
          /\ cur.node \in Subtree(t, root) \intersect L
          /\ MayModify => next.node \notin Subtree(t, cur.node)
    /\ tmp # NULL => /\ next.ev = "ENTER" /\ next.node = tmp
                     /\ kind[tmp] = "text" /\ tmp # root

\* Between the iterations of S_free_nodes, the same holds of what it will leave.
IInv ==
    /\ root = 1 /\ client \in {"general", "consolidate"}
    /\ kind \in [Nodes -> {"text", "container"}]
    /\ e = NULL => GoodTree(tree, live) /\ Walk(tree, live)
    /\ e # NULL =>
          /\ GoodTree(call.tree, call.live) /\ call.target \in call.live /\ live \subseteq call.live
          /\ Freeing(call.tree, call.target, call.live, tree, live, e)
          /\ Walk(LeftTree, LeftLive)

-----------------------------------------------------------------------------
(* What a change of the tree leaves below a node.                          *)

\* A set of nodes that holds their ancestors and keeps its parents keeps its place.
LEMMA SamePlace ==
    ASSUME NEW t \in Trees, NEW t2 \in Trees, NEW U \in SUBSET Nodes,
           \A m \in U : t2.parent[m] = t.parent[m] /\ t.parent[m] \in U \union {NULL},
           NEW m \in U, NEW n \in Nodes
    PROVE  m \in Subtree(t2, n) <=> m \in Subtree(t, n)
<1> DEFINE A == AncSelf(t, m)
           A2 == AncSelf(t2, m)
<1>1. /\ m \in A /\ \A k \in A : t.parent[k] \in A \union {NULL}
      /\ m \in A2 /\ \A k \in A2 : t2.parent[k] \in A2 \union {NULL}
  BY AncSelfClosed
<1>2. A \in SUBSET Nodes /\ A2 \in SUBSET Nodes
  BY DEF AncSelf
<1>3. A \subseteq U /\ A2 \subseteq U
  BY AncSelfClosed
<1>4. /\ \A k \in A : t2.parent[k] \in A \union {NULL}
      /\ \A k \in A2 : t.parent[k] \in A2 \union {NULL}
  BY <1>1, <1>3
<1>5. A2 \subseteq A /\ A \subseteq A2
  BY <1>1, <1>2, <1>4, AncSelfClosed
<1> QED BY <1>5 DEF Subtree

\* Where only the subtree of n changes parents, every other node keeps its place.
LEMMA SamePlaceOutside ==
    ASSUME NULL \notin Nodes, NEW t \in Trees, NEW t2 \in Trees, NEW n \in Nodes,
           \A m \in Nodes \ Subtree(t, n) : t2.parent[m] = t.parent[m],
           NEW m \in Nodes \ Subtree(t, n), NEW k \in Nodes
    PROVE  m \in Subtree(t2, k) <=> m \in Subtree(t, k)
<1> DEFINE U == Nodes \ Subtree(t, n)
<1>1. \A i \in Nodes : t.parent[i] \in Subtree(t, n) => i \in Subtree(t, n)
  BY SubtreeClosed
<1>2. \A i \in U : t2.parent[i] = t.parent[i] /\ t.parent[i] \in U \union {NULL}
  BY <1>1 DEF Trees, Ptr
<1> HIDE DEF U
<1>3. U \in SUBSET Nodes /\ m \in U
  BY DEF U
<1> QED BY <1>2, <1>3, SamePlace

\* A node without children that is hung elsewhere moves no other node.
LEMMA SamePlaceBeside ==
    ASSUME NULL \notin Nodes, NEW t \in Trees, NEW t2 \in Trees, NEW n \in Nodes,
           \A m \in Nodes : t.parent[m] # n,
           \A m \in Nodes \ {n} : t2.parent[m] = t.parent[m],
           NEW m \in Nodes \ {n}, NEW k \in Nodes
    PROVE  m \in Subtree(t2, k) <=> m \in Subtree(t, k)
<1> DEFINE U == Nodes \ {n}
<1>2. \A i \in U : t2.parent[i] = t.parent[i] /\ t.parent[i] \in U \union {NULL}
  BY DEF Trees, Ptr
<1> HIDE DEF U
<1>3. U \in SUBSET Nodes /\ m \in U
  BY DEF U
<1> QED BY <1>2, <1>3, SamePlace

-----------------------------------------------------------------------------
(* The changes of the client.                                              *)

\* A node that is on its own is nobody's ancestor but its own.
LEMMA LoneNode ==
    ASSUME NULL \notin Nodes, NEW t \in Trees, NEW n \in Nodes, NEW p \in Nodes, p # n,
           \A m \in Nodes : t.parent[m] # n
    PROVE  n \notin AncSelf(t, p)
<1> DEFINE U == Nodes \ {n}
<1>1. p \in U /\ \A k \in U : t.parent[k] \in U \union {NULL}
  BY DEF Trees, Ptr
<1> QED BY <1>1, AncSelfClosed

\* A new node put after node is live, and no other node moves.
LEMMA NewAfter ==
    ASSUME NULL \notin Nodes, NEW t, NEW L, GoodTree(t, L), NEW node \in L,
           t.parent[node] # NULL, NEW n \in Nodes \ L,
           NEW v, v = InsertedAfter(t, node, n)
    PROVE  /\ GoodTree(v, L \union {n})
           /\ \A m \in Nodes : v.parent[m] = IF m = n THEN t.parent[node] ELSE t.parent[m]
           /\ \A m \in Nodes : t.parent[m] # n
<1> DEFINE L2 == L \union {n}
           u == Unlinked(t, n)
           p == t.parent[node]
<1>1. /\ t \in Trees /\ Shape(t) /\ Links(t) /\ L \subseteq Nodes /\ L2 \subseteq Nodes
      /\ n \in L2 /\ node \in Nodes /\ node # n
      /\ t.parent \in [Nodes -> Ptr]
  BY DEF GoodTree, Shape, Trees
<1>2. Untouched(t, L2) /\ \A m \in Nodes : t.parent[m] # n
  BY DEF GoodTree, Untouched
<1>3. p \in Nodes /\ p \in L2 /\ p # n
  BY <1>1, <1>2 DEF Ptr, Untouched
<1>4. t.next[n] # n
  BY <1>1, NoSelfNext DEF Shape
<1>5. n \notin AncSelf(t, p)
  BY <1>1, <1>2, <1>3, LoneNode
<1>6. Gap(u, p, node, u.next[node]) /\ v = Spliced(u, p, node, u.next[node], n)
  BY <1>1, <1>4, InsertedAfterIsSplice
<1>7. node \in Ptr /\ u.next[node] \in Ptr
  <2>1. u \in Trees
    BY <1>1, UnlinkedFields
  <2> QED BY <1>1, <2>1 DEF Trees, Ptr
<1>8. u = Unlinked(t, n)
  OBVIOUS
<1> HIDE DEF L2, u, p
<1>9. /\ v \in Trees /\ Shape(v) /\ Untouched(v, L2)
      /\ \A m \in Nodes : v.parent[m] = IF m = n THEN p ELSE t.parent[m]
  BY <1>1, <1>2, <1>3, <1>5, <1>6, <1>7, <1>8, MovedShape
<1> QED BY <1>1, <1>2, <1>9 DEF GoodTree, L2, p

\* A new node appended to node is live, and no other node moves.
LEMMA NewLast ==
    ASSUME NULL \notin Nodes, NEW t, NEW L, GoodTree(t, L), NEW node \in L, NEW n \in Nodes \ L,
           NEW v, v = Appended(t, node, n)
    PROVE  /\ GoodTree(v, L \union {n})
           /\ \A m \in Nodes : v.parent[m] = IF m = n THEN node ELSE t.parent[m]
           /\ \A m \in Nodes : t.parent[m] # n
<1> DEFINE L2 == L \union {n}
           u == Unlinked(t, n)
<1>1. /\ t \in Trees /\ Shape(t) /\ Links(t) /\ L \subseteq Nodes /\ L2 \subseteq Nodes
      /\ n \in L2 /\ node \in Nodes /\ node \in L2 /\ node # n
  BY DEF GoodTree, Shape
<1>2. Untouched(t, L2) /\ \A m \in Nodes : t.parent[m] # n
  BY DEF GoodTree, Untouched
<1>4. t.next[n] # n
  BY <1>1, NoSelfNext DEF Shape
<1>5. n \notin AncSelf(t, node)
  BY <1>1, <1>2, LoneNode
<1>6. Gap(u, node, u.last_child[node], NULL) /\ v = Spliced(u, node, u.last_child[node], NULL, n)
  BY <1>1, <1>4, AppendedIsSplice
<1>7. u.last_child[node] \in Ptr /\ NULL \in Ptr
  <2>1. u \in Trees
    BY <1>1, UnlinkedFields
  <2> QED BY <1>1, <2>1 DEF Trees, Ptr
<1>8. u = Unlinked(t, n)
  OBVIOUS
<1> HIDE DEF L2, u
<1>9. /\ v \in Trees /\ Shape(v) /\ Untouched(v, L2)
      /\ \A m \in Nodes : v.parent[m] = IF m = n THEN node ELSE t.parent[m]
  BY <1>1, <1>2, <1>5, <1>6, <1>7, <1>8, MovedShape
<1> QED BY <1>1, <1>2, <1>9 DEF GoodTree, L2

\* What cmark_node_free leaves in the end.
LEMMA FreedGood ==
    ASSUME NULL \notin Nodes, NEW t, NEW L, GoodTree(t, L), NEW n \in L,
           NEW S, S = Subtree(t, n), NEW v, v = Freed(S_node_unlink(t, n), S)
    PROVE  /\ GoodTree(v, L \ S)
           /\ \A m \in Nodes : v.parent[m] = IF m \in S THEN NULL ELSE t.parent[m]
           /\ \A m \in Nodes \ S, k \in Nodes : m \in Subtree(v, k) <=> m \in Subtree(t, k)
<1>1. t \in Trees /\ Shape(t) /\ Untouched(t, L) /\ L \subseteq Nodes /\ n \in Nodes
  BY DEF GoodTree
<1>2. /\ v \in Trees /\ Shape(v) /\ Untouched(v, L \ S)
      /\ \A m \in Nodes : v.parent[m] = IF m \in S THEN NULL ELSE t.parent[m]
  BY <1>1, FreedShape
<1>3. ASSUME NEW m \in Nodes \ S, NEW k \in Nodes PROVE m \in Subtree(v, k) <=> m \in Subtree(t, k)
  BY <1>1, <1>2, <1>3, SamePlaceOutside
<1> QED BY <1>1, <1>2, <1>3 DEF GoodTree

\* What cmark_node_unlink leaves.
LEMMA UnlinkedGood ==
    ASSUME NULL \notin Nodes, NEW t, NEW L, GoodTree(t, L), NEW n \in L,
           NEW S, S = Subtree(t, n), NEW v, v = Unlinked(t, n)
    PROVE  /\ GoodTree(v, L)
           /\ \A m \in Nodes : v.parent[m] = IF m = n THEN NULL ELSE t.parent[m]
           /\ \A m \in Nodes \ S, k \in Nodes : m \in Subtree(v, k) <=> m \in Subtree(t, k)
<1>1. t \in Trees /\ Shape(t) /\ Untouched(t, L) /\ L \subseteq Nodes /\ n \in Nodes
  BY DEF GoodTree
<1>2. /\ v \in Trees /\ Shape(v) /\ Untouched(v, L)
      /\ \A m \in Nodes : v.parent[m] = IF m = n THEN NULL ELSE t.parent[m]
  BY <1>1, UnlinkedShape
<1>3. n \in S
  BY <1>1, SubtreeClosed
<1>4. ASSUME NEW m \in Nodes \ S, NEW k \in Nodes PROVE m \in Subtree(v, k) <=> m \in Subtree(t, k)
  BY <1>1, <1>2, <1>3, <1>4, SamePlaceOutside
<1> QED BY <1>1, <1>2, <1>4 DEF GoodTree

-----------------------------------------------------------------------------
(* The iterator.                                                           *)

\* The event after one on a live node below the root is on a live node below the root,
\* and after the last event on a node it is not below that node.
LEMMA RolledGood ==
    ASSUME NULL \notin Nodes, GoodTree(tree, live), root \in Nodes, tree.parent[root] = NULL,
           NEW ev \in {"ENTER", "EXIT"}, NEW A, A = Subtree(tree, root) \intersect live,
           NEW n \in A, NEW s, s = Rolled(ev, n)
    PROVE  /\ ~FallsThrough(ev, n)
           /\ IsDone(s) \/ IsEvent(s, A)
           /\ ~(ev = "ENTER" /\ ~S_is_leaf(n)) => s.node \notin Subtree(tree, n)
           /\ ev = "ENTER" /\ S_is_leaf(n) /\ n # root /\ tree.next[n] # NULL =>
                s = State("ENTER", tree.next[n])
<1> DEFINE R == Subtree(tree, root)
           S == Subtree(tree, n)
           nx == tree.next[n]
           ch == tree.first_child[n]
           pa == tree.parent[n]
<1>1. /\ tree \in Trees /\ Shape(tree) /\ Untouched(tree, live) /\ live \subseteq Nodes
      /\ n \in live /\ n \in Nodes /\ n \in R
  BY DEF GoodTree
<1>2. nx \in Ptr /\ ch \in Ptr /\ pa \in Ptr
  BY <1>1 DEF Trees
<1>3. /\ \A m \in Nodes : tree.parent[m] \in R => m \in R
      /\ \A m \in R : m # root => tree.parent[m] \in R
      /\ R \subseteq Nodes
  BY <1>1, SubtreeClosed
<1>4. /\ \A m \in S : m # n => tree.parent[m] \in S
      /\ pa \notin S /\ NULL \notin S
  BY <1>1, SubtreeFacts
<1>5. nx # NULL => nx \in Nodes /\ tree.parent[nx] = pa /\ tree.prev[nx] = n /\ nx # n
  BY <1>1, <1>2, NoSelfNext DEF Shape, Links, SiblingLinks, Ptr
<1>6. ch # NULL => ch \in Nodes /\ tree.parent[ch] = n
  BY <1>1, <1>2 DEF Shape, Links, ParentLinks, Ptr
<1>7. n # root => pa # NULL /\ pa \in R /\ pa \in Nodes
  BY <1>1, <1>3
<1>8. n # root /\ nx # NULL => nx \in A /\ nx \notin S
  <2> SUFFICES ASSUME n # root, nx # NULL PROVE nx \in A /\ nx \notin S
    OBVIOUS
  <2>1. nx \in R
    BY <1>3, <1>5, <1>7
  <2>2. nx \in live
    BY <1>1, <1>5 DEF Untouched
  <2>3. nx \notin S
    BY <1>4, <1>5
  <2> QED BY <2>1, <2>2, <2>3
<1>9. ch # NULL => ch \in A
  <2> SUFFICES ASSUME ch # NULL PROVE ch \in A
    OBVIOUS
  <2>1. ch \in R
    BY <1>1, <1>3, <1>6
  <2>2. ch \in live
    BY <1>1, <1>6 DEF Untouched
  <2> QED BY <2>1, <2>2
<1>10. n # root => pa \in A
  BY <1>1, <1>7 DEF Untouched
<1> HIDE DEF R, S, nx, ch, pa
<1>11. ~FallsThrough(ev, n)
  BY <1>7 DEF FallsThrough, pa
<1>12. s = IF ev = "ENTER" /\ ~S_is_leaf(n)
           THEN IF ch = NULL THEN State("EXIT", n) ELSE State("ENTER", ch)
           ELSE IF n = root THEN State("DONE", NULL)
           ELSE IF nx # NULL THEN State("ENTER", nx)
           ELSE IF pa # NULL THEN State("EXIT", pa)
           ELSE State("DONE", NULL)
  BY DEF Rolled, ch, nx, pa
<1> QED BY <1>4, <1>7, <1>8, <1>9, <1>10, <1>11, <1>12 DEF State, IsDone, IsEvent, nx, S

-----------------------------------------------------------------------------
(* The documents of TreeShapes.                                            *)

LEMMA LeastOfIsLeast ==
    ASSUME NEW n \in Nat, NEW S \in SUBSET (1 .. n), S # {}
    PROVE  LeastOf(S) \in S /\ \A j \in S : LeastOf(S) <= j
<1> DEFINE R == {ss \in Nat \X Nat : ss[1] < ss[2]}
<1>1. IsWellFoundedOn(R, Nat)
  BY NatLessThanWellFounded DEF OpToRel
<1>2. S \subseteq Nat
  OBVIOUS
<1>3. \E x \in S : \A y \in S : <<y, x>> \notin R
  <2> HIDE DEF R
  <2> QED BY <1>1, <1>2, WFMin
<1>4. \A x, y \in S : <<y, x>> \in R <=> y < x
  BY <1>2
<1> HIDE DEF R
<1>5. PICK x \in S : \A y \in S : ~(y < x)
  BY <1>3, <1>4
<1>6. \A y \in S : x =< y
  BY <1>5
<1> QED BY <1>6 DEF LeastOf, Min

LEMMA GreatestOfIsGreatest ==
    ASSUME NEW n \in Nat, NEW S \in SUBSET (1 .. n), S # {}
    PROVE  GreatestOf(S) \in S /\ \A j \in S : j <= GreatestOf(S)
<1> DEFINE D == {n + 1 - d : d \in S}
<1>1. D \in SUBSET (1 .. n) /\ D # {}
  <2>1. \A d \in S : n + 1 - d \in 1 .. n
    OBVIOUS
  <2>2. \E d \in S : TRUE
    OBVIOUS
  <2> QED BY <2>1, <2>2
<1>2. \A d \in S : n + 1 - d \in D
  OBVIOUS
<1>3. \A d \in D : n + 1 - d \in S /\ d \in 1 .. n
  OBVIOUS
<1> HIDE DEF D
<1>4. PICK d \in D : \A j \in D : d <= j
  BY <1>1, LeastOfIsLeast
<1>5. n + 1 - d \in S /\ \A j \in S : n + 1 - d >= j
  BY <1>2, <1>3, <1>4
<1> QED BY <1>5 DEF GreatestOf, Max

\* A document is well-shaped, its nodes are the live ones, and its root has no parent.
LEMMA DocumentGood ==
    ASSUME NULL \notin Nodes, NEW k \in Nat \ {0}, 1 .. k \subseteq Nodes,
           NEW f \in ParentFunctions(k), NEW t, t = TreeOf(f)
    PROVE  GoodTree(t, 1 .. k) /\ t.parent[1] = NULL
<1> DEFINE KidsOf(p) == {m \in Nodes : f[m] = p}
           Later(m) == {j \in Nodes : j > m /\ f[j] = f[m] /\ f[m] # NULL}
           Earlier(m) == {j \in Nodes : j < m /\ f[j] = f[m] /\ f[m] # NULL}
<1>1. /\ t.next = [m \in Nodes |-> LeastOf(Later(m))]
      /\ t.prev = [m \in Nodes |-> GreatestOf(Earlier(m))]
      /\ t.parent = f
      /\ t.first_child = [m \in Nodes |-> LeastOf(KidsOf(m))]
      /\ t.last_child = [m \in Nodes |-> GreatestOf(KidsOf(m))]
      /\ t = [next |-> t.next, prev |-> t.prev, parent |-> t.parent,
              first_child |-> t.first_child, last_child |-> t.last_child]
  BY DEF TreeOf
<1>2. /\ f \in [Nodes -> Ptr] /\ NULL \notin 1 .. k
      /\ \A m \in Nodes : f[m] # NULL => m \in 2 .. k /\ f[m] \in 1 .. m - 1 /\ f[m] \in 1 .. k
      /\ \A m \in 2 .. k : f[m] # NULL /\ m \in Nodes
  BY DEF ParentFunctions
<1>3. /\ \A m \in Nodes : KidsOf(m) \in SUBSET (1 .. k)
      /\ \A m \in Nodes : Later(m) \in SUBSET (1 .. k)
      /\ \A m \in Nodes : Earlier(m) \in SUBSET (1 .. k)
  BY <1>2
<1>4. \A m \in Nodes : \/ t.next[m] = NULL
                       \/ /\ m \in 2 .. k /\ t.next[m] \in 2 .. k /\ m < t.next[m]
                          /\ f[m] # NULL /\ f[t.next[m]] = f[m]
  <2> SUFFICES ASSUME NEW m \in Nodes, Later(m) # {}
               PROVE  LET n == LeastOf(Later(m))
                      IN  m \in 2 .. k /\ n \in 2 .. k /\ m < n /\ f[m] # NULL /\ f[n] = f[m]
    <3>1. \A m \in Nodes : t.next[m] = LeastOf(Later(m))
      BY <1>1
    <3>2. \A m \in Nodes : Later(m) = {} => LeastOf(Later(m)) = NULL
      BY DEF LeastOf
    <3> HIDE DEF Later
    <3> QED BY <3>1, <3>2
  <2>1. LeastOf(Later(m)) \in Later(m)
    BY <1>3, LeastOfIsLeast
  <2> QED BY <1>2, <2>1
<1>5. \A m, j \in 2 .. k : m < j /\ f[j] = f[m] => t.next[m] # NULL /\ t.next[m] <= j
  <2> SUFFICES ASSUME NEW m \in 2 .. k, NEW j \in 2 .. k, m < j, f[j] = f[m]
               PROVE  t.next[m] # NULL /\ t.next[m] <= j
    OBVIOUS
  <2>1. j \in Later(m) /\ m \in Nodes
    BY <1>2
  <2>2. LeastOf(Later(m)) \in Later(m) /\ LeastOf(Later(m)) <= j
    BY <1>3, <2>1, LeastOfIsLeast
  <2> QED BY <1>1, <2>1, <2>2
<1>6. \A m \in Nodes : \/ t.prev[m] = NULL
                       \/ /\ m \in 2 .. k /\ t.prev[m] \in 2 .. k /\ t.prev[m] < m
                          /\ f[m] # NULL /\ f[t.prev[m]] = f[m]
  <2> SUFFICES ASSUME NEW m \in Nodes, Earlier(m) # {}
               PROVE  LET n == GreatestOf(Earlier(m))
                      IN  m \in 2 .. k /\ n \in 2 .. k /\ n < m /\ f[m] # NULL /\ f[n] = f[m]
    <3>1. \A m \in Nodes : t.prev[m] = GreatestOf(Earlier(m))
      BY <1>1
    <3>2. \A m \in Nodes : Earlier(m) = {} => GreatestOf(Earlier(m)) = NULL
      BY DEF GreatestOf
    <3> HIDE DEF Earlier
    <3> QED BY <3>1, <3>2
  <2>1. GreatestOf(Earlier(m)) \in Earlier(m)
    BY <1>3, GreatestOfIsGreatest
  <2> QED BY <1>2, <2>1
<1>7. \A m, j \in 2 .. k : j < m /\ f[j] = f[m] => t.prev[m] # NULL /\ j <= t.prev[m]
  <2> SUFFICES ASSUME NEW m \in 2 .. k, NEW j \in 2 .. k, j < m, f[j] = f[m]
               PROVE  t.prev[m] # NULL /\ j <= t.prev[m]
    OBVIOUS
  <2>1. j \in Earlier(m) /\ m \in Nodes
    BY <1>2
  <2>2. GreatestOf(Earlier(m)) \in Earlier(m) /\ j <= GreatestOf(Earlier(m))
    BY <1>3, <2>1, GreatestOfIsGreatest
  <2> QED BY <1>1, <2>1, <2>2
<1>8. \A p \in Nodes : /\ t.first_child[p] = NULL <=> KidsOf(p) = {}
                       /\ t.last_child[p] = NULL <=> KidsOf(p) = {}
                       /\ KidsOf(p) # {} =>
                             /\ t.first_child[p] \in KidsOf(p) /\ t.last_child[p] \in KidsOf(p)
                             /\ \A j \in KidsOf(p) : t.first_child[p] <= j /\ j <= t.last_child[p]
  <2> SUFFICES ASSUME NEW p \in Nodes
               PROVE  LET a == LeastOf(KidsOf(p))
                          z == GreatestOf(KidsOf(p))
                      IN  /\ a = NULL <=> KidsOf(p) = {}
                          /\ z = NULL <=> KidsOf(p) = {}
                          /\ KidsOf(p) # {} => /\ a \in KidsOf(p) /\ z \in KidsOf(p)
                                               /\ \A j \in KidsOf(p) : a <= j /\ j <= z
    <3>1. \A p \in Nodes : t.first_child[p] = LeastOf(KidsOf(p)) /\ t.last_child[p] = GreatestOf(KidsOf(p))
      BY <1>1
    <3> HIDE DEF KidsOf
    <3> QED BY <3>1
  <2>1. CASE KidsOf(p) = {}
    BY <2>1 DEF LeastOf, GreatestOf
  <2>2. CASE KidsOf(p) # {}
    <3>1. LeastOf(KidsOf(p)) \in KidsOf(p) /\ \A j \in KidsOf(p) : LeastOf(KidsOf(p)) <= j
      BY <1>3, <2>2, LeastOfIsLeast
    <3>2. GreatestOf(KidsOf(p)) \in KidsOf(p) /\ \A j \in KidsOf(p) : j <= GreatestOf(KidsOf(p))
      BY <1>3, <2>2, GreatestOfIsGreatest
    <3> QED BY <2>2, <3>1, <3>2
  <2> QED BY <2>1, <2>2
<1>9. \A p \in Nodes : /\ t.first_child[p] # NULL => t.first_child[p] \in 2 .. k /\ f[t.first_child[p]] = p
                       /\ t.last_child[p] # NULL => t.last_child[p] \in 2 .. k /\ f[t.last_child[p]] = p
                       /\ t.first_child[p] = NULL <=> t.last_child[p] = NULL
                       /\ \A j \in 2 .. k : f[j] = p =>
                             /\ t.first_child[p] # NULL /\ t.first_child[p] <= j
                             /\ t.last_child[p] # NULL /\ j <= t.last_child[p]
  BY <1>2, <1>8
<1>10. t \in Trees
  <2>1. /\ t.next \in [Nodes -> Ptr] /\ t.prev \in [Nodes -> Ptr]
        /\ t.first_child \in [Nodes -> Ptr] /\ t.last_child \in [Nodes -> Ptr]
    BY <1>1, <1>2, <1>4, <1>6, <1>9 DEF Ptr
  <2> HIDE DEF KidsOf, Later, Earlier
  <2> QED BY <1>1, <1>2, <2>1 DEF Trees
<1>11. t.parent = f
  BY <1>1
<1> HIDE DEF KidsOf, Later, Earlier
<1>12. SiblingLinks(t)
  <2>1. ASSUME NEW m \in Nodes, t.next[m] # NULL
        PROVE  t.prev[t.next[m]] = m /\ t.parent[t.next[m]] = t.parent[m]
    <3> DEFINE n == t.next[m]
    <3>1. n \in 2 .. k /\ m \in 2 .. k /\ m < n /\ f[n] = f[m] /\ n \in Nodes
      BY <1>2, <1>4, <2>1
    <3> HIDE DEF n
    <3>2. t.prev[n] # NULL /\ m <= t.prev[n] /\ t.prev[n] \in 2 .. k /\ t.prev[n] < n /\ f[t.prev[n]] = f[n]
      BY <1>6, <1>7, <3>1
    <3>3. m < t.prev[n] => n <= t.prev[n]
      BY <1>5, <3>1, <3>2 DEF n
    <3>4. t.prev[n] = m
      BY <3>1, <3>2, <3>3
    <3> QED BY <1>11, <3>1, <3>4 DEF n
  <2>2. ASSUME NEW m \in Nodes, t.prev[m] # NULL PROVE t.next[t.prev[m]] = m
    <3> DEFINE n == t.prev[m]
    <3>1. n \in 2 .. k /\ m \in 2 .. k /\ n < m /\ f[n] = f[m] /\ n \in Nodes
      BY <1>2, <1>6, <2>2
    <3> HIDE DEF n
    <3>2. t.next[n] # NULL /\ t.next[n] <= m /\ t.next[n] \in 2 .. k /\ n < t.next[n] /\ f[t.next[n]] = f[n]
      BY <1>4, <1>5, <3>1
    <3>3. t.next[n] < m => t.next[n] <= n
      BY <1>7, <3>1, <3>2 DEF n
    <3>4. t.next[n] = m
      BY <3>1, <3>2, <3>3
    <3> QED BY <3>4 DEF n
  <2> QED BY <2>1, <2>2 DEF SiblingLinks
<1>13. ParentLinks(t)
  <2>1. \A m \in Nodes : f[m] = NULL => t.next[m] = NULL /\ t.prev[m] = NULL
    BY <1>4, <1>6
  <2>2. ASSUME NEW m \in Nodes, f[m] # NULL
        PROVE  /\ t.prev[m] = NULL => t.first_child[f[m]] = m
               /\ t.next[m] = NULL => t.last_child[f[m]] = m
    <3> DEFINE p == f[m]
               a == t.first_child[p]
               z == t.last_child[p]
    <3>1. p \in Nodes /\ m \in 2 .. k
      BY <1>2, <2>2
    <3>2. /\ a \in 2 .. k /\ f[a] = f[m] /\ a <= m
          /\ z \in 2 .. k /\ f[z] = f[m] /\ m <= z
      BY <1>9, <3>1
    <3> HIDE DEF a, z
    <3>3. a < m => t.prev[m] # NULL
      BY <1>7, <3>1, <3>2
    <3>4. m < z => t.next[m] # NULL
      BY <1>5, <3>1, <3>2
    <3>5. (t.prev[m] = NULL => a = m) /\ (t.next[m] = NULL => z = m)
      BY <3>1, <3>2, <3>3, <3>4
    <3> QED BY <3>5 DEF a, z
  <2>3. ASSUME NEW p \in Nodes, t.first_child[p] # NULL
        PROVE  f[t.first_child[p]] = p /\ t.prev[t.first_child[p]] = NULL
    <3> DEFINE a == t.first_child[p]
    <3>1. a \in 2 .. k /\ f[a] = p /\ a \in Nodes /\ \A j \in 2 .. k : f[j] = p => a <= j
      BY <1>2, <1>9, <2>3
    <3> HIDE DEF a
    <3>2. t.prev[a] = NULL
      BY <1>6, <3>1
    <3> QED BY <3>1, <3>2 DEF a
  <2>4. ASSUME NEW p \in Nodes, t.last_child[p] # NULL
        PROVE  f[t.last_child[p]] = p /\ t.next[t.last_child[p]] = NULL
    <3> DEFINE z == t.last_child[p]
    <3>1. z \in 2 .. k /\ f[z] = p /\ z \in Nodes /\ \A j \in 2 .. k : f[j] = p => j <= z
      BY <1>2, <1>9, <2>4
    <3> HIDE DEF z
    <3>2. t.next[z] = NULL
      BY <1>4, <3>1
    <3> QED BY <3>1, <3>2 DEF z
  <2>5. \A p \in Nodes : t.first_child[p] = NULL <=> t.last_child[p] = NULL
    BY <1>9
  <2> QED BY <1>11, <2>1, <2>2, <2>3, <2>4, <2>5 DEF ParentLinks
<1>14. WellFounded(t.parent)
  <2> SUFFICES ASSUME NEW S \in SUBSET Nodes, S # {}, \A m \in S : f[m] \in S
               PROVE  FALSE
    BY <1>11 DEF WellFounded
  <2>1. S \in SUBSET (1 .. k)
    BY <1>2
  <2>2. PICK m \in S : \A j \in S : m <= j
    BY <2>1, LeastOfIsLeast
  <2>3. f[m] \in S /\ m \in 1 .. k /\ f[m] \in 1 .. m - 1
    BY <1>2, <2>1, <2>2
  <2> QED BY <2>2, <2>3
<1>15. WellFounded(t.next)
  <2> SUFFICES ASSUME NEW S \in SUBSET Nodes, S # {}, \A m \in S : t.next[m] \in S
               PROVE  FALSE
    BY DEF WellFounded
  <2>1. S \in SUBSET (1 .. k)
    BY <1>4
  <2>2. PICK m \in S : \A j \in S : j <= m
    BY <2>1, GreatestOfIsGreatest
  <2>3. t.next[m] \in S /\ m < t.next[m] /\ m \in 1 .. k /\ t.next[m] \in 1 .. k
    BY <1>4, <2>1, <2>2
  <2> QED BY <2>2, <2>3
<1>16. Untouched(t, 1 .. k)
  <2>1. \A m \in Nodes \ (1 .. k) : \A j \in Nodes : f[j] # m
    BY <1>2
  <2>2. \A m \in Nodes \ (1 .. k) : f[m] = NULL /\ t.next[m] = NULL /\ t.prev[m] = NULL
    BY <1>2, <1>4, <1>6
  <2>3. \A m \in Nodes \ (1 .. k) : t.first_child[m] = NULL /\ t.last_child[m] = NULL
    BY <1>2, <1>9, <2>1
  <2> QED BY <1>11, <2>1, <2>2, <2>3 DEF Untouched
<1>17. f[1] = NULL
  BY <1>2
<1> QED BY <1>10, <1>11, <1>12, <1>13, <1>14, <1>15, <1>16, <1>17 DEF GoodTree, Shape, Links

\* cmark_iter_next with an event on a live node below the root.
LEMMA AdvanceGood ==
    ASSUME NULL \notin Nodes, GoodTree(tree, live), root \in Nodes, tree.parent[root] = NULL,
           ~asserted, NEW A, A = Subtree(tree, root) \intersect live,
           NEW s, IsDone(s) \/ IsEvent(s, A), Advance(s)
    PROVE  /\ ~asserted' /\ cur' = s
           /\ IsDone(next') \/ IsEvent(next', A)
           /\ IsEvent(s, A) /\ ~(s.ev = "ENTER" /\ ~S_is_leaf(s.node)) =>
                 next'.node \notin Subtree(tree, s.node)
           /\ s.ev = "ENTER" /\ S_is_leaf(s.node) /\ s.node # root /\ tree.next[s.node] # NULL =>
                 next' = State("ENTER", tree.next[s.node])
<1>1. /\ cur' = s
      /\ next' = IF s.ev = "DONE" THEN s ELSE Rolled(s.ev, s.node)
      /\ asserted' = (asserted \/ (s.ev # "DONE" /\ FallsThrough(s.ev, s.node)))
  BY DEF Advance
<1>2. CASE IsDone(s)
  BY <1>1, <1>2 DEF IsDone, IsEvent
<1>3. CASE IsEvent(s, A)
  <2>1. s.ev \in {"ENTER", "EXIT"} /\ s.node \in A /\ s.ev # "DONE"
    BY <1>3 DEF IsEvent
  <2>2. next' = Rolled(s.ev, s.node)
    BY <1>1, <2>1
  <2>3. /\ ~FallsThrough(s.ev, s.node)
        /\ IsDone(next') \/ IsEvent(next', A)
        /\ ~(s.ev = "ENTER" /\ ~S_is_leaf(s.node)) => next'.node \notin Subtree(tree, s.node)
        /\ s.ev = "ENTER" /\ S_is_leaf(s.node) /\ s.node # root /\ tree.next[s.node] # NULL =>
              next' = State("ENTER", tree.next[s.node])
    BY <2>1, <2>2, RolledGood
  <2> QED BY <1>1, <2>1, <2>3
<1> QED BY <1>2, <1>3

-----------------------------------------------------------------------------
(* The invariant is inductive.                                             *)

LEMMA InitIInv == Init => IInv
<1> SUFFICES ASSUME Init PROVE IInv
  OBVIOUS
<1>1. /\ NULL \notin Nodes /\ Size \in Nat \ {0} /\ 1 .. Size \subseteq Nodes
      /\ 1 \in 1 .. Size /\ 1 \in Nodes
  BY IteratorAssumption
<1>2. PICK f \in ParentFunctions(Size) : tree = TreeOf(f)
  BY DEF Init, TreesOfSize
<1>3. GoodTree(tree, live) /\ tree.parent[root] = NULL
  BY <1>1, <1>2, DocumentGood DEF Init
<1>4. 1 \in Subtree(tree, 1)
  BY <1>1, <1>3, SubtreeClosed DEF GoodTree
<1>5. Walk(tree, live)
  BY <1>1, <1>3, <1>4 DEF Init, Walk, State, IsEvent
<1> QED BY <1>3, <1>5 DEF Init, IInv

\* Between calls of cmark_node_free.
LEMMA IdleFacts ==
    ASSUME IInv, e = NULL
    PROVE  /\ NULL \notin Nodes /\ root = 1 /\ root \in Nodes
           /\ GoodTree(tree, live) /\ Walk(tree, live) /\ live \subseteq Nodes
  BY IteratorAssumption DEF IInv, GoodTree

LEMMA StepIInv == IInv /\ Step => IInv'
<1> SUFFICES ASSUME IInv, Step PROVE IInv'
  OBVIOUS
<1> DEFINE A == Subtree(tree, root) \intersect live
<1>1. client = "general" /\ e = NULL
  BY DEF Step
<1>2. /\ NULL \notin Nodes /\ root \in Nodes /\ GoodTree(tree, live) /\ Walk(tree, live)
  BY <1>1, IdleFacts
<1>3. UNCHANGED <<tree, live, e, call, client, kind, root, tmp>>
  BY DEF Step, fvars
<1>4. ~asserted /\ tree.parent[root] = NULL /\ (IsDone(next) \/ IsEvent(next, A)) /\ tmp = NULL
  BY <1>1, <1>2 DEF Walk
<1>5. Advance(next)
  BY DEF Step, cmark_iter_next
<1>6. /\ ~asserted' /\ cur' = next
      /\ IsDone(next') \/ IsEvent(next', A)
      /\ IsEvent(next, A) /\ ~(next.ev = "ENTER" /\ ~S_is_leaf(next.node)) =>
            next'.node \notin Subtree(tree, next.node)
  BY <1>2, <1>4, <1>5, AdvanceGood
<1>7. cur'.ev \in {"ENTER", "EXIT"} => cur'.node \in A /\ IsEvent(next, A)
  BY <1>4, <1>6 DEF IsDone, IsEvent
<1>8. Walk(tree, live)'
  BY <1>3, <1>4, <1>6, <1>7 DEF Walk, MayModify, S_is_leaf
<1> QED BY <1>1, <1>2, <1>3, <1>8 DEF IInv

LEMMA SkipCurIInv == IInv /\ SkipCur => IInv'
<1> SUFFICES ASSUME IInv, SkipCur PROVE IInv'
  OBVIOUS
<1> DEFINE A == Subtree(tree, root) \intersect live
           s == State("EXIT", cur.node)
<1>1. client = "general" /\ e = NULL /\ ~gone /\ cur.ev = "ENTER"
  BY DEF SkipCur, Change
<1>2. /\ NULL \notin Nodes /\ root \in Nodes /\ GoodTree(tree, live) /\ Walk(tree, live)
  BY <1>1, IdleFacts
<1>3. UNCHANGED <<tree, live, e, call, client, kind, root, gone, tmp>>
  BY DEF SkipCur, fvars
<1>4. ~asserted /\ tree.parent[root] = NULL /\ cur.node \in A /\ tmp = NULL
  BY <1>1, <1>2 DEF Walk
<1>5. Advance(s) /\ IsEvent(s, A) /\ s.ev = "EXIT" /\ s.node = cur.node
  BY <1>4 DEF SkipCur, cmark_iter_reset, IsEvent, State
<1> HIDE DEF s
<1>6. /\ ~asserted' /\ cur' = s
      /\ IsDone(next') \/ IsEvent(next', A)
      /\ next'.node \notin Subtree(tree, s.node)
  BY <1>2, <1>4, <1>5, AdvanceGood
<1>7. Walk(tree, live)'
  BY <1>3, <1>4, <1>5, <1>6 DEF Walk, MayModify, S_is_leaf
<1> QED BY <1>1, <1>2, <1>3, <1>7 DEF IInv

\* The client calls cmark_node_free on a node that the next event is not below.
LEMMA FreeBegins ==
    ASSUME NULL \notin Nodes, root = 1, client \in {"general", "consolidate"},
           kind' \in [Nodes -> {"text", "container"}],
           NEW t, NEW L, GoodTree(t, L), NEW n \in L, t.parent[root] = NULL,
           cmark_node_free(t, L, n), UNCHANGED <<client, root>>, ~asserted',
           IsDone(next') \/ (IsEvent(next', Subtree(t, root) \intersect L) /\ next'.node \notin Subtree(t, n)),
           client = "general" => tmp' = NULL /\ gone',
           tmp' # NULL => /\ next'.ev = "ENTER" /\ next'.node = tmp'
                          /\ kind'[tmp'] = "text" /\ tmp' # root
    PROVE  IInv'
<1> DEFINE S == Subtree(t, n)
           v == Freed(S_node_unlink(t, n), S)
           u == S_node_unlink(t, n)
           w == [u EXCEPT !.next = Store(u.next, n, NULL)]
<1>1. /\ e' = n /\ call' = [tree |-> t, live |-> L, target |-> n]
      /\ tree' = w /\ live' = L
  BY DEF cmark_node_free
<1>2. call'.tree = t /\ call'.live = L /\ call'.target = n
  BY <1>1
<1>3. Freeing(t, n, L, w, L, n)
  BY FreeingBegins
<1>4. LeftTree' = v /\ LeftLive' = L \ S
  BY <1>2 DEF LeftTree, LeftLive
<1> HIDE DEF S, v, u, w
<1>5. /\ GoodTree(v, L \ S)
      /\ \A m \in Nodes : v.parent[m] = IF m \in S THEN NULL ELSE t.parent[m]
      /\ \A m \in Nodes \ S, k \in Nodes : m \in Subtree(v, k) <=> m \in Subtree(t, k)
  BY FreedGood DEF S, v
<1>6. n \in Nodes /\ L \subseteq Nodes /\ n # NULL /\ root \in Nodes
  BY IteratorAssumption DEF GoodTree
<1>7. IsDone(next') \/ IsEvent(next', Subtree(v, root) \intersect (L \ S))
  BY <1>5, <1>6 DEF IsEvent, S
<1>8. v.parent[root] = NULL
  BY <1>5, <1>6
<1>9. Walk(LeftTree, LeftLive)'
  BY <1>4, <1>7, <1>8 DEF Walk
<1> QED BY <1>1, <1>2, <1>3, <1>6, <1>9 DEF IInv

\* What the client may change, between two calls of cmark_iter_next.
LEMMA ChangeFacts ==
    ASSUME IInv, Change, cur.ev \in {"ENTER", "EXIT"}
    PROVE  /\ client = "general" /\ e = NULL /\ ~gone /\ tmp = NULL /\ ~asserted
           /\ tree.parent[root] = NULL
           /\ cur.node \in live /\ cur.node \in Subtree(tree, root)
           /\ IsDone(next) \/ IsEvent(next, Subtree(tree, root) \intersect live)
           /\ MayModify => next.node \notin Subtree(tree, cur.node)
<1>1. client = "general" /\ e = NULL /\ ~gone
  BY DEF Change
<1>2. Walk(tree, live)
  BY <1>1, IdleFacts
<1> QED BY <1>1, <1>2 DEF Walk

LEMMA FreeCurIInv == IInv /\ FreeCur => IInv'
<1> SUFFICES ASSUME IInv, FreeCur PROVE IInv'
  OBVIOUS
<1>1. Change /\ MayModify /\ cur.ev \in {"ENTER", "EXIT"}
  BY DEF FreeCur, MayModify
<1>2. /\ client = "general" /\ e = NULL /\ tmp = NULL /\ ~asserted
      /\ tree.parent[root] = NULL /\ cur.node \in live
      /\ IsDone(next) \/ IsEvent(next, Subtree(tree, root) \intersect live)
      /\ next.node \notin Subtree(tree, cur.node)
  BY <1>1, ChangeFacts
<1>3. /\ cmark_node_free(tree, live, cur.node) /\ gone'
      /\ UNCHANGED <<client, kind, root, next, asserted, tmp>>
  BY DEF FreeCur
<1>4. /\ NULL \notin Nodes /\ root = 1 /\ client \in {"general", "consolidate"}
      /\ kind \in [Nodes -> {"text", "container"}] /\ GoodTree(tree, live)
  BY <1>2, IdleFacts DEF IInv
<1> QED BY <1>2, <1>3, <1>4, FreeBegins

LEMMA UnlinkCurIInv == IInv /\ UnlinkCur => IInv'
<1> SUFFICES ASSUME IInv, UnlinkCur PROVE IInv'
  OBVIOUS
<1> DEFINE v == Unlinked(tree, cur.node)
           S == Subtree(tree, cur.node)
<1>1. Change /\ MayModify /\ cur.ev \in {"ENTER", "EXIT"}
  BY DEF UnlinkCur, MayModify
<1>2. /\ client = "general" /\ e = NULL /\ tmp = NULL /\ ~asserted
      /\ tree.parent[root] = NULL /\ cur.node \in live
      /\ IsDone(next) \/ IsEvent(next, Subtree(tree, root) \intersect live)
      /\ next.node \notin S
  BY <1>1, ChangeFacts
<1>3. /\ tree' = v /\ gone'
      /\ UNCHANGED <<live, e, client, kind, root, next, asserted, tmp>>
  BY DEF UnlinkCur
<1>4. /\ NULL \notin Nodes /\ root \in Nodes /\ GoodTree(tree, live) /\ live \subseteq Nodes
  BY <1>2, IdleFacts
<1> HIDE DEF v, S
<1>5. /\ GoodTree(v, live)
      /\ \A m \in Nodes : v.parent[m] = IF m = cur.node THEN NULL ELSE tree.parent[m]
      /\ \A m \in Nodes \ S, k \in Nodes : m \in Subtree(v, k) <=> m \in Subtree(tree, k)
  BY <1>2, <1>4, UnlinkedGood DEF v, S
<1>6. v.parent[root] = NULL /\ (IsDone(next) \/ IsEvent(next, Subtree(v, root) \intersect live))
  BY <1>2, <1>4, <1>5 DEF IsEvent
<1>7. Walk(tree, live)'
  BY <1>2, <1>3, <1>6 DEF Walk
<1> QED BY <1>2, <1>3, <1>5, <1>7 DEF IInv

LEMMA ReplaceCurIInv == IInv /\ ReplaceCur => IInv'
<1> SUFFICES ASSUME IInv, ReplaceCur PROVE IInv'
  OBVIOUS
<1> DEFINE c == cur.node
<1>1. Change /\ MayModify /\ cur.ev \in {"ENTER", "EXIT"}
  BY DEF ReplaceCur, MayModify
<1>2. /\ client = "general" /\ e = NULL /\ tmp = NULL /\ ~asserted
      /\ tree.parent[root] = NULL /\ c \in live
      /\ IsDone(next) \/ IsEvent(next, Subtree(tree, root) \intersect live)
      /\ next.node \notin Subtree(tree, c)
  BY <1>1, ChangeFacts
<1>3. PICK n \in Fresh : NewText(n) /\ cmark_node_free(InsertedAfter(tree, c, n), live \union {n}, c)
  BY DEF ReplaceCur
<1>4. /\ gone' /\ UNCHANGED <<client, root, next, asserted, tmp>> /\ tree.parent[c] # NULL
  BY DEF ReplaceCur
<1>5. /\ NULL \notin Nodes /\ root = 1 /\ root \in Nodes /\ client \in {"general", "consolidate"}
      /\ kind \in [Nodes -> {"text", "container"}] /\ GoodTree(tree, live) /\ live \subseteq Nodes
  BY <1>2, IdleFacts DEF IInv
<1>6. kind' \in [Nodes -> {"text", "container"}]
  BY <1>3, <1>5 DEF NewText
<1>7. n \in Nodes \ live /\ n # root
  BY <1>5, IteratorAssumption DEF Fresh
<1> DEFINE v == InsertedAfter(tree, c, n)
           L2 == live \union {n}
<1> HIDE DEF c
<1>8. /\ GoodTree(v, L2)
      /\ \A m \in Nodes : v.parent[m] = IF m = n THEN tree.parent[c] ELSE tree.parent[m]
      /\ \A m \in Nodes : tree.parent[m] # n
  <2>1. /\ NULL \notin Nodes /\ GoodTree(tree, live) /\ c \in live
        /\ tree.parent[c] # NULL /\ n \in Nodes \ live
    BY <1>2, <1>4, <1>5, <1>7
  <2>2. v = InsertedAfter(tree, c, n)
    OBVIOUS
  <2> QED BY ONLY <2>1, <2>2, NewAfter DEF L2
<1>9. cmark_node_free(v, L2, c) /\ c \in L2 /\ c \in Nodes
  BY <1>2, <1>3, <1>5
<1> HIDE DEF v, L2
<1>10. \A m \in Nodes \ {n}, k \in Nodes : m \in Subtree(v, k) <=> m \in Subtree(tree, k)
  BY <1>5, <1>7, <1>8, SamePlaceBeside DEF GoodTree
<1>11. \/ IsDone(next)
       \/ IsEvent(next, Subtree(v, root) \intersect L2) /\ next.node \notin Subtree(v, c)
  BY <1>2, <1>5, <1>7, <1>9, <1>10 DEF IsEvent, L2
<1>12. v.parent[root] = NULL
  BY <1>2, <1>5, <1>7, <1>8
<1> QED BY <1>2, <1>4, <1>5, <1>6, <1>8, <1>9, <1>11, <1>12, FreeBegins

LEMMA FillCurIInv == IInv /\ FillCur => IInv'
<1> SUFFICES ASSUME IInv, FillCur PROVE IInv'
  OBVIOUS
<1> DEFINE c == cur.node
<1>1. Change /\ cur.ev = "ENTER" /\ ~S_is_leaf(c)
  BY DEF FillCur
<1>2. /\ client = "general" /\ e = NULL /\ tmp = NULL /\ ~asserted
      /\ tree.parent[root] = NULL /\ c \in live /\ c \in Subtree(tree, root)
      /\ IsDone(next) \/ IsEvent(next, Subtree(tree, root) \intersect live)
  BY <1>1, ChangeFacts
<1>3. PICK n \in Fresh : NewText(n) /\ live' = live \union {n} /\ tree' = Appended(tree, c, n)
  BY DEF FillCur
<1>4. UNCHANGED <<e, client, root, cur, next, asserted, gone, tmp>>
  BY DEF FillCur, walk
<1>5. /\ NULL \notin Nodes /\ root = 1 /\ root \in Nodes
      /\ kind \in [Nodes -> {"text", "container"}] /\ GoodTree(tree, live) /\ live \subseteq Nodes
  BY <1>2, IdleFacts DEF IInv
<1>6. kind' \in [Nodes -> {"text", "container"}] /\ \A m \in Nodes : m # n => kind'[m] = kind[m]
  BY <1>3, <1>5 DEF NewText
<1>7. n \in Nodes \ live /\ n # root
  BY <1>5, IteratorAssumption DEF Fresh
<1> DEFINE v == Appended(tree, c, n)
           L2 == live \union {n}
<1> HIDE DEF c
<1>8. /\ GoodTree(v, L2)
      /\ \A m \in Nodes : v.parent[m] = IF m = n THEN c ELSE tree.parent[m]
      /\ \A m \in Nodes : tree.parent[m] # n
  BY <1>2, <1>5, <1>7, NewLast
<1>9. tree' = v /\ live' = L2
  BY <1>3
<1> HIDE DEF v, L2
<1>10. \A m \in Nodes \ {n}, k \in Nodes : m \in Subtree(v, k) <=> m \in Subtree(tree, k)
  BY <1>5, <1>7, <1>8, SamePlaceBeside DEF GoodTree
<1>11. /\ IsDone(next) \/ IsEvent(next, Subtree(v, root) \intersect L2)
       /\ c \in Subtree(v, root) \intersect L2
  BY <1>2, <1>5, <1>7, <1>10 DEF IsEvent, L2
<1>12. v.parent[root] = NULL
  BY <1>2, <1>5, <1>7, <1>8
<1>13. ~MayModify'
  <2>1. cur'.ev = "ENTER" /\ kind'[cur'.node] # "text"
    BY <1>1, <1>2, <1>4, <1>5, <1>6, <1>7 DEF S_is_leaf, c
  <2> QED BY <2>1 DEF MayModify, S_is_leaf
<1>14. Walk(tree, live)'
  BY <1>2, <1>4, <1>9, <1>11, <1>12, <1>13 DEF Walk, c
<1> QED BY <1>2, <1>4, <1>5, <1>6, <1>8, <1>9, <1>14 DEF IInv

\* The text that follows a live text node below the root is below the root too.
LEMMA FollowingText ==
    ASSUME NULL \notin Nodes, GoodTree(tree, live), root \in Nodes, tree.parent[root] = NULL,
           NEW n \in Subtree(tree, root) \intersect live, IsText(tree.next[n])
    PROVE  n # root /\ tree.next[n] # NULL /\ tree.next[n] # root /\ kind[tree.next[n]] = "text"
<1>1. /\ tree \in Trees /\ n \in Nodes /\ SiblingLinks(tree) /\ ParentLinks(tree)
      /\ tree.next[n] # NULL /\ kind[tree.next[n]] = "text"
  BY DEF GoodTree, Shape, Links, IsText
<1>2. n # root /\ tree.parent[n] # NULL
  BY <1>1 DEF ParentLinks
<1>3. tree.parent[tree.next[n]] = tree.parent[n]
  BY <1>1 DEF SiblingLinks
<1> QED BY <1>1, <1>2, <1>3

LEMMA ConsolidateStepIInv == IInv /\ ConsolidateStep => IInv'
<1> SUFFICES ASSUME IInv, ConsolidateStep PROVE IInv'
  OBVIOUS
<1> DEFINE A == Subtree(tree, root) \intersect live
<1>1. client = "consolidate" /\ e = NULL
  BY DEF ConsolidateStep
<1>2. /\ NULL \notin Nodes /\ root \in Nodes /\ GoodTree(tree, live) /\ Walk(tree, live)
  BY <1>1, IdleFacts
<1>3. UNCHANGED <<tree, live, e, call, client, kind, root>>
  BY DEF ConsolidateStep, fvars
<1>4. ~asserted /\ tree.parent[root] = NULL /\ (IsDone(next) \/ IsEvent(next, A))
  BY <1>2 DEF Walk
<1>5. Advance(next)
  BY DEF ConsolidateStep, cmark_iter_next
<1>6. /\ ~asserted'
      /\ IsDone(next') \/ IsEvent(next', A)
      /\ next.ev = "ENTER" /\ S_is_leaf(next.node) /\ next.node # root /\ tree.next[next.node] # NULL =>
            next' = State("ENTER", tree.next[next.node])
  BY <1>2, <1>4, <1>5, AdvanceGood
<1>7. ASSUME tmp' # NULL
      PROVE  next'.ev = "ENTER" /\ next'.node = tmp' /\ kind[tmp'] = "text" /\ tmp' # root
  <2>1. /\ next.ev = "ENTER" /\ IsText(next.node) /\ IsText(tree.next[next.node])
        /\ tmp' = tree.next[next.node]
    BY <1>7 DEF ConsolidateStep
  <2>2. next.node \in A
    BY <1>4, <2>1 DEF IsDone, IsEvent
  <2>3. next.node # root /\ tmp' # root /\ kind[tmp'] = "text"
    BY <1>2, <1>4, <2>1, <2>2, FollowingText
  <2> QED BY <1>6, <1>7, <2>1, <2>3 DEF S_is_leaf, IsText, State
<1>8. Walk(tree, live)'
  BY <1>1, <1>3, <1>4, <1>6, <1>7 DEF Walk
<1> QED BY <1>1, <1>2, <1>3, <1>8 DEF IInv

LEMMA ConsolidateMergeIInv == IInv /\ ConsolidateMerge => IInv'
<1> SUFFICES ASSUME IInv, ConsolidateMerge PROVE IInv'
  OBVIOUS
<1> DEFINE A == Subtree(tree, root) \intersect live
<1>1. e = NULL /\ tmp # NULL
  BY DEF ConsolidateMerge
<1>2. /\ NULL \notin Nodes /\ root = 1 /\ root \in Nodes /\ GoodTree(tree, live) /\ Walk(tree, live)
      /\ client \in {"general", "consolidate"} /\ kind \in [Nodes -> {"text", "container"}]
  BY <1>1, IdleFacts DEF IInv
<1>3. /\ cmark_node_free(tree, live, tmp) /\ UNCHANGED <<client, kind, root>>
      /\ tmp' = IF IsText(tree.next[tmp]) THEN tree.next[tmp] ELSE NULL
  BY DEF ConsolidateMerge, MergeNext
<1>4. /\ ~asserted /\ tree.parent[root] = NULL /\ (IsDone(next) \/ IsEvent(next, A))
      /\ next.ev = "ENTER" /\ next.node = tmp /\ kind[tmp] = "text" /\ tmp # root
      /\ client # "general"
  BY <1>1, <1>2 DEF Walk
<1>5. IsEvent(next, A) /\ tmp \in A /\ tmp \in live
  BY <1>4 DEF IsDone, IsEvent
<1>6. Advance(next)
  BY DEF ConsolidateMerge, PastMerged, cmark_iter_next
<1>7. /\ ~asserted'
      /\ IsDone(next') \/ IsEvent(next', A)
      /\ next'.node \notin Subtree(tree, tmp)
      /\ tree.next[tmp] # NULL => next' = State("ENTER", tree.next[tmp])
  <2>1. S_is_leaf(next.node)
    BY <1>4 DEF S_is_leaf
  <2>2. /\ ~asserted'
        /\ IsDone(next') \/ IsEvent(next', A)
        /\ IsEvent(next, A) /\ ~(next.ev = "ENTER" /\ ~S_is_leaf(next.node)) =>
              next'.node \notin Subtree(tree, next.node)
        /\ next.ev = "ENTER" /\ S_is_leaf(next.node) /\ next.node # root /\ tree.next[next.node] # NULL =>
              next' = State("ENTER", tree.next[next.node])
    BY <1>2, <1>4, <1>6, AdvanceGood
  <2> QED BY <1>4, <1>5, <2>1, <2>2
<1>8. ASSUME tmp' # NULL
      PROVE  next'.ev = "ENTER" /\ next'.node = tmp' /\ kind[tmp'] = "text" /\ tmp' # root
  <2>1. IsText(tree.next[tmp]) /\ tmp' = tree.next[tmp]
    BY <1>3, <1>8
  <2>2. tmp' # root /\ kind[tmp'] = "text"
    BY <1>2, <1>4, <1>5, <2>1, FollowingText
  <2> QED BY <1>7, <1>8, <2>1, <2>2 DEF State
<1> HIDE DEF A
<1>9. IsDone(next') \/ (IsEvent(next', Subtree(tree, root) \intersect live) /\ next'.node \notin Subtree(tree, tmp))
  BY <1>7 DEF A
<1>10. kind' \in [Nodes -> {"text", "container"}]
  BY <1>2, <1>3
<1>11. client = "general" => tmp' = NULL /\ gone'
  BY <1>4
<1>12. tmp' # NULL => /\ next'.ev = "ENTER" /\ next'.node = tmp'
                      /\ kind'[tmp'] = "text" /\ tmp' # root
  BY <1>3, <1>8
<1> QED BY <1>2, <1>3, <1>4, <1>5, <1>7, <1>9, <1>10, <1>11, <1>12, FreeBegins

\* An iteration of S_free_nodes; after the last one the tree is what was to be left.
LEMMA FreeStepMeans ==
    ASSUME IInv, FreeStep
    PROVE  /\ e # NULL /\ live' \subseteq call.live
           /\ Freeing(call.tree, call.target, call.live, tree', live', e')
           /\ e' = NULL => tree' = LeftTree /\ live' = LeftLive
           /\ e' # NULL => call' = call
<1> DEFINE T == call.tree
           L == call.live
           n == call.target
           g == SpliceChildren(tree, e)
           t2 == Freed([tree EXCEPT !.next = g], {e})
<1>1. /\ e # NULL /\ tree' = t2 /\ e' = g[e] /\ live' = live \ {e}
      /\ e' # NULL => call' = call
  BY DEF FreeStep, S_free_nodes
<1>2. /\ NULL \notin Nodes /\ GoodTree(T, L) /\ n \in L /\ live \subseteq L
      /\ Freeing(T, n, L, tree, live, e)
  BY <1>1, IteratorAssumption DEF IInv
<1>3. e \in live /\ Freeing(T, n, L, t2, live \ {e}, g[e])
  BY <1>1, <1>2, FreeingGoesOn
<1> HIDE DEF T, L, n, g, t2
<1>4. live' \subseteq L /\ Freeing(T, n, L, tree', live', e')
  BY <1>1, <1>2, <1>3
<1>5. e' = NULL => live' = L \ Subtree(T, n) /\ tree' = Freed(S_node_unlink(T, n), Subtree(T, n))
  BY <1>2, <1>4, FreeingEnds
<1> QED BY <1>1, <1>4, <1>5 DEF LeftTree, LeftLive, T, L, n

LEMMA FreeStepIInv == IInv /\ FreeStep => IInv'
<1> SUFFICES ASSUME IInv, FreeStep PROVE IInv'
  OBVIOUS
<1>1. /\ e # NULL /\ live' \subseteq call.live
      /\ Freeing(call.tree, call.target, call.live, tree', live', e')
      /\ e' = NULL => tree' = LeftTree /\ live' = LeftLive
      /\ e' # NULL => call' = call
  BY FreeStepMeans
<1>2. UNCHANGED <<client, kind, root, cur, next, asserted, gone, tmp>>
  BY DEF FreeStep, walk
<1>3. /\ NULL \notin Nodes /\ root = 1 /\ client \in {"general", "consolidate"}
      /\ kind \in [Nodes -> {"text", "container"}]
      /\ GoodTree(call.tree, call.live) /\ call.target \in call.live
      /\ Walk(LeftTree, LeftLive)
  BY <1>1, IteratorAssumption DEF IInv
<1>4. CASE e' = NULL
  <2>1. GoodTree(LeftTree, LeftLive)
    BY <1>3, FreedGood DEF LeftTree, LeftLive
  <2>2. Walk(tree, live)'
    BY <1>1, <1>2, <1>3, <1>4 DEF Walk, MayModify, S_is_leaf
  <2> QED BY <1>1, <1>2, <1>3, <1>4, <2>1, <2>2 DEF IInv
<1>5. CASE e' # NULL
  <2>1. Walk(LeftTree, LeftLive)'
    BY <1>1, <1>2, <1>3, <1>5 DEF Walk, MayModify, S_is_leaf, LeftTree, LeftLive
  <2> QED BY <1>1, <1>2, <1>3, <1>5, <2>1 DEF IInv
<1> QED BY <1>4, <1>5

LEMMA StutterIInv == IInv /\ UNCHANGED vars => IInv'
<1> SUFFICES ASSUME IInv, UNCHANGED vars PROVE IInv'
  OBVIOUS
<1>1. UNCHANGED <<tree, live, e, call, client, kind, root, cur, next, asserted, gone, tmp>>
  BY DEF vars, walk
<1> QED BY <1>1 DEF IInv, Walk, MayModify, S_is_leaf, LeftTree, LeftLive

LEMMA NextIInv == IInv /\ [Next]_vars => IInv'
<1> SUFFICES ASSUME IInv, [Next]_vars PROVE IInv'
  OBVIOUS
<1>1. CASE Step
  BY <1>1, StepIInv
<1>2. CASE FreeCur
  BY <1>2, FreeCurIInv
<1>3. CASE UnlinkCur
  BY <1>3, UnlinkCurIInv
<1>4. CASE ReplaceCur
  BY <1>4, ReplaceCurIInv
<1>5. CASE FillCur
  BY <1>5, FillCurIInv
<1>6. CASE SkipCur
  BY <1>6, SkipCurIInv
<1>7. CASE ConsolidateStep
  BY <1>7, ConsolidateStepIInv
<1>8. CASE ConsolidateMerge
  BY <1>8, ConsolidateMergeIInv
<1>9. CASE FreeStep
  BY <1>9, FreeStepIInv
<1>10. CASE Finished \/ UNCHANGED vars
  BY <1>10, StutterIInv DEF Finished
<1> QED BY <1>1, <1>2, <1>3, <1>4, <1>5, <1>6, <1>7, <1>8, <1>9, <1>10 DEF Next

\* The invariant gives the property, during a call of cmark_node_free too: a node that
\* will be left is still live.
LEMMA IInvMeans == IInv => NextIsLive
<1> SUFFICES ASSUME IInv PROVE NextIsLive
  OBVIOUS
<1>1. CASE e = NULL
  <2>1. Walk(tree, live)
    BY <1>1, IdleFacts
  <2> QED BY <2>1 DEF Walk, IsDone, IsEvent, NextIsLive
<1>2. CASE e # NULL
  <2>1. Walk(LeftTree, LeftLive) /\ Freeing(call.tree, call.target, call.live, tree, live, e)
        /\ live \subseteq call.live
    BY <1>2 DEF IInv
  <2>2. LeftLive \subseteq live
    BY <2>1 DEF Freeing, FreeingAt, LeftLive
  <2> QED BY <2>1, <2>2 DEF Walk, IsDone, IsEvent, NextIsLive
<1> QED BY <1>1, <1>2

\* Only an iteration of S_free_nodes ends a call.
LEMMA EndsByFreeStep == Next /\ e # NULL /\ e' = NULL => FreeStep
BY DEF Next, Step, FreeCur, UnlinkCur, ReplaceCur, FillCur, SkipCur, Change, ConsolidateStep,
       ConsolidateMerge, Finished, WalkDone

-----------------------------------------------------------------------------
(* The order of the events.  Of the document's nodes, entered ones are E,  *)
(* left ones X, and s is the event computed ahead, in the tree t with the  *)
(* kinds k.  Nodes the client has made get no events.                      *)

\* The walk is past m and what is below it.
Passed(k, E, X, m) == m \notin 1 .. Size \/ m \in X \/ (k[m] = "text" /\ m \in E)

\* The walk is below m.
Within(k, E, X, m) == m \in E \ X /\ k[m] # "text"

\* The walk has come to m, or is about to, or never will.
Reached(E, s, m) == m \in E \/ m = s.node \/ m \notin 1 .. Size

\* What is left of a node that was reached was passed; what is above it was entered,
\* and the walk is still below what is above the event computed ahead.
Nest(t, k, E, X, s) ==
    /\ X \subseteq E /\ E \subseteq 1 .. Size /\ s.node \in 1 .. Size \union {NULL}
    /\ \A m \in Nodes : t.next[m] # NULL /\ Reached(E, s, t.next[m]) => Passed(k, E, X, m)
    /\ \A m \in Nodes : t.parent[m] # NULL =>
          /\ t.parent[m] \in 1 .. Size /\ k[t.parent[m]] # "text"
          /\ Reached(E, s, m) => t.parent[m] \in E
          /\ Within(k, E, X, m) \/ m = s.node => Within(k, E, X, t.parent[m])
    /\ s.ev = "ENTER" => s.node \notin E
    /\ s.ev = "EXIT" => /\ Within(k, E, X, s.node)
                        /\ \A m \in Nodes : t.parent[m] = s.node => Passed(k, E, X, m)

\* Of a current node that is still in the tree: what below it has been visited, and of
\* a leaf that nothing has been changed since the next event was computed.
AtCur ==
    /\ cur.ev \in {"ENTER", "EXIT"} => cur.node \in entered
    /\ MayModify => Passed(kind, entered, exited, cur.node)
    /\ cur.ev = "ENTER" =>
          /\ cur.node \notin exited
          /\ \A m \in 1 .. Size : tree.parent[m] = cur.node => m \notin entered
          /\ S_is_leaf(cur.node) => next = Rolled("ENTER", cur.node)

\* While a node is being freed, the order is that of the tree the call will leave.
NInv ==
    client = "general" =>
        /\ e = NULL => Nest(tree, kind, entered, exited, next) /\ (~gone => AtCur)
        /\ e # NULL => Nest(LeftTree, kind, entered, exited, next) /\ gone

\* Nodes are taken out of the tree.
LEMMA NestWithout ==
    ASSUME NEW t \in Trees, NEW k, NEW E, NEW X, NEW s, Nest(t, k, E, X, s), NEW u,
           \A m \in Nodes : u.parent[m] \in {t.parent[m], NULL},
           \A m \in Nodes : \/ u.next[m] \in {t.next[m], NULL}
                            \/ t.next[m] \in Nodes /\ u.next[m] = t.next[t.next[m]]
    PROVE  Nest(u, k, E, X, s)
<1>1. ASSUME NEW m \in Nodes, u.next[m] # NULL, Reached(E, s, u.next[m])
      PROVE  Passed(k, E, X, m)
  <2>1. CASE u.next[m] = t.next[m]
    BY <1>1, <2>1 DEF Nest
  <2>2. CASE t.next[m] \in Nodes /\ u.next[m] = t.next[t.next[m]]
    <3>1. Passed(k, E, X, t.next[m])
      BY <1>1, <2>2 DEF Nest
    <3>2. Reached(E, s, t.next[m])
      BY <3>1 DEF Passed, Reached, Nest
    <3>3. t.next[m] # NULL
      BY <1>1, <2>2, IteratorAssumption
    <3> QED BY <3>2, <3>3 DEF Nest
  <2> QED BY <1>1, <2>1, <2>2
<1>2. \A m \in Nodes : u.parent[m] # NULL => u.parent[m] = t.parent[m]
  OBVIOUS
<1>3. s.ev = "EXIT" => \A m \in Nodes : u.parent[m] = s.node => Passed(k, E, X, m)
  <2>1. s.ev = "EXIT" => s.node # NULL
    BY IteratorAssumption DEF Nest, Within
  <2> QED BY <1>2, <2>1 DEF Nest
<1> QED BY <1>1, <1>2, <1>3 DEF Nest

\* A new node c comes into the tree, below p and behind nodes that were passed.
LEMMA NestWith ==
    ASSUME NEW t, NEW k, NEW E, NEW X, NEW s, Nest(t, k, E, X, s),
           NEW c \in Nodes \ (1 .. Size), NEW p \in E, k[p] # "text", NEW u, NEW k2,
           \A m \in 1 .. Size : k2[m] = k[m],
           \A m \in Nodes : u.parent[m] = IF m = c THEN p ELSE t.parent[m],
           \A m \in Nodes : m = c \/ u.next[m] = t.next[m] \/ Passed(k, E, X, m)
    PROVE  Nest(u, k2, E, X, s)
<1>1. E \subseteq 1 .. Size /\ p \in 1 .. Size /\ p # NULL /\ c # s.node /\ c \notin E
  BY IteratorAssumption DEF Nest
<1>2. /\ \A m : Passed(k2, E, X, m) <=> Passed(k, E, X, m)
      /\ \A m : Within(k2, E, X, m) <=> Within(k, E, X, m)
  BY <1>1 DEF Passed, Within
<1>3. \A m \in Nodes : u.next[m] # NULL /\ Reached(E, s, u.next[m]) => Passed(k2, E, X, m)
  BY <1>2 DEF Nest, Passed
<1>4. ASSUME NEW m \in Nodes, u.parent[m] # NULL
      PROVE  /\ u.parent[m] \in 1 .. Size /\ k2[u.parent[m]] # "text"
             /\ Reached(E, s, m) => u.parent[m] \in E
             /\ Within(k2, E, X, m) \/ m = s.node => Within(k2, E, X, u.parent[m])
  <2>1. CASE m = c
    BY <1>1, <1>2, <2>1 DEF Within
  <2>2. CASE m # c
    BY <1>2, <1>4, <2>2 DEF Nest
  <2> QED BY <2>1, <2>2
<1>5. s.ev = "EXIT" => /\ Within(k2, E, X, s.node)
                       /\ \A m \in Nodes : u.parent[m] = s.node => Passed(k2, E, X, m)
  BY <1>2 DEF Nest, Passed
<1> QED BY <1>3, <1>4, <1>5 DEF Nest

\* The event s has happened, and s2 is the next.
LEMMA NestOn ==
    ASSUME NEW t, NEW k, NEW E, NEW X, NEW s, Nest(t, k, E, X, s),
           NEW E2, NEW X2, NEW s2, E \subseteq E2, E2 \subseteq E \union {s.node},
           X \subseteq X2, X2 \subseteq E2, E2 \subseteq 1 .. Size,
           s2.node \in 1 .. Size \union {NULL},
           \A m \in Nodes : t.next[m] # NULL /\ t.next[m] = s2.node => Passed(k, E2, X2, m),
           \A m \in Nodes : t.parent[m] # NULL /\ (Within(k, E2, X2, m) \/ m = s2.node)
                              => Within(k, E2, X2, t.parent[m]),
           s2.ev = "ENTER" => s2.node \notin E2,
           s2.ev = "EXIT" => /\ Within(k, E2, X2, s2.node)
                             /\ \A m \in Nodes : t.parent[m] = s2.node => Passed(k, E2, X2, m)
    PROVE  Nest(t, k, E2, X2, s2)
<1>1. \A m : Passed(k, E, X, m) => Passed(k, E2, X2, m)
  BY DEF Passed
<1>2. \A m : Reached(E2, s2, m) => Reached(E, s, m) \/ m = s2.node
  BY DEF Reached
<1>3. \A m \in Nodes : t.next[m] # NULL /\ Reached(E2, s2, t.next[m]) => Passed(k, E2, X2, m)
  BY <1>1, <1>2 DEF Nest
<1>4. \A m \in Nodes : t.parent[m] # NULL =>
          /\ t.parent[m] \in 1 .. Size /\ k[t.parent[m]] # "text"
          /\ Reached(E2, s2, m) => t.parent[m] \in E2
  BY <1>2 DEF Nest, Within
<1> QED BY <1>3, <1>4 DEF Nest

\* What is left of the last child was passed if the walk has come to that.
LEMMA LastPassed ==
    ASSUME NULL \notin Nodes, NEW t \in Trees, Shape(t),
           NEW k, NEW E, NEW X, NEW s, Nest(t, k, E, X, s),
           NEW n \in Nodes, Reached(E, s, n), t.next[n] = NULL, t.parent[n] # NULL,
           NEW m \in Nodes, t.parent[m] = t.parent[n], m # n
    PROVE  Passed(k, E, X, m)
<1> DEFINE S == {j \in Nodes : t.parent[j] = t.parent[n] /\ j # n /\ ~Passed(k, E, X, j)}
<1>1. t.next \in [Nodes -> Ptr] /\ SiblingLinks(t) /\ ParentLinks(t) /\ WellFounded(t.next)
  BY DEF Trees, Shape, Links
<1>2. ASSUME NEW j \in S PROVE t.next[j] \in S
  <2>1. t.next[j] # NULL
    BY <1>1 DEF ParentLinks
  <2>2. t.next[j] \in Nodes /\ t.parent[t.next[j]] = t.parent[n]
    BY <1>1, <2>1 DEF SiblingLinks, Ptr
  <2>3. ~Reached(E, s, t.next[j])
    BY <2>1 DEF Nest
  <2>4. t.next[j] # n /\ ~Passed(k, E, X, t.next[j])
    BY <2>3 DEF Passed, Reached, Nest
  <2> QED BY <2>2, <2>4
<1>3. S = {}
  BY <1>1, <1>2 DEF WellFounded
<1> QED BY <1>3

\* The walk goes on from n, at the end of what is below it.
LEMMA Leave ==
    ASSUME NULL \notin Nodes, GoodTree(tree, live),
           Nest(tree, kind, entered, exited, next), NEW n \in Nodes,
           Reached(entered, next, n), ~Passed(kind, entered, exited, n),
           tree.parent[n] # NULL => Within(kind, entered, exited, tree.parent[n]),
           \A m \in Nodes : tree.parent[m] = n => ~Within(kind, entered, exited, m),
           NEW E2, E2 = entered \union {n},
           NEW X2, X2 = IF kind[n] = "text" THEN exited ELSE exited \union {n}
    PROVE  Nest(tree, kind, E2, X2, Rolled("EXIT", n)) /\ Passed(kind, E2, X2, n)
<1> DEFINE E == entered
           X == exited
           s == Rolled("EXIT", n)
           nx == tree.next[n]
           pa == tree.parent[n]
<1>1. /\ tree \in Trees /\ Shape(tree) /\ SiblingLinks(tree)
      /\ nx \in Ptr /\ pa \in Ptr /\ \A m \in Nodes : tree.parent[m] # m
  <2>1. tree \in Trees /\ Shape(tree) /\ SiblingLinks(tree)
    BY DEF GoodTree, Shape, Links
  <2>2. nx \in Ptr /\ pa \in Ptr
    BY <2>1 DEF Trees
  <2>3. ASSUME NEW m \in Nodes, tree.parent[m] = m PROVE FALSE
    <3>1. {m} \in SUBSET Nodes /\ {m} # {}
      OBVIOUS
    <3> QED BY <2>1, <2>3, <3>1 DEF Shape, WellFounded
  <2> QED BY <2>1, <2>2, <2>3
<1>2. /\ n \in 1 .. Size /\ n \notin X /\ X \subseteq E /\ E \subseteq 1 .. Size
      /\ E2 \subseteq E \union {next.node} /\ E2 \subseteq 1 .. Size
      /\ X \subseteq X2 /\ X2 \subseteq E2
  BY DEF Passed, Reached, Nest
<1>3. /\ Passed(kind, E2, X2, n)
      /\ \A m : Passed(kind, E, X, m) => Passed(kind, E2, X2, m)
  BY <1>2 DEF Passed
<1>4. \A m : Within(kind, E2, X2, m) <=> Within(kind, E, X, m) /\ m # n
  <2>1. CASE kind[n] = "text"
    BY <1>2, <2>1 DEF Within
  <2>2. CASE kind[n] # "text"
    BY <1>2, <2>2 DEF Within
  <2> QED BY <2>1, <2>2
<1>5. \A m \in Nodes : tree.parent[m] # NULL /\ Within(kind, E2, X2, m)
                         => Within(kind, E2, X2, tree.parent[m])
  BY <1>4 DEF Nest
<1>6. pa # NULL => Within(kind, E2, X2, pa) /\ pa \in Nodes
  BY <1>1, <1>4 DEF Ptr
<1>7. \/ s = State("DONE", NULL)
      \/ nx # NULL /\ s = State("ENTER", nx)
      \/ nx = NULL /\ pa # NULL /\ s = State("EXIT", pa)
  BY DEF Rolled
<1> HIDE DEF s
<1>8. CASE s = State("DONE", NULL)
  <2>1. s.ev = "DONE" /\ s.node = NULL
    BY <1>8 DEF State
  <2>2. \A m \in Nodes : ~(tree.next[m] # NULL /\ tree.next[m] = s.node) /\ m # s.node
    BY <2>1
  <2>3. Nest(tree, kind, E2, X2, s)
    BY <1>2, <1>5, <2>1, <2>2, NestOn
  <2> QED BY <1>3, <2>3 DEF s
<1>9. CASE nx # NULL /\ s = State("ENTER", nx)
  <2>1. s.ev = "ENTER" /\ s.node = nx
    BY <1>9 DEF State
  <2>2. nx \in Nodes /\ tree.parent[nx] = pa /\ tree.prev[nx] = n
    BY <1>1, <1>9 DEF SiblingLinks, Ptr
  <2>3. ~Reached(E, next, nx)
    BY <1>9 DEF Nest
  <2>4. nx \in 1 .. Size /\ nx \notin E /\ nx # n
    BY <2>3 DEF Reached
  <2>5. \A m \in Nodes : tree.next[m] # NULL /\ tree.next[m] = nx => m = n
    BY <1>1, <2>2 DEF SiblingLinks
  <2>6. \A m \in Nodes : tree.parent[m] # NULL /\ (Within(kind, E2, X2, m) \/ m = nx)
                           => Within(kind, E2, X2, tree.parent[m])
    BY <1>5, <1>6, <2>2
  <2> HIDE DEF nx
  <2>7. Nest(tree, kind, E2, X2, s)
    BY <1>2, <1>3, <2>1, <2>4, <2>5, <2>6, NestOn
  <2> QED BY <1>3, <2>7 DEF s
<1>10. CASE nx = NULL /\ pa # NULL /\ s = State("EXIT", pa)
  <2>1. s.ev = "EXIT" /\ s.node = pa
    BY <1>10 DEF State
  <2>2. Within(kind, E2, X2, pa) /\ Within(kind, E, X, pa) /\ pa \in Nodes /\ pa \in E
        /\ pa \in 1 .. Size
    BY <1>2, <1>4, <1>6, <1>10 DEF Within
  <2>3. \A m \in Nodes : tree.parent[m] = pa => Passed(kind, E2, X2, m)
    BY <1>1, <1>3, <1>10, LastPassed
  <2>4. \A m \in Nodes : tree.next[m] # NULL /\ tree.next[m] = pa => Passed(kind, E2, X2, m)
    BY <1>3, <2>2 DEF Nest, Reached
  <2>5. \A m \in Nodes : tree.parent[m] # NULL /\ (Within(kind, E2, X2, m) \/ m = pa)
                           => Within(kind, E2, X2, tree.parent[m])
    BY <1>5, <2>2
  <2> HIDE DEF pa
  <2>6. Nest(tree, kind, E2, X2, s)
    BY <1>2, <2>1, <2>2, <2>3, <2>4, <2>5, NestOn
  <2> QED BY <1>3, <2>6 DEF s
<1> QED BY <1>3, <1>7, <1>8, <1>9, <1>10 DEF s

\* The walk enters a container.
LEMMA Enter ==
    ASSUME NULL \notin Nodes, GoodTree(tree, live),
           Nest(tree, kind, entered, exited, next), next.ev = "ENTER",
           NEW n \in Nodes, n = next.node, kind[n] # "text",
           NEW E2, E2 = entered \union {n}
    PROVE  /\ Nest(tree, kind, E2, exited, Rolled("ENTER", n))
           /\ \A m \in 1 .. Size : tree.parent[m] = n => m \notin E2
<1> DEFINE E == entered
           X == exited
           s == Rolled("ENTER", n)
           ch == tree.first_child[n]
<1>1. /\ tree \in Trees /\ Shape(tree) /\ SiblingLinks(tree) /\ ParentLinks(tree)
      /\ ch \in Ptr
  <2>1. tree \in Trees /\ Shape(tree) /\ SiblingLinks(tree) /\ ParentLinks(tree)
    BY DEF GoodTree, Shape, Links
  <2> QED BY <2>1 DEF Trees
<1>2. /\ n \in 1 .. Size /\ n \notin E /\ X \subseteq E
      /\ E \subseteq 1 .. Size /\ 1 .. Size \subseteq Nodes
      /\ E2 \subseteq E \union {next.node} /\ E2 \subseteq 1 .. Size /\ X \subseteq E2
  BY IteratorAssumption DEF Nest
<1>3. \A m \in Nodes : tree.parent[m] = n => ~Reached(E, next, m) /\ m # n
  BY <1>2 DEF Nest, Reached
<1>4. \A m \in Nodes : tree.parent[m] = n => m \in 1 .. Size /\ m \notin E2
  BY <1>3 DEF Reached
<1>5. \A m : Within(kind, E2, X, m) <=> Within(kind, E, X, m) \/ m = n
  BY <1>2 DEF Within
<1>6. \A m \in Nodes : tree.parent[m] # NULL /\ Within(kind, E2, X, m)
                         => Within(kind, E2, X, tree.parent[m])
  BY <1>5 DEF Nest
<1>7. \/ ch = NULL /\ s = State("EXIT", n)
      \/ ch # NULL /\ s = State("ENTER", ch)
  BY DEF Rolled, S_is_leaf
<1> HIDE DEF s
<1>8. CASE ch = NULL /\ s = State("EXIT", n)
  <2>1. s.ev = "EXIT" /\ s.node = n
    BY <1>8 DEF State
  <2>2. \A m \in Nodes : tree.parent[m] # n
    BY <1>1, <1>8, NoChildren
  <2>3. \A m \in Nodes : tree.next[m] # NULL /\ tree.next[m] = n => Passed(kind, E2, X, m)
    BY DEF Nest, Reached, Passed
  <2>4. Nest(tree, kind, E2, X, s)
    BY <1>2, <1>5, <1>6, <2>1, <2>2, <2>3, NestOn
  <2> QED BY <1>2, <1>4, <2>4 DEF s
<1>9. CASE ch # NULL /\ s = State("ENTER", ch)
  <2>1. s.ev = "ENTER" /\ s.node = ch
    BY <1>9 DEF State
  <2>2. ch \in Nodes /\ tree.parent[ch] = n /\ tree.prev[ch] = NULL
    BY <1>1, <1>9 DEF ParentLinks, Ptr
  <2>3. \A m \in Nodes : ~(tree.next[m] # NULL /\ tree.next[m] = ch)
    BY <1>1, <2>2 DEF SiblingLinks
  <2>4. ch \in 1 .. Size /\ ch \notin E2
    BY <1>4, <2>2
  <2>5. \A m \in Nodes : tree.parent[m] # NULL /\ (Within(kind, E2, X, m) \/ m = ch)
                           => Within(kind, E2, X, tree.parent[m])
    BY <1>5, <1>6, <2>2
  <2> HIDE DEF ch
  <2>6. Nest(tree, kind, E2, X, s)
    BY <1>2, <2>1, <2>3, <2>4, <2>5, NestOn
  <2> QED BY <1>2, <1>4, <2>6 DEF s
<1> QED BY <1>7, <1>8, <1>9

-----------------------------------------------------------------------------
(* The order of the events is kept.                                        *)

LEMMA InitNInv == Init => NInv
<1> SUFFICES ASSUME Init PROVE NInv
  OBVIOUS
<1>1. /\ NULL \notin Nodes /\ Size \in Nat \ {0} /\ 1 .. Size \subseteq Nodes
      /\ 1 \in 1 .. Size /\ 1 \in Nodes
  BY IteratorAssumption
<1>2. PICK f \in ParentFunctions(Size) : tree = TreeOf(f)
  BY DEF Init, TreesOfSize
<1>3. /\ GoodTree(tree, 1 .. Size) /\ tree.parent[1] = NULL
      /\ entered = {} /\ exited = {} /\ next.ev = "ENTER" /\ next.node = 1
      /\ cur.ev = "NONE" /\ e = NULL
      /\ \A n \in 1 .. Size : tree.first_child[n] # NULL => kind[n] = "container"
  <2>1. GoodTree(tree, 1 .. Size) /\ tree.parent[1] = NULL
    BY <1>1, <1>2, DocumentGood
  <2> QED BY <2>1 DEF Init, State
<1>4. /\ tree \in Trees /\ Shape(tree) /\ SiblingLinks(tree) /\ ParentLinks(tree)
      /\ Untouched(tree, 1 .. Size)
  BY <1>3 DEF GoodTree, Shape, Links
<1>5. /\ \A m : ~Within(kind, {}, {}, m)
      /\ \A m : Reached({}, next, m) <=> m = 1 \/ m \notin 1 .. Size
  BY <1>3 DEF Within, Reached
<1>6. \A m \in Nodes : tree.next[m] # NULL => tree.next[m] \in 1 .. Size /\ tree.next[m] # 1
  <2> SUFFICES ASSUME NEW m \in Nodes, tree.next[m] # NULL
               PROVE  tree.next[m] \in 1 .. Size /\ tree.next[m] # 1
    OBVIOUS
  <2>1. tree.next[m] \in Nodes
    BY <1>4 DEF Trees, Ptr
  <2>2. tree.parent[tree.next[m]] = tree.parent[m] /\ tree.parent[m] # NULL
    BY <1>4 DEF SiblingLinks, ParentLinks
  <2> QED BY <1>3, <1>4, <2>1, <2>2 DEF Untouched
<1>7. \A m \in Nodes : tree.parent[m] # NULL =>
          tree.parent[m] \in 1 .. Size /\ kind[tree.parent[m]] # "text" /\ m \in 1 .. Size /\ m # 1
  <2> SUFFICES ASSUME NEW m \in Nodes, tree.parent[m] # NULL
               PROVE  /\ tree.parent[m] \in 1 .. Size /\ kind[tree.parent[m]] # "text"
                      /\ m \in 1 .. Size /\ m # 1
    OBVIOUS
  <2>1. tree.parent[m] \in Nodes
    BY <1>4 DEF Trees, Ptr
  <2>2. m \in 1 .. Size /\ m # 1 /\ tree.parent[m] \in 1 .. Size
    BY <1>3, <1>4, <2>1 DEF Untouched
  <2>3. tree.first_child[tree.parent[m]] # NULL
    BY <1>1, <1>4, <2>1, NoChildren
  <2> QED BY <1>3, <2>2, <2>3
<1>8. Nest(tree, kind, {}, {}, next)
  BY <1>1, <1>3, <1>5, <1>6, <1>7 DEF Nest
<1>9. AtCur
  BY <1>3 DEF AtCur, MayModify
<1> QED BY <1>3, <1>8, <1>9 DEF NInv

\* An event on a node of the document.
LEMMA EventFacts ==
    ASSUME IInv, e = NULL
    PROVE  /\ IsDone(next) => next.ev # "ENTER" /\ next.ev # "EXIT"
           /\ next.ev \in {"ENTER", "EXIT"} => next.node \in Nodes
           /\ next.ev \in {"ENTER", "EXIT", "DONE"}
BY IdleFacts DEF Walk, IsDone, IsEvent

LEMMA StepNInv == IInv /\ NInv /\ Step => NInv'
<1> SUFFICES ASSUME IInv, NInv, Step PROVE NInv'
  OBVIOUS
<1> DEFINE n == next.node
<1>1. client = "general" /\ e = NULL
  BY DEF Step
<1>2. NULL \notin Nodes /\ GoodTree(tree, live)
  BY <1>1, IdleFacts
<1>3. /\ UNCHANGED <<tree, e, client, kind, root>> /\ cur' = next
      /\ next' = IF next.ev = "DONE" THEN next ELSE Rolled(next.ev, n)
      /\ entered' = IF next.ev = "ENTER" THEN entered \union {n} ELSE entered
      /\ exited' = IF next.ev = "EXIT" THEN exited \union {n} ELSE exited
  BY DEF Step, cmark_iter_next, Advance, fvars
<1>4. Nest(tree, kind, entered, exited, next)
  BY <1>1 DEF NInv
<1>5. next.ev \in {"ENTER", "EXIT", "DONE"} /\ (next.ev \in {"ENTER", "EXIT"} => n \in Nodes)
  BY <1>1, EventFacts
<1> SUFFICES Nest(tree, kind, entered', exited', next') /\ AtCur'
  BY <1>1, <1>3 DEF NInv
<1>6. CASE next.ev = "DONE"
  <2>1. AtCur'
    BY <1>3, <1>6 DEF AtCur, MayModify
  <2> QED BY <1>3, <1>4, <1>6, <2>1
<1>7. CASE next.ev = "ENTER" /\ kind[n] # "text"
  <2>1. n \notin entered /\ exited \subseteq entered
    BY <1>4, <1>7 DEF Nest
  <2>2. next' = Rolled("ENTER", n) /\ entered' = entered \union {n} /\ exited' = exited
    BY <1>3, <1>7
  <2>3. /\ Nest(tree, kind, entered', exited', next')
        /\ \A m \in 1 .. Size : tree.parent[m] = n => m \notin entered'
    BY <1>2, <1>4, <1>5, <1>7, <2>2, Enter
  <2>4. AtCur'
    BY <1>3, <1>7, <2>1, <2>2, <2>3 DEF AtCur, MayModify, S_is_leaf
  <2> QED BY <2>3, <2>4
<1>8. CASE next.ev = "ENTER" /\ kind[n] = "text"
  <2>1. /\ n \notin entered /\ exited \subseteq entered /\ entered \subseteq 1 .. Size
        /\ n \in 1 .. Size /\ 1 .. Size \subseteq Nodes
        /\ tree.parent[n] # NULL => Within(kind, entered, exited, tree.parent[n])
        /\ \A m \in Nodes : tree.parent[m] # n
    BY <1>2, <1>4, <1>5, <1>8, IteratorAssumption DEF Nest
  <2>2. Rolled("ENTER", n) = Rolled("EXIT", n)
    BY <1>8 DEF Rolled, S_is_leaf
  <2>3. next' = Rolled("EXIT", n) /\ entered' = entered \union {n} /\ exited' = exited
    BY <1>3, <1>8, <2>2
  <2>4. ~Passed(kind, entered, exited, n) /\ Reached(entered, next, n)
    BY <2>1 DEF Passed, Reached
  <2>5. /\ Nest(tree, kind, entered', exited', next')
        /\ Passed(kind, entered', exited', n)
    BY <1>2, <1>4, <1>5, <1>8, <2>1, <2>3, <2>4, Leave
  <2>6. Rolled("ENTER", cur.node)' = Rolled("ENTER", n)
    BY <1>3 DEF Rolled, S_is_leaf
  <2>7. AtCur'
    BY <1>3, <1>8, <2>1, <2>2, <2>3, <2>5, <2>6 DEF AtCur, MayModify
  <2> QED BY <2>5, <2>7
<1>9. CASE next.ev = "EXIT"
  <2>1. /\ Within(kind, entered, exited, n)
        /\ tree.parent[n] # NULL => Within(kind, entered, exited, tree.parent[n])
        /\ \A m \in Nodes : tree.parent[m] = n => Passed(kind, entered, exited, m)
        /\ entered \subseteq 1 .. Size
    BY <1>4, <1>5, <1>9 DEF Nest
  <2>2. /\ \A m \in Nodes : tree.parent[m] = n => ~Within(kind, entered, exited, m)
        /\ ~Passed(kind, entered, exited, n) /\ Reached(entered, next, n)
        /\ n \in entered /\ kind[n] # "text"
    BY <2>1 DEF Within, Passed, Reached
  <2>3. /\ next' = Rolled("EXIT", n) /\ entered' = entered \union {n}
        /\ exited' = IF kind[n] = "text" THEN exited ELSE exited \union {n}
    BY <1>3, <1>9, <2>2
  <2>4. /\ Nest(tree, kind, entered', exited', next')
        /\ Passed(kind, entered', exited', n)
    BY <1>2, <1>4, <1>5, <1>9, <2>1, <2>2, <2>3, Leave
  <2>5. AtCur'
    BY <1>3, <1>9, <2>2, <2>3, <2>4 DEF AtCur, MayModify
  <2> QED BY <2>4, <2>5
<1> QED BY <1>5, <1>6, <1>7, <1>8, <1>9

\* The next fields of what cmark_node_unlink and cmark_node_free leave.
LEMMA NextWithout ==
    ASSUME NULL \notin Nodes, NEW t \in Trees, NEW n \in Nodes, NEW u,
           u = Unlinked(t, n) \/ u = Freed(S_node_unlink(t, n), Subtree(t, n))
    PROVE  \A m \in Nodes : \/ u.next[m] \in {t.next[m], NULL}
                            \/ t.next[m] \in Nodes /\ u.next[m] = t.next[t.next[m]]
                            \/ m = t.prev[n] /\ u.next[m] = t.next[n]
<1>1. CASE u = Unlinked(t, n)
  BY <1>1, UnlinkedFields
<1>2. CASE u = Freed(S_node_unlink(t, n), Subtree(t, n))
  <2>1. S_node_unlink(t, n).next = Store(t.next, t.prev[n], t.next[n])
    BY DEF S_node_unlink, Trees
  <2>2. u.next = Cleared(Store(t.next, t.prev[n], t.next[n]), Subtree(t, n))
    BY <1>2, <2>1 DEF Freed
  <2> QED BY <2>2 DEF Cleared, Store
<1> QED BY <1>1, <1>2

\* Both keep the order.
LEMMA NestLeft ==
    ASSUME NULL \notin Nodes, NEW t, NEW L, GoodTree(t, L), NEW n \in L,
           NEW k, NEW E, NEW X, NEW s, Nest(t, k, E, X, s), NEW u,
           u = Unlinked(t, n) \/ u = Freed(S_node_unlink(t, n), Subtree(t, n))
    PROVE  Nest(u, k, E, X, s)
<1>1. t \in Trees /\ n \in Nodes /\ SiblingLinks(t)
  BY DEF GoodTree, Shape, Links
<1>2. \A m \in Nodes : u.parent[m] \in {t.parent[m], NULL}
  <2>1. CASE u = Unlinked(t, n)
    BY <2>1, UnlinkedGood
  <2>2. CASE u = Freed(S_node_unlink(t, n), Subtree(t, n))
    <3>1. S_node_unlink(t, n).parent = t.parent
      BY <1>1 DEF S_node_unlink, Trees
    <3>2. u.parent = Cleared(t.parent, Subtree(t, n))
      BY <2>2, <3>1 DEF Freed
    <3> QED BY <3>2 DEF Cleared
  <2> QED BY <2>1, <2>2
<1>3. \A m \in Nodes : m = t.prev[n] => t.next[m] = n
  BY <1>1, IteratorAssumption DEF SiblingLinks
<1>4. \A m \in Nodes : \/ u.next[m] \in {t.next[m], NULL}
                       \/ t.next[m] \in Nodes /\ u.next[m] = t.next[t.next[m]]
  BY <1>1, <1>3, NextWithout
<1> QED BY <1>1, <1>2, <1>4, NestWithout

\* What the client may change: the current node is of the document.
LEMMA CurFacts ==
    ASSUME IInv, NInv, Change, cur.ev \in {"ENTER", "EXIT"}
    PROVE  /\ client = "general" /\ e = NULL /\ ~gone /\ NULL \notin Nodes
           /\ GoodTree(tree, live) /\ tree \in Trees /\ cur.node \in live
           /\ cur.node \in Nodes /\ cur.node \in entered
           /\ Nest(tree, kind, entered, exited, next) /\ AtCur
<1>1. client = "general" /\ e = NULL /\ ~gone /\ cur.node \in live
  BY ChangeFacts
<1>2. GoodTree(tree, live) /\ live \subseteq Nodes /\ NULL \notin Nodes
  BY <1>1, IdleFacts
<1>3. Nest(tree, kind, entered, exited, next) /\ AtCur
  BY <1>1 DEF NInv
<1> QED BY <1>1, <1>2, <1>3 DEF AtCur, GoodTree

LEMMA FreeCurNInv == IInv /\ NInv /\ FreeCur => NInv'
<1> SUFFICES ASSUME IInv, NInv, FreeCur PROVE NInv'
  OBVIOUS
<1> DEFINE c == cur.node
           v == Freed(S_node_unlink(tree, c), Subtree(tree, c))
<1>1. Change /\ MayModify /\ cur.ev \in {"ENTER", "EXIT"}
  BY DEF FreeCur, MayModify
<1>2. /\ NULL \notin Nodes /\ GoodTree(tree, live) /\ c \in live /\ c \in Nodes
      /\ Nest(tree, kind, entered, exited, next)
  BY <1>1, CurFacts
<1>3. /\ cmark_node_free(tree, live, c) /\ gone'
      /\ UNCHANGED <<kind, entered, exited, next>>
  BY DEF FreeCur
<1>4. e' = c /\ LeftTree' = v
  BY <1>3 DEF cmark_node_free, LeftTree
<1>5. Nest(v, kind, entered, exited, next)
  BY <1>2, NestLeft
<1> QED BY <1>2, <1>3, <1>4, <1>5 DEF NInv

LEMMA UnlinkCurNInv == IInv /\ NInv /\ UnlinkCur => NInv'
<1> SUFFICES ASSUME IInv, NInv, UnlinkCur PROVE NInv'
  OBVIOUS
<1> DEFINE v == Unlinked(tree, cur.node)
<1>1. Change /\ MayModify /\ cur.ev \in {"ENTER", "EXIT"}
  BY DEF UnlinkCur, MayModify
<1>2. /\ NULL \notin Nodes /\ GoodTree(tree, live) /\ cur.node \in live /\ e = NULL
      /\ Nest(tree, kind, entered, exited, next)
  BY <1>1, CurFacts
<1>3. tree' = v /\ gone' /\ UNCHANGED <<e, kind, entered, exited, next>>
  BY DEF UnlinkCur
<1>4. Nest(v, kind, entered, exited, next)
  BY <1>2, NestLeft
<1> QED BY <1>2, <1>3, <1>4 DEF NInv

LEMMA UnlinkedNext ==
    ASSUME NULL \notin Nodes, NEW t \in Trees, NEW n \in Nodes, t.prev[n] = NULL
    PROVE  \A m \in Nodes : Unlinked(t, n).next[m] = IF m = n THEN NULL ELSE t.next[m]
<1>1. S_node_unlink(t, n).next = Store(t.next, t.prev[n], t.next[n])
  BY DEF S_node_unlink, Trees
<1>2. S_node_unlink(t, n) \in Trees
  BY UnlinkStepFields
<1>3. Unlinked(t, n).next = Store(Store(t.next, t.prev[n], t.next[n]), n, NULL)
  BY ONLY <1>1, <1>2 DEF Unlinked, Trees
<1> QED BY <1>3 DEF Store

\* Where a new node goes: next fields of the others change only at the one it is put after.
LEMMA NextAfter ==
    ASSUME NULL \notin Nodes, NEW t, NEW L, GoodTree(t, L), NEW node \in L, NEW n \in Nodes \ L,
           t.parent[node] # NULL, NEW v, v = InsertedAfter(t, node, n)
    PROVE  \A m \in Nodes : m = n \/ v.next[m] = t.next[m] \/ m = node
<1> DEFINE u == Unlinked(t, n)
<1>1. /\ t \in Trees /\ Shape(t) /\ Links(t) /\ node \in Nodes /\ node # n
      /\ t.prev[n] = NULL /\ t.next[n] # n /\ t.parent[node] \in Nodes
  <2>1. t \in Trees /\ Shape(t) /\ Links(t) /\ node \in Nodes /\ node # n /\ Untouched(t, L)
    BY DEF GoodTree, Shape
  <2> QED BY <2>1, NoSelfNext DEF Untouched, Trees, Ptr, Shape
<1>2. v = Spliced(u, t.parent[node], node, u.next[node], n)
  BY <1>1, InsertedAfterIsSplice
<1>3. \A m \in Nodes : u.next[m] = IF m = n THEN NULL ELSE t.next[m]
  BY <1>1, UnlinkedNext
<1> HIDE DEF u
<1>4. v.next = Store(Store(u.next, node, n), n, u.next[node])
  BY <1>2 DEF Spliced
<1>5. \A m \in Nodes : v.next[m] = IF m = n THEN u.next[node] ELSE IF m = node THEN n ELSE u.next[m]
  BY <1>4 DEF Store
<1> QED BY <1>3, <1>5

LEMMA NextLast ==
    ASSUME NULL \notin Nodes, NEW t, NEW L, GoodTree(t, L), NEW node \in L, NEW n \in Nodes \ L,
           t.first_child[node] = NULL, NEW v, v = Appended(t, node, n)
    PROVE  \A m \in Nodes : m = n \/ v.next[m] = t.next[m]
<1> DEFINE u == Unlinked(t, n)
<1>1. /\ t \in Trees /\ Shape(t) /\ Links(t) /\ node \in Nodes /\ node # n
      /\ t.prev[n] = NULL /\ t.next[n] # n /\ t.parent[n] = NULL /\ t.last_child[node] = NULL
  <2>1. t \in Trees /\ Shape(t) /\ Links(t) /\ node \in Nodes /\ node # n /\ Untouched(t, L)
    BY DEF GoodTree, Shape
  <2> QED BY <2>1, NoSelfNext DEF Untouched, Shape, Links, ParentLinks
<1>2. v = Spliced(u, node, u.last_child[node], NULL, n)
  BY <1>1, AppendedIsSplice
<1>3. \A m \in Nodes : u.next[m] = IF m = n THEN NULL ELSE t.next[m]
  BY <1>1, UnlinkedNext
<1>4. u.last_child[node] = NULL
  BY <1>1, UnlinkedFields
<1> HIDE DEF u
<1>5. v.next = Store(Store(u.next, NULL, n), n, NULL)
  BY <1>2, <1>4 DEF Spliced
<1>6. \A m \in Nodes : v.next[m] = IF m = n THEN NULL ELSE IF m = NULL THEN n ELSE u.next[m]
  BY <1>5 DEF Store
<1> QED BY <1>3, <1>6

LEMMA ReplaceCurNInv == IInv /\ NInv /\ ReplaceCur => NInv'
<1> SUFFICES ASSUME IInv, NInv, ReplaceCur PROVE NInv'
  OBVIOUS
<1> DEFINE c == cur.node
           p == tree.parent[c]
<1>1. Change /\ MayModify /\ cur.ev \in {"ENTER", "EXIT"}
  BY DEF ReplaceCur, MayModify
<1>2. /\ NULL \notin Nodes /\ GoodTree(tree, live) /\ c \in live /\ c \in Nodes
      /\ Nest(tree, kind, entered, exited, next) /\ c \in entered
      /\ Passed(kind, entered, exited, c) /\ p # NULL
  <2>1. p # NULL
    BY DEF ReplaceCur
  <2> QED BY <1>1, <2>1, CurFacts DEF AtCur
<1>3. PICK n \in Fresh :
        NewText(n) /\ cmark_node_free(InsertedAfter(tree, c, n), live \union {n}, c)
  BY DEF ReplaceCur
<1>4. gone' /\ UNCHANGED <<entered, exited, next>>
  BY DEF ReplaceCur
<1>5. n \in Nodes \ live /\ n \in Nodes \ (1 .. Size)
  BY DEF Fresh
<1>6. \A m \in 1 .. Size : kind'[m] = kind[m]
  BY <1>3, <1>5, IteratorAssumption DEF NewText, IInv
<1>7. p \in entered /\ kind[p] # "text"
  BY <1>2 DEF Nest, Reached
<1> DEFINE v == InsertedAfter(tree, c, n)
           L2 == live \union {n}
           w == Freed(S_node_unlink(v, c), Subtree(v, c))
<1>8. e' = c /\ LeftTree' = w
  BY <1>3 DEF cmark_node_free, LeftTree
<1>9. /\ GoodTree(v, L2) /\ c \in L2
      /\ \A m \in Nodes : v.parent[m] = IF m = n THEN p ELSE tree.parent[m]
  BY <1>2, <1>5, NewAfter
<1>10. \A m \in Nodes : m = n \/ v.next[m] = tree.next[m] \/ Passed(kind, entered, exited, m)
  <2>1. v = InsertedAfter(tree, c, n)
    OBVIOUS
  <2> HIDE DEF v
  <2>2. \A m \in Nodes : m = n \/ v.next[m] = tree.next[m] \/ m = c
    BY <1>2, <1>5, <2>1, NextAfter
  <2> QED BY <1>2, <2>2
<1> HIDE DEF v, L2, c, p
<1>11. Nest(v, kind', entered, exited, next)
  BY <1>2, <1>5, <1>6, <1>7, <1>9, <1>10, NestWith
<1>12. Nest(w, kind', entered, exited, next)
  BY <1>2, <1>9, <1>11, NestLeft
<1> HIDE DEF w
<1>13. e' # NULL
  BY <1>2, <1>8
<1> QED BY <1>4, <1>8, <1>12, <1>13 DEF NInv

LEMMA FillCurNInv == IInv /\ NInv /\ FillCur => NInv'
<1> SUFFICES ASSUME IInv, NInv, FillCur PROVE NInv'
  OBVIOUS
<1> DEFINE c == cur.node
<1>1. Change /\ cur.ev = "ENTER" /\ kind[c] # "text" /\ tree.first_child[c] = NULL
  BY DEF FillCur, S_is_leaf
<1>2. /\ NULL \notin Nodes /\ GoodTree(tree, live) /\ c \in live /\ c \in Nodes /\ e = NULL
      /\ Nest(tree, kind, entered, exited, next) /\ c \in entered /\ AtCur
  BY <1>1, CurFacts
<1>3. PICK n \in Fresh : NewText(n) /\ tree' = Appended(tree, c, n)
  BY DEF FillCur
<1>4. UNCHANGED <<e, cur, next, entered, exited, gone>>
  BY DEF FillCur, walk
<1>5. n \in Nodes \ live /\ n \in Nodes \ (1 .. Size)
  BY DEF Fresh
<1>6. \A m \in 1 .. Size : kind'[m] = kind[m]
  BY <1>3, <1>5, IteratorAssumption DEF NewText, IInv
<1> DEFINE v == Appended(tree, c, n)
<1>7. \A m \in Nodes : v.parent[m] = IF m = n THEN c ELSE tree.parent[m]
  <2>1. v = Appended(tree, c, n)
    OBVIOUS
  <2> HIDE DEF v
  <2>2. /\ GoodTree(v, live \union {n})
        /\ \A m \in Nodes : v.parent[m] = IF m = n THEN c ELSE tree.parent[m]
        /\ \A m \in Nodes : tree.parent[m] # n
    BY <1>2, <1>5, <2>1, NewLast
  <2> QED BY <2>2
<1>8. \A m \in Nodes : m = n \/ v.next[m] = tree.next[m]
  <2>1. v = Appended(tree, c, n)
    OBVIOUS
  <2> HIDE DEF v
  <2> QED BY <1>1, <1>2, <1>5, <2>1, NextLast
<1> HIDE DEF v
<1>9. Nest(v, kind', entered, exited, next)
  BY <1>1, <1>2, <1>5, <1>6, <1>7, <1>8, NestWith
<1>10. tree' = v /\ c \in 1 .. Size /\ kind'[c] # "text"
  BY <1>1, <1>2, <1>3, <1>6 DEF v, Nest
<1>11. \A m \in 1 .. Size : tree'.parent[m] = c => m \notin entered
  BY <1>1, <1>2, <1>5, <1>7, <1>10, IteratorAssumption DEF AtCur
<1>12. AtCur'
  BY <1>1, <1>2, <1>4, <1>10, <1>11 DEF AtCur, MayModify, S_is_leaf
<1> QED BY <1>2, <1>4, <1>9, <1>10, <1>12 DEF NInv

LEMMA SkipCurNInv == IInv /\ NInv /\ SkipCur => NInv'
<1> SUFFICES ASSUME IInv, NInv, SkipCur PROVE NInv'
  OBVIOUS
<1> DEFINE c == cur.node
<1>1. Change /\ cur.ev = "ENTER"
  BY DEF SkipCur
<1>2. /\ NULL \notin Nodes /\ GoodTree(tree, live) /\ c \in Nodes /\ e = NULL
      /\ Nest(tree, kind, entered, exited, next) /\ c \in entered /\ AtCur
  BY <1>1, CurFacts
<1>3. /\ cur'.ev = "EXIT" /\ cur'.node = c /\ next' = Rolled("EXIT", c)
      /\ exited' = exited \union {c} /\ UNCHANGED <<e, tree, kind, entered>>
  BY DEF SkipCur, cmark_iter_reset, Advance, State, fvars
<1>4. c \notin exited /\ exited \subseteq entered /\ entered \subseteq 1 .. Size
  BY <1>1, <1>2 DEF AtCur, Nest
<1>5. CASE kind[c] = "text"
  <2>1. next' = next
    BY <1>1, <1>2, <1>3, <1>5 DEF AtCur, Rolled, S_is_leaf
  <2>2. /\ \A m : Passed(kind, entered, exited', m) <=> Passed(kind, entered, exited, m)
        /\ \A m : Within(kind, entered, exited', m) <=> Within(kind, entered, exited, m)
    BY <1>2, <1>3, <1>5 DEF Passed, Within
  <2>3. exited' \subseteq entered
    BY <1>2, <1>3, <1>4
  <2>4. Nest(tree, kind, entered, exited', next)
    BY <1>2, <2>2, <2>3 DEF Nest
  <2>5. AtCur'
    BY <1>2, <1>3 DEF AtCur, MayModify, Passed
  <2> QED BY <1>2, <1>3, <2>1, <2>4, <2>5 DEF NInv
<1>6. CASE kind[c] # "text"
  <2>1. /\ Reached(entered, next, c) /\ ~Passed(kind, entered, exited, c)
        /\ Within(kind, entered, exited, c)
    BY <1>2, <1>4, <1>6 DEF Reached, Passed, Within
  <2>2. tree.parent[c] # NULL => Within(kind, entered, exited, tree.parent[c])
    BY <1>2, <2>1 DEF Nest
  <2>3. \A m \in Nodes : tree.parent[m] = c => ~Within(kind, entered, exited, m)
    BY <1>1, <1>2, <1>4 DEF AtCur, Within
  <2>4. /\ entered = entered \union {c}
        /\ exited' = IF kind[c] = "text" THEN exited ELSE exited \union {c}
    BY <1>2, <1>3, <1>6
  <2>5. Nest(tree, kind, entered, exited', Rolled("EXIT", c))
    BY <1>2, <2>1, <2>2, <2>3, <2>4, Leave
  <2>6. AtCur'
    BY <1>2, <1>3 DEF AtCur, MayModify, Passed
  <2> QED BY <1>2, <1>3, <2>5, <2>6 DEF NInv
<1> QED BY <1>5, <1>6

LEMMA ConsolidateNInv ==
    IInv /\ NInv /\ (ConsolidateStep \/ ConsolidateMerge) => NInv'
<1> SUFFICES ASSUME IInv, NInv, ConsolidateStep \/ ConsolidateMerge PROVE NInv'
  OBVIOUS
<1>1. CASE ConsolidateStep
  BY <1>1 DEF ConsolidateStep, NInv
<1>2. CASE ConsolidateMerge
  <2>1. e = NULL /\ tmp # NULL /\ client' = client
    BY <1>2 DEF ConsolidateMerge
  <2>2. client # "general"
    BY <2>1, IdleFacts DEF Walk
  <2> QED BY <2>1, <2>2 DEF NInv
<1> QED BY <1>1, <1>2

LEMMA FreeStepNInv == IInv /\ NInv /\ FreeStep => NInv'
<1> SUFFICES ASSUME IInv, NInv, FreeStep PROVE NInv'
  OBVIOUS
<1>1. /\ e # NULL
      /\ e' = NULL => tree' = LeftTree
      /\ e' # NULL => call' = call
  BY FreeStepMeans
<1>2. UNCHANGED <<client, kind, next, entered, exited, gone>>
  BY DEF FreeStep, walk
<1>3. e' # NULL => LeftTree' = LeftTree
  BY <1>1 DEF LeftTree
<1> QED BY <1>1, <1>2, <1>3 DEF NInv

LEMMA StutterNInv == NInv /\ UNCHANGED vars => NInv'
<1> SUFFICES ASSUME NInv, UNCHANGED vars PROVE NInv'
  OBVIOUS
<1>1. UNCHANGED <<tree, e, call, client, kind, root, cur, next, entered, exited, gone>>
  BY DEF vars, walk
<1>2. LeftTree' = LeftTree /\ (AtCur => AtCur')
  BY <1>1 DEF LeftTree, AtCur, MayModify, S_is_leaf, Rolled
<1> QED BY <1>1, <1>2 DEF NInv

LEMMA NextNInv == IInv /\ NInv /\ [Next]_vars => NInv'
<1> SUFFICES ASSUME IInv, NInv, [Next]_vars PROVE NInv'
  OBVIOUS
<1>1. CASE Step
  BY <1>1, StepNInv
<1>2. CASE FreeCur
  BY <1>2, FreeCurNInv
<1>3. CASE UnlinkCur
  BY <1>3, UnlinkCurNInv
<1>4. CASE ReplaceCur
  BY <1>4, ReplaceCurNInv
<1>5. CASE FillCur
  BY <1>5, FillCurNInv
<1>6. CASE SkipCur
  BY <1>6, SkipCurNInv
<1>7. CASE ConsolidateStep \/ ConsolidateMerge
  BY <1>7, ConsolidateNInv
<1>8. CASE FreeStep
  BY <1>8, FreeStepNInv
<1>9. CASE Finished \/ UNCHANGED vars
  BY <1>9, StutterNInv DEF Finished
<1> QED BY <1>1, <1>2, <1>3, <1>4, <1>5, <1>6, <1>7, <1>8, <1>9 DEF Next

\* What is below a node whose children were passed was seen.
LEMMA BelowSeen ==
    ASSUME IInv, e = NULL, client = "general", NInv, next.ev = "EXIT",
           NEW m \in (Subtree(tree, next.node) \ {next.node}) \intersect 1 .. Size
    PROVE  Seen(m)
<1> DEFINE n == next.node
           S == Subtree(tree, n)
           Z == {j \in (S \ {n}) \intersect 1 .. Size : ~Seen(j)}
<1>1. /\ NULL \notin Nodes /\ n \in Nodes /\ tree \in Trees /\ WellFounded(tree.parent)
      /\ Nest(tree, kind, entered, exited, next)
  BY IdleFacts, EventFacts DEF GoodTree, Shape, NInv
<1>2. /\ S \subseteq Nodes /\ NULL \notin S
      /\ \A j \in S : j # n => tree.parent[j] \in S
      /\ exited \subseteq 1 .. Size /\ 1 .. Size \subseteq Nodes
  BY <1>1, SubtreeClosed, IteratorAssumption DEF Nest
<1>3. ASSUME NEW j \in Z PROVE tree.parent[j] \in Z
  <2> DEFINE p == tree.parent[j]
  <2>1. j \in Nodes /\ j \in 1 .. Size /\ ~Seen(j) /\ p \in S /\ p \in Nodes /\ p # NULL
    BY <1>2
  <2>2. p \in 1 .. Size /\ kind[p] # "text"
    BY <1>1, <2>1 DEF Nest
  <2>3. p # n
    <3> SUFFICES ASSUME p = n PROVE FALSE
      OBVIOUS
    <3>1. Passed(kind, entered, exited, j)
      BY <1>1, <2>1 DEF Nest
    <3>2. j \in Subtree(tree, j)
      BY <1>1, <2>1, SubtreeClosed
    <3> QED BY <2>1, <3>1, <3>2 DEF Passed, Seen, S_is_leaf
  <2>4. ~Seen(p)
    <3> SUFFICES ASSUME Seen(p) PROVE FALSE
      OBVIOUS
    <3>1. PICK k \in exited : p \in Subtree(tree, k)
      BY <2>2 DEF Seen, S_is_leaf
    <3>2. j \in Subtree(tree, k)
      BY <1>1, <1>2, <2>1, <3>1, SubtreeClosed
    <3> QED BY <2>1, <3>2 DEF Seen
  <2> QED BY <2>1, <2>2, <2>3, <2>4
<1>4. Z = {}
  BY <1>1, <1>2, <1>3 DEF WellFounded
<1> QED BY <1>4

-----------------------------------------------------------------------------
(* The theorems.                                                           *)

\* Whatever allowed change the client makes, and while nodes are being freed, the event
\* computed ahead is on a live node and assert(false) is not reached (cmark_iter_next).
THEOREM IteratorSafe == Spec => []NextIsLive
<1>1. Spec => []IInv
  BY InitIInv, NextIInv, PTL DEF Spec
<1> QED BY <1>1, IInvMeans, PTL

\* The loop of S_free_nodes, which splices the children of each node it frees into the
\* list it walks, frees the subtree it was called for and nothing else.
THEOREM FreesExactly == Spec => FreesSubtree
<1> DEFINE P == e # NULL /\ e' = NULL =>
                  /\ live' = call.live \ Subtree(call.tree, call.target)
                  /\ tree' = Freed(S_node_unlink(call.tree, call.target),
                                   Subtree(call.tree, call.target))
<1>1. IInv /\ [Next]_vars => [P]_fvars
  <2> SUFFICES ASSUME IInv, [Next]_vars, e # NULL, e' = NULL PROVE P
    OBVIOUS
  <2>1. FreeStep
    BY EndsByFreeStep DEF vars
  <2>2. tree' = LeftTree /\ live' = LeftLive
    BY <2>1, FreeStepMeans
  <2> QED BY <2>2 DEF LeftTree, LeftLive
<1>2. Spec => []IInv
  BY InitIInv, NextIInv, PTL DEF Spec
<1>3. Spec => [][P]_fvars
  BY <1>1, <1>2, PTL DEF Spec
<1> QED BY <1>3 DEF FreesSubtree

\* However the client changes the tree on the way, no node is entered or left twice, and
\* EXIT comes when everything that is still below the node has been seen (cmark_iter_next).
THEOREM IteratorNests == Spec => EventsNest
<1> DEFINE P == Step =>
                  /\ next.ev = "ENTER" => next.node \notin entered
                  /\ next.ev = "EXIT" =>
                       /\ next.node \notin exited
                       /\ \A m \in (Subtree(tree, next.node) \ {next.node}) \intersect 1 .. Size :
                            Seen(m)
<1>1. IInv /\ NInv => P
  <2> SUFFICES ASSUME IInv, NInv, Step PROVE P
    OBVIOUS
  <2>1. client = "general" /\ e = NULL
    BY DEF Step
  <2>2. Nest(tree, kind, entered, exited, next)
    BY <2>1 DEF NInv
  <2>3. /\ next.ev = "ENTER" => next.node \notin entered
        /\ next.ev = "EXIT" => next.node \notin exited
    BY <2>2 DEF Nest, Within
  <2> QED BY <2>1, <2>3, BelowSeen
<1>2. Spec => []IInv
  BY InitIInv, NextIInv, PTL DEF Spec
<1>3. Spec => []NInv
  BY <1>2, InitNInv, NextNInv, PTL DEF Spec
<1>4. Spec => [][P]_vars
  BY <1>1, <1>2, <1>3, PTL DEF Spec
<1> QED BY <1>4 DEF EventsNest
=============================================================================

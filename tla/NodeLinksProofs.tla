--------------------------- MODULE NodeLinksProofs --------------------------
(***************************************************************************)
(* Lemmas about the pointer surgery of NodeLinks, for every set of nodes.  *)
(*                                                                         *)
(* Every relinking operation of node.c takes a node out of its sibling     *)
(* list and, except cmark_node_unlink, puts it between two neighbours of   *)
(* another list.  The lemmas follow that: what Unlinked preserves, what    *)
(* Spliced preserves, and that each operation is a composition of the two. *)
(***************************************************************************)
EXTENDS NodeLinks, TLAPS

\* c, which is on its own, placed between the siblings a and b under p; a or
\* b is NULL at the ends of the list.
Spliced(u, p, a, b, c) ==
    [next        |-> Store(Store(u.next, a, c), c, b),
     prev        |-> Store(Store(u.prev, b, c), c, a),
     parent      |-> Store(u.parent, c, p),
     first_child |-> IF a = NULL THEN Store(u.first_child, p, c)
                     ELSE u.first_child,
     last_child  |-> IF b = NULL THEN Store(u.last_child, p, c)
                     ELSE u.last_child]

\* a and b are neighbours in the child list of p.
Gap(u, p, a, b) ==
    /\ IF a = NULL THEN u.first_child[p] = b
                   ELSE u.parent[a] = p /\ u.next[a] = b
    /\ IF b = NULL THEN u.last_child[p] = a
                   ELSE u.parent[b] = p /\ u.prev[b] = a

Alone(u, c) == u.next[c] = NULL /\ u.prev[c] = NULL /\ u.parent[c] = NULL

Links(t) == SiblingLinks(t) /\ ParentLinks(t)

-----------------------------------------------------------------------------
(* Fields of the trees the operations build.                               *)

\* A guarded store yields a pointer field again.
LEMMA StoreType ==
    ASSUME NEW f \in [Nodes -> Ptr], NEW p \in Ptr, NEW v \in Ptr
    PROVE  /\ Store(f, p, v) \in [Nodes -> Ptr]
           /\ \A m \in Nodes : Store(f, p, v)[m] = IF m = p THEN v ELSE f[m]
  BY DEF Store, Ptr

\* The pointer fields after S_node_unlink.
LEMMA UnlinkStepFields ==
    ASSUME NEW t \in Trees, NEW n \in Nodes,
           NEW u, u = S_node_unlink(t, n)
    PROVE  /\ u \in Trees
           /\ u.next = Store(t.next, t.prev[n], t.next[n])
           /\ u.prev = Store(t.prev, t.next[n], t.prev[n])
           /\ u.parent = t.parent
           /\ u.first_child = [m \in Nodes |->
                 IF m = t.parent[n] /\ t.first_child[m] = n
                 THEN t.next[n] ELSE t.first_child[m]]
           /\ u.last_child = [m \in Nodes |->
                 IF m = t.parent[n] /\ t.last_child[m] = n
                 THEN t.prev[n] ELSE t.last_child[m]]
  <1>1. /\ t.next \in [Nodes -> Ptr] /\ t.prev \in [Nodes -> Ptr]
        /\ t.parent \in [Nodes -> Ptr]
        /\ t.first_child \in [Nodes -> Ptr] /\ t.last_child \in [Nodes -> Ptr]
    BY DEF Trees
  <1>2. t.next[n] \in Ptr /\ t.prev[n] \in Ptr
    BY <1>1
  <1>3. /\ Store(t.next, t.prev[n], t.next[n]) \in [Nodes -> Ptr]
        /\ Store(t.prev, t.next[n], t.prev[n]) \in [Nodes -> Ptr]
    BY <1>1, <1>2, StoreType
  <1> QED BY <1>1, <1>2, <1>3 DEF S_node_unlink, Trees

\* The pointer fields after cmark_node_unlink, node by node.
LEMMA UnlinkedFields ==
    ASSUME NEW t \in Trees, NEW n \in Nodes,
           NEW u, u = Unlinked(t, n)
    PROVE  /\ u \in Trees
           /\ \A m \in Nodes :
                /\ u.next[m] = IF m = n THEN NULL
                               ELSE IF m = t.prev[n] THEN t.next[n]
                               ELSE t.next[m]
                /\ u.prev[m] = IF m = n THEN NULL
                               ELSE IF m = t.next[n] THEN t.prev[n]
                               ELSE t.prev[m]
                /\ u.parent[m] = IF m = n THEN NULL ELSE t.parent[m]
                /\ u.first_child[m] =
                     IF m = t.parent[n] /\ t.first_child[m] = n
                     THEN t.next[n] ELSE t.first_child[m]
                /\ u.last_child[m] =
                     IF m = t.parent[n] /\ t.last_child[m] = n
                     THEN t.prev[n] ELSE t.last_child[m]
  <1> DEFINE w == S_node_unlink(t, n)
  <1>1. /\ w \in Trees
        /\ w.next = Store(t.next, t.prev[n], t.next[n])
        /\ w.prev = Store(t.prev, t.next[n], t.prev[n])
        /\ w.parent = t.parent
        /\ w.first_child = [m \in Nodes |->
                 IF m = t.parent[n] /\ t.first_child[m] = n
                 THEN t.next[n] ELSE t.first_child[m]]
        /\ w.last_child = [m \in Nodes |->
                 IF m = t.parent[n] /\ t.last_child[m] = n
                 THEN t.prev[n] ELSE t.last_child[m]]
    BY UnlinkStepFields
  <1>2. u = [w EXCEPT !.next = Store(w.next, n, NULL),
                      !.prev = Store(w.prev, n, NULL),
                      !.parent = Store(w.parent, n, NULL)]
    BY DEF Unlinked
  <1> HIDE DEF w
  <1>3. /\ u.next = Store(w.next, n, NULL)
        /\ u.prev = Store(w.prev, n, NULL)
        /\ u.parent = Store(w.parent, n, NULL)
        /\ u.first_child = w.first_child
        /\ u.last_child = w.last_child
        /\ u = [next |-> Store(w.next, n, NULL),
                prev |-> Store(w.prev, n, NULL),
                parent |-> Store(w.parent, n, NULL),
                first_child |-> w.first_child,
                last_child |-> w.last_child]
    BY <1>1, <1>2 DEF Trees
  <1>5. /\ Store(w.next, n, NULL) \in [Nodes -> Ptr]
        /\ Store(w.prev, n, NULL) \in [Nodes -> Ptr]
        /\ Store(w.parent, n, NULL) \in [Nodes -> Ptr]
    <2>1. /\ w.next \in [Nodes -> Ptr]
          /\ w.prev \in [Nodes -> Ptr]
          /\ w.parent \in [Nodes -> Ptr]
          /\ n \in Ptr /\ NULL \in Ptr
      BY <1>1 DEF Trees, Ptr
    <2> QED BY <2>1, StoreType
  <1>6. u \in Trees
    BY <1>1, <1>3, <1>5 DEF Trees
  <1>4. /\ t.next \in [Nodes -> Ptr] /\ t.prev \in [Nodes -> Ptr]
        /\ t.parent \in [Nodes -> Ptr]
        /\ t.next[n] \in Ptr /\ t.prev[n] \in Ptr
    BY DEF Trees
  <1> QED BY <1>1, <1>3, <1>4, <1>6 DEF Store

\* The pointer fields after a splice, node by node.
LEMMA SplicedFields ==
    \A u \in Trees, p \in Nodes, c \in Nodes, a \in Ptr, b \in Ptr :
      /\ Spliced(u, p, a, b, c) \in Trees
      /\ \A m \in Nodes :
           /\ Spliced(u, p, a, b, c).next[m] =
                IF m = c THEN b ELSE IF m = a THEN c ELSE u.next[m]
           /\ Spliced(u, p, a, b, c).prev[m] =
                IF m = c THEN a ELSE IF m = b THEN c ELSE u.prev[m]
           /\ Spliced(u, p, a, b, c).parent[m] =
                IF m = c THEN p ELSE u.parent[m]
           /\ Spliced(u, p, a, b, c).first_child[m] =
                IF a = NULL /\ m = p THEN c ELSE u.first_child[m]
           /\ Spliced(u, p, a, b, c).last_child[m] =
                IF b = NULL /\ m = p THEN c ELSE u.last_child[m]
  <1> SUFFICES ASSUME NEW u \in Trees, NEW p \in Nodes, NEW c \in Nodes,
                      NEW a \in Ptr, NEW b \in Ptr,
                      NEW v, v = Spliced(u, p, a, b, c)
               PROVE  /\ v \in Trees
                      /\ \A m \in Nodes :
                           /\ v.next[m] = IF m = c THEN b
                                 ELSE IF m = a THEN c ELSE u.next[m]
                           /\ v.prev[m] = IF m = c THEN a
                                 ELSE IF m = b THEN c ELSE u.prev[m]
                           /\ v.parent[m] = IF m = c THEN p ELSE u.parent[m]
                           /\ v.first_child[m] = IF a = NULL /\ m = p THEN c
                                 ELSE u.first_child[m]
                           /\ v.last_child[m] = IF b = NULL /\ m = p THEN c
                                 ELSE u.last_child[m]
    OBVIOUS
  <1>1. /\ u.next \in [Nodes -> Ptr] /\ u.prev \in [Nodes -> Ptr]
        /\ u.parent \in [Nodes -> Ptr]
        /\ u.first_child \in [Nodes -> Ptr] /\ u.last_child \in [Nodes -> Ptr]
        /\ c \in Ptr /\ p \in Ptr
    BY DEF Trees, Ptr
  <1>2. /\ v.next = Store(Store(u.next, a, c), c, b)
        /\ v.prev = Store(Store(u.prev, b, c), c, a)
        /\ v.parent = Store(u.parent, c, p)
        /\ v.first_child = IF a = NULL THEN Store(u.first_child, p, c)
                           ELSE u.first_child
        /\ v.last_child = IF b = NULL THEN Store(u.last_child, p, c)
                          ELSE u.last_child
    BY DEF Spliced
  <1>3. /\ Store(u.next, a, c) \in [Nodes -> Ptr]
        /\ Store(u.prev, b, c) \in [Nodes -> Ptr]
        /\ Store(u.parent, c, p) \in [Nodes -> Ptr]
        /\ Store(u.first_child, p, c) \in [Nodes -> Ptr]
        /\ Store(u.last_child, p, c) \in [Nodes -> Ptr]
    BY <1>1, StoreType
  <1>4. /\ Store(Store(u.next, a, c), c, b) \in [Nodes -> Ptr]
        /\ Store(Store(u.prev, b, c), c, a) \in [Nodes -> Ptr]
    BY <1>1, <1>3, StoreType
  <1>5. v \in Trees
    BY <1>2, <1>3, <1>4, <1>1 DEF Trees, Spliced
  <1>6. /\ \A m \in Nodes : v.next[m] = IF m = c THEN b
                               ELSE IF m = a THEN c ELSE u.next[m]
        /\ \A m \in Nodes : v.prev[m] = IF m = c THEN a
                               ELSE IF m = b THEN c ELSE u.prev[m]
        /\ \A m \in Nodes : v.parent[m] = IF m = c THEN p ELSE u.parent[m]
    BY <1>2 DEF Store
  <1>7. /\ \A m \in Nodes : v.first_child[m] = IF a = NULL /\ m = p THEN c
                                      ELSE u.first_child[m]
        /\ \A m \in Nodes : v.last_child[m] = IF b = NULL /\ m = p THEN c
                                     ELSE u.last_child[m]
    BY <1>2 DEF Store
  <1> QED BY <1>5, <1>6, <1>7

-----------------------------------------------------------------------------
(* Unlinking.                                                              *)

\* cmark_node_unlink keeps all links consistent and leaves n on its own.
LEMMA UnlinkedLinks ==
    ASSUME NEW t \in Trees, Links(t), NEW n \in Nodes, NULL \notin Nodes,
           t.next[n] # n,
           NEW u, u = Unlinked(t, n)
    PROVE  u \in Trees /\ Links(u) /\ Alone(u, n)
  <1>1. /\ t.next \in [Nodes -> Ptr] /\ t.prev \in [Nodes -> Ptr]
        /\ t.parent \in [Nodes -> Ptr]
        /\ t.first_child \in [Nodes -> Ptr] /\ t.last_child \in [Nodes -> Ptr]
    BY DEF Trees
  <1>2. u \in Trees
    BY UnlinkedFields
  <1>3. \A m \in Nodes :
                /\ u.next[m] = IF m = n THEN NULL
                               ELSE IF m = t.prev[n] THEN t.next[n]
                               ELSE t.next[m]
                /\ u.prev[m] = IF m = n THEN NULL
                               ELSE IF m = t.next[n] THEN t.prev[n]
                               ELSE t.prev[m]
                /\ u.parent[m] = IF m = n THEN NULL ELSE t.parent[m]
                /\ u.first_child[m] =
                     IF m = t.parent[n] /\ t.first_child[m] = n
                     THEN t.next[n] ELSE t.first_child[m]
                /\ u.last_child[m] =
                     IF m = t.parent[n] /\ t.last_child[m] = n
                     THEN t.prev[n] ELSE t.last_child[m]
    BY UnlinkedFields
  <1>4. Alone(u, n)
    BY <1>3 DEF Alone
  <1>5. SiblingLinks(u)
    BY <1>1, <1>3 DEF Links, SiblingLinks, ParentLinks, Ptr
  <1>6. ParentLinks(u)
    <2>1. \A m \in Nodes : u.parent[m] = NULL =>
            u.next[m] = NULL /\ u.prev[m] = NULL
      BY <1>1, <1>3 DEF Links, SiblingLinks, ParentLinks, Ptr
    <2>2. ASSUME NEW m \in Nodes, u.parent[m] # NULL
          PROVE  /\ u.prev[m] = NULL => u.first_child[u.parent[m]] = m
                 /\ u.next[m] = NULL => u.last_child[u.parent[m]] = m
      <3>1. m # n /\ u.parent[m] = t.parent[m] /\ t.parent[m] \in Nodes
        BY <1>1, <1>3, <2>2 DEF Ptr
      <3>2. u.prev[m] = NULL => u.first_child[u.parent[m]] = m
        BY <1>1, <1>3, <3>1 DEF Links, SiblingLinks, ParentLinks, Ptr
      <3>3. u.next[m] = NULL => u.last_child[u.parent[m]] = m
        BY <1>1, <1>3, <3>1 DEF Links, SiblingLinks, ParentLinks, Ptr
      <3> QED BY <3>2, <3>3
    <2>3. \A p \in Nodes : u.first_child[p] # NULL =>
            /\ u.parent[u.first_child[p]] = p
            /\ u.prev[u.first_child[p]] = NULL
      BY <1>1, <1>3 DEF Links, SiblingLinks, ParentLinks, Ptr
    <2>4. \A p \in Nodes : u.last_child[p] # NULL =>
            /\ u.parent[u.last_child[p]] = p
            /\ u.next[u.last_child[p]] = NULL
      BY <1>1, <1>3 DEF Links, SiblingLinks, ParentLinks, Ptr
    <2>5. \A p \in Nodes : u.first_child[p] = NULL <=> u.last_child[p] = NULL
      BY <1>1, <1>3 DEF Links, SiblingLinks, ParentLinks, Ptr
    <2> QED BY <2>1, <2>2, <2>3, <2>4, <2>5 DEF ParentLinks
  <1> QED BY <1>2, <1>4, <1>5, <1>6 DEF Links

\* Splicing a node that is on its own into a gap keeps all links consistent.
LEMMA SplicedLinks ==
    ASSUME NEW u \in Trees, Links(u), NULL \notin Nodes,
           NEW p \in Nodes, NEW c \in Nodes, NEW a \in Ptr, NEW b \in Ptr,
           Alone(u, c), Gap(u, p, a, b),
           NEW v, v = Spliced(u, p, a, b, c)
    PROVE  v \in Trees /\ Links(v)
  <1>1. /\ u.next \in [Nodes -> Ptr] /\ u.prev \in [Nodes -> Ptr]
        /\ u.parent \in [Nodes -> Ptr]
        /\ u.first_child \in [Nodes -> Ptr] /\ u.last_child \in [Nodes -> Ptr]
    BY DEF Trees
  <1>2. v \in Trees
    BY SplicedFields
  <1>3. \A m \in Nodes :
                /\ v.next[m] = IF m = c THEN b
                               ELSE IF m = a THEN c ELSE u.next[m]
                /\ v.prev[m] = IF m = c THEN a
                               ELSE IF m = b THEN c ELSE u.prev[m]
                /\ v.parent[m] = IF m = c THEN p ELSE u.parent[m]
                /\ v.first_child[m] = IF a = NULL /\ m = p THEN c
                                      ELSE u.first_child[m]
                /\ v.last_child[m] = IF b = NULL /\ m = p THEN c
                                     ELSE u.last_child[m]
    BY SplicedFields
  <1>4. a # c /\ b # c
    BY <1>1 DEF Alone, Gap, Ptr, Links, ParentLinks
  <1>5. SiblingLinks(v)
    BY <1>1, <1>3, <1>4 DEF Links, SiblingLinks, ParentLinks, Ptr, Alone, Gap
  <1>6. ParentLinks(v)
    <2>1. \A m \in Nodes : v.parent[m] = NULL =>
            v.next[m] = NULL /\ v.prev[m] = NULL
      BY <1>1, <1>3, <1>4 DEF Links, SiblingLinks, ParentLinks, Ptr, Alone, Gap
    <2>2. \A m \in Nodes : v.parent[m] # NULL =>
            /\ v.prev[m] = NULL => v.first_child[v.parent[m]] = m
            /\ v.next[m] = NULL => v.last_child[v.parent[m]] = m
      BY <1>1, <1>3, <1>4 DEF Links, SiblingLinks, ParentLinks, Ptr, Alone, Gap
    <2>3. \A q \in Nodes : v.first_child[q] # NULL =>
            /\ v.parent[v.first_child[q]] = q
            /\ v.prev[v.first_child[q]] = NULL
      BY <1>1, <1>3, <1>4 DEF Links, SiblingLinks, ParentLinks, Ptr, Alone, Gap
    <2>4. \A q \in Nodes : v.last_child[q] # NULL =>
            /\ v.parent[v.last_child[q]] = q
            /\ v.next[v.last_child[q]] = NULL
      BY <1>1, <1>3, <1>4 DEF Links, SiblingLinks, ParentLinks, Ptr, Alone, Gap
    <2>5. \A q \in Nodes : v.first_child[q] = NULL <=> v.last_child[q] = NULL
      BY <1>1, <1>3, <1>4 DEF Links, SiblingLinks, ParentLinks, Ptr, Alone, Gap
    <2> QED BY <2>1, <2>2, <2>3, <2>4, <2>5 DEF ParentLinks
  <1> QED BY <1>2, <1>5, <1>6 DEF Links

-----------------------------------------------------------------------------
(* Each insertion is an unlinking followed by a splice into a gap.         *)

\* What S_node_unlink and cmark_node_unlink leave differs only in the three
\* pointers of the node itself.
LEMMA UnlinkStepVsUnlinked ==
    \A t \in Trees, n \in Nodes :
      /\ S_node_unlink(t, n) \in Trees
      /\ S_node_unlink(t, n).first_child = Unlinked(t, n).first_child
      /\ S_node_unlink(t, n).last_child = Unlinked(t, n).last_child
      /\ \A m \in Nodes : m # n =>
           /\ S_node_unlink(t, n).next[m] = Unlinked(t, n).next[m]
           /\ S_node_unlink(t, n).prev[m] = Unlinked(t, n).prev[m]
           /\ S_node_unlink(t, n).parent[m] = Unlinked(t, n).parent[m]
  <1> SUFFICES ASSUME NEW t \in Trees, NEW n \in Nodes,
                      NEW w, w = S_node_unlink(t, n),
                      NEW u, u = Unlinked(t, n)
               PROVE  /\ w \in Trees
                      /\ w.first_child = u.first_child
                      /\ w.last_child = u.last_child
                      /\ \A m \in Nodes : m # n => /\ w.next[m] = u.next[m]
                                                /\ w.prev[m] = u.prev[m]
                                                /\ w.parent[m] = u.parent[m]
    OBVIOUS
  <1>1. w \in Trees
    BY UnlinkStepFields
  <1>2. u = [w EXCEPT !.next = Store(w.next, n, NULL),
                      !.prev = Store(w.prev, n, NULL),
                      !.parent = Store(w.parent, n, NULL)]
    BY DEF Unlinked
  <1>3. /\ u.first_child = w.first_child /\ u.last_child = w.last_child
        /\ u.next = Store(w.next, n, NULL)
        /\ u.prev = Store(w.prev, n, NULL)
        /\ u.parent = Store(w.parent, n, NULL)
    BY <1>1, <1>2 DEF Trees
  <1> QED BY <1>1, <1>3 DEF Store

\* cmark_node_insert_before.
LEMMA InsertedBeforeIsSplice ==
    ASSUME NULL \notin Nodes, NEW t \in Trees, Links(t),
           NEW node \in Nodes, NEW sib \in Nodes, node # sib,
           t.parent[node] # NULL, t.next[sib] # sib,
           NEW u, u = Unlinked(t, sib)
    PROVE  /\ Gap(u, t.parent[node], u.prev[node], node)
           /\ InsertedBefore(t, node, sib)
                = Spliced(u, t.parent[node], u.prev[node], node, sib)
  <1> DEFINE w == S_node_unlink(t, sib)
             p == t.parent[node]
             a == u.prev[node]
  <1>0. w = S_node_unlink(t, sib) /\ p = t.parent[node] /\ a = u.prev[node]
    OBVIOUS
  <1> HIDE DEF w, p, a
  <1>1. u \in Trees /\ Links(u) /\ Alone(u, sib)
    BY UnlinkedLinks
  <1>2. /\ w \in Trees
        /\ w.first_child = u.first_child /\ w.last_child = u.last_child
        /\ \A m \in Nodes : m # sib => /\ w.next[m] = u.next[m]
                                    /\ w.prev[m] = u.prev[m]
                                    /\ w.parent[m] = u.parent[m]
    BY <1>0, UnlinkStepVsUnlinked
  <1>3. u.parent[node] = p /\ p \in Nodes /\ a \in Ptr
    <2>1. t.parent \in [Nodes -> Ptr] /\ u.prev \in [Nodes -> Ptr]
      BY <1>1 DEF Trees
    <2>2. \A m \in Nodes : u.parent[m] = IF m = sib THEN NULL ELSE t.parent[m]
      BY UnlinkedFields
    <2> QED BY <1>0, <2>1, <2>2 DEF Ptr
  <1>4. Gap(u, p, a, node)
    BY <1>0, <1>1, <1>3 DEF Gap, Links, SiblingLinks, ParentLinks, Ptr, Trees
  <1>5. w.prev[node] = a /\ w.parent[node] = p
    BY <1>0, <1>2, <1>3
  <1>6. InsertedBefore(t, node, sib) =
           [w EXCEPT
             !.next = Store(Store(w.next, a, sib), sib, node),
             !.prev = Store(Store(w.prev, sib, a), node, sib),
             !.parent = Store(w.parent, sib, p),
             !.first_child = IF a = NULL
                             THEN Store(w.first_child, p, sib)
                             ELSE w.first_child]
    BY <1>0, <1>5 DEF InsertedBefore
  <1>7. /\ Store(Store(w.next, a, sib), sib, node)
             = Store(Store(u.next, a, sib), sib, node)
        /\ Store(Store(w.prev, sib, a), node, sib)
             = Store(Store(u.prev, node, sib), sib, a)
        /\ Store(w.parent, sib, p) = Store(u.parent, sib, p)
    BY <1>2 DEF Store
  <1>8. InsertedBefore(t, node, sib) =
           [next |-> Store(Store(w.next, a, sib), sib, node),
            prev |-> Store(Store(w.prev, sib, a), node, sib),
            parent |-> Store(w.parent, sib, p),
            first_child |-> IF a = NULL THEN Store(w.first_child, p, sib)
                            ELSE w.first_child,
            last_child |-> w.last_child]
    BY <1>2, <1>6 DEF Trees
  <1>9. InsertedBefore(t, node, sib) = Spliced(u, p, a, node, sib)
    BY <1>2, <1>7, <1>8 DEF Spliced
  <1> QED BY <1>0, <1>4, <1>9

\* cmark_node_insert_after.
LEMMA InsertedAfterIsSplice ==
    ASSUME NULL \notin Nodes, NEW t \in Trees, Links(t),
           NEW node \in Nodes, NEW sib \in Nodes, node # sib,
           t.parent[node] # NULL, t.next[sib] # sib,
           NEW u, u = Unlinked(t, sib)
    PROVE  /\ Gap(u, t.parent[node], node, u.next[node])
           /\ InsertedAfter(t, node, sib)
                = Spliced(u, t.parent[node], node, u.next[node], sib)
  <1> DEFINE w == S_node_unlink(t, sib)
             p == t.parent[node]
             b == u.next[node]
  <1>0. w = S_node_unlink(t, sib) /\ p = t.parent[node] /\ b = u.next[node]
    OBVIOUS
  <1> HIDE DEF w, p, b
  <1>1. u \in Trees /\ Links(u) /\ Alone(u, sib)
    BY UnlinkedLinks
  <1>2. /\ w \in Trees
        /\ w.first_child = u.first_child /\ w.last_child = u.last_child
        /\ \A m \in Nodes : m # sib => /\ w.next[m] = u.next[m]
                                    /\ w.prev[m] = u.prev[m]
                                    /\ w.parent[m] = u.parent[m]
    BY <1>0, UnlinkStepVsUnlinked
  <1>3. u.parent[node] = p /\ p \in Nodes /\ b \in Ptr
    <2>1. t.parent \in [Nodes -> Ptr] /\ u.next \in [Nodes -> Ptr]
      BY <1>1 DEF Trees
    <2>2. \A m \in Nodes : u.parent[m] = IF m = sib THEN NULL ELSE t.parent[m]
      BY UnlinkedFields
    <2> QED BY <1>0, <2>1, <2>2 DEF Ptr
  <1>4. Gap(u, p, node, b)
    BY <1>0, <1>1, <1>3 DEF Gap, Links, SiblingLinks, ParentLinks, Ptr, Trees
  <1>5. w.next[node] = b /\ w.parent[node] = p
    BY <1>0, <1>2, <1>3
  <1>6. InsertedAfter(t, node, sib) =
           [w EXCEPT
             !.next = Store(Store(w.next, sib, b), node, sib),
             !.prev = Store(Store(w.prev, b, sib), sib, node),
             !.parent = Store(w.parent, sib, p),
             !.last_child = IF b = NULL
                            THEN Store(w.last_child, p, sib)
                            ELSE w.last_child]
    BY <1>0, <1>5 DEF InsertedAfter
  <1>7. /\ Store(Store(w.next, sib, b), node, sib)
             = Store(Store(u.next, node, sib), sib, b)
        /\ Store(Store(w.prev, b, sib), sib, node)
             = Store(Store(u.prev, b, sib), sib, node)
        /\ Store(w.parent, sib, p) = Store(u.parent, sib, p)
    BY <1>2 DEF Store
  <1>8. InsertedAfter(t, node, sib) =
           [next |-> Store(Store(w.next, sib, b), node, sib),
            prev |-> Store(Store(w.prev, b, sib), sib, node),
            parent |-> Store(w.parent, sib, p),
            first_child |-> w.first_child,
            last_child |-> IF b = NULL THEN Store(w.last_child, p, sib)
                           ELSE w.last_child]
    BY <1>2, <1>6 DEF Trees
  <1>9. InsertedAfter(t, node, sib) = Spliced(u, p, node, b, sib)
    BY <1>2, <1>7, <1>8 DEF Spliced
  <1> QED BY <1>0, <1>4, <1>9

\* cmark_node_prepend_child.
LEMMA PrependedIsSplice ==
    ASSUME NULL \notin Nodes, NEW t \in Trees, Links(t),
           NEW node \in Nodes, NEW child \in Nodes,
           t.next[child] # child,
           NEW u, u = Unlinked(t, child)
    PROVE  /\ Gap(u, node, NULL, u.first_child[node])
           /\ Prepended(t, node, child)
                = Spliced(u, node, NULL, u.first_child[node], child)
  <1> DEFINE w == S_node_unlink(t, child)
             p == node
             b == u.first_child[node]
  <1>0. w = S_node_unlink(t, child) /\ p = node /\ b = u.first_child[node]
    OBVIOUS
  <1> HIDE DEF w, p, b
  <1>1. u \in Trees /\ Links(u) /\ Alone(u, child)
    BY UnlinkedLinks
  <1>2. /\ w \in Trees
        /\ w.first_child = u.first_child /\ w.last_child = u.last_child
        /\ \A m \in Nodes : m # child => /\ w.next[m] = u.next[m]
                                    /\ w.prev[m] = u.prev[m]
                                    /\ w.parent[m] = u.parent[m]
    BY <1>0, UnlinkStepVsUnlinked
  <1>3. b \in Ptr /\ b # child
    BY <1>0, <1>1 DEF Links, ParentLinks, Alone, Trees
  <1>4. Gap(u, node, NULL, b)
    BY <1>0, <1>1, <1>3 DEF Gap, Links, SiblingLinks, ParentLinks, Ptr, Trees
  <1>6. Prepended(t, node, child) =
           [w EXCEPT
             !.next = Store(w.next, child, b),
             !.prev = Store(Store(w.prev, child, NULL), b, child),
             !.parent = Store(w.parent, child, node),
             !.first_child = Store(w.first_child, node, child),
             !.last_child = IF b = NULL THEN Store(w.last_child, node, child)
                            ELSE w.last_child]
    BY <1>0, <1>2 DEF Prepended
  <1>7. /\ Store(w.next, child, b)
             = Store(Store(u.next, NULL, child), child, b)
        /\ Store(Store(w.prev, child, NULL), b, child)
             = Store(Store(u.prev, b, child), child, NULL)
        /\ Store(w.parent, child, node) = Store(u.parent, child, node)
    BY <1>2, <1>3 DEF Store
  <1>8. Prepended(t, node, child) =
           [next |-> Store(w.next, child, b),
            prev |-> Store(Store(w.prev, child, NULL), b, child),
            parent |-> Store(w.parent, child, node),
            first_child |-> Store(w.first_child, node, child),
            last_child |-> IF b = NULL THEN Store(w.last_child, node, child)
                           ELSE w.last_child]
    BY <1>2, <1>6 DEF Trees
  <1>9. Prepended(t, node, child) = Spliced(u, node, NULL, b, child)
    BY <1>2, <1>7, <1>8 DEF Spliced
  <1> QED BY <1>0, <1>4, <1>9

\* cmark_node_append_child.
LEMMA AppendedIsSplice ==
    ASSUME NULL \notin Nodes, NEW t \in Trees, Links(t),
           NEW node \in Nodes, NEW child \in Nodes,
           t.next[child] # child,
           NEW u, u = Unlinked(t, child)
    PROVE  /\ Gap(u, node, u.last_child[node], NULL)
           /\ Appended(t, node, child)
                = Spliced(u, node, u.last_child[node], NULL, child)
  <1> DEFINE w == S_node_unlink(t, child)
             p == node
             a == u.last_child[node]
  <1>0. w = S_node_unlink(t, child) /\ p = node /\ a = u.last_child[node]
    OBVIOUS
  <1> HIDE DEF w, p, a
  <1>1. u \in Trees /\ Links(u) /\ Alone(u, child)
    BY UnlinkedLinks
  <1>2. /\ w \in Trees
        /\ w.first_child = u.first_child /\ w.last_child = u.last_child
        /\ \A m \in Nodes : m # child => /\ w.next[m] = u.next[m]
                                    /\ w.prev[m] = u.prev[m]
                                    /\ w.parent[m] = u.parent[m]
    BY <1>0, UnlinkStepVsUnlinked
  <1>3. a \in Ptr /\ a # child
    BY <1>0, <1>1 DEF Links, ParentLinks, Alone, Trees
  <1>4. Gap(u, node, a, NULL)
    BY <1>0, <1>1, <1>3 DEF Gap, Links, SiblingLinks, ParentLinks, Ptr, Trees
  <1>6. Appended(t, node, child) =
           [w EXCEPT
             !.next = Store(Store(w.next, child, NULL), a, child),
             !.prev = Store(w.prev, child, a),
             !.parent = Store(w.parent, child, node),
             !.last_child = Store(w.last_child, node, child),
             !.first_child = IF a = NULL THEN Store(w.first_child, node, child)
                             ELSE w.first_child]
    BY <1>0, <1>2 DEF Appended
  <1>7. /\ Store(Store(w.next, child, NULL), a, child)
             = Store(Store(u.next, a, child), child, NULL)
        /\ Store(w.prev, child, a)
             = Store(Store(u.prev, NULL, child), child, a)
        /\ Store(w.parent, child, node) = Store(u.parent, child, node)
    BY <1>2, <1>3 DEF Store
  <1>8. Appended(t, node, child) =
           [next |-> Store(Store(w.next, child, NULL), a, child),
            prev |-> Store(w.prev, child, a),
            parent |-> Store(w.parent, child, node),
            first_child |-> IF a = NULL THEN Store(w.first_child, node, child)
                            ELSE w.first_child,
            last_child |-> Store(w.last_child, node, child)]
    BY <1>2, <1>6 DEF Trees
  <1>9. Appended(t, node, child) = Spliced(u, node, a, NULL, child)
    BY <1>2, <1>7, <1>8 DEF Spliced
  <1> QED BY <1>0, <1>4, <1>9

-----------------------------------------------------------------------------
(* Well-foundedness.                                                       *)

\* AncSelf(t, n) holds n, is closed under parent and is the least such set.
LEMMA AncSelfClosed ==
    \A t \in Trees, n \in Nodes :
      /\ n \in AncSelf(t, n)
      /\ \A m \in AncSelf(t, n) : t.parent[m] \in AncSelf(t, n) \union {NULL}
      /\ \A S \in SUBSET Nodes :
           (n \in S /\ \A k \in S : t.parent[k] \in S \union {NULL})
             => AncSelf(t, n) \subseteq S
  <1> SUFFICES ASSUME NEW t \in Trees, NEW n \in Nodes
               PROVE  /\ n \in AncSelf(t, n)
                      /\ \A m \in AncSelf(t, n) :
                           t.parent[m] \in AncSelf(t, n) \union {NULL}
                      /\ \A S \in SUBSET Nodes :
                           (n \in S /\ \A k \in S : t.parent[k] \in S \union {NULL})
                             => AncSelf(t, n) \subseteq S
    OBVIOUS
  <1>1. n \in AncSelf(t, n)
    BY DEF AncSelf
  <1>2. ASSUME NEW m \in AncSelf(t, n), t.parent[m] # NULL
        PROVE  t.parent[m] \in AncSelf(t, n)
    <2>1. m \in Nodes /\ t.parent[m] \in Nodes
      BY <1>2 DEF AncSelf, Trees, Ptr
    <2>2. ASSUME NEW S \in SUBSET Nodes, n \in S,
                 \A k \in S : t.parent[k] \in S \union {NULL}
          PROVE  t.parent[m] \in S
      <3>1. m \in S
        BY <2>2 DEF AncSelf
      <3> QED BY <1>2, <2>2, <3>1
    <2> QED BY <2>1, <2>2 DEF AncSelf
  <1>3. ASSUME NEW S \in SUBSET Nodes, n \in S,
               \A k \in S : t.parent[k] \in S \union {NULL}
        PROVE  AncSelf(t, n) \subseteq S
    BY <1>3 DEF AncSelf
  <1> QED BY <1>1, <1>2, <1>3

\* Hanging c under p keeps the parent pointers well-founded if c is neither p
\* nor an ancestor of p: the check S_can_contain makes.
LEMMA HangingKeepsParents ==
    ASSUME NULL \notin Nodes, NEW t \in Trees, NEW p \in Nodes, NEW c \in Nodes,
           WellFounded(t.parent), c \notin AncSelf(t, p),
           NEW f, \A m \in Nodes : f[m] = IF m = c THEN p ELSE t.parent[m]
    PROVE  WellFounded(f)
  <1> SUFFICES ASSUME NEW S \in SUBSET Nodes, S # {},
                      \A m \in S : f[m] \in S
               PROVE  FALSE
    BY DEF WellFounded
  <1> DEFINE T == IF c \in S THEN AncSelf(t, p) \intersect S ELSE S
  <1>1. p \in AncSelf(t, p) /\ AncSelf(t, p) \subseteq Nodes
    BY AncSelfClosed DEF AncSelf
  <1>2. T \subseteq Nodes /\ T # {}
    BY <1>1
  <1>3. ASSUME NEW m \in T PROVE t.parent[m] \in T
    <2>1. m # c /\ m \in S /\ m \in Nodes
      BY <1>3
    <2>2. t.parent[m] \in S
      BY <2>1
    <2>3. t.parent[m] # NULL
      BY <2>2
    <2>4. m \in AncSelf(t, p) => t.parent[m] \in AncSelf(t, p)
      BY <2>3, AncSelfClosed
    <2> QED BY <2>2, <2>4
  <1> QED BY <1>2, <1>3 DEF WellFounded

\* Taking n out of the tree keeps both walks finite.
LEMMA UnlinkedWellFounded ==
    ASSUME NULL \notin Nodes, NEW t \in Trees, Links(t), NEW n \in Nodes,
           WellFounded(t.parent), WellFounded(t.next),
           NEW u, u = Unlinked(t, n)
    PROVE  WellFounded(u.parent) /\ WellFounded(u.next)
  <1>1. \A m \in Nodes :
          /\ u.parent[m] = IF m = n THEN NULL ELSE t.parent[m]
          /\ u.next[m] = IF m = n THEN NULL
                         ELSE IF m = t.prev[n] THEN t.next[n] ELSE t.next[m]
    BY UnlinkedFields
  <1>2. WellFounded(u.parent)
    <2> SUFFICES ASSUME NEW S \in SUBSET Nodes, S # {},
                        \A m \in S : u.parent[m] \in S
                 PROVE  FALSE
      BY DEF WellFounded
    <2>1. n \notin S
      BY <1>1
    <2>2. \A m \in S : t.parent[m] \in S
      BY <1>1, <2>1
    <2> QED BY <2>2 DEF WellFounded
  <1>3. WellFounded(u.next)
    <2> SUFFICES ASSUME NEW S \in SUBSET Nodes, S # {},
                        \A m \in S : u.next[m] \in S
                 PROVE  FALSE
      BY DEF WellFounded
    <2> DEFINE T == IF t.prev[n] \in S THEN S \union {n} ELSE S
    <2>1. n \notin S
      BY <1>1
    <2>2. T \subseteq Nodes /\ T # {}
      OBVIOUS
    <2>3. ASSUME NEW m \in T PROVE t.next[m] \in T
      <3>1. CASE m = n
        <4>1. t.prev[n] \in S /\ t.prev[n] # n
          BY <2>1, <3>1
        <4>2. u.next[t.prev[n]] = t.next[n]
          BY <1>1, <4>1
        <4> QED BY <3>1, <4>1, <4>2
      <3>2. CASE m # n /\ m = t.prev[n]
        <4>1. t.next[m] = n
          BY <3>2 DEF Links, SiblingLinks
        <4> QED BY <3>2, <4>1
      <3>3. CASE m # n /\ m # t.prev[n]
        BY <1>1, <3>3
      <3> QED BY <3>1, <3>2, <3>3
    <2> QED BY <2>2, <2>3 DEF WellFounded
  <1> QED BY <1>2, <1>3

\* Splicing a lone node into a gap keeps sibling walks finite.
LEMMA SplicedNextWellFounded ==
    ASSUME NULL \notin Nodes, NEW u \in Trees, Links(u), WellFounded(u.next),
           NEW p \in Nodes, NEW c \in Nodes, NEW a \in Ptr, NEW b \in Ptr,
           Alone(u, c), Gap(u, p, a, b),
           NEW v, v = Spliced(u, p, a, b, c)
    PROVE  WellFounded(v.next)
  <1>1. \A m \in Nodes :
          /\ v.next[m] = IF m = c THEN b ELSE IF m = a THEN c ELSE u.next[m]
          /\ v.parent[m] = IF m = c THEN p ELSE u.parent[m]
    BY SplicedFields
  <1>2. a # c /\ b # c
    BY DEF Alone, Gap, Ptr, Links, ParentLinks, Trees
  <1> SUFFICES ASSUME NEW S \in SUBSET Nodes, S # {},
                      \A m \in S : v.next[m] \in S
               PROVE  FALSE
    BY DEF WellFounded
  <1> DEFINE T == S \ {c}
  <1>3. T # {}
    <2>1. CASE c \in S
      <3>1. b \in S
        BY <1>1, <2>1
      <3> QED BY <1>2, <3>1
    <2>2. CASE c \notin S
      BY <2>2
    <2> QED BY <2>1, <2>2
  <1>4. ASSUME NEW m \in T PROVE u.next[m] \in T
    <2>1. CASE m = a
      <3>1. c \in S
        BY <1>1, <2>1
      <3>2. b \in S /\ b # c
        BY <1>1, <1>2, <3>1
      <3>3. u.next[m] = b
        BY <2>1 DEF Gap
      <3> QED BY <3>2, <3>3
    <2>2. CASE m # a
      <3>1. u.next[m] \in S
        BY <1>1, <2>2
      <3>2. u.next[m] # c
        BY DEF Links, SiblingLinks, Alone
      <3> QED BY <3>1, <3>2
    <2> QED BY <2>1, <2>2
  <1>5. T \subseteq Nodes
    OBVIOUS
  <1> QED BY <1>3, <1>4, <1>5 DEF WellFounded

-----------------------------------------------------------------------------
(* A node moved to another place.                                          *)

Shape(t) == Links(t) /\ WellFounded(t.parent) /\ WellFounded(t.next)

\* The nodes outside L have no pointers and are nobody's parent.
Untouched(t, L) ==
    \A m \in Nodes \ L :
        /\ t.next[m] = NULL /\ t.prev[m] = NULL /\ t.parent[m] = NULL
        /\ t.first_child[m] = NULL /\ t.last_child[m] = NULL
        /\ \A k \in Nodes : t.parent[k] # m

\* No node is its own sibling.
LEMMA NoSelfNext ==
    ASSUME NEW t, WellFounded(t.next), NEW n \in Nodes
    PROVE  t.next[n] # n
  <1>1. {n} \in SUBSET Nodes /\ {n} # {}
    OBVIOUS
  <1> QED BY <1>1 DEF WellFounded

\* Unlinking keeps the shape of the tree and touches no unallocated node.
LEMMA UnlinkedShape ==
    ASSUME NULL \notin Nodes, NEW t \in Trees, Shape(t),
           NEW L, Untouched(t, L), NEW n \in Nodes, n \in L,
           NEW u, u = Unlinked(t, n)
    PROVE  /\ u \in Trees /\ Shape(u) /\ Alone(u, n) /\ Untouched(u, L)
           /\ \A m \in Nodes : u.parent[m] = IF m = n THEN NULL ELSE t.parent[m]
  <1>1. t.next[n] # n
    BY NoSelfNext DEF Shape
  <1>2. u \in Trees /\ Links(u) /\ Alone(u, n)
    BY <1>1, UnlinkedLinks DEF Shape
  <1>3. WellFounded(u.parent) /\ WellFounded(u.next)
    BY UnlinkedWellFounded DEF Shape
  <1>4. \A m \in Nodes :
                /\ u.next[m] = IF m = n THEN NULL
                               ELSE IF m = t.prev[n] THEN t.next[n]
                               ELSE t.next[m]
                /\ u.prev[m] = IF m = n THEN NULL
                               ELSE IF m = t.next[n] THEN t.prev[n]
                               ELSE t.prev[m]
                /\ u.parent[m] = IF m = n THEN NULL ELSE t.parent[m]
                /\ u.first_child[m] =
                     IF m = t.parent[n] /\ t.first_child[m] = n
                     THEN t.next[n] ELSE t.first_child[m]
                /\ u.last_child[m] =
                     IF m = t.parent[n] /\ t.last_child[m] = n
                     THEN t.prev[n] ELSE t.last_child[m]
    BY UnlinkedFields
  <1>5. Untouched(u, L)
    BY <1>4 DEF Untouched, Shape, Links, SiblingLinks, Trees, Ptr
  <1> QED BY <1>2, <1>3, <1>4, <1>5 DEF Shape

\* A splice under an allocated node touches no unallocated node.
LEMMA SplicedUntouched ==
    ASSUME NULL \notin Nodes, NEW u \in Trees,
           NEW L, Untouched(u, L),
           NEW p \in Nodes, NEW c \in Nodes, p \in L, c \in L,
           NEW a \in Ptr, NEW b \in Ptr, Gap(u, p, a, b),
           NEW v, v = Spliced(u, p, a, b, c)
    PROVE  /\ Untouched(v, L)
           /\ \A m \in Nodes : v.parent[m] = IF m = c THEN p ELSE u.parent[m]
  <1>1. \A m \in Nodes :
                /\ v.next[m] = IF m = c THEN b
                               ELSE IF m = a THEN c ELSE u.next[m]
                /\ v.prev[m] = IF m = c THEN a
                               ELSE IF m = b THEN c ELSE u.prev[m]
                /\ v.parent[m] = IF m = c THEN p ELSE u.parent[m]
                /\ v.first_child[m] = IF a = NULL /\ m = p THEN c
                                      ELSE u.first_child[m]
                /\ v.last_child[m] = IF b = NULL /\ m = p THEN c
                                     ELSE u.last_child[m]
    BY SplicedFields
  <1>2. \A x \in {a, b} : x \in Nodes => x \in L
    BY DEF Gap, Untouched, Trees, Ptr
  <1> QED BY <1>1, <1>2 DEF Untouched

\* Moving c into a gap under p, where p is not below c, does too.
LEMMA MovedShape ==
    ASSUME NULL \notin Nodes, NEW t \in Trees, Shape(t),
           NEW L, Untouched(t, L),
           NEW p \in Nodes, NEW c \in Nodes, p \in L, c \in L,
           NEW a \in Ptr, NEW b \in Ptr,
           c \notin AncSelf(t, p),
           NEW u, u = Unlinked(t, c), Gap(u, p, a, b),
           NEW v, v = Spliced(u, p, a, b, c)
    PROVE  /\ v \in Trees /\ Shape(v) /\ Untouched(v, L)
           /\ \A m \in Nodes : v.parent[m] = IF m = c THEN p ELSE t.parent[m]
  <1>1. /\ u \in Trees /\ Shape(u) /\ Alone(u, c) /\ Untouched(u, L)
        /\ \A m \in Nodes : u.parent[m] = IF m = c THEN NULL ELSE t.parent[m]
    BY UnlinkedShape
  <1>2. v \in Trees /\ Links(v)
    BY <1>1, SplicedLinks DEF Shape
  <1>3. /\ Untouched(v, L)
        /\ \A m \in Nodes : v.parent[m] = IF m = c THEN p ELSE u.parent[m]
    BY <1>1, SplicedUntouched
  <1>4. \A m \in Nodes : v.parent[m] = IF m = c THEN p ELSE t.parent[m]
    BY <1>1, <1>3
  <1>5. WellFounded(v.parent)
    BY <1>4, HangingKeepsParents DEF Shape
  <1>6. WellFounded(v.next)
    BY <1>1, SplicedNextWellFounded DEF Shape
  <1> QED BY <1>2, <1>3, <1>4, <1>5, <1>6 DEF Shape

\* A node without first_child has no children at all.
LEMMA NoChildren ==
    ASSUME NULL \notin Nodes, NEW t \in Trees, Shape(t), NEW n \in Nodes,
           t.first_child[n] = NULL
    PROVE  \A m \in Nodes : t.parent[m] # n
  <1> SUFFICES ASSUME NEW k \in Nodes, t.parent[k] = n PROVE FALSE
    OBVIOUS
  <1> DEFINE S == {m \in Nodes : t.parent[m] = n}
  <1>1. ASSUME NEW m \in S PROVE t.next[m] \in S
    BY <1>1 DEF Shape, Links, SiblingLinks, ParentLinks, Trees, Ptr
  <1> QED BY <1>1 DEF Shape, WellFounded

-----------------------------------------------------------------------------
(* Freeing a subtree.                                                      *)

\* A subtree holds its root, and a node other than the root belongs to it just
\* when its parent does.
LEMMA SubtreeClosed ==
    ASSUME NULL \notin Nodes, NEW t \in Trees, NEW n \in Nodes,
           NEW S, S = Subtree(t, n)
    PROVE  /\ n \in S /\ S \subseteq Nodes
           /\ \A m \in Nodes : t.parent[m] \in S => m \in S
           /\ \A m \in S : m # n => t.parent[m] \in S
  <1>1. n \in S /\ S \subseteq Nodes
    BY AncSelfClosed DEF Subtree
  <1>2. ASSUME NEW m \in Nodes, t.parent[m] \in S PROVE m \in S
    <2>1. t.parent[m] \in Nodes /\ n \in AncSelf(t, t.parent[m])
      BY <1>2 DEF Subtree
    <2>2. t.parent[m] \in AncSelf(t, m)
      BY <2>1, AncSelfClosed
    <2>3. AncSelf(t, m) \in SUBSET Nodes
      BY DEF AncSelf
    <2>4. AncSelf(t, t.parent[m]) \subseteq AncSelf(t, m)
      BY <2>1, <2>2, <2>3, AncSelfClosed
    <2> QED BY <2>1, <2>4 DEF Subtree
  <1>3. ASSUME NEW m \in S, m # n PROVE t.parent[m] \in S
    <2>1. m \in Nodes /\ n \in AncSelf(t, m)
      BY <1>3 DEF Subtree
    <2>2. CASE t.parent[m] = NULL
      <3>1. {m} \in SUBSET Nodes /\ m \in {m}
            /\ \A k \in {m} : t.parent[k] \in {m} \union {NULL}
        BY <2>1, <2>2
      <3>2. AncSelf(t, m) \subseteq {m}
        BY <2>1, <3>1, AncSelfClosed
      <3> QED BY <1>3, <2>1, <3>2
    <2>3. CASE t.parent[m] # NULL
      <3> DEFINE q == t.parent[m]
                 T == {m} \union AncSelf(t, q)
      <3>1. q \in Nodes
        BY <2>1, <2>3 DEF Trees, Ptr
      <3>2. q \in AncSelf(t, q)
            /\ \A k \in AncSelf(t, q) : t.parent[k] \in AncSelf(t, q) \union {NULL}
        BY <3>1, AncSelfClosed
      <3>3. T \in SUBSET Nodes
        BY <2>1 DEF AncSelf
      <3>4. m \in T /\ \A k \in T : t.parent[k] \in T \union {NULL}
        BY <3>2
      <3> HIDE DEF T
      <3>5. AncSelf(t, m) \subseteq T
        BY <2>1, <3>3, <3>4, AncSelfClosed
      <3> QED BY <1>3, <2>1, <3>1, <3>5 DEF Subtree, T
    <2> QED BY <2>2, <2>3
  <1> QED BY <1>1, <1>2, <1>3

\* v is u with the nodes of S cleared, and no parent pointer of u crosses the
\* border of S.
CutOff(u, v, S) ==
    /\ \A m \in Nodes : u.parent[m] # NULL => (u.parent[m] \in S <=> m \in S)
    /\ \A m \in Nodes :
         /\ v.next[m] = IF m \in S THEN NULL ELSE u.next[m]
         /\ v.prev[m] = IF m \in S THEN NULL ELSE u.prev[m]
         /\ v.parent[m] = IF m \in S THEN NULL ELSE u.parent[m]
         /\ v.first_child[m] = IF m \in S THEN NULL ELSE u.first_child[m]
         /\ v.last_child[m] = IF m \in S THEN NULL ELSE u.last_child[m]

\* Clearing a set S that no link of u leaves or enters keeps the shape.
LEMMA ClearedShape ==
    ASSUME NULL \notin Nodes, NEW u \in Trees, Shape(u),
           NEW L, Untouched(u, L), NEW S \in SUBSET Nodes,
           NEW v \in Trees, CutOff(u, v, S)
    PROVE  Shape(v) /\ Untouched(v, L \ S)
  <1> USE DEF CutOff
  <1>1. /\ u.next \in [Nodes -> Ptr] /\ u.prev \in [Nodes -> Ptr]
        /\ u.parent \in [Nodes -> Ptr]
        /\ u.first_child \in [Nodes -> Ptr] /\ u.last_child \in [Nodes -> Ptr]
    BY DEF Trees
  <1>2. SiblingLinks(u) /\ ParentLinks(u)
    BY DEF Shape, Links
  <1>3. \A m \in Nodes :
          /\ u.next[m] # NULL => (u.next[m] \in S <=> m \in S)
          /\ u.prev[m] # NULL => (u.prev[m] \in S <=> m \in S)
    BY <1>1, <1>2 DEF SiblingLinks, ParentLinks, Ptr
  <1>4. \A m \in Nodes :
          /\ u.first_child[m] # NULL => (u.first_child[m] \in S <=> m \in S)
          /\ u.last_child[m] # NULL => (u.last_child[m] \in S <=> m \in S)
    BY <1>1, <1>2 DEF ParentLinks, Ptr
  <1>5. SiblingLinks(v)
    BY <1>1, <1>2, <1>3 DEF SiblingLinks, Ptr
  <1>6. ParentLinks(v)
    BY <1>1, <1>2, <1>4 DEF ParentLinks, Ptr
  <1>7. WellFounded(v.parent)
    <2> SUFFICES ASSUME NEW T \in SUBSET Nodes, T # {},
                        \A m \in T : v.parent[m] \in T
                 PROVE  FALSE
      BY DEF WellFounded
    <2>1. \A m \in T : u.parent[m] \in T
      OBVIOUS
    <2> QED BY <2>1 DEF Shape, WellFounded
  <1>8. WellFounded(v.next)
    <2> SUFFICES ASSUME NEW T \in SUBSET Nodes, T # {},
                        \A m \in T : v.next[m] \in T
                 PROVE  FALSE
      BY DEF WellFounded
    <2>1. \A m \in T : u.next[m] \in T
      OBVIOUS
    <2> QED BY <2>1 DEF Shape, WellFounded
  <1>9. Untouched(v, L \ S)
    BY DEF Untouched
  <1> QED BY <1>5, <1>6, <1>7, <1>8, <1>9 DEF Shape, Links

\* cmark_node_free leaves a well-shaped tree without the subtree of n.
LEMMA FreedShape ==
    ASSUME NULL \notin Nodes, NEW t \in Trees, Shape(t),
           NEW L, Untouched(t, L), NEW n \in Nodes, n \in L,
           NEW S, S = Subtree(t, n),
           NEW v, v = Freed(S_node_unlink(t, n), S)
    PROVE  /\ v \in Trees /\ Shape(v) /\ Untouched(v, L \ S)
           /\ \A m \in Nodes : v.parent[m] = IF m \in S THEN NULL
                                             ELSE t.parent[m]
  <1> DEFINE u == Unlinked(t, n)
             w == S_node_unlink(t, n)
  <1>1. /\ u \in Trees /\ Shape(u) /\ Untouched(u, L)
        /\ \A m \in Nodes : u.parent[m] = IF m = n THEN NULL ELSE t.parent[m]
    BY UnlinkedShape
  <1>2. /\ w \in Trees
        /\ w.first_child = u.first_child /\ w.last_child = u.last_child
        /\ \A m \in Nodes : m # n => /\ w.next[m] = u.next[m]
                                     /\ w.prev[m] = u.prev[m]
                                     /\ w.parent[m] = u.parent[m]
    BY UnlinkStepVsUnlinked
  <1>3. /\ n \in S /\ S \subseteq Nodes
        /\ \A m \in Nodes : t.parent[m] \in S => m \in S
        /\ \A m \in S : m # n => t.parent[m] \in S
    BY SubtreeClosed
  <1>4. v = Freed(w, S)
    OBVIOUS
  <1> HIDE DEF u, w
  <1>5. /\ v.next = Cleared(w.next, S) /\ v.prev = Cleared(w.prev, S)
        /\ v.parent = Cleared(w.parent, S)
        /\ v.first_child = Cleared(w.first_child, S)
        /\ v.last_child = Cleared(w.last_child, S)
    BY <1>4 DEF Freed
  <1>6. \A m \in Nodes :
          /\ v.next[m] = IF m \in S THEN NULL ELSE u.next[m]
          /\ v.prev[m] = IF m \in S THEN NULL ELSE u.prev[m]
          /\ v.parent[m] = IF m \in S THEN NULL ELSE u.parent[m]
          /\ v.first_child[m] = IF m \in S THEN NULL ELSE u.first_child[m]
          /\ v.last_child[m] = IF m \in S THEN NULL ELSE u.last_child[m]
    BY <1>2, <1>3, <1>5 DEF Cleared
  <1>7. v \in Trees
    <2>1. /\ w.next \in [Nodes -> Ptr] /\ w.prev \in [Nodes -> Ptr]
          /\ w.parent \in [Nodes -> Ptr] /\ w.first_child \in [Nodes -> Ptr]
          /\ w.last_child \in [Nodes -> Ptr]
      BY <1>2 DEF Trees
    <2>2. /\ Cleared(w.next, S) \in [Nodes -> Ptr]
          /\ Cleared(w.prev, S) \in [Nodes -> Ptr]
          /\ Cleared(w.parent, S) \in [Nodes -> Ptr]
          /\ Cleared(w.first_child, S) \in [Nodes -> Ptr]
          /\ Cleared(w.last_child, S) \in [Nodes -> Ptr]
      BY <2>1 DEF Cleared, Ptr
    <2> QED BY <1>4, <2>2 DEF Freed, Trees
  <1>8. \A m \in Nodes : u.parent[m] # NULL => (u.parent[m] \in S <=> m \in S)
    BY <1>1, <1>3
  <1>9. Shape(v) /\ Untouched(v, L \ S)
    <2>1. CutOff(u, v, S)
      BY <1>6, <1>8 DEF CutOff
    <2>2. S \in SUBSET Nodes
      BY <1>3
    <2> QED BY <1>1, <1>7, <2>1, <2>2, ClearedShape
  <1>10. \A m \in Nodes : v.parent[m] = IF m \in S THEN NULL ELSE t.parent[m]
    BY <1>1, <1>3, <1>6
  <1> QED BY <1>7, <1>9, <1>10

=============================================================================

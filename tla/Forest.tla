------------------------------- MODULE Forest -------------------------------
(***************************************************************************)
(* What the node operations of src/src/node.c promise, without pointers: a *)
(* forest in which every allocated node has a sequence of children.  This  *)
(* is the tree the header cmark-gfm.h documents; NodeTree implements it.   *)
(***************************************************************************)
EXTENDS Naturals, Sequences, SequencesExt, FiniteSets

CONSTANT Nodes

VARIABLES
    alloc,      \* the allocated nodes
    children    \* children[n]: the children of n, in order

fvars == <<alloc, children>>

\* The forest with n removed from the child list that holds it, if any.
Detached(c, n) == [p \in Nodes |-> RemoveFirst(c[p], n)]

Placed(c, p, i, n) == [c EXCEPT ![p] = InsertAt(@, i, n)]

\* Everything below n, n included.
Below(n) ==
    {m \in alloc : \A S \in SUBSET alloc :
        (n \in S /\ \A k \in S : ToSet(children[k]) \subseteq S) => m \in S}

FInit == alloc = {} /\ children = [n \in Nodes |-> << >>]

Create(n) ==
    /\ n \notin alloc
    /\ alloc' = alloc \union {n}
    /\ UNCHANGED children

\* n becomes a root.
Detach(n) ==
    /\ UNCHANGED alloc
    /\ children' = Detached(children, n)

\* n becomes the i-th child of p, wherever it was before.
Place(p, i, n) ==
    /\ UNCHANGED alloc
    /\ LET c == Detached(children, n)
       IN  i \in 1 .. Len(c[p]) + 1 /\ children' = Placed(c, p, i, n)
    /\ p \notin Below(n)

\* n takes the place of old, which becomes a root.
Substitute(old, n) ==
    /\ UNCHANGED alloc
    /\ old # n
    /\ LET c == Detached(children, n)
       IN  \E p \in alloc :
             /\ \E i \in 1 .. Len(c[p]) :
                  /\ c[p][i] = old
                  /\ children' = [c EXCEPT ![p][i] = n]
             /\ p \notin Below(n)

\* n and everything below it disappear.
Delete(n) ==
    /\ n \notin alloc'
    /\ LET gone == Below(n)
           c == Detached(children, n)
       IN  /\ alloc' = alloc \ gone
           /\ children' = [p \in Nodes |-> IF p \in gone THEN << >> ELSE c[p]]

FNext ==
    \/ \E n \in Nodes : Create(n)
    \/ \E n \in alloc : Detach(n) \/ Delete(n)
    \/ \E p, n \in alloc : \E i \in 1 .. Len(children[p]) + 1 : Place(p, i, n)
    \/ \E old, n \in alloc : Substitute(old, n)

FSpec == FInit /\ [][FNext]_fvars

=============================================================================

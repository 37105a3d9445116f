------------------------------ MODULE Iterator ------------------------------
(***************************************************************************)
(* The tree iterator of src/src/iterator.c.  cmark_iter_next returns the   *)
(* event it computed on the previous call and computes one ahead, so the   *)
(* iterator holds a pointer into a tree that its client may change.        *)
(*                                                                         *)
(* Two clients are modelled.  The general one makes, between two calls,    *)
(* the changes cmark-gfm.h:286 allows (after an EXIT event, or an ENTER    *)
(* event for a leaf) and the two that the library itself makes after ENTER *)
(* (process_inlines in blocks.c, cmark_render in render.c).  The other one *)
(* is cmark_consolidate_text_nodes.  A node is freed step by step, by the  *)
(* loop of NodeFree; nothing else happens until that is done.              *)
(***************************************************************************)
EXTENDS NodeFree, Sequences, SequencesExt

CONSTANTS
    Size,      \* the number of nodes of the document
    Changes    \* how many changes the client makes in all

ASSUME IteratorAssumption ==
    /\ NULL \notin Nodes
    /\ Size \in Nat \ {0} /\ 1 .. Size \subseteq Nodes
    /\ Changes \in Nat

VARIABLES
    client,    \* who walks: "general" or "consolidate"
    kind,      \* "text" (a leaf) or "container"
    literal,   \* the text of a text node, as a sequence
    root,      \* iter->root
    cur, next, \* iter->cur, iter->next: records of an event type and a node
    asserted,  \* cmark_iter_next reached its assert(false)
    entered, exited,   \* the nodes the client has seen events for
    gone,      \* the client has removed the current node from the tree
    budget,    \* changes the client may still make
    tmp        \* the node cmark_consolidate_text_nodes merges next

walk == <<cur, next, asserted, entered, exited, gone>>

vars == <<tree, live, e, call, client, kind, literal, root, walk, budget, tmp>>

State(ev, n) == [ev |-> ev, node |-> n]

S_is_leaf(n) == kind[n] = "text"

\* A document: text nodes have no children, the root has no siblings.
Init ==
    /\ client \in {"general", "consolidate"}
    /\ e = NULL /\ call = NoCall
    /\ tree \in TreesOfSize(Size)
    /\ kind \in {k \in [Nodes -> {"text", "container"}] :
         /\ \A n \in 1 .. Size : tree.first_child[n] # NULL => k[n] = "container"
         /\ \A n \in Nodes \ (1 .. Size) : k[n] = "container"}
    /\ literal = [n \in Nodes |-> IF kind[n] = "text" THEN <<n>> ELSE << >>]
    /\ live = 1 .. Size
    /\ root = 1
    \* cmark_iter_new
    /\ cur = State("NONE", NULL)
    /\ next = State("ENTER", 1)
    /\ asserted = FALSE
    /\ entered = {} /\ exited = {}
    /\ gone = FALSE
    /\ budget = Changes
    /\ tmp = NULL

-----------------------------------------------------------------------------
(* The iterator.                                                           *)

\* Mutant of Rolled: a leaf gets an EXIT event of its own.
Rolled_LeafExit(ev, n) ==
    IF ev = "ENTER"
    THEN IF tree.first_child[n] = NULL THEN State("EXIT", n)
         ELSE State("ENTER", tree.first_child[n])
    ELSE IF n = root THEN State("DONE", NULL)
    ELSE IF tree.next[n] # NULL THEN State("ENTER", tree.next[n])
    ELSE IF tree.parent[n] # NULL THEN State("EXIT", tree.parent[n])
    ELSE State("DONE", NULL)

\* Mutant of Rolled: the event is not looked at, only the node.
Rolled_AnyEvent(ev, n) ==
    IF ~S_is_leaf(n) /\ tree.first_child[n] # NULL
    THEN State("ENTER", tree.first_child[n])
    ELSE IF n = root THEN State("DONE", NULL)
    ELSE IF tree.next[n] # NULL THEN State("ENTER", tree.next[n])
    ELSE IF tree.parent[n] # NULL THEN State("EXIT", tree.parent[n])
    ELSE State("DONE", NULL)

\* The event after ev on node n.
Rolled(ev, n) ==
    IF ev = "ENTER" /\ ~S_is_leaf(n)
    THEN IF tree.first_child[n] = NULL THEN State("EXIT", n)
         ELSE State("ENTER", tree.first_child[n])
    ELSE IF n = root THEN State("DONE", NULL)
    ELSE IF tree.next[n] # NULL THEN State("ENTER", tree.next[n])
    ELSE IF tree.parent[n] # NULL THEN State("EXIT", tree.parent[n])
    ELSE State("DONE", NULL)

\* Mutant of FallsThrough: the walk is not stopped at the root.
FallsThrough_AtRoot(ev, n) ==
    /\ ~(ev = "ENTER" /\ ~S_is_leaf(n))
    /\ tree.next[n] = NULL /\ tree.parent[n] = NULL

\* Rolled falls through to the branch of assert(false).
FallsThrough(ev, n) ==
    /\ ~(ev = "ENTER" /\ ~S_is_leaf(n))
    /\ n # root /\ tree.next[n] = NULL /\ tree.parent[n] = NULL

\* cmark_iter_next with the pending event s.
Advance(s) ==
    /\ cur' = s
    /\ next' = IF s.ev = "DONE" THEN s ELSE Rolled(s.ev, s.node)
    /\ asserted' = (asserted \/ (s.ev # "DONE" /\ FallsThrough(s.ev, s.node)))

cmark_iter_next == Advance(next)

\* The client's loop: it asks for the next event and sees it.
Step ==
    /\ client = "general" /\ e = NULL
    /\ cur.ev # "DONE"
    /\ cmark_iter_next
    /\ entered' = IF next.ev = "ENTER" THEN entered \union {next.node} ELSE entered
    /\ exited' = IF next.ev = "EXIT" THEN exited \union {next.node} ELSE exited
    /\ gone' = FALSE
    /\ UNCHANGED <<fvars, client, kind, literal, root, budget, tmp>>

\* cmark_iter_reset(iter, current, event_type)
cmark_iter_reset(n, ev) == Advance(State(ev, n))

-----------------------------------------------------------------------------
(* The general client.                                                     *)

\* The client makes one more change, on a node it has not removed.
Change ==
    /\ client = "general" /\ e = NULL /\ ~gone
    /\ budget > 0 /\ budget' = budget - 1

\* The client may change cur.node now.
MayModify ==
    \/ cur.ev = "EXIT"
    \/ cur.ev = "ENTER" /\ S_is_leaf(cur.node)

\* New nodes take addresses that no node of the document had.
Fresh == Nodes \ (live \union 1 .. Size)

\* n is made a new text node.
NewText(n) ==
    /\ kind' = [kind EXCEPT ![n] = "text"]
    /\ literal' = [literal EXCEPT ![n] = <<n>>]

FreeCur ==
    /\ Change /\ MayModify
    /\ cmark_node_free(tree, live, cur.node)
    /\ gone' = TRUE
    /\ UNCHANGED <<client, kind, literal, root, cur, next, asserted, entered,
                   exited, tmp>>

UnlinkCur ==
    /\ Change /\ MayModify
    /\ tree' = Unlinked(tree, cur.node)
    /\ gone' = TRUE
    /\ UNCHANGED <<live, e, call, client, kind, literal, root, cur, next, asserted,
                   entered, exited, tmp>>

\* As process_footnotes turns an unresolved reference into text: a new node
\* takes the place of the current one, which is freed.
ReplaceCur ==
    /\ Change /\ MayModify
    /\ tree.parent[cur.node] # NULL
    /\ \E n \in Fresh :
         /\ NewText(n)
         /\ cmark_node_free(InsertedAfter(tree, cur.node, n), live \union {n}, cur.node)
    /\ gone' = TRUE
    /\ UNCHANGED <<client, root, cur, next, asserted, entered, exited, tmp>>

\* As process_inlines does on entering a block: children are appended to a
\* container that has none.
FillCur ==
    /\ Change
    /\ cur.ev = "ENTER" /\ ~S_is_leaf(cur.node)
    /\ tree.first_child[cur.node] = NULL
    /\ \E n \in Fresh :
         /\ NewText(n)
         /\ live' = live \union {n}
         /\ tree' = Appended(tree, cur.node, n)
    /\ UNCHANGED <<e, call, client, root, walk, tmp>>

\* As cmark_render does when a renderer asks to skip a node's contents.
SkipCur ==
    /\ Change
    /\ cur.ev = "ENTER"
    /\ cmark_iter_reset(cur.node, "EXIT")
    /\ exited' = exited \union {cur.node}
    /\ UNCHANGED <<fvars, client, kind, literal, root, entered, gone, tmp>>

-----------------------------------------------------------------------------
(* cmark_consolidate_text_nodes.                                           *)

IsText(n) == n # NULL /\ kind[n] = "text"

\* The outer loop, up to a text node that is followed by text.
ConsolidateStep ==
    /\ client = "consolidate" /\ e = NULL
    /\ tmp = NULL
    /\ cur.ev # "DONE"
    /\ cmark_iter_next
    /\ tmp' = IF /\ next.ev = "ENTER" /\ IsText(next.node)
                 /\ IsText(tree.next[next.node])
              THEN tree.next[next.node] ELSE NULL
    /\ UNCHANGED <<fvars, client, kind, literal, root, entered, exited, gone, budget>>

\* Mutant of PastMerged: the iterator is not advanced past tmp.
PastMerged_Not == UNCHANGED <<cur, next, asserted>>

\* The iterator is advanced past tmp before tmp is freed.
PastMerged == cmark_iter_next

\* Mutant of MergedText: the text is put in front.
MergedText_InFront(n, m) == [literal EXCEPT ![n] = literal[m] \o @]

\* The text of m is appended to that of n.
MergedText(n, m) == [literal EXCEPT ![n] = @ \o literal[m]]

\* The inner loop goes on with the node after tmp if it is text.
MergeNext == IF IsText(tree.next[tmp]) THEN tree.next[tmp] ELSE NULL

\* The inner loop: advance past tmp, append its text to the node before it,
\* free it.
ConsolidateMerge ==
    /\ e = NULL /\ tmp # NULL
    /\ PastMerged
    /\ literal' = MergedText(tree.prev[tmp], tmp)
    /\ cmark_node_free(tree, live, tmp)
    /\ tmp' = MergeNext
    /\ UNCHANGED <<client, kind, root, entered, exited, gone, budget>>

-----------------------------------------------------------------------------

FreeStep ==
    /\ S_free_nodes
    /\ UNCHANGED <<client, kind, literal, root, walk, budget, tmp>>

WalkDone == cur.ev = "DONE" /\ tmp = NULL /\ e = NULL

Finished == WalkDone /\ UNCHANGED vars

Next ==
    \/ Step \/ FreeCur \/ UnlinkCur \/ ReplaceCur \/ FillCur \/ SkipCur
    \/ ConsolidateStep \/ ConsolidateMerge
    \/ FreeStep \/ Finished

\* One thread: the client goes on with its loop, and a call runs to its end.
Spec ==
    /\ Init /\ [][Next]_vars
    /\ WF_vars(Step) /\ WF_vars(FreeStep)
    /\ WF_vars(ConsolidateStep) /\ WF_vars(ConsolidateMerge)

-----------------------------------------------------------------------------
(* Properties.                                                             *)

\* The event computed ahead is on a node that still exists, whatever allowed
\* change the client made since it was computed, and the walk never falls off
\* the tree before it is back at the root: the branch of cmark_iter_next marked
\* assert(false) is not taken.
NextIsLive == ~asserted /\ (next.node # NULL => next.node \in live)

\* No node is entered twice or left twice, and a container is left only after
\* everything still below it has been seen: EXIT is the event on which a client
\* may free or rewrite the subtree (cmark_iter_next).
Seen(m) == \/ S_is_leaf(m) /\ m \in entered
           \/ \E k \in exited : m \in Subtree(tree, k)
EventsNest ==
    [][Step =>
         /\ next.ev = "ENTER" => next.node \notin entered
         /\ next.ev = "EXIT" =>
              /\ next.node \notin exited
              /\ \A m \in (Subtree(tree, next.node) \ {next.node}) \intersect 1 .. Size : Seen(m)]_vars

\* The walk reaches DONE and the loop of S_free_nodes ends, whatever the client
\* changes on the way.
WalkEnds == <>WalkDone

\* The text of a node's children, in order.
ChildSeq(t, p) ==
    LET chain[i \in 1 .. Cardinality(Nodes)] ==
            IF i = 1 THEN t.first_child[p]
            ELSE IF chain[i - 1] = NULL THEN NULL ELSE t.next[chain[i - 1]]
    IN  SelectSeq(chain, LAMBDA m : m # NULL)
TextBelow(t, lit, p) == FlattenSeq([i \in 1 .. Len(ChildSeq(t, p)) |->
                                      lit[ChildSeq(t, p)[i]]])

\* Consolidation loses, duplicates and reorders no text: below every node the
\* children spell the same text before and after every step
\* (cmark_consolidate_text_nodes).
TextPreserved ==
    [][client = "consolidate" => \A p \in live' :
         TextBelow(tree', literal', p) = TextBelow(tree, literal, p)]_vars
=============================================================================

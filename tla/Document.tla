------------------------------ MODULE Document ------------------------------
(***************************************************************************)
(* The tree that the parser hands to the renderers, the order in which     *)
(* cmark_iter walks it, and process_footnotes (blocks.c), the last change  *)
(* that the parser makes to it. A tree is a function from the numbers of   *)
(* its nodes to their records; the document is node 1. Text is a sequence  *)
(* of characters. The iterator itself, with trees that change under it, is *)
(* module Iterator.                                                        *)
(***************************************************************************)
EXTENDS Integers, SequencesExt
Sc == INSTANCE Scanners

DigitChars == <<"0", "1", "2", "3", "4", "5", "6", "7", "8", "9">>
IsDigit(c) == Contains(DigitChars, c)
RECURSIVE Number(_)                      \* the digits of n
Number(n) == (IF n < 10 THEN <<>> ELSE Number(n \div 10)) \o <<DigitChars[(n % 10) + 1]>>

\* lit: the literal, label, url or attributes; num: the start of a list (0 for
\* a bullet list), the level of a heading, the columns of a table, 1 for an item
\* of the task list extension; flag: a tight list, a header row, a checked task.
Node(type) == [type |-> type, lit |-> <<>>, title |-> <<>>, num |-> 0, flag |-> FALSE,
               colspan |-> 1, rowspan |-> 1, parent |-> 0, kids |-> <<>>,
               def |-> 0, ref_ix |-> 0, def_count |-> 0]

Leaf == {"html_block", "thematic_break", "code_block", "text", "softbreak", "linebreak",
         "code", "html_inline"}
InlineHolder == {"paragraph", "heading", "emph", "strong", "link", "image", "attribute",
                 "strikethrough", "table_cell"}
BlockHolder == {"document", "block_quote", "item", "footnote_definition"}
InlineType == {"text", "softbreak", "linebreak", "code", "html_inline", "emph", "strong", "link",
               "image", "attribute", "strikethrough", "footnote_reference", "custom_inline"}
\* What can_contain of the node types allows.
CanContain(type, child) ==
    \/ type \in BlockHolder
       /\ child \notin InlineType \cup {"document", "item", "table_row", "table_cell"}
    \/ type = "list" /\ child = "item"
    \/ type \in InlineHolder /\ child \in InlineType
    \/ <<type, child>> \in {<<"table", "table_row">>, <<"table_row", "table_cell">>}

Index(x, s) == SelectInSeq(s, LAMBDA y : y = x)
Kids(t, n) == t[n].kids
Place(t, n) == Index(n, Kids(t, t[n].parent))
HasPrev(t, n) == t[n].parent # 0 /\ Place(t, n) > 1
HasNext(t, n) == t[n].parent # 0 /\ Place(t, n) < Len(Kids(t, t[n].parent))
NextSibling(t, n) == Kids(t, t[n].parent)[Place(t, n) + 1]
ParentType(t, n) == IF t[n].parent = 0 THEN "none" ELSE t[t[n].parent].type
GrandparentType(t, n) == IF ParentType(t, n) = "none" THEN "none" ELSE ParentType(t, t[n].parent)
\* grandparent->as.list.tight, for a node in an item
InTight(t, n) == t[t[t[n].parent].parent].flag

Done == [n |-> 0, ev |-> "done"]
Event(n, ev) == [n |-> n, ev |-> ev]
\* cmark_iter_next: a leaf has no EXIT.
NextEvent(t, e) ==
    IF e.ev = "enter" /\ t[e.n].type \notin Leaf
    THEN IF Kids(t, e.n) = <<>> THEN Event(e.n, "exit") ELSE Event(Kids(t, e.n)[1], "enter")
    ELSE IF e.n = 1 THEN Done
    ELSE IF HasNext(t, e.n) THEN Event(NextSibling(t, e.n), "enter")
    ELSE Event(t[e.n].parent, "exit")

\* The nodes of the subtrees of the nodes in s, in the order of their ENTER and of
\* their EXIT events
RECURSIVE EnterOrder(_, _), ExitOrder(_, _)
EnterOrder(t, s) == IF s = <<>> THEN <<>>
                    ELSE <<Head(s)>> \o EnterOrder(t, Kids(t, Head(s)) \o Tail(s))
ExitOrder(t, s) == IF s = <<>> THEN <<>>
                   ELSE ExitOrder(t, Kids(t, Head(s))) \o <<Head(s)>> \o ExitOrder(t, Tail(s))
Preorder(t, n) == EnterOrder(t, <<n>>)

Unlink(t, n) ==
    IF t[n].parent = 0 THEN t
    ELSE [t EXCEPT ![t[n].parent].kids = SelectSeq(@, LAMBDA m : m # n), ![n].parent = 0]
AppendChild(t, n) == LET u == Unlink(t, n)
                     IN  [u EXCEPT ![1].kids = Append(@, n), ![n].parent = 1]

-----------------------------------------------------------------------------
(* Footnotes. The map keeps the definitions in the order of their EXIT     *)
(* events, and finds the first one with a label.                           *)
Definitions(t) == SelectSeq(ExitOrder(t, <<1>>), LAMBDA n : t[n].type = "footnote_definition")
References(t) == SelectSeq(Preorder(t, 1), LAMBDA n : t[n].type = "footnote_reference")
Lookup(t, label) ==
    LET same == SelectSeq(Definitions(t), LAMBDA d : t[d].lit = label)
    IN  IF same = <<>> THEN 0 ELSE same[1]

\* The definitions that have references, in the order of their first ones: ix
\* is the place in this sequence.
Used(t) ==
    FoldLeft(LAMBDA s, r : LET d == Lookup(t, t[r].lit)
                           IN  IF d = 0 \/ Contains(s, d) THEN s ELSE Append(s, d),
             <<>>, References(t))

Resolved(t, refs, k) ==
    LET ref == t[refs[k]]
        d == Lookup(t, ref.lit)
    IN  IF d = 0
        THEN [ref EXCEPT !.type = "text", !.lit = <<"[", "^">> \o @ \o <<"]">>]
        ELSE [ref EXCEPT !.def = d, !.lit = Number(Index(d, Used(t))),
                         !.ref_ix = Cardinality({j \in 1..k : t[refs[j]].lit = ref.lit})]

\* Mutant: only a definition whose label has no reference is dropped.
process_footnotes_Shadowed(t) ==
    LET refs == References(t)
        used == Used(t)
        marked == [n \in DOMAIN t |->
                     IF Contains(refs, n) THEN Resolved(t, refs, Index(n, refs))
                     ELSE [t[n] EXCEPT !.def_count =
                             Cardinality({k \in DOMAIN refs : Lookup(t, t[refs[k]].lit) = n})]]
        unused == SelectSeq(Definitions(t), LAMBDA d : ~Contains(used, Lookup(t, t[d].lit)))
        moved == FoldLeft(AppendChild, FoldLeft(Unlink, marked, unused), used)
        live == ToSet(Preorder(moved, 1))
    IN  [n \in live |-> moved[n]]
\* Every definition is unlinked, the used ones are appended to the document
\* again by their ix, and what is then outside the tree is freed.
process_footnotes(t) ==
    LET refs == References(t)
        used == Used(t)
        marked == [n \in DOMAIN t |->
                     IF Contains(refs, n) THEN Resolved(t, refs, Index(n, refs))
                     ELSE [t[n] EXCEPT !.def_count =
                             Cardinality({k \in DOMAIN refs : Lookup(t, t[refs[k]].lit) = n})]]
        unused == SelectSeq(Definitions(t), LAMBDA d : ~Contains(used, d))
        moved == FoldLeft(AppendChild, FoldLeft(Unlink, marked, unused), used)
        live == ToSet(Preorder(moved, 1))
    IN  [n \in live |-> moved[n]]
=============================================================================

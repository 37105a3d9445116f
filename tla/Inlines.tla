------------------------------ MODULE Inlines -------------------------------
(***************************************************************************)
(* The inline parser of src/src/inlines.c from the level of its tokens up: *)
(* the delimiter stack, the bracket stack, and the list of inline nodes    *)
(* they point into, through parse_inline, handle_close_bracket,            *)
(* process_emphasis, S_insert_emph, and insert of the strikethrough        *)
(* extension.                                                              *)
(*                                                                         *)
(* A token is a run of delimiters, a bracket or a text.  What the scanners *)
(* find around it (whether a run is flanking, whether a link destination   *)
(* follows a bracket) is part of the token.  The text node made for token  *)
(* number i is node i, and i is its position, as the positions of the code *)
(* are only compared.  Nodes that group others have numbers above          *)
(* MaxTokens, 0 is the paragraph.                                          *)
(***************************************************************************)
EXTENDS Integers, Sequences, FiniteSets, SequencesExt, TLC

CONSTANTS
    Documents,   \* the inputs: records of a set of tokens, and of how many
    NULL

\* A run of len characters, a bracket, a closing bracket with what follows it,
\* or a text; "caret" is a text that starts with ^ (and has more than that).
Run(c, len, open, close) == [t |-> "run", c |-> c, len |-> len, open |-> open, close |-> close]
Bracket(type) == [t |-> "[", type |-> type]
Close(follows) == [t |-> "]", follows |-> follows]
Text(caret) == [t |-> "text", caret |-> caret]

ASSUME InlinesAssumption ==
    \A d \in Documents :
        /\ d.max \in Nat
        /\ \A tok \in d.of : tok.t \in {"run", "[", "]", "text"}

MaxTokens == Max({d.max : d \in Documents})

VARIABLES
    input,           \* the tokens parsed
    delims,          \* the delimiter stack, bottom first
    brackets,        \* the bracket stack: records of a position and bracket_after
    no_link_openers,
    kids,            \* the children of each node that has any
    kind,            \* what the grouping nodes are
    size,            \* as.literal.len of the text nodes of runs
    pe,              \* the active call of process_emphasis
    done

vars == <<input, delims, brackets, no_link_openers, kids, kind, size, pe, done>>

Para == 0

\* No call: the locals of process_emphasis, and what its caller does next.
Idle == [on |-> FALSE, bottom |-> 0, closer |-> NULL, openers_bottom |-> << >>,
         then |-> "none", group |-> Para]

Init ==
    /\ input = << >>
    /\ delims = << >> /\ brackets = << >> /\ no_link_openers = FALSE
    /\ kids = Para :> << >>
    /\ kind = << >>
    /\ size = << >>
    /\ pe = Idle
    /\ done = FALSE

-----------------------------------------------------------------------------
(* The tree *)

\* The list a node is in.
ListOf(n) == CHOOSE p \in DOMAIN kids : Contains(kids[p], n)

IndexOf(s, n) == CHOOSE i \in 1 .. Len(s) : s[i] = n

\* The siblings after n, up to upto (or all of them, if upto is not one).
Between(n, upto) ==
    LET s == kids[ListOf(n)]
        rest == SubSeq(s, IndexOf(s, n) + 1, Len(s))
    IN  IF Contains(rest, upto) THEN SubSeq(rest, 1, IndexOf(rest, upto) - 1) ELSE rest

Without(s, S) == SelectSeq(s, LAMBDA n : n \notin S)

\* A node number that is not in use.
NewNode == MaxTokens + Cardinality(DOMAIN kind) + 1

\* The nodes of S are taken out of the list of node n, and g put after n.
Grouped(n, g, S) ==
    LET p == ListOf(n)
        s == Without(kids[p], S)
    IN  (g :> SelectSeq(kids[p], LAMBDA m : m \in S))
          @@ (p :> InsertAt(s, IndexOf(s, n) + 1, g)) @@ kids

\* The nodes of S and what they hold are freed.
FreedFrom(k, S) == [p \in DOMAIN k |-> Without(k[p], S)]

LastOf(s) == s[Len(s)]

-----------------------------------------------------------------------------
(* parse_inline: tokens that only add a node *)

\* The number of the next token.
here == Len(input) + 1

Ready(tok) ==
    /\ ~pe.on /\ ~done
    /\ \E d \in Documents : Len(input) < d.max /\ ToSet(input) \cup {tok} \subseteq d.of

\* append_child(parent, new_inl)
AppendText(k) == [k EXCEPT ![Para] = Append(@, here)]

handle_text(tok) ==
    /\ Ready(tok) /\ tok.t = "text"
    \* "![" is only taken for an image when no ^ follows
    /\ ~(tok.caret /\ input # << >> /\ LastOf(input) = Bracket("IMAGE"))
    /\ input' = Append(input, tok)
    /\ size' = Append(size, 0)
    /\ kids' = AppendText(kids)
    /\ UNCHANGED <<delims, brackets, no_link_openers, kind, pe, done>>

\* handle_delim and push_delimiter, match of the strikethrough extension.
handle_delim(tok) ==
    /\ Ready(tok) /\ tok.t = "run"
    /\ input' = Append(input, tok)
    /\ size' = Append(size, tok.len)
    /\ kids' = AppendText(kids)
    /\ delims' = IF tok.open \/ tok.close THEN Append(delims, here) ELSE delims
    /\ UNCHANGED <<brackets, no_link_openers, kind, pe, done>>

\* push_bracket on the stack bs.
Pushed(bs) ==
    Append(IF bs = << >> THEN bs ELSE [bs EXCEPT ![Len(bs)].bracket_after = TRUE],
           [pos |-> here, bracket_after |-> FALSE])

push_bracket(tok) ==
    /\ Ready(tok) /\ tok.t = "["
    /\ input' = Append(input, tok)
    /\ size' = Append(size, 0)
    /\ kids' = AppendText(kids)
    /\ brackets' = Pushed(brackets)
    /\ no_link_openers' = IF tok.type # "IMAGE" THEN FALSE ELSE no_link_openers
    /\ UNCHANGED <<delims, kind, pe, done>>

-----------------------------------------------------------------------------
(* process_emphasis: the call *)

Chars == {"*", "~", "q"}

\* The first statements: openers_bottom, and the first delimiter from bottom on.
Call(bottom, then, group) ==
    LET ds == SelectSeq(delims, LAMBDA d : d >= bottom)
    IN  pe' = [on |-> TRUE, bottom |-> bottom,
               closer |-> IF ds = << >> THEN NULL ELSE Head(ds),
               \* memset, then stack_bottom for the built-in delimiters
               openers_bottom |-> [l \in 0 .. 2, c \in Chars |-> IF c = "~" THEN 0 ELSE bottom],
               then |-> then, group |-> group]

-----------------------------------------------------------------------------
(* handle_close_bracket *)

opener == LastOf(brackets)
OpenerType == input[opener.pos].type

\* A literal "]".
LiteralClose(tok) ==
    /\ input' = Append(input, tok)
    /\ size' = Append(size, 0)
    /\ kids' = AppendText(kids)
    /\ UNCHANGED <<delims, no_link_openers, kind, pe, done>>

CloseUnopened(tok) ==
    /\ Ready(tok) /\ tok.t = "]" /\ brackets = << >>
    /\ LiteralClose(tok)
    /\ UNCHANGED brackets

\* A link would be inside which there is a link.
Refused == OpenerType = "LINK" /\ no_link_openers

\* What follows makes it a link or an image.  The text of a shortcut reference
\* has no bracket in it.
MatchesLink(tok) ==
    \/ tok.follows \in {"inline", "reference"}
    \/ tok.follows = "shortcut" /\ ~opener.bracket_after

\* handle_close_bracket_attribute: attributes or a label must follow.
MatchesAttribute(tok) == tok.follows \in {"inline", "reference"}

Matches(tok) == IF OpenerType = "ATTRIBUTE" THEN MatchesAttribute(tok) ELSE MatchesLink(tok)

AfterOpener == Between(opener.pos, NULL)

\* The test at noMatch: a text that starts with ^ comes right after the bracket.
IsFootnote ==
    /\ OpenerType # "ATTRIBUTE"
    /\ AfterOpener # << >>
    /\ LET next == Head(AfterOpener)
       IN  next <= MaxTokens /\ input[next].t = "text" /\ input[next].caret

CloseNoMatch(tok) ==
    /\ Ready(tok) /\ tok.t = "]" /\ brackets # << >>
    /\ Refused \/ (~Matches(tok) /\ ~IsFootnote)
    /\ LiteralClose(tok)
    /\ brackets' = Front(brackets)

\* The part of match up to process_emphasis: the new node takes the place of the
\* bracket and the nodes after it.
CloseMatch(tok) ==
    /\ Ready(tok) /\ tok.t = "]" /\ brackets # << >>
    /\ ~Refused /\ Matches(tok)
    /\ kids' = FreedFrom(Grouped(opener.pos, NewNode, ToSet(AfterOpener)), {opener.pos})
    /\ kind' = NewNode :> OpenerType @@ kind
    /\ input' = Append(input, tok)
    /\ size' = Append(size, 0)
    /\ Call(opener.pos, "group", NewNode)
    /\ UNCHANGED <<delims, brackets, no_link_openers, done>>

\* The footnote reference is put before the bracket.
CloseFootnote(tok) ==
    /\ Ready(tok) /\ tok.t = "]" /\ brackets # << >>
    /\ ~Refused /\ ~Matches(tok) /\ IsFootnote
    /\ LET s == kids[Para]
       IN  kids' = [kids EXCEPT ![Para] = InsertAt(s, IndexOf(s, opener.pos), NewNode)]
    /\ kind' = NewNode :> "FOOTNOTE_REFERENCE" @@ kind
    /\ input' = Append(input, tok)
    /\ size' = Append(size, 0)
    /\ Call(opener.pos, "footnote", NewNode)
    /\ UNCHANGED <<delims, brackets, no_link_openers, done>>

\* The end of the input: process_emphasis(parser, &subj, 0).
EndOfInput ==
    /\ ~pe.on /\ ~done
    /\ Call(0, "end", Para)
    /\ UNCHANGED <<input, delims, brackets, no_link_openers, kids, kind, size, done>>

-----------------------------------------------------------------------------
(* process_emphasis: the loop *)

InLoop == pe.on /\ pe.closer # NULL

\* Mutant of NextDelim: a delimiter that may open is tried again.
NextDelim_Again(d) ==
    LET after == SelectSeq(delims, LAMBDA e : e > d)
    IN  IF input[d].open THEN d ELSE IF after = << >> THEN NULL ELSE Head(after)

\* d->next
NextDelim(d) ==
    LET after == SelectSeq(delims, LAMBDA e : e > d)
    IN  IF after = << >> THEN NULL ELSE Head(after)

\* Two runs that may be an opener and a closer: the rule of three.
MayMatch(o, c) ==
    /\ input[o].open /\ input[o].c = input[c].c
    /\ \/ ~(input[c].open \/ input[o].close)
       \/ input[c].len % 3 = 0
       \/ (input[o].len + input[c].len) % 3 # 0

\* Mutant of Openers: the search is only bounded by openers_bottom.
Openers_BeyondBottom ==
    {o \in ToSet(delims) :
        /\ o < pe.closer
        /\ o >= pe.openers_bottom[input[pe.closer].len % 3, input[pe.closer].c]
        /\ MayMatch(o, pe.closer)}

\* What the search for an opener may find; it takes the nearest.
Openers ==
    {o \in ToSet(delims) :
        /\ o < pe.closer
        /\ o >= pe.bottom
        /\ o >= pe.openers_bottom[input[pe.closer].len % 3, input[pe.closer].c]
        /\ MayMatch(o, pe.closer)}

Opener == CHOOSE o \in Openers : \A p \in Openers : p <= o

\* Mutant of DelimsBetween: the delimiters inside new emphasis stay on the stack.
DelimsBetween_None(o, c) == {}

DelimsBetween(o, c) == {d \in ToSet(delims) : o < d /\ d < c}

SkipOpener ==
    /\ InLoop /\ ~input[pe.closer].close
    /\ pe' = [pe EXCEPT !.closer = NextDelim(pe.closer)]
    /\ UNCHANGED <<input, delims, brackets, no_link_openers, kids, kind, size, done>>

\* Mutant of NoOpener: the bound is one for all kinds of closers.
NoOpener_AllKinds ==
    /\ InLoop /\ input[pe.closer].close /\ Openers = {}
    /\ LET c == pe.closer IN
         /\ pe' = [pe EXCEPT !.closer = NextDelim(c),
                             !.openers_bottom = [l \in 0 .. 2, ch \in Chars |-> c]]
         /\ delims' = IF input[c].open THEN delims ELSE Without(delims, {c})
    /\ UNCHANGED <<input, brackets, no_link_openers, kids, kind, size, done>>

\* The bound for later searches is the closer, which may still be an opener.
NoOpener ==
    /\ InLoop /\ input[pe.closer].close /\ Openers = {}
    /\ LET c == pe.closer IN
         /\ pe' = [pe EXCEPT !.closer = NextDelim(c),
                             !.openers_bottom[input[c].len % 3, input[c].c] = c]
         /\ delims' = IF input[c].open THEN delims ELSE Without(delims, {c})
    /\ UNCHANGED <<input, brackets, no_link_openers, kids, kind, size, done>>

\* Mutant of UseDelims: strong needs two characters of the closer only.
UseDelims_CloserOnly(o, c) == IF size[c] >= 2 THEN 2 ELSE 1

UseDelims(o, c) == IF size[c] >= 2 /\ size[o] >= 2 THEN 2 ELSE 1

S_insert_emph ==
    /\ InLoop /\ input[pe.closer].close /\ Openers # {} /\ input[pe.closer].c = "*"
    /\ LET c == pe.closer
           o == Opener
           used == UseDelims(o, c)
           empty == {d \in {o, c} : size[d] = used}
       IN  /\ size' = [size EXCEPT ![o] = @ - used, ![c] = @ - used]
           /\ kids' = FreedFrom(Grouped(o, NewNode, ToSet(Between(o, c))), empty)
           /\ kind' = NewNode :> (IF used = 1 THEN "EMPH" ELSE "STRONG") @@ kind
           /\ delims' = Without(delims, DelimsBetween(o, c) \cup empty)
           /\ pe' = [pe EXCEPT !.closer = IF c \in empty THEN NextDelim(c) ELSE c]
    /\ UNCHANGED <<input, brackets, no_link_openers, done>>

\* Smart quotes: the two literals change and the delimiters go.
MatchQuote ==
    /\ InLoop /\ input[pe.closer].close /\ Openers # {} /\ input[pe.closer].c = "q"
    /\ pe' = [pe EXCEPT !.closer = NextDelim(pe.closer)]
    /\ delims' = Without(delims, {Opener, pe.closer})
    /\ UNCHANGED <<input, brackets, no_link_openers, kids, kind, size, done>>

\* insert of strikethrough.c: the opener's node becomes the strikethrough, unless
\* the runs are of different lengths.
InsertStrikethrough ==
    /\ InLoop /\ input[pe.closer].close /\ Openers # {} /\ input[pe.closer].c = "~"
    /\ LET c == pe.closer
           o == Opener
           S == ToSet(Between(o, c))
       IN  /\ IF size[o] = size[c]
              THEN /\ kids' = FreedFrom(o :> Between(o, c) @@
                                 [p \in DOMAIN kids |-> Without(kids[p], S)], {c})
                   /\ kind' = o :> "STRIKETHROUGH" @@ kind
              ELSE UNCHANGED <<kids, kind>>
           /\ delims' = Without(delims, DelimsBetween(o, c) \cup {o, c})
           /\ pe' = [pe EXCEPT !.closer = NextDelim(c)]
    /\ UNCHANGED <<input, brackets, no_link_openers, size, done>>

\* The loop is over: the delimiters from bottom on are freed, and the caller
\* goes on: pop_bracket for a link, image or attribute; the nodes after the
\* bracket go for a footnote reference; at the end of the input all is freed.
Finish ==
    /\ pe.on /\ pe.closer = NULL
    /\ delims' = SelectSeq(delims, LAMBDA d : d < pe.bottom)
    /\ pe' = Idle
    /\ CASE pe.then = "group" ->
              /\ no_link_openers' = (no_link_openers \/ OpenerType = "LINK")
              /\ brackets' = Front(brackets)
              /\ UNCHANGED <<kids, done>>
         [] pe.then = "footnote" ->
              /\ kids' = FreedFrom(kids, ToSet(AfterOpener) \cup {opener.pos})
              /\ brackets' = Front(brackets)
              /\ UNCHANGED <<no_link_openers, done>>
         [] pe.then = "end" ->
              /\ brackets' = << >>
              /\ done' = TRUE
              /\ UNCHANGED <<kids, no_link_openers>>
    /\ UNCHANGED <<input, kind, size>>

\* The paragraph is parsed.
Done == done /\ UNCHANGED vars

Process ==
    \/ SkipOpener \/ NoOpener \/ S_insert_emph \/ MatchQuote \/ InsertStrikethrough
    \/ Finish

Next ==
    \/ \E tok \in UNION {d.of : d \in Documents} :
        \/ handle_text(tok) \/ handle_delim(tok) \/ push_bracket(tok)
        \/ CloseUnopened(tok) \/ CloseNoMatch(tok) \/ CloseMatch(tok) \/ CloseFootnote(tok)
    \/ EndOfInput
    \/ Process
    \/ Done

\* process_emphasis runs until it returns.
Spec == Init /\ [][Next]_vars /\ WF_vars(Process)

-----------------------------------------------------------------------------
(* Properties *)

\* The stacks point into the tree as it is: every delimiter and bracket has its
\* node, those that process_emphasis may pair are in one list of siblings in the
\* order of the stack, and the others, with the brackets, in the paragraph's.
\* Were one of them freed or left in another list, S_insert_emph would splice
\* freed memory or the rest of the paragraph.
StacksInTree ==
    LET home == IF pe.on /\ pe.then = "group" THEN pe.group ELSE Para
        inner == SelectSeq(delims, LAMBDA d : pe.on /\ d >= pe.bottom)
        outer == SelectSeq(delims, LAMBDA d : ~(pe.on /\ d >= pe.bottom))
        openers == {b.pos : b \in ToSet(brackets)} \ (IF home = Para THEN {} ELSE {pe.bottom})
        InOrder(s, list) == /\ ToSet(s) \subseteq ToSet(list)
                            /\ SelectSeq(list, LAMBDA m : m \in ToSet(s)) = s
    IN  /\ InOrder(inner, kids[home])
        /\ InOrder(outer, kids[Para])
        \* at the end of the input the brackets are only freed
        /\ pe.then = "end" \/ openers \subseteq ToSet(kids[Para])

\* The leaves below node m, in document order.
RECURSIVE Leaves(_)
Leaves(m) ==
    IF m \in DOMAIN kids
    THEN FoldLeft(LAMBDA acc, k : acc \o Leaves(k), << >>, kids[m])
    ELSE IF m > MaxTokens THEN << >> ELSE <<m>>

IsStar(d) == input[d].t = "run" /\ input[d].c = "*"

Total(S) == FoldSet(LAMBDA d, sum : sum + size[d], 0, S)

\* Every delimiter character that is gone from the text has become one side of
\* emphasis: one of each side for EMPH, two for STRONG, and a run is removed
\* exactly when it is used up (S_insert_emph).  Footnote references free the text
\* between their brackets and are left out.  However nodes are regrouped, the text
\* stays in the order of the source and no piece of it is in two places.
MarkersConserved ==
    LET stars == {d \in 1 .. Len(input) : IsStar(d)}
        made(k) == Cardinality({g \in DOMAIN kind : kind[g] = k})
        leaves == Leaves(Para)
    IN  /\ \A i \in 2 .. Len(leaves) : leaves[i - 1] < leaves[i]
        /\ (\A g \in DOMAIN kind : kind[g] # "FOOTNOTE_REFERENCE") =>
              /\ FoldSet(LAMBDA d, sum : sum + input[d].len, 0, stars)
                   = Total(stars) + 2 * made("EMPH") + 4 * made("STRONG")
              /\ \A d \in stars : d \in ToSet(leaves) <=> size[d] > 0

\* process_emphasis for the text of a link, image, attribute or footnote
\* reference leaves the delimiters before the bracket alone, and no node outside
\* the brackets is moved or changed by it.
BracketsIsolate ==
    [][pe.on /\ pe.bottom > 0 =>
         /\ SelectSeq(delims', LAMBDA d : d < pe.bottom)
              = SelectSeq(delims, LAMBDA d : d < pe.bottom)
         /\ \A d \in 1 .. pe.bottom : size'[d] = size[d]]_vars

\* process_emphasis returns: every iteration uses delimiter characters up or
\* moves the closer on.
EmphasisEnds == pe.on ~> ~pe.on

\* openers_bottom only saves time: when the search it cuts short finds no opener,
\* there is none above stack_bottom.  spec.txt:10202 "We know that there are no
\* openers for this kind of closer up to and including this point, so this puts
\* a lower bound on future searches."
NoOpenerMissed ==
    InLoop /\ input[pe.closer].close /\ Openers = {} =>
        ~\E o \in ToSet(delims) : o >= pe.bottom /\ o < pe.closer /\ MayMatch(o, pe.closer)

\* Where every run is flanking on one side only, as between a word and a space,
\* the rule of three is idle and openers_bottom hides no opener.
NoOneSidedOpenerMissed ==
    (\A i \in 1 .. Len(input) : input[i].t = "run" => input[i].open # input[i].close)
        => NoOpenerMissed
=============================================================================

------------------------------- MODULE Blocks -------------------------------
(***************************************************************************)
(* The block phase of src/src/blocks.c: what S_process_line makes of the   *)
(* lines of a document, through check_open_blocks, open_new_blocks,        *)
(* add_child, add_text_to_container and finalize, to finalize_document.    *)
(*                                                                         *)
(* A line is a prefix of container markers and indentation, and a body.    *)
(* Columns are counted in pairs: "sp" is two spaces, ">", "*" and "+" are  *)
(* markers with the space after them, and "fn" is a footnote label.  Thus  *)
(* four columns, CODE_INDENT, are two steps.  The body is what the         *)
(* scanners find after the prefix.                                         *)
(*                                                                         *)
(* Blocks are numbered as they are made, so children are in the order of   *)
(* their numbers, and the last child is the one with the largest.          *)
(***************************************************************************)
EXTENDS Integers, Sequences, FiniteSets, SequencesExt

CONSTANTS
    Documents,      \* the documents: records of a set of lines, and of how many may be fed
    MAX_LIST_DEPTH

Bodies == {"text", "blank", "def", "fence", "head", "setext", "break",
           "html1", "html6", "html7", "end1"}

Line(pre, body) == [pre |-> pre, body |-> body]

ASSUME BlocksAssumption ==
    /\ MAX_LIST_DEPTH \in Nat
    /\ \A d \in Documents :
         /\ d.max \in Nat
         /\ \A l \in d.of : l.body \in Bodies /\ l.pre \in Seq({"sp", ">", "*", "+", "fn"})

NULL == 0

root == 1

VARIABLES
    lines,           \* the lines so far, bodies and prefixes; line_number is its length
    blocks,          \* the blocks made so far, by number
    refmap,          \* the numbers of the lines that became link reference definitions
    current,         \* parser->current
    pc,
    rest, body,      \* the line from parser->offset on
    container, last_matched,
    depth, maybe_lazy,   \* locals of open_new_blocks
    adding,          \* the blocks add_child is still to make
    asserted         \* an assertion has failed

input == <<rest, body>>
vars == <<lines, blocks, refmap, current, pc, input, container, last_matched, depth,
          maybe_lazy, adding, asserted>>

line_number == Len(lines)

\* make_block, with as much of the union as block structure needs: kind is the
\* list marker or the HTML block type, need the columns of an item's contents.
Block(type) ==
    [type |-> type, parent |-> NULL, open |-> TRUE, start_line |-> line_number,
     last_line_blank |-> FALSE, last_line_checked |-> FALSE, content |-> << >>,
     kind |-> "none", need |-> 0, fenced |-> FALSE, tight |-> FALSE]

Init ==
    /\ lines = << >> /\ blocks = <<[Block("document") EXCEPT !.start_line = 1]>>
    /\ refmap = << >>
    /\ current = root
    /\ pc = "idle"
    /\ rest = << >> /\ body = "blank"
    /\ container = NULL /\ last_matched = NULL
    /\ depth = 0 /\ maybe_lazy = FALSE
    /\ adding = << >>
    /\ asserted = FALSE

-----------------------------------------------------------------------------
(* The line, from parser->offset. *)

\* parser->indent, and what is at parser->first_nonspace.
Indent(r) == SelectInSeq(Append(r, "stop"), LAMBDA x : x # "sp") - 1
indent == Indent(rest)
AtBody == indent = Len(rest)
marker == IF AtBody THEN "none" ELSE rest[indent + 1]
blank == AtBody /\ body = "blank"
indented == indent >= 2
At(b) == ~indented /\ AtBody /\ body = b

\* S_advance_offset by n columns.
Advanced(n) == SubSeq(rest, n + 1, Len(rest))

-----------------------------------------------------------------------------
(* The tree. *)

Children(bs, p) == {b \in 1 .. Len(bs) : bs[b].parent = p /\ bs[b].type # "freed"}
Largest(S) == CHOOSE b \in S : \A c \in S : c <= b
last_child(bs, p) == IF Children(bs, p) = {} THEN NULL ELSE Largest(Children(bs, p))
HasNext(bs, b) == \E c \in Children(bs, bs[b].parent) : c > b

type(b) == blocks[b].type

\* cmark_node_can_contain_type, for block types.
can_contain(ty, child) ==
    IF ty = "list" THEN child = "item"
    ELSE ty \in {"document", "block_quote", "footnote_definition", "item"} /\ child # "item"

accepts_lines(ty) == ty \in {"paragraph", "heading", "code_block"}

\* b and the blocks it is in.
Ancestors(bs, b) ==
    LET up[k \in 0 .. Len(bs)] == IF k = NULL THEN {} ELSE {k} \cup up[bs[k].parent]
    IN  up[b]

-----------------------------------------------------------------------------
(* finalize *)

\* S_ends_with_blank_line looks at the last block below n, through lists and items
\* that were not looked at before.
Descends(bs, n) ==
    /\ ~bs[n].last_line_checked
    /\ bs[n].type \in {"list", "item"} /\ last_child(bs, n) # NULL

LastBelow(bs, n) ==
    LET end[k \in 1 .. Len(bs)] == IF Descends(bs, k) THEN end[last_child(bs, k)] ELSE k
    IN  end[n]

S_ends_with_blank_line(bs, n) == bs[LastBelow(bs, n)].last_line_blank

\* The blocks the loops over items and over their children look at, in the order of
\* their numbers, and those that end the loops.
Examined(bs, list) ==
    LET items == Children(bs, list)
        subitems == UNION {Children(bs, i) : i \in items}
    IN  {i \in items : HasNext(bs, i)}
          \cup {s \in subitems : HasNext(bs, bs[s].parent) \/ HasNext(bs, s)}

Loosens(bs, list, n) ==
    IF n \in Children(bs, list) THEN bs[n].last_line_blank ELSE S_ends_with_blank_line(bs, n)

\* case CMARK_NODE_LIST: the list is tight unless a block examined ends with a blank
\* line; S_ends_with_blank_line leaves its mark on what it looked at.
TightSet(bs, list) ==
    LET loose == {n \in Examined(bs, list) : Loosens(bs, list, n)}
        seen == {n \in Examined(bs, list) \ Children(bs, list) : \A m \in loose : n <= m}
    IN  [b \in 1 .. Len(bs) |->
            CASE b = list -> [bs[b] EXCEPT !.tight = (loose = {})]
              [] \E n \in seen : b \in Ancestors(bs, LastBelow(bs, n)) /\ b >= n ->
                     [bs[b] EXCEPT !.last_line_checked = TRUE]
              [] OTHER -> bs[b]]

\* A line in the content of a block, with the indentation that was kept.
Entry(lead) == [line |-> line_number, lead |-> lead]

LinesIn(content) == [i \in 1 .. Len(content) |-> content[i].line]

IsDefinition(entry) == entry.lead = 0 /\ lines[entry.line].body = "def"

\* How many lines at the start of a paragraph are reference definitions.
Definitions(content) ==
    IF \A i \in DOMAIN content : IsDefinition(content[i]) THEN Len(content)
    ELSE SelectInSeq(content, LAMBDA x : ~IsDefinition(x)) - 1

\* resolve_reference_link_definitions on the content of b.
Resolved(bs, b) ==
    LET n == Definitions(bs[b].content)
    IN  [bs EXCEPT ![b].content = SubSeq(@, n + 1, Len(@))]
ResolvedMap(bs, b) == refmap \o LinesIn(SubSeq(bs[b].content, 1, Definitions(bs[b].content)))

\* Mutant: the last line that is not blank goes too.
Trimmed_OneMore(content) ==
    LET kept == {i \in 1 .. Len(content) : lines[content[i].line].body # "blank"}
    IN  IF kept = {} THEN << >> ELSE SubSeq(content, 1, Largest(kept) - 1)

\* remove_trailing_blank_lines
Trimmed(content) ==
    LET kept == {i \in 1 .. Len(content) : lines[content[i].line].body # "blank"}
    IN  IF kept = {} THEN << >> ELSE SubSeq(content, 1, Largest(kept))

\* What finalize makes of the blocks when it closes b.
Closed(b) ==
    LET bs == [blocks EXCEPT ![b].open = FALSE]
    IN  CASE type(b) = "paragraph" ->
               LET left == Resolved(bs, b)
               IN  IF left[b].content = << >> THEN [left EXCEPT ![b].type = "freed"] ELSE left
          [] type(b) = "code_block" ->
               [bs EXCEPT ![b].content =
                   IF bs[b].fenced THEN SubSeq(@, 2, Len(@)) ELSE Trimmed(@)]
          [] type(b) = "list" -> TightSet(bs, b)
          [] OTHER -> bs

\* finalize(parser, b), with its assertions.
finalize(b) ==
    /\ blocks' = Closed(b)
    /\ refmap' = IF type(b) = "paragraph" THEN ResolvedMap(blocks, b) ELSE refmap
    /\ asserted' = \/ asserted
                   \/ ~blocks[b].open
                   \/ blocks[b].fenced /\ blocks[b].content = << >>

-----------------------------------------------------------------------------
(* check_open_blocks *)

S_process_line(l) ==
    /\ pc = "idle"
    /\ lines' = Append(lines, l)
    /\ \E d \in Documents : Len(lines') <= d.max /\ ToSet(lines') \subseteq d.of
    /\ rest' = l.pre /\ body' = l.body
    /\ container' = root
    /\ pc' = "check"
    /\ UNCHANGED <<blocks, refmap, current, last_matched, depth, maybe_lazy, adding, asserted>>

\* The next block check_open_blocks looks at.
next_open ==
    LET c == last_child(blocks, container)
    IN  IF c # NULL /\ blocks[c].open THEN c ELSE NULL

ClosesFence(c) == blocks[c].fenced /\ At("fence")

\* How many columns of the line match block c, or -1 if it does not match.
Matched(c) ==
    LET b == blocks[c]
    IN  CASE b.type = "block_quote" ->
               IF ~indented /\ marker = ">" THEN indent + 1 ELSE -1
          [] b.type = "item" ->
               IF indent >= b.need THEN b.need
               ELSE IF blank /\ Children(blocks, c) # {} THEN indent ELSE -1
          [] b.type = "code_block" /\ ~b.fenced ->
               IF indented THEN 2 ELSE IF blank THEN indent ELSE -1
          [] b.type = "code_block" /\ b.fenced ->
               IF indent < b.need THEN indent ELSE b.need
          [] b.type = "footnote_definition" ->
               IF indented THEN 2
               ELSE IF lines[line_number] = Line(<< >>, "blank") THEN 0 ELSE -1
          [] b.type = "heading" -> -1
          [] b.type = "paragraph" -> IF blank THEN -1 ELSE 0
          [] b.type = "html_block" -> IF blank /\ b.kind # "html1" THEN -1 ELSE 0
          [] OTHER -> 0

CheckNext ==
    /\ pc = "check" /\ next_open # NULL
    /\ ~ClosesFence(next_open) /\ Matched(next_open) >= 0
    /\ container' = next_open
    /\ rest' = Advanced(Matched(next_open))
    /\ UNCHANGED <<lines, blocks, refmap, current, pc, body, last_matched, depth,
                   maybe_lazy, adding, asserted>>

\* The line does not match, or there is nothing more to match.
CheckDone ==
    /\ pc = "check"
    /\ next_open # NULL => ~ClosesFence(next_open) /\ Matched(next_open) = -1
    /\ last_matched' = container
    /\ depth' = 1
    /\ maybe_lazy' = (type(current) = "paragraph")
    /\ pc' = "open"
    /\ UNCHANGED <<lines, blocks, refmap, current, input, container, adding, asserted>>

\* Mutant: parser->current is left at the block that was closed.
CheckFence_StaleCurrent ==
    /\ pc = "check" /\ next_open # NULL /\ ClosesFence(next_open)
    /\ finalize(next_open)
    /\ pc' = "idle"
    /\ UNCHANGED <<lines, current, input, container, last_matched, depth, maybe_lazy, adding>>

\* A closing fence is all there is to its line.
CheckFence ==
    /\ pc = "check" /\ next_open # NULL /\ ClosesFence(next_open)
    /\ finalize(next_open)
    /\ current' = blocks[next_open].parent
    /\ pc' = "idle"
    /\ UNCHANGED <<lines, input, container, last_matched, depth, maybe_lazy, adding>>

-----------------------------------------------------------------------------
(* open_new_blocks *)

\* parse_list_marker: an empty item does not interrupt a paragraph.
AtListMarker ==
    /\ marker \in {"*", "+"}
    /\ type(container) = "paragraph" =>
         ~(body = "blank" /\ indent + 1 + Indent(Advanced(indent + 1)) = Len(rest))

\* What the line opens in container.  The scanners tell apart what a line starts
\* with, so the order of the tests does not matter.
Opening ==
    IF type(container) \in {"code_block", "html_block"} THEN "none"
    ELSE CASE ~indented /\ marker = ">" -> "block_quote"
           [] At("head") -> "heading"
           [] At("fence") -> "fence"
           [] At("html1") \/ At("html6") -> "html"
           [] At("html7") /\ type(container) # "paragraph" -> "html"
           [] At("setext") /\ type(container) = "paragraph" -> "setext"
           [] At("break") -> "thematic_break"
           [] ~indented /\ depth < MAX_LIST_DEPTH /\ marker = "fn" -> "footnote_definition"
           [] ~indented /\ depth < MAX_LIST_DEPTH /\ AtListMarker -> "list"
           [] indented /\ ~maybe_lazy /\ ~blank -> "code"
           [] OTHER -> "none"

\* add_child is called for each of new, with r and b left of the line.
Open(what, new, r, b) ==
    /\ pc = "open" /\ Opening = what
    /\ adding' = new
    /\ rest' = r /\ body' = b
    /\ pc' = "add"
    /\ UNCHANGED <<lines, blocks, refmap, current, container, last_matched, depth,
                   maybe_lazy, asserted>>

OpenQuote == Open("block_quote", <<Block("block_quote")>>, Advanced(indent + 1), body)

OpenHeading == Open("heading", <<Block("heading")>>, << >>, "text")

OpenFence ==
    Open("fence", <<[Block("code_block") EXCEPT !.fenced = TRUE, !.need = indent]>>,
         << >>, "blank")

\* The tag is part of the text.
OpenHTML == Open("html", <<[Block("html_block") EXCEPT !.kind = body]>>, rest, body)

OpenBreak == Open("thematic_break", <<Block("thematic_break")>>, << >>, "blank")

\* The label takes the spaces after it.
OpenFootnote ==
    LET after == Advanced(indent + 1)
    IN  Open("footnote_definition", <<Block("footnote_definition")>>,
             SubSeq(after, Indent(after) + 1, Len(after)), body)

\* The contents of an item start after the spaces that follow its marker, unless
\* these are too many, or nothing follows them.
OpenList ==
    LET after == Advanced(indent + 1)
        i == IF Indent(after) >= 2 \/ (body = "blank" /\ Indent(after) = Len(after))
             THEN 0 ELSE Indent(after)
        list == [Block("list") EXCEPT !.kind = marker]
        item == [Block("item") EXCEPT !.kind = marker, !.need = indent + 1 + i]
        continues == type(container) = "list" /\ blocks[container].kind = marker
    IN  Open("list", IF continues THEN <<item>> ELSE <<list, item>>,
             SubSeq(after, i + 1, Len(after)), body)

OpenCode == Open("code", <<Block("code_block")>>, Advanced(2), body)

\* A setext heading line: the paragraph becomes a heading, if it is more than
\* definitions.
OpenSetext ==
    /\ pc = "open" /\ Opening = "setext"
    /\ refmap' = ResolvedMap(blocks, container)
    /\ LET bs == Resolved(blocks, container)
           has_content == bs[container].content # << >>
       IN  /\ blocks' = IF has_content THEN [bs EXCEPT ![container].type = "heading"] ELSE bs
           /\ rest' = IF has_content THEN << >> ELSE rest
           /\ body' = IF has_content THEN "blank" ELSE body
    /\ pc' = "text"
    /\ UNCHANGED <<lines, current, container, last_matched, depth, maybe_lazy, adding, asserted>>

OpenNothing ==
    /\ pc = "open" /\ Opening = "none"
    /\ pc' = "text"
    /\ UNCHANGED <<lines, blocks, refmap, current, input, container, last_matched, depth,
                   maybe_lazy, adding, asserted>>

\* What follows the call of add_child for a block of type ty.
AfterChild(ty) ==
    CASE Len(adding) > 1 -> "add"
      [] Len(adding) = 1 /\ ty = "paragraph" -> "idle"
      [] Len(adding) = 1 /\ ty # "paragraph" /\ (accepts_lines(ty) \/ ty = "html_block") -> "text"
      [] OTHER -> "open"

\* Mutant: the loop does not go on with the parent that finalize returns.
BackUp_Stays ==
    /\ pc = "add" /\ ~can_contain(type(container), Head(adding).type)
    /\ finalize(container)
    /\ UNCHANGED <<lines, current, pc, input, container, last_matched, depth, maybe_lazy, adding>>

\* add_child: the loop that backs up to a block that can hold the new one.
BackUp ==
    /\ pc = "add" /\ ~can_contain(type(container), Head(adding).type)
    /\ finalize(container)
    /\ container' = blocks[container].parent
    /\ UNCHANGED <<lines, current, pc, input, last_matched, depth, maybe_lazy, adding>>

add_child ==
    /\ pc = "add" /\ can_contain(type(container), Head(adding).type)
    /\ blocks' = Append(blocks, [Head(adding) EXCEPT !.parent = container])
    /\ container' = Len(blocks')
    /\ current' = IF Head(adding).type = "paragraph" THEN container' ELSE current
    /\ adding' = Tail(adding)
    /\ pc' = AfterChild(Head(adding).type)
    /\ depth' = IF pc' = "open" THEN depth + 1 ELSE depth
    /\ maybe_lazy' = FALSE
    /\ UNCHANGED <<lines, refmap, input, last_matched, asserted>>

-----------------------------------------------------------------------------
(* add_text_to_container *)

\* Mutant: an empty item counts as a blank line.
last_line_blank_EmptyItem ==
    /\ blank
    /\ type(container) \notin {"block_quote", "heading", "thematic_break"}
    /\ ~blocks[container].fenced

last_line_blank ==
    /\ blank
    /\ type(container) \notin {"block_quote", "heading", "thematic_break"}
    /\ ~blocks[container].fenced
    /\ ~(/\ type(container) = "item" /\ Children(blocks, container) = {}
         /\ blocks[container].start_line = line_number)

\* The marks the line leaves for the tightness of lists.
Marked ==
    [b \in 1 .. Len(blocks) |->
        CASE b = container -> [blocks[b] EXCEPT !.last_line_blank = last_line_blank]
          [] b # container /\ b \in Ancestors(blocks, container) ->
               [blocks[b] EXCEPT !.last_line_blank = FALSE]
          [] blank /\ b = last_child(blocks, container) ->
               [blocks[b] EXCEPT !.last_line_blank = TRUE]
          [] OTHER -> blocks[b]]

\* add_line, after lead columns of indentation.
WithLine(bs, b, lead) == [bs EXCEPT ![b].content = Append(@, Entry(lead))]

\* Mutant: also a line that has opened blocks is a continuation.
lazy_AfterOpening ==
    /\ current # last_matched
    /\ ~blank /\ type(current) = "paragraph"

lazy ==
    /\ current # last_matched /\ container = last_matched
    /\ ~blank /\ type(current) = "paragraph"

LazyLine ==
    /\ pc = "text" /\ lazy
    /\ blocks' = WithLine(Marked, current, indent)
    /\ asserted' = (asserted \/ ~blocks[current].open)
    /\ pc' = "idle"
    /\ UNCHANGED <<lines, refmap, current, input, container, last_matched, depth,
                   maybe_lazy, adding>>

MarkLine ==
    /\ pc = "text" /\ ~lazy
    /\ blocks' = Marked
    /\ pc' = "close"
    /\ UNCHANGED <<lines, refmap, current, input, container, last_matched, depth,
                   maybe_lazy, adding, asserted>>

\* finalize any blocks that were not matched
CloseUnmatched ==
    /\ pc = "close" /\ current # last_matched
    /\ finalize(current)
    /\ current' = blocks[current].parent
    /\ UNCHANGED <<lines, pc, input, container, last_matched, depth, maybe_lazy, adding>>

Closing == pc = "close" /\ current = last_matched

EndsHTML(b) == blocks[b].kind = "html1" /\ lines[line_number].body = "end1"

TakesLine ==
    \/ type(container) \in {"code_block", "html_block"}
    \/ ~blank /\ accepts_lines(type(container))

AddLine ==
    /\ Closing /\ TakesLine
    /\ blocks' = WithLine(blocks, container,
                          IF type(container) \in {"code_block", "html_block"} THEN indent ELSE 0)
    /\ asserted' = (asserted \/ ~blocks[container].open)
    /\ current' = container
    /\ pc' = IF EndsHTML(container) THEN "html_end" ELSE "idle"
    /\ UNCHANGED <<lines, refmap, input, container, last_matched, depth, maybe_lazy, adding>>

CloseHTML ==
    /\ pc = "html_end"
    /\ finalize(container)
    /\ current' = blocks[container].parent
    /\ pc' = "idle"
    /\ UNCHANGED <<lines, input, container, last_matched, depth, maybe_lazy, adding>>

AddNothing ==
    /\ Closing /\ ~TakesLine /\ blank
    /\ current' = container
    /\ pc' = "idle"
    /\ UNCHANGED <<lines, blocks, refmap, input, container, last_matched, depth,
                   maybe_lazy, adding, asserted>>

AddParagraph ==
    /\ Closing /\ ~TakesLine /\ ~blank
    /\ adding' = <<[Block("paragraph") EXCEPT !.content = <<Entry(0)>>]>>
    /\ pc' = "add"
    /\ UNCHANGED <<lines, blocks, refmap, current, input, container, last_matched, depth,
                   maybe_lazy, asserted>>

-----------------------------------------------------------------------------
(* finalize_document *)

cmark_parser_finish ==
    /\ pc = "idle"
    /\ pc' = "finish"
    /\ UNCHANGED <<lines, blocks, refmap, current, input, container, last_matched, depth,
                   maybe_lazy, adding, asserted>>

FinishBlock ==
    /\ pc = "finish"
    /\ finalize(current)
    /\ current' = IF current = root THEN root ELSE blocks[current].parent
    /\ pc' = IF current = root THEN "done" ELSE "finish"
    /\ UNCHANGED <<lines, input, container, last_matched, depth, maybe_lazy, adding>>

Finished == pc = "done" /\ UNCHANGED vars

-----------------------------------------------------------------------------

InLine ==
    \/ CheckNext \/ CheckDone \/ CheckFence
    \/ OpenQuote \/ OpenHeading \/ OpenFence \/ OpenHTML \/ OpenBreak \/ OpenFootnote
    \/ OpenList \/ OpenCode \/ OpenSetext \/ OpenNothing
    \/ BackUp \/ add_child
    \/ LazyLine \/ MarkLine \/ CloseUnmatched \/ AddLine \/ CloseHTML \/ AddNothing
    \/ AddParagraph
    \/ FinishBlock

Next ==
    \/ \E l \in UNION {d.of : d \in Documents} : S_process_line(l)
    \/ InLine
    \/ cmark_parser_finish
    \/ Finished

\* A call runs until it returns.
Spec == Init /\ [][Next]_vars /\ WF_vars(InLine)

-----------------------------------------------------------------------------
(* Properties *)

\* Between two lines the open blocks are current and those it is in, and each of
\* them is the last child of its parent, so that check_open_blocks, which follows
\* open last children from the root, finds all of them and only them.  No assertion
\* of finalize, add_line or add_text_to_container fails, and current is not NULL and
\* was not freed with an empty paragraph.
OpenSpine ==
    /\ ~asserted /\ current # NULL
    /\ pc = "idle" =>
         /\ blocks[current].open
         /\ \A b \in 1 .. Len(blocks) : blocks[b].open =>
              /\ blocks[b].parent # current
              /\ b # root => /\ blocks[blocks[b].parent].open
                             /\ b = last_child(blocks, blocks[b].parent)

\* What add_line, or a reference definition, takes at least the text of: of the other
\* lines the block structure may keep no more than where they stood.
TextBodies == Bodies \ {"blank", "fence", "setext", "break"}

\* Line k is in the content of a block.
Holds(bs, k) ==
    \E b \in 1 .. Len(bs) : bs[b].type # "freed" /\ k \in ToSet(LinesIn(bs[b].content))

\* The lines come in the order of the blocks that hold them, and in these in theirs.
InOrder(bs) ==
    \A b, c \in {a \in 1 .. Len(bs) : bs[a].type # "freed"} :
        \A i \in 1 .. Len(bs[b].content), j \in 1 .. Len(bs[c].content) :
            b < c \/ (b = c /\ i < j) => bs[b].content[i].line < bs[c].content[j].line

\* Every line with text is in the content of one block, or was taken as a reference
\* definition, once, and the contents of the blocks are in the order of the lines:
\* lazy continuation and closing lose, repeat and reorder no text.
TextOnce ==
    pc \in {"idle", "done"} =>
        /\ InOrder(blocks)
        /\ \A k \in 1 .. Len(lines) : lines[k].body \in TextBodies =>
              Holds(blocks, k) \/ k \in ToSet(refmap)
        /\ \A i, j \in 1 .. Len(refmap) : i # j => refmap[i] # refmap[j]
        /\ \A k \in ToSet(refmap) : ~Holds(blocks, k)

\* A block that was closed gets no more text and no more children, nor does anything
\* in it (add_line and add_child test or assert at most that the block itself is open).
ClosedForGood ==
    [][\A b \in 1 .. Len(blocks') :
         /\ b <= Len(blocks) /\ Len(blocks'[b].content) > Len(blocks[b].content) =>
              \A a \in Ancestors(blocks, b) : blocks[a].open
         /\ b > Len(blocks) =>
              \A a \in Ancestors(blocks, blocks'[b].parent) : blocks[a].open]_vars

\* Every line is dealt with in finitely many steps: each turn of the loops moves on in
\* the line or in the tree.
LineEnds == (pc \notin {"idle", "done"}) ~> (pc \in {"idle", "done"})

\* The block quotes b is in.
QuoteDepth(b) == Cardinality({a \in Ancestors(blocks, b) : blocks[a].type = "block_quote"})

\* Line k is blank where list is: it has nothing but the markers of block quotes that
\* list is in, and is not in a fenced code block.
BlankFor(list, k) ==
    /\ lines[k].body = "blank"
    /\ ToSet(lines[k].pre) \subseteq {"sp", ">"}
    /\ Cardinality({i \in DOMAIN lines[k].pre : lines[k].pre[i] = ">"}) <= QuoteDepth(list)
    /\ ~\E b \in 1 .. Len(blocks) : blocks[b].fenced /\ k \in ToSet(LinesIn(blocks[b].content))

\* spec.txt:5163 "A list is loose if any of its constituent list items are separated by
\* blank lines, or if any of its constituent list items directly contain two block-level
\* elements with a blank line between them.  Otherwise a list is tight."
Loose(list) ==
    \E c \in Children(blocks, list) \cup UNION {Children(blocks, i) : i \in Children(blocks, list)} :
        /\ \E d \in Children(blocks, blocks[c].parent) : d < c
        /\ BlankFor(list, blocks[c].start_line - 1)

Lists == {b \in 1 .. Len(blocks) : blocks[b].type = "list"}

\* The tightness of every list is as spec.txt:5163 says.
TightAsDocumented == pc = "done" => \A l \in Lists : blocks[l].tight = ~Loose(l)

\* It is, but for lists with thematic breaks or reference definitions in them: the
\* marks last_line_blank and last_line_checked that lines leave on blocks, and
\* that blocks nested in a list hand up, come to the distances between lines.
TightWithoutBreaks ==
    (\A k \in 1 .. Len(lines) : lines[k].body \notin {"break", "def"}) => TightAsDocumented
=============================================================================

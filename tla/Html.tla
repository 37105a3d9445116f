-------------------------------- MODULE Html --------------------------------
(***************************************************************************)
(* The HTML and XML renderers (src/html.c, src/xml.c) with what the        *)
(* extensions add to them: one call of S_render_node for one event. The    *)
(* output is a sequence of tags and texts. Escaping is module Escape, and  *)
(* line breaks between tags, source positions and attributes that no       *)
(* property is about are left out.                                         *)
(***************************************************************************)
EXTENDS Document
CONSTANT MAX_INDENT                      \* of xml.c

Token(op, tag) == [op |-> op, tag |-> tag, lit |-> <<>>, id |-> <<>>, href |-> <<>>]
Open(tag) == Token("open", tag)
Close(tag) == Token("close", tag)
Void(tag) == <<Token("void", tag)>>
Text(lit) == <<[Token("text", "") EXCEPT !.lit = lit]>>
Raw(lit) == <<[Token("raw", "") EXCEPT !.lit = lit]>>
Tag(entering, tag) == IF entering THEN <<Open(tag)>> ELSE <<Close(tag)>>
Wrapped(tag, inner) == <<Open(tag)>> \o inner \o <<Close(tag)>>
Link(id, href, inner) == <<[Open("a") EXCEPT !.id = id, !.href = href]>> \o inner \o <<Close("a")>>

-----------------------------------------------------------------------------
(* The tag filter: "<" becomes "&lt;" before the name of a filtered tag,   *)
(* anywhere in a block and at the start of inline HTML.                    *)
CharAt(lit, i) == IF i \in DOMAIN lit THEN lit[i] ELSE "END"
is_tag(lit, i, names) ==
    LET j == IF CharAt(lit, i + 1) = "/" THEN i + 2 ELSE i + 1
    IN  /\ lit[i] = "<" /\ CharAt(lit, j) \in names
        /\ \/ CharAt(lit, j + 1) \in Sc!spacechar \cup {">"}
           \/ CharAt(lit, j + 1) = "/" /\ CharAt(lit, j + 2) = ">"
filter_html_block(lit, upto) ==
    [i \in DOMAIN lit |-> IF i <= upto /\ is_tag(lit, i, Sc!Raw) THEN "&lt;" ELSE lit[i]]
RawHtml(lit, upto, options) ==
    IF "UNSAFE" \notin options THEN Void("!--")
    ELSE IF "tagfilter" \in options THEN Raw(filter_html_block(lit, upto)) ELSE Raw(lit)

(* Footnotes: the anchor of a reference, and the links back to them.       *)
Anchor(label, ix) == <<"fnref">> \o label \o IF ix > 1 THEN <<"-">> \o Number(ix) ELSE <<>>
Backref(h, def) ==
    IF h.written_footnote_ix >= h.footnote_ix THEN <<>>
    ELSE FlattenSeq([i \in 1 .. (IF def.def_count > 1 THEN def.def_count ELSE 1) |->
                       Link(<<>>, Anchor(def.lit, i), <<>>)])
\* The events at which S_put_footnote_backref is called for definition d.
BackrefAt(t, n, entering, d) ==
    ~entering /\ \/ t[n].type = "footnote_definition" /\ d = n
                 \/ /\ t[n].type = "paragraph" /\ d = t[n].parent /\ ~HasNext(t, n)
                    /\ ParentType(t, n) = "footnote_definition"

-----------------------------------------------------------------------------
(* html.c. plain is the image whose description is being written, 0 if none *)
HtmlInit == [out |-> <<>>, plain |-> 0, footnote_ix |-> 0, written_footnote_ix |-> 0,
             need_closing_table_body |-> FALSE, in_table_header |-> FALSE]

Element == [block_quote |-> "blockquote", emph |-> "em", strikethrough |-> "del"]
Headings == <<"h1", "h2", "h3", "h4", "h5", "h6">>

\* A paragraph has no tag of its own in an item of a tight list.
TightParagraph(t, n) == GrandparentType(t, n) = "list" /\ InTight(t, n)
Safe(url, options) == IF "UNSAFE" \notin options /\ Sc!scan_dangerous_url(url, 1) > 0 THEN <<>> ELSE url

TableTags(t, n, entering, h) ==
    LET node == t[n]
        body == h.need_closing_table_body
        cell == IF h.in_table_header THEN "th" ELSE "td"
    IN  CASE node.type = "table" ->
               IF entering THEN <<Open("table")>>
               ELSE (IF body THEN <<Close("tbody")>> ELSE <<>>) \o <<Close("table")>>
          [] node.type = "table_row" ->
               IF entering
               THEN (IF node.flag THEN <<Open("thead")>>
                     ELSE IF ~body THEN <<Open("tbody")>> ELSE <<>>) \o <<Open("tr")>>
               ELSE <<Close("tr")>> \o (IF node.flag THEN <<Close("thead")>> ELSE <<>>)
          [] OTHER -> IF node.colspan > 0 /\ node.rowspan > 0 THEN Tag(entering, cell) ELSE <<>>

BlockTags(t, n, entering, h, options) ==
    LET node == t[n]
        type == node.type
        backref(d) == IF BackrefAt(t, n, entering, d) THEN Backref(h, t[d]) ELSE <<>>
    IN  CASE type = "block_quote" -> Tag(entering, Element[type])
          [] type \in {"table", "table_row", "table_cell"} -> TableTags(t, n, entering, h)
          [] type = "list" -> Tag(entering, IF node.num = 0 THEN "ul" ELSE "ol")
          [] type = "item" -> Tag(entering, "li")
                              \o IF entering /\ node.num = 1 THEN Void("input") ELSE <<>>
          [] type = "heading" -> Tag(entering, Headings[node.num])
          [] type = "code_block" -> Wrapped("pre", Wrapped("code", Text(node.lit)))
          [] type = "html_block" -> RawHtml(node.lit, Len(node.lit), options)
          [] type = "thematic_break" -> Void("hr")
          [] type = "paragraph" -> IF TightParagraph(t, n) THEN <<>>
                                   ELSE backref(node.parent) \o Tag(entering, "p")
          [] type = "footnote_definition" ->
               (IF entering /\ h.footnote_ix = 0 THEN <<Open("section"), Open("ol")>> ELSE <<>>)
               \o (IF entering THEN <<[Open("li") EXCEPT !.id = <<"fn">> \o node.lit]>> ELSE <<>>)
               \o backref(n) \o (IF entering THEN <<>> ELSE <<Close("li")>>)
          [] OTHER -> <<>>                       \* the document

InlineTags(t, n, entering, options) ==
    LET node == t[n]
        type == node.type
        def == t[node.def]
    IN  CASE type = "text" -> Text(node.lit)
          [] type \in DOMAIN Element -> Tag(entering, Element[type])
          [] type = "html_inline" -> RawHtml(node.lit, 1, options)
          [] type = "custom_inline" -> Raw(IF entering THEN node.lit ELSE node.title)
          [] type = "linebreak" \/ (type = "softbreak" /\ "HARDBREAKS" \in options) -> Void("br")
          [] type = "softbreak" -> Text(<<IF "NOBREAKS" \in options THEN "SP" ELSE "LF">>)
          [] type = "code" -> Wrapped("code", Text(node.lit))
          [] type = "strong" -> IF ParentType(t, n) = "strong" THEN <<>> ELSE Tag(entering, "strong")
          [] type = "link" -> IF entering
                              THEN <<[Open("a") EXCEPT !.href = Safe(node.lit, options)]>>
                              ELSE <<Close("a")>>
          [] type = "image" -> IF entering
                               THEN <<[Open("img") EXCEPT !.href = Safe(node.lit, options)]>>
                               ELSE <<Close("img")>>
          [] type = "footnote_reference" /\ entering ->
               Wrapped("sup", Link(Anchor(def.lit, node.ref_ix), <<"fn">> \o def.lit, Text(node.lit)))
          [] OTHER -> <<>>                       \* an attribute
HtmlTags(t, n, entering, h, options) ==
    IF t[n].type \in InlineType THEN InlineTags(t, n, entering, options)
    ELSE BlockTags(t, n, entering, h, options)

AltText(node) == CASE node.type \in {"text", "code", "html_inline"} -> Text(node.lit)
                     [] node.type \in {"linebreak", "softbreak"} -> Text(<<"SP">>)
                     [] OTHER -> <<>>

\* What a call leaves in the renderer, besides its output.
HtmlState(t, n, entering, h) ==
    LET node == t[n]
        type == node.type
        notes == IF type = "footnote_definition" /\ entering THEN h.footnote_ix + 1 ELSE h.footnote_ix
    IN  [h EXCEPT !.plain = IF type = "image" /\ entering THEN n ELSE 0,
                  !.footnote_ix = notes,
                  !.written_footnote_ix =
                      IF \E d \in {n, node.parent} : BackrefAt(t, n, entering, d)
                         /\ ~(type = "paragraph" /\ TightParagraph(t, n))
                      THEN notes ELSE @,
                  !.need_closing_table_body =
                      IF type = "table" THEN FALSE
                      ELSE @ \/ (type = "table_row" /\ entering /\ ~node.flag),
                  !.in_table_header =
                      IF type = "table_row" /\ node.flag THEN entering ELSE @]

\* Mutant: the end of any image, one in the description too, ends the description.
HtmlNode_AnyImage(t, n, entering, h, options) ==
    LET g == IF t[n].type = "image" /\ ~entering THEN [h EXCEPT !.plain = 0] ELSE h
    IN  IF g.plain # 0 THEN [g EXCEPT !.out = @ \o AltText(t[n])]
        ELSE [HtmlState(t, n, entering, g) EXCEPT
                !.out = @ \o HtmlTags(t, n, entering, g, options)]
HtmlNode(t, n, entering, h, options) ==
    LET g == IF h.plain = n THEN [h EXCEPT !.plain = 0] ELSE h      \* back at the image
    IN  IF g.plain # 0 THEN [g EXCEPT !.out = @ \o AltText(t[n])]
        ELSE [HtmlState(t, n, entering, g) EXCEPT
                !.out = @ \o HtmlTags(t, n, entering, g, options)]
HtmlFinish(h) == IF h.footnote_ix = 0 THEN h
                 ELSE [h EXCEPT !.out = @ \o <<Close("ol"), Close("section")>>]

-----------------------------------------------------------------------------
(* xml.c. A tag that starts a line has the spaces before it.               *)
XmlInit == [out |-> <<>>, indent |-> 0]
Literal == {"text", "code", "html_block", "html_inline", "code_block"}
Indented(token, indent) ==
    token @@ [spaces |-> IF indent < MAX_INDENT THEN indent ELSE MAX_INDENT]
XmlNode(t, n, entering, x) ==
    LET type == t[n].type
        inner == Kids(t, n) # <<>>
    IN  IF entering
        THEN [x EXCEPT !.out = @ \o <<Indented(Open(type), x.indent)>>
                                 \o (IF type \in Literal THEN Text(t[n].lit) ELSE <<>>)
                                 \o (IF inner THEN <<>> ELSE <<Close(type)>>),
                       !.indent = IF inner THEN @ + 2 ELSE @]
        ELSE IF inner
        THEN [x EXCEPT !.out = Append(@, Indented(Close(type), x.indent - 2)), !.indent = @ - 2]
        ELSE x
=============================================================================

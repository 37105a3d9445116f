------------------------------ MODULE Formats ------------------------------
(***************************************************************************)
(* The formats that src/render.c serves: what S_render_node of             *)
(* commonmark.c, plaintext.c, latex.c and man.c, and the renderers of the  *)
(* table, strikethrough and task list extensions, ask of the renderer for  *)
(* one event. The alignment of table columns is left out.                  *)
(***************************************************************************)
EXTENDS Render, FiniteSetsExt

Blanks(k) == [i \in 1 .. k |-> "SP"]
If(b, cmds) == IF b THEN cmds ELSE <<>>
Around(entering, first, last) == LIT(<<IF entering THEN first ELSE last>>)

\* allow_wrap of each format
AllowWrap(cx) == /\ cx.width > 0 /\ "NOBREAKS" \notin cx.options
                 /\ cx.format \in {"commonmark", "plaintext"} => "HARDBREAKS" \notin cx.options

\* The item's number, from the start of the list
ItemIndex(t, n) == t[t[n].parent].num + Place(t, n) - 1
Bullet(t, n) == t[t[n].parent].num = 0
ListMarker(t, n) ==
    IF Bullet(t, n) THEN <<"SP", "SP", "-", "SP">>
    ELSE Number(ItemIndex(t, n)) \o <<".", "SP">> \o Blanks(IF ItemIndex(t, n) < 10 THEN 1 ELSE 0)

FirstInItem(t, n) == ~HasPrev(t, n) /\ ParentType(t, n) = "item"
BeforeCodeOrList(t, n) == HasNext(t, n) /\ t[NextSibling(t, n)].type \in {"code_block", "list"}

\* in_tight_list_item changes when a list has started and when it ends.
TightAfter(t, n, entering, r) ==
    IF entering THEN IF ParentType(t, n) = "item" THEN InTight(t, n) ELSE r.in_tight_list_item
    ELSE IF t[n].type = "list" THEN ParentType(t, n) = "item" /\ InTight(t, n)
    ELSE r.in_tight_list_item

\* A link whose first child is its address, whatever else the child is: the
\* literal is read of any type, and for an image, which keeps its url at the same
\* place (node.h:106-116), is the image's own address.
Mailto(url) == Len(url) > 1 /\ url[1] = "mailto" /\ url[2] = ":"
Address(url) == IF Mailto(url) THEN SubSeq(url, 3, Len(url)) ELSE url
is_autolink(t, n) ==
    /\ Sc!scan_scheme(t[n].lit, 1) > 0 /\ t[n].title = <<>> /\ Kids(t, n) # <<>>
    /\ t[Kids(t, n)[1]].lit = Address(t[n].lit)

\* The lengths of the runs of backticks in code
BacktickRuns(code) ==
    {j - i + 1 : <<i, j>> \in {<<i, j>> \in (DOMAIN code) \X (DOMAIN code) :
        /\ i <= j /\ \A k \in i .. j : code[k] = "BQ"
        /\ Peek(code, i - 1) # "BQ" /\ Peek(code, j + 1) # "BQ"}}
Ticks(c, k) == LIT([i \in 1 .. k |-> c])

-----------------------------------------------------------------------------
(* The extensions                                                          *)
TableCommonMark(t, n, entering, cx) ==
    LET node == t[n]
        ditto == LIT(<<IF "TABLE_ROWSPAN_DITTO" \in cx.options THEN "DQ" ELSE "^">>)
        row == t[node.parent]
        rule == CR \o LIT(<<"|">>)
                \o FlattenSeq([i \in 1 .. t[row.parent].num |-> LIT(<<" --- ", "|">>)]) \o CR
    IN  CASE node.type = "table" -> BLANKLINE
          [] node.type = "table_row" -> If(entering, CR \o LIT(<<"|">>))
          [] OTHER -> IF entering
                      THEN If(node.colspan > 0, LIT(<<"SP">>) \o If(node.rowspan = 0, ditto))
                      ELSE If(node.colspan > 0, LIT(<<"SP">>)) \o LIT(<<"|">>)
                           \o If(row.flag /\ ~HasNext(t, n), rule)
TableLatex(t, n, entering) ==
    CASE t[n].type = "table" ->
           IF entering
           THEN CR \o LIT(<<"\\begin", "table">>) \o CR \o LIT(<<"\\begin", "tabular", "{">>)
                \o LIT([i \in 1 .. t[n].num |-> "l"]) \o LIT(<<"}">>) \o CR
           ELSE LIT(<<"\\end", "tabular">>) \o CR \o LIT(<<"\\end", "table">>) \o CR
      [] t[n].type = "table_row" -> If(~entering, CR)
      [] OTHER -> If(~entering, LIT(<<IF HasNext(t, n) THEN " & " ELSE " \\\\">>))
TableMan(t, n, entering) ==
    CASE t[n].type = "table" ->
           IF entering
           THEN CR \o LIT(<<".TS">>) \o CR \o LIT(<<"tab(@);">>) \o CR
                \o LIT([i \in 1 .. t[n].num |-> "c"]) \o If(t[n].num > 0, LIT(<<".">>) \o CR)
           ELSE LIT(<<".TE">>) \o CR
      [] t[n].type = "table_row" -> If(~entering, CR)
      [] OTHER -> If(~entering /\ HasNext(t, n), LIT(<<"@">>))

StrikethroughMan(entering) == IF entering THEN CR \o LIT(<<".ST DQ">>) ELSE LIT(<<"DQ">>) \o CR

TaskItem(t, n, entering) ==
    IF entering THEN CR \o LIT(<<IF t[n].flag THEN "- [x] " ELSE "- [ ] ">>) \o Push(Blanks(2))
    ELSE Pop(2) \o CR

TableType == {"table", "table_row", "table_cell"}
OwnExtension(t, n) == CASE t[n].type \in TableType -> "table"
                        [] t[n].type = "strikethrough" -> "strikethrough"
                        [] t[n].type = "item" /\ t[n].num = 1 -> "tasklist"
                        [] OTHER -> "none"
RECURSIVE AncestorExtension(_, _)
AncestorExtension(t, n) ==
    IF OwnExtension(t, n) # "none" \/ t[n].parent = 0 THEN OwnExtension(t, n)
    ELSE AncestorExtension(t, t[n].parent)
EscapeBar(t, n) == AncestorExtension(t, n) = "table" /\ t[n].type \notin TableType

-----------------------------------------------------------------------------
(* commonmark.c and plaintext.c                                            *)
\* Mutant: every marker is four columns wide when the item ends.
Item_Four(t, n, entering) ==
    IF entering THEN LIT(ListMarker(t, n)) \o BeginContent \o Push(Blanks(Len(ListMarker(t, n))))
    ELSE Pop(4) \o CR
Item(t, n, entering) ==
    IF entering THEN LIT(ListMarker(t, n)) \o BeginContent \o Push(Blanks(Len(ListMarker(t, n))))
    ELSE Pop(Len(ListMarker(t, n))) \o CR

CodeBlock(t, n) ==
    LET code == t[n].lit
        info == t[n].title
        fence == IF Contains(info, "BQ") THEN "~" ELSE "BQ"
        ticks == Max({2} \cup BacktickRuns(code)) + 1
        blank(i) == Peek(code, i) \in Sc!spacechar
        indented == /\ info = <<>> /\ Len(code) > 2 /\ ~blank(1) /\ ~FirstInItem(t, n)
                    /\ ~(blank(Len(code)) /\ blank(Len(code) - 1))
    IN  If(~FirstInItem(t, n), BLANKLINE)
        \o (IF indented THEN LIT(Blanks(4)) \o Push(Blanks(4)) \o LIT(code) \o Pop(4)
            ELSE Ticks(fence, ticks) \o LIT(<<"SP">>) \o LIT(info) \o CR
                 \o LIT(code) \o CR \o Ticks(fence, ticks))
        \o BLANKLINE

Code(t, n, wrap) ==
    LET code == t[n].lit
        ticks == Min({k \in 1 .. 32 : k = 32 \/ k \notin BacktickRuns(code)})
        extra == If(code = <<>> \/ {Peek(code, 1), Peek(code, Len(code))} \cap {"BQ", "SP"} # {},
                    LIT(<<"SP">>))
    IN  Ticks("BQ", ticks) \o extra \o Out(code, wrap, "LITERAL") \o extra \o Ticks("BQ", ticks)

LinkEnd(t, n, wrap) ==
    LIT(<<"]", "(">>) \o Out(t[n].lit, FALSE, "URL")
    \o If(t[n].title # <<>>, Out(<<"SP", "DQ">>, wrap, "LITERAL") \o Out(t[n].title, FALSE, "TITLE")
                             \o LIT(<<"DQ">>))
    \o LIT(<<")">>)

SoftBreak(r, cx, hard) ==
    IF "HARDBREAKS" \in cx.options THEN hard \o CR
    ELSE IF ~r.no_linebreaks /\ cx.width = 0 /\ "NOBREAKS" \notin cx.options THEN CR
    ELSE Out(<<"SP">>, AllowWrap(cx), "LITERAL")

CommonMarkBlock(t, n, entering) ==
    LET node == t[n]
        type == node.type
    IN  CASE type = "block_quote" ->
               IF entering THEN LIT(<<">", "SP">>) \o BeginContent \o Push(<<">", "SP">>)
               ELSE Pop(2) \o BLANKLINE
          [] type = "list" -> If(~entering /\ BeforeCodeOrList(t, n),
                                 CR \o LIT(<<"<!-- end list -->">>) \o BLANKLINE)
          [] type = "item" -> Item(t, n, entering)
          [] type = "heading" ->
               IF entering THEN LIT([i \in 1 .. node.num |-> "#"]) \o LIT(<<"SP">>) \o BeginContent
                                \o NoLinebreaks(TRUE)
               ELSE NoLinebreaks(FALSE) \o BLANKLINE
          [] type = "code_block" -> CodeBlock(t, n)
          [] type = "html_block" -> BLANKLINE \o LIT(node.lit) \o BLANKLINE
          [] type = "thematic_break" -> BLANKLINE \o LIT(<<"-----">>) \o BLANKLINE
          [] type = "paragraph" -> If(~entering, BLANKLINE)
          [] type = "footnote_definition" ->
               IF entering THEN LIT(<<"[", "^">>) \o LIT(node.lit) \o LIT(<<"]", ":", "LF">>)
                                \o Push(Blanks(4))
               ELSE Pop(4)
          [] OTHER -> <<>>                                          \* the document

CommonMarkInline(t, n, entering, r, cx) ==
    LET node == t[n]
        type == node.type
        wrap == AllowWrap(cx)
    IN  CASE type = "text" -> Out(node.lit, wrap, "NORMAL")
          [] type = "linebreak" -> If("HARDBREAKS" \notin cx.options, LIT(Blanks(2))) \o CR
          [] type = "softbreak" -> SoftBreak(r, cx, LIT(Blanks(2)))
          [] type = "code" -> Code(t, n, wrap)
          [] type = "html_inline" -> LIT(node.lit)
          [] type = "custom_inline" -> LIT(IF entering THEN node.lit ELSE node.title)
          [] type = "strong" -> If(ParentType(t, n) # "strong", LIT(<<"**">>))
          [] type = "emph" -> LIT(<<IF /\ ParentType(t, n) = "emph" /\ ~HasPrev(t, n)
                                       /\ ~HasNext(t, n) THEN "_" ELSE "*">>)
          [] type = "link" -> IF is_autolink(t, n)
                              THEN If(entering, LIT(<<"<">>) \o LIT(Address(node.lit)) \o LIT(<<">">>))
                              ELSE IF entering THEN LIT(<<"[">>) ELSE LinkEnd(t, n, FALSE)
          [] type = "image" -> IF entering THEN LIT(<<"!", "[">>) ELSE LinkEnd(t, n, wrap)
          [] type = "attribute" -> IF entering THEN LIT(<<"^", "[">>)
                                   ELSE LIT(<<"]", "(">>) \o LIT(node.lit) \o LIT(<<")">>)
          [] type = "footnote_reference" ->
               If(entering, LIT(<<"[", "^">>) \o LIT(t[node.def].lit) \o LIT(<<"]">>))
CommonMark(t, n, entering, r, cx) ==
    IF t[n].type \in InlineType THEN CommonMarkInline(t, n, entering, r, cx)
    ELSE CommonMarkBlock(t, n, entering)

PlainText(t, n, entering, r, cx) ==
    LET node == t[n]
        type == node.type
    IN  CASE type = "list" -> If(~entering /\ BeforeCodeOrList(t, n), CR)
          [] type = "item" -> Item(t, n, entering)
          [] type = "heading" -> IF entering THEN BeginContent \o NoLinebreaks(TRUE)
                                 ELSE NoLinebreaks(FALSE) \o BLANKLINE
          [] type = "code_block" -> If(~FirstInItem(t, n), BLANKLINE) \o LIT(node.lit) \o BLANKLINE
          [] type = "thematic_break" -> BLANKLINE
          [] type = "paragraph" -> If(~entering, BLANKLINE)
          [] type = "text" -> Out(node.lit, AllowWrap(cx), "NORMAL")
          [] type = "linebreak" -> CR
          [] type = "softbreak" -> SoftBreak(r, cx, <<>>)
          [] type = "code" -> Out(node.lit, AllowWrap(cx), "LITERAL")
          [] type = "attribute" -> LIT(node.lit)
          [] type = "footnote_reference" ->
               If(entering, LIT(<<"[", "^">>) \o LIT(node.lit) \o LIT(<<"]">>))
          [] type = "footnote_definition" ->
               IF entering THEN LIT(<<"[", "^">>) \o LIT(Number(r.footnote_ix)) \o LIT(<<"]", ":", "SP">>)
                                \o Push(Blanks(4))
               ELSE Pop(4)
          [] OTHER -> <<>>              \* a quote, raw HTML, emphasis, a link, an image

-----------------------------------------------------------------------------
(* latex.c and man.c                                                       *)
LinkType(t, n) ==
    CASE Peek(t[n].lit, 1) = "#" -> "INTERNAL_LINK"
      [] Sc!scan_scheme(t[n].lit, 1) = 0 -> "NO_LINK"
      [] t[n].title = <<>> /\ Kids(t, n) = <<>> -> "NO_LINK"
      [] OTHER -> IF ~is_autolink(t, n) THEN "NORMAL_LINK"
                  ELSE IF Mailto(t[n].lit) THEN "EMAIL_AUTOLINK" ELSE "URL_AUTOLINK"
LatexLink(t, n) ==
    LET url == Out(t[n].lit, FALSE, "URL")
        kind == LinkType(t, n)
    IN  CASE kind = "URL_AUTOLINK" -> LIT(<<"\\url", "{">>) \o url \o LIT(<<"}">>)
          [] kind = "EMAIL_AUTOLINK" -> LIT(<<"\\href", "{">>) \o url \o LIT(<<"}", "\\nolinkurl", "{">>)
          [] kind = "NORMAL_LINK" -> LIT(<<"\\href", "{">>) \o url \o LIT(<<"}", "{">>)
          [] kind = "INTERNAL_LINK" -> LIT(<<"\\protect\\hyperlink", "{">>)
                                       \o Out(Tail(t[n].lit), FALSE, "URL") \o LIT(<<"}", "{">>)
          [] kind = "NO_LINK" -> LIT(<<"{">>)

\* The lists around an ordered list: the loop looks at the type of the first.
RECURSIVE S_get_enumlevel(_, _, _)
S_get_enumlevel(t, list, n) ==
    IF n = 0 THEN 0
    ELSE (IF t[n].type = "list" /\ t[list].num > 0 THEN 1 ELSE 0) + S_get_enumlevel(t, list, t[n].parent)
LatexCounter(t, n) ==
    If(t[n].num > 1, If(S_get_enumlevel(t, n, n) \in 1 .. 5,
                        LIT(<<"\\setcounter", "{", "enum", "}", "{">>)
                        \o Out(Number(t[n].num), FALSE, "NORMAL") \o LIT(<<"}">>)) \o CR)

LatexSection == <<"\\section", "\\subsection", "\\subsubsection", "\\paragraph", "\\subparagraph", "">>
BrokenLine(r, cx, hard, escaping) ==
    IF "HARDBREAKS" \in cx.options THEN LIT(hard) \o CR
    ELSE IF cx.width = 0 /\ "NOBREAKS" \notin cx.options THEN CR
    ELSE Out(<<"SP">>, AllowWrap(cx), escaping)
Braces(entering, command) == LIT(IF entering THEN <<command, "{">> ELSE <<"}">>)
Environment(entering, name) == LIT(<<IF entering THEN "\\begin" ELSE "\\end", name>>)

LatexBlock(t, n, entering) ==
    LET node == t[n]
        type == node.type
        list == IF node.num > 0 THEN "enumerate" ELSE "itemize"
    IN  CASE type = "block_quote" -> Environment(entering, "quote") \o IF entering THEN CR ELSE BLANKLINE
          [] type = "list" -> Environment(entering, list)
                              \o IF entering THEN CR \o LatexCounter(t, n) ELSE BLANKLINE
          [] type = "item" -> IF entering THEN LIT(<<"\\item ">>) ELSE CR
          [] type = "heading" -> IF entering THEN LIT(<<LatexSection[node.num], "{">>)
                                 ELSE LIT(<<"}">>) \o BLANKLINE
          [] type = "code_block" -> CR \o LIT(<<"\\begin", "verbatim">>) \o CR \o LIT(node.lit) \o CR
                                    \o LIT(<<"\\end", "verbatim">>) \o BLANKLINE
          [] type = "thematic_break" -> BLANKLINE \o LIT(<<"\\rule">>) \o BLANKLINE
          [] type = "paragraph" -> If(~entering, BLANKLINE)
          [] OTHER -> <<>>              \* the document, raw HTML, footnotes

LatexInline(t, n, entering, r, cx) ==
    LET node == t[n]
        type == node.type
    IN  CASE type = "text" -> Out(node.lit, AllowWrap(cx), "NORMAL")
          [] type = "linebreak" -> LIT(<<"\\\\">>) \o CR
          [] type = "softbreak" -> BrokenLine(r, cx, <<"\\\\">>, "NORMAL")
          [] type = "code" -> LIT(<<"\\texttt", "{">>) \o Out(node.lit, FALSE, "NORMAL") \o LIT(<<"}">>)
          [] type = "custom_inline" -> LIT(IF entering THEN node.lit ELSE node.title)
          [] type = "strong" -> If(ParentType(t, n) # "strong", Braces(entering, "\\textbf"))
          [] type = "emph" -> Braces(entering, "\\emph")
          [] type = "strikethrough" -> Braces(entering, "\\sout")
          [] type = "link" -> IF entering THEN LatexLink(t, n) ELSE LIT(<<"}">>)
          [] type = "image" -> If(entering, LIT(<<"\\protect\\includegraphics", "{">>)
                                            \o Out(node.lit, FALSE, "URL") \o LIT(<<"}">>))
          [] OTHER -> <<>>              \* raw HTML, footnotes, attributes
Latex(t, n, entering, r, cx) ==
    IF t[n].type \in InlineType THEN LatexInline(t, n, entering, r, cx) ELSE LatexBlock(t, n, entering)

HardBreak == <<".PD 0", "LF", ".P", "LF", ".PD">>
ManBlock(t, n, entering) ==
    LET node == t[n]
        type == node.type
        line(s) == CR \o LIT(s) \o CR
    IN  CASE type = "block_quote" -> line(<<IF entering THEN ".RS" ELSE ".RE">>)
          [] type = "item" ->
               IF entering THEN CR \o LIT(<<".IP ">>)
                                \o LIT(IF Bullet(t, n) THEN <<"BS", "[bu] 2">>
                                       ELSE <<"DQ">> \o Number(ItemIndex(t, n)) \o <<".", "DQ", " 4">>) \o CR
               ELSE CR
          [] type = "heading" -> IF entering THEN line(<<IF node.num = 1 THEN ".SH" ELSE ".SS">>) ELSE CR
          [] type = "code_block" -> CR \o LIT(<<".IP", "LF", ".nf", "LF", "BS", "f[C]", "LF">>)
                                    \o Out(node.lit, FALSE, "NORMAL") \o line(<<"BS", "f[]", "LF", ".fi">>)
          [] type = "thematic_break" -> line(<<".PP", "LF", "  *  *  *  *  *">>)
          [] type = "paragraph" -> IF entering THEN If(~FirstInItem(t, n), line(<<".PP">>)) ELSE CR
          [] OTHER -> <<>>              \* the document, a list, raw HTML, footnotes

ManInline(t, n, entering, r, cx) ==
    LET node == t[n]
        type == node.type
    IN  CASE type = "text" -> Out(node.lit, AllowWrap(cx), "NORMAL")
          [] type = "linebreak" -> LIT(HardBreak) \o CR
          [] type = "softbreak" -> BrokenLine(r, cx, HardBreak, "LITERAL")
          [] type = "code" -> LIT(<<"BS", "f[C]">>) \o Out(node.lit, AllowWrap(cx), "NORMAL")
                              \o LIT(<<"BS", "f[]">>)
          [] type = "custom_inline" -> LIT(IF entering THEN node.lit ELSE node.title)
          [] type = "strong" -> If(ParentType(t, n) # "strong", LIT(<<"BS", IF entering THEN "f[B]" ELSE "f[]">>))
          [] type = "emph" -> LIT(<<"BS", IF entering THEN "f[I]" ELSE "f[]">>)
          [] type = "strikethrough" -> StrikethroughMan(entering)
          [] type = "link" -> If(~entering, LIT(<<"SP", "(">>) \o Out(node.lit, AllowWrap(cx), "URL")
                                            \o LIT(<<")">>))
          [] type = "image" -> Around(entering, "[IMAGE: ", "]")
          [] OTHER -> <<>>              \* raw HTML, footnotes
Man(t, n, entering, r, cx) ==
    IF t[n].type \in InlineType THEN ManInline(t, n, entering, r, cx) ELSE ManBlock(t, n, entering)
\* An attribute has no literal: man.c passes NULL to strlen.
ManFails(t) == \E n \in DOMAIN t : t[n].type = "attribute"

-----------------------------------------------------------------------------
Commands(t, n, entering, r, cx) ==
    LET ext == OwnExtension(t, n)
        format == cx.format
    IN  CASE format \in {"commonmark", "plaintext"} /\ ext = "table" -> TableCommonMark(t, n, entering, cx)
          [] format \in {"commonmark", "plaintext"} /\ ext = "tasklist" -> TaskItem(t, n, entering)
          [] format = "commonmark" /\ ext = "strikethrough" -> LIT(<<"~", "~">>)
          [] format = "plaintext" /\ ext = "strikethrough" -> LIT(<<"~">>)
          [] format = "latex" /\ ext = "table" -> TableLatex(t, n, entering)
          [] format = "man" /\ ext = "table" -> TableMan(t, n, entering)
          [] OTHER -> CASE format = "commonmark" -> CommonMark(t, n, entering, r, cx)
                        [] format = "plaintext" -> PlainText(t, n, entering, r, cx)
                        [] format = "latex" -> Latex(t, n, entering, r, cx)
                        [] format = "man" -> Man(t, n, entering, r, cx)

\* S_render_node returned 0: the contents and the EXIT event are skipped.
SkipsContents(t, n, entering, format) ==
    /\ entering
    /\ \/ format = "commonmark" /\ t[n].type = "link" /\ is_autolink(t, n)
       \/ format = "latex" /\ t[n].type = "link" /\ LinkType(t, n) = "URL_AUTOLINK"
       \/ format = "latex" /\ t[n].type = "image"

\* One turn of the loop in cmark_render
RenderNode(t, n, entering, r, cx) ==
    LET adapts == cx.format \in {"commonmark", "plaintext"}
        q == [r EXCEPT !.in_tight_list_item = IF adapts THEN TightAfter(t, n, entering, r) ELSE @,
                       !.footnote_ix = IF adapts /\ entering /\ t[n].type = "footnote_definition"
                                       THEN @ + 1 ELSE @]
    IN  RenderCommands(q, Commands(t, n, entering, q, cx), cx @@ [bar |-> EscapeBar(t, n)])
=============================================================================

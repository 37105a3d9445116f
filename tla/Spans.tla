------------------------------- MODULE Spans -------------------------------
(***************************************************************************)
(* The text of one paragraph, character by character: the definitions of   *)
(* references at its start, then the inlines that parse_inline makes from  *)
(* text alone (code spans, raw HTML, entities, line breaks, smart          *)
(* punctuation, autolinks), then the addresses that the autolink extension *)
(* finds. At a delimiter or a bracket, which are in Inlines, it stops.     *)
(* Source positions are those with CMARK_OPT_SOURCEPOS.                    *)
(***************************************************************************)
EXTENDS LinkParts, Autolink

CONSTANTS MAXBACKTICKS,  \* 80 in the code
          Paragraphs     \* contents of paragraphs, each with a set of options
ASSUME SpansAssumption == MAXBACKTICKS \in Nat

VARIABLES content,        \* the buffer of the paragraph's node
          options,
          refs,           \* what the definitions define
          pc,             \* "definitions", "inlines", "postprocess", "done" or "stopped"
          text,           \* subj->input: content without trailing space
          pos, flags, backticks, scanned_for_backticks, line, column_offset,
          out             \* the paragraph's children
subject == <<text, pos, flags, backticks, scanned_for_backticks, line, column_offset>>
vars == <<content, options, refs, pc, subject, out>>

Smart == "SMART" \in options
PreserveWhitespace == "PRESERVE_WHITESPACE" \in options
Liberal == "LIBERAL_HTML_TAG" \in options
AutolinkOn == "autolink" \in options

Init == /\ \E p \in Paragraphs : content = p.content /\ options = p.options
        /\ refs = <<>> /\ pc = "definitions" /\ text = <<>> /\ pos = 1 /\ flags = {}
        /\ backticks = [n \in 1 .. MAXBACKTICKS |-> 0] /\ scanned_for_backticks = FALSE
        /\ line = 1 /\ column_offset = 0 /\ out = <<>>

-----------------------------------------------------------------------------
\* The definitions at the start of the paragraph, one turn of the loop each.
Definition(s) ==
    IF s # <<>> /\ s[1] = "[" THEN cmark_parse_reference_inline(s)
    ELSE IF Len(s) > 1 /\ s[1] = "^" /\ s[2] = "[" THEN cmark_parse_reference_attributes_inline(s)
    ELSE NoPart

resolve_reference_link_definitions ==
    /\ pc = "definitions" /\ Definition(content).end > 0
    /\ refs' = Append(refs, Definition(content))
    /\ content' = SubSeq(content, Definition(content).end, Len(content))
    /\ UNCHANGED <<options, pc, subject, out>>

\* What is left is freed when it is blank.
FreeBlank ==
    /\ pc = "definitions" /\ Definition(content).end = 0
    /\ cmark_chunk_rtrim(content) = <<>> /\ ~ PreserveWhitespace
    /\ pc' = "done"
    /\ UNCHANGED <<content, options, refs, subject, out>>

cmark_parse_inlines ==
    /\ pc = "definitions" /\ Definition(content).end = 0
    /\ cmark_chunk_rtrim(content) # <<>> \/ PreserveWhitespace
    /\ pc' = "inlines"
    /\ text' = IF PreserveWhitespace THEN content ELSE cmark_chunk_rtrim(content)
    /\ UNCHANGED <<content, options, refs, pos, flags, backticks, scanned_for_backticks, line,
                   column_offset, out>>

-----------------------------------------------------------------------------
\* parse_inline: one action for each of its cases
Peek(p) == CharAt(text, p)
Data(p) == CharAt(content, p)        \* a read that does not test the length
At(c) == pc = "inlines" /\ Peek(pos) = c

make(type, lit, from) == [type |-> type, lit |-> lit, mailto |-> FALSE, from |-> from,
                          line |-> line, col |-> from + column_offset]
Emit(node, end) == out' = Append(out, node) /\ pos' = end
Same == UNCHANGED <<content, options, refs, pc, text>>
NoScan == UNCHANGED <<flags, backticks, scanned_for_backticks>>
SameLine == UNCHANGED <<line, column_offset>>

\* adjust_subj_node_newlines: after n characters and extra more, up to end
Newlines_NoExtra(end, n, extra) ==
    LET lfs == {k \in end - n - extra .. end - extra - 1 : text[k] = "LF"}
    IN  IF lfs = {} THEN SameLine
        ELSE /\ line' = line + Cardinality(lfs)
             /\ column_offset' = -(end - 1) + (end - extra - 1 - Max(lfs))
Newlines(end, n, extra) ==
    LET lfs == {k \in end - n - extra .. end - extra - 1 : text[k] = "LF"}
    IN  IF lfs = {} THEN SameLine
        ELSE /\ line' = line + Cardinality(lfs)
             /\ column_offset' = -(end - 1) + (end - extra - 1 - Max(lfs)) + extra
\* A line that begins at p
NewLine(p) == line' = line + 1 /\ column_offset' = -(p - 1)

\* Two spaces before the line end make it a hard break.
handle_newline ==
    /\ At("CR") \/ At("LF")
    /\ IF PreserveWhitespace
       THEN Emit(make("text", <<Peek(pos)>>, pos), pos + 1) /\ SameLine
       ELSE LET next == pos + Longest(Opt(C("CR")) ** Opt(C("LF")), text, pos)
                hard == pos > 2 /\ Peek(pos - 1) = "SP" /\ Peek(pos - 2) = "SP"
            IN  /\ NewLine(next)
                /\ Emit(make(IF hard THEN "linebreak" ELSE "softbreak", <<>>, pos),
                        skip_spaces(text, next))
    /\ Same /\ NoScan

\* The runs of backticks from p on: <<first, length>>, in their order
Runs(p) == LET starts == {k \in p .. Len(text) : text[k] = "BQ" /\ (k = p \/ text[k - 1] # "BQ")}
           IN  {<<k, Len(Span({"BQ"}, text, k))>> : k \in starts}
\* What is known without a scan
KnownUnclosed_Unscanned(n) == n > MAXBACKTICKS \/ backticks[n] <= pos + n
KnownUnclosed(n) ==
    n > MAXBACKTICKS \/ (scanned_for_backticks /\ backticks[n] <= pos + n)
\* The scan reads runs up to the first of length n; 0 when there is none.
Closer(n) == LET found == {r \in Runs(pos + n) : r[2] = n}
             IN  IF found = {} THEN 0 ELSE Min({r[1] : r \in found})
scan_to_closing_backticks(n) ==
    LET read == {r \in Runs(pos + n) : Closer(n) # 0 => r[1] <= Closer(n)}
        last(k) == {r[1] : r \in {r \in read : r[2] = k}}
    IN  /\ backticks' = [k \in 1 .. MAXBACKTICKS |->
                            IF last(k) = {} THEN backticks[k] ELSE Max(last(k))]
        /\ scanned_for_backticks' = (scanned_for_backticks \/ Closer(n) = 0)

\* Line ends become spaces; one space goes at each end, unless there is nothing
\* else. The test sees an LF or CR already as a space, the CR of a CRLF not.
S_normalize_code(s) ==
    LET kept == SelectSeq([k \in DOMAIN s |-> <<s[k], CharAt(s, k + 1)>>],
                          LAMBDA c : c # <<"CR", "LF">>)
        w == [k \in DOMAIN kept |-> IF kept[k][1] \in LineEnd THEN "SP" ELSE kept[k][1]]
        contains_nonspace == ToSet(s) \ ({"SP"} \cup LineEnd) # {} \/ Len(kept) < Len(s)
    IN  IF contains_nonspace /\ Head(w) = "SP" /\ Last(w) = "SP"
        THEN SubSeq(w, 2, Len(w) - 1) ELSE w

handle_backticks ==
    /\ At("BQ")
    /\ LET n == Len(Span({"BQ"}, text, pos))
           unclosed == Emit(make("text", SubSeq(text, pos, pos + n - 1), pos), pos + n) /\ SameLine
       IN  IF KnownUnclosed(n) THEN unclosed /\ NoScan
           ELSE /\ scan_to_closing_backticks(n)
                /\ UNCHANGED flags
                /\ IF Closer(n) = 0 THEN unclosed
                   ELSE /\ Emit(make("code", S_normalize_code(SubSeq(text, pos + n, Closer(n) - 1)), pos + n),
                                Closer(n) + n)
                        /\ Newlines(Closer(n) + n, Closer(n) - pos, n)
    /\ Same

handle_backslash ==
    /\ At("BS")
    /\ IF Peek(pos + 1) \in Punct
       THEN Emit(make("text", <<Peek(pos + 1)>>, pos), pos + 2) /\ SameLine
       ELSE IF Peek(pos + 1) \in LineEnd
       THEN LET next == skip_line_end(text, pos + 1)
            IN  NewLine(next) /\ Emit(make("linebreak", <<>>, pos), skip_spaces(text, next))
       ELSE Emit(make("text", <<"BS">>, pos), pos + 1) /\ SameLine
    /\ Same /\ NoScan

handle_entity ==
    /\ At("&")
    /\ LET ent == houdini_unescape_ent(text, pos + 1)
       IN  Emit(make("text", <<ent.lit>>, pos), pos + 1 + ent.len)
    /\ Same /\ NoScan /\ SameLine

\* Raw HTML after a "<" just before p: how many characters it has, and the flags
\* that a scan sets when it reaches the end of the text without its terminator.
Html(p) ==
    LET Found(len) == [len |-> len, flags |-> flags]
        Unless(skip, len) ==          \* with its terminator, len characters
            IF p - 1 + len > Len(text) THEN [len |-> 0, flags |-> flags \cup {skip}] ELSE Found(len)
        comment == scan_html_comment(text, p + 1)
        cdata == scan_html_cdata(text, p + 2)
        declaration == scan_html_declaration(text, p + 1)
    IN  CASE p + 1 > Len(text) -> Found(0)
          [] Peek(p) = "!" /\ "COMMENT" \notin flags ->
               CASE Data(p + 1) = "-" /\ Data(p + 2) = "-" ->
                      IF Data(p + 3) = ">" THEN Found(4)
                      ELSE IF Data(p + 3) = "-" /\ Data(p + 4) = ">" THEN Found(5)
                      ELSE IF comment > 0 THEN Found(comment + 1)
                      ELSE [len |-> 0, flags |-> flags \cup {"COMMENT"}]
                 [] Data(p + 1) = "[" ->
                      IF "CDATA" \in flags \/ cdata = 0 THEN Found(0) ELSE Unless("CDATA", cdata + 5)
                 [] OTHER ->
                      IF "DECLARATION" \in flags \/ declaration = 0 THEN Found(0)
                      ELSE Unless("DECLARATION", declaration + 2)
          [] Peek(p) = "?" ->
               IF "PI" \in flags THEN Found(0) ELSE Unless("PI", scan_html_pi(text, p + 1) + 3)
          [] OTHER -> Found(scan_html_tag(text, p))

handle_pointy_brace ==
    /\ At("<")
    /\ LET p == pos + 1
           uri == scan_autolink_uri(text, p)
           email == scan_autolink_email(text, p)
           html == Html(p)
           len == IF html.len = 0 /\ Liberal THEN scan_liberal_html_tag(text, p) ELSE html.len
           link(n, mailto) ==
               /\ Emit([make("link", houdini_unescape_html(SubSeq(text, p, p + n - 2)), pos)
                           EXCEPT !.mailto = mailto], p + n)
               /\ SameLine /\ UNCHANGED flags
       IN  IF uri > 0 THEN link(uri, FALSE)
           ELSE IF email > 0 THEN link(email, TRUE)
           ELSE /\ flags' = html.flags
                /\ IF len > 0
                   THEN Emit(make("html", SubSeq(text, pos, pos + len), pos), p + len)
                        /\ Newlines(p + len, len, 1)
                   ELSE Emit(make("text", <<"<">>, pos), p) /\ SameLine
    /\ Same /\ UNCHANGED <<backticks, scanned_for_backticks>>

Copies(c, n) == [k \in 1 .. n |-> c]
Dashes(n) ==
    CASE n = 1 -> <<"-">>
      [] n % 3 = 0 -> Copies("EM", n \div 3)
      [] n % 3 # 0 /\ n % 2 = 0 -> Copies("EN", n \div 2)
      [] n % 6 = 5 -> Append(Copies("EM", (n - 2) \div 3), "EN")
      [] n % 6 = 1 /\ n > 1 -> Copies("EM", (n - 4) \div 3) \o Copies("EN", 2)
handle_hyphen ==
    /\ At("-")
    /\ LET n == IF Smart THEN Len(Span({"-"}, text, pos)) ELSE 1
       IN  Emit(make("text", Dashes(n), pos), pos + n)
    /\ Same /\ NoScan /\ SameLine

handle_period ==
    /\ At(".")
    /\ LET n == IF Smart THEN Min({3, Len(Span({"."}, text, pos))}) ELSE 1
       IN  Emit(make("text", IF n = 3 THEN <<"ELLIPSES">> ELSE Copies(".", n), pos), pos + n)
    /\ Same /\ NoScan /\ SameLine

\* try_extensions, and what becomes of text that no case takes
Match == IF ~ AutolinkOn THEN NoLink
         ELSE CASE Peek(pos) = ":" -> url_match(text, pos)
                [] Peek(pos) = "www" -> www_match(text, pos)
                [] OTHER -> NoLink
Special == {"CR", "LF", "BS", "BQ", "&", "_", "*", "[", "]", "<", "!", "^"}
           \cup (IF AutolinkOn THEN {":", "www"} ELSE {})
           \cup (IF Smart THEN {"DQ", "SQ", ".", "-"} ELSE {})
subject_find_special_char ==
    Min({Len(text) + 1} \cup {k \in pos + 1 .. Len(text) : text[k] \in Special})
InInlines == {"*", "_", "[", "]", "SQ", "DQ"}
AtText == pc = "inlines" /\ pos <= Len(text)
          /\ Peek(pos) \notin LineEnd \cup InInlines \cup {"NUL", "BQ", "BS", "&", "<", "-", "."}

\* The other cases are in Inlines: this model stops.
ToInlines == /\ pc = "inlines" /\ Peek(pos) \in InInlines
             /\ pc' = "stopped"
             /\ UNCHANGED <<content, options, refs, subject, out>>

\* cmark_node_unput takes n characters back from the text nodes at the end.
cmark_node_unput_None(nodes, n) == nodes
RECURSIVE cmark_node_unput(_, _)
cmark_node_unput(nodes, n) ==
    IF n = 0 \/ nodes = <<>> \/ Last(nodes).type # "text" THEN nodes
    ELSE LET lit == Last(nodes).lit
             left == SubSeq(lit, 1, Len(lit) - n)
         IN  Append(cmark_node_unput(Front(nodes), IF Len(lit) < n THEN n - Len(lit) ELSE 0),
                    [Last(nodes) EXCEPT !.lit = left])

\* The column that url_match records is an offset into the text.
try_extensions ==
    /\ AtText /\ Match.len > 0
    /\ LET from == pos - Match.rewind
           node == make("link", SubSeq(text, from, pos + Match.len - 1), from)
       IN  /\ out' = Append(cmark_node_unput(out, Match.rewind),
                            [node EXCEPT !.col = IF Peek(pos) = ":" THEN from - 1 ELSE @ - 1])
           /\ pos' = pos + Match.len
    /\ Same /\ NoScan /\ SameLine

handle_text ==
    /\ AtText /\ Match.len = 0
    /\ LET end == subject_find_special_char
           s == SubSeq(text, pos, end - 1)
           lit == IF Peek(end) \in LineEnd /\ ~ PreserveWhitespace THEN cmark_chunk_rtrim(s) ELSE s
       IN  Emit(make("text", lit, pos), end)
    /\ Same /\ NoScan /\ SameLine

-----------------------------------------------------------------------------
\* cmark_consolidate_text_nodes, then the addresses in each text node.
Consolidated(nodes) ==
    FoldLeft(LAMBDA done, n : IF done # <<>> /\ Last(done).type = "text" /\ n.type = "text"
                              THEN Append(Front(done), [Last(done) EXCEPT !.lit = @ \o n.lit])
                              ELSE Append(done, n),
             <<>>, nodes)
\* New nodes have no position.
Postprocessed(node) ==
    IF node.type # "text" THEN <<node>>
    ELSE LET parts == postprocess_text(node.lit, 1, 1)
         IN  [k \in DOMAIN parts |->
                 IF k = 1 THEN [node EXCEPT !.lit = parts[1].lit]
                 ELSE parts[k] @@ [from |-> 0, line |-> 0, col |-> 0]]

cmark_parser_finish ==
    /\ pc = "inlines" /\ Peek(pos) = "NUL"
    /\ pc' = IF AutolinkOn THEN "postprocess" ELSE "done"
    /\ out' = Consolidated(out)
    /\ UNCHANGED <<content, options, refs, subject>>
postprocess ==
    /\ pc = "postprocess" /\ pc' = "done"
    /\ out' = FlattenSeq([k \in DOMAIN out |-> Postprocessed(out[k])])
    /\ UNCHANGED <<content, options, refs, subject>>

Parsed == pc \in {"done", "stopped"} /\ UNCHANGED vars

Next == \/ resolve_reference_link_definitions \/ FreeBlank \/ cmark_parse_inlines
        \/ handle_newline \/ handle_backticks \/ handle_backslash \/ handle_entity
        \/ handle_pointy_brace \/ handle_hyphen \/ handle_period \/ try_extensions \/ handle_text
        \/ ToInlines \/ cmark_parser_finish \/ postprocess \/ Parsed
Spec == Init /\ [][Next]_vars

-----------------------------------------------------------------------------
\* scan_to_closing_backticks trusts what earlier scans recorded: when it gives up
\* without a scan, no run of the same length is ahead.
CodeSpanNotMissed ==
    At("BQ") => LET n == Len(Span({"BQ"}, text, pos))
                IN  n <= MAXBACKTICKS /\ KnownUnclosed(n) => Closer(n) = 0

\* The scanners of instructions, declarations and CDATA leave out the terminator,
\* which handle_pointy_brace then counts without reading it: an inline of raw
\* HTML nevertheless ends with the terminator of its kind.
Terminators == {<<<<"<", "!", "-", "-">>, <<"-", "-", ">">>>>, <<<<"<", "?">>, <<"?", ">">>>>,
                <<<<"<", "!", "[", "CDATA", "[">>, <<"]", "]", ">">>>>}
RawHtmlTerminated ==
    \A k \in DOMAIN out : out[k].type = "html" =>
        /\ Last(out[k].lit) = ">"
        /\ \A t \in Terminators : IsPrefix(t[1], out[k].lit) => IsSuffix(t[2], out[k].lit)

\* Lines and columns follow the text through breaks, and through the newlines in
\* code spans and raw HTML that adjust_subj_node_newlines counts afterwards: an
\* inline starts where its position says.
LineOf(p) == 1 + Cardinality({k \in 1 .. p - 1 : text[k] = "LF"})
ColumnOf(p) == p - Max({0} \cup {k \in 1 .. p - 1 : text[k] = "LF"})
StartsExact ==
    ~ PreserveWhitespace =>
        \A k \in DOMAIN out : LET n == out[k] IN
            n.from > 0 /\ (n.type = "link" => text[n.from] = "<")
                => n.line = LineOf(n.from) /\ n.col = ColumnOf(n.from)

\* Links that extensions find take characters back from nodes already made, and
\* addresses split text nodes: of a text without markup, each character is still
\* in one node, in its order.
Markup == {"BS", "&", "<", "BQ", "LF"}
TextKept ==
    pc # "definitions" /\ ~ Smart /\ ToSet(text) \cap Markup = {}
        => FlattenSeq([k \in DOMAIN out |-> out[k].lit]) = SubSeq(text, 1, pos - 1)

\* The scanners that look at the same text for different callers agree. At most
\* one opener of a block takes a line, whatever the order in open_new_blocks; a
\* fence that closes could open; raw HTML that is an inline starts, and if it is
\* on one line ends, a block of its kind; a URI has a scheme; and scan_entity,
\* which scanners.h offers and nothing calls yet, finds what the parser unescapes (of
\* numbers, those within the scanner's seven digits, or six hexadecimal ones). What
\* the renderers escape comes back when it is read again, entities in the text
\* included, and S_lookup finds the entities that the renderers write.
Openers(s) == {k \in 1 .. 5 : CASE k = 1 -> scan_atx_heading_start(s, 1) > 0
                                [] k = 2 -> scan_open_code_fence(s, 1) > 0
                                [] k = 3 -> scan_html_block_start(s, 1) + scan_html_block_start_7(s, 1) > 0
                                [] k = 4 -> scan_footnote_definition(s, 1) > 0
                                [] k = 5 -> scan_setext_heading_line(s, 1) > 0}
BlockEnds(s, kind) == CASE kind = 1 -> scan_html_block_end_1(s, 1) [] kind = 2 -> scan_html_block_end_2(s, 1)
                        [] kind = 3 -> scan_html_block_end_3(s, 1) [] kind = 4 -> scan_html_block_end_4(s, 1)
                        [] kind = 5 -> scan_html_block_end_5(s, 1) [] OTHER -> 1
ScannersAgree ==
    pc = "definitions" /\ content # <<>> =>
        LET s == content
            inline == scan_html_tag(s, 2)
            kind == IF s[1] # "<" THEN 0
                    ELSE IF scan_html_comment(s, 3) > 0 /\ s[2] = "!" THEN 2
                    ELSE IF IsPrefix(<<"?", ">">>, SubSeq(s, 3 + scan_html_pi(s, 3), Len(s))) /\ s[2] = "?" THEN 3
                    ELSE 0
        IN  /\ Cardinality(Openers(s)) <= 1
            /\ scan_close_code_fence(s, 1) > 0 => scan_open_code_fence(s, 1) = scan_close_code_fence(s, 1)
            /\ (scan_html_block_start_7(s, 1) > 0) =
                 (s[1] = "<" /\ inline > 0 /\ ToSet(SubSeq(s, inline + 2, Len(s))) \subseteq {"SP", "TAB", "FF", "LF"})
            /\ kind > 0 => scan_html_block_start(s, 1) = kind
            /\ kind > 0 /\ Count("LF", s, Len(s)) = 1 => BlockEnds(s, kind) > 0
            /\ scan_autolink_uri(s, 1) > 0 => scan_scheme(s, 1) > 0
            /\ scan_dangerous_url(s, 1) > 0 => scan_scheme(s, 1) = scan_dangerous_url(s, 1)
            /\ s[1] = "&" /\ houdini_unescape_ent(s, 2).len \in 1 .. 9
                 => scan_entity(s, 1) = houdini_unescape_ent(s, 2).len + 1
            /\ houdini_unescape_html(houdini_escape_html0(s)) = s

\* test/spec.txt:3038: a definition whose title is followed by other text "has no
\* title". What a definition is made of is taken from the paragraph.
TitleConsumed == \A k \in DOMAIN refs : refs[k].taken <= refs[k].end
=============================================================================

------------------------------ MODULE LinkParts ------------------------------
(***************************************************************************)
(* The parts of a link and of a reference definition as src/inlines.c      *)
(* reads them: label, destination, title, attributes. A function that the  *)
(* code lets return -1, or that rewinds, gives NoPart.                     *)
(***************************************************************************)
EXTENDS Escape

CONSTANTS MAX_LINK_LABEL_LENGTH,  \* 1000 in the code
          MaxParens               \* 32 in the code: nesting in a destination
ASSUME LinkPartsAssumption == MAX_LINK_LABEL_LENGTH \in Nat /\ MaxParens \in Nat

NoPart == [end |-> 0]
Part(text, from, to, end) == [end |-> end, lit |-> SubSeq(text, from, to)]

skip_spaces(text, p) == p + Len(Span(Blank, text, p))
\* Past a line end; 0 when there is something else.
skip_line_end(text, p) ==
    LET n == Longest(Opt(C("CR")) ** Opt(C("LF")), text, p)
    IN  IF n > 0 \/ p > Len(text) THEN p + n ELSE 0
spnl(text, p) ==
    LET q == skip_spaces(text, p)
    IN  IF skip_line_end(text, q) > 0 THEN skip_spaces(text, skip_line_end(text, q)) ELSE q

\* The character after p, past an escape; the first unescaped one of S.
Skip(text, p) == IF text[p] = "BS" /\ CharAt(text, p + 1) \in Punct THEN p + 2 ELSE p + 1
RECURSIVE StopAt(_, _, _)
StopAt(S, text, p) ==
    IF p > Len(text) \/ text[p] \in S THEN p ELSE StopAt(S, text, Skip(text, p))

link_label(text, start, for_attribute) ==
    LET open == IF for_attribute THEN <<"^", "[">> ELSE <<"[">>
        p == start + Len(open)
        stop == StopAt({"[", "]"}, text, p)
    IN  IF SubSeq(text, start, p - 1) = open /\ CharAt(text, stop) = "]"
           /\ stop - p <= MAX_LINK_LABEL_LENGTH
        THEN [end |-> stop + 1, lit |-> cmark_chunk_trim(SubSeq(text, p, stop - 1))]
        ELSE NoPart

\* Up to a ")" that no "(" since the start opens, or up to one of S; 0 when it
\* nests too deep.
RECURSIVE Balanced(_, _, _, _)
Balanced(S, text, p, nb_p) ==
    IF p > Len(text) \/ text[p] \in S \/ (text[p] = ")" /\ nb_p = 0) THEN p
    ELSE IF text[p] = "(" /\ nb_p = MaxParens THEN 0
    ELSE Balanced(S, text, Skip(text, p),
                  CASE text[p] = "(" -> nb_p + 1 [] text[p] = ")" -> nb_p - 1 [] OTHER -> nb_p)

manual_scan_link_url_2(text, p) ==
    LET end == Balanced(spacechar, text, p, 0)
    IN  IF end \in p .. Len(text) /\ text[p] \notin spacechar
        THEN Part(text, p, end - 1, end) ELSE NoPart
manual_scan_attribute_attributes(text, p) ==
    LET end == Balanced({}, text, p, 0)
    IN  IF end \in p .. Len(text) THEN Part(text, p, end - 1, end) ELSE NoPart

\* Between "<" and ">", a backslash skips whatever follows it.
RECURSIVE PointyEnd(_, _)
PointyEnd(text, p) ==
    IF p > Len(text) \/ text[p] \in {"LF", "<", ">"} THEN p
    ELSE PointyEnd(text, IF text[p] = "BS" THEN p + 2 ELSE p + 1)
manual_scan_link_url(text, p) ==
    IF CharAt(text, p) # "<" THEN manual_scan_link_url_2(text, p)
    ELSE LET close == PointyEnd(text, p + 1)
         IN  IF CharAt(text, close) = ">" /\ close < Len(text)
             THEN Part(text, p + 1, close - 1, close + 1) ELSE NoPart

\* A reference definition at the start of text: where it ends, what it defines,
\* and up to where that is taken from.
cmark_parse_reference_inline(text) ==
    LET lab == link_label(text, 1, FALSE)
        url == manual_scan_link_url(text, spnl(text, lab.end + 1))
        before == url.end
        after == spnl(text, before)
        n == IF after = before THEN 0 ELSE scan_link_title(text, after)
        from == IF n = 0 THEN before ELSE after
        title == SubSeq(text, after, after + n - 1)
        lineEnd(p) == skip_line_end(text, skip_spaces(text, p))
        end == IF n > 0 /\ lineEnd(after + n) > 0 THEN lineEnd(after + n) ELSE lineEnd(before)
    IN  IF lab.end > 0 /\ lab.lit # <<>> /\ CharAt(text, lab.end) = ":" /\ url.end > 0 /\ end > 0
        THEN [end |-> end, label |-> lab.lit, url |-> cmark_clean_url(url.lit),
              title |-> cmark_clean_title(title), taken |-> from + n]
        ELSE NoPart

\* ^[label]: attributes, to the end of the line.
cmark_parse_reference_attributes_inline(text) ==
    LET lab == link_label(text, 1, TRUE)
        p == spnl(text, lab.end + 1)
        attributes == Span(Char \ (LineEnd \cup {"NUL"}), text, p)
    IN  IF lab.end > 0 /\ lab.lit # <<>> /\ CharAt(text, lab.end) = ":" /\ attributes # <<>>
        THEN [end |-> skip_line_end(text, p + Len(attributes)), label |-> lab.lit,
              attributes |-> cmark_clean_url(attributes), taken |-> p + Len(attributes)]
        ELSE NoPart

\* The destination and title of an inline link, text[p] being its "(".
InlineLink(text, p) ==
    LET url == manual_scan_link_url(text, p + 1 + scan_spacechars(text, p + 1))
        start == url.end + scan_spacechars(text, url.end)
        n == IF start = url.end THEN 0 ELSE scan_link_title(text, start)
        close == start + n + scan_spacechars(text, start + n)
    IN  IF CharAt(text, p) = "(" /\ url.end > 0 /\ CharAt(text, close) = ")"
        THEN [end |-> close + 1, url |-> cmark_clean_url(url.lit),
              title |-> cmark_clean_title(SubSeq(text, start, start + n - 1))]
        ELSE NoPart
=============================================================================

------------------------------- MODULE Escape -------------------------------
(***************************************************************************)
(* Entities and escapes: src/houdini_html_u.c, src/houdini_html_e.c,       *)
(* src/houdini_href_e.c, cmark_strbuf_unescape, and the cleaning of        *)
(* destinations and titles in src/inlines.c. Texts are sequences of the    *)
(* characters of Scanners.                                                 *)
(***************************************************************************)
EXTENDS Scanners, SequencesExt

\* Some of the 2125 entities of src/entities.inc, in its order: the bytes of the
\* name, and what it stands for.
Entity(key, lit) == [key |-> key, lit |-> lit]
cmark_entities == <<Entity(<<97, 109, 112>>, "&"), Entity(<<103, 116>>, ">"),
                    Entity(<<105, 109, 97, 103, 101>>, "U"), Entity(<<108, 116>>, "<"),
                    Entity(<<108, 116, 99, 99>>, "U"), Entity(<<113, 117, 111, 116>>, "DQ")>>
Bytes(word) == CASE word = "amp" -> <<97, 109, 112>> [] word = "gt" -> <<103, 116>>
                 [] word = "image" -> <<105, 109, 97, 103, 101>> [] word = "lt" -> <<108, 116>>
                 [] word = "quot" -> <<113, 117, 111, 116>> [] OTHER -> <<120>>

\* S_lookup halves low..hi until entry i is s; strncmp stops at the end of s.
strncmp(s, t) ==
    LET d == {k \in DOMAIN s : k > Len(t) \/ s[k] # t[k]}
    IN  IF d = {} THEN 0 ELSE IF Min(d) <= Len(t) /\ s[Min(d)] < t[Min(d)] THEN -1 ELSE 1
RECURSIVE S_lookup(_, _, _, _)
S_lookup(i, low, hi, s) ==
    LET key == cmark_entities[i].key
        cmp == strncmp(s, key)
        down == i - (i - low) \div 2
        up == i + (hi - i) \div 2
    IN  IF cmp = 0 /\ Len(key) = Len(s) THEN {cmark_entities[i].lit}
        ELSE IF cmp <= 0 /\ i > low THEN S_lookup(IF down = i THEN i - 1 ELSE down, low, i - 1, s)
        ELSE IF cmp > 0 /\ i < hi THEN S_lookup(IF up = i THEN i + 1 ELSE up, i + 1, hi, s)
        ELSE {}
S_lookup_entity(s) ==
    S_lookup(Len(cmark_entities) \div 2 + 1, 1, Len(cmark_entities), s)

\* The character of a number; 0, surrogates and what is too large become U+FFFD.
TooLarge == 1114112
CharOf(n) == CASE n \in {9} -> "TAB" [] n = 10 -> "LF" [] n = 11 -> "VT" [] n = 12 -> "FF"
               [] n = 13 -> "CR" [] n \in 1 .. 8 \cup 14 .. 31 \cup {127} -> "CTL"
               [] n = 32 -> "SP" [] n = 38 -> "&" [] n = 39 -> "SQ" [] n = 47 -> "/"
               [] n = 48 -> "0" [] n = 49 -> "1" [] n = 65 -> "A" [] n = 97 -> "a"
               [] n \in 98 .. 122 -> "z" [] OTHER -> "U"
Value(d) == CASE d \in {"a", "A"} -> 10 [] d = "0" -> 0 [] d = "1" -> 1
RECURSIVE Codepoint(_, _)
Codepoint(digits, base) ==
    IF digits = <<>> THEN 0
    ELSE Min({TooLarge, Codepoint(Front(digits), base) * base + Value(Last(digits))})

\* The characters of S from position p on.
Span(S, text, p) == LET n == Longest(Many(One(S)), text, p) IN SubSeq(text, p, p + n - 1)
CharAt(text, p) == IF p \in DOMAIN text THEN text[p] ELSE "NUL"

\* The entity after an "&" just before p: how long it is, 0 when there is none,
\* and what it stands for.
houdini_unescape_ent(text, p) ==
    LET hex == CharAt(text, p + 1) \in {"x", "X"}
        first == IF hex THEN p + 2 ELSE p + 1
        digits == Span(IF hex THEN Hex ELSE Digit, text, first)
        end == first + Len(digits)
    IN  IF CharAt(text, p) = "#"
        THEN IF Len(digits) \in 1 .. 8 /\ CharAt(text, end) = ";"
             THEN [len |-> end + 1 - p, lit |-> CharOf(Codepoint(digits, IF hex THEN 16 ELSE 10))]
             ELSE [len |-> 0, lit |-> "&"]
        ELSE LET entity == S_lookup_entity(Bytes(CharAt(text, p)))
             IN  IF CharAt(text, p + 1) = ";" /\ entity # {}
                 THEN [len |-> 2, lit |-> CHOOSE c \in entity : TRUE]
                 ELSE [len |-> 0, lit |-> "&"]

RECURSIVE houdini_unescape_html(_)
houdini_unescape_html(text) ==
    IF text = <<>> THEN <<>>
    ELSE IF text[1] # "&" THEN <<text[1]>> \o houdini_unescape_html(Tail(text))
    ELSE LET ent == houdini_unescape_ent(text, 2)
         IN  <<ent.lit>> \o houdini_unescape_html(SubSeq(text, 2 + ent.len, Len(text)))

\* A backslash before punctuation goes away.
RECURSIVE cmark_strbuf_unescape(_)
cmark_strbuf_unescape(text) ==
    IF text = <<>> THEN <<>>
    ELSE IF text[1] = "BS" /\ CharAt(text, 2) \in Punct
    THEN <<text[2]>> \o cmark_strbuf_unescape(SubSeq(text, 3, Len(text)))
    ELSE <<text[1]>> \o cmark_strbuf_unescape(Tail(text))

cmark_chunk_rtrim(text) ==
    LET rest == {k \in DOMAIN text : text[k] \notin spacechar}
    IN  SubSeq(text, 1, Max({0} \cup rest))
cmark_chunk_ltrim(text) ==
    LET rest == {k \in DOMAIN text : text[k] \notin spacechar}
    IN  SubSeq(text, Min({Len(text) + 1} \cup rest), Len(text))
cmark_chunk_trim(text) == cmark_chunk_rtrim(cmark_chunk_ltrim(text))

cmark_clean_url(text) == cmark_strbuf_unescape(houdini_unescape_html(cmark_chunk_trim(text)))
cmark_clean_title(text) ==
    LET quoted == Len(text) > 1 /\ <<text[1], Last(text)>> \in {<<"SQ", "SQ">>, <<"(", ")">>, <<"DQ", "DQ">>}
    IN  cmark_strbuf_unescape(houdini_unescape_html(
            IF quoted THEN SubSeq(text, 2, Len(text) - 1) ELSE text))

\* What the HTML and XML renderers write for a text (not in secure mode), and
\* what they write for a destination: <<"%", c>> is c as %XX.
HtmlEscape_NoAmp(c) == CASE c = "<" -> <<"&", "lt", ";">> [] OTHER -> <<c>>
HtmlEscape(c) == CASE c = "DQ" -> <<"&", "quot", ";">> [] c = "&" -> <<"&", "amp", ";">>
                   [] c = "<" -> <<"&", "lt", ";">> [] c = ">" -> <<"&", "gt", ";">>
                   [] OTHER -> <<c>>
houdini_escape_html0(text) == FlattenSeq([k \in DOMAIN text |-> HtmlEscape(text[k])])

HREF_SAFE == Alnum \cup (Punct \ {"DQ", "&", "SQ", "<", ">", "[", "BS", "]", "^", "BQ", "{", "|", "}"})
HrefEscape(c) == CASE c \in HREF_SAFE -> <<c>> [] c = "&" -> <<"&", "amp", ";">>
                   [] c = "SQ" -> <<"&", "#", "x", "27", ";">> [] OTHER -> <<<<"%", c>>>>
houdini_escape_href(text) == FlattenSeq([k \in DOMAIN text |-> HrefEscape(text[k])])
=============================================================================

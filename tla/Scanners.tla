------------------------------ MODULE Scanners ------------------------------
(***************************************************************************)
(* The scanners of src/scanners.c and extensions/ext_scanners.c. Each is   *)
(* an automaton that re2c generated; here it is the expression that the    *)
(* automaton recognises. A character is a code point, a word that the      *)
(* scanners know (which matches like a letter), or BAD, a byte that is not *)
(* UTF-8, which no expression matches.                                     *)
(***************************************************************************)
EXTENDS Regex

Raw == {"script"}               \* script, pre, textarea, style
BlockTag == {"div"}             \* the names in blocktagname
Dangerous == {"javascript", "file", "data"}
Image == {"png"}                \* png, gif, jpeg, webp
Known == {"image", "www", "CDATA", "http", "mailto", "xmpp", "amp", "lt", "gt", "quot"}
         \cup Raw \cup BlockTag \cup Dangerous \cup Image
Lower == {"a", "x", "z"} \cup (Known \ {"CDATA"})
Upper == {"A", "X", "CDATA"}
Letter == Lower \cup Upper
Digit == {"0", "1"}
Hex == {"a", "A"} \cup Digit
Alnum == Letter \cup Digit
Punct == {"!", "DQ", "#", "$", "%", "&", "SQ", "(", ")", "*", "+", ",", "-", ".", "/", ":",
          ";", "<", "=", ">", "?", "@", "[", "BS", "]", "^", "_", "BQ", "{", "|", "}", "~"}
Blank == {"SP", "TAB"}
Space == Blank \cup {"VT", "FF"}
LineEnd == {"LF", "CR"}
spacechar == Space \cup LineEnd
Control == {"NUL", "CTL"} \cup (spacechar \ {"SP"})
Char == Alnum \cup Punct \cup {"SP", "U"} \cup Control  \* U: beyond ASCII
Not(S) == One(Char \ S)
C(c) == One({c})

escaped_char == C("BS") ** One(Punct)
tagname == One(Letter) ** Many(One(Alnum \cup {"-"}))
attributename == One(Letter \cup {"_", ":"}) ** Many(One(Alnum \cup {":", ".", "_", "-"}))
unquotedvalue == Some(Not(spacechar \cup {"DQ", "SQ", "=", "<", ">", "BQ", "NUL"}))
Quoted(q) == C(q) ** Many(Not({q, "NUL"})) ** C(q)
attributevalue == unquotedvalue || Quoted("SQ") || Quoted("DQ")
attribute == Some(One(spacechar)) ** attributename
             ** Opt(Many(One(spacechar)) ** C("=") ** Many(One(spacechar)) ** attributevalue)
opentag == tagname ** Many(attribute) ** Many(One(spacechar)) ** Opt(C("/")) ** C(">")
closetag == C("/") ** tagname ** Many(One(spacechar)) ** C(">")
scheme == One(Known) || (One(Letter) ** Times(One(Alnum \cup {".", "+", "-"}), 1, 31))
label == One(Alnum) ** Opt(Times(One(Alnum \cup {"-"}), 0, 61) ** One(Alnum))

scan_scheme(text, p) == Longest(scheme ** C(":"), text, p)
scan_autolink_uri(text, p) ==
    Longest(scheme ** C(":") ** Many(Not(Control \cup {"SP", "<", ">"})) ** C(">"), text, p)
scan_autolink_email(text, p) ==
    Longest(Some(One(Alnum \cup {".", "!", "#", "$", "%", "&", "SQ", "*", "+", "/", "=", "?", "^",
                                 "_", "BQ", "{", "|", "}", "~", "-"}))
            ** C("@") ** label ** Many(C(".") ** label) ** C(">"), text, p)

\* Raw HTML, after its "<", "<!", "<?"...: a tag, and what is not a tag
scan_html_tag(text, p) == Longest(opentag || closetag, text, p)
scan_liberal_html_tag(text, p) == Longest(Some(Not({"LF", "NUL"})) ** C(">"), text, p)
scan_html_comment(text, p) ==
    Longest(Word(<<"-", "-">>)
            ** Many(Some(Not({"NUL", "-"})) || (C("-") ** Not({"NUL", "-"}))
                    || (Word(<<"-", "-">>) ** Not({"NUL", ">"})))
            ** Word(<<"-", "-", ">">>), text, p)
scan_html_pi_ToPointy(text, p) == Longest(Some(Not({">", "NUL"})), text, p)
scan_html_pi(text, p) ==
    Longest(Some(Some(Not({"?", ">", "NUL"})) || (C("?") ** Not({">", "NUL"})) || C(">")),
            text, p)
scan_html_declaration(text, p) ==
    Longest(Some(One(Upper)) ** Some(One(spacechar)) ** Many(Not({">", "NUL"})), text, p)
scan_html_cdata(text, p) ==
    Longest(Word(<<"CDATA", "[">>)
            ** Many(Some(Not({"]", "NUL"})) || (C("]") ** Not({"]", "NUL"}))
                    || (Word(<<"]", "]">>) ** Not({">", "NUL"}))), text, p)

\* The first of the rules with the longest match decides; 0 without a match.
Rule(rules, text, p) ==
    LET n == [k \in DOMAIN rules |-> Longest(rules[k], text, p)]
        best == Max({n[k] : k \in DOMAIN rules})
    IN  IF best = 0 THEN 0 ELSE Min({k \in DOMAIN rules : n[k] = best})

scan_html_block_start(text, p) ==
    Rule(<<C("<") ** One(Raw) ** One(spacechar \cup {">"}),
           Word(<<"<", "!", "-", "-">>),
           Word(<<"<", "?">>),
           Word(<<"<", "!">>) ** One(Upper),
           Word(<<"<", "!", "[", "CDATA", "[">>),
           C("<") ** Opt(C("/")) ** One(BlockTag) ** (One(spacechar) || (Opt(C("/")) ** C(">")))>>,
         text, p)
scan_html_block_start_7(text, p) ==
    IF Longest(C("<") ** (opentag || closetag) ** Many(One({"TAB", "LF", "FF", "SP"}))
               ** One(LineEnd), text, p) > 0 THEN 7 ELSE 0

EndOfBlock(r, text, p) == Longest(Many(Not({"LF", "NUL"})) ** r, text, p)
scan_html_block_end_1(text, p) == EndOfBlock(Word(<<"<", "/">>) ** One(Raw) ** C(">"), text, p)
scan_html_block_end_2(text, p) == EndOfBlock(Word(<<"-", "-", ">">>), text, p)
scan_html_block_end_3(text, p) == EndOfBlock(Word(<<"?", ">">>), text, p)
scan_html_block_end_4(text, p) == EndOfBlock(C(">"), text, p)
scan_html_block_end_5(text, p) == EndOfBlock(Word(<<"]", "]", ">">>), text, p)

Title(open, close) == C(open) ** Many(escaped_char || Not({open, close, "NUL"})) ** C(close)
scan_link_title(text, p) ==
    Longest(Title("DQ", "DQ") || Title("SQ", "SQ") || Title("(", ")"), text, p)
scan_spacechars(text, p) == Longest(Some(One(spacechar)), text, p)

\* Lines that open or close blocks
scan_atx_heading_start(text, p) ==
    Longest(Times(C("#"), 1, 6) ** (Some(One(Blank)) || One(LineEnd)), text, p)
scan_setext_heading_line(text, p) ==
    Rule(<<Some(C("=")) ** Many(One(Blank)) ** One(LineEnd),
           Some(C("-")) ** Many(One(Blank)) ** One(LineEnd)>>, text, p)
Fence(c) == C(c) ** C(c) ** Some(C(c))
scan_open_code_fence(text, p) ==
    Max({LongestBefore(Fence("BQ"), Many(Not(LineEnd \cup {"BQ", "NUL"})) ** One(LineEnd), text, p),
         LongestBefore(Fence("~"), Many(Not(LineEnd \cup {"NUL"})) ** One(LineEnd), text, p)})
scan_close_code_fence_AnyTail(text, p) == LongestBefore(Fence("BQ") || Fence("~"), Many(One(Blank \cup {"BQ", "~"})), text, p)
scan_close_code_fence(text, p) ==
    LongestBefore(Fence("BQ") || Fence("~"), Many(One(Blank)) ** One(LineEnd), text, p)
scan_footnote_definition(text, p) ==
    Longest(Word(<<"[", "^">>) ** Some(Not({"]", "SP", "CR", "LF", "NUL", "TAB"}))
            ** Word(<<"]", ":">>) ** Many(One(Blank)), text, p)

scan_entity(text, p) ==
    Longest(C("&") ** ((C("#") ** ((One({"x", "X"}) ** Times(One(Hex), 1, 6)) || Times(One(Digit), 1, 7)))
                       || One(Known) || (One(Letter) ** Times(One(Alnum), 1, 31)))
            ** C(";"), text, p)

\* data: is not dangerous before an image type, which is the longer match.
scan_dangerous_url(text, p) ==
    IF Longest(Word(<<"data", ":", "image", "/">>) ** One(Image), text, p) > 0 THEN 0
    ELSE Longest(One(Dangerous) ** C(":"), text, p)

\* The extensions' scanners: their classes do not exclude NUL.
newline == Opt(C("CR")) ** C("LF")
table_marker == Many(One(Space)) ** Opt(C(":")) ** Some(C("-")) ** Opt(C(":")) ** Many(One(Space))
scan_table_start(text, p) ==
    Longest(Opt(C("|")) ** table_marker ** Many(C("|") ** table_marker) ** Opt(C("|"))
            ** Many(One(Space)) ** newline, text, p)
scan_table_cell(text, p) == Longest(Some(escaped_char || Not({"|", "CR", "LF"})), text, p)
scan_table_cell_end(text, p) == Longest(C("|") ** Many(One(Space)), text, p)
scan_table_row_end(text, p) == Longest(Many(One(Space)) ** newline, text, p)
scan_tasklist(text, p) ==
    Longest(Many(One(Space)) ** (One({"-", "+", "*"}) || (Some(One(Digit)) ** Not({"LF"})))
            ** Some(One(Space)) ** C("[") ** One({"SP", "x", "X"}) ** C("]") ** Some(One(Space)),
            text, p)
=============================================================================

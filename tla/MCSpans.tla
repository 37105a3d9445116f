------------------------------ MODULE MCSpans ------------------------------
(***************************************************************************)
(* Paragraphs for Spans: every sequence of at most n pieces of a group,    *)
(* after one of its beginnings, as the block phase collects it: a line end *)
(* at the end, no blank line, no space at the start of a line.             *)
(***************************************************************************)
EXTENDS Spans
Collected(s) == s[1] \notin {"SP", "LF"}
                /\ \A k \in 1 .. Len(s) - 1 : s[k] = "LF" => s[k + 1] \notin {"SP", "LF"}
Texts(starts, pieces, n) ==
    {s \in {b \o FlattenSeq(t) \o <<"LF">> :
               b \in starts, t \in UNION {[1 .. k -> pieces] : k \in 0 .. n}} : Collected(s)}
Chars(S) == {<<c>> : c \in S}
Group(starts, pieces, n, opts) == [content : Texts(starts, pieces, n), options : opts]

Backticks == Group({<<>>}, Chars({"BQ", "a", "LF"}), 7, {{}})
RawHtml == Group({<<"<", "!", "-", "-">>, <<"<", "?">>, <<"<", "!", "X", "SP">>,
                  <<"<", "!", "[", "CDATA", "[">>, <<"<", "a", "SP">>, <<"<", "/">>},
                 {<<"-", "-", ">">>, <<"?", ">">>, <<"]", "]", ">">>, <<"a">>, <<"LF">>,
                  <<"<", "?">>, <<"<", "!", "X", "SP">>}, 3, {{}})
Liberals == Group({<<"<">>}, Chars({"a", "=", ">", "SP", "SQ"}), 4, {{}, {"LIBERAL_HTML_TAG"}})
Pointy == Group({<<"<", "http">>, <<"<", "a">>}, Chars({":", "a", "@", ".", ">"}), 4, {{}})
Entities == Group({<<>>, <<"&">>, <<"&", "#">>}, Chars({"&", "#", "x", "1", "a", ";", "amp", "lt"}), 3, {{}})
SmartText == Group({<<>>}, Chars({"-", ".", "a"}), 6, {{"SMART"}})
Breaks == Group({<<"a">>}, Chars({"SP", "LF", "BS", "a"}), 5, {{}, {"PRESERVE_WHITESPACE"}})
Links == Group({<<>>, <<"a", "SP">>, <<"www", ".", "a">>, <<"http", ":", "/", "/">>}, {<<"www", ".">>, <<"http", ":", "/", "/">>, <<"a">>, <<"_">>,
                <<")">>, <<"&", "a", ";">>, <<"(">>, <<"SP">>, <<".">>}, 3, {{"autolink"}})
Emails == Group({<<>>, <<"a", "@">>}, {<<"a">>, <<"@">>, <<".">>, <<"mailto", ":">>, <<"xmpp", ":">>,
                 <<"SP">>, <<"/">>}, 4, {{"autolink"}})
Refs == Group({<<"[", "a", "]", ":">>, <<"^", "[", "a", "]", ":">>},
              {<<"a">>, <<"SP">>, <<"LF">>, <<"DQ", "a", "DQ">>, <<"<", "a", ">">>, <<"(">>, <<")">>,
               <<"[", "a", "]", ":", "a">>}, 4, {{}})
Lines == Group({<<"BQ", "BQ", "BQ">>, <<"~", "~", "~">>, <<"<", "div">>, <<"<", "script">>, <<"javascript", ":">>,
                <<"data", ":">>, <<"#">>, <<"-">>, <<"[", "^", "a", "]", ":">>},
               Chars({"SP", "BQ", "~", ">", "a", "image", "/", "-"}), 3, {{}})
MCParagraphs == Backticks \cup RawHtml \cup Liberals \cup Pointy \cup Entities \cup SmartText
                \cup Breaks \cup Links \cup Emails \cup Refs \cup Lines
=============================================================================

------------------------------ MODULE MCOutput ------------------------------
(***************************************************************************)
(* Instances of Output. Only the letters a and z of a text are followed to *)
(* the output; addresses and labels have other letters.                    *)
(***************************************************************************)
EXTENDS Output

With(type, lit) == [Node(type) EXCEPT !.lit = lit]
A == With("text", <<"a">>)
Par(lit) == <<Node("paragraph"), With("text", lit)>>
Url == <<"http", ":", "x">>
ListOf(start, tight) == <<[Node("list") EXCEPT !.num = start, !.flag = tight], Node("item")>>
Mode(format, width, options) == [format |-> format, width |-> width, options |-> options]
Plain(formats) == {Mode(f, 0, {}) : f \in formats}
TextFormats == {"commonmark", "plaintext", "latex", "man"}

\* Lists whose numbers gain a digit, quotes and code in them
Lists ==
    [kinds |-> {ListOf(99, TRUE), ListOf(0, FALSE), <<Node("item")>>, <<[Node("item") EXCEPT !.num = 1]>>,
                <<Node("block_quote")>>, Par(<<"a">>), Par(<<"z">>),
                <<With("code_block", <<"a", "z", "LF", "a", "LF">>)>>},
     size |-> 6, modes |-> Plain(TextFormats \cup {"html", "xml"})]

\* Emphasis, links and images in a paragraph
Inlines ==
    [kinds |-> {<<A>>, <<Node("emph")>>, <<Node("strong")>>, <<With("link", Url)>>, <<With("text", Url)>>,
                <<With("image", Url)>>, <<With("code", <<"z">>)>>, <<Node("softbreak")>>,
                <<Node("paragraph")>>},
     size |-> 5, modes |-> Plain(TextFormats \cup {"html", "xml"})]

\* Lines that are wrapped
Wraps ==
    [kinds |-> {<<Node("block_quote")>>, <<[Node("heading") EXCEPT !.num = 1]>>, <<Node("paragraph")>>,
                <<With("text", <<"a", "SP", "a", "SP", "1", ".", "SP", "z">>)>>,
                <<With("text", <<"z", "SP", "-", "SP", "a">>)>>, <<Node("linebreak")>>,
                <<Node("softbreak")>>, <<Node("emph")>>},
     size |-> 5, modes |-> {Mode(f, w, o) : f \in TextFormats, w \in {4, 5}, o \in {{}, {"NOBREAKS"}}}]

\* Definitions in the text, in each other, twice, unused; references in any of them
Notes ==
    [kinds |-> {<<With("footnote_definition", <<l>>)>> : l \in {"n", "m"}}
               \cup {<<Node("paragraph"), With("footnote_reference", <<l>>)>> : l \in {"n", "m"}}
               \cup {<<With("footnote_reference", <<"n">>)>>},
     size |-> 7, modes |-> Plain({"html", "commonmark", "plaintext"})]

\* Tables
Cell == <<Node("table_cell")>>
Tables ==
    [kinds |-> {<<[Node("table") EXCEPT !.num = 2], [Node("table_row") EXCEPT !.flag = TRUE]>>,
                <<Node("table_row")>>, Cell, Cell \o <<A>>, Cell \o <<Node("strikethrough"), With("text", <<"z", "|">>)>>,
                <<[Node("table_cell") EXCEPT !.colspan = 0]>>, <<[Node("table_cell") EXCEPT !.rowspan = 0]>>},
     size |-> 9, modes |-> Plain(TextFormats \cup {"html", "xml"})]

\* Raw HTML, headings, breaks and attributes
Blocks ==
    [kinds |-> {<<With("html_block", <<"<", "script", ">", "<", "div", ">">>)>>, <<Node("thematic_break")>>,
                <<Node("paragraph"), With("html_inline", <<"<", "script", ">">>)>>,
                <<[Node("heading") EXCEPT !.num = 2], A>>, <<With("attribute", <<"x">>), A>>,
                <<With("code_block", <<"a", "LF">>)>>, <<Node("linebreak")>>, ListOf(2, TRUE)},
     size |-> 5, modes |-> {Mode(f, 0, o) : f \in TextFormats \cup {"html"}, o \in {{}, {"UNSAFE", "HARDBREAKS"}}}
                         \cup {Mode("html", 0, {"UNSAFE", "tagfilter"})}]

MCCorpora == <<Lists, Inlines, Wraps, Notes, Tables, Blocks>>
=============================================================================

------------------------------- MODULE Output -------------------------------
(***************************************************************************)
(* From the parsed tree to its output. The tree grows in the order of the  *)
(* source, process_footnotes finishes it, and one of the renderers then    *)
(* handles one event of the walk per step.                                 *)
(***************************************************************************)
EXTENDS Html, Formats
CONSTANT Corpora    \* of each: the chains of nodes to add (kinds), the nodes that a tree
                    \* may have (size), the formats, widths and options (modes)
VARIABLES corpus, phase, tree, event, mode, r
vars == <<corpus, phase, tree, event, mode, r>>

HtmlMode == mode.format = "html"
XmlMode == mode.format = "xml"
TextMode == mode.format \in {"commonmark", "plaintext", "latex", "man"}

Init == /\ corpus \in DOMAIN Corpora
        /\ phase = "build" /\ tree = <<Node("document")>>
        /\ event = Event(1, "enter") /\ mode = [format |-> "none"] /\ r = RendererInit

\* The parser: a node becomes the last child of a node that is still open.
RECURSIVE LastPath(_, _)
LastPath(t, n) == {n} \cup IF Kids(t, n) = <<>> THEN {} ELSE LastPath(t, Last(Kids(t, n)))
AddTo(t, parent, node) ==
    Append([t EXCEPT ![parent].kids = Append(@, Len(t) + 1)], [node EXCEPT !.parent = parent])
RECURSIVE AddChain(_, _, _)
AddChain(t, parent, chain) ==
    IF chain = <<>> THEN t ELSE AddChain(AddTo(t, parent, Head(chain)), Len(t) + 1, Tail(chain))
\* Two texts in a row are one node, the first row of a table is its header, and
\* its rows have the table's number of cells.
Follows(t, parent, node) ==
    LET kids == Kids(t, parent)
        before == IF kids = <<>> THEN "none" ELSE t[Last(kids)].type
    IN  /\ CanContain(t[parent].type, node.type)
        /\ node.type \in {"text", "softbreak"} => before # node.type
        /\ node.type = "table_row" => node.flag = (kids = <<>>)
        /\ node.type = "table_cell" => Len(kids) < t[t[parent].parent].num
Complete(t) ==
    \A n \in DOMAIN t :
        /\ t[n].type \in {"paragraph", "list", "emph", "strong", "strikethrough", "table", "heading"}
              => Kids(t, n) # <<>>
        /\ t[n].type = "table_row" => Len(Kids(t, n)) = t[t[n].parent].num

Add(chain) ==
    /\ phase = "build" /\ Len(tree) + Len(chain) <= Corpora[corpus].size
    /\ \E parent \in LastPath(tree, 1) :
          /\ Follows(tree, parent, chain[1])
          /\ tree' = AddChain(tree, parent, chain)
    /\ UNCHANGED <<corpus, phase, event, mode, r>>

\* The end of the parse, and the start of a renderer
Start(m) ==
    /\ phase = "build" /\ Complete(tree)
    /\ m.format = "man" => ~ManFails(tree)
    /\ tree' = process_footnotes(tree)
    /\ phase' = "walk" /\ mode' = m
    /\ r' = CASE m.format = "html" -> HtmlInit [] m.format = "xml" -> XmlInit [] OTHER -> RendererInit
    /\ UNCHANGED <<corpus, event>>

Entering == event.ev = "enter"
Walk == phase = "walk" /\ event # Done /\ UNCHANGED <<corpus, phase, tree, mode>>
WriteHtml ==
    /\ Walk /\ HtmlMode
    /\ r' = HtmlNode(tree, event.n, Entering, r, mode.options)
    /\ event' = NextEvent(tree, event)
WriteXml ==
    /\ Walk /\ XmlMode
    /\ r' = XmlNode(tree, event.n, Entering, r)
    /\ event' = NextEvent(tree, event)
WriteText ==
    /\ Walk /\ TextMode
    /\ r' = RenderNode(tree, event.n, Entering, r, mode)
    /\ event' = NextEvent(tree, IF SkipsContents(tree, event.n, Entering, mode.format)
                                THEN Event(event.n, "exit") ELSE event)
Finish ==
    /\ phase = "walk" /\ event = Done
    /\ phase' = "done"
    /\ r' = IF HtmlMode THEN HtmlFinish(r) ELSE IF XmlMode THEN r ELSE RenderFinish(r)
    /\ UNCHANGED <<corpus, tree, event, mode>>

Next == \/ \E chain \in Corpora[corpus].kinds : Add(chain)
        \/ \E m \in Corpora[corpus].modes : Start(m)
        \/ WriteHtml \/ WriteXml \/ WriteText \/ Finish
Spec == Init /\ [][Next]_vars
-----------------------------------------------------------------------------
\* The tags that are open after a sequence of them; "bad" under what does not nest.
StepTag(s, t) ==
    CASE t.op = "open" -> Append(s, t.tag)
      [] t.op = "close" -> IF s # <<>> /\ Last(s) = t.tag THEN Front(s) ELSE <<"bad">> \o s
      [] OTHER -> s
\* LaTeX: what braces and environments are open. A backslash escapes what follows.
StepLatex(s, c) ==
    LET top == IF s = <<>> THEN "none" ELSE Last(s)
    IN  CASE top \in {"BS"} -> Front(s)
          [] top = "\\begin" -> Append(Front(s), c)
          [] top = "\\end" -> IF Len(s) > 1 /\ s[Len(s) - 1] = c THEN SubSeq(s, 1, Len(s) - 2)
                              ELSE <<"bad">> \o Front(s)
          [] top = "verbatim" -> IF c = "\\end" THEN Append(s, c) ELSE s
          [] c \in {"BS", "\\begin", "\\end", "{"} -> Append(s, c)
          [] c = "}" -> IF top = "{" THEN Front(s) ELSE <<"bad">> \o s
          [] OTHER -> s

\* The XML tag at i starts a line with two spaces for each tag open there.
Depth(out, i) == Cardinality({j \in 1 .. i - 1 : out[j].op = "open"})
                 - Cardinality({j \in 1 .. i : out[j].op = "close"})
IndentOK(out) == \A i \in DOMAIN out :
                     "spaces" \in DOMAIN out[i] =>
                         out[i].spaces = Min({MAX_INDENT, 2 * Depth(out, i)})

\* An image's description is an attribute: there is no tag in it.
AltOK(out) ==
    \A i \in DOMAIN out : out[i] = Close("img") =>
        \E j \in 1 .. i - 1 : /\ out[j].op = "open" /\ out[j].tag = "img"
                              /\ \A k \in j + 1 .. i - 1 : out[k].op = "text"

\* The output is well formed whatever the order of the events: the tags of HTML
\* and XML nest and XML is indented by its depth, with no tag in an image's
\* description, the braces and environments of LaTeX nest, and what containers and
\* headings changed is as it was: no prefix is left and lines may break. html.c
\* (plain, footnotes, tables), xml.c (indent), latex.c (contents that are skipped)
WellFormed ==
    phase = "done" =>
        /\ HtmlMode \/ XmlMode => FoldLeft(StepTag, <<>>, r.out) = <<>>
        /\ HtmlMode => AltOK(r.out)
        /\ XmlMode => IndentOK(r.out)
        /\ mode.format = "latex" => FoldLeft(StepLatex, <<>>, r.buffer) = <<>>
        /\ TextMode => r.prefix = <<>> /\ ~r.no_linebreaks

\* process_footnotes leaves no reference to a definition that it freed: each one
\* in the tree has its number from the place of its definition among the document's
\* last children, and in HTML each has its own anchor and one link back to it. (Not
\* the converse: a definition that only one it drops refers to stays, and its link
\* back leads nowhere.)
FootnotesLinked ==
    phase # "build" =>
        LET defs == SelectSeq(Kids(tree, 1), LAMBDA n : tree[n].type = "footnote_definition")
            refs == {n \in DOMAIN tree : tree[n].type = "footnote_reference"}
            here(s) == {i \in DOMAIN r.out : r.out[i].href = s}
        IN  /\ IsSuffix(defs, Kids(tree, 1))
            /\ {n \in DOMAIN tree : tree[n].type = "footnote_definition"} = ToSet(defs)
            /\ \A n \in refs : /\ Contains(defs, tree[n].def)
                               /\ tree[n].lit = Number(Index(tree[n].def, defs))
                               /\ tree[n].ref_ix \in 1 .. tree[tree[n].def].def_count
            /\ \A m, n \in refs : m # n => <<tree[m].def, tree[m].ref_ix>> # <<tree[n].def, tree[n].ref_ix>>
            /\ phase = "done" /\ HtmlMode =>
                 \A i \in DOMAIN r.out : r.out[i].tag = "a" /\ r.out[i].id # <<>> =>
                     /\ Cardinality(here(r.out[i].id)) = 1
                     /\ Cardinality({j \in DOMAIN r.out : r.out[j].id = r.out[i].href}) = 1

\* Whatever a step writes, a line that is not empty starts with the prefix of the
\* containers it is in: after a line break, a wrapped line, a blank line.
LinePrefix(s, i, p) == LET line == SubSeq(s, i, Min({Len(s), i + Len(p) - 1}))
                       IN  line = p \/ line = <<>> \/ line[1] = "LF"
Common(s, u) == Max({k \in 0 .. Min({Len(s), Len(u)}) : SubSeq(s, 1, k) = SubSeq(u, 1, k)})
LinesPrefixed ==
    [][TextMode /\ TextMode' /\ phase' = "walk" =>
         LET p == IF Len(r.prefix) < Len(r.prefix') THEN r.prefix ELSE r.prefix'
         IN  \A i \in Common(r.buffer, r.buffer') + 1 .. Len(r'.buffer) :
                 r'.buffer[i] = "LF" => LinePrefix(r'.buffer, i + 1, p)]_vars

\* The contents that a renderer leaves out: an image's description in LaTeX, and
\* all that is in a link whose first child passes for its address.
Dropped ==
    {n \in DOMAIN tree :
        \/ mode.format = "latex" /\ tree[n].type = "image"
        \/ /\ tree[n].type = "link" /\ is_autolink(tree, n)
           /\ \/ mode.format = "commonmark"
              \/ mode.format = "latex" /\ ~Mailto(tree[n].lit)}

\* Outside the contents that is_autolink and LaTeX images have dropped, the letters
\* of the document's text are written in order and once, whatever is escaped,
\* wrapped or put around them. (What is dropped is lost, also where is_autolink
\* takes an image for the address.)
Marked == {"a", "z"}
Letters(s) == SelectSeq(s, LAMBDA c : c \in Marked)
Written == IF TextMode THEN r.buffer
           ELSE FlattenSeq([i \in DOMAIN r.out |-> IF r.out[i].op = "text" THEN r.out[i].lit ELSE <<>>])
Shown == {"text", "code", "code_block"}
\* The text of the tree without the contents of the nodes in S
TextOutside(t, S) ==
    LET hidden == UNION {ToSet(Preorder(t, n)) : n \in S}
        shown == SelectSeq(Preorder(t, 1), LAMBDA n : n \notin hidden /\ t[n].type \in Shown)
    IN  FlattenSeq([k \in DOMAIN shown |-> t[shown[k]].lit])
LettersWritten == phase = "done" => Letters(Written) = Letters(TextOutside(tree, Dropped))
=============================================================================

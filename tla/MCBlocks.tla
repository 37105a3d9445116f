------------------------------ MODULE MCBlocks ------------------------------
(* Blocks for TLC: the documents of the runs. *)
EXTENDS Blocks

Texts(prefixes) == {Line(p, "text") : p \in prefixes}
Plain(bodies) == {Line(<< >>, b) : b \in bodies}

\* A line for every way to open, continue and close each kind of block.
AnyLine ==
    Texts({<< >>, <<"sp">>, <<"sp", "sp">>, <<"*">>, <<"+">>, <<"sp", "*">>, <<"*", "*">>,
           <<"*", ">">>, <<">">>, <<"fn">>})
      \cup Plain({"blank", "def", "fence", "setext", "head", "break", "html1", "end1"})
      \cup {Line(<<"*">>, "blank"), Line(<<">">>, "blank"), Line(<<"sp">>, "def"),
            Line(<<"*">>, "fence")}

\* The lines of lists, in longer documents.
ListLine ==
    Texts({<< >>, <<"sp">>, <<"*">>, <<"sp", "*">>, <<">">>})
      \cup {Line(<< >>, "blank"), Line(<<"sp">>, "def"), Line(<<"*">>, "fence")}
NestedListLine == Texts({<<"sp">>, <<"*">>, <<"sp", "*">>}) \cup Plain({"blank", "fence"})

AllDocuments ==
    {[of |-> AnyLine, max |-> 3], [of |-> ListLine, max |-> 4],
     [of |-> NestedListLine, max |-> 5]}
=============================================================================

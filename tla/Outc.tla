-------------------------------- MODULE Outc --------------------------------
(***************************************************************************)
(* outc of the four formats that render.c serves: the characters that are  *)
(* written for character c when next follows it in the string. The caller  *)
(* writes a LITERAL string itself. Characters beyond ASCII that man and    *)
(* LaTeX have names for are left out: they are written like U.             *)
(***************************************************************************)
EXTENDS Document

\* commonmark.c
Percent == [SP |-> <<"%", "2", "0">>, TAB |-> <<"%", "SP", "9">>, LF |-> <<"%", "SP", "A">>]
Entity == [TAB |-> "&#9;", LF |-> "&#10;"]
NeedsEscaping(escaping, r, c, next) ==
    LET follows_digit == r.buffer # <<>> /\ IsDigit(r.buffer[Len(r.buffer)])
    IN  \/ /\ escaping = "NORMAL"
           /\ \/ c \in DOMAIN Entity \cup {"*", "_", "[", "]", "#", "<", ">", "BS", "BQ", "~", "!"}
              \/ c = "&" /\ next \in Sc!Letter
              \/ c = "^" /\ next = "["
              \/ r.begin_content /\ c \in {"-", "+", "="} /\ ~follows_digit
              \/ /\ r.begin_content /\ c \in {".", ")"} /\ follows_digit
                 /\ next \in Sc!spacechar \cup {"END"}
        \/ escaping = "URL" /\ c \in DOMAIN Percent \cup {"BQ", "<", ">", "BS", ")", "("}
        \/ escaping = "TITLE" /\ c \in {"BQ", "<", ">", "DQ", "BS"}
CommonMarkOutc(escaping, r, c, next) ==
    IF ~NeedsEscaping(escaping, r, c, next) THEN <<c>>
    ELSE IF escaping = "URL" /\ c \in DOMAIN Percent THEN Percent[c]
    ELSE IF c \in DOMAIN Entity THEN <<Entity[c]>> ELSE <<"BS", c>>

\* latex.c: a command with {} after it is one character, braces of their own are not.
LatexOutc(escaping, c, next) ==
    CASE c \in {"{", "}", "#", "%", "&"} -> <<"BS", c>>
      [] c \in {"$", "_"} /\ escaping = "NORMAL" -> <<"BS", c>>
      [] c = "-" /\ next = "-" -> <<"-", "{", "}">>
      [] c = "~" /\ escaping = "NORMAL" -> <<"\\textasciitilde{}">>
      [] c = "^" -> <<"\\^{}">>
      [] c = "BS" -> IF escaping = "URL" THEN <<"/">> ELSE <<"\\textbackslash{}">>
      [] c = "|" -> <<"\\textbar{}">>
      [] c = "<" -> <<"\\textless{}">>
      [] c = ">" -> <<"\\textgreater{}">>
      [] c \in {"[", "]"} -> <<"{", c, "}">>
      [] c = "DQ" -> <<"\\textquotedbl{}">>
      [] c = "SQ" -> <<"\\textquotesingle{}">>
      [] OTHER -> <<c>>

\* man.c
ManOutc(r, c) ==
    CASE c \in {".", "SQ"} /\ r.begin_line -> <<"BS", "&", c>>
      [] c = "-" -> <<"BS", "-">>
      [] c = "BS" -> <<"BS", "e">>
      [] OTHER -> <<c>>

outc(format, escaping, r, c, next) ==
    CASE format = "commonmark" -> CommonMarkOutc(escaping, r, c, next)
      [] format = "latex" -> LatexOutc(escaping, c, next)
      [] format = "man" -> ManOutc(r, c)
      [] format = "plaintext" -> <<c>>
=============================================================================

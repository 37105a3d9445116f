------------------------------- MODULE Render -------------------------------
(***************************************************************************)
(* src/render.c: the renderer that the CommonMark, plain text, LaTeX and   *)
(* man formats share. A format turns an event into commands (module        *)
(* Formats); this module carries them out. The output is a sequence of     *)
(* characters. A piece of markup that is always written whole (a LaTeX or  *)
(* man command) counts as one character and as one column.                 *)
(***************************************************************************)
EXTENDS Outc

\* The characters that follow a position; END is the NUL at the end of a string.
Peek(s, i) == IF i \in DOMAIN s THEN s[i] ELSE "END"

RendererInit == [buffer |-> <<>>, prefix |-> <<>>, column |-> 0, need_cr |-> 0,
                 last_breakable |-> 0, begin_line |-> TRUE, begin_content |-> TRUE,
                 no_linebreaks |-> FALSE, in_tight_list_item |-> FALSE, footnote_ix |-> 0]

Cmd(op) == [op |-> op, s |-> <<>>, wrap |-> FALSE, escaping |-> "LITERAL", k |-> 0]
Out(s, wrap, escaping) == <<[Cmd("out") EXCEPT !.s = s, !.wrap = wrap, !.escaping = escaping]>>
LIT(s) == Out(s, FALSE, "LITERAL")
CR == <<Cmd("cr")>>
BLANKLINE == <<Cmd("blankline")>>
Push(s) == <<[Cmd("push") EXCEPT !.s = s]>>            \* onto the prefix
Pop(k) == <<[Cmd("pop") EXCEPT !.k = k]>>
BeginContent == <<Cmd("begin_content")>>
NoLinebreaks(on) == <<[Cmd("no_linebreaks") EXCEPT !.wrap = on]>>

-----------------------------------------------------------------------------
\* The line breaks that are due. k starts at the end of the buffer and steps back
\* over line ends already there, but not over the ones written here.
RECURSIVE NewLines(_, _)
NewLines(r, k) ==
    LET there == k < 1 \/ r.buffer[k] = "LF"
        due == <<"LF">> \o IF r.need_cr > 1 THEN r.prefix ELSE <<>>
    IN  IF r.need_cr = 0 THEN r
        ELSE NewLines([r EXCEPT !.buffer = IF there THEN @ ELSE @ \o due,
                                !.column = 0, !.last_breakable = 0, !.begin_line = TRUE,
                                !.begin_content = TRUE, !.need_cr = @ - 1],
                      IF there THEN k - 1 ELSE k)

PutPrefix(r) == IF r.begin_line
                THEN [r EXCEPT !.buffer = @ \o r.prefix, !.column = Len(r.prefix)] ELSE r
\* The extension of the node's ancestors may ask for a backslash.
PutBackslash(r, c, bar) == IF bar /\ c = "|" THEN [r EXCEPT !.buffer = Append(@, "BS")] ELSE r
\* A character as outc writes it
PutChars(r, c, written) ==
    [r EXCEPT !.buffer = @ \o written, !.column = @ + Len(written), !.begin_line = FALSE,
              !.begin_content = @ /\ IsDigit(c)]
PutLineEnd(r) ==
    [r EXCEPT !.buffer = Append(@, "LF"), !.column = 0, !.begin_line = TRUE,
              !.begin_content = TRUE, !.last_breakable = 0]
\* A run of spaces, where the line may be broken unless a digit follows; none at
\* the start of a line.
PutSpace(r, next) ==
    IF r.begin_line THEN r
    ELSE [r EXCEPT !.buffer = Append(@, "SP"), !.column = @ + 1, !.begin_content = FALSE,
                   !.last_breakable = IF IsDigit(next) THEN @ ELSE Len(r.buffer)]
\* Mutant: the rest of a broken line starts a character late.
Break_Late(r, width) ==
    LET remainder == SubSeq(r.buffer, r.last_breakable + 3, Len(r.buffer))
    IN  IF width = 0 \/ r.column <= width \/ r.begin_line \/ r.last_breakable = 0 THEN r
        ELSE [r EXCEPT !.buffer = SubSeq(@, 1, r.last_breakable) \o <<"LF">> \o r.prefix \o remainder,
                       !.column = Len(r.prefix) + Len(remainder), !.last_breakable = 0,
                       !.begin_content = FALSE]
\* Mutant: the rest of a broken line has no prefix.
Break_NoPrefix(r, width) ==
    LET remainder == SubSeq(r.buffer, r.last_breakable + 2, Len(r.buffer))
    IN  IF width = 0 \/ r.column <= width \/ r.begin_line \/ r.last_breakable = 0 THEN r
        ELSE [r EXCEPT !.buffer = SubSeq(@, 1, r.last_breakable) \o <<"LF">> \o remainder,
                       !.column = Len(remainder), !.last_breakable = 0,
                       !.begin_content = FALSE]
\* Break a line that became too long at last_breakable.
Break(r, width) ==
    LET remainder == SubSeq(r.buffer, r.last_breakable + 2, Len(r.buffer))
    IN  IF width = 0 \/ r.column <= width \/ r.begin_line \/ r.last_breakable = 0 THEN r
        ELSE [r EXCEPT !.buffer = SubSeq(@, 1, r.last_breakable) \o <<"LF">> \o r.prefix \o remainder,
                       !.column = Len(r.prefix) + Len(remainder), !.last_breakable = 0,
                       !.begin_content = FALSE]

\* cx: the format, the width, and whether a bar is escaped here
RECURSIVE OutFrom(_, _, _, _, _)
OutFrom(r, cmd, cx, s, i) ==
    IF i > Len(s) THEN r
    ELSE LET c == s[i]
             wrap == cmd.wrap /\ ~r.no_linebreaks
             last == CHOOSE j \in i .. Len(s) : /\ \A k \in i .. j : s[k] = c
                                                /\ Peek(s, j + 1) # c
             p == PutBackslash(PutPrefix(r), c, cx.bar)
             space == c = "SP" /\ wrap
             q == IF space THEN PutSpace(p, Peek(s, last + 1))
                  ELSE IF cmd.escaping # "LITERAL"
                  THEN PutChars(p, c, outc(cx.format, cmd.escaping, p, c, Peek(s, i + 1)))
                  ELSE IF c = "LF" THEN PutLineEnd(p) ELSE PutChars(p, c, <<c>>)
         IN  OutFrom(Break(q, cx.width), cmd, cx, s,
                     IF space /\ ~p.begin_line THEN last + 1 ELSE i + 1)

S_out(r, cmd, cx) ==
    LET due == IF r.in_tight_list_item /\ r.need_cr > 1 THEN [r EXCEPT !.need_cr = 1] ELSE r
    IN  OutFrom(NewLines(due, Len(due.buffer)), cmd, cx, cmd.s, 1)

Do(r, cmd, cx) ==
    CASE cmd.op = "out" -> S_out(r, cmd, cx)
      [] cmd.op = "cr" -> [r EXCEPT !.need_cr = IF @ < 1 THEN 1 ELSE @]
      [] cmd.op = "blankline" -> [r EXCEPT !.need_cr = 2]
      [] cmd.op = "push" -> [r EXCEPT !.prefix = @ \o cmd.s]
      [] cmd.op = "pop" -> [r EXCEPT !.prefix = SubSeq(@, 1, Len(@) - cmd.k)]
      [] cmd.op = "begin_content" -> [r EXCEPT !.begin_content = TRUE]
      [] cmd.op = "no_linebreaks" -> [r EXCEPT !.no_linebreaks = cmd.wrap]
RenderCommands(r, cmds, cx) == FoldLeft(LAMBDA s, cmd : Do(s, cmd, cx), r, cmds)

\* The final newline
RenderFinish(r) == IF r.buffer # <<>> /\ Last(r.buffer) = "LF" THEN r
                   ELSE [r EXCEPT !.buffer = Append(@, "LF")]
=============================================================================

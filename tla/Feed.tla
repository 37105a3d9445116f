-------------------------------- MODULE Feed --------------------------------
(***************************************************************************)
(* How the parser cuts its input into lines: S_parser_feed, the four       *)
(* interfaces above it (cmark_parser_feed, cmark_parser_feed_reentrant,    *)
(* cmark_parse_document, cmark_parse_file) and cmark_parser_finish, in     *)
(* src/src/blocks.c.                                                       *)
(*                                                                         *)
(* A document arrives in buffers that may end anywhere, between the two    *)
(* bytes of a CRLF included.  What the buffers leave behind is linebuf and *)
(* last_buffer_ended_with_cr.  A line goes to S_process_line, where an     *)
(* extension may feed a buffer of its own before the line is dealt with.   *)
(***************************************************************************)
EXTENDS Integers, Sequences, FiniteSets, SequencesExt

CONSTANTS
    MaxDoc,      \* bytes of a document
    UINT_MAX,    \* where total_size saturates
    FileBuffer,  \* the size of the buffer of cmark_parse_file
    Nested       \* the buffers an extension feeds with cmark_parser_feed_reentrant

\* "x" stands for every byte that is neither a line ending nor NUL.
Bytes == {"x", "CR", "LF", "NUL"}

Buffers == BoundedSeq(Bytes, MaxDoc)

ASSUME FeedAssumption ==
    /\ MaxDoc \in Nat /\ UINT_MAX \in Nat /\ FileBuffer \in Nat \ {0}
    /\ Nested \subseteq Buffers

VARIABLES
    preserve,                   \* CMARK_OPT_PRESERVE_WHITESPACE
    client,                     \* the interface in use
    linebuf,
    last_buffer_ended_with_cr,
    total_size,
    frames,                     \* the active calls of S_parser_feed, the innermost last
    lines,                      \* the lines given to S_process_line, nested ones apart
    doc, fed,                   \* what the client has fed; the bytes fed in all
    nested,                     \* what extensions fed, and the lines this gave
    done                        \* cmark_parser_finish has returned this document

vars == <<preserve, client, linebuf, last_buffer_ended_with_cr, total_size, frames,
          lines, doc, fed, nested, done>>

Line(text, nl) == [text |-> text, nl |-> nl]

\* A call of S_parser_feed: what is left of the buffer, eof, whether it is inside
\* S_process_line, and the linebuf that cmark_parser_feed_reentrant restores.
Frame(rest, eof, saved) == [rest |-> rest, eof |-> eof, inLine |-> FALSE, saved |-> saved]

Init ==
    /\ preserve \in BOOLEAN
    /\ client \in {"feed", "document", "file"}
    /\ linebuf = << >>
    /\ last_buffer_ended_with_cr = FALSE
    /\ total_size = 0
    /\ frames = << >>
    /\ lines = << >> /\ doc = << >> /\ fed = 0
    /\ nested = [fed |-> << >>, lines |-> << >>]
    /\ done = FALSE

-----------------------------------------------------------------------------
(* S_parser_feed *)

top == frames[Len(frames)]

IsLineEnd(b) == b \in {"CR", "LF"}

Enlarged(size, len) == IF len > UINT_MAX - size THEN UINT_MAX ELSE size + len

\* Mutant of AfterSplitCRLF: a CRLF split over two buffers ends two lines.
AfterSplitCRLF_Forgotten(buf) == buf

\* "skip NL if last buffer ended with CR"
AfterSplitCRLF(buf) ==
    IF last_buffer_ended_with_cr /\ buf # << >> /\ Head(buf) = "LF" THEN Tail(buf) ELSE buf

\* The first line of S_parser_feed to its loop.
Enter(buf, eof, saved) ==
    /\ total_size' = Enlarged(total_size, Len(buf))
    /\ frames' = Append(frames, Frame(AfterSplitCRLF(buf), eof, saved))
    /\ last_buffer_ended_with_cr' = FALSE
    /\ fed' = fed + Len(buf)

\* The length of the part of buf before its first line ending or NUL.
ChunkLen(buf) == SelectInSeq(buf, LAMBDA b : IsLineEnd(b) \/ b = "NUL") - 1

Found(buf) == ChunkLen(buf) >= 0

Chunk(buf) == IF Found(buf) THEN SubSeq(buf, 1, ChunkLen(buf)) ELSE buf

\* From *eol on.
FromStop(buf) == IF Found(buf) THEN SubSeq(buf, ChunkLen(buf) + 1, Len(buf)) ELSE << >>

\* Mutant of Processes: the last line of a buffer fed with eof waits for more.
Processes_NotAtEof(f) == Found(f.rest) /\ IsLineEnd(Head(FromStop(f.rest)))

Processes(f) ==
    IF Found(f.rest) THEN IsLineEnd(Head(FromStop(f.rest))) ELSE f.eof

\* Skips a NUL, or one line ending: CR, LF or CRLF.
Skipped(stop) ==
    CASE stop = << >> -> << >>
      [] Len(stop) > 1 /\ stop[1] = "CR" /\ stop[2] = "LF" -> SubSeq(stop, 3, Len(stop))
      [] OTHER -> Tail(stop)

EndsWithCR(stop) == stop = <<"CR">>

Replace(rest, inLine) ==
    frames' = [frames EXCEPT ![Len(frames)].rest = rest, ![Len(frames)].inLine = inLine]

NextChunk ==
    /\ Replace(Skipped(FromStop(top.rest)), FALSE)
    /\ last_buffer_ended_with_cr' = (last_buffer_ended_with_cr \/ EndsWithCR(FromStop(top.rest)))

\* S_process_line, as far as this module goes: the line it is given.
Deliver(line) ==
    IF Len(frames) <= 1
    THEN lines' = Append(lines, line) /\ UNCHANGED nested
    ELSE nested' = [nested EXCEPT !.lines = Append(@, line)] /\ UNCHANGED lines

\* An iteration of the loop that completes a line, up to the call of S_process_line.
BeginLine ==
    /\ frames # << >> /\ ~top.inLine /\ top.rest # << >>
    /\ Processes(top)
    /\ LET text == IF linebuf # << >> THEN linebuf \o Chunk(top.rest) ELSE Chunk(top.rest)
       IN  /\ Deliver(Line(text, ~preserve \/ ~top.eof \/ Found(top.rest)))
           /\ linebuf' = IF linebuf # << >> THEN text ELSE linebuf
    /\ Replace(top.rest, TRUE)
    /\ UNCHANGED <<preserve, client, last_buffer_ended_with_cr, total_size, doc, fed, done>>

\* S_process_line has returned.
EndLine ==
    /\ frames # << >> /\ top.inLine
    /\ linebuf' = << >>
    /\ NextChunk
    /\ UNCHANGED <<preserve, client, total_size, lines, doc, fed, nested, done>>

\* An iteration that stops at a NUL or at the end of the buffer.
KeepPart ==
    /\ frames # << >> /\ ~top.inLine /\ top.rest # << >>
    /\ ~Processes(top)
    /\ linebuf' = linebuf \o Chunk(top.rest) \o
                    (IF Found(top.rest) THEN <<"U+FFFD">> ELSE << >>)
    /\ NextChunk
    /\ UNCHANGED <<preserve, client, total_size, lines, doc, fed, nested, done>>

\* S_parser_feed returns; cmark_parser_feed_reentrant then puts linebuf back.
Return ==
    /\ frames # << >> /\ ~top.inLine /\ top.rest = << >>
    /\ frames' = Front(frames)
    /\ linebuf' = IF Len(frames) > 1 THEN top.saved ELSE linebuf
    /\ UNCHANGED <<preserve, client, last_buffer_ended_with_cr, total_size, lines, doc,
                   fed, nested, done>>

-----------------------------------------------------------------------------
(* The interfaces *)

\* cmark_parser_reset has made the parser new, and the next document starts.
FeedTop(buf, eof) ==
    /\ frames = << >>
    /\ Enter(buf, eof, << >>)
    /\ doc' = IF done THEN buf ELSE doc \o buf
    /\ Len(doc') <= MaxDoc
    /\ lines' = IF done THEN << >> ELSE lines
    /\ done' = FALSE
    /\ UNCHANGED <<preserve, client, linebuf, nested>>

\* A client feeds at least one byte: with len = 0, S_parser_feed looks at a byte
\* that is not there.
cmark_parser_feed(buf) ==
    /\ client = "feed"
    /\ buf # << >>
    /\ FeedTop(buf, FALSE)

cmark_parse_document(buf) ==
    /\ client = "document" /\ fed = 0
    /\ buf # << >>
    /\ FeedTop(buf, TRUE)

\* fread fills the buffer, or the file has ended.
cmark_parse_file(buf) ==
    /\ client = "file" /\ (done \/ Len(doc) % FileBuffer = 0)
    /\ buf # << >> /\ Len(buf) <= FileBuffer
    /\ FeedTop(buf, Len(buf) < FileBuffer)

\* Called by an extension while S_process_line runs its hooks.
cmark_parser_feed_reentrant(buf) ==
    /\ frames # << >> /\ Len(frames) < 2 /\ top.inLine
    /\ nested.fed = << >>
    /\ Enter(buf, TRUE, linebuf)
    /\ linebuf' = << >>
    /\ nested' = [fed |-> buf, lines |-> << >>]
    /\ UNCHANGED <<preserve, client, lines, doc, done>>

\* cmark_parser_finish, with the cmark_parser_reset that ends it.
cmark_parser_finish ==
    /\ frames = << >> /\ ~done
    /\ lines' = IF linebuf = << >> THEN lines ELSE Append(lines, Line(linebuf, ~preserve))
    /\ done' = TRUE
    /\ linebuf' = << >>
    /\ last_buffer_ended_with_cr' = FALSE
    /\ total_size' = 0 /\ fed' = 0
    /\ nested' = [fed |-> << >>, lines |-> << >>]
    /\ UNCHANGED <<preserve, client, frames, doc>>

Next ==
    \/ \E buf \in Buffers : \/ cmark_parser_feed(buf)
                            \/ cmark_parse_document(buf)
                            \/ cmark_parse_file(buf)
    \/ \E buf \in Nested : cmark_parser_feed_reentrant(buf)
    \/ BeginLine \/ EndLine \/ KeepPart \/ Return
    \/ cmark_parser_finish

Spec == Init /\ [][Next]_vars

-----------------------------------------------------------------------------
(* What the lines of a document are, from the whole of it. *)

Text(d, from, to) ==
    [i \in 1 .. to - from + 1 |-> IF d[from + i - 1] = "NUL" THEN "U+FFFD" ELSE d[from + i - 1]]

IsCRLF(d, i) == i < Len(d) /\ d[i] = "CR" /\ d[i + 1] = "LF"

\* Where a line that ends with the byte at e is followed by the next.
After(d, e) == IF e > Len(d) THEN e ELSE IF IsCRLF(d, e) THEN e + 2 ELSE e + 1

\* The bytes of d from from on, up to before next, are one line; keep is preserve.
IsLine(d, from, next, line, keep) ==
    \E e \in from .. Len(d) + 1 :
        /\ from <= Len(d)
        /\ \A i \in from .. e - 1 : ~IsLineEnd(d[i])
        /\ e <= Len(d) => IsLineEnd(d[e])
        /\ next = After(d, e)
        /\ line = Line(Text(d, from, e - 1), e <= Len(d) \/ ~keep)

\* Line k is from start[k] to before start[k + 1].
IsLinesOf(ls, d, keep) ==
    \E start \in [1 .. Len(ls) + 1 -> 1 .. Len(d) + 1] :
        /\ start[1] = 1 /\ start[Len(ls) + 1] = Len(d) + 1
        /\ \A k \in 1 .. Len(ls) : IsLine(d, start[k], start[k + 1], ls[k], keep)

-----------------------------------------------------------------------------
(* Properties *)

\* Whatever buffers a document came in, and through whichever interface, the
\* lines that reached S_process_line when cmark_parser_finish returns are those
\* of the document as a whole, each once and in order, and total_size, which limits
\* what references may expand to, is the number of bytes fed and never wraps
\* (S_parser_feed).
SameLines == /\ done => IsLinesOf(lines, doc, preserve)
             /\ total_size = IF fed > UINT_MAX THEN UINT_MAX ELSE fed

\* A buffer fed by an extension is a text of its own: when its call returns, all
\* its lines have been processed, the last one too (cmark_parser_feed_reentrant).
NestedComplete ==
    Len(frames) < 2 => IsLinesOf(nested.lines, nested.fed, preserve)
=============================================================================

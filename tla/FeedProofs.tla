------------------------------ MODULE FeedProofs ------------------------------
(***************************************************************************)
(* The lines of Feed, for documents of any length cut into any buffers:    *)
(* what has been dealt with of a text is at every moment a number of whole *)
(* lines and the part of one, whatever the call that deals with it.        *)
(***************************************************************************)
EXTENDS Feed, TLAPS, SequenceTheorems, WellFoundedInduction

Chars == Bytes \union {"U+FFFD"}

Lines == [text : Seq(Chars), nl : BOOLEAN]

Frames == [rest : Seq(Bytes), eof : BOOLEAN, inLine : BOOLEAN, saved : Seq(Chars)]

Types ==
    /\ preserve \in BOOLEAN /\ last_buffer_ended_with_cr \in BOOLEAN /\ done \in BOOLEAN
    /\ linebuf \in Seq(Chars)
    /\ fed \in Nat
    /\ frames \in Seq(Frames) /\ Len(frames) <= 2
    /\ lines \in Seq(Lines) /\ doc \in Seq(Bytes)
    /\ nested \in [fed : Seq(Bytes), lines : Seq(Lines)]

\* The first p bytes of d are the lines ls and then part; whole: the last of ls has ended.
Sofar(d, ls, part, p, whole, keep) ==
    \E start \in [1 .. Len(ls) + 1 -> 1 .. p + 1] :
        LET s == start[Len(ls) + 1] IN
        /\ start[1] = 1
        /\ \A k \in 1 .. Len(ls) : IsLine(d, start[k], start[k + 1], ls[k], keep)
        /\ \A i \in s .. p : ~IsLineEnd(d[i])
        /\ part = Text(d, s, p)
        /\ whole /\ s > 1 => IsLineEnd(d[s - 1])

\* What S_parser_feed still has to read of d.
From(d, p) == SubSeq(d, p + 1, Len(d))

EndsIn(d, b) == d # <<>> /\ d[Len(d)] = b

\* The call f deals with d.
Running(f, d, ls, part, whole, keep) ==
    IF f.inLine
    THEN /\ f.rest # <<>>
         /\ \E p \in 0 .. Len(d) :
               /\ Skipped(FromStop(f.rest)) = From(d, p)
               /\ EndsWithCR(FromStop(f.rest)) <=> p = Len(d) /\ EndsIn(d, "CR")
               /\ Sofar(d, ls, <<>>, p, whole, keep)
    ELSE \E p \in 0 .. Len(d) : f.rest = From(d, p) /\ Sofar(d, ls, part, p, whole, keep)

\* No more is fed of this document.
Closed == \/ client = "document" /\ fed > 0
          \/ client = "file" /\ Len(doc) % FileBuffer # 0

Between ==
    frames = <<>> /\ ~done =>
        /\ Sofar(doc, lines, linebuf, Len(doc), ~Closed, preserve)
        /\ last_buffer_ended_with_cr <=> EndsIn(doc, "CR")

Outer ==
    frames # <<>> =>
        /\ ~done /\ fed > 0
        /\ frames[1].eof => Closed
        /\ Running(frames[1], doc, lines, linebuf, ~Closed, preserve)

\* The flag is up when the call has read its buffer and this ended in CR.
Alone ==
    Len(frames) = 1 =>
        (last_buffer_ended_with_cr <=>
            ~frames[1].inLine /\ frames[1].rest = <<>> /\ EndsIn(doc, "CR"))

Inner ==
    Len(frames) = 2 =>
        /\ frames[1].inLine /\ frames[2].eof
        /\ ~last_buffer_ended_with_cr /\ ~EndsIn(nested.fed, "CR")
        /\ Running(frames[2], nested.fed, nested.lines, linebuf, FALSE, preserve)
        /\ ~frames[2].inLine /\ frames[2].rest = <<>> =>
              linebuf = <<>> \/ EndsIn(nested.fed, "NUL")

Finished == done => linebuf = <<>> /\ ~last_buffer_ended_with_cr

IInv == Types /\ Between /\ Outer /\ Alone /\ Inner /\ Finished /\ SameLines

-----------------------------------------------------------------------------
(* Texts and parts of them *)

LEMMA SeqFacts ==
    ASSUME NEW S, NEW s \in Seq(S)
    PROVE  Len(s) \in Nat /\ DOMAIN s = 1 .. Len(s) /\ \A i \in 1 .. Len(s) : s[i] \in S
BY LenProperties, ElementOfSeq

LEMMA FunctionIsSeq ==
    ASSUME NEW S, NEW n \in Nat, NEW f \in [1 .. n -> S]
    PROVE  f \in Seq(S) /\ Len(f) = n
<1>1. f \in Seq(S)
  BY SeqDef
<1>2. Len(f) \in Nat /\ 1 .. Len(f) = 1 .. n
  BY <1>1, SeqFacts
<1>3. \A i \in Int : i \in 1 .. Len(f) <=> i \in 1 .. n
  BY <1>2
<1>4. Len(f) <= n /\ n <= Len(f)
  BY <1>2, <1>3
<1> QED BY <1>1, <1>2, <1>4

\* Names for \o and Append, that the provers do not look into.
Cat(s, t) == s \o t
Added(s, x) == Append(s, x)

\* How a byte is shown in a text.
Shown(b) == IF b = "NUL" THEN "U+FFFD" ELSE b

\* more is how d is shown after p up to q.
Shows(more, d, p, q) ==
    /\ more \in Seq(Chars) /\ Len(more) = q - p
    /\ \A i \in 1 .. q - p : more[i] = Shown(d[p + i])

LEMMA TextProps ==
    ASSUME NEW d \in Seq(Bytes), NEW from \in Nat \ {0}, NEW to \in Nat,
           from <= to + 1, to <= Len(d)
    PROVE  /\ Text(d, from, to) \in Seq(Chars)
           /\ Len(Text(d, from, to)) = to - from + 1
           /\ \A i \in 1 .. to - from + 1 :
                 Text(d, from, to)[i] =
                    Shown(d[from + i - 1])
<1> DEFINE n == to - from + 1
           t == [i \in 1 .. n |-> Shown(d[from + i - 1])]
<1>1. n \in Nat /\ Len(d) \in Nat
  BY SeqFacts
<1>2. \A i \in 1 .. n : t[i] \in Chars
  <2> SUFFICES ASSUME NEW i \in 1 .. n PROVE t[i] \in Chars
    OBVIOUS
  <2>1. from + i - 1 \in 1 .. Len(d)
    BY <1>1
  <2>2. d[from + i - 1] \in Bytes
    BY <2>1, SeqFacts
  <2> QED BY <2>2 DEF Chars, Shown
<1>3. t \in [1 .. n -> Chars]
  BY <1>2
<1>4. t \in Seq(Chars) /\ Len(t) = n
  BY <1>1, <1>3, FunctionIsSeq
<1>5. Text(d, from, to) = t
  BY DEF Text, Shown
<1> QED BY <1>4, <1>5

LEMMA TextEmpty ==
    ASSUME NEW d \in Seq(Bytes), NEW from \in Nat \ {0}, from <= Len(d) + 1
    PROVE  Text(d, from, from - 1) = <<>>
<1>1. from - 1 \in Nat /\ from <= (from - 1) + 1 /\ from - 1 <= Len(d)
  BY SeqFacts
<1>2. Text(d, from, from - 1) \in Seq(Chars) /\ Len(Text(d, from, from - 1)) = 0
  BY <1>1, TextProps
<1> QED BY <1>2, EmptySeq

\* A part that has no NUL is its own text.
LEMMA TextGrows ==
    ASSUME NEW d \in Seq(Bytes), NEW s \in Nat \ {0}, NEW p \in Nat, NEW q \in Nat,
           s <= p + 1, p <= q, q <= Len(d),
           NEW more, Shows(more, d, p, q)
    PROVE  Cat(Text(d, s, p), more) = Text(d, s, q)
<1> DEFINE part == Text(d, s, p)
           both == part \o more
           t == Text(d, s, q)
<1>1. /\ Len(d) \in Nat /\ more \in Seq(Chars) /\ Len(more) = q - p
      /\ \A i \in 1 .. q - p : more[i] = Shown(d[p + i])
  BY SeqFacts DEF Shows
<1>2. /\ part \in Seq(Chars) /\ Len(part) = p - s + 1
      /\ \A i \in 1 .. p - s + 1 :
            part[i] = Shown(d[s + i - 1])
  <2>1. p <= Len(d)
    BY <1>1
  <2> QED BY <2>1, TextProps
<1> HIDE DEF part
<1>3. /\ t \in Seq(Chars) /\ Len(t) = q - s + 1
      /\ \A i \in 1 .. q - s + 1 :
            t[i] = Shown(d[s + i - 1])
  <2>1. s <= q + 1
    OBVIOUS
  <2> QED BY <2>1, TextProps
<1>4. /\ both \in Seq(Chars) /\ Len(both) = q - s + 1
      /\ \A i \in 1 .. Len(both) :
            both[i] = IF i <= p - s + 1 THEN part[i] ELSE more[i - (p - s + 1)]
  <2>1. (p - s + 1) + (q - p) = q - s + 1
    OBVIOUS
  <2>2. /\ both \in Seq(Chars) /\ Len(both) = Len(part) + Len(more)
        /\ \A i \in 1 .. Len(part) + Len(more) :
              both[i] = IF i <= Len(part) THEN part[i] ELSE more[i - Len(part)]
    <3>1. part \in Seq(Chars) /\ more \in Seq(Chars)
      BY <1>1, <1>2
    <3> QED BY <3>1, ConcatProperties
  <2> HIDE DEF both
  <2> QED BY <1>1, <1>2, <2>1, <2>2
<1>5. \A i \in 1 .. q - s + 1 : both[i] = t[i]
  <2> SUFFICES ASSUME NEW i \in 1 .. q - s + 1 PROVE both[i] = t[i]
    OBVIOUS
  <2>1. CASE i <= p - s + 1
    <3>1. i \in 1 .. p - s + 1
      BY <2>1
    <3> HIDE DEF both, t
    <3> QED BY <1>2, <1>3, <1>4, <2>1, <3>1
  <2>2. CASE ~(i <= p - s + 1)
    <3> DEFINE j == i - (p - s + 1)
    <3>1. j \in 1 .. q - p /\ p + j = s + i - 1
      BY <2>2
    <3>2. both[i] = more[j]
      BY <1>4, <2>2
    <3>3. more[j] = Shown(d[s + i - 1])
      BY <1>1, <3>1
    <3> HIDE DEF both, t
    <3> QED BY <1>3, <3>2, <3>3
  <2> QED BY <2>1, <2>2
<1> HIDE DEF both, t
<1>6. both = t
  BY <1>3, <1>4, <1>5, SeqEqual
<1> QED BY <1>6 DEF both, t, part, Cat

LEMMA ChunkShows ==
    ASSUME NEW d, NEW p \in Nat, NEW q \in Nat,
           NEW more \in Seq(Bytes), Len(more) = q - p,
           \A i \in 1 .. q - p : more[i] = d[p + i] /\ d[p + i] # "NUL"
    PROVE  Shows(more, d, p, q)
<1>1. more \in Seq(Chars)
  BY SeqMonotonic DEF Chars
<1> QED BY <1>1 DEF Shown, Shows

-----------------------------------------------------------------------------
(* What an iteration of the loop reads *)

LEMMA FromProps ==
    ASSUME NEW d \in Seq(Bytes), NEW p \in 0 .. Len(d)
    PROVE  /\ From(d, p) \in Seq(Bytes) /\ Len(From(d, p)) = Len(d) - p
           /\ \A i \in 1 .. Len(d) - p : From(d, p)[i] = d[p + i]
           /\ \A r \in Seq(Bytes) :
                 Len(r) = Len(d) - p /\ (\A i \in 1 .. Len(r) : r[i] = d[p + i])
                    => r = From(d, p)
<1>1. Len(d) \in Nat /\ \A i \in 1 .. Len(d) : d[i] \in Bytes
  BY SeqFacts
<1>2. p + 1 \in Int /\ Len(d) \in Int /\ \A i \in p + 1 .. Len(d) : d[i] \in Bytes
  BY <1>1
<1>3. /\ From(d, p) \in Seq(Bytes)
      /\ Len(From(d, p)) = IF p + 1 <= Len(d) THEN Len(d) - (p + 1) + 1 ELSE 0
      /\ \A i \in 1 .. Len(d) - (p + 1) + 1 : From(d, p)[i] = d[(p + 1) + i - 1]
  BY <1>2, SubSeqProperties DEF From
<1>4. /\ Len(From(d, p)) = Len(d) - p
      /\ \A i \in 1 .. Len(d) - p : From(d, p)[i] = d[p + i]
  BY <1>1, <1>3
<1>5. ASSUME NEW r \in Seq(Bytes), Len(r) = Len(d) - p, \A i \in 1 .. Len(r) : r[i] = d[p + i]
      PROVE  r = From(d, p)
  BY <1>3, <1>4, <1>5, SeqEqual
<1> QED BY <1>3, <1>4, <1>5

LEMMA LeastStop ==
    ASSUME NEW I \in SUBSET Nat, I # {}
    PROVE  Min(I) \in I /\ \A i \in I : Min(I) <= i
<1>1. PICK m \in I : \A i \in I : m <= i
  <2> DEFINE R == {q \in Nat \X Nat : q[1] < q[2]}
  <2>1. IsWellFoundedOn(R, Nat)
    <3>1. R = OpToRel(<, Nat)
      BY DEF OpToRel
    <3> QED BY <3>1, NatLessThanWellFounded
  <2>2. \A x, y \in Nat : <<y, x>> \in R <=> y < x
    OBVIOUS
  <2> HIDE DEF R
  <2>3. PICK x \in I : \A y \in I : ~(<<y, x>> \in R)
    BY <2>1, WFMin
  <2>4. \A y \in I : ~(y < x)
    BY <2>2, <2>3
  <2>5. \A y \in I : x <= y
    BY <2>4
  <2> QED BY <2>5
<1> QED BY <1>1 DEF Min

LEMMA ChunkProps ==
    ASSUME NEW buf \in Seq(Bytes)
    PROVE  \E c \in 0 .. Len(buf) :
              /\ \A i \in 1 .. c : ~IsLineEnd(buf[i]) /\ buf[i] # "NUL"
              /\ c < Len(buf) => IsLineEnd(buf[c + 1]) \/ buf[c + 1] = "NUL"
              /\ Found(buf) <=> c < Len(buf)
              /\ Chunk(buf) = SubSeq(buf, 1, c)
              /\ FromStop(buf) = SubSeq(buf, c + 1, Len(buf))
<1> DEFINE I == {i \in 1 .. Len(buf) : IsLineEnd(buf[i]) \/ buf[i] = "NUL"}
<1>1. Len(buf) \in Nat
  BY SeqFacts
<1>2. ChunkLen(buf) = (IF I # {} THEN Min(I) ELSE 0) - 1
  BY DEF ChunkLen, SelectInSeq
<1>3. CASE I = {}
  <2>1. ~Found(buf)
    BY <1>2, <1>3 DEF Found
  <2>2. Chunk(buf) = SubSeq(buf, 1, Len(buf))
    BY <2>1, SubSeqFull DEF Chunk
  <2>3. FromStop(buf) = SubSeq(buf, Len(buf) + 1, Len(buf))
    BY <1>1, <2>1, SubSeqEmpty DEF FromStop
  <2>4. Len(buf) \in 0 .. Len(buf) /\ ~(Len(buf) < Len(buf))
    BY <1>1
  <2>5. \A i \in 1 .. Len(buf) : ~IsLineEnd(buf[i]) /\ buf[i] # "NUL"
    BY <1>3
  <2> QED BY <2>1, <2>2, <2>3, <2>4, <2>5
<1>4. CASE I # {}
  <2>1. I \in SUBSET Nat
    BY <1>1
  <2> DEFINE m == Min(I)
  <2>2. m \in I /\ \A i \in I : m <= i
    BY <1>4, <2>1, LeastStop
  <2> HIDE DEF m
  <2>3. ChunkLen(buf) = m - 1 /\ m - 1 \in 0 .. Len(buf) /\ m - 1 < Len(buf) /\ m = (m - 1) + 1
    BY <1>1, <1>2, <1>4, <2>2 DEF m
  <2>4. Found(buf)
    BY <2>3 DEF Found
  <2>5. Chunk(buf) = SubSeq(buf, 1, m - 1) /\ FromStop(buf) = SubSeq(buf, (m - 1) + 1, Len(buf))
    BY <2>3, <2>4 DEF Chunk, FromStop
  <2>6. \A i \in 1 .. m - 1 : ~IsLineEnd(buf[i]) /\ buf[i] # "NUL"
    <3>1. \A i \in 1 .. m - 1 : i \in 1 .. Len(buf) /\ ~(m <= i)
      BY <1>1, <2>2
    <3> QED BY <2>2, <3>1
  <2>7. IsLineEnd(buf[(m - 1) + 1]) \/ buf[(m - 1) + 1] = "NUL"
    BY <2>2, <2>3
  <2> QED BY <2>3, <2>4, <2>5, <2>6, <2>7
<1> QED BY <1>3, <1>4

\* The iteration that starts at p of d stops at e, and the next one starts after it.
Stops(d, p, e) ==
    /\ e \in p + 1 .. Len(d) + 1
    /\ \A i \in p + 1 .. e - 1 : ~IsLineEnd(d[i]) /\ d[i] # "NUL"
    /\ e <= Len(d) => IsLineEnd(d[e]) \/ d[e] = "NUL"

LEMMA SkippedProps ==
    ASSUME NEW d \in Seq(Bytes), NEW e \in 1 .. Len(d) + 1,
           e <= Len(d) => IsLineEnd(d[e]) \/ d[e] = "NUL"
    PROVE  /\ After(d, e) - 1 \in e - 1 .. Len(d)
           /\ Skipped(From(d, e - 1)) = From(d, After(d, e) - 1)
<1> DEFINE stop == From(d, e - 1)
<1>1. Len(d) \in Nat /\ e - 1 \in 0 .. Len(d) /\ (e - 1) + 1 = e
  BY SeqFacts
<1>2. /\ stop \in Seq(Bytes) /\ Len(stop) = Len(d) - (e - 1)
      /\ \A i \in 1 .. Len(d) - (e - 1) : stop[i] = d[(e - 1) + i]
  BY <1>1, FromProps
<1> HIDE DEF stop
<1>3. CASE e > Len(d)
  <2>1. stop = <<>> /\ After(d, e) = e /\ e - 1 = Len(d)
    BY <1>1, <1>2, <1>3, EmptySeq DEF After
  <2>2. Skipped(stop) = <<>>
    BY <2>1 DEF Skipped
  <2> QED BY <1>1, <2>1, <2>2 DEF stop
<1>4. CASE e <= Len(d) /\ IsCRLF(d, e)
  <2>1. e < Len(d) /\ d[e] = "CR" /\ d[e + 1] = "LF"
    BY <1>4 DEF IsCRLF
  <2>2. Len(stop) > 1 /\ stop[1] = "CR" /\ stop[2] = "LF" /\ stop # <<>>
    <3>1. 1 \in 1 .. Len(d) - (e - 1) /\ 2 \in 1 .. Len(d) - (e - 1)
      BY <1>1, <2>1
    <3>2. stop[1] = d[(e - 1) + 1] /\ stop[2] = d[(e - 1) + 2]
      BY <1>2, <3>1
    <3>3. (e - 1) + 1 = e /\ (e - 1) + 2 = e + 1
      OBVIOUS
    <3>4. Len(stop) > 1
      BY <1>1, <1>2, <2>1
    <3>5. stop # <<>>
      BY <3>4, EmptySeq
    <3> QED BY <2>1, <3>2, <3>3, <3>4, <3>5
  <2>3. Skipped(stop) = SubSeq(stop, 3, Len(stop))
    BY <2>2 DEF Skipped
  <2>4. After(d, e) = e + 2
    BY <1>1, <1>4 DEF After
  <2> DEFINE r == SubSeq(stop, 3, Len(stop))
  <2>5. /\ r \in Seq(Bytes) /\ Len(r) = Len(stop) - 2
        /\ \A i \in 1 .. Len(stop) - 2 : r[i] = stop[i + 2]
    <3>1. 3 \in Int /\ Len(stop) \in Int /\ \A i \in 3 .. Len(stop) : stop[i] \in Bytes
      BY <1>2, SeqFacts
    <3>2. /\ r \in Seq(Bytes) /\ Len(r) = IF 3 <= Len(stop) THEN Len(stop) - 3 + 1 ELSE 0
          /\ \A i \in 1 .. Len(stop) - 3 + 1 : r[i] = stop[3 + i - 1]
      BY <3>1, SubSeqProperties
    <3> HIDE DEF r
    <3>3. Len(r) = Len(stop) - 2
      <4>1. Len(r) = IF 3 <= Len(stop) THEN Len(stop) - 3 + 1 ELSE 0
        BY <3>2
      <4>2. Len(stop) \in Int /\ Len(stop) > 1
        BY <2>2, <3>1
      <4>3. \A n \in Int : n > 1 =>
                 (3 <= n /\ n - 3 + 1 = n - 2) \/ (~(3 <= n) /\ n - 2 = 0)
        OBVIOUS
      <4> QED BY <4>1, <4>2, <4>3
    <3>4. Len(stop) - 3 + 1 = Len(stop) - 2 /\ \A i \in 1 .. Len(stop) - 2 : 3 + i - 1 = i + 2
      BY <3>1
    <3> QED BY <3>2, <3>3, <3>4
  <2> HIDE DEF r
  <2>6. e + 1 \in 0 .. Len(d) /\ Len(r) = Len(d) - (e + 1)
    BY <1>1, <1>2, <2>1, <2>5
  <2>7. \A i \in 1 .. Len(r) : r[i] = d[(e + 1) + i]
    <3> SUFFICES ASSUME NEW i \in 1 .. Len(r) PROVE r[i] = d[(e + 1) + i]
      OBVIOUS
    <3>1. i \in 1 .. Len(stop) - 2 /\ i + 2 \in 1 .. Len(d) - (e - 1)
          /\ (e - 1) + (i + 2) = (e + 1) + i
      BY <1>1, <1>2, <2>5, <2>6
    <3> QED BY <1>2, <2>5, <3>1
  <2>8. r = From(d, e + 1)
    BY <2>5, <2>6, <2>7, FromProps
  <2>9. After(d, e) - 1 = e + 1 /\ e + 1 \in e - 1 .. Len(d)
    BY <1>1, <2>4, <2>6
  <2> QED BY <2>3, <2>8, <2>9 DEF r, stop
<1>5. CASE e <= Len(d) /\ ~IsCRLF(d, e)
  <2>1. After(d, e) = e + 1 /\ After(d, e) - 1 = e
    BY <1>1, <1>5 DEF After
  <2>2. stop # <<>> /\ Len(stop) >= 1 /\ stop[1] = d[e]
    <3>1. 1 \in 1 .. Len(d) - (e - 1)
      BY <1>1, <1>5
    <3>2. Len(stop) >= 1
      BY <1>1, <1>2, <1>5
    <3> QED BY <1>1, <1>2, <3>1, <3>2, EmptySeq
  <2>3. ~(Len(stop) > 1 /\ stop[1] = "CR" /\ stop[2] = "LF")
    <3> SUFFICES ASSUME Len(stop) > 1, stop[1] = "CR", stop[2] = "LF" PROVE FALSE
      OBVIOUS
    <3>1. 2 \in 1 .. Len(d) - (e - 1) /\ (e - 1) + 2 = e + 1 /\ e < Len(d)
      BY <1>1, <1>2
    <3>2. d[e + 1] = "LF"
      BY <1>2, <3>1
    <3> QED BY <1>5, <2>2, <3>1, <3>2 DEF IsCRLF
  <2>4. Skipped(stop) = Tail(stop)
    BY <2>2, <2>3 DEF Skipped
  <2>5. /\ Tail(stop) \in Seq(Bytes) /\ Len(Tail(stop)) = Len(stop) - 1
        /\ \A i \in 1 .. Len(Tail(stop)) : Tail(stop)[i] = stop[i + 1]
    BY <1>2, <2>2, HeadTailProperties
  <2>6. e \in 0 .. Len(d) /\ Len(Tail(stop)) = Len(d) - e
    BY <1>1, <1>2, <1>5, <2>5
  <2>7. \A i \in 1 .. Len(Tail(stop)) : Tail(stop)[i] = d[e + i]
    <3> SUFFICES ASSUME NEW i \in 1 .. Len(Tail(stop)) PROVE Tail(stop)[i] = d[e + i]
      OBVIOUS
    <3>1. i + 1 \in 1 .. Len(d) - (e - 1) /\ (e - 1) + (i + 1) = e + i
      BY <1>1, <2>6
    <3> QED BY <1>2, <2>5, <3>1
  <2>8. Tail(stop) = From(d, e)
    BY <2>5, <2>6, <2>7, FromProps
  <2>9. e \in e - 1 .. Len(d)
    BY <1>1, <1>5
  <2> QED BY <2>1, <2>4, <2>8, <2>9 DEF stop
<1>6. e > Len(d) \/ e <= Len(d)
  BY <1>1
<1> QED BY <1>3, <1>4, <1>5, <1>6

\* What it reads before it stops.
Reads(chunk, d, p, e) ==
    /\ chunk \in Seq(Bytes) /\ Len(chunk) = e - 1 - p
    /\ \A i \in 1 .. e - 1 - p : chunk[i] = d[p + i]

\* The iteration that has rest, what d has after p, in its buffer stops at e.
ReadsTo(rest, d, p, e) ==
    /\ Stops(d, p, e)
    /\ Found(rest) <=> e <= Len(d)
    /\ Reads(Chunk(rest), d, p, e)
    /\ e <= Len(d) => Head(FromStop(rest)) = d[e]
    /\ After(d, e) - 1 \in e - 1 .. Len(d)
    /\ Skipped(FromStop(rest)) = From(d, After(d, e) - 1)
    /\ EndsWithCR(FromStop(rest)) <=> After(d, e) - 1 = Len(d) /\ EndsIn(d, "CR")

LEMMA ReadStep ==
    ASSUME NEW d \in Seq(Bytes), NEW p \in 0 .. Len(d), NEW rest, rest = From(d, p), rest # <<>>
    PROVE  p < Len(d) /\ \E e \in p + 1 .. Len(d) + 1 : ReadsTo(rest, d, p, e)
<1>1. Len(d) \in Nat /\ \A i \in 1 .. Len(d) : d[i] \in Bytes
  BY SeqFacts
<1>2. /\ rest \in Seq(Bytes) /\ Len(rest) = Len(d) - p
      /\ \A i \in 1 .. Len(d) - p : rest[i] = d[p + i]
  BY FromProps
<1>3. p < Len(d) /\ Len(rest) > 0
  BY <1>1, <1>2, EmptySeq
<1>4. PICK c \in 0 .. Len(rest) :
              /\ \A i \in 1 .. c : ~IsLineEnd(rest[i]) /\ rest[i] # "NUL"
              /\ c < Len(rest) => IsLineEnd(rest[c + 1]) \/ rest[c + 1] = "NUL"
              /\ Found(rest) <=> c < Len(rest)
              /\ Chunk(rest) = SubSeq(rest, 1, c)
              /\ FromStop(rest) = SubSeq(rest, c + 1, Len(rest))
  BY <1>2, ChunkProps
<1> DEFINE e == p + c + 1
<1>5. /\ e \in p + 1 .. Len(d) + 1 /\ e - 1 = p + c /\ e - 1 - p = c
      /\ c < Len(rest) <=> e <= Len(d)
      /\ e \in 1 .. Len(d) + 1 /\ e - 1 \in 0 .. Len(d)
  BY <1>1, <1>2, <1>3
<1>6. \A i \in p + 1 .. e - 1 : ~IsLineEnd(d[i]) /\ d[i] # "NUL"
  <2> SUFFICES ASSUME NEW i \in p + 1 .. e - 1 PROVE ~IsLineEnd(d[i]) /\ d[i] # "NUL"
    OBVIOUS
  <2>1. i - p \in 1 .. c /\ i - p \in 1 .. Len(d) - p /\ p + (i - p) = i
    BY <1>1, <1>2, <1>5
  <2> QED BY <1>2, <1>4, <2>1
<1>7. e <= Len(d) => rest[c + 1] = d[e]
  <2> SUFFICES ASSUME e <= Len(d) PROVE rest[c + 1] = d[e]
    OBVIOUS
  <2>1. c + 1 \in 1 .. Len(d) - p /\ p + (c + 1) = e
    BY <1>1, <1>2, <1>5
  <2> QED BY <1>2, <2>1
<1>8. /\ Chunk(rest) \in Seq(Bytes) /\ Len(Chunk(rest)) = c
      /\ \A i \in 1 .. c : Chunk(rest)[i] = d[p + i]
  <2>1. 1 \in Int /\ c \in Int /\ \A i \in 1 .. c : rest[i] \in Bytes
    <3>1. \A i \in 1 .. c : i \in 1 .. Len(rest)
      BY <1>1, <1>2
    <3> QED BY <1>2, <3>1, SeqFacts
  <2>2. /\ SubSeq(rest, 1, c) \in Seq(Bytes)
        /\ Len(SubSeq(rest, 1, c)) = IF 1 <= c THEN c - 1 + 1 ELSE 0
        /\ \A i \in 1 .. c - 1 + 1 : SubSeq(rest, 1, c)[i] = rest[1 + i - 1]
    BY <2>1, SubSeqProperties
  <2>3. Len(SubSeq(rest, 1, c)) = c
    BY <1>1, <1>2, <2>2
  <2>4. \A i \in 1 .. c : i \in 1 .. c - 1 + 1 /\ 1 + i - 1 = i /\ i \in 1 .. Len(d) - p
    BY <1>1, <1>2
  <2> QED BY <1>2, <1>4, <2>2, <2>3, <2>4
<1>9. FromStop(rest) = From(d, e - 1)
  <2> DEFINE r == SubSeq(rest, c + 1, Len(rest))
  <2>1. c + 1 \in Int /\ Len(rest) \in Int /\ \A i \in c + 1 .. Len(rest) : rest[i] \in Bytes
    <3>1. \A i \in c + 1 .. Len(rest) : i \in 1 .. Len(rest)
      BY <1>1, <1>2
    <3> QED BY <1>1, <1>2, <3>1, SeqFacts
  <2>2. /\ r \in Seq(Bytes)
        /\ Len(r) = IF c + 1 <= Len(rest) THEN Len(rest) - (c + 1) + 1 ELSE 0
        /\ \A i \in 1 .. Len(rest) - (c + 1) + 1 : r[i] = rest[c + 1 + i - 1]
    BY <2>1, SubSeqProperties
  <2> HIDE DEF r
  <2>3. Len(r) = Len(d) - (e - 1)
    <3>1. \A m \in Nat : \A k \in 0 .. m : (IF k + 1 <= m THEN m - (k + 1) + 1 ELSE 0) = m - k
      OBVIOUS
    <3>2. Len(rest) \in Nat /\ Len(rest) - c = Len(d) - (e - 1)
      BY <1>1, <1>2, <1>5
    <3> QED BY <2>2, <3>1, <3>2
  <2>4. \A i \in 1 .. Len(r) : r[i] = d[(e - 1) + i]
    <3> SUFFICES ASSUME NEW i \in 1 .. Len(r) PROVE r[i] = d[(e - 1) + i]
      OBVIOUS
    <3>1. i \in 1 .. Len(rest) - (c + 1) + 1 /\ c + 1 + i - 1 = c + i
          /\ c + i \in 1 .. Len(d) - p /\ p + (c + i) = (e - 1) + i
      BY <1>1, <1>2, <1>5, <2>3
    <3> QED BY <1>2, <2>2, <3>1
  <2>5. r = From(d, e - 1)
    BY <1>5, <2>2, <2>3, <2>4, FromProps
  <2> QED BY <1>4, <2>5 DEF r
<1> HIDE DEF e
<1>10. e <= Len(d) => IsLineEnd(d[e]) \/ d[e] = "NUL"
  BY <1>4, <1>5, <1>7
<1>11. Stops(d, p, e)
  BY <1>5, <1>6, <1>10 DEF Stops
<1>12. /\ After(d, e) - 1 \in e - 1 .. Len(d)
       /\ Skipped(FromStop(rest)) = From(d, After(d, e) - 1)
  BY <1>5, <1>9, <1>10, SkippedProps
<1>13. e <= Len(d) => /\ Head(FromStop(rest)) = d[e]
                      /\ FromStop(rest) \in Seq(Bytes) /\ FromStop(rest) # <<>>
                      /\ FromStop(rest)[1] = d[e]
  <2> SUFFICES ASSUME e <= Len(d)
               PROVE  /\ Head(FromStop(rest)) = d[e]
                      /\ FromStop(rest) \in Seq(Bytes) /\ FromStop(rest) # <<>>
                      /\ FromStop(rest)[1] = d[e]
    OBVIOUS
  <2>1. 1 \in 1 .. Len(d) - (e - 1) /\ (e - 1) + 1 = e /\ Len(d) - (e - 1) # 0
    BY <1>1, <1>5
  <2>2. /\ FromStop(rest) \in Seq(Bytes) /\ FromStop(rest)[1] = d[e]
        /\ Len(FromStop(rest)) = Len(d) - (e - 1)
    <3>1. /\ From(d, e - 1) \in Seq(Bytes) /\ Len(From(d, e - 1)) = Len(d) - (e - 1)
          /\ \A i \in 1 .. Len(d) - (e - 1) : From(d, e - 1)[i] = d[(e - 1) + i]
      BY <1>5, FromProps
    <3>2. From(d, e - 1)[1] = d[e]
      BY <2>1, <3>1
    <3> QED BY <1>9, <3>1, <3>2
  <2>3. FromStop(rest) # <<>>
    BY <2>1, <2>2, EmptySeq
  <2> QED BY <2>2, <2>3
<1>14. EndsWithCR(FromStop(rest)) <=> After(d, e) - 1 = Len(d) /\ EndsIn(d, "CR")
  <2>1. /\ FromStop(rest) \in Seq(Bytes) /\ Len(FromStop(rest)) = Len(d) - (e - 1)
    BY <1>5, <1>9, FromProps
  <2>2. ASSUME EndsWithCR(FromStop(rest)) PROVE After(d, e) - 1 = Len(d) /\ EndsIn(d, "CR")
    <3>1. Len(FromStop(rest)) = 1 /\ FromStop(rest)[1] = "CR"
      BY <2>2 DEF EndsWithCR
    <3>2. e = Len(d) /\ d[Len(d)] = "CR"
      <4>1. Len(d) - (e - 1) = 1
        BY <2>1, <3>1
      <4>2. e = Len(d)
        BY <1>1, <1>5, <4>1
      <4> QED BY <1>1, <1>13, <3>1, <4>2
    <3>3. ~IsCRLF(d, e) /\ After(d, e) = e + 1
      BY <1>1, <3>2 DEF IsCRLF, After
    <3> QED BY <1>1, <1>3, <1>5, <3>2, <3>3, EmptySeq DEF EndsIn
  <2>3. ASSUME After(d, e) - 1 = Len(d), EndsIn(d, "CR") PROVE EndsWithCR(FromStop(rest))
    <3>1. d[Len(d)] = "CR" /\ IsLineEnd(d[Len(d)])
      BY <2>3 DEF EndsIn, IsLineEnd
    <3>2. e <= Len(d)
      <4>1. SUFFICES ASSUME e > Len(d) PROVE FALSE
        BY <1>1, <1>5
      <4>2. Len(d) \in p + 1 .. e - 1
        BY <1>1, <1>3, <1>5, <4>1
      <4> QED BY <1>6, <3>1, <4>2
    <3>3. ~IsCRLF(d, e)
      <4> SUFFICES ASSUME IsCRLF(d, e) PROVE FALSE
        OBVIOUS
      <4>1. After(d, e) = e + 2 /\ e + 1 = Len(d)
        BY <1>1, <1>5, <2>3, <3>2 DEF After
      <4> QED BY <3>1, <4>1 DEF IsCRLF
    <3>4. e = Len(d)
      BY <1>1, <1>5, <2>3, <3>2, <3>3 DEF After
    <3>5. FromStop(rest) \in Seq(Bytes) /\ Len(FromStop(rest)) = 1 /\ FromStop(rest)[1] = "CR"
      BY <1>1, <1>13, <2>1, <3>1, <3>4
    <3>6. <<"CR">> \in Seq(Bytes) /\ Len(<<"CR">>) = 1 /\ <<"CR">>[1] = "CR"
      BY DEF Bytes
    <3>7. \A i \in 1 .. Len(FromStop(rest)) : FromStop(rest)[i] = <<"CR">>[i]
      <4>1. \A i \in 1 .. 1 : i = 1
        OBVIOUS
      <4> QED BY <3>5, <3>6, <4>1
    <3>8. FromStop(rest) = <<"CR">>
      BY <3>5, <3>6, <3>7, SeqEqual
    <3> QED BY <3>8 DEF EndsWithCR
  <2> QED BY <2>2, <2>3
<1>15. (Found(rest) <=> e <= Len(d)) /\ Reads(Chunk(rest), d, p, e)
  BY <1>4, <1>5, <1>8 DEF Reads
<1>16. ReadsTo(rest, d, p, e)
  BY <1>5, <1>8, <1>11, <1>12, <1>13, <1>14, <1>15 DEF ReadsTo
<1> QED BY <1>3, <1>5, <1>16

LEMMA ReadGrows ==
    ASSUME NEW d \in Seq(Bytes), NEW p \in 0 .. Len(d), NEW e, Stops(d, p, e),
           NEW s \in Nat \ {0}, s <= p + 1, NEW chunk, Reads(chunk, d, p, e)
    PROVE  Cat(Text(d, s, p), chunk) = Text(d, s, e - 1)
<1> DEFINE m == e - 1
<1>1. /\ p \in Nat /\ m \in Nat /\ p <= m /\ m <= Len(d)
      /\ \A k \in p + 1 .. m : d[k] # "NUL"
  <2>1. Len(d) \in Nat
    BY SeqFacts
  <2> QED BY <2>1 DEF Stops
<1>2. Shows(chunk, d, p, m)
  <2>1. \A k \in 1 .. m - p : p + k \in p + 1 .. m
    BY <1>1
  <2>2. \A k \in 1 .. m - p : chunk[k] = d[p + k] /\ d[p + k] # "NUL"
    BY <1>1, <2>1 DEF Reads
  <2>3. chunk \in Seq(Bytes) /\ Len(chunk) = m - p
    BY DEF Reads
  <2> HIDE DEF m
  <2> QED BY <1>1, <2>2, <2>3, ChunkShows
<1> HIDE DEF m
<1>3. Cat(Text(d, s, p), chunk) = Text(d, s, m)
  BY <1>1, <1>2, TextGrows
<1> QED BY <1>3 DEF m

-----------------------------------------------------------------------------
(* How what has been dealt with grows *)

\* What Sofar says of a witness.
Cut(d, ls, part, p, whole, start, keep) ==
    LET s == start[Len(ls) + 1] IN
    /\ start[1] = 1
    /\ \A k \in 1 .. Len(ls) : IsLine(d, start[k], start[k + 1], ls[k], keep)
    /\ \A i \in s .. p : ~IsLineEnd(d[i])
    /\ part = Text(d, s, p)
    /\ whole /\ s > 1 => IsLineEnd(d[s - 1])

LEMMA SofarCut ==
    ASSUME NEW keep, NEW d, NEW ls, NEW part, NEW p, NEW whole
    PROVE  Sofar(d, ls, part, p, whole, keep) <=>
              \E start \in [1 .. Len(ls) + 1 -> 1 .. p + 1] :
                 Cut(d, ls, part, p, whole, start, keep)
BY DEF Sofar, Cut

LEMMA SofarNothing ==
    ASSUME NEW keep, NEW d \in Seq(Bytes), NEW whole
    PROVE  Sofar(d, <<>>, <<>>, 0, whole, keep)
<1> DEFINE start == [k \in 1 .. 1 |-> 1]
<1>1. Len(<<>>) = 0 /\ Len(d) \in Nat
  BY SeqFacts, EmptySeq
<1>2. Text(d, 1, 0) = <<>>
  <2>1. 1 \in Nat \ {0} /\ 1 <= Len(d) + 1 /\ 1 - 1 = 0
    BY <1>1
  <2>2. Text(d, 1, 1 - 1) = <<>>
    BY <2>1, TextEmpty
  <2> QED BY <2>1, <2>2
<1>3. Len(<<>>) + 1 = 1 /\ 0 + 1 = 1 /\ 1 .. 0 = {}
  BY <1>1
<1>4. start \in [1 .. 1 -> 1 .. 1] /\ start[1] = 1
  OBVIOUS
<1>5. Cut(d, <<>>, <<>>, 0, whole, start, keep)
  BY <1>1, <1>2, <1>3, <1>4 DEF Cut
<1> QED BY <1>3, <1>4, <1>5, SofarCut

\* An iteration that ends no line.
LEMMA SofarKeep ==
    ASSUME NEW keep, NEW d \in Seq(Bytes), NEW p \in 0 .. Len(d), NEW e, Stops(d, p, e),
           e <= Len(d) => ~IsLineEnd(d[e]),
           NEW q, q = After(d, e) - 1,
           NEW ls \in Seq(Lines), NEW part, NEW whole, Sofar(d, ls, part, p, whole, keep),
           NEW chunk, Reads(chunk, d, p, e)
    PROVE  Sofar(d, ls, Cat(Cat(part, chunk), IF e <= Len(d) THEN <<"U+FFFD">> ELSE <<>>),
                 q, whole, keep)
<1>1. Len(d) \in Nat /\ Len(ls) \in Nat
  BY SeqFacts
<1>2. e \in p + 1 .. Len(d) + 1 /\ e - 1 \in Nat /\ p <= e - 1 /\ e - 1 <= Len(d)
      /\ \A i \in p + 1 .. e - 1 : ~IsLineEnd(d[i]) /\ d[i] # "NUL"
  BY <1>1 DEF Stops
<1>3. PICK start \in [1 .. Len(ls) + 1 -> 1 .. p + 1] : Cut(d, ls, part, p, whole, start, keep)
  BY SofarCut
<1> DEFINE s == start[Len(ls) + 1]
<1>4. s \in Nat \ {0} /\ s <= p + 1 /\ part = Text(d, s, p)
  BY <1>1, <1>3 DEF Cut
<1> HIDE DEF s
<1>5. part \in Seq(Chars)
  <2>1. p \in Nat /\ p <= Len(d)
    BY <1>1
  <2> QED BY <1>4, <2>1, TextProps
<1>6. Cat(part, chunk) = Text(d, s, e - 1)
  BY <1>4, ReadGrows
<1>7. Text(d, s, e - 1) \in Seq(Chars)
  <2>1. s <= (e - 1) + 1
    BY <1>1, <1>2, <1>4
  <2> QED BY <1>2, <1>4, <2>1, TextProps
<1>8. /\ q \in Nat /\ p + 1 <= q + 1 /\ q <= Len(d)
      /\ Cat(Cat(part, chunk), IF e <= Len(d) THEN <<"U+FFFD">> ELSE <<>>) = Text(d, s, q)
      /\ \A i \in p + 1 .. q : ~IsLineEnd(d[i])
  <2>1. CASE e > Len(d)
    <3>1. q = e - 1
      BY <1>2, <2>1 DEF After
    <3>2. Cat(Cat(part, chunk), <<>>) = Cat(part, chunk)
      <4>1. \A t \in Seq(Chars) : Cat(t, <<>>) = t
        BY ConcatEmptySeq DEF Cat
      <4> QED BY <1>6, <1>7, <4>1
    <3> QED BY <1>1, <1>2, <1>6, <2>1, <3>1, <3>2
  <2>2. CASE e <= Len(d)
    <3>1. d[e] = "NUL"
      BY <2>2 DEF Stops
    <3>2. q = e /\ e \in Nat /\ e - 1 <= e
      BY <1>1, <1>2, <2>2, <3>1 DEF After, IsCRLF
    <3>3. <<"U+FFFD">> \in Seq(Chars) /\ Len(<<"U+FFFD">>) = 1 /\ <<"U+FFFD">>[1] = "U+FFFD"
      BY DEF Chars
    <3>4. e - (e - 1) = 1 /\ (e - 1) + 1 = e /\ \A i \in 1 .. 1 : i = 1
      BY <1>2
    <3>5. \A i \in 1 .. e - (e - 1) :
             <<"U+FFFD">>[i] = Shown(d[(e - 1) + i])
      BY <3>1, <3>3, <3>4 DEF Shown
    <3>6. s <= (e - 1) + 1
      BY <1>2, <1>4
    <3>7. Cat(Text(d, s, e - 1), <<"U+FFFD">>) = Text(d, s, e)
      <4> DEFINE m == e - 1
                 more == <<"U+FFFD">>
      <4>1. m \in Nat /\ s \in Nat \ {0} /\ s <= m + 1 /\ m <= e /\ e \in Nat /\ e <= Len(d)
        BY <1>2, <1>4, <2>2, <3>2, <3>6
      <4>2. Shows(more, d, m, e)
        BY <3>3, <3>4, <3>5 DEF Shows
      <4> HIDE DEF m, more
      <4>3. Cat(Text(d, s, m), more) = Text(d, s, e)
        BY <4>1, <4>2, TextGrows
      <4> QED BY <4>3 DEF m, more
    <3>8. \A i \in p + 1 .. q : ~IsLineEnd(d[i])
      <4>1. \A i \in p + 1 .. q : i \in p + 1 .. e - 1 \/ i = e
        BY <1>2, <3>2
      <4> QED BY <1>2, <2>2, <4>1
    <3>9. (IF e <= Len(d) THEN <<"U+FFFD">> ELSE <<>>) = <<"U+FFFD">>
      BY <2>2
    <3>10. Cat(Cat(part, chunk), IF e <= Len(d) THEN <<"U+FFFD">> ELSE <<>>) = Text(d, s, q)
      BY <1>6, <3>2, <3>7, <3>9
    <3>11. q \in Nat /\ p + 1 <= q + 1 /\ q <= Len(d)
      BY <1>1, <1>2, <2>2, <3>2
    <3> QED BY <3>8, <3>10, <3>11
  <2>3. e > Len(d) \/ e <= Len(d)
    BY <1>1, <1>2
  <2> QED BY <2>1, <2>2, <2>3
<1>9. start \in [1 .. Len(ls) + 1 -> 1 .. q + 1]
  <2>1. 1 .. p + 1 \subseteq 1 .. q + 1
    BY <1>8
  <2> QED BY <2>1
<1>10. \A i \in s .. q : ~IsLineEnd(d[i])
  <2>1. \A i \in s .. q : i \in s .. p \/ i \in p + 1 .. q
    BY <1>1, <1>4, <1>8
  <2>2. \A i \in s .. p : ~IsLineEnd(d[i])
    BY <1>3 DEF Cut, s
  <2> QED BY <1>8, <2>1, <2>2
<1>11. Cut(d, ls, Cat(Cat(part, chunk), IF e <= Len(d) THEN <<"U+FFFD">> ELSE <<>>),
           q, whole, start, keep)
  BY <1>3, <1>8, <1>10 DEF Cut, s
<1> QED BY <1>9, <1>11, SofarCut

LEMMA LineIsLine ==
    ASSUME NEW text \in Seq(Chars), NEW nl \in BOOLEAN
    PROVE  Line(text, nl) \in Lines
BY DEF Line, Lines

\* An iteration that ends a line.
LEMMA SofarLine ==
    ASSUME NEW keep \in BOOLEAN,
           NEW d \in Seq(Bytes), NEW p \in 0 .. Len(d), NEW e, Stops(d, p, e),
           e <= Len(d) => IsLineEnd(d[e]),
           NEW q, q = After(d, e) - 1, q \in e - 1 .. Len(d),
           NEW ls \in Seq(Lines), NEW part, NEW whole, Sofar(d, ls, part, p, whole, keep),
           NEW whole2, whole2 => e <= Len(d),
           p < Len(d) \/ part # <<>>,
           NEW chunk, Reads(chunk, d, p, e), NEW text, text = Cat(part, chunk),
           NEW ls2, ls2 = Added(ls, Line(text, e <= Len(d) \/ ~keep))
    PROVE  ls2 \in Seq(Lines) /\ Sofar(d, ls2, <<>>, q, whole2, keep)
<1>1. Len(d) \in Nat /\ Len(ls) \in Nat /\ p \in Nat /\ p <= Len(d)
  BY SeqFacts
<1>2. /\ e \in p + 1 .. Len(d) + 1 /\ e - 1 \in Nat /\ p <= e - 1 /\ e - 1 <= Len(d)
      /\ \A i \in p + 1 .. e - 1 : ~IsLineEnd(d[i]) /\ d[i] # "NUL"
  BY <1>1 DEF Stops
<1>3. PICK start \in [1 .. Len(ls) + 1 -> 1 .. p + 1] : Cut(d, ls, part, p, whole, start, keep)
  BY SofarCut
<1> DEFINE n == Len(ls)
           s == start[n + 1]
           line == Line(text, e <= Len(d) \/ ~keep)
<1>4. s \in Nat \ {0} /\ s <= p + 1 /\ part = Text(d, s, p) /\ start[1] = 1
  <2>1. n + 1 \in 1 .. Len(ls) + 1
    BY <1>1
  <2>2. s \in 1 .. p + 1
    BY <1>3, <2>1
  <2>3. part = Text(d, s, p) /\ start[1] = 1
    BY <1>3 DEF Cut
  <2>4. s \in Nat \ {0} /\ s <= p + 1
    BY <1>1, <2>2
  <2> QED BY <2>3, <2>4
<1> HIDE DEF s
<1>5. text = Text(d, s, e - 1)
  BY <1>4, ReadGrows
<1>6. text \in Seq(Chars)
  <2>1. s <= (e - 1) + 1
    BY <1>1, <1>2, <1>4
  <2>2. Text(d, s, e - 1) \in Seq(Chars)
    BY <1>2, <1>4, <2>1, TextProps
  <2> QED BY <1>5, <2>2
<1>7. s <= Len(d)
  <2>1. CASE p < Len(d)
    BY <1>1, <1>4, <2>1
  <2>2. CASE part # <<>>
    <3>1. s # p + 1
      <4> SUFFICES ASSUME s = p + 1 PROVE FALSE
        OBVIOUS
      <4>1. s <= Len(d) + 1 /\ s - 1 = p
        BY <1>1, <1>4
      <4>2. Text(d, s, s - 1) = <<>>
        BY <1>4, <4>1, TextEmpty
      <4> QED BY <1>4, <2>2, <4>1, <4>2
    <3> QED BY <1>1, <1>4, <3>1
  <2> QED BY <2>1, <2>2
<1>8. IsLine(d, s, q + 1, line, keep)
  <2>1. \A i \in s .. e - 1 : ~IsLineEnd(d[i])
    <3>1. \A i \in s .. p : ~IsLineEnd(d[i])
      BY <1>3 DEF Cut, s
    <3>2. \A i \in s .. e - 1 : i \in s .. p \/ i \in p + 1 .. e - 1
      BY <1>1, <1>2, <1>4
    <3> QED BY <1>2, <3>1, <3>2
  <2>2. e \in s .. Len(d) + 1
    BY <1>1, <1>2, <1>4
  <2>3. q + 1 = After(d, e)
    BY <1>1, <1>2 DEF After
  <2>4. line = Line(Text(d, s, e - 1), e <= Len(d) \/ ~keep)
    BY <1>5
  <2> QED BY <1>7, <2>1, <2>2, <2>3, <2>4 DEF IsLine
<1>9. line \in Lines
  BY <1>6, LineIsLine
<1>10. /\ ls2 \in Seq(Lines) /\ Len(ls2) = n + 1
       /\ \A k \in 1 .. n : ls2[k] = ls[k]
       /\ ls2[n + 1] = line
  BY <1>9, AppendProperties DEF Added
<1>11. q \in Nat /\ p <= q /\ q <= Len(d)
  BY <1>1, <1>2
<1> DEFINE start2 == [k \in 1 .. (n + 1) + 1 |-> IF k = n + 2 THEN q + 1 ELSE start[k]]
<1>12. start2 \in [1 .. Len(ls2) + 1 -> 1 .. q + 1]
  <2>1. \A k \in 1 .. (n + 1) + 1 : k # n + 2 => start[k] \in 1 .. p + 1
    <3>1. \A k \in 1 .. (n + 1) + 1 : k # n + 2 => k \in 1 .. Len(ls) + 1
      BY <1>1
    <3> QED BY <1>3, <3>1
  <2>2. \A k \in 1 .. (n + 1) + 1 : start2[k] \in 1 .. q + 1
    BY <1>1, <1>11, <2>1
  <2> QED BY <1>10, <2>2
<1>13. /\ start2[1] = 1 /\ start2[Len(ls2) + 1] = q + 1
       /\ \A k \in 1 .. n + 1 : start2[k] = start[k]
  BY <1>1, <1>4, <1>10
<1> HIDE DEF start2, line
<1>14. \A k \in 1 .. Len(ls2) : IsLine(d, start2[k], start2[k + 1], ls2[k], keep)
  <2> SUFFICES ASSUME NEW k \in 1 .. Len(ls2)
               PROVE  IsLine(d, start2[k], start2[k + 1], ls2[k], keep)
    OBVIOUS
  <2>1. CASE k = n + 1
    <3>1. start2[k] = s /\ start2[k + 1] = q + 1 /\ ls2[k] = line
      BY <1>1, <1>10, <1>13, <2>1 DEF s
    <3> QED BY <1>8, <3>1
  <2>2. CASE k # n + 1
    <3>1. k \in 1 .. n /\ k \in 1 .. n + 1 /\ k + 1 \in 1 .. n + 1
      BY <1>1, <1>10, <2>2
    <3>2. start2[k] = start[k] /\ start2[k + 1] = start[k + 1] /\ ls2[k] = ls[k]
      BY <1>10, <1>13, <3>1
    <3> QED BY <1>3, <3>1, <3>2 DEF Cut
  <2> QED BY <2>1, <2>2
<1>15. <<>> = Text(d, q + 1, q) /\ q + 1 .. q = {}
  <2>1. q + 1 \in Nat \ {0} /\ q + 1 <= Len(d) + 1 /\ (q + 1) - 1 = q
    BY <1>1, <1>11
  <2>2. Text(d, q + 1, (q + 1) - 1) = <<>>
    BY <2>1, TextEmpty
  <2> QED BY <1>11, <2>1, <2>2
<1>16. whole2 => IsLineEnd(d[(q + 1) - 1])
  <2> SUFFICES ASSUME whole2 PROVE IsLineEnd(d[(q + 1) - 1])
    OBVIOUS
  <2>1. e <= Len(d) /\ IsLineEnd(d[e]) /\ (q + 1) - 1 = q
    BY <1>11
  <2>2. CASE IsCRLF(d, e)
    <3>1. q = e + 1
      BY <1>1, <1>2, <2>1, <2>2 DEF After
    <3>2. d[q] = "LF"
      BY <2>2, <3>1 DEF IsCRLF
    <3> QED BY <2>1, <3>2 DEF IsLineEnd
  <2>3. CASE ~IsCRLF(d, e)
    <3>1. q = e
      BY <1>1, <1>2, <2>1, <2>3 DEF After
    <3> QED BY <2>1, <3>1
  <2> QED BY <2>2, <2>3
<1>17. Cut(d, ls2, <<>>, q, whole2, start2, keep)
  BY <1>13, <1>14, <1>15, <1>16 DEF Cut
<1> QED BY <1>10, <1>12, <1>17, SofarCut

\* More of the text is there.
Begins(d, d2) ==
    /\ d2 \in Seq(Bytes) /\ Len(d) < Len(d2)
    /\ \A i \in 1 .. Len(d) : d2[i] = d[i]

\* Its first byte is the second of a CRLF.
Split(d, d2) == EndsIn(d, "CR") /\ d2[Len(d) + 1] = "LF"

LEMMA TextStays ==
    ASSUME NEW d \in Seq(Bytes), NEW d2, Begins(d, d2),
           NEW from \in Nat \ {0}, NEW to \in Nat, to <= Len(d)
    PROVE  Text(d, from, to) = Text(d2, from, to)
<1>1. \A i \in 1 .. to - from + 1 : from + i - 1 \in 1 .. Len(d)
  <2>1. Len(d) \in Nat
    BY SeqFacts
  <2> QED BY <2>1
<1>2. \A i \in 1 .. to - from + 1 : d2[from + i - 1] = d[from + i - 1]
  BY <1>1 DEF Begins
<1> QED BY <1>2 DEF Text

LEMMA LineStays ==
    ASSUME NEW keep, NEW d \in Seq(Bytes), NEW d2, Begins(d, d2),
           NEW from \in Nat \ {0}, NEW next \in Nat, NEW line, IsLine(d, from, next, line, keep),
           next <= Len(d) \/ IsLineEnd(d[next - 1])
    PROVE  IsLine(d2, from, IF Split(d, d2) /\ next = Len(d) + 1 THEN next + 1 ELSE next,
                  line, keep)
<1>1. Len(d) \in Nat /\ Len(d2) \in Nat /\ Len(d) < Len(d2)
  BY SeqFacts DEF Begins
<1>2. PICK e \in from .. Len(d) + 1 :
              /\ from <= Len(d)
              /\ \A i \in from .. e - 1 : ~IsLineEnd(d[i])
              /\ e <= Len(d) => IsLineEnd(d[e])
              /\ next = After(d, e)
              /\ line = Line(Text(d, from, e - 1), e <= Len(d) \/ ~keep)
  BY DEF IsLine
<1>3. e <= Len(d)
  <2>1. SUFFICES ASSUME e = Len(d) + 1 PROVE FALSE
    BY <1>1
  <2>2. next = Len(d) + 1 /\ next - 1 = Len(d)
    BY <1>1, <1>2, <2>1 DEF After
  <2>3. Len(d) \in from .. e - 1
    BY <1>1, <1>2, <2>1
  <2> QED BY <1>1, <1>2, <2>2, <2>3
<1>4. e \in 1 .. Len(d) /\ d2[e] = d[e]
  BY <1>1, <1>3 DEF Begins
<1>5. \A i \in from .. e - 1 : d2[i] = d[i]
  <2>1. \A i \in from .. e - 1 : i \in 1 .. Len(d)
    BY <1>1, <1>4
  <2> QED BY <2>1 DEF Begins
<1>6. Text(d, from, e - 1) = Text(d2, from, e - 1)
  <2>1. e - 1 \in Nat /\ e - 1 <= Len(d)
    BY <1>1, <1>4
  <2> QED BY <2>1, TextStays
<1>7. line = Line(Text(d2, from, e - 1), e <= Len(d2) \/ ~keep)
  <2>1. e <= Len(d2)
    BY <1>1, <1>4
  <2> QED BY <1>2, <1>3, <1>6, <2>1
<1>8. After(d2, e) = IF Split(d, d2) /\ next = Len(d) + 1 THEN next + 1 ELSE next
  <2>1. CASE e < Len(d)
    <3>1. e + 1 \in 1 .. Len(d) /\ d2[e + 1] = d[e + 1]
      BY <1>1, <1>4, <2>1 DEF Begins
    <3>2. IsCRLF(d2, e) <=> IsCRLF(d, e)
      BY <1>1, <1>4, <2>1, <3>1 DEF IsCRLF
    <3>3. After(d2, e) = next
      BY <1>1, <1>2, <1>4, <2>1, <3>2 DEF After
    <3>4. ~(Split(d, d2) /\ next = Len(d) + 1)
      <4> SUFFICES ASSUME Split(d, d2), next = Len(d) + 1 PROVE FALSE
        OBVIOUS
      <4>1. IsCRLF(d, e) /\ e + 1 = Len(d)
        BY <1>1, <1>2, <1>4, <2>1 DEF After
      <4> QED BY <4>1 DEF IsCRLF, Split, EndsIn
    <3> QED BY <3>3, <3>4
  <2>2. CASE e = Len(d)
    <3>1. ~IsCRLF(d, e) /\ next = Len(d) + 1
      BY <1>1, <1>2, <1>4, <2>2 DEF IsCRLF, After
    <3>2. d # <<>>
      BY <1>4, <2>2, EmptySeq
    <3>3. IsCRLF(d2, e) <=> Split(d, d2)
      BY <1>1, <1>4, <2>2, <3>2 DEF IsCRLF, Split, EndsIn
    <3>4. After(d2, e) = IF IsCRLF(d2, e) THEN e + 2 ELSE e + 1
      BY <1>1, <1>4 DEF After
    <3> QED BY <1>1, <2>2, <3>1, <3>3, <3>4
  <2> QED BY <1>1, <1>4, <2>1, <2>2
<1>9. e \in from .. Len(d2) + 1 /\ from <= Len(d2)
  BY <1>1, <1>2, <1>4
<1>10. IsLineEnd(d2[e]) /\ \A i \in from .. e - 1 : ~IsLineEnd(d2[i])
  BY <1>2, <1>3, <1>4, <1>5
<1> DEFINE after == IF Split(d, d2) /\ next = Len(d) + 1 THEN next + 1 ELSE next
<1>11. after = After(d2, e)
  BY <1>8
<1> HIDE DEF after
<1>12. IsLine(d2, from, after, line, keep)
  BY <1>7, <1>9, <1>10, <1>11 DEF IsLine
<1> QED BY <1>12 DEF after

\* Cut, and what follows from it.
CutFacts(d, ls, part, p, whole, start, keep) ==
    /\ Len(ls) \in Nat
    /\ \A k \in 1 .. Len(ls) + 1 : start[k] \in Nat /\ start[k] # 0 /\ start[k] <= p + 1
    /\ \A k \in 1 .. Len(ls) : start[k] <= Len(d)
    /\ Cut(d, ls, part, p, whole, start, keep)

LEMMA SofarFacts ==
    ASSUME NEW keep, NEW d, NEW ls \in Seq(Lines), NEW part, NEW p \in Nat, NEW whole,
           Sofar(d, ls, part, p, whole, keep)
    PROVE  \E start \in [1 .. Len(ls) + 1 -> 1 .. p + 1] :
              CutFacts(d, ls, part, p, whole, start, keep)
<1>1. PICK start \in [1 .. Len(ls) + 1 -> 1 .. p + 1] : Cut(d, ls, part, p, whole, start, keep)
  BY SofarCut
<1>2. Len(ls) \in Nat
  BY SeqFacts
<1>3. \A k \in 1 .. Len(ls) + 1 : start[k] \in 1 .. p + 1
  OBVIOUS
<1>4. \A k \in 1 .. Len(ls) + 1 : start[k] \in Nat /\ start[k] # 0 /\ start[k] <= p + 1
  BY <1>3
<1>5. \A k \in 1 .. Len(ls) : start[k] <= Len(d)
  BY <1>1 DEF Cut, IsLine
<1>6. CutFacts(d, ls, part, p, whole, start, keep)
  BY <1>1, <1>2, <1>4, <1>5 DEF CutFacts
<1> QED BY <1>6

\* The next buffer of a document.
LEMMA SofarExtend ==
    ASSUME NEW keep, NEW d \in Seq(Bytes), NEW d2, Begins(d, d2), NEW ls \in Seq(Lines), NEW part,
           Sofar(d, ls, part, Len(d), TRUE, keep), NEW whole,
           NEW q, q = IF Split(d, d2) THEN Len(d) + 1 ELSE Len(d)
    PROVE  Sofar(d2, ls, part, q, whole, keep)
<1>1. Len(d) \in Nat /\ Len(d2) \in Nat /\ Len(d) < Len(d2) /\ d2 \in Seq(Bytes)
  BY SeqFacts DEF Begins
<1>2. PICK start \in [1 .. Len(ls) + 1 -> 1 .. Len(d) + 1] :
              CutFacts(d, ls, part, Len(d), TRUE, start, keep)
  BY <1>1, SofarFacts
<1> DEFINE n == Len(ls)
           s == start[n + 1]
<1>3. /\ n \in Nat
      /\ \A k \in 1 .. n + 1 : start[k] \in Nat /\ start[k] # 0 /\ start[k] <= Len(d) + 1
      /\ start[1] = 1
      /\ \A k \in 1 .. n : IsLine(d, start[k], start[k + 1], ls[k], keep)
      /\ \A k \in 1 .. n : start[k] <= Len(d)
      /\ \A i \in s .. Len(d) : ~IsLineEnd(d[i])
      /\ part = Text(d, s, Len(d))
      /\ s > 1 => IsLineEnd(d[s - 1])
  BY <1>2 DEF CutFacts, Cut
<1>4. s \in Nat \ {0} /\ s <= Len(d) + 1
  BY <1>3
<1>5. Split(d, d2) => s = Len(d) + 1 /\ s # 1
  <2> SUFFICES ASSUME Split(d, d2) PROVE s = Len(d) + 1 /\ s # 1
    OBVIOUS
  <2>1. d # <<>> /\ IsLineEnd(d[Len(d)])
    BY DEF Split, EndsIn, IsLineEnd
  <2>2. Len(d) # 0
    BY <2>1, EmptySeq
  <2>3. ~(s <= Len(d))
    <3> SUFFICES ASSUME s <= Len(d) PROVE FALSE
      OBVIOUS
    <3>1. Len(d) \in s .. Len(d)
      BY <1>1, <1>4
    <3> QED BY <1>3, <2>1, <3>1
  <2> QED BY <1>1, <1>4, <2>2, <2>3
<1> DEFINE s2 == IF Split(d, d2) THEN s + 1 ELSE s
           start2 == [start EXCEPT ![n + 1] = s2]
<1>6. q \in Nat /\ q <= Len(d2) /\ Len(d) <= q /\ s2 \in 1 .. q + 1
  BY <1>1, <1>4
<1>7. start2 \in [1 .. n + 1 -> 1 .. q + 1]
  <2>1. \A k \in 1 .. n + 1 : start[k] \in 1 .. q + 1
    BY <1>1, <1>3, <1>6
  <2> HIDE DEF s2
  <2> QED BY <1>2, <1>6, <2>1
<1>8. /\ \A k \in 1 .. n : start2[k] = start[k]
      /\ start2[n + 1] = s2 /\ start2[1] = 1
  <2>1. \A k \in 1 .. n : k \in 1 .. n + 1 /\ k # n + 1
    BY <1>3
  <2>2. n + 1 \in 1 .. n + 1
    BY <1>3
  <2>3. n = 0 => s2 = 1
    BY <1>3, <1>5
  <2>4. n # 0 => 1 \in 1 .. n
    BY <1>3
  <2> HIDE DEF s2
  <2>5. (\A k \in 1 .. n : start2[k] = start[k]) /\ start2[n + 1] = s2
    BY <1>2, <2>1, <2>2
  <2>6. start2[1] = 1
    <3> HIDE DEF start2
    <3>1. CASE n = 0
      BY <2>3, <2>5, <3>1
    <3>2. CASE n # 0
      BY <1>3, <2>4, <2>5, <3>2
    <3> QED BY <3>1, <3>2
  <2> QED BY <2>5, <2>6
<1> HIDE DEF start2
<1>9. \A k \in 1 .. n : IsLine(d2, start2[k], start2[k + 1], ls[k], keep)
  <2> SUFFICES ASSUME NEW k \in 1 .. n PROVE IsLine(d2, start2[k], start2[k + 1], ls[k], keep)
    OBVIOUS
  <2> DEFINE from == start[k]
             next == start[k + 1]
             after == IF Split(d, d2) /\ next = Len(d) + 1 THEN next + 1 ELSE next
  <2>1. k \in 1 .. n + 1 /\ k + 1 \in 1 .. n + 1 /\ (k = n \/ k + 1 \in 1 .. n)
    BY <1>3
  <2>2. from \in Nat \ {0} /\ next \in Nat /\ next # 0 /\ next <= Len(d) + 1 /\ from <= Len(d)
        /\ IsLine(d, from, next, ls[k], keep)
    BY <1>3, <2>1
  <2>3. CASE k = n
    <3>1. next = s /\ start2[k] = from /\ start2[k + 1] = s2
      BY <1>8, <2>1, <2>3
    <3> HIDE DEF s, from, next
    <3>2. next <= Len(d) \/ IsLineEnd(d[next - 1])
      <4>1. next <= Len(d) \/ next > 1
        BY <1>1, <2>2
      <4> QED BY <1>3, <3>1, <4>1
    <3>3. IsLine(d2, from, after, ls[k], keep)
      BY <2>2, <3>2, LineStays
    <3>4. after = s2
      BY <1>5, <3>1
    <3> QED BY <3>1, <3>3, <3>4
  <2>4. CASE k # n
    <3>1. k + 1 \in 1 .. n
      BY <2>1, <2>4
    <3>2. next <= Len(d) /\ start2[k] = from /\ start2[k + 1] = next
      BY <1>3, <1>8, <3>1
    <3> HIDE DEF s, from, next
    <3>3. IsLine(d2, from, after, ls[k], keep)
      BY <2>2, <3>2, LineStays
    <3>4. after = next
      BY <1>1, <2>2, <3>2
    <3> QED BY <3>2, <3>3, <3>4
  <2> QED BY <2>3, <2>4
<1>10. part = Text(d2, s2, q) /\ \A i \in s2 .. q : ~IsLineEnd(d2[i])
  <2>1. CASE Split(d, d2)
    <3>1. s2 = q + 1 /\ q + 1 \in Nat \ {0} /\ q + 1 <= Len(d2) + 1 /\ (q + 1) - 1 = q
          /\ Len(d) + 1 \in Nat \ {0} /\ Len(d) + 1 <= Len(d) + 1 /\ (Len(d) + 1) - 1 = Len(d)
          /\ s = Len(d) + 1
      BY <1>1, <1>5, <1>6, <2>1
    <3>2. Text(d2, q + 1, (q + 1) - 1) = <<>>
      BY <1>1, <3>1, TextEmpty
    <3>3. Text(d, Len(d) + 1, (Len(d) + 1) - 1) = <<>>
      BY <3>1, TextEmpty
    <3>4. q + 1 .. q = {}
      BY <1>6
    <3> HIDE DEF s, s2
    <3> QED BY <1>3, <3>1, <3>2, <3>3, <3>4
  <2>2. CASE ~Split(d, d2)
    <3>1. s2 = s /\ q = Len(d)
      BY <2>2
    <3>2. Text(d, s, Len(d)) = Text(d2, s, Len(d))
      <4>1. Len(d) \in Nat /\ Len(d) <= Len(d)
        BY <1>1
      <4> QED BY <1>4, <4>1, TextStays
    <3>3. \A i \in s .. Len(d) : d2[i] = d[i]
      <4>1. \A i \in s .. Len(d) : i \in 1 .. Len(d)
        BY <1>1, <1>4
      <4> QED BY <4>1 DEF Begins
    <3> HIDE DEF s, s2
    <3> QED BY <1>3, <3>1, <3>2, <3>3
  <2> QED BY <2>1, <2>2
<1>11. s2 > 1 => IsLineEnd(d2[s2 - 1])
  <2> SUFFICES ASSUME s2 > 1 PROVE IsLineEnd(d2[s2 - 1])
    OBVIOUS
  <2>1. CASE Split(d, d2)
    <3>1. s2 - 1 = Len(d) + 1
      BY <1>1, <1>5, <2>1
    <3>2. d2[Len(d) + 1] = "LF"
      BY <2>1 DEF Split
    <3> QED BY <3>1, <3>2 DEF IsLineEnd
  <2>2. CASE ~Split(d, d2)
    <3>1. s2 = s /\ s - 1 \in 1 .. Len(d) /\ s > 1
      BY <1>1, <1>4, <2>2
    <3>2. d2[s - 1] = d[s - 1]
      BY <3>1 DEF Begins
    <3> HIDE DEF s, s2
    <3> QED BY <1>3, <3>1, <3>2
  <2> QED BY <2>1, <2>2
<1> HIDE DEF s2
<1>12. Cut(d2, ls, part, q, whole, start2, keep)
  BY <1>8, <1>9, <1>10, <1>11 DEF Cut
<1> QED BY <1>7, <1>12, SofarCut

LEMMA SofarEnd ==
    ASSUME NEW keep, NEW d \in Seq(Bytes), NEW ls \in Seq(Lines), NEW whole,
           Sofar(d, ls, <<>>, Len(d), whole, keep)
    PROVE  IsLinesOf(ls, d, keep)
<1>1. Len(d) \in Nat
  BY SeqFacts
<1>2. PICK start \in [1 .. Len(ls) + 1 -> 1 .. Len(d) + 1] :
              CutFacts(d, ls, <<>>, Len(d), whole, start, keep)
  BY <1>1, SofarFacts
<1> DEFINE s == start[Len(ls) + 1]
<1>3. /\ Len(ls) \in Nat
      /\ \A k \in 1 .. Len(ls) + 1 : start[k] \in Nat /\ start[k] # 0 /\ start[k] <= Len(d) + 1
      /\ start[1] = 1
      /\ \A k \in 1 .. Len(ls) : IsLine(d, start[k], start[k + 1], ls[k], keep)
      /\ <<>> = Text(d, s, Len(d))
  BY <1>2 DEF CutFacts, Cut
<1>4. s \in Nat \ {0} /\ s <= Len(d) + 1
  BY <1>3
<1> HIDE DEF s
<1>5. Len(Text(d, s, Len(d))) = Len(d) - s + 1
  <2>1. Len(d) <= Len(d)
    BY <1>1
  <2> QED BY <1>1, <1>4, <2>1, TextProps
<1>6. s = Len(d) + 1
  BY <1>1, <1>3, <1>4, <1>5, EmptySeq
<1> QED BY <1>2, <1>3, <1>6 DEF IsLinesOf, s

-----------------------------------------------------------------------------
(* The iterations of the loop *)

LEMMA FromEmpty ==
    ASSUME NEW d \in Seq(Bytes), NEW p \in 0 .. Len(d)
    PROVE  From(d, p) \in Seq(Bytes) /\ (From(d, p) = <<>> <=> p = Len(d))
<1>1. From(d, p) \in Seq(Bytes) /\ Len(From(d, p)) = Len(d) - p
  BY FromProps
<1>2. Len(d) \in Nat
  BY SeqFacts
<1>3. From(d, p) = <<>> <=> Len(From(d, p)) = 0
  BY <1>1, EmptySeq
<1> QED BY <1>1, <1>2, <1>3

\* What BeginLine delivers.
Delivered(f, part, keep, line) ==
    line = Line(IF part # <<>> THEN Cat(part, Chunk(f.rest)) ELSE Chunk(f.rest),
                ~keep \/ ~f.eof \/ Found(f.rest))

Ready(f) == ~f.inLine /\ f.rest # <<>> /\ f.eof \in BOOLEAN

LEMMA RunningBegins ==
    ASSUME NEW d \in Seq(Bytes), NEW ls \in Seq(Lines), NEW part, NEW whole,
           NEW keep, keep \in BOOLEAN,
           NEW f, Running(f, d, ls, part, whole, keep), Ready(f), Processes(f),
           NEW whole2, whole2 => ~f.eof, NEW line, Delivered(f, part, keep, line),
           NEW g, g.inLine, g.rest = f.rest, NEW part2
    PROVE  Added(ls, line) \in Seq(Lines) /\ Running(g, d, Added(ls, line), part2, whole2, keep)
<1> DEFINE ls2 == Added(ls, line)
           text == IF part # <<>> THEN Cat(part, Chunk(f.rest)) ELSE Chunk(f.rest)
<1>0. ~f.inLine /\ f.rest # <<>> /\ f.eof \in BOOLEAN
  BY DEF Ready
<1>1. PICK p \in 0 .. Len(d) : f.rest = From(d, p) /\ Sofar(d, ls, part, p, whole, keep)
  BY <1>0 DEF Running
<1>2. p < Len(d) /\ \E e \in p + 1 .. Len(d) + 1 : ReadsTo(f.rest, d, p, e)
  BY <1>0, <1>1, ReadStep
<1>3. PICK e \in p + 1 .. Len(d) + 1 :
              /\ Stops(d, p, e)
              /\ Found(f.rest) <=> e <= Len(d)
              /\ Reads(Chunk(f.rest), d, p, e)
              /\ e <= Len(d) => Head(FromStop(f.rest)) = d[e]
              /\ After(d, e) - 1 \in e - 1 .. Len(d)
              /\ Skipped(FromStop(f.rest)) = From(d, After(d, e) - 1)
              /\ EndsWithCR(FromStop(f.rest)) <=> After(d, e) - 1 = Len(d) /\ EndsIn(d, "CR")
  BY <1>2 DEF ReadsTo
<1> DEFINE q == After(d, e) - 1
           chunk == Chunk(f.rest)
<1>4. e <= Len(d) => IsLineEnd(d[e])
  BY <1>3 DEF Processes
<1>5. e > Len(d) => f.eof
  <2>1. Len(d) \in Nat
    BY SeqFacts
  <2> QED BY <1>3, <2>1 DEF Processes
<1>6. (~keep \/ ~f.eof \/ Found(f.rest)) = (e <= Len(d) \/ ~keep)
  <2>1. Len(d) \in Nat
    BY SeqFacts
  <2>2. e <= Len(d) \/ e > Len(d)
    BY <2>1
  <2>3. Found(f.rest) \in BOOLEAN
    BY DEF Found
  <2> QED BY <1>3, <1>5, <2>2, <2>3
<1>7. text = Cat(part, chunk)
  <2>1. CASE part # <<>>
    BY <2>1
  <2>2. CASE part = <<>>
    <3>1. chunk \in Seq(Bytes)
      BY <1>3 DEF Reads
    <3>2. \A t \in Seq(Bytes) : Cat(<<>>, t) = t
      BY ConcatEmptySeq DEF Cat
    <3> QED BY <2>2, <3>1, <3>2
  <2> QED BY <2>1, <2>2
<1>8. ls2 = Added(ls, Line(text, e <= Len(d) \/ ~keep))
  BY <1>6 DEF Delivered
<1>9. whole2 => e <= Len(d)
  <2>1. Len(d) \in Nat
    BY SeqFacts
  <2> QED BY <1>5, <2>1
<1>10. q \in e - 1 .. Len(d) /\ q \in 0 .. Len(d)
  <2>1. Len(d) \in Nat /\ e - 1 \in Nat
    BY SeqFacts
  <2> QED BY <1>3, <2>1
<1>11. Skipped(FromStop(g.rest)) = From(d, q)
       /\ (EndsWithCR(FromStop(g.rest)) <=> q = Len(d) /\ EndsIn(d, "CR"))
  BY <1>3
<1>12. q = After(d, e) - 1 /\ Reads(chunk, d, p, e)
  BY <1>3
<1> HIDE DEF q, chunk, ls2, text
<1>13. ls2 \in Seq(Lines) /\ Sofar(d, ls2, <<>>, q, whole2, keep)
  BY <1>1, <1>2, <1>3, <1>4, <1>7, <1>8, <1>9, <1>10, <1>12, SofarLine
<1>14. Running(g, d, ls2, part2, whole2, keep)
  BY <1>10, <1>11, <1>13, <1>0 DEF Running
<1> QED BY <1>13, <1>14 DEF ls2

LEMMA RunningEnds ==
    ASSUME NEW d \in Seq(Bytes), NEW ls, NEW part, NEW whole, NEW keep,
           NEW f, Running(f, d, ls, part, whole, keep), f.inLine,
           NEW g, ~g.inLine, g.rest = Skipped(FromStop(f.rest))
    PROVE  /\ g.rest \in Seq(Bytes) /\ Running(g, d, ls, <<>>, whole, keep)
           /\ EndsWithCR(FromStop(f.rest)) <=> g.rest = <<>> /\ EndsIn(d, "CR")
<1>1. PICK p \in 0 .. Len(d) :
               /\ Skipped(FromStop(f.rest)) = From(d, p)
               /\ EndsWithCR(FromStop(f.rest)) <=> p = Len(d) /\ EndsIn(d, "CR")
               /\ Sofar(d, ls, <<>>, p, whole, keep)
  BY DEF Running
<1>2. g.rest = From(d, p) /\ g.rest \in Seq(Bytes) /\ (g.rest = <<>> <=> p = Len(d))
  BY <1>1, FromEmpty
<1>3. Running(g, d, ls, <<>>, whole, keep)
  BY <1>1, <1>2 DEF Running
<1> QED BY <1>1, <1>2, <1>3

LEMMA RunningKeeps ==
    ASSUME NEW d \in Seq(Bytes), NEW ls \in Seq(Lines), NEW part, NEW whole, NEW keep,
           NEW f, Running(f, d, ls, part, whole, keep),
           ~f.inLine, f.rest # <<>>, ~Processes(f),
           NEW g, ~g.inLine, g.rest = Skipped(FromStop(f.rest)),
           NEW part2, part2 = Cat(Cat(part, Chunk(f.rest)),
                                  IF Found(f.rest) THEN <<"U+FFFD">> ELSE <<>>)
    PROVE  /\ g.rest \in Seq(Bytes) /\ Running(g, d, ls, part2, whole, keep)
           /\ EndsWithCR(FromStop(f.rest)) <=> g.rest = <<>> /\ EndsIn(d, "CR")
           /\ f.eof /\ g.rest = <<>> => EndsIn(d, "NUL")
           /\ Chunk(f.rest) \in Seq(Bytes)
<1>0. Len(d) \in Nat
  BY SeqFacts
<1>1. PICK p \in 0 .. Len(d) : f.rest = From(d, p) /\ Sofar(d, ls, part, p, whole, keep)
  BY DEF Running
<1>2. p < Len(d) /\ \E e \in p + 1 .. Len(d) + 1 : ReadsTo(f.rest, d, p, e)
  BY <1>1, ReadStep
<1>3. PICK e \in p + 1 .. Len(d) + 1 :
              /\ Stops(d, p, e)
              /\ Found(f.rest) <=> e <= Len(d)
              /\ Reads(Chunk(f.rest), d, p, e)
              /\ e <= Len(d) => Head(FromStop(f.rest)) = d[e]
              /\ After(d, e) - 1 \in e - 1 .. Len(d)
              /\ Skipped(FromStop(f.rest)) = From(d, After(d, e) - 1)
              /\ EndsWithCR(FromStop(f.rest)) <=> After(d, e) - 1 = Len(d) /\ EndsIn(d, "CR")
  BY <1>2 DEF ReadsTo
<1> DEFINE q == After(d, e) - 1
           chunk == Chunk(f.rest)
<1>4. e <= Len(d) => ~IsLineEnd(d[e])
  BY <1>3 DEF Processes
<1>5. part2 = Cat(Cat(part, chunk), IF e <= Len(d) THEN <<"U+FFFD">> ELSE <<>>)
  BY <1>3
<1>6. q \in 0 .. Len(d) /\ q = After(d, e) - 1 /\ Reads(chunk, d, p, e)
  <2>1. e - 1 \in Nat
    BY <1>0
  <2> QED BY <1>0, <1>3, <2>1
<1>7. g.rest = From(d, q) /\ g.rest \in Seq(Bytes) /\ (g.rest = <<>> <=> q = Len(d))
  BY <1>3, <1>6, FromEmpty
<1>8. f.eof /\ q = Len(d) => EndsIn(d, "NUL")
  <2> SUFFICES ASSUME f.eof, q = Len(d) PROVE EndsIn(d, "NUL")
    OBVIOUS
  <2>1. e <= Len(d)
    BY <1>0, <1>3 DEF Processes
  <2>2. d[e] = "NUL"
    BY <1>3, <1>4, <2>1 DEF Stops
  <2>3. e = Len(d)
    BY <1>0, <1>6, <2>1, <2>2 DEF After, IsCRLF
  <2>4. d # <<>>
    BY <2>3, <1>3, <1>0, EmptySeq
  <2> QED BY <2>2, <2>3, <2>4 DEF EndsIn
<1>9. EndsWithCR(FromStop(f.rest)) <=> q = Len(d) /\ EndsIn(d, "CR")
  BY <1>3
<1> HIDE DEF q, chunk
<1>10. Sofar(d, ls, part2, q, whole, keep)
  BY <1>1, <1>3, <1>4, <1>5, <1>6, SofarKeep
<1>11. Running(g, d, ls, part2, whole, keep)
  BY <1>6, <1>7, <1>10 DEF Running
<1>12. chunk \in Seq(Bytes)
  BY <1>6 DEF Reads
<1> QED BY <1>7, <1>8, <1>9, <1>11, <1>12 DEF chunk

-----------------------------------------------------------------------------
(* The steps *)

LEMMA SomeFrame ==
    ASSUME Types, frames # <<>>
    PROVE  /\ Len(frames) \in {1, 2} /\ top \in Frames /\ frames[1] \in Frames
           /\ top = frames[Len(frames)]
<1>1. Len(frames) \in Nat \ {0} /\ Len(frames) <= 2
  BY EmptySeq DEF Types
<1>2. \A k \in 1 .. Len(frames) : frames[k] \in Frames
  BY SeqFacts DEF Types
<1>3. Len(frames) \in 1 .. Len(frames) /\ 1 \in 1 .. Len(frames)
  BY <1>1
<1>5. Len(frames) \in {1, 2}
  <2>1. \A k \in Nat \ {0} : k <= 2 => k \in {1, 2}
    OBVIOUS
  <2> QED BY <1>1, <2>1, Zenon
<1>4. frames[Len(frames)] \in Frames /\ frames[1] \in Frames
  BY <1>2, <1>3
<1> QED BY <1>4, <1>5 DEF top

LEMMA ReplaceProps ==
    ASSUME Types, frames # <<>>, NEW rest \in Seq(Bytes), NEW inLine \in BOOLEAN,
           Replace(rest, inLine)
    PROVE  /\ frames' \in Seq(Frames) /\ Len(frames') = Len(frames)
           /\ frames'[Len(frames)].rest = rest /\ frames'[Len(frames)].inLine = inLine
           /\ frames'[Len(frames)].eof = frames[Len(frames)].eof
           /\ Len(frames) = 2 => frames'[1] = frames[1]
<1> DEFINE n == Len(frames)
           g == [frames[n] EXCEPT !.rest = rest, !.inLine = inLine]
<1>1. n \in {1, 2} /\ frames[n] \in Frames /\ frames \in Seq(Frames)
  BY SomeFrame DEF top, Types
<1>2. n \in 1 .. n /\ DOMAIN frames = 1 .. n /\ (n = 2 => 1 \in 1 .. n)
  BY <1>1, SeqFacts
<1>3. g \in Frames /\ g.rest = rest /\ g.inLine = inLine /\ g.eof = frames[n].eof
  BY <1>1 DEF Frames
<1>4. frames' = [frames EXCEPT ![n] = g]
  BY <1>2 DEF Replace
<1> HIDE DEF g
<1>5. /\ frames' \in Seq(Frames) /\ Len(frames') = n
      /\ \A j \in 1 .. n : frames'[j] = IF j = n THEN g ELSE frames[j]
  <2>1. frames \in Seq(Frames) /\ n \in 1 .. Len(frames) /\ g \in Frames
    BY <1>1, <1>2, <1>3
  <2> DEFINE fs == [frames EXCEPT ![n] = g]
  <2>2. /\ fs \in Seq(Frames) /\ Len(fs) = Len(frames)
        /\ \A j \in 1 .. Len(frames) : fs[j] = IF j = n THEN g ELSE frames[j]
    BY <2>1, ExceptSeq
  <2> HIDE DEF fs
  <2>3. frames' = fs
    BY <1>4 DEF fs
  <2> QED BY <2>2, <2>3
<1>6. frames'[n] = g /\ (n = 2 => frames'[1] = frames[1])
  <2>1. frames'[n] = g
    BY <1>2, <1>5
  <2>2. n = 2 => 1 \in 1 .. n /\ 1 # n
    BY <1>2
  <2>3. n = 2 => frames'[1] = frames[1]
    BY <1>5, <2>2
  <2> QED BY <2>1, <2>3
<1> QED BY <1>3, <1>5, <1>6

LEMMA InitGood ==
    ASSUME Init PROVE IInv
<1>1. Types
  <2>1. \A S : <<>> \in Seq(S) /\ Len(<<>>) = 0
    BY EmptySeq
  <2>2. frames \in Seq(Frames) /\ Len(frames) <= 2
    BY <2>1 DEF Init
  <2>3. linebuf \in Seq(Chars) /\ lines \in Seq(Lines) /\ doc \in Seq(Bytes)
    BY <2>1 DEF Init
  <2>4. nested \in [fed : Seq(Bytes), lines : Seq(Lines)]
    <3>1. <<>> \in Seq(Bytes) /\ <<>> \in Seq(Lines)
      BY <2>1
    <3> QED BY <3>1 DEF Init
  <2> QED BY <2>2, <2>3, <2>4 DEF Init, Types
<1>2. Len(frames) = 0 /\ Len(doc) = 0
  BY EmptySeq DEF Init
<1>3. Sofar(<<>>, <<>>, <<>>, 0, ~Closed, preserve)
  BY EmptySeq, SofarNothing
<1>4. Between
  BY <1>2, <1>3 DEF Init, Between, EndsIn
<1>5. Outer /\ Alone /\ Inner /\ Finished
  BY <1>2 DEF Init, Outer, Alone, Inner, Finished
<1>6. SameLines
  BY FeedAssumption DEF Init, SameLines
<1> QED BY <1>1, <1>4, <1>5, <1>6 DEF IInv

LEMMA BeginLineGood ==
    ASSUME IInv, BeginLine PROVE IInv'
<1> DEFINE n == Len(frames)
           f == frames[n]
           text == IF linebuf # <<>> THEN linebuf \o Chunk(f.rest) ELSE Chunk(f.rest)
           line == Line(text, ~preserve \/ ~f.eof \/ Found(f.rest))
<1>1. /\ Types /\ frames # <<>> /\ ~f.inLine /\ f.rest # <<>> /\ Processes(f)
      /\ Deliver(line) /\ linebuf' = (IF linebuf # <<>> THEN text ELSE linebuf)
      /\ Replace(f.rest, TRUE)
      /\ UNCHANGED <<preserve, client, last_buffer_ended_with_cr, total_size, doc, fed, done>>
  BY DEF IInv, BeginLine, top
<1>2. n \in {1, 2} /\ f \in Frames /\ f.rest \in Seq(Bytes) /\ f.eof \in BOOLEAN
  BY <1>1, SomeFrame DEF top, Frames
<1>3. /\ frames' \in Seq(Frames) /\ Len(frames') = n
      /\ frames'[n].rest = f.rest /\ frames'[n].inLine /\ frames'[n].eof = f.eof
      /\ n = 2 => frames'[1] = frames[1]
  BY <1>1, <1>2, ReplaceProps
<1>4. Closed' = Closed
  BY <1>1 DEF Closed
<1>5. frames' # <<>> /\ ~done /\ fed > 0
  BY <1>1, <1>2, <1>3, EmptySeq DEF IInv, Outer
<1>6. Chunk(f.rest) \in Seq(Bytes) /\ linebuf' \in Seq(Chars)
  <2>1. PICK c \in 0 .. Len(f.rest) : Chunk(f.rest) = SubSeq(f.rest, 1, c)
    BY <1>2, ChunkProps
  <2>2. Chunk(f.rest) \in Seq(Bytes)
    <3>1. Len(f.rest) \in Nat /\ \A i \in 1 .. Len(f.rest) : f.rest[i] \in Bytes
      BY <1>2, SeqFacts
    <3>2. 1 \in Int /\ c \in Int /\ \A i \in 1 .. c : f.rest[i] \in Bytes
      BY <3>1
    <3> QED BY <2>1, <3>2, SubSeqProperties
  <2>3. Chunk(f.rest) \in Seq(Chars)
    BY <2>2, SeqMonotonic DEF Chars
  <2>4. linebuf \in Seq(Chars)
    BY <1>1 DEF Types
  <2>5. linebuf \o Chunk(f.rest) \in Seq(Chars)
    BY <2>3, <2>4, ConcatProperties
  <2> HIDE DEF n
  <2> QED BY <1>1, <2>2, <2>4, <2>5
<1>7. Delivered(f, linebuf, preserve, line)
  BY DEF Cat, Delivered
<1> HIDE DEF text
<1>8. CASE n = 1
  <2> DEFINE ls2 == Added(lines, line)
  <2>1. lines' = ls2 /\ nested' = nested
    BY <1>1, <1>8 DEF Deliver, Added
  <2>2. Running(f, doc, lines, linebuf, ~Closed, preserve) /\ (f.eof => Closed)
    BY <1>1, <1>8 DEF IInv, Outer
  <2>3. doc \in Seq(Bytes) /\ lines \in Seq(Lines) /\ preserve \in BOOLEAN
    BY <1>1 DEF Types
  <2> DEFINE g == frames'[n]
             whole == ~Closed
  <2>4. /\ g.inLine /\ g.rest = f.rest /\ Ready(f) /\ Processes(f) /\ (whole => ~f.eof)
        /\ Running(f, doc, lines, linebuf, whole, preserve)
    BY <1>1, <1>2, <1>3, <2>2 DEF Ready
  <2> HIDE DEF n, f, g, whole, line
  <2>5. ls2 \in Seq(Lines) /\ Running(g, doc, ls2, linebuf', whole, preserve)
    BY <1>7, <2>3, <2>4, RunningBegins
  <2>6. Types'
    BY <1>1, <1>2, <1>3, <1>6, <2>1, <2>5 DEF Types
  <2> HIDE DEF ls2
  <2>7. Outer'
    BY <1>1, <1>3, <1>4, <1>5, <1>8, <2>1, <2>2, <2>5 DEF Outer, f, g, whole
  <2>8. ~last_buffer_ended_with_cr
    BY <1>1, <1>8 DEF IInv, Alone, n, f
  <2>9. Alone' /\ Between' /\ Inner' /\ Finished'
    BY <1>1, <1>3, <1>5, <1>8, <2>8 DEF Alone, Between, Inner, Finished
  <2>10. SameLines'
    BY <1>1, <1>5 DEF IInv, SameLines
  <2> QED BY <2>6, <2>7, <2>9, <2>10 DEF IInv
<1>9. CASE n = 2
  <2> DEFINE d == nested.fed
             ls == nested.lines
             ls2 == Added(ls, line)
  <2>1. lines' = lines /\ nested' = [nested EXCEPT !.lines = ls2]
    BY <1>1, <1>9 DEF Deliver, Added
  <2>2. /\ Running(f, nested.fed, nested.lines, linebuf, FALSE, preserve)
        /\ f.eof /\ frames[1].inLine /\ ~last_buffer_ended_with_cr /\ ~EndsIn(nested.fed, "CR")
    BY <1>1, <1>9 DEF IInv, Inner
  <2>3. nested.fed \in Seq(Bytes) /\ nested.lines \in Seq(Lines) /\ preserve \in BOOLEAN
    BY <1>1 DEF Types
  <2> DEFINE g == frames'[n]
             whole == FALSE
  <2>4. /\ g.inLine /\ g.rest = f.rest /\ Ready(f) /\ Processes(f) /\ (whole => ~f.eof)
        /\ Running(f, d, ls, linebuf, whole, preserve)
        /\ d \in Seq(Bytes) /\ ls \in Seq(Lines) /\ preserve \in BOOLEAN
    BY <1>1, <1>2, <1>3, <2>2, <2>3 DEF Ready
  <2> HIDE DEF n, f, g, whole, line, d, ls
  <2>5. ls2 \in Seq(Lines) /\ Running(g, d, ls2, linebuf', whole, preserve)
    BY <1>7, <2>4, RunningBegins
  <2> HIDE DEF ls2
  <2>6. /\ nested'.fed = nested.fed /\ nested'.lines = ls2
        /\ nested' \in [fed : Seq(Bytes), lines : Seq(Lines)]
    BY <1>1, <2>1, <2>5 DEF Types
  <2>7. Types'
    <3>1. frames' \in Seq(Frames) /\ Len(frames') <= 2
      BY <1>3, <1>9
    <3>2. lines' \in Seq(Lines)
      BY <1>1, <2>1 DEF Types
    <3> QED BY <1>1, <1>6, <2>6, <3>1, <3>2 DEF Types
  <2>8. Outer'
    <3>1. frames'[1] = frames[1] /\ (frames[1].eof => Closed)
          /\ Running(frames[1], doc, lines, linebuf, ~Closed, preserve)
      BY <1>1, <1>3, <1>9 DEF IInv, Outer
    <3>2. Running(frames[1], doc, lines, linebuf', ~Closed, preserve)
      BY <2>2, <3>1 DEF Running
    <3> QED BY <1>1, <1>4, <1>5, <2>1, <3>1, <3>2 DEF Outer
  <2>9. Inner'
    BY <1>1, <1>3, <1>9, <2>2, <2>5, <2>6 DEF Inner, f, g, whole, d
  <2>10. Alone' /\ Between' /\ Finished'
    BY <1>1, <1>3, <1>5, <1>9 DEF Alone, Between, Finished
  <2>11. SameLines'
    BY <1>1, <1>5 DEF IInv, SameLines
  <2> QED BY <2>7, <2>8, <2>9, <2>10, <2>11 DEF IInv
<1> QED BY <1>2, <1>8, <1>9

LEMMA EndLineGood ==
    ASSUME IInv, EndLine PROVE IInv'
<1> DEFINE n == Len(frames)
           f == frames[n]
           rest == Skipped(FromStop(f.rest))
           cr == EndsWithCR(FromStop(f.rest))
           g0 == [rest |-> rest, inLine |-> FALSE]
           g == frames'[n]
<1>1. /\ Types /\ frames # <<>> /\ f.inLine /\ linebuf' = <<>>
      /\ Replace(rest, FALSE)
      /\ last_buffer_ended_with_cr' = (last_buffer_ended_with_cr \/ cr)
      /\ UNCHANGED <<preserve, client, total_size, lines, doc, fed, nested, done>>
  BY DEF IInv, EndLine, NextChunk, top
<1>2. n \in {1, 2} /\ f \in Frames
  BY <1>1, SomeFrame DEF top
<1>3. Closed' = Closed /\ linebuf' \in Seq(Chars) /\ cr \in BOOLEAN
  BY <1>1, EmptySeq DEF Closed, EndsWithCR
<1>4. /\ ~done /\ fed > 0 /\ (frames[1].eof => Closed)
      /\ Running(frames[1], doc, lines, linebuf, ~Closed, preserve)
  BY <1>1 DEF IInv, Outer
<1>5. /\ doc \in Seq(Bytes) /\ nested.fed \in Seq(Bytes)
      /\ last_buffer_ended_with_cr \in BOOLEAN
  BY <1>1 DEF Types
<1>6. ~g0.inLine /\ g0.rest = Skipped(FromStop(f.rest))
  OBVIOUS
<1>7. ASSUME rest \in Seq(Bytes)
      PROVE  /\ frames' \in Seq(Frames) /\ Len(frames') = n /\ frames' # <<>>
             /\ g.rest = rest /\ ~g.inLine /\ g.eof = f.eof
             /\ n = 2 => frames'[1] = frames[1]
  <2>1. /\ frames' \in Seq(Frames) /\ Len(frames') = n
        /\ g.rest = rest /\ g.inLine = FALSE /\ g.eof = f.eof
        /\ n = 2 => frames'[1] = frames[1]
    BY <1>1, <1>7, ReplaceProps
  <2> QED BY <1>2, <2>1, EmptySeq
<1> HIDE DEF rest, cr
<1>8. CASE n = 1
  <2>1. Running(f, doc, lines, linebuf, ~Closed, preserve)
    BY <1>4, <1>8
  <2> DEFINE whole == ~Closed
  <2> HIDE DEF n, f, whole, g, g0
  <2>2. rest \in Seq(Bytes) /\ (cr <=> rest = <<>> /\ EndsIn(doc, "CR"))
    BY <1>1, <1>5, <1>6, <2>1, RunningEnds DEF rest, cr, whole
  <2>3. Running(g, doc, lines, <<>>, whole, preserve)
    BY <1>1, <1>5, <1>7, <2>1, <2>2, RunningEnds DEF rest, whole
  <2>4. Types'
    BY <1>1, <1>2, <1>3, <1>5, <1>7, <2>2 DEF Types
  <2>5. Outer'
    BY <1>1, <1>3, <1>4, <1>7, <1>8, <2>2, <2>3 DEF Outer, f, g, whole
  <2>6. ~last_buffer_ended_with_cr
    BY <1>1, <1>8 DEF IInv, Alone, n, f
  <2>7. Alone'
    BY <1>1, <1>7, <1>8, <2>2, <2>6 DEF Alone, g
  <2>8. Between' /\ Inner' /\ Finished'
    <3>1. Len(frames') # 2
      BY <1>7, <1>8, <2>2
    <3>2. frames' # <<>> /\ ~done'
      BY <1>1, <1>4, <1>7, <2>2
    <3> QED BY <3>1, <3>2 DEF Between, Inner, Finished
  <2>9. SameLines'
    BY <1>1, <1>4 DEF IInv, SameLines
  <2> QED BY <2>4, <2>5, <2>7, <2>8, <2>9 DEF IInv
<1>9. CASE n = 2
  <2>1. /\ Running(f, nested.fed, nested.lines, linebuf, FALSE, preserve)
        /\ f.eof /\ frames[1].inLine /\ ~last_buffer_ended_with_cr /\ ~EndsIn(nested.fed, "CR")
    BY <1>1, <1>9 DEF IInv, Inner
  <2> DEFINE d == nested.fed
             ls == nested.lines
             whole == FALSE
  <2>10. Running(f, d, ls, linebuf, whole, preserve) /\ d \in Seq(Bytes)
    BY <1>5, <2>1
  <2> HIDE DEF n, f, g, g0, d, ls, whole
  <2>11. rest \in Seq(Bytes) /\ (cr <=> rest = <<>> /\ EndsIn(d, "CR"))
    BY <1>1, <1>6, <2>10, RunningEnds DEF rest, cr
  <2>2. rest \in Seq(Bytes) /\ (cr <=> rest = <<>> /\ EndsIn(nested.fed, "CR"))
    BY <2>11 DEF d
  <2>3. Running(g, d, ls, <<>>, whole, preserve)
    BY <1>1, <1>7, <2>2, <2>10, RunningEnds DEF rest
  <2>4. Types'
    BY <1>1, <1>2, <1>3, <1>5, <1>7, <2>2 DEF Types
  <2>5. Running(frames'[1], doc, lines, linebuf', ~Closed, preserve) /\ frames'[1] = frames[1]
    BY <1>4, <1>7, <1>9, <2>1, <2>2 DEF Running
  <2>6. Outer'
    BY <1>1, <1>3, <1>4, <1>7, <2>2, <2>5 DEF Outer
  <2>7. Inner'
    BY <1>1, <1>7, <1>9, <2>1, <2>2, <2>3, <2>5 DEF Inner, f, g, d, ls, whole
  <2>8. Alone' /\ Between' /\ Finished'
    <3>1. Len(frames') # 1
      BY <1>7, <1>9, <2>2
    <3>2. frames' # <<>> /\ ~done'
      BY <1>1, <1>4, <1>7, <2>2
    <3> QED BY <3>1, <3>2 DEF Alone, Between, Finished
  <2>9. SameLines'
    BY <1>1, <1>4 DEF IInv, SameLines
  <2> QED BY <2>4, <2>6, <2>7, <2>8, <2>9 DEF IInv
<1> QED BY <1>2, <1>8, <1>9

LEMMA PartType ==
    ASSUME NEW part \in Seq(Chars), NEW chunk \in Seq(Bytes), NEW c \in BOOLEAN
    PROVE  Cat(Cat(part, chunk), IF c THEN <<"U+FFFD">> ELSE <<>>) \in Seq(Chars)
<1>1. chunk \in Seq(Chars)
  BY SeqMonotonic DEF Chars
<1>2. <<"U+FFFD">> \in Seq(Chars) /\ <<>> \in Seq(Chars)
  BY EmptySeq DEF Chars
<1>3. \A s, t \in Seq(Chars) : Cat(s, t) \in Seq(Chars)
  BY ConcatProperties DEF Cat
<1> QED BY <1>1, <1>2, <1>3

LEMMA KeepPartGood ==
    ASSUME IInv, KeepPart PROVE IInv'
<1> DEFINE n == Len(frames)
           f == frames[n]
           rest == Skipped(FromStop(f.rest))
           cr == EndsWithCR(FromStop(f.rest))
           found == Found(f.rest)
           part2 == Cat(Cat(linebuf, Chunk(f.rest)), IF found THEN <<"U+FFFD">> ELSE <<>>)
           g0 == [rest |-> rest, inLine |-> FALSE]
           g == frames'[n]
<1>1. /\ Types /\ frames # <<>> /\ ~f.inLine /\ f.rest # <<>> /\ ~Processes(f)
      /\ linebuf' = part2
      /\ Replace(rest, FALSE)
      /\ last_buffer_ended_with_cr' = (last_buffer_ended_with_cr \/ cr)
      /\ UNCHANGED <<preserve, client, total_size, lines, doc, fed, nested, done>>
  BY DEF IInv, KeepPart, NextChunk, top, Cat
<1>2. n \in {1, 2} /\ f \in Frames
  BY <1>1, SomeFrame DEF top
<1>3. Closed' = Closed /\ cr \in BOOLEAN /\ found \in BOOLEAN
  BY <1>1 DEF Closed, EndsWithCR, Found
<1>4. /\ ~done /\ fed > 0 /\ (frames[1].eof => Closed)
      /\ Running(frames[1], doc, lines, linebuf, ~Closed, preserve)
  BY <1>1 DEF IInv, Outer
<1>5. /\ doc \in Seq(Bytes) /\ nested.fed \in Seq(Bytes)
      /\ lines \in Seq(Lines) /\ nested.lines \in Seq(Lines)
      /\ last_buffer_ended_with_cr \in BOOLEAN /\ linebuf \in Seq(Chars)
  BY <1>1 DEF Types
<1>6. ~g0.inLine /\ g0.rest = Skipped(FromStop(f.rest))
  OBVIOUS
<1>7. ASSUME rest \in Seq(Bytes)
      PROVE  /\ frames' \in Seq(Frames) /\ Len(frames') = n /\ frames' # <<>>
             /\ g.rest = rest /\ ~g.inLine /\ g.eof = f.eof
             /\ n = 2 => frames'[1] = frames[1]
  <2>1. /\ frames' \in Seq(Frames) /\ Len(frames') = n
        /\ g.rest = rest /\ g.inLine = FALSE /\ g.eof = f.eof
        /\ n = 2 => frames'[1] = frames[1]
    BY <1>1, <1>7, ReplaceProps
  <2> QED BY <1>2, <2>1, EmptySeq
<1>8. ASSUME Chunk(f.rest) \in Seq(Bytes) PROVE part2 \in Seq(Chars)
  <2> HIDE DEF found
  <2> QED BY <1>3, <1>5, <1>8, PartType
<1>9. part2 = Cat(Cat(linebuf, Chunk(f.rest)), IF Found(f.rest) THEN <<"U+FFFD">> ELSE <<>>)
  OBVIOUS
<1> HIDE DEF rest, cr, part2, found
<1>10. CASE n = 1
  <2> DEFINE whole == ~Closed
  <2>1. Running(f, doc, lines, linebuf, whole, preserve)
    BY <1>4, <1>10
  <2> HIDE DEF n, f, whole, g, g0
  <2>2. /\ rest \in Seq(Bytes) /\ (cr <=> rest = <<>> /\ EndsIn(doc, "CR"))
        /\ Chunk(f.rest) \in Seq(Bytes)
    BY <1>1, <1>5, <1>6, <1>9, <2>1, RunningKeeps DEF rest, cr
  <2>3. Running(g, doc, lines, part2, whole, preserve)
    BY <1>1, <1>5, <1>7, <1>9, <2>1, <2>2, RunningKeeps DEF rest
  <2>4. Types'
    BY <1>1, <1>2, <1>3, <1>5, <1>7, <1>8, <2>2 DEF Types
  <2>5. Outer'
    BY <1>1, <1>3, <1>4, <1>7, <1>10, <2>2, <2>3 DEF Outer, f, g, whole
  <2>6. ~last_buffer_ended_with_cr
    BY <1>1, <1>10 DEF IInv, Alone, n, f
  <2>7. Alone'
    BY <1>1, <1>7, <1>10, <2>2, <2>6 DEF Alone, g
  <2>8. Between' /\ Inner' /\ Finished'
    <3>1. Len(frames') # 2
      BY <1>7, <1>10, <2>2
    <3>2. frames' # <<>> /\ ~done'
      BY <1>1, <1>4, <1>7, <2>2
    <3> QED BY <3>1, <3>2 DEF Between, Inner, Finished
  <2>9. SameLines'
    BY <1>1, <1>4 DEF IInv, SameLines
  <2> QED BY <2>4, <2>5, <2>7, <2>8, <2>9 DEF IInv
<1>11. CASE n = 2
  <2>1. /\ Running(f, nested.fed, nested.lines, linebuf, FALSE, preserve)
        /\ f.eof /\ frames[1].inLine /\ ~last_buffer_ended_with_cr /\ ~EndsIn(nested.fed, "CR")
    BY <1>1, <1>11 DEF IInv, Inner
  <2> DEFINE d == nested.fed
             ls == nested.lines
             whole == FALSE
  <2>2. Running(f, d, ls, linebuf, whole, preserve) /\ d \in Seq(Bytes) /\ ls \in Seq(Lines)
    BY <1>5, <2>1
  <2> HIDE DEF n, f, g, g0, d, ls, whole
  <2>3. /\ rest \in Seq(Bytes) /\ (cr <=> rest = <<>> /\ EndsIn(d, "CR"))
        /\ rest = <<>> => EndsIn(d, "NUL")
        /\ Chunk(f.rest) \in Seq(Bytes)
    BY <1>1, <1>6, <1>9, <2>1, <2>2, RunningKeeps DEF rest, cr
  <2>4. Running(g, d, ls, part2, whole, preserve)
    BY <1>1, <1>7, <1>9, <2>2, <2>3, RunningKeeps DEF rest
  <2>5. Types'
    BY <1>1, <1>2, <1>3, <1>5, <1>7, <1>8, <2>3 DEF Types
  <2>6. Running(frames'[1], doc, lines, linebuf', ~Closed, preserve) /\ frames'[1] = frames[1]
    BY <1>4, <1>7, <1>11, <2>1, <2>3 DEF Running
  <2>7. Outer'
    BY <1>1, <1>3, <1>4, <1>7, <2>3, <2>6 DEF Outer
  <2>8. ~cr
    BY <2>1, <2>3 DEF d
  <2>9. Inner'
    BY <1>1, <1>7, <1>11, <2>1, <2>3, <2>4, <2>6, <2>8 DEF Inner, f, g, d, ls, whole
  <2>10. Alone' /\ Between' /\ Finished'
    <3>1. Len(frames') # 1
      BY <1>7, <1>11, <2>3
    <3>2. frames' # <<>> /\ ~done'
      BY <1>1, <1>4, <1>7, <2>3
    <3> QED BY <3>1, <3>2 DEF Alone, Between, Finished
  <2>11. SameLines'
    BY <1>1, <1>4 DEF IInv, SameLines
  <2> QED BY <2>5, <2>7, <2>9, <2>10, <2>11 DEF IInv
<1> QED BY <1>2, <1>10, <1>11

LEMMA FrontProps ==
    ASSUME Types, frames # <<>>
    PROVE  /\ Front(frames) \in Seq(Frames) /\ Len(Front(frames)) = Len(frames) - 1
           /\ Len(frames) = 2 => Front(frames)[1] = frames[1]
<1>1. Len(frames) \in {1, 2} /\ frames \in Seq(Frames)
  BY SomeFrame DEF Types
<1>2. \A k \in 1 .. Len(frames) - 1 : frames[k] \in Frames
  <2>1. \A k \in 1 .. Len(frames) - 1 : k \in 1 .. Len(frames)
    BY <1>1
  <2> QED BY <1>1, <2>1, SeqFacts
<1>3. 1 \in Int /\ Len(frames) - 1 \in Int
  BY <1>1
<1>4. /\ SubSeq(frames, 1, Len(frames) - 1) \in Seq(Frames)
      /\ Len(SubSeq(frames, 1, Len(frames) - 1)) =
            (IF 1 <= Len(frames) - 1 THEN (Len(frames) - 1) - 1 + 1 ELSE 0)
      /\ \A i \in 1 .. (Len(frames) - 1) - 1 + 1 :
            SubSeq(frames, 1, Len(frames) - 1)[i] = frames[1 + i - 1]
  BY <1>2, <1>3, SubSeqProperties
<1>5. Front(frames) = SubSeq(frames, 1, Len(frames) - 1)
  BY DEF Front
<1> DEFINE n == Len(frames)
           fs == Front(frames)
<1>6. n \in {1, 2} /\ fs \in Seq(Frames) /\ Len(fs) = IF 1 <= n - 1 THEN (n - 1) - 1 + 1 ELSE 0
  BY <1>1, <1>4, <1>5
<1>7. n = 2 => fs[1] = frames[1]
  <2> SUFFICES ASSUME n = 2 PROVE fs[1] = frames[1]
    OBVIOUS
  <2>1. 1 \in 1 .. (n - 1) - 1 + 1 /\ 1 + 1 - 1 = 1
    OBVIOUS
  <2> HIDE DEF fs
  <2>2. fs[1] = frames[1 + 1 - 1]
    BY <1>4, <1>5, <2>1 DEF fs
  <2> QED BY <2>1, <2>2
<1> HIDE DEF n, fs
<1>8. Len(fs) = n - 1
  BY <1>6
<1> QED BY <1>6, <1>7, <1>8 DEF n, fs

LEMMA ReturnGood ==
    ASSUME IInv, Return PROVE IInv'
<1> DEFINE n == Len(frames)
           f == frames[n]
<1>1. /\ Types /\ frames # <<>> /\ ~f.inLine /\ f.rest = <<>>
      /\ frames' = Front(frames)
      /\ linebuf' = IF n > 1 THEN f.saved ELSE linebuf
      /\ UNCHANGED <<preserve, client, last_buffer_ended_with_cr, total_size, lines, doc,
                     fed, nested, done>>
  BY DEF IInv, Return, top
<1>2. n \in {1, 2} /\ f \in Frames
  BY <1>1, SomeFrame DEF top
<1>3. /\ frames' \in Seq(Frames) /\ Len(frames') = n - 1
      /\ n = 2 => frames'[1] = frames[1]
  BY <1>1, FrontProps
<1>4. Closed' = Closed
  BY <1>1 DEF Closed
<1>5. /\ ~done /\ fed > 0 /\ (frames[1].eof => Closed)
      /\ Running(frames[1], doc, lines, linebuf, ~Closed, preserve)
  BY <1>1 DEF IInv, Outer
<1>6. linebuf' \in Seq(Chars)
  BY <1>1, <1>2 DEF Types, Frames
<1> HIDE DEF f
<1>7. Types'
  <2>1. Len(frames') <= 2
    BY <1>2, <1>3
  <2> QED BY <1>1, <1>3, <1>6, <2>1 DEF Types
<1>8. Finished' /\ SameLines'
  BY <1>1, <1>5 DEF IInv, Finished, SameLines
<1>9. CASE n = 1
  <2>1. frames' = <<>> /\ Len(frames') = 0
    BY <1>3, <1>9, EmptySeq
  <2>2. PICK p \in 0 .. Len(doc) :
           f.rest = From(doc, p) /\ Sofar(doc, lines, linebuf, p, ~Closed, preserve)
    BY <1>1, <1>5, <1>9 DEF Running, f
  <2>3. p = Len(doc)
    BY <1>1, <2>2, FromEmpty DEF Types
  <2>4. linebuf' = linebuf
    BY <1>1, <1>9
  <2>5. last_buffer_ended_with_cr <=> EndsIn(doc, "CR")
    BY <1>1, <1>9 DEF IInv, Alone, f
  <2>6. Between'
    BY <1>1, <1>4, <2>2, <2>3, <2>4, <2>5 DEF Between
  <2>7. Outer' /\ Alone' /\ Inner'
    BY <2>1 DEF Outer, Alone, Inner
  <2> QED BY <1>7, <1>8, <2>6, <2>7 DEF IInv
<1>10. CASE n = 2
  <2>1. frames[1].inLine /\ ~last_buffer_ended_with_cr
    BY <1>10 DEF IInv, Inner
  <2>2. Len(frames') = 1 /\ frames' # <<>> /\ frames'[1] = frames[1]
    BY <1>3, <1>10, EmptySeq
  <2>3. Running(frames[1], doc, lines, linebuf', ~Closed, preserve)
    BY <1>5, <2>1 DEF Running
  <2>4. Outer'
    BY <1>1, <1>4, <1>5, <2>2, <2>3 DEF Outer
  <2>5. Alone'
    BY <1>1, <2>1, <2>2 DEF Alone
  <2>6. Between'
    BY <2>2 DEF Between
  <2>7. Inner'
    <3>1. Len(frames') # 2
      BY <2>2
    <3> QED BY <3>1 DEF Inner
  <2> QED BY <1>7, <1>8, <2>4, <2>5, <2>6, <2>7 DEF IInv
<1> QED BY <1>2, <1>9, <1>10

-----------------------------------------------------------------------------
(* The next buffer *)

LEMMA CatBegins ==
    ASSUME NEW d \in Seq(Bytes), NEW buf \in Seq(Bytes), buf # <<>>, NEW d2, d2 = Cat(d, buf)
    PROVE  /\ Begins(d, d2) /\ Len(d2) = Len(d) + Len(buf) /\ Len(buf) \in Nat \ {0}
           /\ d2[Len(d) + 1] = Head(buf)
           /\ buf = From(d2, Len(d)) /\ Tail(buf) = From(d2, Len(d) + 1)
<1>1. Len(d) \in Nat /\ Len(buf) \in Nat \ {0}
  BY SeqFacts, EmptySeq
<1>2. /\ d2 \in Seq(Bytes) /\ Len(d2) = Len(d) + Len(buf)
      /\ \A i \in 1 .. Len(d) + Len(buf) :
            d2[i] = IF i <= Len(d) THEN d[i] ELSE buf[i - Len(d)]
  <2> DEFINE both == d \o buf
  <2>1. /\ both \in Seq(Bytes) /\ Len(both) = Len(d) + Len(buf)
        /\ \A i \in 1 .. Len(d) + Len(buf) :
              both[i] = IF i <= Len(d) THEN d[i] ELSE buf[i - Len(d)]
    BY ConcatProperties
  <2>2. d2 = both
    BY DEF Cat
  <2> HIDE DEF both
  <2> QED BY <2>1, <2>2
<1>3. Begins(d, d2)
  <2>1. \A i \in 1 .. Len(d) : i \in 1 .. Len(d) + Len(buf) /\ i <= Len(d)
    BY <1>1
  <2> QED BY <1>1, <1>2, <2>1 DEF Begins
<1>4. \A i \in 1 .. Len(buf) : d2[Len(d) + i] = buf[i]
  <2> SUFFICES ASSUME NEW i \in 1 .. Len(buf) PROVE d2[Len(d) + i] = buf[i]
    OBVIOUS
  <2> DEFINE k == Len(d) + i
  <2>1. k \in 1 .. Len(d) + Len(buf) /\ ~(k <= Len(d)) /\ k - Len(d) = i
    BY <1>1
  <2> HIDE DEF k
  <2>2. d2[k] = buf[k - Len(d)]
    BY <1>2, <2>1
  <2> QED BY <2>1, <2>2 DEF k
<1>5. d2[Len(d) + 1] = Head(buf)
  <2>1. d2[Len(d) + 1] = buf[1]
    BY <1>1, <1>4
  <2>2. Head(buf) = buf[1]
    OBVIOUS
  <2> QED BY <2>1, <2>2
<1>6. buf = From(d2, Len(d))
  <2>1. Len(d) \in 0 .. Len(d2) /\ Len(buf) = Len(d2) - Len(d)
    BY <1>1, <1>2
  <2> QED BY <1>2, <1>4, <2>1, FromProps
<1>7. Tail(buf) = From(d2, Len(d) + 1)
  <2> DEFINE t == Tail(buf)
             p == Len(d) + 1
  <2>1. /\ t \in Seq(Bytes) /\ Len(t) = Len(buf) - 1
        /\ \A i \in 1 .. Len(t) : t[i] = buf[i + 1]
    BY HeadTailProperties
  <2> HIDE DEF t
  <2>2. p \in 0 .. Len(d2) /\ Len(t) = Len(d2) - p
    BY <1>1, <1>2, <2>1
  <2>3. \A i \in 1 .. Len(t) : t[i] = d2[p + i]
    <3> SUFFICES ASSUME NEW i \in 1 .. Len(t) PROVE t[i] = d2[p + i]
      OBVIOUS
    <3>1. i + 1 \in 1 .. Len(buf) /\ Len(d) + (i + 1) = p + i
      BY <1>1, <2>1
    <3>2. d2[Len(d) + (i + 1)] = buf[i + 1]
      BY <1>4, <3>1
    <3> QED BY <2>1, <3>1, <3>2
  <2> HIDE DEF p
  <2>4. t = From(d2, p)
    BY <1>2, <2>1, <2>2, <2>3, FromProps
  <2> QED BY <2>4 DEF t, p
<1> QED BY <1>1, <1>2, <1>3, <1>5, <1>6, <1>7

\* The rest of a buffer fed after d: its first byte may be the second of a CRLF.
Entered(rest, d, buf) ==
    rest = IF EndsIn(d, "CR") /\ Head(buf) = "LF" THEN Tail(buf) ELSE buf

\* All of d is dealt with, and more may come.
Waits(d, ls, part, keep) == Sofar(d, ls, part, Len(d), TRUE, keep)

\* The text is now d2, and rest is what is left of it.
Resumes(rest, d2, ls, part, whole, keep) ==
    /\ rest \in Seq(Bytes)
    /\ \E q \in 0 .. Len(d2) : rest = From(d2, q) /\ Sofar(d2, ls, part, q, whole, keep)
    /\ rest = <<>> => ~EndsIn(d2, "CR")

LEMMA NextBuffer ==
    ASSUME NEW keep, NEW d \in Seq(Bytes), NEW buf \in Seq(Bytes), buf # <<>>,
           NEW d2, d2 = Cat(d, buf),
           NEW ls \in Seq(Lines), NEW part, Waits(d, ls, part, keep), NEW whole,
           NEW rest, Entered(rest, d, buf)
    PROVE  Resumes(rest, d2, ls, part, whole, keep)
<1>1. /\ Begins(d, d2) /\ Len(d2) = Len(d) + Len(buf) /\ Len(buf) \in Nat \ {0}
      /\ d2[Len(d) + 1] = Head(buf)
      /\ buf = From(d2, Len(d)) /\ Tail(buf) = From(d2, Len(d) + 1)
  BY CatBegins
<1>2. Len(d) \in Nat /\ Len(d2) \in Nat /\ d2 \in Seq(Bytes)
  BY <1>1, SeqFacts DEF Begins
<1> DEFINE q == IF Split(d, d2) THEN Len(d) + 1 ELSE Len(d)
<1>3. Split(d, d2) <=> EndsIn(d, "CR") /\ Head(buf) = "LF"
  BY <1>1 DEF Split
<1>4. rest = From(d2, q)
  <2>1. CASE Split(d, d2)
    BY <1>1, <1>3, <2>1 DEF Entered
  <2>2. CASE ~Split(d, d2)
    BY <1>1, <1>3, <2>2 DEF Entered
  <2> QED BY <2>1, <2>2
<1>5. q \in 0 .. Len(d2)
  BY <1>1, <1>2
<1>6. q = Len(d2) => d2[Len(d2)] = "LF"
  BY <1>1, <1>2 DEF Split
<1>7. q = IF Split(d, d2) THEN Len(d) + 1 ELSE Len(d)
  OBVIOUS
<1> HIDE DEF q
<1>8. Sofar(d2, ls, part, q, whole, keep)
  BY <1>1, <1>7, SofarExtend DEF Waits
<1>9. rest \in Seq(Bytes) /\ (rest = <<>> <=> q = Len(d2))
  BY <1>2, <1>4, <1>5, FromEmpty
<1>10. rest = <<>> => ~EndsIn(d2, "CR")
  BY <1>6, <1>9 DEF EndsIn
<1> QED BY <1>4, <1>5, <1>8, <1>9, <1>10 DEF Resumes

LEMMA EnterProps ==
    ASSUME IInv, NEW buf \in Seq(Bytes), NEW eof \in BOOLEAN, NEW saved \in Seq(Chars),
           Len(frames) < 2, Enter(buf, eof, saved), AfterSplitCRLF(buf) \in Seq(Bytes)
    PROVE  /\ frames' \in Seq(Frames) /\ Len(frames') = Len(frames) + 1 /\ Len(frames') <= 2
           /\ frames'[Len(frames) + 1] = Frame(AfterSplitCRLF(buf), eof, saved)
           /\ Len(frames) = 1 => frames'[1] = frames[1]
           /\ fed' = fed + Len(buf) /\ fed' \in Nat
           /\ ~last_buffer_ended_with_cr'
           /\ total_size' = IF fed' > UINT_MAX THEN UINT_MAX ELSE fed'
<1>1. /\ Types /\ frames \in Seq(Frames) /\ fed \in Nat /\ Len(buf) \in Nat /\ Len(frames) \in Nat
      /\ UINT_MAX \in Nat
  BY SeqFacts, FeedAssumption DEF IInv, Types
<1> DEFINE f == Frame(AfterSplitCRLF(buf), eof, saved)
<1>2. f \in Frames
  BY DEF Frame, Frames
<1>3. frames' = Append(frames, f)
  BY DEF Enter
<1> HIDE DEF f
<1> DEFINE fs == Append(frames, f)
<1>4. /\ fs \in Seq(Frames) /\ Len(fs) = Len(frames) + 1
      /\ \A i \in 1 .. Len(frames) : fs[i] = frames[i]
      /\ fs[Len(frames) + 1] = f
  BY <1>1, <1>2, AppendProperties
<1> HIDE DEF fs
<1>5. frames' = fs
  BY <1>3 DEF fs
<1>6. Len(fs) <= 2 /\ (Len(frames) = 1 => fs[1] = frames[1])
  BY <1>1, <1>4
<1>7. fed' = fed + Len(buf) /\ fed' \in Nat /\ ~last_buffer_ended_with_cr'
  BY <1>1 DEF Enter
<1>8. total_size' = IF fed' > UINT_MAX THEN UINT_MAX ELSE fed'
  <2>1. total_size = IF fed > UINT_MAX THEN UINT_MAX ELSE fed
    BY DEF IInv, SameLines
  <2>2. total_size' = Enlarged(total_size, Len(buf))
    BY DEF Enter
  <2> QED BY <1>1, <1>7, <2>1, <2>2 DEF Enlarged
<1> QED BY <1>4, <1>5, <1>6, <1>7, <1>8 DEF f

LEMMA FeedTopGood ==
    ASSUME IInv, NEW buf \in Seq(Bytes), buf # <<>>, NEW eof \in BOOLEAN, FeedTop(buf, eof),
           ~done => ~Closed, eof => Closed'
    PROVE  IInv'
<1> DEFINE d == IF done THEN <<>> ELSE doc
           ls == IF done THEN <<>> ELSE lines
           rest == AfterSplitCRLF(buf)
           cr == last_buffer_ended_with_cr
           d2 == Cat(d, buf)
           whole == ~(Closed')
<1>1. /\ Types /\ frames = <<>> /\ Enter(buf, eof, <<>>) /\ ~done'
      /\ UNCHANGED <<preserve, client, linebuf, nested>>
  BY DEF IInv, FeedTop
<1>2. lines' = ls /\ doc' = d2
  <2>1. lines' = ls /\ doc' = IF done THEN buf ELSE doc \o buf
    BY DEF FeedTop
  <2>2. <<>> \o buf = buf
    BY ConcatEmptySeq
  <2> QED BY <2>1, <2>2 DEF Cat
<1>3. d \in Seq(Bytes) /\ ls \in Seq(Lines) /\ linebuf \in Seq(Chars) /\ Len(frames) = 0
  BY <1>1, EmptySeq DEF Types
<1>4. Sofar(d, ls, linebuf, Len(d), TRUE, preserve) /\ (cr <=> EndsIn(d, "CR"))
  <2>1. CASE done
    <3>1. d = <<>> /\ ls = <<>> /\ linebuf = <<>> /\ ~cr
      BY <2>1 DEF IInv, Finished
    <3>2. Len(<<>>) = 0 /\ <<>> \in Seq(Bytes)
      BY EmptySeq
    <3>3. Sofar(<<>>, <<>>, <<>>, 0, TRUE, preserve)
      BY <3>2, SofarNothing
    <3> HIDE DEF d, ls
    <3> QED BY <3>1, <3>2, <3>3 DEF EndsIn
  <2>2. CASE ~done
    <3>1. Sofar(doc, lines, linebuf, Len(doc), ~Closed, preserve) /\ (cr <=> EndsIn(doc, "CR"))
      BY <1>1, <2>2 DEF IInv, Between
    <3>2. (~Closed) = TRUE
      BY <2>2
    <3>3. d = doc /\ ls = lines
      BY <2>2
    <3> HIDE DEF d, ls, cr
    <3> QED BY <3>1, <3>2, <3>3
  <2> QED BY <2>1, <2>2
<1>5. Entered(rest, d, buf)
  <2> HIDE DEF d
  <2> QED BY <1>4 DEF AfterSplitCRLF, Entered
<1> HIDE DEF d, ls, rest, d2, whole
<1>6. d2 = Cat(d, buf) /\ d2 \in Seq(Bytes)
  BY <1>3, CatBegins DEF d2, Begins
<1>17. Waits(d, ls, linebuf, preserve)
  BY <1>4 DEF Waits
<1>18. Resumes(rest, d2, ls, linebuf, whole, preserve)
  BY <1>3, <1>5, <1>6, <1>17, NextBuffer
<1>7. /\ rest \in Seq(Bytes)
      /\ \E q \in 0 .. Len(d2) : rest = From(d2, q) /\ Sofar(d2, ls, linebuf, q, whole, preserve)
      /\ rest = <<>> => ~EndsIn(d2, "CR")
  BY <1>18 DEF Resumes
<1> DEFINE f == Frame(rest, eof, <<>>)
<1>8. /\ frames' \in Seq(Frames) /\ Len(frames') = 1
      /\ frames'[1] = f
      /\ fed' \in Nat /\ fed' > 0 /\ ~last_buffer_ended_with_cr'
      /\ total_size' = IF fed' > UINT_MAX THEN UINT_MAX ELSE fed'
  <2>1. Len(frames) < 2 /\ <<>> \in Seq(Chars) /\ Len(frames) + 1 = 1 /\ Len(frames) # 1
    BY <1>3, EmptySeq
  <2>2. AfterSplitCRLF(buf) \in Seq(Bytes)
    BY <1>7 DEF rest
  <2>3. /\ frames' \in Seq(Frames) /\ Len(frames') = Len(frames) + 1
        /\ frames'[Len(frames) + 1] = f
        /\ fed' = fed + Len(buf) /\ ~last_buffer_ended_with_cr'
        /\ total_size' = IF fed' > UINT_MAX THEN UINT_MAX ELSE fed'
    BY <1>1, <2>1, <2>2, EnterProps DEF rest
  <2>4. fed \in Nat /\ Len(buf) \in Nat \ {0}
    BY <1>1, SeqFacts, EmptySeq DEF Types
  <2>5. fed' \in Nat /\ fed' > 0
    BY <2>3, <2>4
  <2> HIDE DEF f
  <2> QED BY <2>1, <2>3, <2>5
<1>9. ~f.inLine /\ f.rest = rest /\ f.eof = eof
  BY DEF Frame
<1> HIDE DEF f
<1>10. frames' # <<>>
  <2>1. Len(frames') # 0
    BY <1>8
  <2> QED BY <2>1, EmptySeq
<1>11. Running(f, d2, ls, linebuf, whole, preserve)
  BY <1>7, <1>9 DEF Running
<1>12. Types'
  <2>1. Len(frames') <= 2
    BY <1>8
  <2>2. last_buffer_ended_with_cr' \in BOOLEAN
    BY <1>1 DEF Enter
  <2>3. done' \in BOOLEAN
    BY DEF FeedTop
  <2> QED BY <1>1, <1>2, <1>3, <1>6, <1>8, <2>1, <2>2, <2>3 DEF Types
<1>13. Outer'
  BY <1>1, <1>2, <1>8, <1>9, <1>10, <1>11 DEF Outer, whole
<1>14. Alone'
  BY <1>2, <1>7, <1>8, <1>9 DEF Alone
<1>15. Inner' /\ Between' /\ Finished'
  <2>1. Len(frames') # 2
    BY <1>8
  <2> QED BY <1>1, <1>10, <2>1 DEF Inner, Between, Finished
<1>16. SameLines'
  BY <1>1, <1>8 DEF SameLines
<1> QED BY <1>12, <1>13, <1>14, <1>15, <1>16 DEF IInv

LEMMA BuffersAreSeqs ==
    ASSUME NEW buf \in Buffers PROVE buf \in Seq(Bytes)
<1>1. PICK m \in 0 .. MaxDoc : buf \in [1 .. m -> Bytes]
  BY DEF Buffers, BoundedSeq, SeqOf
<1>2. m \in Nat
  BY <1>1, FeedAssumption
<1> QED BY <1>1, <1>2, FunctionIsSeq

\* A short read ends the file: no more full buffers have been fed since.
LEMMA ShortBuffer ==
    ASSUME NEW m \in Nat \ {0}, NEW a \in Nat, a % m = 0, NEW b \in 1 .. m - 1
    PROVE  (a + b) % m # 0
<1> DEFINE q == a \div m
<1>1. q \in Nat /\ a = m * q
  BY Z3T(30)
<1> HIDE DEF q
<1>2. (m * q + b) % m = b
  BY <1>1, Z3T(30)
<1> QED BY <1>1, <1>2

LEMMA FeedGood ==
    ASSUME IInv, NEW buf \in Buffers,
           cmark_parser_feed(buf) \/ cmark_parse_document(buf) \/ cmark_parse_file(buf)
    PROVE  IInv'
<1>1. buf \in Seq(Bytes)
  BY BuffersAreSeqs
<1>2. CASE cmark_parser_feed(buf)
  <2>1. client = "feed" /\ buf # <<>> /\ FeedTop(buf, FALSE)
    BY <1>2 DEF cmark_parser_feed
  <2>2. ~Closed
    BY <2>1 DEF Closed
  <2> QED BY <1>1, <2>1, <2>2, FeedTopGood
<1>3. CASE cmark_parse_document(buf)
  <2>1. client = "document" /\ fed = 0 /\ buf # <<>> /\ FeedTop(buf, TRUE)
    BY <1>3 DEF cmark_parse_document
  <2>2. ~Closed
    BY <2>1 DEF Closed
  <2>3. Closed'
    <3>1. Len(buf) \in Nat \ {0}
      BY <1>1, <2>1, SeqFacts, EmptySeq
    <3>2. fed' = fed + Len(buf) /\ client' = client
      BY <2>1 DEF FeedTop, Enter
    <3> QED BY <2>1, <3>1, <3>2 DEF Closed
  <2> QED BY <1>1, <2>1, <2>2, <2>3, FeedTopGood
<1>4. CASE cmark_parse_file(buf)
  <2> DEFINE eof == Len(buf) < FileBuffer
  <2>1. /\ client = "file" /\ (done \/ Len(doc) % FileBuffer = 0)
        /\ buf # <<>> /\ Len(buf) <= FileBuffer /\ FeedTop(buf, eof)
    BY <1>4 DEF cmark_parse_file
  <2>2. ~done => ~Closed
    BY <2>1 DEF Closed
  <2>3. Len(buf) \in Nat \ {0} /\ FileBuffer \in Nat \ {0}
    BY <1>1, <2>1, SeqFacts, EmptySeq, FeedAssumption
  <2>4. ASSUME eof PROVE Closed'
    <3>1. client' = "file" /\ doc' = IF done THEN buf ELSE Cat(doc, buf)
      BY <2>1 DEF FeedTop, Cat
    <3>2. Len(buf) \in 1 .. FileBuffer - 1
      BY <2>3, <2>4
    <3>3. CASE done
      <4>1. (0 + Len(buf)) % FileBuffer # 0
        <5>1. 0 \in Nat /\ 0 % FileBuffer = 0
          BY <2>3
        <5> QED BY <2>3, <3>2, <5>1, ShortBuffer
      <4>2. 0 + Len(buf) = Len(buf)
        BY <2>3
      <4> QED BY <3>1, <3>3, <4>1, <4>2 DEF Closed
    <3>4. CASE ~done
      <4>1. doc \in Seq(Bytes) /\ Len(doc) \in Nat
        BY SeqFacts DEF IInv, Types
      <4>2. Len(Cat(doc, buf)) = Len(doc) + Len(buf)
        BY <1>1, <2>1, <4>1, CatBegins
      <4>3. (Len(doc) + Len(buf)) % FileBuffer # 0
        BY <2>1, <2>3, <3>2, <3>4, <4>1, ShortBuffer
      <4> QED BY <3>1, <3>4, <4>2, <4>3 DEF Closed
    <3> QED BY <3>3, <3>4
  <2>5. eof \in BOOLEAN
    OBVIOUS
  <2> HIDE DEF eof
  <2> QED BY <1>1, <2>1, <2>2, <2>4, <2>5, FeedTopGood
<1> QED BY <1>2, <1>3, <1>4

\* A buffer that an extension feeds.
LEMMA ReentrantGood ==
    ASSUME IInv, NEW buf \in Nested, buf # <<>> => buf[Len(buf)] # "CR",
           cmark_parser_feed_reentrant(buf)
    PROVE  IInv'
<1>1. /\ Types /\ frames # <<>> /\ Len(frames) < 2 /\ top.inLine
      /\ Enter(buf, TRUE, linebuf) /\ linebuf' = <<>>
      /\ nested' = [fed |-> buf, lines |-> <<>>]
      /\ UNCHANGED <<preserve, client, lines, doc, done>>
  BY DEF IInv, cmark_parser_feed_reentrant
<1>2. buf \in Seq(Bytes)
  BY FeedAssumption, BuffersAreSeqs
<1>3. Len(frames) = 1 /\ frames[1].inLine
  <2>1. Len(frames) \in {1, 2} /\ top = frames[Len(frames)]
    BY <1>1, SomeFrame
  <2> DEFINE n == Len(frames)
  <2>2. n = 1
    BY <1>1, <2>1
  <2> HIDE DEF n
  <2> QED BY <1>1, <2>1, <2>2 DEF n
<1>4. ~last_buffer_ended_with_cr
  BY <1>3 DEF IInv, Alone
<1>5. AfterSplitCRLF(buf) = buf
  BY <1>4 DEF AfterSplitCRLF
<1> DEFINE f == Frame(buf, TRUE, linebuf)
<1>6. /\ frames' \in Seq(Frames) /\ Len(frames') = 2
      /\ frames'[2] = f /\ frames'[1] = frames[1]
      /\ fed' = fed + Len(buf) /\ fed' \in Nat /\ ~last_buffer_ended_with_cr'
      /\ total_size' = IF fed' > UINT_MAX THEN UINT_MAX ELSE fed'
  <2>1. TRUE \in BOOLEAN /\ linebuf \in Seq(Chars) /\ Len(frames) + 1 = 2
    BY <1>1, <1>3 DEF Types
  <2>2. AfterSplitCRLF(buf) \in Seq(Bytes)
    BY <1>2, <1>5
  <2>3. /\ frames' \in Seq(Frames) /\ Len(frames') = Len(frames) + 1
        /\ frames'[Len(frames) + 1] = f
        /\ Len(frames) = 1 => frames'[1] = frames[1]
        /\ fed' = fed + Len(buf) /\ fed' \in Nat /\ ~last_buffer_ended_with_cr'
        /\ total_size' = IF fed' > UINT_MAX THEN UINT_MAX ELSE fed'
    BY <1>1, <1>2, <1>5, <2>1, <2>2, EnterProps
  <2> HIDE DEF f
  <2> QED BY <1>3, <2>1, <2>3
<1>7. ~f.inLine /\ f.rest = buf /\ f.eof
  BY DEF Frame
<1> HIDE DEF f
<1>8. frames' # <<>>
  <2>1. Len(frames') # 0
    BY <1>6
  <2> QED BY <2>1, EmptySeq
<1>9. Running(f, buf, <<>>, <<>>, FALSE, preserve)
  <2>1. Len(buf) \in Nat
    BY <1>2, SeqFacts
  <2>2. 0 \in 0 .. Len(buf) /\ buf = From(buf, 0)
    <3>1. 0 \in 0 .. Len(buf) /\ Len(buf) = Len(buf) - 0 /\ \A i \in 1 .. Len(buf) : 0 + i = i
      BY <2>1
    <3> QED BY <1>2, <3>1, FromProps
  <2>3. Sofar(buf, <<>>, <<>>, 0, FALSE, preserve)
    BY <1>2, SofarNothing
  <2> QED BY <1>7, <2>2, <2>3 DEF Running
<1>10. /\ ~done /\ fed > 0 /\ (frames[1].eof => Closed)
       /\ Running(frames[1], doc, lines, linebuf, ~Closed, preserve)
  BY <1>1 DEF IInv, Outer
<1>11. Closed' = Closed
  <2>1. Len(buf) \in Nat /\ fed \in Nat
    BY <1>1, <1>2, SeqFacts DEF Types
  <2>2. fed' > 0
    BY <1>6, <1>10, <2>1
  <2> QED BY <1>1, <1>10, <2>2 DEF Closed
<1>12. Types'
  <2>1. <<>> \in Seq(Chars) /\ <<>> \in Seq(Lines)
    BY EmptySeq
  <2>2. nested' \in [fed : Seq(Bytes), lines : Seq(Lines)]
    BY <1>1, <1>2, <2>1
  <2>3. last_buffer_ended_with_cr' \in BOOLEAN
    BY <1>1 DEF Enter
  <2>4. Len(frames') <= 2
    BY <1>6
  <2> QED BY <1>1, <1>6, <2>1, <2>2, <2>3, <2>4 DEF Types
<1>13. Outer'
  <2>1. Running(frames[1], doc, lines, linebuf', ~Closed, preserve)
    BY <1>3, <1>10 DEF Running
  <2>2. Len(buf) \in Nat /\ fed \in Nat
    BY <1>1, <1>2, SeqFacts DEF Types
  <2>3. fed' > 0
    BY <1>6, <1>10, <2>2
  <2> QED BY <1>1, <1>6, <1>8, <1>10, <1>11, <2>1, <2>3 DEF Outer
<1>14. Inner'
  <2>1. ~EndsIn(buf, "CR")
    BY DEF EndsIn
  <2>2. nested'.fed = buf /\ nested'.lines = <<>>
    BY <1>1
  <2> QED BY <1>1, <1>3, <1>6, <1>7, <1>9, <2>1, <2>2 DEF Inner
<1>15. Alone' /\ Between' /\ Finished'
  <2>1. Len(frames') # 1
    BY <1>6
  <2> QED BY <1>1, <1>8, <1>10, <2>1 DEF Alone, Between, Finished
<1>16. SameLines'
  BY <1>1, <1>6, <1>10 DEF SameLines
<1> QED BY <1>12, <1>13, <1>14, <1>15, <1>16 DEF IInv

\* What is left in linebuf becomes the last line.
LEMMA FinishProps ==
    ASSUME NEW d \in Seq(Bytes), NEW ls \in Seq(Lines), NEW part \in Seq(Chars), NEW whole,
           NEW keep \in BOOLEAN, Sofar(d, ls, part, Len(d), whole, keep),
           NEW ls2, ls2 = IF part = <<>> THEN ls ELSE Added(ls, Line(part, ~keep))
    PROVE  ls2 \in Seq(Lines) /\ IsLinesOf(ls2, d, keep)
<1>1. CASE part = <<>>
  <2>1. ls2 = ls
    BY <1>1
  <2> QED BY <1>1, <2>1, SofarEnd
<1>2. CASE part # <<>>
  <2> DEFINE p == Len(d)
             e == Len(d) + 1
             chunk == <<>>
  <2>1. Len(d) \in Nat
    BY SeqFacts
  <2>2. p \in 0 .. Len(d) /\ ~(e <= Len(d)) /\ e - 1 = Len(d) /\ Len(d) \in e - 1 .. Len(d)
    BY <2>1
  <2>3. After(d, e) - 1 = Len(d)
    BY <2>1 DEF After
  <2>4. Stops(d, p, e)
    BY <2>1 DEF Stops
  <2>5. Reads(chunk, d, p, e)
    BY <2>1, EmptySeq DEF Reads
  <2>6. Cat(part, chunk) = part
    BY ConcatEmptySeq DEF Cat
  <2>7. (e <= Len(d) \/ ~keep) = ~keep
    BY <2>2
  <2>8. ls2 = Added(ls, Line(part, e <= Len(d) \/ ~keep))
    BY <1>2, <2>7
  <2> HIDE DEF p, e, chunk
  <2>9. Sofar(d, ls, part, p, whole, keep)
    BY DEF p
  <2>10. ls2 \in Seq(Lines) /\ Sofar(d, ls2, <<>>, Len(d), FALSE, keep)
    BY <1>2, <2>2, <2>3, <2>4, <2>5, <2>6, <2>8, <2>9, SofarLine
  <2> QED BY <2>10, SofarEnd
<1> QED BY <1>1, <1>2

LEMMA FinishGood ==
    ASSUME IInv, cmark_parser_finish PROVE IInv'
<1>1. /\ Types /\ frames = <<>> /\ ~done /\ done' = TRUE
      /\ lines' = IF linebuf = <<>> THEN lines ELSE Added(lines, Line(linebuf, ~preserve))
      /\ linebuf' = <<>> /\ last_buffer_ended_with_cr' = FALSE /\ total_size' = 0 /\ fed' = 0
      /\ nested' = [fed |-> <<>>, lines |-> <<>>]
      /\ UNCHANGED <<preserve, client, frames, doc>>
  BY DEF IInv, cmark_parser_finish, Added
<1>2. /\ doc \in Seq(Bytes) /\ lines \in Seq(Lines) /\ linebuf \in Seq(Chars)
      /\ preserve \in BOOLEAN
  BY <1>1 DEF Types
<1>3. Sofar(doc, lines, linebuf, Len(doc), ~Closed, preserve)
  BY <1>1 DEF IInv, Between
<1> DEFINE whole == ~Closed
           ls2 == IF linebuf = <<>> THEN lines ELSE Added(lines, Line(linebuf, ~preserve))
<1>4. ls2 \in Seq(Lines) /\ IsLinesOf(ls2, doc, preserve)
  <2>1. Sofar(doc, lines, linebuf, Len(doc), whole, preserve)
    BY <1>3
  <2> HIDE DEF whole
  <2> QED BY <1>2, <2>1, FinishProps
<1>5. lines' = ls2
  BY <1>1
<1> HIDE DEF ls2
<1>6. <<>> \in Seq(Chars) /\ <<>> \in Seq(Bytes) /\ <<>> \in Seq(Lines) /\ Len(frames) = 0
  BY <1>1, EmptySeq
<1>7. Types'
  <2>1. nested' \in [fed : Seq(Bytes), lines : Seq(Lines)]
    BY <1>1, <1>6
  <2>2. frames' \in Seq(Frames) /\ Len(frames') <= 2
    BY <1>1 DEF Types
  <2> QED BY <1>1, <1>2, <1>4, <1>5, <1>6, <2>1, <2>2 DEF Types
<1>8. Between' /\ Outer' /\ Alone' /\ Inner' /\ Finished'
  <2>1. Len(frames') = 0 /\ frames' = <<>>
    BY <1>1, <1>6
  <2> QED BY <1>1, <2>1 DEF Between, Outer, Alone, Inner, Finished
<1>9. SameLines'
  <2>1. total_size' = IF fed' > UINT_MAX THEN UINT_MAX ELSE fed'
    BY <1>1, FeedAssumption
  <2> QED BY <1>1, <1>4, <1>5, <2>1 DEF SameLines
<1> QED BY <1>7, <1>8, <1>9 DEF IInv

LEMMA StutterGood ==
    ASSUME IInv, UNCHANGED vars PROVE IInv'
<1>1. UNCHANGED <<preserve, client, linebuf, last_buffer_ended_with_cr, total_size, frames,
                  lines, doc, fed, nested, done>>
  BY DEF vars
<1>2. Closed' = Closed
  BY <1>1 DEF Closed
<1>3. Types' /\ Finished' /\ SameLines'
  BY <1>1 DEF IInv, Types, Finished, SameLines
<1>4. Between' /\ Alone'
  BY <1>1, <1>2 DEF IInv, Between, Alone
<1>5. Outer'
  BY <1>1, <1>2 DEF IInv, Outer
<1>6. Inner'
  BY <1>1 DEF IInv, Inner
<1> QED BY <1>3, <1>4, <1>5, <1>6 DEF IInv

LEMMA NextGood ==
    ASSUME \A b \in Nested : b # <<>> => b[Len(b)] # "CR", IInv, [Next]_vars
    PROVE  IInv'
<1>1. CASE \E buf \in Buffers : \/ cmark_parser_feed(buf)
                                \/ cmark_parse_document(buf)
                                \/ cmark_parse_file(buf)
  BY <1>1, FeedGood
<1>2. CASE \E buf \in Nested : cmark_parser_feed_reentrant(buf)
  BY <1>2, ReentrantGood
<1>3. CASE BeginLine \/ EndLine \/ KeepPart \/ Return \/ cmark_parser_finish
  BY <1>3, BeginLineGood, EndLineGood, KeepPartGood, ReturnGood, FinishGood
<1>4. CASE UNCHANGED vars
  BY <1>4, StutterGood
<1> QED BY <1>1, <1>2, <1>3, <1>4 DEF Next

-----------------------------------------------------------------------------
(* Buffers fed by extensions *)

\* No text is left in linebuf when the call of an extension's buffer returns.
NestedInv ==
    /\ NestedComplete
    /\ Len(frames) = 2 => ~EndsIn(nested.fed, "NUL")

LEMMA ReplaceLen ==
    ASSUME Types, Types', NEW rest, NEW inLine, Replace(rest, inLine)
    PROVE  Len(frames') = Len(frames)
<1> DEFINE m == Len(frames)
           n == Len(frames')
<1>1. /\ m \in Nat /\ n \in Nat
      /\ DOMAIN frames = 1 .. m /\ DOMAIN frames' = 1 .. n
  BY SeqFacts DEF Types
<1>2. DOMAIN frames' = DOMAIN frames
  BY DEF Replace
<1> HIDE DEF m, n
<1>3. \A i \in Int : i \in 1 .. m <=> i \in 1 .. n
  BY <1>1, <1>2
<1>4. m <= n /\ n <= m
  BY <1>1, <1>3
<1>5. m = n
  BY <1>1, <1>4
<1> QED BY <1>5 DEF m, n

LEMMA NoLines ==
    ASSUME NEW keep PROVE IsLinesOf(<<>>, <<>>, keep)
<1>1. <<>> \in Seq(Bytes) /\ <<>> \in Seq(Lines) /\ Len(<<>>) = 0
  BY EmptySeq
<1>2. Sofar(<<>>, <<>>, <<>>, 0, FALSE, keep)
  BY <1>1, SofarNothing
<1> QED BY <1>1, <1>2, SofarEnd

LEMMA NestedStep ==
    ASSUME \A b \in Nested : b # <<>> => b[Len(b)] # "NUL",
           IInv, IInv', NestedInv, [Next]_vars
    PROVE  NestedInv'
<1>1. Types /\ Types' /\ preserve' = preserve
  BY DEF IInv, Next, vars, BeginLine, EndLine, KeepPart, Return, FeedTop, cmark_parser_feed,
         cmark_parse_document, cmark_parse_file, cmark_parser_feed_reentrant, cmark_parser_finish
<1>2. Len(frames) \in Nat /\ Len(frames) <= 2
  BY <1>1, SeqFacts DEF Types
<1>3. ASSUME Len(frames') = Len(frames), nested'.fed = nested.fed,
             Len(frames) < 2 => nested' = nested
      PROVE  NestedInv'
  BY <1>1, <1>3 DEF NestedInv, NestedComplete
<1>4. CASE BeginLine
  <2>1. Len(frames') = Len(frames)
    BY <1>1, <1>4, ReplaceLen DEF BeginLine
  <2>2. nested'.fed = nested.fed /\ (Len(frames) < 2 => nested' = nested)
    <3>1. CASE Len(frames) <= 1
      BY <1>4, <3>1 DEF BeginLine, Deliver
    <3>2. CASE ~(Len(frames) <= 1)
      <4>1. PICK line : nested' = [nested EXCEPT !.lines = Append(@, line)]
        BY <1>4, <3>2 DEF BeginLine, Deliver
      <4>2. nested'.fed = nested.fed
        BY <1>1, <4>1 DEF Types
      <4> QED BY <1>2, <3>2, <4>2
    <3> QED BY <3>1, <3>2
  <2> QED BY <1>3, <2>1, <2>2
<1>5. CASE EndLine \/ KeepPart
  <2>1. nested' = nested /\ Len(frames') = Len(frames)
    BY <1>1, <1>5, ReplaceLen DEF EndLine, KeepPart, NextChunk
  <2> QED BY <1>3, <2>1
<1>6. CASE Return
  <2>1. /\ frames # <<>> /\ ~top.inLine /\ top.rest = <<>> /\ top = frames[Len(frames)]
        /\ frames' = Front(frames) /\ nested' = nested
    BY <1>6 DEF Return, top
  <2>2. Len(frames') = Len(frames) - 1 /\ Len(frames) \in {1, 2}
    BY <1>1, <2>1, FrontProps, SomeFrame
  <2>3. Len(frames') # 2
    BY <2>2
  <2>4. CASE Len(frames) = 1
    <3>1. IsLinesOf(nested.lines, nested.fed, preserve)
      BY <2>4 DEF NestedInv, NestedComplete
    <3> QED BY <1>1, <2>1, <2>3, <3>1 DEF NestedInv, NestedComplete
  <2>5. CASE Len(frames) = 2
    <3> DEFINE d == nested.fed
               ls == nested.lines
    <3>1. /\ Running(frames[2], d, ls, linebuf, FALSE, preserve)
          /\ ~frames[2].inLine /\ frames[2].rest = <<>>
          /\ linebuf = <<>> \/ EndsIn(d, "NUL")
      BY <2>1, <2>5 DEF IInv, Inner
    <3>2. linebuf = <<>>
      BY <2>5, <3>1 DEF NestedInv
    <3>3. d \in Seq(Bytes) /\ ls \in Seq(Lines)
      BY <1>1 DEF Types
    <3> HIDE DEF d, ls
    <3>4. PICK p \in 0 .. Len(d) : <<>> = From(d, p) /\ Sofar(d, ls, linebuf, p, FALSE, preserve)
      BY <3>1 DEF Running
    <3>5. p = Len(d)
      BY <3>3, <3>4, FromEmpty
    <3>6. IsLinesOf(ls, d, preserve)
      BY <3>2, <3>3, <3>4, <3>5, SofarEnd
    <3> QED BY <1>1, <2>1, <2>3, <3>6 DEF NestedInv, NestedComplete, d, ls
  <2> QED BY <2>2, <2>4, <2>5
<1>7. ASSUME NEW buf, NEW eof, FeedTop(buf, eof) PROVE NestedInv'
  <2>1. frames = <<>> /\ nested' = nested /\ Enter(buf, eof, <<>>)
    BY <1>7 DEF FeedTop
  <2>2. Len(frames') # 2
    <3> DEFINE f == Frame(AfterSplitCRLF(buf), eof, <<>>)
    <3>1. frames' = Append(<<>>, f)
      BY <2>1 DEF Enter
    <3> HIDE DEF f
    <3>2. Len(Append(<<>>, f)) = 1
      BY EmptySeq
    <3> QED BY <3>1, <3>2
  <2>3. IsLinesOf(nested.lines, nested.fed, preserve)
    <3>1. Len(frames) = 0
      BY <2>1, EmptySeq
    <3> QED BY <3>1 DEF NestedInv, NestedComplete
  <2> QED BY <1>1, <2>1, <2>2, <2>3 DEF NestedInv, NestedComplete
<1>8. CASE \E buf \in Buffers : \/ cmark_parser_feed(buf)
                                \/ cmark_parse_document(buf)
                                \/ cmark_parse_file(buf)
  BY <1>7, <1>8 DEF cmark_parser_feed, cmark_parse_document, cmark_parse_file
<1>9. CASE \E buf \in Nested : cmark_parser_feed_reentrant(buf)
  <2>1. PICK buf \in Nested : cmark_parser_feed_reentrant(buf)
    BY <1>9
  <2>2. nested'.fed = buf /\ ~EndsIn(buf, "NUL")
    BY <2>1 DEF cmark_parser_feed_reentrant, EndsIn
  <2>3. Len(frames') = 2
    <3>1. frames # <<>> /\ Len(frames) < 2 /\ Enter(buf, TRUE, linebuf)
      BY <2>1 DEF cmark_parser_feed_reentrant
    <3>2. Len(frames) = 1
      <4>1. Len(frames) \in {1, 2}
        BY <1>1, <3>1, SomeFrame
      <4> DEFINE n == Len(frames)
      <4>2. n \in {1, 2} /\ n < 2
        BY <3>1, <4>1
      <4> HIDE DEF n
      <4>3. n = 1
        BY <4>2
      <4> QED BY <4>3 DEF n
    <3> DEFINE f == Frame(AfterSplitCRLF(buf), TRUE, linebuf)
    <3>3. frames' = Append(frames, f) /\ frames \in Seq(Frames)
      BY <1>1, <3>1 DEF Enter, Types
    <3> HIDE DEF f
    <3>4. Len(Append(frames, f)) = Len(frames) + 1
      BY <3>3
    <3> QED BY <3>2, <3>3, <3>4
  <2> QED BY <2>2, <2>3 DEF NestedInv, NestedComplete
<1>10. CASE cmark_parser_finish
  <2>1. /\ Len(frames') = 0 /\ nested'.fed = <<>> /\ nested'.lines = <<>>
    BY <1>10, EmptySeq DEF cmark_parser_finish
  <2>2. IsLinesOf(<<>>, <<>>, preserve)
    BY NoLines
  <2> QED BY <1>1, <2>1, <2>2 DEF NestedInv, NestedComplete
<1>11. CASE UNCHANGED vars
  <2>1. frames' = frames /\ nested' = nested
    BY <1>11 DEF vars
  <2> QED BY <1>3, <2>1
<1> QED BY <1>4, <1>5, <1>6, <1>8, <1>9, <1>10, <1>11 DEF Next

-----------------------------------------------------------------------------
(* Theorems *)

\* Whatever buffers a document comes in, of any length and through whichever interface,
\* with buffers that extensions feed in the middle of it, the lines given to
\* S_process_line are those of the whole document and total_size is the bytes fed
\* (S_parser_feed, cmark_parser_finish).  After a buffer of an extension that
\* ends in CR, last_buffer_ended_with_cr is up for the document's next buffer.
THEOREM FeedSameLines ==
    ASSUME \A b \in Nested : b # <<>> => b[Len(b)] # "CR"
    PROVE  Spec => []SameLines
<1>1. Init => IInv
  BY InitGood
<1>2. IInv /\ [Next]_vars => IInv'
  BY NextGood
<1>3. IInv => SameLines
  BY DEF IInv
<1> QED BY <1>1, <1>2, <1>3, PTL DEF Spec

\* The lines of an extension's buffer, of any length, have all been processed when
\* cmark_parser_feed_reentrant returns.  If the buffer ends in a NUL, the text before
\* it is in linebuf, and lost when linebuf is put back.
THEOREM FeedNested ==
    ASSUME \A b \in Nested : b # <<>> => b[Len(b)] \notin {"CR", "NUL"}
    PROVE  Spec => []NestedComplete
<1>1. /\ \A b \in Nested : b # <<>> => b[Len(b)] # "CR"
      /\ \A b \in Nested : b # <<>> => b[Len(b)] # "NUL"
  OBVIOUS
<1>2. Init => IInv /\ NestedInv
  <2> SUFFICES ASSUME Init PROVE IInv /\ NestedInv
    OBVIOUS
  <2>1. Len(frames) = 0 /\ nested.fed = <<>> /\ nested.lines = <<>>
    BY EmptySeq DEF Init
  <2>2. IsLinesOf(<<>>, <<>>, preserve)
    BY NoLines
  <2> QED BY <2>1, <2>2, InitGood DEF NestedInv, NestedComplete
<1>3. IInv /\ NestedInv /\ [Next]_vars => (IInv /\ NestedInv)'
  BY <1>1, NextGood, NestedStep
<1>4. NestedInv => NestedComplete
  BY DEF NestedInv
<1> QED BY <1>2, <1>3, <1>4, PTL DEF Spec
===============================================================================

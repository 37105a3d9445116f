----------------------------- MODULE BlocksProofs -----------------------------
(***************************************************************************)
(* The open blocks of Blocks, for any documents: while a line is dealt     *)
(* with there are two chains of them, the blocks that go on with those     *)
(* opened in them, and the unmatched ones that are still to be closed.     *)
(***************************************************************************)
EXTENDS Blocks, TLAPS, SequenceTheorems, WellFoundedInduction

IsSeq(s) == Len(s) \in Nat /\ s = [i \in 1 .. Len(s) |-> s[i]]

Fields == {"type", "parent", "open", "start_line", "last_line_blank", "last_line_checked",
           "content", "kind", "need", "fenced", "tight"}

Holders == {"document", "block_quote", "footnote_definition", "item", "list"}

\* A block as make_block leaves it, or later.
IsBlock(b) ==
    /\ DOMAIN b = Fields
    /\ IsSeq(b.content)
    /\ b.fenced => b.type = "code_block"
    /\ b.open => b.type # "freed"

WellBuilt(bs) ==
    /\ IsSeq(bs) /\ root \in 1 .. Len(bs)
    /\ \A b \in 1 .. Len(bs) : IsBlock(bs[b])
    /\ \A b \in 1 .. Len(bs) : b # root =>
          bs[b].parent \in 1 .. b - 1 /\ bs[bs[b].parent].type \in Holders
    /\ bs[root].parent = NULL /\ bs[root].type = "document" /\ bs[root].kind = "none"

LastChild(bs, b) ==
    \A c \in 1 .. Len(bs) : bs[c].parent = bs[b].parent /\ bs[c].type # "freed" => c <= b

\* The open blocks among A are tip and those tip is in; each is the last child of the one
\* it is in.
Chain(bs, A, tip) ==
    /\ tip \in A /\ bs[tip].open
    /\ \A b \in A : bs[b].open =>
          /\ b <= tip
          /\ b # root => bs[b].parent \in A /\ bs[bs[b].parent].open /\ LastChild(bs, b)
    /\ \A b, c \in A : bs[b].open /\ bs[c].open /\ c < b => c <= bs[b].parent

\* The blocks that are not unmatched, when the last that matched is low and the unmatched
\* ones are those after it up to high.
Kept(bs, low, high) == {b \in 1 .. Len(bs) : b <= low \/ b > high}

\* The open blocks between low and high are high and those it is in below low.
Hanging(bs, low, high) ==
    /\ high \in 1 .. Len(bs) /\ low \in 1 .. high
    /\ high # low => bs[high].open
    /\ \A b \in low + 1 .. high : bs[b].open =>
          \/ bs[b].parent = low
          \/ /\ bs[b].parent \in low + 1 .. high /\ bs[bs[b].parent].open
             /\ LastChild(bs, b)
    /\ \A b, c \in low + 1 .. high : bs[b].open /\ bs[c].open /\ c < b => c <= bs[b].parent

\* Nothing was opened beside them yet.
Joined(bs, low, high) ==
    \A b \in low + 1 .. high : bs[b].open /\ bs[b].parent = low => LastChild(bs, b)

\* What add_child is to make.
Adding ==
    /\ IsSeq(adding) /\ Len(adding) \in {1, 2}
    /\ \A i \in 1 .. Len(adding) : IsBlock(adding[i]) /\ adding[i].open
    /\ Len(adding) = 2 => adding[1].type = "list" /\ adding[2].type = "item"
    /\ adding[1].type = "item" => type(container) = "list"
    /\ adding[1].type = "paragraph" => current = last_matched
    /\ type(container) # "code_block"

\* A fenced code block is empty until the end of the line that opens it.
FencesFilled ==
    \A b \in 1 .. Len(blocks) :
        blocks[b].open /\ blocks[b].fenced /\ blocks[b].content = << >> =>
            pc \in {"text", "close"} /\ b = container /\ b > current

Matching == pc \in {"idle", "check", "html_end", "finish"}
Opened == pc \in {"open", "add", "text", "close"}

IInv ==
    /\ WellBuilt(blocks) /\ FencesFilled /\ ~asserted
    /\ Matching \/ Opened \/ pc = "done"
    /\ pc # "done" => blocks[root].open
    /\ Matching => Chain(blocks, 1 .. Len(blocks), current)
    /\ Opened => /\ Chain(blocks, Kept(blocks, last_matched, current), container)
                 /\ Hanging(blocks, last_matched, current)
    /\ pc = "check" => container \in 1 .. Len(blocks) /\ blocks[container].open
    /\ pc \in {"open", "text"} /\ container = last_matched =>
          Joined(blocks, last_matched, current)
    /\ pc = "add" => Adding
    /\ pc = "html_end" => container = current /\ current # root
    /\ pc = "done" => current # NULL

-----------------------------------------------------------------------------
(* Sequences, and least and greatest numbers *)

\* A sequence is one of the set of what it has.
LEMMA OwnSeq ==
    ASSUME NEW s, IsSeq(s)
    PROVE  s \in Seq({s[i] : i \in 1 .. Len(s)})
<1> DEFINE S == {s[i] : i \in 1 .. Len(s)}
<1>1. s \in [1 .. Len(s) -> S]
  BY DEF IsSeq
<1> HIDE DEF S
<1>2. s \in Seq(S)
  BY <1>1, SeqDef DEF IsSeq
<1> QED BY <1>2 DEF S

LEMMA SeqIsSeq ==
    ASSUME NEW S, NEW s \in Seq(S)
    PROVE  IsSeq(s)
BY LenProperties DEF IsSeq

\* Part of a sequence is a sequence, and no longer.
LEMMA SubSeqShorter ==
    ASSUME NEW s, IsSeq(s), NEW m \in Nat \ {0}, NEW n \in Nat, n <= Len(s)
    PROVE  IsSeq(SubSeq(s, m, n)) /\ Len(SubSeq(s, m, n)) <= Len(s)
<1> DEFINE S == {s[i] : i \in 1 .. Len(s)}
<1>1. m \in Int /\ n \in Int /\ Len(s) \in Nat /\ m .. n \subseteq 1 .. Len(s)
  BY DEF IsSeq
<1>2. \A i \in m .. n : s[i] \in S
  BY <1>1
<1> HIDE DEF S
<1>3. /\ SubSeq(s, m, n) \in Seq(S)
      /\ Len(SubSeq(s, m, n)) = IF m <= n THEN n - m + 1 ELSE 0
  BY <1>1, <1>2, SubSeqProperties
<1>4. Len(SubSeq(s, m, n)) <= Len(s)
  BY <1>1, <1>3
<1> QED BY <1>3, <1>4, SeqIsSeq

LEMMA Appended ==
    ASSUME NEW s, NEW e, IsSeq(s)
    PROVE  /\ IsSeq(Append(s, e)) /\ Append(s, e) # << >>
           /\ Len(Append(s, e)) = Len(s) + 1
           /\ \A i \in 1 .. Len(s) : Append(s, e)[i] = s[i]
           /\ Append(s, e)[Len(s) + 1] = e
<1> DEFINE S == {s[i] : i \in 1 .. Len(s)}
           T == S \cup {e}
<1>1. s \in Seq(S)
  BY OwnSeq
<1>2. S \subseteq T /\ e \in T
  OBVIOUS
<1> HIDE DEF S, T
<1>3. s \in Seq(T)
  BY <1>1, <1>2
<1>4. /\ Append(s, e) \in Seq(T) /\ Append(s, e) # << >>
      /\ Len(Append(s, e)) = Len(s) + 1
      /\ \A i \in 1 .. Len(s) : Append(s, e)[i] = s[i]
      /\ Append(s, e)[Len(s) + 1] = e
  BY <1>2, <1>3, AppendProperties
<1> QED BY <1>4, SeqIsSeq

\* s with e in place k.
Put(s, k, e) == [s EXCEPT ![k] = e]

LEMMA PutSeq ==
    ASSUME NEW s, NEW k \in 1 .. Len(s), NEW e, IsSeq(s)
    PROVE  /\ IsSeq(Put(s, k, e)) /\ Len(Put(s, k, e)) = Len(s) /\ Put(s, k, e)[k] = e
           /\ \A i \in 1 .. Len(s) : i # k => Put(s, k, e)[i] = s[i]
<1> DEFINE S == {s[i] : i \in 1 .. Len(s)}
           T == S \cup {e}
<1>1. s \in Seq(S)
  BY OwnSeq
<1>2. S \subseteq T /\ e \in T
  OBVIOUS
<1> HIDE DEF S, T
<1>3. s \in Seq(T)
  BY <1>1, <1>2
<1>4. /\ Put(s, k, e) \in Seq(T) /\ Len(Put(s, k, e)) = Len(s)
      /\ \A i \in 1 .. Len(s) : Put(s, k, e)[i] = IF i = k THEN e ELSE s[i]
  BY <1>2, <1>3, ExceptSeq DEF Put
<1>5. IsSeq(Put(s, k, e))
  BY <1>4, SeqIsSeq
<1> QED BY <1>4, <1>5

LEMMA FunctionSeq ==
    ASSUME NEW n \in Nat, NEW f, f = [i \in 1 .. n |-> f[i]]
    PROVE  IsSeq(f) /\ Len(f) = n
<1> DEFINE S == {f[i] : i \in 1 .. n}
<1>1. f \in [1 .. n -> S]
  OBVIOUS
<1> HIDE DEF S
<1>2. f \in Seq(S)
  BY <1>1, SeqDef
<1>3. Len(f) = n
  BY <1>1, <1>2, LenProperties
<1> QED BY <1>2, <1>3, SeqIsSeq

LEMMA LeastNat ==
    ASSUME NEW S \in SUBSET Nat, S # {}
    PROVE  \E m \in S : \A k \in S : m <= k
<1> DEFINE R == {ss \in Nat \X Nat : ss[1] < ss[2]}
<1>1. IsWellFoundedOn(R, Nat)
  BY NatLessThanWellFounded DEF OpToRel
<1>2. \E x \in S : \A y \in S : ~ (<<y, x>> \in R)
  <2> HIDE DEF R
  <2> QED BY <1>1, WFMin
<1>3. \A x, y \in S : <<y, x>> \in R <=> y < x
  OBVIOUS
<1> HIDE DEF R
<1>4. PICK x \in S : \A y \in S : ~(y < x)
  BY <1>2, <1>3
<1> QED BY <1>4

LEMMA LargestIsLargest ==
    ASSUME NEW n \in Nat, NEW S \in SUBSET (1 .. n), S # {}
    PROVE  Largest(S) \in S /\ \A c \in S : c <= Largest(S)
<1> DEFINE D == {d \in 0 .. n : n - d \in S}
<1>1. \A k \in S : n - k \in 0 .. n /\ n - (n - k) = k /\ k \in 1 .. n
  OBVIOUS
<1>2. \A k \in S : n - k \in D
  BY <1>1
<1>3. D \in SUBSET Nat /\ D # {}
  <2>1. PICK k \in S : TRUE
    OBVIOUS
  <2>2. n - k \in D
    BY <1>2, <2>1
  <2>3. \A d \in D : d \in Nat
    OBVIOUS
  <2> HIDE DEF D
  <2> QED BY <2>2, <2>3
<1>4. \A d \in D : d \in Nat /\ n - d \in S
  OBVIOUS
<1> HIDE DEF D
<1>5. PICK d \in D : \A k \in D : d <= k
  BY <1>3, LeastNat
<1>6. n - d \in S /\ \A k \in S : k <= n - d
  BY <1>1, <1>2, <1>4, <1>5
<1>7. \E b \in S : \A c \in S : c <= b
  BY <1>6
<1> QED BY <1>7 DEF Largest

LEMMA ChildrenBound ==
    ASSUME NEW bs, NEW p, IsSeq(bs), last_child(bs, p) # NULL
    PROVE  /\ last_child(bs, p) \in Children(bs, p)
           /\ \A c \in Children(bs, p) : c <= last_child(bs, p)
<1>1. Children(bs, p) # {} /\ last_child(bs, p) = Largest(Children(bs, p))
  BY DEF last_child
<1>2. Children(bs, p) \in SUBSET (1 .. Len(bs)) /\ Len(bs) \in Nat
  BY DEF Children, IsSeq
<1> QED BY <1>1, <1>2, LargestIsLargest
-----------------------------------------------------------------------------
(* What steps do to the blocks *)

\* The blocks are where they were, and open if they were; a paragraph may be a heading.
Restyled(bs, cs) ==
    /\ IsSeq(cs) /\ Len(cs) = Len(bs)
    /\ \A b \in 1 .. Len(bs) :
          /\ DOMAIN cs[b] = Fields /\ IsSeq(cs[b].content)
          /\ cs[b].parent = bs[b].parent /\ cs[b].kind = bs[b].kind
          /\ cs[b].open <=> bs[b].open
          /\ cs[b].fenced <=> bs[b].fenced
          /\ \/ cs[b].type = bs[b].type
             \/ bs[b].type = "paragraph" /\ cs[b].type = "heading"

\* The same but that k is closed, and freed if it was nothing but definitions.
Finalized(bs, cs, k) ==
    /\ IsSeq(cs) /\ Len(cs) = Len(bs)
    /\ \A b \in 1 .. Len(bs) :
          /\ DOMAIN cs[b] = Fields /\ IsSeq(cs[b].content)
          /\ Len(cs[b].content) <= Len(bs[b].content)
          /\ cs[b].parent = bs[b].parent /\ cs[b].kind = bs[b].kind
          /\ cs[b].fenced <=> bs[b].fenced
          /\ b # k => /\ cs[b].open <=> bs[b].open
                      /\ cs[b].type = bs[b].type /\ cs[b].content = bs[b].content
    /\ ~cs[k].open
    /\ \/ cs[k].type = bs[k].type
       \/ bs[k].type = "paragraph" /\ cs[k].type = "freed"

\* The definitions at the start of a paragraph are some of its lines.
LEMMA DefinitionsBound ==
    ASSUME NEW s, IsSeq(s)
    PROVE  Definitions(s) \in 0 .. Len(s)
<1>1. CASE \A i \in DOMAIN s : IsDefinition(s[i])
  BY <1>1 DEF Definitions, IsSeq
<1>2. CASE ~\A i \in DOMAIN s : IsDefinition(s[i])
  <2> DEFINE I == {i \in 1 .. Len(s) : ~IsDefinition(s[i])}
  <2>1. DOMAIN s = 1 .. Len(s) /\ Len(s) \in Nat
    BY DEF IsSeq
  <2>2. I # {} /\ I \in SUBSET Nat
    BY <1>2, <2>1
  <2>3. Definitions(s) = Min(I) - 1
    BY <1>2, <2>2 DEF Definitions, SelectInSeq
  <2>4. \A i \in I : i \in 1 .. Len(s)
    OBVIOUS
  <2> HIDE DEF I
  <2>5. \E m \in I : \A k \in I : m <= k
    BY <2>2, LeastNat
  <2>6. Min(I) \in I
    BY <2>5 DEF Min
  <2> QED BY <2>1, <2>3, <2>4, <2>6
<1> QED BY <1>1, <1>2

LEMMA ResolvedShorter ==
    ASSUME NEW s, IsSeq(s)
    PROVE  LET left == SubSeq(s, Definitions(s) + 1, Len(s))
           IN  IsSeq(left) /\ Len(left) <= Len(s)
<1>1. Len(s) \in Nat /\ Definitions(s) \in 0 .. Len(s)
  BY DefinitionsBound DEF IsSeq
<1>2. Definitions(s) + 1 \in Nat \ {0} /\ Len(s) <= Len(s)
  BY <1>1
<1> QED BY <1>1, <1>2, SubSeqShorter

LEMMA TrimmedShorter ==
    ASSUME NEW s, IsSeq(s)
    PROVE  IsSeq(Trimmed(s)) /\ Len(Trimmed(s)) <= Len(s)
<1> DEFINE kept == {i \in 1 .. Len(s) : lines[s[i].line].body # "blank"}
<1>1. Len(s) \in Nat /\ kept \in SUBSET (1 .. Len(s))
  BY DEF IsSeq
<1>2. CASE kept = {}
  <2>1. Trimmed(s) = << >>
    BY <1>2 DEF Trimmed
  <2> QED BY <1>1, <2>1 DEF IsSeq
<1>3. CASE kept # {}
  <2>1. Trimmed(s) = SubSeq(s, 1, Largest(kept))
    BY <1>3 DEF Trimmed
  <2> HIDE DEF kept
  <2>2. Largest(kept) \in 1 .. Len(s)
    BY <1>1, <1>3, LargestIsLargest
  <2>3. 1 \in Nat \ {0} /\ Largest(kept) \in Nat /\ Largest(kept) <= Len(s)
    BY <1>1, <2>2
  <2> QED BY <2>1, <2>3, SubSeqShorter
<1> QED BY <1>2, <1>3

\* Another k, with less content or freed.
LEMMA FinalizedFurther ==
    ASSUME NEW bs, NEW cs, NEW k \in 1 .. Len(bs), Finalized(bs, cs, k), NEW e,
           DOMAIN e = Fields, e.parent = bs[k].parent, e.kind = bs[k].kind,
           e.fenced <=> bs[k].fenced, ~e.open,
           e.type = bs[k].type \/ (bs[k].type = "paragraph" /\ e.type = "freed"),
           IsSeq(e.content), Len(e.content) <= Len(bs[k].content)
    PROVE  Finalized(bs, Put(cs, k, e), k)
<1>1. k \in 1 .. Len(cs) /\ IsSeq(cs) /\ Len(cs) = Len(bs)
  BY DEF Finalized
<1>2. /\ IsSeq(Put(cs, k, e)) /\ Len(Put(cs, k, e)) = Len(cs) /\ Put(cs, k, e)[k] = e
      /\ \A i \in 1 .. Len(cs) : i # k => Put(cs, k, e)[i] = cs[i]
  BY <1>1, PutSeq
<1> DEFINE ds == Put(cs, k, e)
<1> HIDE DEF ds
<1>3. ASSUME NEW b \in 1 .. Len(bs), b # k
      PROVE  /\ DOMAIN ds[b] = Fields /\ IsSeq(ds[b].content)
             /\ Len(ds[b].content) <= Len(bs[b].content)
             /\ ds[b].parent = bs[b].parent /\ ds[b].kind = bs[b].kind
             /\ ds[b].fenced <=> bs[b].fenced
             /\ ds[b].open <=> bs[b].open
             /\ ds[b].type = bs[b].type /\ ds[b].content = bs[b].content
  <2>1. ds[b] = cs[b]
    BY <1>1, <1>2, <1>3 DEF ds
  <2> QED BY <1>3, <2>1 DEF Finalized
<1>4. ds[k] = e /\ IsSeq(ds) /\ Len(ds) = Len(bs)
  BY <1>1, <1>2 DEF ds
<1>5. Finalized(bs, ds, k)
  BY <1>3, <1>4 DEF Finalized
<1> QED BY <1>5 DEF ds

\* finalize closes the block it is called for, and changes nothing else the chains are of.
LEMMA ClosedFinalizes ==
    ASSUME WellBuilt(blocks), NEW k \in 1 .. Len(blocks)
    PROVE  Finalized(blocks, Closed(k), k)
<1> DEFINE bs == [blocks EXCEPT ![k].open = FALSE]
<1>1. /\ IsSeq(blocks) /\ Len(blocks) \in Nat
      /\ \A b \in 1 .. Len(blocks) :
            DOMAIN blocks[b] = Fields /\ IsSeq(blocks[b].content) /\ Len(blocks[b].content) \in Nat
  BY DEF WellBuilt, IsBlock, IsSeq
<1>2. "open" \in Fields /\ "content" \in Fields /\ "type" \in Fields /\ "tight" \in Fields
      /\ "last_line_checked" \in Fields /\ "parent" \in Fields /\ "kind" \in Fields
      /\ "fenced" \in Fields
  BY DEF Fields, Block
<1>3. /\ IsSeq(bs) /\ Len(bs) = Len(blocks)
      /\ \A b \in 1 .. Len(blocks) : b # k => bs[b] = blocks[b]
      /\ bs[k] = [blocks[k] EXCEPT !.open = FALSE]
  <2> DEFINE e == [blocks[k] EXCEPT !.open = FALSE]
  <2>1. bs = Put(blocks, k, e)
    BY DEF Put
  <2> HIDE DEF bs, e
  <2>2. /\ IsSeq(bs) /\ Len(bs) = Len(blocks) /\ bs[k] = e
        /\ \A b \in 1 .. Len(blocks) : b # k => bs[b] = blocks[b]
    BY <1>1, <2>1, PutSeq
  <2> QED BY <2>2 DEF e
<1>4. /\ DOMAIN bs[k] = Fields /\ bs[k].content = blocks[k].content
      /\ bs[k].parent = blocks[k].parent /\ bs[k].kind = blocks[k].kind
      /\ bs[k].fenced = blocks[k].fenced /\ bs[k].type = blocks[k].type
      /\ bs[k].open = FALSE
  BY <1>1, <1>2, <1>3
<1> HIDE DEF bs
<1>5. Finalized(blocks, bs, k)
  <2>1. ASSUME NEW b \in 1 .. Len(blocks)
        PROVE  /\ DOMAIN bs[b] = Fields /\ IsSeq(bs[b].content)
               /\ Len(bs[b].content) <= Len(blocks[b].content)
               /\ bs[b].parent = blocks[b].parent /\ bs[b].kind = blocks[b].kind
               /\ bs[b].fenced <=> blocks[b].fenced
               /\ b # k => /\ bs[b].open <=> blocks[b].open
                           /\ bs[b].type = blocks[b].type /\ bs[b].content = blocks[b].content
    <3>1. CASE b = k
      BY <1>1, <1>4, <3>1
    <3>2. CASE b # k
      <4>1. bs[b] = blocks[b]
        BY <1>3, <3>2
      <4> QED BY <1>1, <3>2, <4>1
    <3> QED BY <3>1, <3>2
  <2>2. ~bs[k].open /\ bs[k].type = blocks[k].type
    BY <1>4
  <2>3. IsSeq(bs) /\ Len(bs) = Len(blocks)
    BY <1>3
  <2> QED BY ONLY <2>1, <2>2, <2>3 DEF Finalized
<1>6. CASE blocks[k].type = "paragraph"
  <2> DEFINE s == blocks[k].content
             left == SubSeq(s, Definitions(s) + 1, Len(s))
             e == [bs[k] EXCEPT !.content = left]
             freed == [e EXCEPT !.type = "freed"]
  <2>1. IsSeq(left) /\ Len(left) <= Len(s)
    BY <1>1, ResolvedShorter
  <2>2. Resolved(bs, k) = Put(bs, k, e)
    BY <1>4 DEF Resolved, Put
  <2> HIDE DEF left
  <2>3. /\ DOMAIN e = Fields /\ e.content = left /\ e.parent = blocks[k].parent
        /\ e.kind = blocks[k].kind /\ e.fenced = blocks[k].fenced
        /\ e.type = "paragraph" /\ e.open = FALSE
    BY <1>2, <1>4, <1>6
  <2>4. /\ DOMAIN freed = Fields /\ freed.content = left /\ freed.parent = blocks[k].parent
        /\ freed.kind = blocks[k].kind /\ freed.fenced = blocks[k].fenced
        /\ freed.type = "freed" /\ freed.open = FALSE
    BY <1>2, <2>3
  <2> HIDE DEF e
  <2>5. Finalized(blocks, Put(bs, k, e), k)
    BY <1>5, <1>6, <2>1, <2>3, FinalizedFurther
  <2>6. Closed(k) = IF Put(bs, k, e)[k].content = << >>
                    THEN [Put(bs, k, e) EXCEPT ![k].type = "freed"] ELSE Put(bs, k, e)
    BY <1>6, <2>2 DEF Closed, type, bs
  <2>7. Put(bs, k, e)[k] = e
    BY <1>1, <1>3, PutSeq
  <2>8. [Put(bs, k, e) EXCEPT ![k].type = "freed"] = Put(Put(bs, k, e), k, freed)
    BY <2>7 DEF Put
  <2> HIDE DEF freed
  <2>9. Finalized(blocks, Put(Put(bs, k, e), k, freed), k)
    BY <1>6, <2>1, <2>4, <2>5, FinalizedFurther
  <2> QED BY <2>5, <2>6, <2>8, <2>9
<1>7. CASE blocks[k].type = "code_block"
  <2> DEFINE s == blocks[k].content
             left == IF bs[k].fenced THEN SubSeq(s, 2, Len(s)) ELSE Trimmed(s)
             e == [bs[k] EXCEPT !.content = left]
  <2>1. IsSeq(left) /\ Len(left) <= Len(s)
    <3>1. CASE bs[k].fenced
      <4>1. IsSeq(s) /\ Len(s) \in Nat /\ 2 \in Nat \ {0} /\ Len(s) <= Len(s)
        BY <1>1
      <4> QED BY <3>1, <4>1, SubSeqShorter
    <3>2. CASE ~bs[k].fenced
      BY <1>1, <3>2, TrimmedShorter
    <3> QED BY <3>1, <3>2
  <2>2. Closed(k) = Put(bs, k, e)
    BY <1>4, <1>7 DEF Closed, Put, type, bs
  <2> HIDE DEF left
  <2>3. /\ DOMAIN e = Fields /\ e.content = left /\ e.parent = blocks[k].parent
        /\ e.kind = blocks[k].kind /\ e.fenced = blocks[k].fenced
        /\ e.type = blocks[k].type /\ e.open = FALSE
    BY <1>2, <1>4
  <2> HIDE DEF e
  <2>4. Finalized(blocks, Put(bs, k, e), k)
    BY <1>5, <2>1, <2>3, FinalizedFurther
  <2> QED BY <2>2, <2>4
<1>8. CASE blocks[k].type = "list"
  <2>1. Closed(k) = TightSet(bs, k)
    BY <1>8 DEF Closed, type, bs
  <2> DEFINE cs == TightSet(bs, k)
             loose == {n \in Examined(bs, k) : Loosens(bs, k, n)}
             seen == {n \in Examined(bs, k) \ Children(bs, k) : \A m \in loose : n <= m}
             Seen(b) == \E n \in seen : b \in Ancestors(bs, LastBelow(bs, n)) /\ b >= n
             tight == loose = {}
  <2>2. cs = [b \in 1 .. Len(bs) |-> CASE b = k -> [bs[b] EXCEPT !.tight = tight]
                                       [] Seen(b) -> [bs[b] EXCEPT !.last_line_checked = TRUE]
                                       [] OTHER -> bs[b]]
    BY DEF TightSet
  <2> HIDE DEF cs, loose, seen, Seen, tight
  <2>3. ASSUME NEW b \in 1 .. Len(bs)
        PROVE  \/ cs[b] = bs[b]
               \/ cs[b] = [bs[b] EXCEPT !.tight = tight]
               \/ cs[b] = [bs[b] EXCEPT !.last_line_checked = TRUE]
    BY <2>2
  <2>4. ASSUME NEW b \in 1 .. Len(bs)
        PROVE  /\ DOMAIN cs[b] = DOMAIN bs[b] /\ cs[b].content = bs[b].content
               /\ cs[b].parent = bs[b].parent /\ cs[b].kind = bs[b].kind
               /\ cs[b].fenced = bs[b].fenced /\ cs[b].open = bs[b].open
               /\ cs[b].type = bs[b].type
    <3>1. DOMAIN bs[b] = Fields
      BY <1>3, <1>5 DEF Finalized
    <3> QED BY <1>2, <2>3, <3>1
  <2>5. IsSeq(cs) /\ Len(cs) = Len(bs)
    <3>1. Len(bs) \in Nat /\ cs = [b \in 1 .. Len(bs) |-> cs[b]]
      BY <1>1, <1>3, <2>2
    <3> QED BY <3>1, FunctionSeq
  <2>6. Finalized(blocks, cs, k)
    <3>1. ASSUME NEW b \in 1 .. Len(blocks)
          PROVE  /\ DOMAIN cs[b] = Fields /\ IsSeq(cs[b].content)
                 /\ Len(cs[b].content) <= Len(blocks[b].content)
                 /\ cs[b].parent = blocks[b].parent /\ cs[b].kind = blocks[b].kind
                 /\ cs[b].fenced <=> blocks[b].fenced
                 /\ b # k => /\ cs[b].open <=> blocks[b].open
                             /\ cs[b].type = blocks[b].type
                             /\ cs[b].content = blocks[b].content
      BY <1>3, <1>5, <2>4 DEF Finalized
    <3>2. ~cs[k].open /\ cs[k].type = blocks[k].type
      BY <1>3, <1>4, <2>4
    <3> QED BY <1>3, <2>5, <3>1, <3>2 DEF Finalized
  <2> QED BY <2>1, <2>6 DEF cs
<1>9. CASE blocks[k].type \notin {"paragraph", "code_block", "list"}
  BY <1>5, <1>9 DEF Closed, type, bs
<1> QED BY <1>6, <1>7, <1>8, <1>9
LEMMA WellBuiltFields ==
    ASSUME NEW bs, WellBuilt(bs)
    PROVE  /\ IsSeq(bs) /\ Len(bs) \in Nat
           /\ \A b \in 1 .. Len(bs) :
                 DOMAIN bs[b] = Fields /\ IsSeq(bs[b].content) /\ Len(bs[b].content) \in Nat
BY DEF WellBuilt, IsBlock, IsSeq

\* The marks of a line leave the blocks as they were.
LEMMA MarkedRestyles ==
    ASSUME WellBuilt(blocks)
    PROVE  /\ Restyled(blocks, Marked)
           /\ \A b \in 1 .. Len(blocks) : Marked[b].content = blocks[b].content
<1> DEFINE Above(b) == b # container /\ b \in Ancestors(blocks, container)
           Below(b) == blank /\ b = last_child(blocks, container)
           mark == last_line_blank
           cs == Marked
<1>1. cs = [b \in 1 .. Len(blocks) |->
               CASE b = container -> [blocks[b] EXCEPT !.last_line_blank = mark]
                 [] Above(b) -> [blocks[b] EXCEPT !.last_line_blank = FALSE]
                 [] Below(b) -> [blocks[b] EXCEPT !.last_line_blank = TRUE]
                 [] OTHER -> blocks[b]]
  BY DEF Marked
<1> HIDE DEF Above, Below, mark, cs
<1>2. ASSUME NEW b \in 1 .. Len(blocks)
      PROVE  \/ cs[b] = blocks[b]
             \/ cs[b] = [blocks[b] EXCEPT !.last_line_blank = mark]
             \/ cs[b] = [blocks[b] EXCEPT !.last_line_blank = FALSE]
             \/ cs[b] = [blocks[b] EXCEPT !.last_line_blank = TRUE]
  BY <1>1
<1>3. /\ "open" \in Fields /\ "content" \in Fields /\ "type" \in Fields
      /\ "last_line_blank" \in Fields /\ "parent" \in Fields /\ "kind" \in Fields
      /\ "fenced" \in Fields
  BY DEF Fields, Block
<1>4. ASSUME NEW b \in 1 .. Len(blocks)
      PROVE  /\ DOMAIN cs[b] = Fields /\ cs[b].content = blocks[b].content
             /\ cs[b].parent = blocks[b].parent /\ cs[b].kind = blocks[b].kind
             /\ cs[b].fenced = blocks[b].fenced /\ cs[b].open = blocks[b].open
             /\ cs[b].type = blocks[b].type
  <2>1. DOMAIN blocks[b] = Fields
    BY WellBuiltFields
  <2> QED BY <1>2, <1>3, <2>1
<1>5. IsSeq(cs) /\ Len(cs) = Len(blocks)
  <2>1. Len(blocks) \in Nat /\ cs = [b \in 1 .. Len(blocks) |-> cs[b]]
    BY <1>1, WellBuiltFields
  <2> QED BY <2>1, FunctionSeq
<1>6. ASSUME NEW b \in 1 .. Len(blocks)
      PROVE  /\ DOMAIN cs[b] = Fields /\ IsSeq(cs[b].content)
             /\ cs[b].parent = blocks[b].parent /\ cs[b].kind = blocks[b].kind
             /\ cs[b].open <=> blocks[b].open
             /\ cs[b].fenced <=> blocks[b].fenced
             /\ cs[b].type = blocks[b].type
  BY <1>4, WellBuiltFields
<1>7. Restyled(blocks, cs)
  BY <1>5, <1>6 DEF Restyled
<1> QED BY <1>4, <1>7 DEF cs

\* A block may have other content, and a paragraph become a heading.
LEMMA RestyledAt ==
    ASSUME NEW bs, WellBuilt(bs), NEW k \in 1 .. Len(bs), NEW e,
           DOMAIN e = Fields, e.parent = bs[k].parent, e.kind = bs[k].kind,
           e.fenced <=> bs[k].fenced, e.open <=> bs[k].open,
           e.type = bs[k].type \/ (bs[k].type = "paragraph" /\ e.type = "heading"),
           IsSeq(e.content)
    PROVE  /\ Restyled(bs, Put(bs, k, e)) /\ Put(bs, k, e)[k] = e
           /\ \A b \in 1 .. Len(bs) : b # k => Put(bs, k, e)[b] = bs[b]
<1> DEFINE cs == Put(bs, k, e)
<1>1. /\ IsSeq(cs) /\ Len(cs) = Len(bs) /\ cs[k] = e
      /\ \A b \in 1 .. Len(bs) : b # k => cs[b] = bs[b]
  BY WellBuiltFields, PutSeq
<1> HIDE DEF cs
<1>2. ASSUME NEW b \in 1 .. Len(bs)
      PROVE  /\ DOMAIN cs[b] = Fields /\ IsSeq(cs[b].content)
             /\ cs[b].parent = bs[b].parent /\ cs[b].kind = bs[b].kind
             /\ cs[b].open <=> bs[b].open
             /\ cs[b].fenced <=> bs[b].fenced
             /\ \/ cs[b].type = bs[b].type
                \/ bs[b].type = "paragraph" /\ cs[b].type = "heading"
  <2>1. CASE b = k
    BY <1>1, <2>1
  <2>2. CASE b # k
    <3>1. cs[b] = bs[b]
      BY <1>1, <2>2
    <3> QED BY <3>1, WellBuiltFields
  <2> QED BY <2>1, <2>2
<1>3. Restyled(bs, cs)
  BY <1>1, <1>2 DEF Restyled
<1> QED BY <1>1, <1>3 DEF cs

LEMMA LineRestyles ==
    ASSUME NEW bs, WellBuilt(bs), NEW k \in 1 .. Len(bs), NEW lead
    PROVE  /\ Restyled(bs, WithLine(bs, k, lead))
           /\ WithLine(bs, k, lead)[k].content # << >>
           /\ \A b \in 1 .. Len(bs) : b # k => WithLine(bs, k, lead)[b] = bs[b]
<1> DEFINE c == Append(bs[k].content, Entry(lead))
           e == [bs[k] EXCEPT !.content = c]
<1>1. WithLine(bs, k, lead) = Put(bs, k, e)
  BY DEF WithLine, Put
<1>2. DOMAIN bs[k] = Fields /\ IsSeq(bs[k].content)
  BY WellBuiltFields
<1>3. IsSeq(c) /\ c # << >>
  BY <1>2, Appended
<1> HIDE DEF c
<1>4. /\ DOMAIN e = Fields /\ e.content = c /\ e.parent = bs[k].parent
      /\ e.kind = bs[k].kind /\ e.fenced = bs[k].fenced
      /\ e.type = bs[k].type /\ e.open = bs[k].open
  BY <1>2 DEF Fields, Block
<1> HIDE DEF e
<1>5. /\ Restyled(bs, Put(bs, k, e)) /\ Put(bs, k, e)[k] = e
      /\ \A b \in 1 .. Len(bs) : b # k => Put(bs, k, e)[b] = bs[b]
  BY <1>3, <1>4, RestyledAt
<1> QED BY <1>1, <1>3, <1>4, <1>5

\* What a setext heading line makes of a paragraph.
Setext(k) ==
    LET bs == Resolved(blocks, k)
    IN  IF bs[k].content # << >> THEN [bs EXCEPT ![k].type = "heading"] ELSE bs

LEMMA SetextRestyles ==
    ASSUME WellBuilt(blocks), NEW k \in 1 .. Len(blocks), blocks[k].type = "paragraph"
    PROVE  /\ Restyled(blocks, Setext(k))
           /\ Len(Setext(k)[k].content) <= Len(blocks[k].content)
           /\ \A b \in 1 .. Len(blocks) : b # k => Setext(k)[b] = blocks[b]
           /\ Setext(k)[k].content = SubSeq(blocks[k].content, Definitions(blocks[k].content) + 1,
                                            Len(blocks[k].content))
<1> DEFINE s == blocks[k].content
           left == SubSeq(s, Definitions(s) + 1, Len(s))
           d == [blocks[k] EXCEPT !.content = left]
           e == [d EXCEPT !.type = "heading"]
<1>1. DOMAIN blocks[k] = Fields /\ IsSeq(blocks[k].content) /\ IsSeq(blocks)
  BY WellBuiltFields
<1>2. IsSeq(left) /\ Len(left) <= Len(s)
  BY <1>1, ResolvedShorter
<1>3. Resolved(blocks, k) = Put(blocks, k, d)
  BY DEF Resolved, Put
<1> HIDE DEF left
<1>4. /\ DOMAIN d = Fields /\ d.content = left /\ d.parent = blocks[k].parent
      /\ d.kind = blocks[k].kind /\ d.fenced = blocks[k].fenced
      /\ d.type = blocks[k].type /\ d.open = blocks[k].open
  BY <1>1 DEF Fields, Block
<1>5. /\ DOMAIN e = Fields /\ e.content = left /\ e.parent = blocks[k].parent
      /\ e.kind = blocks[k].kind /\ e.fenced = blocks[k].fenced
      /\ e.type = "heading" /\ e.open = blocks[k].open
  BY <1>4 DEF Fields, Block
<1> HIDE DEF d
<1>6. Put(blocks, k, d)[k] = d
  BY <1>1, PutSeq
<1>7. [Put(blocks, k, d) EXCEPT ![k].type = "heading"] = Put(blocks, k, e)
  BY <1>1, <1>6 DEF Put
<1> HIDE DEF e
<1>8. \/ Setext(k) = Put(blocks, k, d)
      \/ Setext(k) = Put(blocks, k, e)
  BY <1>3, <1>7 DEF Setext
<1>9. /\ Restyled(blocks, Put(blocks, k, d)) /\ Put(blocks, k, d)[k] = d
      /\ \A b \in 1 .. Len(blocks) : b # k => Put(blocks, k, d)[b] = blocks[b]
  BY <1>2, <1>4, RestyledAt
<1>10. /\ Restyled(blocks, Put(blocks, k, e)) /\ Put(blocks, k, e)[k] = e
       /\ \A b \in 1 .. Len(blocks) : b # k => Put(blocks, k, e)[b] = blocks[b]
  BY <1>2, <1>5, RestyledAt
<1>11. Setext(k)[k].content = left
  BY <1>4, <1>5, <1>8, <1>9, <1>10
<1>12. left = SubSeq(blocks[k].content, Definitions(blocks[k].content) + 1,
                     Len(blocks[k].content))
  BY DEF left
<1> QED BY ONLY <1>2, <1>4, <1>5, <1>8, <1>9, <1>10, <1>11, <1>12, Zenon
-----------------------------------------------------------------------------
(* What that means for the chains *)

LEMMA RestyledLastChild ==
    ASSUME NEW bs, NEW cs, Restyled(bs, cs), NEW b \in 1 .. Len(bs), LastChild(bs, b)
    PROVE  LastChild(cs, b)
<1>1. \A c \in 1 .. Len(cs) : cs[c].parent = cs[b].parent /\ cs[c].type # "freed" =>
          c \in 1 .. Len(bs) /\ bs[c].parent = bs[b].parent /\ bs[c].type # "freed"
  BY DEF Restyled
<1> QED BY <1>1 DEF LastChild

LEMMA FinalizedLastChild ==
    ASSUME NEW bs, NEW cs, NEW k, Finalized(bs, cs, k), NEW b \in 1 .. Len(bs), LastChild(bs, b)
    PROVE  LastChild(cs, b)
<1>1. \A c \in 1 .. Len(cs) : cs[c].parent = cs[b].parent /\ cs[c].type # "freed" =>
          c \in 1 .. Len(bs) /\ bs[c].parent = bs[b].parent /\ bs[c].type # "freed"
  BY DEF Finalized
<1> QED BY <1>1 DEF LastChild

LEMMA RestyledWellBuilt ==
    ASSUME NEW bs, NEW cs, WellBuilt(bs), Restyled(bs, cs)
    PROVE  WellBuilt(cs)
<1>1. IsSeq(cs) /\ root \in 1 .. Len(cs) /\ Len(cs) = Len(bs)
  BY DEF WellBuilt, Restyled
<1>2. \A b \in 1 .. Len(cs) : IsBlock(cs[b])
  BY DEF WellBuilt, Restyled, IsBlock
<1>3. ASSUME NEW b \in 1 .. Len(cs), b # root
      PROVE  cs[b].parent \in 1 .. b - 1 /\ cs[cs[b].parent].type \in Holders
  <2>1. bs[b].parent \in 1 .. b - 1 /\ bs[bs[b].parent].type \in Holders
    BY <1>1, <1>3 DEF WellBuilt
  <2>2. cs[b].parent = bs[b].parent /\ bs[b].parent \in 1 .. Len(bs)
    BY <1>1, <2>1, WellBuiltFields DEF Restyled
  <2> QED BY <2>1, <2>2 DEF Restyled, Holders
<1>4. cs[root].parent = NULL /\ cs[root].type = "document" /\ cs[root].kind = "none"
  BY <1>1 DEF WellBuilt, Restyled
<1> QED BY <1>1, <1>2, <1>3, <1>4 DEF WellBuilt

LEMMA FinalizedWellBuilt ==
    ASSUME NEW bs, NEW cs, NEW k \in 1 .. Len(bs), WellBuilt(bs), Finalized(bs, cs, k)
    PROVE  WellBuilt(cs)
<1>1. IsSeq(cs) /\ root \in 1 .. Len(cs) /\ Len(cs) = Len(bs)
  BY DEF WellBuilt, Finalized
<1>2. ASSUME NEW b \in 1 .. Len(cs)
      PROVE  IsBlock(cs[b])
  <2>1. IsBlock(bs[b])
    BY <1>1 DEF WellBuilt
  <2>2. CASE b # k
    BY <1>1, <2>1, <2>2 DEF Finalized, IsBlock
  <2>3. CASE b = k
    BY <1>1, <2>1, <2>3 DEF Finalized, IsBlock
  <2> QED BY <2>2, <2>3
<1>3. ASSUME NEW b \in 1 .. Len(cs), b # root
      PROVE  cs[b].parent \in 1 .. b - 1 /\ cs[cs[b].parent].type \in Holders
  <2>1. bs[b].parent \in 1 .. b - 1 /\ bs[bs[b].parent].type \in Holders
    BY <1>1, <1>3 DEF WellBuilt
  <2>2. cs[b].parent = bs[b].parent /\ bs[b].parent \in 1 .. Len(bs)
    BY <1>1, <2>1, WellBuiltFields DEF Finalized
  <2>3. cs[bs[b].parent].type = bs[bs[b].parent].type
    BY <2>1, <2>2 DEF Finalized, Holders
  <2> QED BY <2>1, <2>2, <2>3
<1>4. cs[root].parent = NULL /\ cs[root].type = "document" /\ cs[root].kind = "none"
  BY <1>1 DEF WellBuilt, Finalized
<1> QED BY <1>1, <1>2, <1>3, <1>4 DEF WellBuilt

LEMMA RestyledChain ==
    ASSUME NEW bs, NEW cs, WellBuilt(bs), Restyled(bs, cs),
           NEW A \in SUBSET (1 .. Len(bs)), NEW tip, Chain(bs, A, tip)
    PROVE  Chain(cs, A, tip)
<1>1. \A b \in A : b \in 1 .. Len(bs) /\ cs[b].parent = bs[b].parent /\ (cs[b].open <=> bs[b].open)
  BY DEF Restyled
<1>2. tip \in A /\ cs[tip].open
  BY <1>1 DEF Chain
<1>3. ASSUME NEW b \in A, cs[b].open
      PROVE  /\ b <= tip
             /\ b # root => cs[b].parent \in A /\ cs[cs[b].parent].open /\ LastChild(cs, b)
  BY <1>1, <1>3, RestyledLastChild DEF Chain
<1>4. \A b, c \in A : cs[b].open /\ cs[c].open /\ c < b => c <= cs[b].parent
  BY <1>1 DEF Chain
<1> QED BY <1>2, <1>3, <1>4 DEF Chain

LEMMA RestyledHanging ==
    ASSUME NEW bs, NEW cs, WellBuilt(bs), Restyled(bs, cs), NEW low, NEW high,
           Hanging(bs, low, high)
    PROVE  Hanging(cs, low, high) /\ (Joined(bs, low, high) => Joined(cs, low, high))
<1>1. high \in 1 .. Len(bs) /\ low \in 1 .. high /\ Len(bs) \in Nat /\ Len(cs) = Len(bs)
  BY WellBuiltFields DEF Hanging, Restyled
<1>2. \A b \in low + 1 .. high :
          b \in 1 .. Len(bs) /\ cs[b].parent = bs[b].parent /\ (cs[b].open <=> bs[b].open)
  BY <1>1 DEF Restyled
<1>3. high # low => cs[high].open
  BY <1>1 DEF Hanging, Restyled
<1>4. ASSUME NEW b \in low + 1 .. high, cs[b].open
      PROVE  \/ cs[b].parent = low
             \/ /\ cs[b].parent \in low + 1 .. high /\ cs[cs[b].parent].open
                /\ LastChild(cs, b)
  BY <1>2, <1>4, RestyledLastChild DEF Hanging
<1>5. \A b, c \in low + 1 .. high : cs[b].open /\ cs[c].open /\ c < b => c <= cs[b].parent
  BY <1>2 DEF Hanging
<1>6. Hanging(cs, low, high)
  BY <1>1, <1>3, <1>4, <1>5 DEF Hanging
<1>7. Joined(bs, low, high) => Joined(cs, low, high)
  BY <1>2, RestyledLastChild DEF Joined
<1> QED BY <1>6, <1>7

\* The tip of a chain is closed: its parent is the tip.
LEMMA TipClosed ==
    ASSUME NEW bs, NEW cs, WellBuilt(bs), NEW A \in SUBSET (1 .. Len(bs)), NEW k \in A,
           Chain(bs, A, k), k # root, Finalized(bs, cs, k)
    PROVE  Chain(cs, A, bs[k].parent) /\ bs[k].parent \in A /\ bs[k].parent < k
<1>1. \A b \in A : /\ b \in 1 .. Len(bs) /\ b \in Nat /\ cs[b].parent = bs[b].parent
                   /\ cs[b].open => b # k /\ bs[b].open
                   /\ bs[b].open /\ b # k => cs[b].open
  BY DEF Finalized
<1>2. bs[k].parent \in A /\ bs[bs[k].parent].open /\ bs[k].parent < k /\ bs[k].open
  BY <1>1 DEF Chain, WellBuilt
<1>3. cs[bs[k].parent].open
  BY <1>1, <1>2
<1>4. ASSUME NEW b \in A, cs[b].open
      PROVE  /\ b <= bs[k].parent
             /\ b # root => cs[b].parent \in A /\ cs[cs[b].parent].open /\ LastChild(cs, b)
  <2>1. b # k /\ bs[b].open /\ b <= k
    BY <1>1, <1>4 DEF Chain
  <2>2. b < k
    BY <1>1, <2>1
  <2>3. b <= bs[k].parent
    BY <1>2, <2>1, <2>2 DEF Chain
  <2>4. ASSUME b # root
        PROVE  cs[b].parent \in A /\ cs[cs[b].parent].open /\ LastChild(cs, b)
    <3>1. bs[b].parent \in A /\ bs[bs[b].parent].open /\ LastChild(bs, b) /\ bs[b].parent < b
      BY <1>1, <2>1, <2>4 DEF Chain, WellBuilt
    <3>2. bs[b].parent # k /\ LastChild(cs, b)
      BY <1>1, <2>2, <3>1, FinalizedLastChild
    <3> QED BY <1>1, <3>1, <3>2
  <2> QED BY <2>3, <2>4
<1>5. \A b, c \in A : cs[b].open /\ cs[c].open /\ c < b => c <= cs[b].parent
  BY <1>1 DEF Chain
<1> QED BY <1>2, <1>3, <1>4, <1>5 DEF Chain

\* A block beside a chain is closed.
LEMMA OtherClosed ==
    ASSUME NEW bs, NEW cs, WellBuilt(bs), NEW A \in SUBSET (1 .. Len(bs)), NEW tip,
           Chain(bs, A, tip), NEW k \in 1 .. Len(bs), k \notin A, Finalized(bs, cs, k)
    PROVE  Chain(cs, A, tip)
<1>1. \A b \in A : /\ b \in 1 .. Len(bs) /\ cs[b].parent = bs[b].parent
                   /\ cs[b].open <=> bs[b].open
  BY DEF Finalized
<1>2. tip \in A /\ cs[tip].open
  BY <1>1 DEF Chain
<1>3. ASSUME NEW b \in A, cs[b].open
      PROVE  /\ b <= tip
             /\ b # root => cs[b].parent \in A /\ cs[cs[b].parent].open /\ LastChild(cs, b)
  BY <1>1, <1>3, FinalizedLastChild DEF Chain
<1>4. \A b, c \in A : cs[b].open /\ cs[c].open /\ c < b => c <= cs[b].parent
  BY <1>1 DEF Chain
<1> QED BY <1>2, <1>3, <1>4 DEF Chain

LEMMA HangingKept ==
    ASSUME NEW bs, NEW cs, WellBuilt(bs), NEW low, NEW high, Hanging(bs, low, high),
           NEW k \in Kept(bs, low, high), Finalized(bs, cs, k)
    PROVE  Hanging(cs, low, high)
<1>1. high \in 1 .. Len(bs) /\ low \in 1 .. high /\ Len(bs) \in Nat /\ Len(cs) = Len(bs)
  BY WellBuiltFields DEF Hanging, Finalized
<1>2. \A b \in low + 1 .. high : b \in 1 .. Len(bs) /\ b # k
  BY <1>1 DEF Kept
<1>3. \A b \in low + 1 .. high : cs[b].parent = bs[b].parent /\ (cs[b].open <=> bs[b].open)
  BY <1>2 DEF Finalized
<1>4. high # low => cs[high].open
  BY <1>1, <1>3 DEF Hanging
<1>5. ASSUME NEW b \in low + 1 .. high, cs[b].open
      PROVE  \/ cs[b].parent = low
             \/ /\ cs[b].parent \in low + 1 .. high /\ cs[cs[b].parent].open
                /\ LastChild(cs, b)
  BY <1>2, <1>3, <1>5, FinalizedLastChild DEF Hanging
<1>6. \A b, c \in low + 1 .. high : cs[b].open /\ cs[c].open /\ c < b => c <= cs[b].parent
  BY <1>3 DEF Hanging
<1> QED BY <1>1, <1>4, <1>5, <1>6 DEF Hanging
\* The last unmatched block is closed: its parent is the last that is not.
LEMMA HangingClosed ==
    ASSUME NEW bs, NEW cs, WellBuilt(bs), NEW low, NEW high, Hanging(bs, low, high),
           high # low, Finalized(bs, cs, high), NEW tip, Chain(bs, Kept(bs, low, high), tip)
    PROVE  /\ bs[high].parent \in low .. high - 1
           /\ Hanging(cs, low, bs[high].parent)
           /\ Chain(cs, Kept(cs, low, bs[high].parent), tip)
<1> DEFINE p == bs[high].parent
           A == Kept(bs, low, high)
           B == Kept(cs, low, p)
<1>1. /\ high \in 1 .. Len(bs) /\ low \in 1 .. high /\ Len(bs) \in Nat /\ Len(cs) = Len(bs)
      /\ high \in low + 1 .. high /\ bs[high].open
  BY WellBuiltFields DEF Hanging, Finalized
<1>2. p \in low .. high - 1 /\ p \in 1 .. Len(bs) /\ (p # low => bs[p].open)
  BY <1>1 DEF Hanging, WellBuilt
<1>3. \A b \in 1 .. Len(bs) : /\ cs[b].parent = bs[b].parent
                              /\ cs[b].open => b # high /\ bs[b].open
                              /\ bs[b].open /\ b # high => cs[b].open
  BY <1>1 DEF Finalized
<1>4. \A b \in low + 1 .. high : cs[b].open => b \in low + 1 .. p
  <2> SUFFICES ASSUME NEW b \in low + 1 .. high, cs[b].open
               PROVE  b \in low + 1 .. p
    OBVIOUS
  <2>1. b < high /\ bs[b].open
    BY <1>1, <1>3
  <2>2. b <= p
    BY <1>1, <2>1 DEF Hanging
  <2> QED BY <1>1, <1>2, <2>2
<1>5. Hanging(cs, low, p)
  <2>1. p \in 1 .. Len(cs) /\ low \in 1 .. p /\ (p # low => cs[p].open)
    BY <1>1, <1>2, <1>3
  <2>2. \A b \in low + 1 .. p : b \in low + 1 .. high /\ b \in 1 .. Len(bs)
    BY <1>1, <1>2
  <2>3. ASSUME NEW b \in low + 1 .. p, cs[b].open
        PROVE  \/ cs[b].parent = low
               \/ /\ cs[b].parent \in low + 1 .. p /\ cs[cs[b].parent].open
                  /\ LastChild(cs, b)
    <3>1. b \in low + 1 .. high /\ bs[b].open /\ b < high /\ b \in 1 .. Len(bs)
      BY <1>1, <1>2, <1>3, <2>2, <2>3
    <3>2. CASE bs[b].parent = low
      BY <1>3, <3>1, <3>2
    <3>3. CASE bs[b].parent # low
      <4>1. bs[b].parent \in low + 1 .. high /\ bs[bs[b].parent].open /\ LastChild(bs, b)
        BY <3>1, <3>3 DEF Hanging
      <4>2. bs[b].parent < b
        BY <1>1, <3>1 DEF WellBuilt
      <4>3. cs[bs[b].parent].open /\ LastChild(cs, b) /\ bs[b].parent \in low + 1 .. p
        BY <1>1, <1>2, <1>3, <3>1, <4>1, <4>2, FinalizedLastChild
      <4> QED BY <1>3, <3>1, <4>3
    <3> QED BY <3>2, <3>3
  <2>4. ASSUME NEW b \in low + 1 .. p, NEW c \in low + 1 .. p, cs[b].open, cs[c].open, c < b
        PROVE  c <= cs[b].parent
    BY <1>3, <2>2, <2>4 DEF Hanging
  <2> QED BY <2>1, <2>3, <2>4 DEF Hanging
<1>6. ASSUME NEW b \in B, cs[b].open
      PROVE  b \in A /\ b \in 1 .. Len(bs) /\ bs[b].open
  <2>1. b \in 1 .. Len(bs) /\ (b <= low \/ b > p)
    BY <1>1, <1>6 DEF Kept
  <2>2. ~(b \in low + 1 .. high)
    BY <1>1, <1>2, <1>4, <1>6, <2>1
  <2> QED BY <1>1, <1>3, <1>6, <2>1, <2>2 DEF Kept
<1>7. \A b \in A : b \in B /\ b # high /\ b \in 1 .. Len(bs)
  BY <1>1, <1>2 DEF Kept
<1>8. Chain(cs, B, tip)
  <2> HIDE DEF A, B, p
  <2>1. tip \in A /\ bs[tip].open
    BY DEF Chain, A
  <2>2. tip \in B /\ cs[tip].open
    BY <1>3, <1>7, <2>1
  <2>3. ASSUME NEW b \in B, cs[b].open
        PROVE  /\ b <= tip
               /\ b # root => cs[b].parent \in B /\ cs[cs[b].parent].open /\ LastChild(cs, b)
    <3>1. b \in A /\ b \in 1 .. Len(bs) /\ bs[b].open
      BY <1>6, <2>3
    <3>2. /\ b <= tip
          /\ b # root => bs[b].parent \in A /\ bs[bs[b].parent].open /\ LastChild(bs, b)
      BY <3>1 DEF Chain, A
    <3>3. b # root => cs[b].parent \in B /\ cs[cs[b].parent].open /\ LastChild(cs, b)
      BY <1>3, <1>7, <3>1, <3>2, FinalizedLastChild
    <3> QED BY <3>2, <3>3
  <2>4. ASSUME NEW b \in B, NEW c \in B, cs[b].open, cs[c].open, c < b
        PROVE  c <= cs[b].parent
    <3>1. b \in A /\ bs[b].open /\ c \in A /\ bs[c].open /\ cs[b].parent = bs[b].parent
      BY <1>3, <1>6, <2>4
    <3> QED BY <2>4, <3>1 DEF Chain, A
  <2> QED BY <2>2, <2>3, <2>4 DEF Chain
<1> QED BY <1>2, <1>5, <1>8

\* A block that was opened, or matched, can hold no others: it is the tip.
LEMMA TipHoldsNothing ==
    ASSUME NEW bs, WellBuilt(bs), NEW A \in SUBSET (1 .. Len(bs)), NEW tip, Chain(bs, A, tip),
           NEW k \in A, bs[k].open, bs[k].type \notin Holders
    PROVE  k = tip
<1> DEFINE After == {b \in A : bs[b].open /\ b > k}
<1>1. Len(bs) \in Nat /\ k \in Nat /\ k >= 1 /\ k <= tip /\ tip \in A /\ tip \in Nat /\ bs[tip].open
  BY WellBuiltFields DEF Chain
<1>2. SUFFICES ASSUME k # tip
               PROVE  FALSE
  OBVIOUS
<1>3. tip \in After
  BY <1>1, <1>2
<1>4. \A b \in After : b \in A /\ b \in 1 .. Len(bs) /\ b \in Nat /\ bs[b].open /\ b > k /\ b # root
  BY <1>1 DEF root
<1>5. \A b \in A : bs[b].open /\ b > k => b \in After
  OBVIOUS
<1> HIDE DEF After
<1>6. PICK b \in After : \A c \in After : b <= c
  <2>1. After \in SUBSET Nat /\ After # {}
    BY <1>3, <1>4
  <2> QED BY <2>1, LeastNat
<1>7. bs[b].parent \in A /\ bs[bs[b].parent].open /\ k <= bs[b].parent /\ bs[b].parent < b
  BY <1>4, <1>6 DEF Chain, WellBuilt
<1>8. bs[b].parent = k
  <2>1. bs[b].parent \in Nat /\ b \in Nat
    <3>1. bs[b].parent \in 1 .. Len(bs) /\ b \in Nat
      BY <1>4, <1>6, <1>7
    <3> QED BY <1>1, <3>1
  <2>2. bs[b].parent \notin After
    BY <1>6, <1>7, <2>1
  <2> QED BY <1>1, <1>5, <1>7, <2>1, <2>2
<1>9. bs[bs[b].parent].type \in Holders
  BY <1>4, <1>6 DEF WellBuilt
<1> QED BY <1>8, <1>9

\* With no block opened since, the blocks that are unmatched and the others are one chain.
LEMMA ChainsJoin ==
    ASSUME NEW bs, WellBuilt(bs), NEW low, NEW high, Hanging(bs, low, high),
           Joined(bs, low, high), Chain(bs, Kept(bs, low, high), low), bs[high].open
    PROVE  Chain(bs, 1 .. Len(bs), high)
<1> DEFINE A == 1 .. Len(bs)
           K == Kept(bs, low, high)
<1>1. /\ high \in 1 .. Len(bs) /\ low \in 1 .. high /\ Len(bs) \in Nat /\ bs[low].open
  BY WellBuiltFields DEF Hanging, Chain
<1>2. \A b \in A : b \in Nat /\ (b \in K \/ b \in low + 1 .. high)
  BY <1>1 DEF Kept
<1>3. \A b \in K : b \in A /\ (bs[b].open => b <= low)
  BY DEF Kept, Chain
<1>4. ASSUME NEW b \in A, bs[b].open
      PROVE  /\ b <= high
             /\ b # root => bs[b].parent \in A /\ bs[bs[b].parent].open /\ LastChild(bs, b)
  <2>1. CASE b \in K
    <3>1. b <= low
      BY <1>3, <1>4, <2>1
    <3>2. b # root => bs[b].parent \in K /\ bs[bs[b].parent].open /\ LastChild(bs, b)
      BY <1>4, <2>1 DEF Chain
    <3> HIDE DEF K
    <3> QED BY <1>1, <1>3, <3>1, <3>2
  <2>2. CASE b \in low + 1 .. high
    <3>1. CASE bs[b].parent = low
      BY <1>1, <1>4, <2>2, <3>1 DEF Joined
    <3>2. CASE bs[b].parent # low
      BY <1>1, <1>4, <2>2, <3>2 DEF Hanging
    <3> QED BY <3>1, <3>2
  <2> QED BY <1>2, <2>1, <2>2
<1>5. ASSUME NEW b \in A, NEW c \in A, bs[b].open, bs[c].open, c < b
      PROVE  c <= bs[b].parent
  <2>1. CASE b \in K /\ c \in K
    BY <1>5, <2>1 DEF Chain
  <2>2. CASE b \in low + 1 .. high /\ c \in low + 1 .. high
    BY <1>5, <2>2 DEF Hanging
  <2>3. CASE b \in low + 1 .. high /\ c \in K
    <3>1. c <= low
      BY <1>3, <1>5, <2>3
    <3>2. low <= bs[b].parent
      BY <1>1, <1>5, <2>3 DEF Hanging
    <3>3. c \in Nat /\ bs[b].parent \in Int
      BY <1>1, <1>2, <1>5, <2>3 DEF Hanging
    <3> QED BY <1>1, <3>1, <3>2, <3>3
  <2>4. CASE b \in K /\ c \in low + 1 .. high
    <3>1. b <= low /\ low < c
      BY <1>1, <1>3, <1>5, <2>4
    <3> QED BY <1>1, <1>2, <1>5, <3>1
  <2> HIDE DEF A, K
  <2> QED BY <1>2, <2>1, <2>2, <2>3, <2>4
<1>6. high \in A
  BY <1>1
<1> QED BY <1>4, <1>5, <1>6 DEF Chain
\* The blocks after add_child, with n the number of the new one.
IsWithChild(bs, A, n, e, cs) ==
    /\ WellBuilt(cs) /\ Len(cs) = n /\ cs[n] = e /\ n \notin 1 .. Len(bs)
    /\ \A b \in 1 .. Len(bs) : cs[b] = bs[b]
    /\ Chain(cs, A \cup {n}, n)
    /\ \A low, high : Hanging(bs, low, high) /\ A = Kept(bs, low, high) =>
          Hanging(cs, low, high) /\ A \cup {n} = Kept(cs, low, high)

\* A block is made in the tip of a chain: it is the tip.
LEMMA ChildMade ==
    ASSUME NEW bs, WellBuilt(bs), NEW A \in SUBSET (1 .. Len(bs)), NEW tip, Chain(bs, A, tip),
           NEW e, IsBlock(e), e.open, e.parent = tip, bs[tip].type \in Holders
    PROVE  IsWithChild(bs, A, Len(bs) + 1, e, Append(bs, e))
<1> DEFINE n == Len(bs) + 1
           cs == Append(bs, e)
<1>1. /\ IsSeq(cs) /\ Len(cs) = n /\ Len(bs) \in Nat /\ cs[n] = e
      /\ \A b \in 1 .. Len(bs) : cs[b] = bs[b]
  BY WellBuiltFields, Appended
<1>2. /\ n \in Nat /\ n \notin 1 .. Len(bs) /\ n \notin A /\ n # root
      /\ \A b \in 1 .. n : b \in 1 .. Len(bs) \/ b = n
      /\ \A b \in 1 .. Len(bs) : b \in Nat /\ b < n /\ b \in 1 .. n
  BY <1>1 DEF WellBuilt, root
<1>3. tip \in A /\ bs[tip].open /\ tip \in 1 .. Len(bs)
  BY DEF Chain
<1> HIDE DEF cs
<1>4. WellBuilt(cs)
  <2>1. root \in 1 .. Len(cs) /\ cs[root] = bs[root]
    BY <1>1, <1>2 DEF WellBuilt
  <2>2. \A b \in 1 .. Len(cs) : IsBlock(cs[b])
    BY <1>1, <1>2 DEF WellBuilt
  <2>3. ASSUME NEW b \in 1 .. Len(cs), b # root
        PROVE  cs[b].parent \in 1 .. b - 1 /\ cs[cs[b].parent].type \in Holders
    <3>1. CASE b \in 1 .. Len(bs)
      <4>1. bs[b].parent \in 1 .. b - 1 /\ bs[bs[b].parent].type \in Holders
        BY <2>3, <3>1 DEF WellBuilt
      <4>2. bs[b].parent \in 1 .. Len(bs)
        BY <1>1, <3>1, <4>1
      <4> QED BY <1>1, <3>1, <4>1, <4>2
    <3>2. CASE b = n
      BY <1>1, <1>3, <3>2
    <3> QED BY <1>1, <1>2, <3>1, <3>2
  <2> QED BY <1>1, <2>1, <2>2, <2>3 DEF WellBuilt
<1>5. ASSUME NEW b \in 1 .. Len(bs), LastChild(bs, b), bs[b].parent # tip
      PROVE  LastChild(cs, b)
  BY <1>1, <1>2, <1>5 DEF LastChild
<1>6. Chain(cs, A \cup {n}, n)
  <2>1. n \in A \cup {n} /\ cs[n].open
    BY <1>1
  <2>2. ASSUME NEW b \in A \cup {n}, cs[b].open
        PROVE  /\ b <= n
               /\ b # root => /\ cs[b].parent \in A \cup {n}
                              /\ cs[cs[b].parent].open /\ LastChild(cs, b)
    <3>1. CASE b = n
      <4>1. LastChild(cs, n)
        BY <1>1, <1>2 DEF LastChild
      <4> QED BY <1>1, <1>2, <1>3, <3>1, <4>1
    <3>2. CASE b \in A
      <4>1. cs[b] = bs[b] /\ b \in 1 .. Len(bs) /\ bs[b].open /\ b <= n
        BY <1>1, <1>2, <2>2, <3>2
      <4>2. b <= tip
        BY <3>2, <4>1 DEF Chain
      <4>3. ASSUME b # root
            PROVE  /\ cs[b].parent \in A \cup {n}
                   /\ cs[cs[b].parent].open /\ LastChild(cs, b)
        <5>1. /\ bs[b].parent \in A /\ bs[bs[b].parent].open /\ LastChild(bs, b)
              /\ bs[b].parent \in 1 .. b - 1
          BY <3>2, <4>1, <4>3 DEF Chain, WellBuilt
        <5>2. bs[b].parent # tip /\ bs[b].parent \in 1 .. Len(bs)
          BY <1>1, <1>3, <4>1, <4>2, <5>1
        <5> QED BY <1>1, <1>5, <4>1, <5>1, <5>2
      <4> QED BY <4>1, <4>3
    <3> QED BY <3>1, <3>2
  <2>3. ASSUME NEW b \in A \cup {n}, NEW c \in A \cup {n}, cs[b].open, cs[c].open, c < b
        PROVE  c <= cs[b].parent
    <3>1. CASE b = n
      <4>1. c \in A /\ bs[c].open
        BY <1>1, <1>2, <2>3, <3>1
      <4>2. c <= tip
        BY <4>1 DEF Chain
      <4> QED BY <1>1, <3>1, <4>2
    <3>2. CASE b # n
      <4>1. b \in A /\ c \in A
        BY <1>2, <2>3, <3>2
      <4>2. cs[b] = bs[b] /\ cs[c] = bs[c]
        BY <1>1, <4>1
      <4> QED BY <2>3, <4>1, <4>2 DEF Chain
    <3> QED BY <3>1, <3>2
  <2> QED BY <2>1, <2>2, <2>3 DEF Chain
<1>7. ASSUME NEW low, NEW high, Hanging(bs, low, high), A = Kept(bs, low, high)
      PROVE  Hanging(cs, low, high) /\ A \cup {n} = Kept(cs, low, high)
  <2>1. high \in 1 .. Len(bs) /\ low \in 1 .. high
    BY <1>7 DEF Hanging
  <2>2. \A b \in low + 1 .. high : b \in 1 .. Len(bs) /\ cs[b] = bs[b] /\ b \notin A
    BY <1>1, <1>7, <2>1 DEF Kept
  <2>3. high # low => cs[high].open
    BY <1>1, <1>7, <2>1 DEF Hanging
  <2>4. ASSUME NEW b \in low + 1 .. high, cs[b].open
        PROVE  \/ cs[b].parent = low
               \/ /\ cs[b].parent \in low + 1 .. high /\ cs[cs[b].parent].open
                  /\ LastChild(cs, b)
    <3>1. CASE bs[b].parent = low
      BY <2>2, <3>1
    <3>2. CASE bs[b].parent # low
      <4>1. bs[b].parent \in low + 1 .. high /\ bs[bs[b].parent].open /\ LastChild(bs, b)
        BY <1>7, <2>2, <2>4, <3>2 DEF Hanging
      <4>2. bs[b].parent # tip
        BY <1>3, <2>2, <4>1
      <4> QED BY <1>5, <2>2, <4>1, <4>2
    <3> QED BY <3>1, <3>2
  <2>5. \A b, c \in low + 1 .. high : cs[b].open /\ cs[c].open /\ c < b => c <= cs[b].parent
    BY <1>7, <2>2 DEF Hanging
  <2>6. high \in 1 .. Len(cs)
    BY <1>1, <1>2, <2>1
  <2>7. Hanging(cs, low, high)
    BY <2>1, <2>3, <2>4, <2>5, <2>6 DEF Hanging
  <2>8. Kept(cs, low, high) = Kept(bs, low, high) \cup {n}
    BY <1>1, <1>2, <2>1 DEF Kept
  <2> QED BY <1>7, <2>7, <2>8
<1>8. WellBuilt(cs) /\ Len(cs) = n /\ cs[n] = e /\ \A b \in 1 .. Len(bs) : cs[b] = bs[b]
  BY <1>1, <1>4
<1>9. IsWithChild(bs, A, n, e, cs)
  BY <1>2, <1>6, <1>7, <1>8 DEF IsWithChild
<1> QED BY <1>9 DEF cs
-----------------------------------------------------------------------------
(* The steps *)

LEMMA Initially ==
    ASSUME Init
    PROVE  IInv
<1> DEFINE d == [Block("document") EXCEPT !.start_line = 1]
<1>1. blocks = <<d>> /\ pc = "idle" /\ current = root /\ ~asserted
  BY DEF Init
<1>2. /\ d.type = "document" /\ d.parent = NULL /\ d.open = TRUE /\ d.content = << >>
      /\ d.kind = "none" /\ d.fenced = FALSE /\ DOMAIN d = Fields
  BY DEF Block, Fields
<1>3. Len(blocks) = 1 /\ blocks[1] = d /\ IsSeq(blocks)
  BY <1>1 DEF IsSeq
<1> HIDE DEF d
<1>4. IsBlock(d)
  BY <1>2 DEF IsBlock, IsSeq
<1>5. \A b \in 1 .. Len(blocks) : b = root /\ blocks[b] = d
  BY <1>3 DEF root
<1>6. WellBuilt(blocks)
  BY <1>2, <1>3, <1>4, <1>5 DEF WellBuilt, root
<1>7. Chain(blocks, 1 .. Len(blocks), current)
  BY <1>1, <1>2, <1>3, <1>5 DEF Chain, root
<1>8. FencesFilled
  BY <1>2, <1>5 DEF FencesFilled
<1>9. blocks[root].open
  BY <1>2, <1>3 DEF root
<1> QED BY <1>1, <1>6, <1>7, <1>8, <1>9 DEF IInv, Matching, Opened

\* finalize, where the block is open and not a fence without its info line.
LEMMA Finalizing ==
    ASSUME IInv, NEW k \in 1 .. Len(blocks), blocks[k].open, finalize(k),
           blocks[k].fenced /\ blocks[k].content = << >> => FALSE
    PROVE  /\ Finalized(blocks, blocks', k) /\ WellBuilt(blocks') /\ ~asserted'
           /\ Len(blocks') = Len(blocks)
           /\ k # root /\ pc # "done" => blocks'[root].open
           /\ \A b \in 1 .. Len(blocks') :
                 blocks'[b].open /\ blocks'[b].fenced /\ blocks'[b].content = << >> =>
                     pc \in {"text", "close"} /\ b = container /\ b > current
<1>1. WellBuilt(blocks) /\ ~asserted
  BY DEF IInv
<1>2. blocks' = Closed(k)
  BY DEF finalize
<1>3. Finalized(blocks, blocks', k)
  BY <1>1, <1>2, ClosedFinalizes
<1>4. WellBuilt(blocks')
  BY <1>1, <1>3, FinalizedWellBuilt
<1>5. ~asserted'
  BY <1>1 DEF finalize
<1>6. Len(blocks') = Len(blocks)
  BY <1>3 DEF Finalized
<1>7. ASSUME k # root, pc # "done"
      PROVE  blocks'[root].open
  <2>1. root \in 1 .. Len(blocks) /\ blocks[root].open
    BY <1>1, <1>7 DEF IInv, WellBuilt
  <2> QED BY <1>3, <1>7, <2>1 DEF Finalized
<1>8. ASSUME NEW b \in 1 .. Len(blocks'),
             blocks'[b].open, blocks'[b].fenced, blocks'[b].content = << >>
      PROVE  pc \in {"text", "close"} /\ b = container /\ b > current
  <2>1. b \in 1 .. Len(blocks) /\ b # k
    BY <1>3, <1>8 DEF Finalized
  <2>2. blocks[b].open /\ blocks[b].fenced /\ blocks[b].content = << >>
    BY <1>3, <1>8, <2>1 DEF Finalized
  <2> QED BY <2>1, <2>2 DEF IInv, FencesFilled
<1> QED BY <1>3, <1>4, <1>5, <1>6, <1>7, <1>8

LEMMA LineStarts ==
    ASSUME IInv, NEW l, S_process_line(l)
    PROVE  IInv'
<1>1. /\ pc = "idle" /\ pc' = "check" /\ container' = root /\ blocks' = blocks
      /\ current' = current /\ asserted' = asserted
  BY DEF S_process_line
<1>2. FencesFilled'
  BY <1>1 DEF IInv, FencesFilled
<1>3. /\ WellBuilt(blocks) /\ blocks[root].open /\ Chain(blocks, 1 .. Len(blocks), current)
      /\ ~asserted /\ root \in 1 .. Len(blocks)
  BY <1>1 DEF IInv, Matching, WellBuilt
<1>4. /\ WellBuilt(blocks') /\ blocks'[root].open /\ Chain(blocks', 1 .. Len(blocks'), current')
      /\ ~asserted' /\ container' \in 1 .. Len(blocks') /\ blocks'[container'].open
  BY <1>1, <1>3
<1> QED BY ONLY <1>1, <1>2, <1>4 DEF IInv, Matching, Opened

LEMMA NextMatches ==
    ASSUME IInv, CheckNext
    PROVE  IInv'
<1>1. /\ pc = "check" /\ pc' = "check" /\ container' = next_open /\ next_open # NULL
      /\ blocks' = blocks /\ current' = current /\ asserted' = asserted
  BY DEF CheckNext
<1>2. next_open \in 1 .. Len(blocks) /\ blocks[next_open].open
  <2> DEFINE c == last_child(blocks, container)
  <2>1. c # NULL /\ blocks[c].open /\ next_open = c
    BY <1>1 DEF next_open
  <2>2. c \in Children(blocks, container)
    BY <2>1, WellBuiltFields, ChildrenBound DEF IInv
  <2> QED BY <2>1, <2>2 DEF Children
<1>3. FencesFilled'
  BY <1>1 DEF IInv, FencesFilled
<1>4. /\ WellBuilt(blocks) /\ blocks[root].open /\ Chain(blocks, 1 .. Len(blocks), current)
      /\ ~asserted
  BY <1>1 DEF IInv, Matching
<1>5. /\ WellBuilt(blocks') /\ blocks'[root].open /\ Chain(blocks', 1 .. Len(blocks'), current')
      /\ ~asserted' /\ container' \in 1 .. Len(blocks') /\ blocks'[container'].open
  BY <1>1, <1>2, <1>4
<1> QED BY ONLY <1>1, <1>3, <1>5 DEF IInv, Matching, Opened

\* The blocks after container are the unmatched ones.
LEMMA MatchingEnds ==
    ASSUME IInv, CheckDone
    PROVE  IInv'
<1>1. /\ pc = "check" /\ pc' = "open" /\ container' = container /\ last_matched' = container
      /\ blocks' = blocks /\ current' = current /\ asserted' = asserted
  BY DEF CheckDone
<1>2. /\ Chain(blocks, 1 .. Len(blocks), current) /\ WellBuilt(blocks)
      /\ container \in 1 .. Len(blocks) /\ blocks[container].open
  BY <1>1 DEF IInv, Matching
<1>3. /\ Len(blocks) \in Nat /\ current \in 1 .. Len(blocks) /\ container \in 1 .. current
      /\ blocks[current].open
  BY <1>2, WellBuiltFields DEF Chain
<1> DEFINE K == Kept(blocks, container, current)
<1>4. /\ \A b \in K : b \in 1 .. Len(blocks) /\ (b <= container \/ b > current)
      /\ \A b \in 1 .. Len(blocks) : b <= container => b \in K
  BY DEF Kept
<1>5. Chain(blocks, K, container)
  <2> HIDE DEF K
  <2>1. container \in K
    BY <1>2, <1>3, <1>4
  <2>2. ASSUME NEW b \in K, blocks[b].open
        PROVE  /\ b <= container
               /\ b # root => /\ blocks[b].parent \in K /\ blocks[blocks[b].parent].open
                              /\ LastChild(blocks, b)
    <3>1. b \in 1 .. Len(blocks) /\ b <= current
      BY <1>2, <1>4, <2>2 DEF Chain
    <3>2. b <= container
      BY <1>3, <1>4, <2>2, <3>1
    <3>3. ASSUME b # root
          PROVE  /\ blocks[b].parent \in K /\ blocks[blocks[b].parent].open
                 /\ LastChild(blocks, b)
      <4>1. /\ blocks[b].parent \in 1 .. Len(blocks) /\ blocks[blocks[b].parent].open
            /\ LastChild(blocks, b) /\ blocks[b].parent \in 1 .. b - 1
        BY <1>2, <2>2, <3>1, <3>3 DEF Chain, WellBuilt
      <4>2. blocks[b].parent <= container
        BY <1>3, <3>1, <3>2, <4>1
      <4> QED BY <1>4, <4>1, <4>2
    <3> QED BY <3>2, <3>3
  <2>3. ASSUME NEW b \in K, NEW c \in K, blocks[b].open, blocks[c].open, c < b
        PROVE  c <= blocks[b].parent
    BY <1>2, <1>4, <2>3 DEF Chain
  <2> QED BY <1>2, <2>1, <2>2, <2>3 DEF Chain
<1>6. ASSUME NEW b \in container + 1 .. current, blocks[b].open
      PROVE  /\ b \in 1 .. Len(blocks) /\ blocks[b].parent \in container .. current
             /\ blocks[blocks[b].parent].open /\ LastChild(blocks, b)
  <2>1. b \in 1 .. Len(blocks) /\ container < b /\ b # root /\ b <= current
    BY <1>3, <1>6 DEF root
  <2>2. container <= blocks[b].parent
    BY <1>2, <1>6, <2>1 DEF Chain
  <2>3. blocks[b].parent \in 1 .. b - 1 /\ blocks[blocks[b].parent].open /\ LastChild(blocks, b)
    BY <1>2, <1>6, <2>1 DEF Chain, WellBuilt
  <2> QED BY <1>3, <2>1, <2>2, <2>3
<1>7. Hanging(blocks, container, current)
  <2>1. \A b \in container + 1 .. current : b \in 1 .. Len(blocks)
    BY <1>3
  <2>2. ASSUME NEW b \in container + 1 .. current, blocks[b].open
        PROVE  \/ blocks[b].parent = container
               \/ /\ blocks[b].parent \in container + 1 .. current
                  /\ blocks[blocks[b].parent].open /\ LastChild(blocks, b)
    BY <1>3, <1>6, <2>2
  <2>3. ASSUME NEW b \in container + 1 .. current, NEW c \in container + 1 .. current,
               blocks[b].open, blocks[c].open, c < b
        PROVE  c <= blocks[b].parent
    BY <1>2, <2>1, <2>3 DEF Chain
  <2> QED BY <1>3, <2>2, <2>3 DEF Hanging
<1>8. Joined(blocks, container, current)
  BY <1>6 DEF Joined
<1>9. FencesFilled'
  BY <1>1 DEF IInv, FencesFilled
<1>10. /\ WellBuilt(blocks') /\ blocks'[root].open /\ ~asserted'
       /\ Chain(blocks', Kept(blocks', last_matched', current'), container')
       /\ Hanging(blocks', last_matched', current') /\ Joined(blocks', last_matched', current')
  BY <1>1, <1>2, <1>5, <1>7, <1>8 DEF IInv
<1> QED BY ONLY <1>1, <1>9, <1>10 DEF IInv, Matching, Opened
\* A fenced block can hold nothing, so it is the last of the open blocks.
LEMMA FenceCloses ==
    ASSUME IInv, CheckFence
    PROVE  IInv'
<1> DEFINE k == next_open
<1>1. /\ pc = "check" /\ pc' = "idle" /\ k # NULL /\ blocks[k].fenced
      /\ finalize(k) /\ current' = blocks[k].parent
  BY DEF CheckFence, ClosesFence
<1>2. k \in 1 .. Len(blocks) /\ blocks[k].open
  <2> DEFINE c == last_child(blocks, container)
  <2>1. c # NULL /\ blocks[c].open /\ k = c
    BY <1>1 DEF next_open
  <2>2. c \in Children(blocks, container)
    BY <2>1, WellBuiltFields, ChildrenBound DEF IInv
  <2> QED BY <2>1, <2>2 DEF Children
<1> HIDE DEF k
<1>3. /\ WellBuilt(blocks) /\ Chain(blocks, 1 .. Len(blocks), current) /\ ~asserted
      /\ blocks[k].content # << >>
  BY <1>1, <1>2 DEF IInv, Matching, FencesFilled
<1>4. blocks[k].type = "code_block" /\ blocks[k].type \notin Holders /\ k # root
  BY <1>1, <1>2, <1>3 DEF WellBuilt, IsBlock, Holders
<1>5. k = current
  BY <1>2, <1>3, <1>4, TipHoldsNothing
<1>6. /\ Finalized(blocks, blocks', k) /\ WellBuilt(blocks') /\ ~asserted'
      /\ Len(blocks') = Len(blocks) /\ blocks'[root].open
      /\ \A b \in 1 .. Len(blocks') :
            ~(blocks'[b].open /\ blocks'[b].fenced /\ blocks'[b].content = << >>)
  BY <1>1, <1>2, <1>3, <1>4, Finalizing
<1>7. Chain(blocks', 1 .. Len(blocks'), current')
  BY <1>1, <1>2, <1>3, <1>4, <1>5, <1>6, TipClosed
<1>8. FencesFilled'
  BY <1>6 DEF FencesFilled
<1> QED BY ONLY <1>1, <1>6, <1>7, <1>8 DEF IInv, Matching, Opened

\* A new block of one of the types a line can open.
LEMMA NewBlock ==
    ASSUME NEW ty, ty # "freed"
    PROVE  /\ IsBlock(Block(ty)) /\ DOMAIN Block(ty) = Fields
           /\ Block(ty).type = ty /\ Block(ty).open = TRUE /\ Block(ty).fenced = FALSE
           /\ Block(ty).content = << >>
<1>1. IsSeq(<< >>)
  BY DEF IsSeq
<1> QED BY <1>1 DEF Block, IsBlock, Fields

\* open_new_blocks goes on to add_child.
LEMMA GoesOnToAdd ==
    ASSUME IInv, NEW what, NEW new, NEW r, NEW b, Open(what, new, r, b), what # "none",
           IsSeq(new), Len(new) \in {1, 2},
           \A i \in 1 .. Len(new) : IsBlock(new[i]) /\ new[i].open,
           Len(new) = 2 => new[1].type = "list" /\ new[2].type = "item",
           new[1].type = "item" => type(container) = "list",
           new[1].type # "paragraph"
    PROVE  IInv'
<1>1. /\ pc = "open" /\ pc' = "add" /\ adding' = new /\ Opening # "none"
      /\ blocks' = blocks /\ current' = current /\ container' = container
      /\ last_matched' = last_matched /\ asserted' = asserted
  BY DEF Open
<1>2. type(container) # "code_block"
  BY <1>1 DEF Opening
<1>3. Adding'
  <2>1. type(container)' = type(container)
    BY <1>1 DEF type
  <2> QED BY <1>1, <1>2, <2>1 DEF Adding
<1>4. FencesFilled'
  BY <1>1 DEF IInv, FencesFilled
<1>5. /\ WellBuilt(blocks') /\ blocks'[root].open /\ ~asserted'
      /\ Chain(blocks', Kept(blocks', last_matched', current'), container')
      /\ Hanging(blocks', last_matched', current')
  BY <1>1 DEF IInv, Opened
<1> QED BY ONLY <1>1, <1>3, <1>4, <1>5 DEF IInv, Matching, Opened

LEMMA OneBlockOpens ==
    ASSUME IInv, NEW what, NEW e, NEW r, NEW b, Open(what, <<e>>, r, b), what # "none",
           IsBlock(e), e.open, e.type # "paragraph", e.type = "item" => type(container) = "list"
    PROVE  IInv'
<1> DEFINE new == <<e>>
<1>1. IsSeq(new) /\ Len(new) = 1 /\ new[1] = e
  BY DEF IsSeq
<1>2. Open(what, new, r, b)
  OBVIOUS
<1> HIDE DEF new
<1>3. \A i \in 1 .. Len(new) : IsBlock(new[i]) /\ new[i].open
  BY <1>1
<1> QED BY <1>1, <1>2, <1>3, GoesOnToAdd

\* A line opens a block, or a list with an item.
LEMMA LineOpens ==
    ASSUME IInv,
           \/ OpenQuote \/ OpenHeading \/ OpenFence \/ OpenHTML \/ OpenBreak \/ OpenFootnote
           \/ OpenList \/ OpenCode
    PROVE  IInv'
<1>1. CASE OpenQuote
  <2>1. Open("block_quote", <<Block("block_quote")>>, Advanced(indent + 1), body)
    BY <1>1 DEF OpenQuote
  <2> QED BY <2>1, NewBlock, OneBlockOpens
<1>2. CASE OpenHeading
  <2>1. Open("heading", <<Block("heading")>>, << >>, "text")
    BY <1>2 DEF OpenHeading
  <2> QED BY <2>1, NewBlock, OneBlockOpens
<1>3. CASE OpenFence
  <2> DEFINE e == [Block("code_block") EXCEPT !.fenced = TRUE, !.need = indent]
  <2>1. Open("fence", <<e>>, << >>, "blank")
    BY <1>3 DEF OpenFence
  <2>2. IsBlock(e) /\ e.open = TRUE /\ e.type = "code_block"
    BY DEF IsBlock, Fields, Block, IsSeq
  <2> HIDE DEF e
  <2> QED BY <2>1, <2>2, OneBlockOpens
<1>4. CASE OpenHTML
  <2> DEFINE e == [Block("html_block") EXCEPT !.kind = body]
  <2>1. Open("html", <<e>>, rest, body)
    BY <1>4 DEF OpenHTML
  <2>2. IsBlock(e) /\ e.open = TRUE /\ e.type = "html_block"
    BY DEF IsBlock, Fields, Block, IsSeq
  <2> HIDE DEF e
  <2> QED BY <2>1, <2>2, OneBlockOpens
<1>5. CASE OpenBreak
  <2>1. Open("thematic_break", <<Block("thematic_break")>>, << >>, "blank")
    BY <1>5 DEF OpenBreak
  <2> QED BY <2>1, NewBlock, OneBlockOpens
<1>6. CASE OpenFootnote
  <2>1. \E r : Open("footnote_definition", <<Block("footnote_definition")>>, r, body)
    BY <1>6 DEF OpenFootnote
  <2> QED BY <2>1, NewBlock, OneBlockOpens
<1>7. CASE OpenList
  <2> DEFINE after == Advanced(indent + 1)
             i == IF Indent(after) >= 2 \/ (body = "blank" /\ Indent(after) = Len(after))
                  THEN 0 ELSE Indent(after)
             list == [Block("list") EXCEPT !.kind = marker]
             item == [Block("item") EXCEPT !.kind = marker, !.need = indent + 1 + i]
             left == SubSeq(after, i + 1, Len(after))
             both == <<list, item>>
  <2>1. \/ Open("list", <<item>>, left, body) /\ type(container) = "list"
        \/ Open("list", both, left, body)
    BY <1>7 DEF OpenList
  <2>2. IsBlock(list) /\ list.open = TRUE /\ list.type = "list"
    BY DEF IsBlock, Fields, Block, IsSeq
  <2>3. IsBlock(item) /\ item.open = TRUE /\ item.type = "item"
    BY DEF IsBlock, Fields, Block, IsSeq
  <2> HIDE DEF list, item, left
  <2>4. IsSeq(both) /\ Len(both) = 2 /\ both[1] = list /\ both[2] = item
    BY DEF IsSeq
  <2> HIDE DEF both
  <2>5. CASE Open("list", <<item>>, left, body) /\ type(container) = "list"
    BY <2>3, <2>5, OneBlockOpens
  <2>6. CASE Open("list", both, left, body)
    <3>1. \A j \in 1 .. Len(both) : j = 1 \/ j = 2
      BY <2>4
    <3>2. \A j \in 1 .. Len(both) : IsBlock(both[j]) /\ both[j].open
      BY <2>2, <2>3, <2>4, <3>1
    <3> QED BY <2>2, <2>3, <2>4, <2>6, <3>2, GoesOnToAdd
  <2> QED BY <2>1, <2>5, <2>6
<1>8. CASE OpenCode
  <2>1. Open("code", <<Block("code_block")>>, Advanced(2), body)
    BY <1>8 DEF OpenCode
  <2> QED BY <2>1, NewBlock, OneBlockOpens
<1> QED BY <1>1, <1>2, <1>3, <1>4, <1>5, <1>6, <1>7, <1>8
LEMMA SetextHeading ==
    ASSUME IInv, OpenSetext
    PROVE  IInv'
<1>1. /\ pc = "open" /\ pc' = "text" /\ Opening = "setext" /\ blocks' = Setext(container)
      /\ current' = current /\ container' = container /\ last_matched' = last_matched
      /\ asserted' = asserted
  BY DEF OpenSetext, Setext
<1>2. blocks[container].type = "paragraph"
  BY <1>1 DEF Opening, type
<1> DEFINE K == Kept(blocks, last_matched, current)
<1>3. /\ WellBuilt(blocks) /\ blocks[root].open /\ ~asserted /\ Chain(blocks, K, container)
      /\ Hanging(blocks, last_matched, current)
      /\ container = last_matched => Joined(blocks, last_matched, current)
  BY <1>1 DEF IInv, Opened
<1>4. K \in SUBSET (1 .. Len(blocks)) /\ container \in K /\ container \in 1 .. Len(blocks)
  BY <1>3 DEF Kept, Chain
<1> HIDE DEF K
<1>5. /\ Restyled(blocks, blocks')
      /\ \A b \in 1 .. Len(blocks) : b # container => blocks'[b] = blocks[b]
  BY <1>1, <1>2, <1>3, <1>4, SetextRestyles
<1>6. /\ WellBuilt(blocks') /\ Chain(blocks', K, container) /\ Len(blocks') = Len(blocks)
      /\ Hanging(blocks', last_matched, current)
      /\ container = last_matched => Joined(blocks', last_matched, current)
  BY <1>3, <1>4, <1>5, RestyledWellBuilt, RestyledChain, RestyledHanging DEF Restyled
<1>7. K = Kept(blocks', last_matched, current)
  BY <1>6 DEF K, Kept
<1>8. FencesFilled'
  <2> SUFFICES ASSUME NEW b \in 1 .. Len(blocks), blocks'[b].open, blocks'[b].fenced,
                      blocks'[b].content = << >>
               PROVE  FALSE
    BY <1>6 DEF FencesFilled
  <2>1. CASE b = container
    <3>1. ~blocks[b].fenced
      BY <1>2, <1>3, <2>1 DEF WellBuilt, IsBlock
    <3> QED BY <1>5, <3>1 DEF Restyled
  <2>2. CASE b # container
    <3>1. blocks[b].open /\ blocks[b].fenced /\ blocks[b].content = << >>
      BY <1>5, <2>2
    <3> QED BY <1>1, <3>1 DEF IInv, FencesFilled
  <2> QED BY <2>1, <2>2
<1>9. blocks'[root].open
  BY <1>3, <1>5 DEF Restyled, WellBuilt
<1>10. /\ WellBuilt(blocks') /\ blocks'[root].open /\ ~asserted'
       /\ Chain(blocks', Kept(blocks', last_matched', current'), container')
       /\ Hanging(blocks', last_matched', current')
       /\ container' = last_matched' => Joined(blocks', last_matched', current')
  BY <1>1, <1>3, <1>6, <1>7, <1>9
<1> QED BY ONLY <1>1, <1>8, <1>10 DEF IInv, Matching, Opened

LEMMA NothingOpens ==
    ASSUME IInv, OpenNothing
    PROVE  IInv'
<1>1. /\ pc = "open" /\ pc' = "text" /\ blocks' = blocks
      /\ current' = current /\ container' = container /\ last_matched' = last_matched
      /\ asserted' = asserted
  BY DEF OpenNothing
<1>2. FencesFilled'
  BY <1>1 DEF IInv, FencesFilled
<1>3. /\ WellBuilt(blocks') /\ blocks'[root].open /\ ~asserted'
      /\ Chain(blocks', Kept(blocks', last_matched', current'), container')
      /\ Hanging(blocks', last_matched', current')
      /\ container' = last_matched' => Joined(blocks', last_matched', current')
  BY <1>1 DEF IInv, Opened
<1> QED BY ONLY <1>1, <1>2, <1>3 DEF IInv, Matching, Opened

LEMMA HeadIsFirst ==
    ASSUME NEW s, IsSeq(s), Len(s) \in {1, 2}
    PROVE  /\ Head(s) = s[1] /\ Len(Tail(s)) = Len(s) - 1 /\ IsSeq(Tail(s))
           /\ Len(s) = 2 => Tail(s)[1] = s[2]
<1> DEFINE S == {s[i] : i \in 1 .. Len(s)}
<1>1. s \in Seq(S)
  BY OwnSeq
<1>2. s # << >>
  OBVIOUS
<1> HIDE DEF S
<1>3. /\ Tail(s) \in Seq(S) /\ Len(Tail(s)) = Len(s) - 1
      /\ \A i \in 1 .. Len(Tail(s)) : Tail(s)[i] = s[i + 1]
  BY <1>1, <1>2, HeadTailProperties
<1>4. Head(s) = s[1]
  BY <1>1, <1>2
<1>5. IsSeq(Tail(s))
  BY <1>3, SeqIsSeq
<1> QED BY <1>3, <1>4, <1>5

\* Only the document has no parent, and it is not what add_child backs up from.
LEMMA BacksUp ==
    ASSUME IInv, BackUp
    PROVE  IInv'
<1> DEFINE K == Kept(blocks, last_matched, current)
<1>1. /\ pc = "add" /\ pc' = "add" /\ ~can_contain(type(container), Head(adding).type)
      /\ finalize(container) /\ container' = blocks[container].parent
      /\ current' = current /\ last_matched' = last_matched /\ adding' = adding
  BY DEF BackUp
<1>2. /\ WellBuilt(blocks) /\ blocks[root].open /\ ~asserted /\ Chain(blocks, K, container)
      /\ Hanging(blocks, last_matched, current) /\ Adding
  BY <1>1 DEF IInv, Opened
<1>3. /\ K \in SUBSET (1 .. Len(blocks)) /\ container \in K /\ container \in 1 .. Len(blocks)
      /\ blocks[container].open
  BY <1>2 DEF Kept, Chain
<1>4. /\ container \in Kept(blocks, last_matched, current)
      /\ Head(adding) = adding[1] /\ type(container) # "code_block"
  BY <1>2, <1>3, HeadIsFirst DEF Adding
<1> HIDE DEF K
<1>5. container # root
  <2>1. ASSUME container = root
        PROVE  FALSE
    <3>1. type(container) = "document"
      BY <1>2, <2>1 DEF WellBuilt, type
    <3>2. adding[1].type = "item"
      BY <1>1, <1>4, <3>1 DEF can_contain
    <3> QED BY <1>2, <3>1, <3>2 DEF Adding
  <2> QED BY <2>1
<1>6. ~blocks[container].fenced
  BY <1>2, <1>3, <1>4 DEF WellBuilt, IsBlock, type
<1>7. /\ Finalized(blocks, blocks', container) /\ WellBuilt(blocks') /\ ~asserted'
      /\ Len(blocks') = Len(blocks) /\ blocks'[root].open
      /\ \A b \in 1 .. Len(blocks') :
            ~(blocks'[b].open /\ blocks'[b].fenced /\ blocks'[b].content = << >>)
  BY <1>1, <1>3, <1>5, <1>6, Finalizing
<1>8. Chain(blocks', K, container') /\ container' \in K
  BY <1>1, <1>2, <1>3, <1>5, <1>7, TipClosed
<1>9. Hanging(blocks', last_matched', current')
  BY <1>1, <1>2, <1>4, <1>7, HangingKept
<1>10. K = Kept(blocks', last_matched', current')
  BY <1>1, <1>7 DEF K, Kept
<1>11. FencesFilled'
  BY <1>7 DEF FencesFilled
<1>12. Adding'
  <2>1. container' \in 1 .. Len(blocks) /\ container' # container
    BY <1>1, <1>2, <1>3, <1>5, <1>8 DEF WellBuilt
  <2>2. blocks'[container'].type = blocks[container'].type
    BY <1>7, <2>1 DEF Finalized
  <2>3. type(container)' = blocks'[container'].type
    BY DEF type
  <2>4. blocks[container'].type \in Holders
    BY <1>1, <1>2, <1>3, <1>5 DEF WellBuilt
  <2>5. adding[1].type # "item"
    BY <1>1, <1>2, <1>4 DEF Adding, can_contain
  <2> QED BY <1>1, <1>2, <2>2, <2>3, <2>4, <2>5 DEF Adding, Holders
<1> QED BY ONLY <1>1, <1>7, <1>8, <1>9, <1>10, <1>11, <1>12 DEF IInv, Matching, Opened
LEMMA ChildAdded ==
    ASSUME IInv, add_child
    PROVE  IInv'
<1> DEFINE K == Kept(blocks, last_matched, current)
           n == Len(blocks) + 1
           e == [Head(adding) EXCEPT !.parent = container]
           ty == adding[1].type
<1>1. /\ pc = "add" /\ can_contain(type(container), Head(adding).type)
      /\ blocks' = Append(blocks, e) /\ container' = Len(blocks') /\ adding' = Tail(adding)
      /\ current' = IF Head(adding).type = "paragraph" THEN container' ELSE current
      /\ pc' = AfterChild(Head(adding).type)
      /\ last_matched' = last_matched /\ asserted' = asserted
  BY DEF add_child
<1>2. /\ WellBuilt(blocks) /\ blocks[root].open /\ ~asserted /\ Chain(blocks, K, container)
      /\ Hanging(blocks, last_matched, current) /\ Adding
  BY <1>1 DEF IInv, Opened
<1>3. /\ K \in SUBSET (1 .. Len(blocks)) /\ container \in K /\ container \in 1 .. Len(blocks)
      /\ blocks[container].open /\ root \in 1 .. Len(blocks) /\ Len(blocks) \in Nat
      /\ current \in 1 .. Len(blocks) /\ last_matched \in 1 .. current
  BY <1>2, WellBuiltFields DEF Kept, Chain, Hanging, WellBuilt
<1>4. /\ Head(adding) = adding[1] /\ IsSeq(adding') /\ Len(adding') = Len(adding) - 1
      /\ Len(adding) = 2 => adding'[1] = adding[2]
      /\ Len(adding) \in {1, 2} /\ IsBlock(adding[1]) /\ adding[1].open
      /\ Len(adding) = 2 => ty = "list" /\ adding[2].type = "item" /\ IsBlock(adding[2])
                            /\ adding[2].open
  BY <1>1, <1>2, HeadIsFirst DEF Adding
<1>5. /\ IsBlock(e) /\ e.open /\ e.parent = container /\ e.type = ty
      /\ e.content = adding[1].content /\ e.fenced = adding[1].fenced
  BY <1>4 DEF IsBlock, Fields
<1>6. blocks[container].type \in Holders
  BY <1>1 DEF can_contain, type, Holders
<1> HIDE DEF K, e
<1>7. /\ WellBuilt(blocks') /\ Len(blocks') = n /\ blocks'[n] = e /\ n \notin 1 .. Len(blocks)
      /\ \A b \in 1 .. Len(blocks) : blocks'[b] = blocks[b]
      /\ Chain(blocks', K \cup {n}, n)
      /\ \A low, high : Hanging(blocks, low, high) /\ K = Kept(blocks, low, high) =>
            Hanging(blocks', low, high) /\ K \cup {n} = Kept(blocks', low, high)
  <2>1. K \in SUBSET (1 .. Len(blocks)) /\ Chain(blocks, K, container) /\ WellBuilt(blocks)
    BY <1>2, <1>3 DEF K
  <2>2. IsWithChild(blocks, K, Len(blocks) + 1, e, Append(blocks, e))
    BY ONLY <2>1, <1>5, <1>6, ChildMade
  <2>3. IsWithChild(blocks, K, n, e, blocks')
    BY <1>1, <2>2 DEF e
  <2> QED BY <2>3 DEF IsWithChild
<1>8. /\ Hanging(blocks', last_matched, current)
      /\ K \cup {n} = Kept(blocks', last_matched, current)
  BY <1>2, <1>7 DEF K
<1>9. container' = n /\ n > current /\ n # last_matched
  BY <1>1, <1>3, <1>7
<1>10. blocks'[root].open /\ ~asserted'
  BY <1>1, <1>2, <1>3, <1>7
<1>11. \A b \in 1 .. Len(blocks') :
          blocks'[b].open /\ blocks'[b].fenced /\ blocks'[b].content = << >> =>
              b = n /\ ty = "code_block"
  <2> SUFFICES ASSUME NEW b \in 1 .. Len(blocks'), blocks'[b].open, blocks'[b].fenced,
                      blocks'[b].content = << >>
               PROVE  b = n /\ ty = "code_block"
    OBVIOUS
  <2>1. CASE b = n
    BY <1>5, <1>7, <2>1 DEF IsBlock
  <2>2. CASE b # n
    <3>1. b \in 1 .. Len(blocks) /\ blocks'[b] = blocks[b]
      BY <1>3, <1>7, <2>2
    <3> QED BY <1>1, <3>1 DEF IInv, FencesFilled
  <2> QED BY <2>1, <2>2
<1>12. CASE ty = "paragraph"
  <2>1. pc' = "idle" /\ current' = n
    BY <1>1, <1>4, <1>9, <1>12 DEF AfterChild
  <2>2. Chain(blocks', 1 .. Len(blocks'), current')
    <3>1. current = last_matched
      BY <1>2, <1>12 DEF Adding
    <3>2. K = 1 .. Len(blocks)
      BY <1>3, <3>1 DEF K, Kept
    <3>3. K \cup {n} = 1 .. Len(blocks')
      BY <1>3, <1>7, <3>2
    <3> QED BY <1>7, <2>1, <3>3
  <2>3. FencesFilled'
    BY <1>11, <1>12 DEF FencesFilled
  <2> QED BY ONLY <1>7, <1>10, <2>1, <2>2, <2>3 DEF IInv, Matching, Opened
<1>13. CASE ty # "paragraph"
  <2>1. /\ current' = current /\ pc' \in {"add", "text", "open"}
        /\ pc' = "add" => Len(adding) = 2
        /\ ty = "code_block" => pc' = "text"
    <3>1. CASE Len(adding) = 2
      <4>1. pc' = "add"
        BY <1>1, <3>1 DEF AfterChild
      <4> QED BY <1>1, <1>4, <1>13, <3>1, <4>1
    <3>2. CASE Len(adding) = 1
      <4>1. \/ pc' = "text"
            \/ pc' = "open" /\ ~accepts_lines(ty)
        BY <1>1, <1>4, <1>13, <3>2 DEF AfterChild
      <4> QED BY <1>1, <1>4, <1>13, <4>1 DEF accepts_lines
    <3> QED BY <1>4, <3>1, <3>2
  <2>2. FencesFilled'
    BY <1>9, <1>11, <2>1 DEF FencesFilled
  <2>3. pc' = "add" => Adding'
    <3> SUFFICES ASSUME pc' = "add"
                 PROVE  Adding'
      OBVIOUS
    <3>1. /\ Len(adding') = 1 /\ adding'[1].type = "item" /\ IsBlock(adding'[1])
          /\ adding'[1].open
      BY <1>4, <2>1
    <3>2. type(container)' = "list"
      BY <1>4, <1>5, <1>7, <1>9, <2>1 DEF type
    <3>3. \A i \in 1 .. Len(adding') : IsBlock(adding'[i]) /\ adding'[i].open
      BY <3>1
    <3> QED BY ONLY <1>4, <3>1, <3>2, <3>3 DEF Adding
  <2>4. /\ Chain(blocks', Kept(blocks', last_matched', current'), container')
        /\ Hanging(blocks', last_matched', current') /\ container' # last_matched'
    BY <1>1, <1>7, <1>8, <1>9, <2>1
  <2> QED BY ONLY <1>7, <1>10, <2>1, <2>2, <2>3, <2>4 DEF IInv, Matching, Opened
<1> QED BY <1>12, <1>13

LEMMA LazyLineAdded ==
    ASSUME IInv, LazyLine
    PROVE  IInv'
<1>1. /\ pc = "text" /\ pc' = "idle" /\ current # last_matched /\ container = last_matched
      /\ blocks' = WithLine(Marked, current, indent) /\ current' = current
      /\ asserted' = (asserted \/ ~blocks[current].open)
  BY DEF LazyLine, lazy
<1>2. /\ WellBuilt(blocks) /\ blocks[root].open /\ ~asserted
      /\ Chain(blocks, Kept(blocks, last_matched, current), last_matched)
      /\ Hanging(blocks, last_matched, current) /\ Joined(blocks, last_matched, current)
  BY <1>1 DEF IInv, Opened
<1>3. /\ blocks[current].open /\ current \in 1 .. Len(blocks)
      /\ root \in 1 .. Len(blocks) /\ last_matched \in 1 .. current
  BY <1>1, <1>2 DEF Hanging, WellBuilt
<1>4. Chain(blocks, 1 .. Len(blocks), current)
  BY <1>2, <1>3, ChainsJoin
<1>5. /\ Restyled(blocks, Marked)
      /\ \A b \in 1 .. Len(blocks) : Marked[b].content = blocks[b].content
  BY <1>2, MarkedRestyles
<1> DEFINE ms == Marked
<1>6. WellBuilt(ms) /\ Len(ms) = Len(blocks) /\ Chain(ms, 1 .. Len(blocks), current)
  BY <1>2, <1>4, <1>5, RestyledWellBuilt, RestyledChain DEF Restyled
<1> HIDE DEF ms
<1>7. /\ Restyled(ms, blocks') /\ blocks'[current].content # << >>
      /\ \A b \in 1 .. Len(ms) : b # current => blocks'[b] = ms[b]
  BY <1>1, <1>3, <1>6, LineRestyles DEF ms
<1>8. WellBuilt(blocks') /\ Len(blocks') = Len(blocks) /\ Chain(blocks', 1 .. Len(blocks'), current)
  BY <1>6, <1>7, RestyledWellBuilt, RestyledChain DEF Restyled
<1>9. blocks'[root].open
  <2>1. ms[root].open
    BY <1>2, <1>3, <1>5 DEF Restyled, ms
  <2> QED BY <1>3, <1>6, <1>7, <2>1 DEF Restyled
<1>10. FencesFilled'
  <2> SUFFICES ASSUME NEW b \in 1 .. Len(blocks), blocks'[b].open, blocks'[b].fenced,
                      blocks'[b].content = << >>
               PROVE  FALSE
    BY <1>8 DEF FencesFilled
  <2>1. b # current /\ blocks'[b] = ms[b]
    BY <1>6, <1>7
  <2>2. ms[b].open /\ ms[b].fenced /\ ms[b].content = << >>
    BY <2>1
  <2>3. blocks[b].open /\ blocks[b].fenced /\ blocks[b].content = << >>
    BY <1>5, <2>2 DEF Restyled, ms
  <2>4. b = container /\ b > current
    BY <2>3 DEF IInv, FencesFilled
  <2> QED BY <1>1, <1>3, <2>4
<1>11. ~asserted'
  BY <1>1, <1>2, <1>3
<1> QED BY ONLY <1>1, <1>8, <1>9, <1>10, <1>11 DEF IInv, Matching, Opened

LEMMA LineMarked ==
    ASSUME IInv, MarkLine
    PROVE  IInv'
<1>1. /\ pc = "text" /\ pc' = "close" /\ blocks' = Marked
      /\ current' = current /\ container' = container /\ last_matched' = last_matched
      /\ asserted' = asserted
  BY DEF MarkLine
<1> DEFINE K == Kept(blocks, last_matched, current)
<1>2. /\ WellBuilt(blocks) /\ blocks[root].open /\ ~asserted /\ Chain(blocks, K, container)
      /\ Hanging(blocks, last_matched, current) /\ root \in 1 .. Len(blocks)
  BY <1>1 DEF IInv, Opened, WellBuilt
<1>3. K \in SUBSET (1 .. Len(blocks))
  BY DEF Kept
<1> HIDE DEF K
<1>4. /\ Restyled(blocks, blocks')
      /\ \A b \in 1 .. Len(blocks) : blocks'[b].content = blocks[b].content
  BY <1>1, <1>2, MarkedRestyles
<1>5. /\ WellBuilt(blocks') /\ Chain(blocks', K, container) /\ Len(blocks') = Len(blocks)
      /\ Hanging(blocks', last_matched, current)
  BY <1>2, <1>3, <1>4, RestyledWellBuilt, RestyledChain, RestyledHanging DEF Restyled
<1>6. K = Kept(blocks', last_matched, current)
  BY <1>5 DEF K, Kept
<1>7. FencesFilled'
  BY <1>1, <1>4, <1>5 DEF IInv, FencesFilled, Restyled
<1>8. blocks'[root].open
  BY <1>2, <1>4 DEF Restyled
<1>9. /\ ~asserted' /\ Hanging(blocks', last_matched', current')
      /\ Chain(blocks', Kept(blocks', last_matched', current'), container')
  BY <1>1, <1>2, <1>5, <1>6
<1> QED BY ONLY <1>1, <1>5, <1>7, <1>8, <1>9 DEF IInv, Matching, Opened
LEMMA UnmatchedCloses ==
    ASSUME IInv, CloseUnmatched
    PROVE  IInv'
<1> DEFINE k == current
<1>1. /\ pc = "close" /\ pc' = "close" /\ current # last_matched /\ finalize(current)
      /\ current' = blocks[current].parent /\ container' = container
      /\ last_matched' = last_matched
  BY DEF CloseUnmatched
<1>2. /\ WellBuilt(blocks) /\ ~asserted /\ Hanging(blocks, last_matched, current)
      /\ Chain(blocks, Kept(blocks, last_matched, current), container)
  BY <1>1 DEF IInv, Opened
<1>3. /\ blocks[current].open /\ current \in 1 .. Len(blocks) /\ last_matched \in 1 .. current
      /\ current # root
  BY <1>1, <1>2 DEF Hanging, root
<1>4. blocks[current].fenced /\ blocks[current].content = << >> => FALSE
  BY <1>3 DEF IInv, FencesFilled
<1>5. /\ Finalized(blocks, blocks', current) /\ WellBuilt(blocks') /\ ~asserted'
      /\ Len(blocks') = Len(blocks) /\ blocks'[root].open
      /\ \A b \in 1 .. Len(blocks') :
            blocks'[b].open /\ blocks'[b].fenced /\ blocks'[b].content = << >> =>
                b = container /\ b > current
  BY <1>1, <1>3, <1>4, Finalizing
<1>6. /\ current' \in last_matched .. current - 1
      /\ Hanging(blocks', last_matched, current')
      /\ Chain(blocks', Kept(blocks', last_matched, current'), container)
  BY <1>1, <1>2, <1>5, HangingClosed
<1>7. FencesFilled'
  <2>1. \A b \in 1 .. Len(blocks') : b > current => b > current'
    BY <1>3, <1>5, <1>6
  <2> QED BY <1>1, <1>5, <2>1 DEF FencesFilled
<1>8. /\ Hanging(blocks', last_matched', current')
      /\ Chain(blocks', Kept(blocks', last_matched', current'), container')
  BY <1>1, <1>6
<1> QED BY ONLY <1>1, <1>5, <1>7, <1>8 DEF IInv, Matching, Opened

\* When the unmatched blocks are closed, all blocks are one chain.
LEMMA AllKept ==
    ASSUME IInv, Closing
    PROVE  /\ WellBuilt(blocks) /\ blocks[root].open /\ ~asserted /\ pc = "close"
           /\ current = last_matched /\ root \in 1 .. Len(blocks)
           /\ current \in 1 .. Len(blocks)
           /\ container \in 1 .. Len(blocks) /\ blocks[container].open
           /\ Chain(blocks, 1 .. Len(blocks), container)
<1>1. /\ WellBuilt(blocks) /\ blocks[root].open /\ ~asserted /\ pc = "close"
      /\ current = last_matched /\ Hanging(blocks, last_matched, current)
      /\ Chain(blocks, Kept(blocks, last_matched, current), container)
  BY DEF IInv, Opened, Closing
<1>2. current \in 1 .. Len(blocks) /\ root \in 1 .. Len(blocks)
  BY <1>1 DEF Hanging, WellBuilt
<1>3. Kept(blocks, last_matched, current) = 1 .. Len(blocks)
  BY <1>1, <1>2 DEF Kept
<1>4. Chain(blocks, 1 .. Len(blocks), container)
  BY <1>1, <1>3
<1>5. container \in 1 .. Len(blocks) /\ blocks[container].open
  BY <1>4 DEF Chain
<1> QED BY <1>1, <1>2, <1>4, <1>5

LEMMA LineAdded ==
    ASSUME IInv, AddLine
    PROVE  IInv'
<1>1. /\ Closing /\ current' = container /\ container' = container
      /\ pc' = IF EndsHTML(container) THEN "html_end" ELSE "idle"
      /\ \E lead : blocks' = WithLine(blocks, container, lead)
      /\ asserted' = (asserted \/ ~blocks[container].open)
  BY DEF AddLine
<1>2. /\ WellBuilt(blocks) /\ blocks[root].open /\ ~asserted /\ root \in 1 .. Len(blocks)
      /\ container \in 1 .. Len(blocks) /\ blocks[container].open
      /\ Chain(blocks, 1 .. Len(blocks), container)
  BY <1>1, AllKept
<1>3. /\ Restyled(blocks, blocks') /\ blocks'[container].content # << >>
      /\ \A b \in 1 .. Len(blocks) : b # container => blocks'[b] = blocks[b]
  BY <1>1, <1>2, LineRestyles
<1>4. /\ WellBuilt(blocks') /\ Len(blocks') = Len(blocks)
      /\ Chain(blocks', 1 .. Len(blocks'), current')
  BY <1>1, <1>2, <1>3, RestyledWellBuilt, RestyledChain DEF Restyled
<1>5. blocks'[root].open /\ ~asserted'
  BY <1>1, <1>2, <1>3 DEF Restyled
<1>6. FencesFilled'
  <2> SUFFICES ASSUME NEW b \in 1 .. Len(blocks), blocks'[b].open, blocks'[b].fenced,
                      blocks'[b].content = << >>
               PROVE  FALSE
    BY <1>4 DEF FencesFilled
  <2>1. b # container /\ blocks'[b] = blocks[b]
    BY <1>3
  <2>2. blocks[b].open /\ blocks[b].fenced /\ blocks[b].content = << >>
    BY <2>1
  <2> QED BY <2>1, <2>2 DEF IInv, FencesFilled
<1>7. pc' = "html_end" => container' = current' /\ current' # root
  <2>1. EndsHTML(container) => container # root
    BY <1>2 DEF EndsHTML, WellBuilt
  <2> QED BY <1>1, <2>1
<1>8. pc' \in {"idle", "html_end"}
  BY <1>1
<1> QED BY ONLY <1>4, <1>5, <1>6, <1>7, <1>8 DEF IInv, Matching, Opened

LEMMA NothingAdded ==
    ASSUME IInv, AddNothing
    PROVE  IInv'
<1>1. /\ Closing /\ current' = container /\ pc' = "idle" /\ ~TakesLine
      /\ blocks' = blocks /\ asserted' = asserted
  BY DEF AddNothing
<1>2. /\ WellBuilt(blocks) /\ blocks[root].open /\ ~asserted
      /\ Chain(blocks, 1 .. Len(blocks), container)
  BY <1>1, AllKept
<1>3. blocks[container].type # "code_block"
  BY <1>1 DEF TakesLine, type
<1>4. FencesFilled'
  <2> SUFFICES ASSUME NEW b \in 1 .. Len(blocks), blocks[b].open, blocks[b].fenced,
                      blocks[b].content = << >>
               PROVE  FALSE
    BY <1>1 DEF FencesFilled
  <2>1. b = container
    BY DEF IInv, FencesFilled
  <2>2. blocks[b].type = "code_block"
    BY <1>2 DEF WellBuilt, IsBlock
  <2> QED BY <1>3, <2>1, <2>2
<1>5. /\ WellBuilt(blocks') /\ blocks'[root].open /\ ~asserted'
      /\ Chain(blocks', 1 .. Len(blocks'), current')
  BY <1>1, <1>2
<1> QED BY ONLY <1>1, <1>4, <1>5 DEF IInv, Matching, Opened

LEMMA ParagraphAdded ==
    ASSUME IInv, AddParagraph
    PROVE  IInv'
<1> DEFINE e == [Block("paragraph") EXCEPT !.content = <<Entry(0)>>]
           new == <<e>>
<1>1. /\ Closing /\ pc' = "add" /\ ~TakesLine /\ adding' = new
      /\ blocks' = blocks /\ current' = current /\ container' = container
      /\ last_matched' = last_matched /\ asserted' = asserted
  BY DEF AddParagraph
<1>2. /\ WellBuilt(blocks) /\ blocks[root].open /\ ~asserted /\ current = last_matched
      /\ Chain(blocks, Kept(blocks, last_matched, current), container)
      /\ Hanging(blocks, last_matched, current)
  BY <1>1 DEF IInv, Opened, Closing
<1>3. blocks[container].type # "code_block"
  BY <1>1 DEF TakesLine, type
<1>4. FencesFilled'
  <2> SUFFICES ASSUME NEW b \in 1 .. Len(blocks), blocks[b].open, blocks[b].fenced,
                      blocks[b].content = << >>
               PROVE  FALSE
    BY <1>1 DEF FencesFilled
  <2>1. b = container
    BY DEF IInv, FencesFilled
  <2>2. blocks[b].type = "code_block"
    BY <1>2 DEF WellBuilt, IsBlock
  <2> QED BY <1>3, <2>1, <2>2
<1>5. IsBlock(e) /\ e.open = TRUE /\ e.type = "paragraph"
  BY DEF IsBlock, Fields, Block, IsSeq
<1> HIDE DEF e
<1>6. IsSeq(new) /\ Len(new) = 1 /\ new[1] = e
  BY DEF IsSeq
<1> HIDE DEF new
<1>7. Adding'
  <2>1. type(container)' = blocks[container].type
    BY <1>1 DEF type
  <2>2. \A i \in 1 .. Len(new) : IsBlock(new[i]) /\ new[i].open
    BY <1>5, <1>6
  <2> QED BY <1>1, <1>2, <1>3, <1>5, <1>6, <2>1, <2>2 DEF Adding
<1>8. /\ WellBuilt(blocks') /\ blocks'[root].open /\ ~asserted'
      /\ Chain(blocks', Kept(blocks', last_matched', current'), container')
      /\ Hanging(blocks', last_matched', current')
  BY <1>1, <1>2
<1> QED BY ONLY <1>1, <1>4, <1>7, <1>8 DEF IInv, Matching, Opened

\* An HTML block that its line ends, or the last block of the document but the root.
LEMMA CurrentCloses ==
    ASSUME IInv, pc \in {"html_end", "finish"}, current # root, finalize(current),
           current' = blocks[current].parent, pc' \in {"idle", "finish"}
    PROVE  IInv'
<1>1. WellBuilt(blocks) /\ Chain(blocks, 1 .. Len(blocks), current)
  BY DEF IInv, Matching
<1>2. current \in 1 .. Len(blocks) /\ blocks[current].open
  BY <1>1 DEF Chain
<1>3. blocks[current].fenced /\ blocks[current].content = << >> => FALSE
  BY <1>2 DEF IInv, FencesFilled
<1>4. /\ Finalized(blocks, blocks', current) /\ WellBuilt(blocks') /\ ~asserted'
      /\ Len(blocks') = Len(blocks) /\ blocks'[root].open
      /\ \A b \in 1 .. Len(blocks') :
            ~(blocks'[b].open /\ blocks'[b].fenced /\ blocks'[b].content = << >>)
  BY <1>2, <1>3, Finalizing
<1>5. Chain(blocks', 1 .. Len(blocks'), current')
  BY <1>1, <1>2, <1>4, TipClosed
<1>6. FencesFilled'
  BY <1>4 DEF FencesFilled
<1>7. pc' \in {"idle", "finish"}
  OBVIOUS
<1> QED BY ONLY <1>4, <1>5, <1>6, <1>7 DEF IInv, Matching, Opened

LEMMA DocumentFinishes ==
    ASSUME IInv, cmark_parser_finish \/ FinishBlock
    PROVE  IInv'
<1>1. CASE cmark_parser_finish
  <2>1. /\ pc = "idle" /\ pc' = "finish" /\ blocks' = blocks /\ current' = current
        /\ asserted' = asserted
    BY <1>1 DEF cmark_parser_finish
  <2>2. FencesFilled'
    BY <2>1 DEF IInv, FencesFilled
  <2>3. /\ WellBuilt(blocks') /\ blocks'[root].open /\ ~asserted'
        /\ Chain(blocks', 1 .. Len(blocks'), current')
    BY <2>1 DEF IInv, Matching
  <2> QED BY ONLY <2>1, <2>2, <2>3 DEF IInv, Matching, Opened
<1>2. CASE FinishBlock
  <2>1. /\ pc = "finish" /\ finalize(current)
        /\ current' = IF current = root THEN root ELSE blocks[current].parent
        /\ pc' = IF current = root THEN "done" ELSE "finish"
    BY <1>2 DEF FinishBlock
  <2>2. CASE current # root
    BY <2>1, <2>2, CurrentCloses
  <2>3. CASE current = root
    <3>1. WellBuilt(blocks) /\ Chain(blocks, 1 .. Len(blocks), current)
      BY <2>1 DEF IInv, Matching
    <3>2. current \in 1 .. Len(blocks) /\ blocks[current].open
      BY <3>1 DEF Chain
    <3>3. blocks[current].fenced /\ blocks[current].content = << >> => FALSE
      BY <3>2, <2>1 DEF IInv, FencesFilled
    <3>4. /\ WellBuilt(blocks') /\ ~asserted'
          /\ \A b \in 1 .. Len(blocks') :
                ~(blocks'[b].open /\ blocks'[b].fenced /\ blocks'[b].content = << >>)
      BY <2>1, <3>2, <3>3, Finalizing
    <3>5. FencesFilled'
      BY <3>4 DEF FencesFilled
    <3>6. pc' = "done" /\ current' # NULL
      BY <2>1, <2>3 DEF root, NULL
    <3> QED BY ONLY <3>4, <3>5, <3>6 DEF IInv, Matching, Opened
  <2> QED BY <2>2, <2>3
<1> QED BY <1>1, <1>2

LEMMA Preserved ==
    ASSUME IInv, [Next]_vars
    PROVE  IInv'
<1>1. CASE UNCHANGED vars
  <2>1. /\ pc' = pc /\ blocks' = blocks /\ current' = current /\ container' = container
        /\ last_matched' = last_matched /\ adding' = adding /\ asserted' = asserted
    BY <1>1 DEF vars
  <2>2. FencesFilled' <=> FencesFilled
    BY <2>1 DEF FencesFilled
  <2>3. Adding' <=> Adding
    <3>1. type(container)' = type(container)
      BY <2>1 DEF type
    <3> QED BY <2>1, <3>1 DEF Adding
  <2>4. (Matching' <=> Matching) /\ (Opened' <=> Opened)
    BY <2>1 DEF Matching, Opened
  <2> QED BY <2>1, <2>2, <2>3, <2>4 DEF IInv
<1>2. CASE \E l \in UNION {d.of : d \in Documents} : S_process_line(l)
  BY <1>2, LineStarts
<1>3. CASE CheckNext \/ CheckDone \/ CheckFence
  BY <1>3, NextMatches, MatchingEnds, FenceCloses
<1>4. CASE \/ OpenQuote \/ OpenHeading \/ OpenFence \/ OpenHTML \/ OpenBreak \/ OpenFootnote
           \/ OpenList \/ OpenCode
  BY <1>4, LineOpens
<1>5. CASE OpenSetext \/ OpenNothing
  BY <1>5, SetextHeading, NothingOpens
<1>6. CASE BackUp \/ add_child
  BY <1>6, BacksUp, ChildAdded
<1>7. CASE LazyLine \/ MarkLine \/ CloseUnmatched
  BY <1>7, LazyLineAdded, LineMarked, UnmatchedCloses
<1>8. CASE AddLine \/ AddNothing \/ AddParagraph
  BY <1>8, LineAdded, NothingAdded, ParagraphAdded
<1>9. CASE CloseHTML
  <2>1. /\ pc = "html_end" /\ finalize(container) /\ current' = blocks[container].parent
        /\ pc' = "idle"
    BY <1>9 DEF CloseHTML
  <2>2. container = current /\ current # root
    BY <2>1 DEF IInv
  <2> QED BY <2>1, <2>2, CurrentCloses
<1>10. CASE cmark_parser_finish \/ FinishBlock
  BY <1>10, DocumentFinishes
<1>11. CASE Finished
  BY <1>1, <1>11 DEF Finished
<1> QED BY <1>1, <1>2, <1>3, <1>4, <1>5, <1>6, <1>7, <1>8, <1>9, <1>10, <1>11 DEF Next, InLine

\* Between the lines the open blocks are what check_open_blocks will find, the root and
\* what follows it by last children to current, and no assertion of finalize or add_line
\* has failed.
THEOREM BlocksSpine == Spec => []OpenSpine
<1>1. IInv => OpenSpine
  <2> SUFFICES ASSUME IInv
               PROVE  OpenSpine
    OBVIOUS
  <2>1. ~asserted /\ WellBuilt(blocks)
    BY DEF IInv
  <2>2. current # NULL
    BY DEF IInv, Matching, Opened, Chain, Hanging, NULL
  <2>3. ASSUME pc = "idle"
        PROVE  /\ blocks[current].open
               /\ \A b \in 1 .. Len(blocks) : blocks[b].open =>
                    /\ blocks[b].parent # current
                    /\ b # root => /\ blocks[blocks[b].parent].open
                                   /\ b = last_child(blocks, blocks[b].parent)
    <3>1. Chain(blocks, 1 .. Len(blocks), current)
      BY <2>3 DEF IInv, Matching
    <3>2. blocks[current].open /\ current \in 1 .. Len(blocks) /\ Len(blocks) \in Nat
      BY <2>1, <3>1, WellBuiltFields DEF Chain
    <3>3. ASSUME NEW b \in 1 .. Len(blocks), blocks[b].open
          PROVE  /\ blocks[b].parent # current
                 /\ b # root => /\ blocks[blocks[b].parent].open
                                /\ b = last_child(blocks, blocks[b].parent)
      <4>1. b <= current
        BY <3>1, <3>3 DEF Chain
      <4>2. CASE b = root
        BY <2>1, <2>2, <4>2 DEF WellBuilt
      <4>3. CASE b # root
        <5>1. /\ blocks[b].parent \in 1 .. b - 1 /\ blocks[blocks[b].parent].open
              /\ LastChild(blocks, b) /\ blocks[b].type # "freed"
          BY <2>1, <3>1, <3>3, <4>3 DEF Chain, WellBuilt, IsBlock
        <5> DEFINE p == blocks[b].parent
        <5>2. b \in Children(blocks, p) /\ \A c \in Children(blocks, p) : c <= b
          BY <5>1 DEF Children, LastChild
        <5>3. last_child(blocks, p) # NULL
          <6>1. Children(blocks, p) # {} /\ Children(blocks, p) \in SUBSET (1 .. Len(blocks))
            BY <5>2 DEF Children
          <6>2. Largest(Children(blocks, p)) \in 1 .. Len(blocks)
            BY <3>2, <6>1, LargestIsLargest
          <6> QED BY <6>1, <6>2 DEF last_child, NULL
        <5>4. /\ last_child(blocks, p) \in Children(blocks, p)
              /\ b <= last_child(blocks, p)
          BY <2>1, <5>2, <5>3, WellBuiltFields, ChildrenBound
        <5>5. last_child(blocks, p) \in Nat /\ last_child(blocks, p) <= b
          BY <5>2, <5>4 DEF Children
        <5>6. b = last_child(blocks, p)
          BY <5>4, <5>5
        <5> QED BY <3>2, <4>1, <5>1, <5>6
      <4> QED BY <4>2, <4>3
    <3> QED BY <3>2, <3>3
  <2> QED BY <2>1, <2>2, <2>3 DEF OpenSpine
<1>2. Init => IInv
  BY Initially
<1>3. IInv /\ [Next]_vars => IInv'
  BY Preserved
<1> QED BY <1>1, <1>2, <1>3, PTL DEF Spec
-----------------------------------------------------------------------------
(* Closed for good *)

\* What Ancestors(bs, _) is: all numbers that every set with k and the parents of its own
\* has.
Lifted(bs, S) == \A j \in S : bs[j].parent # NULL => bs[j].parent \in S

Above(bs, k) ==
    {j \in 1 .. Len(bs) : \A S \in SUBSET (1 .. Len(bs)) :
        Lifted(bs, S) /\ (k # NULL => k \in S) => j \in S}

UpOf(bs, up) ==
    up = [k \in 0 .. Len(bs) |-> IF k = NULL THEN {} ELSE {k} \cup up[bs[k].parent]]

LEMMA AboveStep ==
    ASSUME NEW bs, WellBuilt(bs)
    PROVE  UpOf(bs, [k \in 0 .. Len(bs) |-> Above(bs, k)])
<1> DEFINE N == 1 .. Len(bs)
           up == [k \in 0 .. Len(bs) |-> Above(bs, k)]
<1>1. \A k \in N : bs[k].parent \in 0 .. Len(bs) /\ (bs[k].parent = NULL \/ bs[k].parent \in N)
  BY WellBuiltFields DEF WellBuilt, NULL, root
<1>2. Above(bs, NULL) = {}
  <2>1. Lifted(bs, {}) /\ {} \in SUBSET N
    BY DEF Lifted
  <2> QED BY <2>1 DEF Above
<1>3. ASSUME NEW k \in N
      PROVE  Above(bs, k) = {k} \cup Above(bs, bs[k].parent)
  <2> DEFINE p == bs[k].parent
  <2>1. k # NULL
    BY DEF NULL
  <2>2. ASSUME NEW j \in Above(bs, k), j # k
        PROVE  j \in Above(bs, p)
    <3>1. j \in N
      BY <2>2 DEF Above
    <3>2. ASSUME NEW S \in SUBSET N, Lifted(bs, S), p # NULL => p \in S
          PROVE  j \in S
      <4>1. Lifted(bs, S \cup {k}) /\ S \cup {k} \in SUBSET N
        BY <3>2 DEF Lifted
      <4>2. j \in S \cup {k}
        BY <2>2, <4>1 DEF Above
      <4> QED BY <2>2, <4>2
    <3> QED BY <3>1, <3>2 DEF Above
  <2>3. k \in Above(bs, k)
    BY <2>1 DEF Above
  <2>4. ASSUME NEW j \in Above(bs, p)
        PROVE  j \in Above(bs, k)
    <3>1. j \in N
      BY <2>4 DEF Above
    <3>2. ASSUME NEW S \in SUBSET N, Lifted(bs, S), k \in S
          PROVE  j \in S
      <4>1. p # NULL => p \in S
        BY <3>2 DEF Lifted
      <4> QED BY <2>4, <3>2, <4>1 DEF Above
    <3> QED BY <2>1, <3>1, <3>2 DEF Above
  <2> QED BY <2>2, <2>3, <2>4
<1>4. up = [k \in 0 .. Len(bs) |-> IF k = NULL THEN {} ELSE {k} \cup up[bs[k].parent]]
  <2>1. ASSUME NEW k \in 0 .. Len(bs)
        PROVE  up[k] = IF k = NULL THEN {} ELSE {k} \cup up[bs[k].parent]
    <3>1. CASE k = NULL
      BY <1>2, <3>1
    <3>2. CASE k # NULL
      <4>1. k \in N
        BY <3>2, WellBuiltFields DEF NULL
      <4> QED BY <1>1, <1>3, <3>2, <4>1
    <3> QED BY <3>1, <3>2
  <2> HIDE DEF up
  <2>2. up = [k \in 0 .. Len(bs) |-> up[k]]
    BY DEF up
  <2> QED BY <2>1, <2>2
<1> QED BY <1>4 DEF UpOf

\* A block's ancestors are itself and those of its parent.
LEMMA AncestorsStep ==
    ASSUME NEW bs, WellBuilt(bs)
    PROVE  /\ Ancestors(bs, NULL) = {}
           /\ \A k \in 1 .. Len(bs) : Ancestors(bs, k) = {k} \cup Ancestors(bs, bs[k].parent)
<1> DEFINE up == CHOOSE f : UpOf(bs, f)
<1>1. \A k : Ancestors(bs, k) = up[k]
  BY DEF Ancestors, UpOf
<1>2. UpOf(bs, up)
  BY AboveStep
<1> HIDE DEF up
<1>3. Len(bs) \in Nat /\ \A k \in 1 .. Len(bs) : k # NULL /\ k \in 0 .. Len(bs)
  BY WellBuiltFields DEF NULL
<1>4. \A k \in 0 .. Len(bs) : up[k] = IF k = NULL THEN {} ELSE {k} \cup up[bs[k].parent]
  BY <1>2 DEF UpOf
<1>5. NULL \in 0 .. Len(bs)
  BY <1>3 DEF NULL
<1> QED BY <1>1, <1>3, <1>4, <1>5
\* What an open block of a chain is in is open.
LEMMA AncestorsOpen ==
    ASSUME NEW bs, WellBuilt(bs), NEW A \in SUBSET (1 .. Len(bs)), NEW tip, Chain(bs, A, tip),
           NEW k \in A, bs[k].open
    PROVE  \A a \in Ancestors(bs, k) : bs[a].open
<1> DEFINE Bad == {b \in A : bs[b].open /\ ~\A a \in Ancestors(bs, b) : bs[a].open}
<1>1. \A b \in Bad : b \in A /\ b \in 1 .. Len(bs) /\ b \in Nat /\ bs[b].open
  OBVIOUS
<1>2. ASSUME NEW m \in Bad, \A b \in Bad : m <= b
      PROVE  FALSE
  <2> DEFINE p == bs[m].parent
  <2>1. m \in A /\ m \in 1 .. Len(bs) /\ bs[m].open
    BY <1>1
  <2>2. Ancestors(bs, m) = {m} \cup Ancestors(bs, p) /\ Ancestors(bs, NULL) = {}
    BY <2>1, AncestorsStep
  <2>3. CASE m = root
    <3>1. p = NULL
      BY <2>3 DEF WellBuilt
    <3> QED BY <2>1, <2>2, <3>1
  <2>4. CASE m # root
    <3>1. p \in A /\ bs[p].open /\ p \in 1 .. m - 1
      BY <2>1, <2>4 DEF Chain, WellBuilt
    <3>2. p \notin Bad
      <4>1. ~(m <= p)
        BY <2>1, <3>1
      <4> HIDE DEF Bad
      <4> QED BY <1>2, <4>1
    <3>3. \A a \in Ancestors(bs, p) : bs[a].open
      BY <3>1, <3>2
    <3> QED BY <2>1, <2>2, <3>3
  <2> QED BY <2>3, <2>4
<1>3. Bad = {}
  <2> HIDE DEF Bad
  <2>1. Bad \in SUBSET Nat
    BY <1>1
  <2> QED BY <1>2, <2>1, LeastNat
<1> QED BY <1>3

LEMMA FinalizedShrinks ==
    ASSUME WellBuilt(blocks), NEW k \in 1 .. Len(blocks), finalize(k)
    PROVE  /\ Len(blocks') = Len(blocks)
           /\ \A b \in 1 .. Len(blocks) : Len(blocks'[b].content) <= Len(blocks[b].content)
<1>1. Finalized(blocks, blocks', k)
  BY ClosedFinalizes DEF finalize
<1> QED BY <1>1 DEF Finalized

\* A step makes no block, and adds to the content of none.
Shrinks ==
    /\ Len(blocks') = Len(blocks)
    /\ \A b \in 1 .. Len(blocks) : Len(blocks'[b].content) <= Len(blocks[b].content)

\* A step makes no block, and adds only to k, in open blocks only.
AddsTo(k) ==
    /\ Len(blocks') = Len(blocks)
    /\ \A b \in 1 .. Len(blocks) :
          b # k => Len(blocks'[b].content) <= Len(blocks[b].content)
    /\ \A a \in Ancestors(blocks, k) : blocks[a].open

\* A step makes one block, in open blocks only.
Makes ==
    /\ Len(blocks') = Len(blocks) + 1
    /\ \A b \in 1 .. Len(blocks) : blocks'[b] = blocks[b]
    /\ \A a \in Ancestors(blocks, blocks'[Len(blocks')].parent) : blocks[a].open

LEMMA StepsAddToOpen ==
    ASSUME IInv, Next
    PROVE  Shrinks \/ (\E k : AddsTo(k)) \/ Makes
<1>1. WellBuilt(blocks) /\ Len(blocks) \in Nat
      /\ \A b \in 1 .. Len(blocks) : Len(blocks[b].content) \in Nat
  BY WellBuiltFields DEF IInv
<1> DEFINE K == Kept(blocks, last_matched, current)
<1>2. pc \in {"open", "add", "text", "close"} =>
          /\ Chain(blocks, K, container) /\ K \in SUBSET (1 .. Len(blocks))
          /\ container \in K /\ container \in 1 .. Len(blocks) /\ blocks[container].open
          /\ current \in 1 .. Len(blocks)
  BY DEF IInv, Opened, Chain, Kept, Hanging
<1>3. pc \in {"idle", "check", "html_end", "finish"} =>
          Chain(blocks, 1 .. Len(blocks), current) /\ current \in 1 .. Len(blocks)
  BY DEF IInv, Matching, Chain
<1> HIDE DEF K
<1>4. ASSUME blocks' = blocks
      PROVE  Shrinks
  BY <1>1, <1>4 DEF Shrinks
<1>5. ASSUME NEW k \in 1 .. Len(blocks), finalize(k)
      PROVE  Shrinks
  BY <1>1, <1>5, FinalizedShrinks DEF Shrinks
<1>6. CASE \E l \in UNION {d.of : d \in Documents} : S_process_line(l)
  BY <1>4, <1>6 DEF S_process_line
<1>7. CASE CheckNext \/ CheckDone
  BY <1>4, <1>7 DEF CheckNext, CheckDone
<1>8. CASE CheckFence
  <2> DEFINE c == last_child(blocks, container)
  <2>1. next_open # NULL /\ finalize(next_open)
    BY <1>8 DEF CheckFence
  <2>2. c # NULL /\ next_open = c
    BY <2>1 DEF next_open
  <2>3. c \in Children(blocks, container)
    BY <1>1, <2>2, WellBuiltFields, ChildrenBound
  <2>4. next_open \in 1 .. Len(blocks)
    BY <2>2, <2>3 DEF Children
  <2> QED BY <1>5, <2>1, <2>4
<1>9. CASE \/ OpenQuote \/ OpenHeading \/ OpenFence \/ OpenHTML \/ OpenBreak \/ OpenFootnote
           \/ OpenList \/ OpenCode
  <2>1. \E what, new, r, b : Open(what, new, r, b)
    BY <1>9 DEF OpenQuote, OpenHeading, OpenFence, OpenHTML, OpenBreak, OpenFootnote,
                OpenList, OpenCode
  <2>2. blocks' = blocks
    BY <2>1 DEF Open
  <2> QED BY <1>4, <2>2
<1>10. CASE OpenSetext
  <2>1. pc = "open" /\ Opening = "setext" /\ blocks' = Setext(container)
    BY <1>10 DEF OpenSetext, Setext
  <2>2. blocks[container].type = "paragraph"
    BY <2>1 DEF Opening, type
  <2>3. /\ Restyled(blocks, blocks')
        /\ Len(blocks'[container].content) <= Len(blocks[container].content)
        /\ \A b \in 1 .. Len(blocks) : b # container => blocks'[b] = blocks[b]
    BY <1>1, <1>2, <2>1, <2>2, SetextRestyles
  <2>4. ASSUME NEW b \in 1 .. Len(blocks)
        PROVE  Len(blocks'[b].content) <= Len(blocks[b].content)
    <3>1. CASE b = container
      BY <2>3, <3>1
    <3>2. CASE b # container
      BY <1>1, <2>3, <3>2
    <3> QED BY <3>1, <3>2
  <2> QED BY <2>3, <2>4 DEF Shrinks, Restyled
<1>11. CASE OpenNothing \/ AddNothing \/ AddParagraph \/ cmark_parser_finish \/ Finished
  <2>1. blocks' = blocks
    BY <1>11 DEF OpenNothing, AddNothing, AddParagraph, cmark_parser_finish, Finished, vars
  <2> QED BY <1>4, <2>1
<1>12. CASE BackUp
  BY <1>2, <1>5, <1>12 DEF BackUp
<1>13. CASE add_child
  <2> DEFINE e == [Head(adding) EXCEPT !.parent = container]
  <2>1. pc = "add" /\ blocks' = Append(blocks, e) /\ Adding
    BY <1>13 DEF add_child, IInv
  <2>2. e.parent = container
    <3>1. Head(adding) = adding[1] /\ IsBlock(adding[1])
      BY <2>1, HeadIsFirst DEF Adding
    <3> QED BY <3>1 DEF IsBlock, Fields
  <2> HIDE DEF e
  <2>3. /\ Len(blocks') = Len(blocks) + 1 /\ blocks'[Len(blocks) + 1] = e
        /\ \A b \in 1 .. Len(blocks) : blocks'[b] = blocks[b]
    BY <1>1, <2>1, WellBuiltFields, Appended
  <2>4. \A a \in Ancestors(blocks, container) : blocks[a].open
    BY <1>1, <1>2, <2>1, AncestorsOpen
  <2> QED BY <2>2, <2>3, <2>4 DEF Makes
<1>14. CASE LazyLine
  <2>1. /\ pc = "text" /\ current # last_matched /\ container = last_matched
        /\ blocks' = WithLine(Marked, current, indent)
    BY <1>14 DEF LazyLine, lazy
  <2>2. /\ Chain(blocks, Kept(blocks, last_matched, current), last_matched)
        /\ Hanging(blocks, last_matched, current) /\ Joined(blocks, last_matched, current)
        /\ blocks[current].open
    BY <2>1 DEF IInv, Opened, Hanging
  <2>3. Chain(blocks, 1 .. Len(blocks), current)
    BY <1>1, <2>2, ChainsJoin
  <2>4. \A a \in Ancestors(blocks, current) : blocks[a].open
    BY <1>1, <1>2, <2>1, <2>2, <2>3, AncestorsOpen
  <2> DEFINE ms == Marked
  <2>5. /\ Restyled(blocks, ms) /\ WellBuilt(ms) /\ Len(ms) = Len(blocks)
        /\ \A b \in 1 .. Len(blocks) : ms[b].content = blocks[b].content
    BY <1>1, MarkedRestyles, RestyledWellBuilt DEF Restyled
  <2> HIDE DEF ms
  <2>6. /\ Restyled(ms, blocks')
        /\ \A b \in 1 .. Len(ms) : b # current => blocks'[b] = ms[b]
    BY <1>2, <2>1, <2>5, LineRestyles DEF ms
  <2>7. \A b \in 1 .. Len(blocks) : b # current => blocks'[b].content = blocks[b].content
    BY <2>5, <2>6
  <2>8. AddsTo(current)
    BY <1>1, <2>4, <2>5, <2>6, <2>7 DEF AddsTo, Restyled
  <2> QED BY <2>8
<1>15. CASE MarkLine
  <2>1. blocks' = Marked
    BY <1>15 DEF MarkLine
  <2> QED BY <1>1, <2>1, MarkedRestyles DEF Shrinks, Restyled
<1>16. CASE CloseUnmatched
  BY <1>2, <1>5, <1>16 DEF CloseUnmatched
<1>17. CASE AddLine
  <2>1. pc = "close" /\ \E lead : blocks' = WithLine(blocks, container, lead)
    BY <1>17 DEF AddLine, Closing
  <2>2. /\ Restyled(blocks, blocks')
        /\ \A b \in 1 .. Len(blocks) : b # container => blocks'[b] = blocks[b]
    BY <1>1, <1>2, <2>1, LineRestyles
  <2>3. \A a \in Ancestors(blocks, container) : blocks[a].open
    BY <1>1, <1>2, <2>1, AncestorsOpen
  <2>4. AddsTo(container)
    BY <1>1, <2>2, <2>3 DEF AddsTo, Restyled
  <2> QED BY <2>4
<1>18. CASE CloseHTML
  <2>1. pc = "html_end" /\ finalize(container) /\ container = current
    BY <1>18 DEF CloseHTML, IInv
  <2> QED BY <1>3, <1>5, <2>1
<1>19. CASE FinishBlock
  BY <1>3, <1>5, <1>19 DEF FinishBlock
<1> QED BY <1>6, <1>7, <1>8, <1>9, <1>10, <1>11, <1>12, <1>13, <1>14, <1>15, <1>16, <1>17,
           <1>18, <1>19 DEF Next, InLine

\* add_line and add_child, which do not look above the block they are given, reach no
\* block that is in a closed one.
THEOREM BlocksClosed == Spec => ClosedForGood
<1> DEFINE OnlyOpen ==
        \A b \in 1 .. Len(blocks') :
          /\ b <= Len(blocks) /\ Len(blocks'[b].content) > Len(blocks[b].content) =>
               \A a \in Ancestors(blocks, b) : blocks[a].open
          /\ b > Len(blocks) =>
               \A a \in Ancestors(blocks, blocks'[b].parent) : blocks[a].open
<1>1. ASSUME IInv, Next
      PROVE  OnlyOpen
  <2> SUFFICES ASSUME NEW b \in 1 .. Len(blocks')
               PROVE  /\ b <= Len(blocks) /\ Len(blocks'[b].content) > Len(blocks[b].content) =>
                            \A a \in Ancestors(blocks, b) : blocks[a].open
                      /\ b > Len(blocks) =>
                            \A a \in Ancestors(blocks, blocks'[b].parent) : blocks[a].open
    OBVIOUS
  <2>1. WellBuilt(blocks) /\ WellBuilt(blocks')
    BY <1>1, Preserved DEF IInv
  <2>2. /\ Len(blocks) \in Nat /\ Len(blocks') \in Nat
        /\ \A c \in 1 .. Len(blocks) : Len(blocks[c].content) \in Nat
        /\ \A c \in 1 .. Len(blocks') : Len(blocks'[c].content) \in Nat
    BY <2>1, WellBuiltFields
  <2>3. CASE Shrinks
    BY <2>2, <2>3 DEF Shrinks
  <2>4. ASSUME NEW k, AddsTo(k)
        PROVE  /\ b <= Len(blocks) /\ Len(blocks'[b].content) > Len(blocks[b].content) =>
                     \A a \in Ancestors(blocks, b) : blocks[a].open
               /\ ~(b > Len(blocks))
    BY <2>2, <2>4 DEF AddsTo
  <2>5. CASE Makes
    BY <2>2, <2>5 DEF Makes
  <2> QED BY <1>1, <2>3, <2>4, <2>5, StepsAddToOpen
<1>2. Init => IInv
  BY Initially
<1>3. IInv /\ [Next]_vars => IInv'
  BY Preserved
<1>4. IInv /\ [Next]_vars => [OnlyOpen]_vars
  BY <1>1
<1> QED BY <1>2, <1>3, <1>4, PTL DEF Spec, ClosedForGood

-----------------------------------------------------------------------------
(* Where the text of the lines is *)

\* Line k is in the content of a block.
Held(bs, k) ==
    \E b \in 1 .. Len(bs) : \E i \in 1 .. Len(bs[b].content) : bs[b].content[i].line = k

\* Line k was taken as a reference definition.
Taken(rm, k) == \E r \in 1 .. Len(rm) : rm[r] = k

Distinct(s) == \A i, j \in 1 .. Len(s) : i # j => s[i] # s[j]

Sorted(bs) ==
    \A b, c \in 1 .. Len(bs) :
        \A i \in 1 .. Len(bs[b].content), j \in 1 .. Len(bs[c].content) :
            b < c \/ (b = c /\ i < j) => bs[b].content[i].line < bs[c].content[j].line

\* The text of the first n of the lines ls is in the blocks, or was taken, and once.
Written(ls, bs, rm, n) ==
    /\ IsSeq(rm) /\ Distinct(rm) /\ Sorted(bs)
    /\ \A b \in 1 .. Len(bs) : bs[b].type = "freed" => bs[b].content = << >>
    /\ \A k : Held(bs, k) => k \in 1 .. n /\ ~Taken(rm, k)
    /\ \A k : Taken(rm, k) => k \in 1 .. n
    /\ \A k \in 1 .. n : ls[k].body \in TextBodies => Held(bs, k) \/ Taken(rm, k)

\* The contents are the same, but that o entries went from the start of that of k, and
\* some from its end.
Cut(bs, cs, k, o) ==
    /\ Len(cs) = Len(bs) /\ k \in 1 .. Len(bs) /\ o \in Nat
    /\ \A b \in 1 .. Len(bs) : Len(bs[b].content) \in Nat /\ Len(cs[b].content) \in Nat
    /\ o + Len(cs[k].content) <= Len(bs[k].content)
    /\ \A i \in 1 .. Len(cs[k].content) : cs[k].content[i] = bs[k].content[o + i]
    /\ \A b \in 1 .. Len(bs) : b # k => cs[b].content = bs[b].content
    /\ \A b \in 1 .. Len(bs) :
          cs[b].type = "freed" => (b # k /\ bs[b].type = "freed") \/ cs[b].content = << >>

\* What went is no text, or was taken, and nothing else was.
Accounted(ls, bs, cs, k, o, rm, rn) ==
    /\ IsSeq(rn) /\ Distinct(rn)
    /\ \A l : Taken(rm, l) => Taken(rn, l)
    /\ \A l : Taken(rn, l) =>
          Taken(rm, l) \/ \E i \in 1 .. o : i <= Len(bs[k].content) /\ bs[k].content[i].line = l
    /\ \A i \in 1 .. Len(bs[k].content) :
          i <= o \/ o + Len(cs[k].content) < i =>
              Taken(rn, bs[k].content[i].line) \/ ls[bs[k].content[i].line].body \notin TextBodies

\* The lines that are left are as they were, and in their order.
LEMMA CutKeepsOrder ==
    ASSUME NEW bs, NEW cs, NEW k, NEW o, Cut(bs, cs, k, o), Sorted(bs),
           \A l : Held(bs, l) => l \in Int
    PROVE  /\ Sorted(cs)
           /\ \A l : Held(cs, l) => Held(bs, l)
           /\ \A l : Held(bs, l) => Held(cs, l) \/ \E i \in 1 .. Len(bs[k].content) :
                 (i <= o \/ o + Len(cs[k].content) < i) /\ bs[k].content[i].line = l
           /\ \A i \in 1 .. o : i <= Len(bs[k].content) => ~Held(cs, bs[k].content[i].line)
<1> DEFINE from(b, j) == IF b = k THEN o + j ELSE j
           old(b) == Len(bs[b].content)
           new(b) == Len(cs[b].content)
           was(b, i) == bs[b].content[i].line
           is(b, i) == cs[b].content[i].line
<1>1. /\ Len(cs) = Len(bs) /\ k \in 1 .. Len(bs) /\ o \in Nat
      /\ \A b \in 1 .. Len(bs) : old(b) \in Nat /\ new(b) \in Nat
      /\ o + new(k) <= old(k)
      /\ \A i \in 1 .. new(k) : is(k, i) = was(k, o + i)
      /\ \A b \in 1 .. Len(bs) : b # k =>
            new(b) = old(b) /\ \A i \in 1 .. new(b) : is(b, i) = was(b, i)
  BY DEF Cut
<1>2. \A b, c \in 1 .. Len(bs) : \A i \in 1 .. old(b), j \in 1 .. old(c) :
          b < c \/ (b = c /\ i < j) => was(b, i) < was(c, j)
  BY DEF Sorted
<1> HIDE DEF old, new, was, is
<1>3. ASSUME NEW b \in 1 .. Len(bs), NEW j \in 1 .. new(b)
      PROVE  from(b, j) \in 1 .. old(b) /\ is(b, j) = was(b, from(b, j))
  <2>1. CASE b = k
    BY <1>1, <2>1
  <2>2. CASE b # k
    BY <1>1, <2>2
  <2> QED BY <2>1, <2>2
<1>4. ASSUME NEW b \in 1 .. Len(bs), NEW c \in 1 .. Len(bs), NEW i \in 1 .. new(b),
             NEW j \in 1 .. new(c), b < c \/ (b = c /\ i < j)
      PROVE  is(b, i) < is(c, j)
  <2>1. b = c /\ i < j => from(b, i) < from(c, j)
    BY <1>1
  <2>2. /\ from(b, i) \in 1 .. old(b) /\ is(b, i) = was(b, from(b, i))
        /\ from(c, j) \in 1 .. old(c) /\ is(c, j) = was(c, from(c, j))
    BY <1>3
  <2> HIDE DEF from
  <2> QED BY <1>2, <1>4, <2>1, <2>2
<1>5. Sorted(cs)
  BY <1>1, <1>4 DEF Sorted, is, new
<1>6. \A l : Held(bs, l) <=> \E b \in 1 .. Len(bs) : \E i \in 1 .. old(b) : was(b, i) = l
  BY DEF Held, old, was
<1>7. \A l : Held(cs, l) <=> \E b \in 1 .. Len(bs) : \E i \in 1 .. new(b) : is(b, i) = l
  BY <1>1 DEF Held, new, is
<1>8. ASSUME NEW l, Held(cs, l)
      PROVE  Held(bs, l)
  BY <1>3, <1>6, <1>7, <1>8
<1>9. ASSUME NEW l, Held(bs, l), ~Held(cs, l)
      PROVE  \E i \in 1 .. old(k) : (i <= o \/ o + new(k) < i) /\ was(k, i) = l
  <2>0. PICK b \in 1 .. Len(bs) : \E i \in 1 .. old(b) : was(b, i) = l
    BY <1>6, <1>9
  <2>1. PICK i \in 1 .. old(b) : was(b, i) = l
    BY <2>0
  <2>2. b = k
    BY <1>1, <1>7, <1>9, <2>1
  <2>3. ASSUME o < i, i <= o + new(k)
        PROVE  FALSE
    <3>1. i - o \in 1 .. new(k) /\ o + (i - o) = i
      BY <1>1, <2>2, <2>3
    <3>2. is(k, i - o) = l
      BY <1>1, <2>1, <2>2, <3>1
    <3> QED BY <1>1, <1>7, <1>9, <3>1, <3>2
  <2>4. i <= o \/ o + new(k) < i
    BY <1>1, <2>2, <2>3
  <2> QED BY <2>1, <2>2, <2>4
<1>10. ASSUME NEW i \in 1 .. o, i <= old(k), Held(cs, was(k, i))
       PROVE  FALSE
  <2>0. PICK b \in 1 .. Len(bs) : \E j \in 1 .. new(b) : is(b, j) = was(k, i)
    BY <1>7, <1>10
  <2>1. PICK j \in 1 .. new(b) : is(b, j) = was(k, i)
    BY <2>0
  <2>2. i \in 1 .. old(k)
    BY <1>1, <1>10
  <2>3. from(b, j) \in 1 .. old(b) /\ was(b, from(b, j)) = was(k, i)
    BY <1>3, <2>1
  <2>4. b = k => i < from(b, j)
    BY <1>1
  <2> HIDE DEF from
  <2>5. b < k \/ k < b \/ b = k
    BY <1>1
  <2>6. was(b, from(b, j)) < was(k, i) \/ was(k, i) < was(b, from(b, j))
    BY <1>1, <1>2, <2>2, <2>3, <2>4, <2>5
  <2>7. was(k, i) \in Int
    BY <1>1, <1>6, <2>2
  <2> QED BY <2>3, <2>6, <2>7
<1> QED BY <1>1, <1>5, <1>8, <1>9, <1>10 DEF old, new, was

LEMMA CutWritten ==
    ASSUME NEW ls, NEW bs, NEW cs, NEW rm, NEW rn, NEW n \in Nat, NEW k, NEW o,
           Written(ls, bs, rm, n), Cut(bs, cs, k, o), Accounted(ls, bs, cs, k, o, rm, rn)
    PROVE  Written(ls, cs, rn, n)
<1> DEFINE s == bs[k].content
           m == Len(cs[k].content)
<1>1. /\ Sorted(bs)
      /\ \A b \in 1 .. Len(bs) : bs[b].type = "freed" => bs[b].content = << >>
      /\ \A l : Held(bs, l) => l \in 1 .. n /\ ~Taken(rm, l)
      /\ \A l : Taken(rm, l) => l \in 1 .. n
      /\ \A l \in 1 .. n : ls[l].body \in TextBodies => Held(bs, l) \/ Taken(rm, l)
  BY DEF Written
<1>2. /\ Sorted(cs)
      /\ \A l : Held(cs, l) => Held(bs, l)
      /\ \A l : Held(bs, l) => Held(cs, l) \/ \E i \in 1 .. Len(s) :
            (i <= o \/ o + m < i) /\ s[i].line = l
      /\ \A i \in 1 .. o : i <= Len(s) => ~Held(cs, s[i].line)
  <2>1. \A l : Held(bs, l) => l \in Int
    BY <1>1
  <2> QED BY ONLY <1>1, <2>1, Cut(bs, cs, k, o), CutKeepsOrder
<1>3. /\ IsSeq(rn) /\ Distinct(rn)
      /\ \A l : Taken(rm, l) => Taken(rn, l)
      /\ \A l : Taken(rn, l) => Taken(rm, l) \/ \E i \in 1 .. o : i <= Len(s) /\ s[i].line = l
      /\ \A i \in 1 .. Len(s) : i <= o \/ o + m < i =>
            Taken(rn, s[i].line) \/ ls[s[i].line].body \notin TextBodies
  BY DEF Accounted
<1>4. /\ Len(cs) = Len(bs) /\ o \in Nat /\ Len(s) \in Nat /\ k \in 1 .. Len(bs)
      /\ \A b \in 1 .. Len(bs) : b # k => cs[b].content = bs[b].content
      /\ \A b \in 1 .. Len(bs) :
            cs[b].type = "freed" => (b # k /\ bs[b].type = "freed") \/ cs[b].content = << >>
  BY DEF Cut
<1> HIDE DEF s, m
<1>5. \A b \in 1 .. Len(cs) : cs[b].type = "freed" => cs[b].content = << >>
  BY <1>1, <1>4
<1>6. \A i \in 1 .. o : i <= Len(s) => Held(bs, s[i].line)
  BY <1>4 DEF Held, s
<1>7. \A l : Held(cs, l) => l \in 1 .. n /\ ~Taken(rn, l)
  BY <1>1, <1>2, <1>3
<1>8. \A l : Taken(rn, l) => l \in 1 .. n
  BY <1>1, <1>3, <1>6
<1>9. ASSUME NEW l \in 1 .. n, ls[l].body \in TextBodies
      PROVE  Held(cs, l) \/ Taken(rn, l)
  BY <1>1, <1>2, <1>3, <1>9
<1> QED BY <1>2, <1>3, <1>5, <1>7, <1>8, <1>9 DEF Written

\* The contents are the same, and so is what is freed.
LEMMA SameWritten ==
    ASSUME NEW ls, NEW bs, NEW cs, NEW rm, NEW n, Written(ls, bs, rm, n), Len(cs) = Len(bs),
           \A b \in 1 .. Len(bs) :
               /\ cs[b].content = bs[b].content
               /\ cs[b].type = "freed" => bs[b].type = "freed"
    PROVE  Written(ls, cs, rm, n)
<1>1. Sorted(cs)
  BY DEF Sorted, Written
<1>2. \A k : Held(cs, k) <=> Held(bs, k)
  BY DEF Held
<1> QED BY <1>1, <1>2 DEF Written

\* A line with no text can be left out.
LEMMA SkippedWritten ==
    ASSUME NEW ls, NEW bs, NEW rm, NEW n \in Nat, Written(ls, bs, rm, n),
           ls[n + 1].body \notin TextBodies
    PROVE  Written(ls, bs, rm, n + 1)
<1>1. /\ 1 .. n \subseteq 1 .. n + 1
      /\ \A k \in 1 .. n + 1 : k = n + 1 \/ k \in 1 .. n
  OBVIOUS
<1> QED BY <1>1 DEF Written

\* The next line goes to the end of the last block.
AtEnd(bs, cs, n) ==
    /\ Len(bs) \in Nat /\ Len(cs) \in Nat \ {0}
    /\ Len(bs) \in {Len(cs), Len(cs) - 1}
    /\ \A b \in 1 .. Len(cs) - 1 :
          cs[b].content = bs[b].content /\ (cs[b].type = "freed" => bs[b].type = "freed")
    /\ cs[Len(cs)].type # "freed"
    /\ Len(cs[Len(cs)].content) \in Nat \ {0}
    /\ cs[Len(cs)].content[Len(cs[Len(cs)].content)].line = n
    /\ \A i \in 1 .. Len(cs[Len(cs)].content) - 1 :
          /\ Len(cs) = Len(bs) /\ i \in 1 .. Len(bs[Len(bs)].content)
          /\ cs[Len(cs)].content[i] = bs[Len(bs)].content[i]
    /\ Len(cs) = Len(bs) => \A i \in 1 .. Len(bs[Len(bs)].content) :
          i \in 1 .. Len(cs[Len(cs)].content) - 1

LEMMA AtEndWritten ==
    ASSUME NEW ls, NEW bs, NEW cs, NEW rm, NEW n \in Nat, Written(ls, bs, rm, n),
           AtEnd(bs, cs, n + 1)
    PROVE  Written(ls, cs, rm, n + 1)
<1> DEFINE t == Len(cs)
           u == Len(cs[t].content)
           old(b) == Len(bs[b].content)
           new(b) == Len(cs[b].content)
           was(b, i) == bs[b].content[i].line
           is(b, i) == cs[b].content[i].line
<1>1. /\ Len(bs) \in Nat /\ t \in Nat \ {0} /\ Len(bs) \in {t, t - 1}
      /\ \A b \in 1 .. t - 1 : /\ new(b) = old(b)
                               /\ \A i \in 1 .. new(b) : is(b, i) = was(b, i)
      /\ new(t) \in Nat \ {0} /\ is(t, new(t)) = n + 1
      /\ \A i \in 1 .. new(t) - 1 : t = Len(bs) /\ i \in 1 .. old(t) /\ is(t, i) = was(t, i)
      /\ t = Len(bs) => \A i \in 1 .. old(t) : i \in 1 .. new(t) - 1
  BY DEF AtEnd
<1>2. \A b, c \in 1 .. Len(bs) : \A i \in 1 .. old(b), j \in 1 .. old(c) :
          b < c \/ (b = c /\ i < j) => was(b, i) < was(c, j)
  BY DEF Sorted, Written
<1>3. \A l : Held(bs, l) <=> \E b \in 1 .. Len(bs) : \E i \in 1 .. old(b) : was(b, i) = l
  BY DEF Held
<1>4. \A l : Held(cs, l) <=> \E b \in 1 .. t : \E i \in 1 .. new(b) : is(b, i) = l
  BY DEF Held
<1>5. /\ \A l : Held(bs, l) => l \in 1 .. n /\ ~Taken(rm, l)
      /\ \A l : Taken(rm, l) => l \in 1 .. n
      /\ \A l \in 1 .. n : ls[l].body \in TextBodies => Held(bs, l) \/ Taken(rm, l)
      /\ \A b \in 1 .. Len(bs) : bs[b].type = "freed" => bs[b].content = << >>
      /\ IsSeq(rm) /\ Distinct(rm)
  BY DEF Written
<1> HIDE DEF old, new, was, is, t, u
<1>6. \A b \in 1 .. t : cs[b].type = "freed" => cs[b].content = << >>
  <2>1. \A b \in 1 .. t : b = t \/ b \in 1 .. t - 1
    BY <1>1
  <2>2. \A b \in 1 .. t - 1 : b \in 1 .. Len(bs)
    BY <1>1
  <2>3. /\ cs[t].type # "freed"
        /\ \A b \in 1 .. t - 1 : /\ cs[b].content = bs[b].content
                                 /\ cs[b].type = "freed" => bs[b].type = "freed"
    BY DEF AtEnd, t
  <2> QED BY <1>5, <2>1, <2>2, <2>3
\* An entry of cs is the new one or one of bs.
<1>7. ASSUME NEW b \in 1 .. t, NEW i \in 1 .. new(b), ~(b = t /\ i = new(t))
      PROVE  b \in 1 .. Len(bs) /\ i \in 1 .. old(b) /\ is(b, i) = was(b, i)
  <2>1. CASE b = t
    <3>1. i \in 1 .. new(t) - 1
      BY <1>1, <1>7, <2>1
    <3> QED BY <1>1, <2>1, <3>1
  <2>2. CASE b # t
    <3>1. b \in 1 .. t - 1 /\ b \in 1 .. Len(bs)
      BY <1>1, <2>2
    <3> QED BY <1>1, <3>1
  <2> QED BY <2>1, <2>2
<1>8. ASSUME NEW b \in 1 .. Len(bs), NEW i \in 1 .. old(b)
      PROVE  b \in 1 .. t /\ i \in 1 .. new(b) /\ is(b, i) = was(b, i)
  <2>1. CASE b = t
    <3>1. i \in 1 .. new(t) - 1 /\ i \in 1 .. new(t)
      BY <1>1, <2>1
    <3> QED BY <1>1, <2>1, <3>1
  <2>2. CASE b # t
    <3>1. b \in 1 .. t - 1 /\ b \in 1 .. t
      BY <1>1, <2>2
    <3> QED BY <1>1, <3>1
  <2> QED BY <2>1, <2>2
<1>9. ASSUME NEW b \in 1 .. t, NEW c \in 1 .. t, NEW i \in 1 .. new(b), NEW j \in 1 .. new(c),
             b < c \/ (b = c /\ i < j)
      PROVE  is(b, i) < is(c, j)
  <2>1. ~(b = t /\ i = new(t))
    BY <1>1, <1>9
  <2>2. b \in 1 .. Len(bs) /\ i \in 1 .. old(b) /\ is(b, i) = was(b, i)
    BY <1>7, <2>1
  <2>3. CASE c = t /\ j = new(t)
    <3>1. was(b, i) \in 1 .. n
      BY <1>3, <1>5, <2>2
    <3> QED BY <1>1, <2>2, <2>3, <3>1
  <2>4. CASE ~(c = t /\ j = new(t))
    <3>1. c \in 1 .. Len(bs) /\ j \in 1 .. old(c) /\ is(c, j) = was(c, j)
      BY <1>7, <2>4
    <3> QED BY <1>2, <1>9, <2>2, <3>1
  <2> QED BY <2>3, <2>4
<1>10. Sorted(cs)
  BY <1>9 DEF Sorted, is, new, t
<1>11. /\ t \in 1 .. t /\ new(t) \in 1 .. new(t) /\ n + 1 \notin 1 .. n
       /\ \A k \in 1 .. n + 1 : k = n + 1 \/ k \in 1 .. n
       /\ \A k \in 1 .. n : k \in 1 .. n + 1
       /\ n + 1 \in 1 .. n + 1
  BY <1>1
<1>12. \A l : Held(cs, l) => Held(bs, l) \/ l = n + 1
  BY <1>1, <1>3, <1>4, <1>7
<1>13. \A l : Held(bs, l) => Held(cs, l)
  BY <1>3, <1>4, <1>8
<1>14. Held(cs, n + 1)
  BY <1>1, <1>4, <1>11
<1>15. \A l : Held(cs, l) => l \in 1 .. n + 1 /\ ~Taken(rm, l)
  BY <1>5, <1>11, <1>12
<1>16. \A l : Taken(rm, l) => l \in 1 .. n + 1
  BY <1>5, <1>11
<1>17. \A l \in 1 .. n + 1 : ls[l].body \in TextBodies => Held(cs, l) \/ Taken(rm, l)
  BY <1>5, <1>11, <1>13, <1>14
<1> QED BY <1>5, <1>6, <1>10, <1>15, <1>16, <1>17 DEF Written, t

\* A block with no content is made.
LEMMA EmptyWritten ==
    ASSUME NEW ls, NEW bs, NEW cs, NEW rm, NEW n, Written(ls, bs, rm, n),
           Len(bs) \in Nat, Len(cs) = Len(bs) + 1, cs[Len(cs)].content = << >>,
           \A b \in 1 .. Len(bs) : cs[b] = bs[b]
    PROVE  Written(ls, cs, rm, n)
<1>1. \A b \in 1 .. Len(cs) :
          (b \in 1 .. Len(bs) /\ cs[b] = bs[b]) \/ cs[b].content = << >>
  <2>1. \A b \in 1 .. Len(cs) : b = Len(cs) \/ b \in 1 .. Len(bs)
    OBVIOUS
  <2> QED BY <2>1
<1>2. Sorted(cs)
  <2>1. \A b \in 1 .. Len(cs) : cs[b].content = << >> => 1 .. Len(cs[b].content) = {}
    OBVIOUS
  <2> QED BY <1>1, <2>1 DEF Sorted, Written
<1>3. \A k : Held(cs, k) <=> Held(bs, k)
  <2>1. \A b \in 1 .. Len(cs) : cs[b].content = << >> => 1 .. Len(cs[b].content) = {}
    OBVIOUS
  <2>2. \A b \in 1 .. Len(bs) : b \in 1 .. Len(cs)
    OBVIOUS
  <2> QED BY <1>1, <2>1, <2>2 DEF Held
<1> QED BY <1>1, <1>2, <1>3 DEF Written

\* What part of a sequence has.
LEMMA PartOf ==
    ASSUME NEW s, IsSeq(s), NEW m \in Nat \ {0}, NEW n \in Nat, n <= Len(s), m <= n + 1
    PROVE  /\ IsSeq(SubSeq(s, m, n)) /\ Len(SubSeq(s, m, n)) = n - m + 1
           /\ \A i \in 1 .. n - m + 1 : SubSeq(s, m, n)[i] = s[m - 1 + i]
<1> DEFINE S == {s[i] : i \in 1 .. Len(s)}
<1>1. m \in Int /\ n \in Int /\ Len(s) \in Nat /\ m .. n \subseteq 1 .. Len(s)
  BY DEF IsSeq
<1>2. \A i \in m .. n : s[i] \in S
  BY <1>1
<1> HIDE DEF S
<1>3. /\ SubSeq(s, m, n) \in Seq(S)
      /\ Len(SubSeq(s, m, n)) = IF m <= n THEN n - m + 1 ELSE 0
      /\ \A i \in 1 .. Len(SubSeq(s, m, n)) : SubSeq(s, m, n)[i] = s[m + i - 1]
  BY <1>1, <1>2, SubSeqProperties
<1>4. Len(SubSeq(s, m, n)) = n - m + 1
  BY <1>1, <1>3
<1>5. \A i \in 1 .. n - m + 1 : SubSeq(s, m, n)[i] = s[m - 1 + i]
  BY <1>1, <1>3, <1>4
<1> QED BY <1>3, <1>4, <1>5, SeqIsSeq

LEMMA TakenMore ==
    ASSUME NEW rm, NEW t, IsSeq(rm), IsSeq(t), Distinct(rm), Distinct(t),
           \A l : ~(Taken(rm, l) /\ Taken(t, l))
    PROVE  /\ IsSeq(rm \o t) /\ Distinct(rm \o t)
           /\ \A l : Taken(rm \o t, l) <=> Taken(rm, l) \/ Taken(t, l)
<1> DEFINE S == {rm[i] : i \in 1 .. Len(rm)} \cup {t[i] : i \in 1 .. Len(t)}
           rn == rm \o t
           a == Len(rm)
           b == Len(t)
<1>1. rm \in Seq(S) /\ t \in Seq(S)
  <2>1. rm \in Seq({rm[i] : i \in 1 .. Len(rm)}) /\ t \in Seq({t[i] : i \in 1 .. Len(t)})
    BY OwnSeq
  <2> QED BY <2>1
<1> HIDE DEF S
<1>2. /\ rn \in Seq(S) /\ Len(rn) = a + b
      /\ \A i \in 1 .. Len(rn) : rn[i] = IF i <= Len(rm) THEN rm[i] ELSE t[i - Len(rm)]
  BY <1>1, ConcatProperties
<1>3. a \in Nat /\ b \in Nat
  BY DEF IsSeq
<1> HIDE DEF rn, a, b
<1>4. \A i \in 1 .. a : i \in 1 .. Len(rn) /\ rn[i] = rm[i]
  BY <1>2, <1>3 DEF a
<1>5. \A j \in 1 .. b : a + j \in 1 .. Len(rn) /\ rn[a + j] = t[j]
  BY <1>2, <1>3 DEF a
<1>6. \A i \in 1 .. Len(rn) : i \in 1 .. a \/ (i - a \in 1 .. b /\ i = a + (i - a))
  BY <1>2, <1>3
<1>7. \A l : Taken(rm, l) <=> \E i \in 1 .. a : rm[i] = l
  BY DEF Taken, a
<1>8. \A l : Taken(t, l) <=> \E i \in 1 .. b : t[i] = l
  BY DEF Taken, b
<1>9. ASSUME NEW l
      PROVE  Taken(rn, l) <=> Taken(rm, l) \/ Taken(t, l)
  <2>1. Taken(rn, l) <=> \E i \in 1 .. Len(rn) : rn[i] = l
    BY DEF Taken
  <2>2. ASSUME NEW i \in 1 .. Len(rn), rn[i] = l
        PROVE  Taken(rm, l) \/ Taken(t, l)
    <3>1. CASE i \in 1 .. a
      BY <1>4, <1>7, <2>2, <3>1
    <3>2. CASE i - a \in 1 .. b /\ i = a + (i - a)
      <4>1. t[i - a] = l
        BY <1>5, <2>2, <3>2
      <4> QED BY <1>8, <3>2, <4>1
    <3> QED BY <1>6, <3>1, <3>2
  <2>3. Taken(rm, l) => Taken(rn, l)
    BY <1>4, <1>7, <2>1
  <2>4. Taken(t, l) => Taken(rn, l)
    BY <1>5, <1>8, <2>1
  <2> QED BY <2>1, <2>2, <2>3, <2>4
<1>10. ASSUME NEW i \in 1 .. Len(rn), NEW j \in 1 .. Len(rn), rn[i] = rn[j]
       PROVE  i = j
  <2>1. \A p, q \in 1 .. a : rm[p] = rm[q] => p = q
    BY DEF Distinct, a
  <2>2. \A p, q \in 1 .. b : t[p] = t[q] => p = q
    BY DEF Distinct, b
  <2>3. \A p \in 1 .. a, q \in 1 .. b : rm[p] # t[q]
    BY <1>7, <1>8
  <2>4. CASE i \in 1 .. a /\ j \in 1 .. a
    BY <1>4, <1>10, <2>1, <2>4
  <2>5. CASE i - a \in 1 .. b /\ j - a \in 1 .. b
    <3>1. rn[i] = t[i - a] /\ rn[j] = t[j - a]
      BY <1>2, <1>3, <1>5, <2>5
    <3>2. i - a = j - a
      BY <1>10, <2>2, <2>5, <3>1
    <3> QED BY <1>2, <1>3, <3>2
  <2>6. CASE i \in 1 .. a /\ j - a \in 1 .. b
    <3>1. rn[i] = rm[i] /\ rn[j] = t[j - a]
      BY <1>2, <1>3, <1>4, <1>5, <1>6, <2>6
    <3> QED BY <1>10, <2>3, <2>6, <3>1
  <2>7. CASE i - a \in 1 .. b /\ j \in 1 .. a
    <3>1. rn[j] = rm[j] /\ rn[i] = t[i - a]
      BY <1>2, <1>3, <1>4, <1>5, <1>6, <2>7
    <3> QED BY <1>10, <2>3, <2>7, <3>1
  <2> QED BY <1>6, <2>4, <2>5, <2>6, <2>7
<1>11. Distinct(rn)
  BY <1>10 DEF Distinct
<1>12. IsSeq(rn)
  BY <1>2, SeqIsSeq
<1> QED BY <1>9, <1>11, <1>12 DEF rn

\* What finalize leaves of the content of k.
Left(k) ==
    LET s == blocks[k].content
    IN  CASE blocks[k].type = "paragraph" -> SubSeq(s, Definitions(s) + 1, Len(s))
          [] blocks[k].type = "code_block" ->
                 IF blocks[k].fenced THEN SubSeq(s, 2, Len(s)) ELSE Trimmed(s)
          [] OTHER -> s

LEMMA ClosedLeaves ==
    ASSUME WellBuilt(blocks), NEW k \in 1 .. Len(blocks), blocks[k].type # "freed"
    PROVE  /\ Closed(k)[k].content = Left(k)
           /\ Closed(k)[k].type = "freed" => Left(k) = << >>
<1> DEFINE e == [blocks[k] EXCEPT !.open = FALSE]
           bs == [blocks EXCEPT ![k].open = FALSE]
           s == blocks[k].content
<1>1. IsSeq(blocks) /\ DOMAIN blocks[k] = Fields
  BY WellBuiltFields
<1>2. /\ e.content = s /\ e.type = blocks[k].type /\ DOMAIN e = Fields
      /\ e.fenced = blocks[k].fenced
  BY <1>1 DEF Fields
<1>3. bs = Put(blocks, k, e)
  BY DEF Put
<1> HIDE DEF bs, e
<1>4. IsSeq(bs) /\ Len(bs) = Len(blocks) /\ bs[k] = e
  BY <1>1, <1>3, PutSeq
<1>5. CASE blocks[k].type = "paragraph"
  <2> DEFINE l == SubSeq(s, Definitions(s) + 1, Len(s))
             f == [e EXCEPT !.content = l]
             g == [f EXCEPT !.type = "freed"]
  <2>1. Resolved(bs, k) = Put(bs, k, f)
    BY <1>2, <1>4 DEF Resolved, Put
  <2> HIDE DEF l, s
  <2>2. f.content = l /\ f.type = blocks[k].type /\ DOMAIN f = Fields
    BY <1>2 DEF Fields
  <2>3. g.content = l
    BY <2>2 DEF Fields
  <2> HIDE DEF f
  <2>4. IsSeq(Put(bs, k, f)) /\ Len(Put(bs, k, f)) = Len(bs) /\ Put(bs, k, f)[k] = f
    BY <1>4, PutSeq
  <2>5. [Put(bs, k, f) EXCEPT ![k].type = "freed"] = Put(Put(bs, k, f), k, g)
    BY <2>4 DEF Put
  <2> HIDE DEF g
  <2>6. Put(Put(bs, k, f), k, g)[k] = g
    BY <1>4, <2>4, PutSeq
  <2>7. Closed(k) = IF Put(bs, k, f)[k].content = << >>
                    THEN Put(Put(bs, k, f), k, g) ELSE Put(bs, k, f)
    BY <1>5, <2>1, <2>5 DEF Closed, type, bs
  <2>8. Left(k) = l
    BY <1>5 DEF Left, l, s
  <2> QED BY <2>2, <2>3, <2>4, <2>6, <2>7, <2>8
<1>6. CASE blocks[k].type = "code_block"
  <2> DEFINE l == IF blocks[k].fenced THEN SubSeq(s, 2, Len(s)) ELSE Trimmed(s)
             f == [e EXCEPT !.content = l]
  <2>1. Closed(k) = Put(bs, k, f)
    BY <1>2, <1>4, <1>6 DEF Closed, Put, type, bs
  <2>2. Left(k) = l
    BY <1>6 DEF Left
  <2> HIDE DEF l
  <2>3. f.content = l /\ f.type = blocks[k].type
    BY <1>2 DEF Fields
  <2> HIDE DEF f
  <2>4. Put(bs, k, f)[k] = f
    BY <1>4, PutSeq
  <2> QED BY <2>1, <2>2, <2>3, <2>4
<1>7. CASE blocks[k].type = "list"
  <2>1. Closed(k) = TightSet(bs, k)
    BY <1>7 DEF Closed, type, bs
  <2> DEFINE loose == {n \in Examined(bs, k) : Loosens(bs, k, n)}
             seen == {n \in Examined(bs, k) \ Children(bs, k) : \A m \in loose : n <= m}
             Seen(b) == \E n \in seen : b \in Ancestors(bs, LastBelow(bs, n)) /\ b >= n
             tight == loose = {}
             cs == TightSet(bs, k)
  <2>6. cs = [b \in 1 .. Len(bs) |->
            CASE b = k -> [bs[b] EXCEPT !.tight = tight]
              [] Seen(b) -> [bs[b] EXCEPT !.last_line_checked = TRUE]
              [] OTHER -> bs[b]]
    BY DEF TightSet
  <2> HIDE DEF cs, loose, seen, Seen, tight
  <2>2. ASSUME NEW b \in 1 .. Len(bs)
        PROVE  \/ cs[b] = bs[b]
               \/ cs[b] = [bs[b] EXCEPT !.tight = tight]
               \/ cs[b] = [bs[b] EXCEPT !.last_line_checked = TRUE]
    BY <2>6
  <2>3. \/ cs[k] = e
        \/ cs[k] = [e EXCEPT !.tight = tight]
        \/ cs[k] = [e EXCEPT !.last_line_checked = TRUE]
    BY <1>4, <2>2
  <2>4. cs[k].content = s /\ cs[k].type = blocks[k].type
    BY <1>2, <2>3 DEF Fields
  <2>5. Left(k) = s
    BY <1>7 DEF Left
  <2> QED BY <1>7, <2>1, <2>4, <2>5 DEF cs
<1>8. CASE blocks[k].type \notin {"paragraph", "code_block", "list"}
  <2>1. Closed(k) = bs /\ Left(k) = s
    BY <1>8 DEF Closed, type, bs, Left
  <2> QED BY <1>2, <1>4, <2>1
<1> QED BY <1>5, <1>6, <1>7, <1>8

\* remove_trailing_blank_lines keeps a start of the content, and all after it is blank.
LEMMA TrimmedBlanks ==
    ASSUME NEW s, IsSeq(s)
    PROVE  /\ IsSeq(Trimmed(s)) /\ Len(Trimmed(s)) <= Len(s)
           /\ \A i \in 1 .. Len(Trimmed(s)) : Trimmed(s)[i] = s[i]
           /\ \A i \in 1 .. Len(s) : Len(Trimmed(s)) < i => lines[s[i].line].body = "blank"
<1> DEFINE kept == {i \in 1 .. Len(s) : lines[s[i].line].body # "blank"}
<1>1. Len(s) \in Nat /\ kept \in SUBSET (1 .. Len(s))
  BY DEF IsSeq
<1>2. \A i \in 1 .. Len(s) : i \notin kept => lines[s[i].line].body = "blank"
  OBVIOUS
<1>3. CASE kept = {}
  <2>1. Trimmed(s) = << >>
    BY <1>3 DEF Trimmed
  <2>2. IsSeq(<< >>) /\ Len(<< >>) = 0
    BY DEF IsSeq
  <2> HIDE DEF kept
  <2> QED BY <1>1, <1>2, <1>3, <2>1, <2>2
<1>4. CASE kept # {}
  <2> DEFINE n == Largest(kept)
  <2>1. Trimmed(s) = SubSeq(s, 1, n)
    BY <1>4 DEF Trimmed
  <2> HIDE DEF kept
  <2>2. n \in 1 .. Len(s) /\ \A i \in kept : i <= n
    BY <1>1, <1>4, LargestIsLargest
  <2> HIDE DEF n
  <2>3. 1 \in Nat \ {0} /\ n \in Nat /\ n <= Len(s) /\ 1 <= n + 1 /\ n - 1 + 1 = n
    BY <1>1, <2>2
  <2>4. /\ IsSeq(SubSeq(s, 1, n)) /\ Len(SubSeq(s, 1, n)) = n
        /\ \A i \in 1 .. n : SubSeq(s, 1, n)[i] = s[1 - 1 + i]
    BY <2>3, PartOf
  <2>5. \A i \in 1 .. Len(s) : n < i => i \notin kept
    BY <1>1, <2>2
  <2>6. \A i \in 1 .. n : Trimmed(s)[i] = s[i]
    BY <2>1, <2>3, <2>4
  <2> QED BY <1>2, <2>1, <2>3, <2>4, <2>5, <2>6
<1> QED BY <1>3, <1>4

\* What is taken when the first o lines of the content of k are.
WithStart(bs, rm, k, o) == rm \o LinesIn(SubSeq(bs[k].content, 1, o))

LEMMA StartTaken ==
    ASSUME NEW ls, NEW bs, NEW rm, NEW n \in Nat, Written(ls, bs, rm, n),
           NEW k \in 1 .. Len(bs), IsSeq(bs[k].content), NEW o \in 0 .. Len(bs[k].content)
    PROVE  /\ IsSeq(WithStart(bs, rm, k, o)) /\ Distinct(WithStart(bs, rm, k, o))
           /\ \A l : Taken(WithStart(bs, rm, k, o), l) <=>
                 Taken(rm, l) \/ \E i \in 1 .. o : bs[k].content[i].line = l
<1> DEFINE s == bs[k].content
           p == SubSeq(s, 1, o)
           t == LinesIn(p)
<1>1. Len(s) \in Nat /\ o \in Nat /\ o <= Len(s) /\ \A i \in 1 .. o : i \in 1 .. Len(s)
  BY DEF IsSeq
<1>2. 1 \in Nat \ {0} /\ 1 <= o + 1 /\ o - 1 + 1 = o
  BY <1>1
<1>3. Len(p) = o /\ \A i \in 1 .. o : p[i] = s[1 - 1 + i]
  BY <1>1, <1>2, PartOf
<1>4. \A i \in 1 .. o : p[i] = s[i]
  BY <1>1, <1>3
<1>5. t = [i \in 1 .. o |-> p[i].line]
  BY <1>3 DEF LinesIn
<1> HIDE DEF s, p, t
<1>6. t = [i \in 1 .. o |-> t[i]]
  BY <1>5
<1>7. IsSeq(t) /\ Len(t) = o
  BY <1>1, <1>6, FunctionSeq
<1>8. \A i \in 1 .. o : t[i] = s[i].line
  BY <1>4, <1>5
<1>9. \A l : Taken(t, l) <=> \E i \in 1 .. o : s[i].line = l
  BY <1>7, <1>8 DEF Taken
<1>10. \A i \in 1 .. Len(s) : Held(bs, s[i].line)
  BY DEF Held, s
<1>11. IsSeq(rm) /\ Distinct(rm) /\ \A l : Held(bs, l) => l \in 1 .. n /\ ~Taken(rm, l)
  BY DEF Written
<1>12. \A l : ~(Taken(rm, l) /\ Taken(t, l))
  BY <1>1, <1>9, <1>10, <1>11
<1>13. Distinct(t)
  <2>1. \A i, j \in 1 .. Len(s) : i < j => s[i].line < s[j].line
    BY DEF Written, Sorted, s
  <2>2. \A i \in 1 .. Len(s) : s[i].line \in Int
    BY <1>10, <1>11
  <2>3. \A i, j \in 1 .. o : s[i].line = s[j].line => i = j
    BY <1>1, <2>1, <2>2
  <2> QED BY <1>7, <1>8, <2>3 DEF Distinct
<1>14. /\ IsSeq(rm \o t) /\ Distinct(rm \o t)
       /\ \A l : Taken(rm \o t, l) <=> Taken(rm, l) \/ Taken(t, l)
  BY <1>7, <1>11, <1>12, <1>13, TakenMore
<1>15. WithStart(bs, rm, k, o) = rm \o t
  BY DEF WithStart, t, p, s
<1> QED BY <1>9, <1>14, <1>15 DEF s

\* Of a paragraph the definitions at its start are taken.
LEMMA ResolvedWritten ==
    ASSUME WellBuilt(blocks), NEW n \in Nat, Written(lines, blocks, refmap, n),
           NEW k \in 1 .. Len(blocks), NEW cs, Len(cs) = Len(blocks),
           cs[k].content = SubSeq(blocks[k].content, Definitions(blocks[k].content) + 1,
                                  Len(blocks[k].content)),
           \A b \in 1 .. Len(blocks) :
               /\ b # k => cs[b].content = blocks[b].content
               /\ cs[b].type = "freed" =>
                      (b # k /\ blocks[b].type = "freed") \/ cs[b].content = << >>
    PROVE  Written(lines, cs, ResolvedMap(blocks, k), n)
<1> DEFINE s == blocks[k].content
           o == Definitions(s)
           rn == WithStart(blocks, refmap, k, o)
<1>1. /\ IsSeq(s) /\ Len(s) \in Nat /\ o \in 0 .. Len(s)
      /\ \A b \in 1 .. Len(blocks) : Len(blocks[b].content) \in Nat
  BY WellBuiltFields, DefinitionsBound
<1>2. ResolvedMap(blocks, k) = rn
  BY DEF ResolvedMap, WithStart
<1>3. cs[k].content = SubSeq(s, o + 1, Len(s))
  OBVIOUS
<1> HIDE DEF o
<1>8. k \in 1 .. Len(blocks) /\ n \in Nat /\ Written(lines, blocks, refmap, n)
  OBVIOUS
<1>4. /\ IsSeq(rn) /\ Distinct(rn)
      /\ \A l : Taken(rn, l) <=> Taken(refmap, l) \/ \E i \in 1 .. o : s[i].line = l
  <2>1. IsSeq(blocks[k].content) /\ o \in 0 .. Len(blocks[k].content)
    BY ONLY <1>1
  <2> QED BY ONLY <1>8, <2>1, StartTaken DEF s, rn
<1> HIDE DEF rn, s
<1>5. /\ Len(cs[k].content) = Len(s) - o
      /\ \A i \in 1 .. Len(cs[k].content) : cs[k].content[i] = s[o + i]
  <2>1. /\ o + 1 \in Nat \ {0} /\ Len(s) <= Len(s) /\ o + 1 <= Len(s) + 1
        /\ Len(s) - (o + 1) + 1 = Len(s) - o /\ o \in Nat
    BY <1>1
  <2> DEFINE m == o + 1
             z == Len(s)
  <2>4. IsSeq(s) /\ m \in Nat \ {0} /\ z \in Nat /\ z <= Len(s) /\ m <= z + 1
    BY ONLY <1>1, <2>1
  <2> HIDE DEF m, z
  <2>5. /\ Len(SubSeq(s, m, z)) = z - m + 1
        /\ \A i \in 1 .. z - m + 1 : SubSeq(s, m, z)[i] = s[m - 1 + i]
    BY ONLY <2>4, PartOf
  <2>2. cs[k].content = SubSeq(s, m, z)
    BY ONLY <1>3 DEF m, z
  <2>3. /\ Len(cs[k].content) = z - m + 1
        /\ \A i \in 1 .. z - m + 1 : cs[k].content[i] = s[m - 1 + i]
    BY ONLY <2>2, <2>5, Zenon
  <2>6. z - m + 1 = Len(s) - o /\ \A i \in 1 .. z - m + 1 : m - 1 + i = o + i
    BY ONLY <1>1 DEF m, z
  <2> QED BY ONLY <2>3, <2>6, Zenon
<1>6. Cut(blocks, cs, k, o)
  <2>1. o \in Nat /\ o + Len(cs[k].content) <= Len(s) /\ Len(cs[k].content) \in Nat
    BY ONLY <1>1, <1>5
  <2>2. \A b \in 1 .. Len(blocks) : Len(cs[b].content) \in Nat
    BY <1>1, <2>1
  <2> QED BY <1>1, <1>5, <2>1, <2>2 DEF Cut, s
<1>7. Accounted(lines, blocks, cs, k, o, refmap, rn)
  <2>1. \A l : Taken(refmap, l) => Taken(rn, l)
    BY <1>4
  <2>2. \A i \in 1 .. o : i <= Len(s)
    BY <1>1
  <2>3. \A l : Taken(rn, l) =>
            Taken(refmap, l) \/ \E i \in 1 .. o : i <= Len(s) /\ s[i].line = l
    BY <1>4, <2>2
  <2>4. \A i \in 1 .. Len(s) : i <= o \/ o + Len(cs[k].content) < i => i \in 1 .. o
    BY ONLY <1>1, <1>5
  <2>5. \A i \in 1 .. Len(s) : i <= o \/ o + Len(cs[k].content) < i => Taken(rn, s[i].line)
    BY <1>4, <2>4
  <2> QED BY <1>4, <2>1, <2>3, <2>5 DEF Accounted, s
<1> QED BY <1>2, <1>6, <1>7, CutWritten

\* finalize keeps the text: what it takes from a block are definitions, the line of the
\* opening fence and blank lines.
LEMMA FinalizeWrites ==
    ASSUME WellBuilt(blocks), NEW n \in Nat, Written(lines, blocks, refmap, n),
           NEW k \in 1 .. Len(blocks), blocks[k].open, finalize(k),
           blocks[k].fenced => /\ blocks[k].content # << >>
                               /\ lines[blocks[k].content[1].line].body \notin TextBodies
    PROVE  Written(lines, blocks', refmap', n)
<1> DEFINE s == blocks[k].content
<1>1. /\ IsSeq(s) /\ Len(s) \in Nat /\ blocks[k].type # "freed"
      /\ \A b \in 1 .. Len(blocks) : Len(blocks[b].content) \in Nat
      /\ blocks[k].fenced => blocks[k].type = "code_block"
  BY WellBuiltFields DEF WellBuilt, IsBlock
<1>2. /\ Len(blocks') = Len(blocks)
      /\ \A b \in 1 .. Len(blocks) :
            /\ Len(blocks'[b].content) \in Nat
            /\ b # k => blocks'[b].content = blocks[b].content /\ blocks'[b].type = blocks[b].type
  <2>1. Finalized(blocks, blocks', k)
    BY ClosedFinalizes DEF finalize
  <2> QED BY <2>1 DEF Finalized, IsSeq
<1>3. /\ blocks'[k].content = Left(k)
      /\ blocks'[k].type = "freed" => blocks'[k].content = << >>
  BY <1>1, ClosedLeaves DEF finalize
<1>4. \A b \in 1 .. Len(blocks) : blocks'[b].type = "freed" =>
          (b # k /\ blocks[b].type = "freed") \/ blocks'[b].content = << >>
  BY <1>2, <1>3
<1>5. CASE blocks[k].type = "paragraph"
  <2>1. blocks'[k].content = SubSeq(s, Definitions(s) + 1, Len(s))
    BY <1>3, <1>5 DEF Left
  <2>2. refmap' = ResolvedMap(blocks, k)
    BY <1>5 DEF finalize, type
  <2>3. Written(lines, blocks', ResolvedMap(blocks, k), n)
    BY <1>2, <1>4, <2>1, ResolvedWritten
  <2> QED BY <2>2, <2>3
<1>6. CASE blocks[k].type # "paragraph"
  <2>1. refmap' = refmap /\ IsSeq(refmap) /\ Distinct(refmap)
    BY <1>6 DEF finalize, type, Written
  <2> HIDE DEF s
  <2>2. ASSUME NEW o \in {0, 1}, o + Len(blocks'[k].content) <= Len(s),
               \A i \in 1 .. Len(blocks'[k].content) : blocks'[k].content[i] = s[o + i],
               \A i \in 1 .. Len(s) : i <= o \/ o + Len(blocks'[k].content) < i =>
                   lines[s[i].line].body \notin TextBodies
        PROVE  Written(lines, blocks', refmap, n)
    <3>1. Cut(blocks, blocks', k, o)
      BY <1>1, <1>2, <1>4, <2>2 DEF Cut, s
    <3>2. Accounted(lines, blocks, blocks', k, o, refmap, refmap)
      BY <2>1, <2>2 DEF Accounted, s
    <3> QED BY <3>1, <3>2, CutWritten
  <2>3. CASE blocks[k].fenced
    <3>1. blocks'[k].content = SubSeq(s, 2, Len(s)) /\ s # << >>
      BY <1>1, <1>3, <2>3 DEF Left, s
    <3>2. Len(s) # 0
      BY <1>1, <3>1 DEF IsSeq
    <3>3. /\ 2 \in Nat \ {0} /\ Len(s) <= Len(s) /\ 2 <= Len(s) + 1
          /\ Len(s) - 2 + 1 = Len(s) - 1
      BY <1>1, <3>2
    <3>4. /\ Len(blocks'[k].content) = Len(s) - 2 + 1
          /\ \A i \in 1 .. Len(s) - 2 + 1 : blocks'[k].content[i] = s[2 - 1 + i]
      BY <1>1, <3>1, <3>3, PartOf DEF s
    <3>10. \A i \in 1 .. Len(s) - 1 : 2 - 1 + i = 1 + i
      BY ONLY <1>1
    <3>5. /\ Len(blocks'[k].content) = Len(s) - 1
          /\ \A i \in 1 .. Len(s) - 1 : blocks'[k].content[i] = s[1 + i]
      BY ONLY <3>3, <3>4, <3>10, Zenon
    <3>6. \A i \in 1 .. Len(s) : i <= 1 \/ 1 + Len(blocks'[k].content) < i => i = 1
      BY <1>1, <3>5
    <3>7. lines[s[1].line].body \notin TextBodies
      BY <2>3 DEF s
    <3>8. 1 + Len(blocks'[k].content) <= Len(s) /\ 1 \in {0, 1}
      BY <1>1, <3>5
    <3>9. /\ \A i \in 1 .. Len(blocks'[k].content) : blocks'[k].content[i] = s[1 + i]
          /\ \A i \in 1 .. Len(s) : i <= 1 \/ 1 + Len(blocks'[k].content) < i =>
                lines[s[i].line].body \notin TextBodies
      BY <3>5, <3>6, <3>7
    <3> QED BY ONLY <2>1, <2>2, <3>8, <3>9
  <2>4. CASE blocks[k].type = "code_block" /\ ~blocks[k].fenced
    <3>1. blocks'[k].content = Trimmed(s)
      BY <1>3, <2>4 DEF Left, s
    <3>2. /\ Len(Trimmed(s)) <= Len(s) /\ IsSeq(Trimmed(s))
          /\ \A i \in 1 .. Len(Trimmed(s)) : Trimmed(s)[i] = s[i]
          /\ \A i \in 1 .. Len(s) : Len(Trimmed(s)) < i => lines[s[i].line].body = "blank"
      BY <1>1, TrimmedBlanks DEF s
    <3>3. "blank" \notin TextBodies
      BY DEF TextBodies
    <3>4. 0 \in {0, 1} /\ 0 + Len(blocks'[k].content) <= Len(s)
      BY <1>1, <3>1, <3>2 DEF IsSeq
    <3>5. \A i \in 1 .. Len(blocks'[k].content) : blocks'[k].content[i] = s[0 + i]
      BY <3>1, <3>2
    <3>6. \A i \in 1 .. Len(s) : i <= 0 \/ 0 + Len(blocks'[k].content) < i =>
              lines[s[i].line].body \notin TextBodies
      BY <3>1, <3>2, <3>3 DEF IsSeq
    <3> QED BY ONLY <2>1, <2>2, <3>4, <3>5, <3>6
  <2>5. CASE blocks[k].type # "code_block"
    <3>1. blocks'[k].content = s
      BY <1>3, <1>6, <2>5 DEF Left, s
    <3>2. 0 \in {0, 1} /\ 0 + Len(blocks'[k].content) <= Len(s)
      BY <1>1, <3>1 DEF s
    <3>3. \A i \in 1 .. Len(blocks'[k].content) : blocks'[k].content[i] = s[0 + i]
      BY <3>1
    <3>4. \A i \in 1 .. Len(s) : ~(i <= 0 \/ 0 + Len(blocks'[k].content) < i)
      BY <1>1, <3>1 DEF s
    <3> QED BY ONLY <2>1, <2>2, <3>2, <3>3, <3>4
  <2> QED BY <2>3, <2>4, <2>5
<1> QED BY <1>5, <1>6
-----------------------------------------------------------------------------
(* Each line is written once *)

\* The last line is not dealt with yet.
Unplaced == pc \in {"check", "open", "add", "text", "close"}

\* How many lines are.
Placed == IF Unplaced THEN line_number - 1 ELSE line_number

\* The blocks that can be open beside the last one made.
Unmatched ==
    IF pc \in {"add", "close"} \/ (pc \in {"open", "text"} /\ container # last_matched)
    THEN last_matched + 1 .. current ELSE {}

\* An open block that can hold no blocks is the last one made, or one of A.
LeavesLast(bs, A) ==
    \A b \in 1 .. Len(bs) :
        bs[b].open /\ bs[b].type \notin Holders => b = Len(bs) \/ b \in A

\* A fenced block starts with its opening fence, or is yet to.
Heads(ls, bs) ==
    \A b \in 1 .. Len(bs) : bs[b].open /\ bs[b].fenced =>
        IF bs[b].content = << >> THEN ls[Len(ls)].body \notin TextBodies
        ELSE ls[bs[b].content[1].line].body \notin TextBodies

\* add_child is to make a paragraph of the line, or blocks the line is yet to go to.
AddsText ==
    \/ /\ Len(adding) = 1 /\ adding[1].type = "paragraph"
       /\ Len(adding[1].content) = 1 /\ adding[1].content[1].line = line_number
    \/ \A i \in 1 .. Len(adding) :
          /\ adding[i].type # "paragraph" /\ adding[i].content = << >>
          /\ adding[i].fenced => lines[line_number].body \notin TextBodies

\* What is left of a line with text has text.
TextLeft == Unplaced /\ body \notin TextBodies => lines[line_number].body \notin TextBodies

TInv ==
    /\ IsSeq(lines) /\ Placed \in Nat
    /\ Written(lines, blocks, refmap, Placed)
    /\ LeavesLast(blocks, Unmatched)
    /\ Heads(lines, blocks)
    /\ TextLeft
    /\ pc = "add" => AddsText

LEMMA InitiallyNone ==
    ASSUME Init
    PROVE  TInv
<1> DEFINE d == [Block("document") EXCEPT !.start_line = 1]
<1>1. /\ lines = << >> /\ refmap = << >> /\ pc = "idle" /\ blocks = <<d>>
  BY DEF Init
<1>2. d.type = "document" /\ d.content = << >> /\ d.fenced = FALSE
  BY DEF Block
<1> HIDE DEF d
<1>3. /\ Len(blocks) = 1 /\ blocks[1] = d /\ \A b \in 1 .. Len(blocks) : b = 1
  BY <1>1
<1>4. /\ Len(lines) = 0 /\ IsSeq(lines) /\ Len(refmap) = 0 /\ IsSeq(refmap)
  BY <1>1 DEF IsSeq
<1>5. ~Unplaced /\ Placed = 0 /\ Unmatched = {}
  BY <1>1, <1>4 DEF Unplaced, Placed, Unmatched, line_number
<1>6. \A b \in 1 .. Len(blocks) :
          blocks[b].content = << >> /\ Len(blocks[b].content) = 0 /\ blocks[b].type \in Holders
          /\ ~blocks[b].fenced
  BY <1>2, <1>3 DEF Holders
<1>7. Written(lines, blocks, refmap, 0)
  <2>1. Sorted(blocks)
    BY <1>6 DEF Sorted
  <2>2. \A k : ~Held(blocks, k) /\ ~Taken(refmap, k)
    BY <1>4, <1>6 DEF Held, Taken
  <2>3. Distinct(refmap)
    BY <1>4 DEF Distinct
  <2> QED BY <1>4, <1>6, <2>1, <2>2, <2>3 DEF Written
<1>8. LeavesLast(blocks, Unmatched) /\ Heads(lines, blocks)
  BY <1>6 DEF LeavesLast, Heads
<1> QED BY <1>1, <1>4, <1>5, <1>7, <1>8 DEF TInv, TextLeft

\* Nothing is written.
LEMMA TextUnmoved ==
    ASSUME TInv, lines' = lines, blocks' = blocks, refmap' = refmap, Placed' = Placed,
           Unmatched \subseteq Unmatched', TextLeft', pc' = "add" => AddsText'
    PROVE  TInv'
<1>1. IsSeq(lines') /\ Placed' \in Nat /\ Written(lines', blocks', refmap', Placed')
      /\ Heads(lines', blocks')
  BY DEF TInv
<1>2. LeavesLast(blocks', Unmatched')
  BY DEF TInv, LeavesLast
<1> QED BY ONLY <1>1, <1>2, TextLeft', pc' = "add" => AddsText' DEF TInv

LEMMA TextOfNextLine ==
    ASSUME IInv, TInv, NEW l, S_process_line(l)
    PROVE  TInv'
<1>1. /\ pc = "idle" /\ pc' = "check" /\ lines' = Append(lines, l) /\ body' = l.body
      /\ blocks' = blocks /\ refmap' = refmap
  BY DEF S_process_line
<1> DEFINE n == Len(lines)
<1>2. /\ IsSeq(lines) /\ n \in Nat /\ Placed = n /\ Unmatched = {}
      /\ Written(lines, blocks, refmap, n) /\ LeavesLast(blocks, {}) /\ Heads(lines, blocks)
  <2>1. ~Unplaced /\ Unmatched = {}
    BY <1>1 DEF Unplaced, Unmatched
  <2> QED BY <2>1 DEF TInv, Placed, line_number, IsSeq
<1>3. /\ IsSeq(lines') /\ Len(lines') = n + 1 /\ lines'[n + 1] = l
      /\ \A i \in 1 .. n : lines'[i] = lines[i]
  BY <1>1, <1>2, Appended
<1> HIDE DEF n
<1>4. Placed' = n /\ Unmatched' = {}
  BY <1>1, <1>2, <1>3 DEF Placed, Unplaced, line_number, Unmatched
<1>5. Written(lines', blocks', refmap', n)
  BY <1>1, <1>2, <1>3 DEF Written
<1>6. Heads(lines', blocks')
  <2> SUFFICES ASSUME NEW b \in 1 .. Len(blocks), blocks[b].open, blocks[b].fenced
               PROVE  /\ blocks[b].content # << >>
                      /\ lines'[blocks[b].content[1].line].body \notin TextBodies
    BY <1>1 DEF Heads
  <2>1. blocks[b].content # << >>
    BY <1>1 DEF IInv, FencesFilled
  <2>2. 1 \in 1 .. Len(blocks[b].content)
    <3>1. IsSeq(blocks[b].content)
      BY WellBuiltFields DEF IInv
    <3> QED BY <2>1, <3>1 DEF IsSeq
  <2>3. blocks[b].content[1].line \in 1 .. n
    <3>1. Held(blocks, blocks[b].content[1].line)
      BY <2>2 DEF Held
    <3> QED BY <1>2, <3>1 DEF Written
  <2>4. lines[blocks[b].content[1].line].body \notin TextBodies
    BY <1>2, <2>1 DEF Heads
  <2> QED BY <1>3, <2>1, <2>3, <2>4
<1>7. TextLeft'
  BY <1>1, <1>3 DEF TextLeft, line_number
<1>8. LeavesLast(blocks', {})
  BY <1>1, <1>2
<1>9. pc' # "add"
  BY <1>1
<1> QED BY ONLY <1>2, <1>3, <1>4, <1>5, <1>6, <1>7, <1>8, <1>9 DEF TInv

LEMMA TextWhileMatching ==
    ASSUME TInv, CheckNext \/ CheckDone \/ OpenNothing \/ cmark_parser_finish
    PROVE  TInv'
<1>1. /\ lines' = lines /\ blocks' = blocks /\ refmap' = refmap /\ body' = body
      /\ \/ pc = "check" /\ pc' \in {"check", "open"}
         \/ /\ pc = "open" /\ pc' = "text" /\ container' = container
            /\ last_matched' = last_matched /\ current' = current
         \/ pc = "idle" /\ pc' = "finish"
  BY DEF CheckNext, CheckDone, OpenNothing, cmark_parser_finish, input
<1>2. Placed' = Placed /\ (Unplaced' <=> Unplaced) /\ pc' # "add"
  BY <1>1 DEF Placed, Unplaced, line_number
<1>3. Unmatched \subseteq Unmatched'
  BY <1>1 DEF Unmatched
<1>4. TextLeft'
  BY <1>1, <1>2 DEF TInv, TextLeft, line_number
<1> QED BY <1>1, <1>2, <1>3, <1>4, TextUnmoved

\* A line opens blocks that are empty.
LEMMA TextToAdd ==
    ASSUME TInv, NEW what, NEW new, NEW r, NEW b, Open(what, new, r, b),
           b \notin TextBodies => body \notin TextBodies,
           \A i \in 1 .. Len(new) :
               /\ new[i].type # "paragraph" /\ new[i].content = << >>
               /\ new[i].fenced => body \notin TextBodies
    PROVE  TInv'
<1>1. /\ lines' = lines /\ blocks' = blocks /\ refmap' = refmap /\ body' = b
      /\ pc = "open" /\ pc' = "add" /\ adding' = new /\ container' = container
      /\ last_matched' = last_matched /\ current' = current
  BY DEF Open
<1>2. Placed' = Placed /\ Unplaced' /\ Unplaced
  BY <1>1 DEF Placed, Unplaced, line_number
<1>3. Unmatched \subseteq Unmatched'
  BY <1>1 DEF Unmatched
<1>4. body \notin TextBodies => lines[line_number].body \notin TextBodies
  BY <1>2 DEF TInv, TextLeft
<1>5. line_number' = line_number
  BY <1>1 DEF line_number
<1>6. TextLeft'
  BY <1>1, <1>2, <1>4, <1>5 DEF TextLeft
<1>7. AddsText'
  BY <1>1, <1>4, <1>5 DEF AddsText
<1> QED BY <1>1, <1>2, <1>3, <1>6, <1>7, TextUnmoved

LEMMA TextOfOneBlock ==
    ASSUME TInv, NEW what, NEW e, NEW r, NEW b, Open(what, <<e>>, r, b),
           b \notin TextBodies => body \notin TextBodies,
           e.type # "paragraph", e.content = << >>, e.fenced => body \notin TextBodies
    PROVE  TInv'
<1> DEFINE new == <<e>>
<1>1. Len(new) = 1 /\ new[1] = e /\ \A i \in 1 .. Len(new) : i = 1
  OBVIOUS
<1>2. Open(what, new, r, b)
  OBVIOUS
<1> HIDE DEF new
<1>3. \A i \in 1 .. Len(new) :
          /\ new[i].type # "paragraph" /\ new[i].content = << >>
          /\ new[i].fenced => body \notin TextBodies
  BY <1>1
<1> QED BY <1>2, <1>3, TextToAdd

\* Of a heading, a fence or a thematic break only what is not text is left out.
LEMMA TextOfOpening ==
    ASSUME TInv,
           \/ OpenQuote \/ OpenHeading \/ OpenFence \/ OpenHTML \/ OpenBreak \/ OpenFootnote
           \/ OpenList \/ OpenCode
    PROVE  TInv'
<1>0. "text" \in TextBodies /\ "fence" \notin TextBodies /\ "break" \notin TextBodies
  BY DEF TextBodies, Bodies
<1>1. CASE OpenQuote
  <2>1. Open("block_quote", <<Block("block_quote")>>, Advanced(indent + 1), body)
    BY <1>1 DEF OpenQuote
  <2> QED BY <2>1, NewBlock, TextOfOneBlock
<1>2. CASE OpenHeading
  <2>1. Open("heading", <<Block("heading")>>, << >>, "text")
    BY <1>2 DEF OpenHeading
  <2> QED BY <1>0, <2>1, NewBlock, TextOfOneBlock
<1>3. CASE OpenFence
  <2> DEFINE e == [Block("code_block") EXCEPT !.fenced = TRUE, !.need = indent]
  <2>1. Open("fence", <<e>>, << >>, "blank")
    BY <1>3 DEF OpenFence
  <2>2. e.type = "code_block" /\ e.content = << >>
    BY DEF Block
  <2> HIDE DEF e
  <2>3. At("fence")
    BY <2>1 DEF Open, Opening
  <2>4. body \notin TextBodies
    BY <1>0, <2>3 DEF At
  <2> QED BY <2>1, <2>2, <2>4, TextOfOneBlock
<1>4. CASE OpenHTML
  <2> DEFINE e == [Block("html_block") EXCEPT !.kind = body]
  <2>1. Open("html", <<e>>, rest, body)
    BY <1>4 DEF OpenHTML
  <2>2. e.type = "html_block" /\ e.content = << >> /\ e.fenced = FALSE
    BY DEF Block
  <2> HIDE DEF e
  <2> QED BY <2>1, <2>2, TextOfOneBlock
<1>5. CASE OpenBreak
  <2>1. Open("thematic_break", <<Block("thematic_break")>>, << >>, "blank")
    BY <1>5 DEF OpenBreak
  <2>2. At("break")
    BY <2>1 DEF Open, Opening
  <2>3. body \notin TextBodies
    BY <1>0, <2>2 DEF At
  <2> QED BY <2>1, <2>3, NewBlock, TextOfOneBlock
<1>6. CASE OpenFootnote
  <2>1. \E r : Open("footnote_definition", <<Block("footnote_definition")>>, r, body)
    BY <1>6 DEF OpenFootnote
  <2> QED BY <2>1, NewBlock, TextOfOneBlock
<1>7. CASE OpenList
  <2> DEFINE after == Advanced(indent + 1)
             i == IF Indent(after) >= 2 \/ (body = "blank" /\ Indent(after) = Len(after))
                  THEN 0 ELSE Indent(after)
             list == [Block("list") EXCEPT !.kind = marker]
             item == [Block("item") EXCEPT !.kind = marker, !.need = indent + 1 + i]
             left == SubSeq(after, i + 1, Len(after))
             both == <<list, item>>
  <2>1. \/ Open("list", <<item>>, left, body)
        \/ Open("list", both, left, body)
    BY <1>7 DEF OpenList
  <2>2. list.type = "list" /\ list.content = << >> /\ list.fenced = FALSE
    BY DEF Block
  <2>3. item.type = "item" /\ item.content = << >> /\ item.fenced = FALSE
    BY DEF Block
  <2> HIDE DEF list, item, left
  <2>4. Len(both) = 2 /\ both[1] = list /\ both[2] = item
    OBVIOUS
  <2> HIDE DEF both
  <2>5. CASE Open("list", <<item>>, left, body)
    BY <2>3, <2>5, TextOfOneBlock
  <2>6. CASE Open("list", both, left, body)
    <3>1. \A j \in 1 .. Len(both) : j = 1 \/ j = 2
      BY <2>4
    <3>2. \A j \in 1 .. Len(both) :
              /\ both[j].type # "paragraph" /\ both[j].content = << >>
              /\ both[j].fenced => body \notin TextBodies
      BY <2>2, <2>3, <2>4, <3>1
    <3> QED BY <2>6, <3>2, TextToAdd
  <2> QED BY <2>1, <2>5, <2>6
<1>8. CASE OpenCode
  <2>1. Open("code", <<Block("code_block")>>, Advanced(2), body)
    BY <1>8 DEF OpenCode
  <2> QED BY <2>1, NewBlock, TextOfOneBlock
<1> QED BY <1>1, <1>2, <1>3, <1>4, <1>5, <1>6, <1>7, <1>8

\* What is restyled is open, and fenced, and a leaf where it was.
LEMMA LeavesRestyled ==
    ASSUME NEW bs, NEW cs, NEW A, Restyled(bs, cs), LeavesLast(bs, A)
    PROVE  LeavesLast(cs, A)
<1>1. "paragraph" \notin Holders /\ "heading" \notin Holders
  BY DEF Holders
<1>2. \A b \in 1 .. Len(bs) :
          /\ cs[b].open <=> bs[b].open
          /\ cs[b].type \notin Holders => bs[b].type \notin Holders
  BY <1>1 DEF Restyled
<1> QED BY <1>2 DEF LeavesLast, Restyled

\* The setext line is no text, and of the paragraph only definitions are taken.
LEMMA TextOfSetext ==
    ASSUME IInv, TInv, OpenSetext
    PROVE  TInv'
<1> DEFINE k == container
<1>1. /\ pc = "open" /\ pc' = "text" /\ Opening = "setext" /\ blocks' = Setext(k)
      /\ refmap' = ResolvedMap(blocks, k) /\ lines' = lines
      /\ container' = container /\ last_matched' = last_matched /\ current' = current
      /\ body' \in {"blank", body}
  BY DEF OpenSetext, Setext
<1>2. blocks[k].type = "paragraph" /\ body = "setext"
  BY <1>1 DEF Opening, type, At
<1>3. WellBuilt(blocks) /\ k \in 1 .. Len(blocks)
  BY <1>1 DEF IInv, Opened, Chain, Kept
<1>4. /\ Placed' = Placed /\ Placed \in Nat /\ Unplaced /\ line_number' = line_number
      /\ Unmatched' = Unmatched
      /\ Written(lines, blocks, refmap, Placed) /\ LeavesLast(blocks, Unmatched)
      /\ Heads(lines, blocks) /\ IsSeq(lines) /\ TextLeft
  BY <1>1 DEF Placed, Unplaced, line_number, Unmatched, TInv
<1> HIDE DEF k
<1>5. /\ Restyled(blocks, blocks')
      /\ \A b \in 1 .. Len(blocks) : b # k => blocks'[b] = blocks[b]
      /\ blocks'[k].content = SubSeq(blocks[k].content, Definitions(blocks[k].content) + 1,
                                     Len(blocks[k].content))
  BY <1>1, <1>2, <1>3, SetextRestyles
<1>6. \A b \in 1 .. Len(blocks) : blocks'[b].type = "freed" =>
          (b # k /\ blocks[b].type = "freed") \/ blocks'[b].content = << >>
  <2>1. blocks'[k].type \in {"paragraph", "heading"}
    BY ONLY <1>2, <1>3, <1>5 DEF Restyled
  <2> QED BY ONLY <1>5, <2>1
<1>7. Written(lines, blocks', refmap', Placed)
  <2>1. Len(blocks') = Len(blocks)
    BY <1>5 DEF Restyled
  <2>2. \A b \in 1 .. Len(blocks) : b # k => blocks'[b].content = blocks[b].content
    BY ONLY <1>5
  <2>3. Written(lines, blocks', ResolvedMap(blocks, k), Placed)
    BY ONLY <1>3, <1>4, <1>5, <1>6, <2>1, <2>2, ResolvedWritten
  <2> QED BY <1>1, <2>3
<1>8. LeavesLast(blocks', Unmatched)
  BY <1>4, <1>5, LeavesRestyled
<1>9. Heads(lines, blocks')
  <2>1. ~blocks[k].fenced
    BY <1>2, <1>3 DEF WellBuilt, IsBlock
  <2>2. ASSUME NEW b \in 1 .. Len(blocks), blocks'[b].open, blocks'[b].fenced
        PROVE  b # k /\ blocks'[b] = blocks[b]
    BY ONLY <1>5, <2>1, <2>2 DEF Restyled
  <2>3. Len(blocks') = Len(blocks)
    BY <1>5 DEF Restyled
  <2> QED BY ONLY <1>4, <2>2, <2>3 DEF Heads
<1>10. TextLeft'
  <2>1. "setext" \notin TextBodies
    BY DEF TextBodies
  <2> QED BY <1>1, <1>2, <1>4, <2>1 DEF TextLeft
<1>11. pc' # "add"
  BY <1>1
<1> QED BY ONLY <1>1, <1>4, <1>7, <1>8, <1>9, <1>10, <1>11 DEF TInv

\* finalize, wherever it is called.
LEMMA TextFinalized ==
    ASSUME IInv, TInv, NEW k \in 1 .. Len(blocks), blocks[k].open, finalize(k),
           blocks[k].fenced => blocks[k].content # << >>
    PROVE  /\ Written(lines, blocks', refmap', Placed)
           /\ LeavesLast(blocks', Unmatched)
           /\ Heads(lines, blocks')
<1>1. WellBuilt(blocks) /\ Written(lines, blocks, refmap, Placed) /\ Placed \in Nat
      /\ LeavesLast(blocks, Unmatched) /\ Heads(lines, blocks)
  BY DEF IInv, TInv
<1>2. Finalized(blocks, blocks', k)
  BY <1>1, ClosedFinalizes DEF finalize
<1>3. blocks[k].fenced => lines[blocks[k].content[1].line].body \notin TextBodies
  BY <1>1 DEF Heads
<1>4. Written(lines, blocks', refmap', Placed)
  BY <1>1, <1>3, FinalizeWrites
<1>5. \A b \in 1 .. Len(blocks) : blocks'[b].open =>
          /\ blocks[b].open /\ blocks'[b].type = blocks[b].type
          /\ blocks'[b].content = blocks[b].content /\ (blocks'[b].fenced <=> blocks[b].fenced)
  BY <1>2 DEF Finalized
<1>6. Len(blocks') = Len(blocks)
  BY <1>2 DEF Finalized
<1> QED BY <1>1, <1>4, <1>5, <1>6 DEF LeavesLast, Heads

LEMMA TextOfFence ==
    ASSUME IInv, TInv, CheckFence
    PROVE  TInv'
<1> DEFINE k == next_open
<1>1. /\ pc = "check" /\ pc' = "idle" /\ k # NULL /\ blocks[k].fenced /\ lines' = lines
      /\ finalize(k) /\ body = "fence"
  BY DEF CheckFence, ClosesFence, At
<1>2. k \in 1 .. Len(blocks) /\ blocks[k].open
  <2> DEFINE c == last_child(blocks, container)
  <2>1. c # NULL /\ blocks[c].open /\ k = c
    BY <1>1 DEF next_open
  <2>2. c \in Children(blocks, container)
    BY <2>1, WellBuiltFields, ChildrenBound DEF IInv
  <2> QED BY <2>1, <2>2 DEF Children
<1> HIDE DEF k
<1>3. blocks[k].content # << >>
  BY <1>1, <1>2 DEF IInv, FencesFilled
<1>4. /\ Written(lines, blocks', refmap', Placed) /\ LeavesLast(blocks', Unmatched)
      /\ Heads(lines, blocks')
  BY <1>1, <1>2, <1>3, TextFinalized
<1>5. /\ IsSeq(lines) /\ Placed \in Nat /\ Placed = Len(lines) - 1 /\ Placed' = Len(lines)
      /\ Len(lines) \in Nat /\ Unmatched = {} /\ Unmatched' = {} /\ ~Unplaced'
      /\ lines[Len(lines)].body \notin TextBodies
  <2>1. Unplaced /\ ~Unplaced' /\ "fence" \notin TextBodies
    BY <1>1 DEF Unplaced, TextBodies
  <2>2. lines[Len(lines)].body \notin TextBodies
    BY <1>1, <2>1 DEF TInv, TextLeft, line_number
  <2> QED BY <1>1, <2>1, <2>2 DEF TInv, Placed, line_number, Unmatched, IsSeq
<1>6. Written(lines, blocks', refmap', Placed')
  <2>1. Placed' = Placed + 1 /\ Placed + 1 = Len(lines)
    BY <1>5
  <2>2. Written(lines, blocks', refmap', Placed + 1)
    BY <1>4, <1>5, <2>1, SkippedWritten
  <2> QED BY <2>1, <2>2
<1>7. TextLeft' /\ pc' # "add"
  BY <1>1, <1>5 DEF TextLeft
<1>8. Placed' \in Nat
  BY <1>5
<1> QED BY ONLY <1>1, <1>4, <1>5, <1>6, <1>7, <1>8 DEF TInv

LEMMA TextOfBackUp ==
    ASSUME IInv, TInv, BackUp
    PROVE  TInv'
<1>1. /\ pc = "add" /\ pc' = "add" /\ finalize(container) /\ lines' = lines /\ body' = body
      /\ adding' = adding /\ last_matched' = last_matched /\ current' = current
  BY DEF BackUp, input
<1>2. /\ container \in 1 .. Len(blocks) /\ blocks[container].open
      /\ type(container) # "code_block" /\ WellBuilt(blocks)
  BY <1>1 DEF IInv, Opened, Chain, Kept, Adding
<1>3. ~blocks[container].fenced
  BY <1>2 DEF WellBuilt, IsBlock, type
<1>4. /\ Written(lines, blocks', refmap', Placed) /\ LeavesLast(blocks', Unmatched)
      /\ Heads(lines, blocks')
  BY <1>1, <1>2, <1>3, TextFinalized
<1>5. /\ Placed' = Placed /\ Unmatched' = Unmatched /\ IsSeq(lines) /\ Placed \in Nat
      /\ (Unplaced' <=> Unplaced) /\ line_number' = line_number
  BY <1>1 DEF Placed, Unplaced, line_number, Unmatched, TInv
<1>6. TextLeft' /\ AddsText'
  BY <1>1, <1>5 DEF TInv, TextLeft, AddsText
<1> QED BY ONLY <1>1, <1>4, <1>5, <1>6 DEF TInv

LEMMA TextOfUnmatched ==
    ASSUME IInv, TInv, CloseUnmatched
    PROVE  TInv'
<1>1. /\ pc = "close" /\ pc' = "close" /\ current # last_matched /\ finalize(current)
      /\ current' = blocks[current].parent /\ container' = container
      /\ last_matched' = last_matched /\ lines' = lines /\ body' = body
  BY DEF CloseUnmatched, input
<1>2. /\ WellBuilt(blocks) /\ Hanging(blocks, last_matched, current)
      /\ Chain(blocks, Kept(blocks, last_matched, current), container)
  BY <1>1 DEF IInv, Opened
<1>3. /\ blocks[current].open /\ current \in 1 .. Len(blocks) /\ last_matched \in 1 .. current
      /\ Len(blocks) \in Nat
  BY <1>1, <1>2, WellBuiltFields DEF Hanging
<1>4. blocks[current].fenced => blocks[current].content # << >>
  BY <1>3 DEF IInv, FencesFilled
<1>5. /\ Written(lines, blocks', refmap', Placed) /\ LeavesLast(blocks', Unmatched)
      /\ Heads(lines, blocks')
  BY <1>1, <1>3, <1>4, TextFinalized
<1>6. Finalized(blocks, blocks', current)
  BY <1>1, <1>2, <1>3, ClosedFinalizes DEF finalize
<1>7. current' \in last_matched .. current - 1
  BY <1>1, <1>2, <1>6, HangingClosed
<1>8. LeavesLast(blocks', Unmatched')
  <2> SUFFICES ASSUME NEW b \in 1 .. Len(blocks'), blocks'[b].open, blocks'[b].type \notin Holders,
                      b # Len(blocks')
               PROVE  b \in Unmatched'
    BY DEF LeavesLast
  <2>1. b \in last_matched + 1 .. current
    BY <1>1, <1>5 DEF LeavesLast, Unmatched
  <2>2. b # current /\ blocks[b].open
    BY <1>6 DEF Finalized
  <2>3. b <= blocks[current].parent
    <3>1. current \in last_matched + 1 .. current /\ b < current
      BY <1>1, <1>3, <2>1, <2>2
    <3> QED BY <1>2, <1>3, <2>1, <2>2, <3>1 DEF Hanging
  <2>4. b \in last_matched + 1 .. current'
    BY <1>1, <1>3, <1>7, <2>1, <2>3
  <2> QED BY <1>1, <2>4 DEF Unmatched
<1>9. /\ Placed' = Placed /\ IsSeq(lines) /\ Placed \in Nat
      /\ (Unplaced' <=> Unplaced) /\ line_number' = line_number
  BY <1>1 DEF Placed, Unplaced, line_number, TInv
<1>10. TextLeft' /\ pc' # "add"
  BY <1>1, <1>9 DEF TInv, TextLeft
<1> QED BY ONLY <1>1, <1>5, <1>8, <1>9, <1>10 DEF TInv

\* Between lines, and at the end of the document.
LEMMA TextOfCurrent ==
    ASSUME IInv, TInv, pc \in {"html_end", "finish"}, finalize(current), lines' = lines,
           pc' \in {"idle", "finish", "done"}
    PROVE  TInv'
<1>1. Chain(blocks, 1 .. Len(blocks), current)
  BY DEF IInv, Matching
<1>2. current \in 1 .. Len(blocks) /\ blocks[current].open
  BY <1>1 DEF Chain
<1>3. blocks[current].fenced => blocks[current].content # << >>
  BY <1>2 DEF IInv, FencesFilled
<1>4. /\ Written(lines, blocks', refmap', Placed) /\ LeavesLast(blocks', Unmatched)
      /\ Heads(lines, blocks')
  BY <1>2, <1>3, TextFinalized
<1>5. /\ Placed' = Placed /\ IsSeq(lines) /\ Placed \in Nat /\ ~Unplaced'
      /\ Unmatched = {} /\ Unmatched' = {}
  BY DEF Placed, Unplaced, line_number, Unmatched, TInv
<1>6. TextLeft' /\ pc' # "add"
  BY <1>5 DEF TextLeft
<1>7. lines' = lines
  OBVIOUS
<1> QED BY ONLY <1>4, <1>5, <1>6, <1>7 DEF TInv

\* What add_line makes of the block it is given.
LEMMA LineContent ==
    ASSUME NEW bs, WellBuilt(bs), NEW k \in 1 .. Len(bs), NEW lead
    PROVE  /\ WithLine(bs, k, lead)[k].content = Append(bs[k].content, Entry(lead))
           /\ WithLine(bs, k, lead)[k].type = bs[k].type
<1> DEFINE c == Append(bs[k].content, Entry(lead))
           e == [bs[k] EXCEPT !.content = c]
<1>1. WithLine(bs, k, lead) = Put(bs, k, e)
  BY DEF WithLine, Put
<1>2. DOMAIN bs[k] = Fields /\ IsSeq(bs)
  BY WellBuiltFields
<1> HIDE DEF c
<1>3. e.content = c /\ e.type = bs[k].type
  BY <1>2 DEF Fields
<1> HIDE DEF e
<1>4. Put(bs, k, e)[k] = e
  BY <1>2, PutSeq
<1> QED BY <1>1, <1>3, <1>4 DEF c

\* add_line puts the line at the end of all that is written, if the block is the last.
LEMMA LineAtEnd ==
    ASSUME NEW bs, WellBuilt(bs), NEW k, k = Len(bs), bs[k].open, NEW lead,
           NEW A, LeavesLast(bs, A), Heads(lines, bs),
           Placed \in Nat, line_number = Placed + 1, Written(lines, bs, refmap, Placed)
    PROVE  /\ Written(lines, WithLine(bs, k, lead), refmap, line_number)
           /\ LeavesLast(WithLine(bs, k, lead), A)
           /\ Heads(lines, WithLine(bs, k, lead))
<1> DEFINE cs == WithLine(bs, k, lead)
           s == bs[k].content
           t == cs[k].content
<1>1. /\ k \in 1 .. Len(bs) /\ Len(bs) \in Nat \ {0} /\ bs[k].type # "freed"
      /\ IsSeq(s) /\ Len(s) \in Nat
  BY WellBuiltFields DEF WellBuilt, IsBlock, root
<1>2. /\ Restyled(bs, cs) /\ \A b \in 1 .. Len(bs) : b # k => cs[b] = bs[b]
  BY <1>1, LineRestyles
<1>3. t = Append(s, Entry(lead)) /\ cs[k].type = bs[k].type
  BY <1>1, LineContent
<1> HIDE DEF cs, s, t
<1>4. /\ Len(t) = Len(s) + 1 /\ \A i \in 1 .. Len(s) : t[i] = s[i]
      /\ t[Len(s) + 1] = Entry(lead) /\ t # << >>
  BY <1>1, <1>3, Appended
<1>5. t[Len(s) + 1].line = line_number
  BY <1>4 DEF Entry
<1>6. Len(cs) = Len(bs)
  BY <1>2 DEF Restyled
<1>7. AtEnd(bs, cs, line_number)
  <2>1. \A b \in 1 .. Len(cs) - 1 : b \in 1 .. Len(bs) /\ b # k
    BY <1>1, <1>6
  <2>2. /\ cs[Len(cs)].type # "freed" /\ cs[Len(cs)].content = t
        /\ bs[Len(bs)].content = s
    BY <1>1, <1>3, <1>6 DEF t, s
  <2>3. Len(t) \in Nat \ {0} /\ t[Len(t)].line = line_number
    BY <1>1, <1>4, <1>5
  <2>4. /\ \A i \in 1 .. Len(t) - 1 : i \in 1 .. Len(s) /\ t[i] = s[i]
        /\ \A i \in 1 .. Len(s) : i \in 1 .. Len(t) - 1
    BY <1>1, <1>4
  <2> QED BY ONLY <1>1, <1>2, <1>6, <2>1, <2>2, <2>3, <2>4 DEF AtEnd
<1>8. Written(lines, cs, refmap, line_number)
  BY <1>7, AtEndWritten
<1>9. LeavesLast(cs, A)
  BY <1>2, LeavesRestyled
<1>10. Heads(lines, cs)
  <2> SUFFICES ASSUME NEW b \in 1 .. Len(bs), cs[b].open, cs[b].fenced
               PROVE  IF cs[b].content = << >> THEN lines[Len(lines)].body \notin TextBodies
                      ELSE lines[cs[b].content[1].line].body \notin TextBodies
    BY <1>6 DEF Heads
  <2>1. bs[b].open /\ bs[b].fenced
    BY <1>2 DEF Restyled
  <2>2. CASE b # k
    <3>1. cs[b] = bs[b]
      BY <1>2, <2>2
    <3> QED BY <2>1, <3>1 DEF Heads
  <2>3. CASE b = k
    <3>1. CASE s = << >>
      <4>1. lines[Len(lines)].body \notin TextBodies
        BY <2>1, <2>3, <3>1 DEF Heads, s
      <4>2. t[1].line = Len(lines)
        BY <1>5, <3>1 DEF line_number
      <4> QED BY <1>4, <2>3, <4>1, <4>2 DEF t
    <3>2. CASE s # << >>
      <4>1. 1 \in 1 .. Len(s)
        BY <1>1, <3>2 DEF IsSeq
      <4>2. t[1] = s[1]
        BY <1>4, <4>1
      <4>3. lines[s[1].line].body \notin TextBodies
        BY <2>1, <2>3, <3>2 DEF Heads, s
      <4> QED BY <1>4, <2>3, <4>2, <4>3 DEF t
    <3> QED BY <3>1, <3>2
  <2> QED BY <2>2, <2>3
<1> QED BY <1>8, <1>9, <1>10 DEF cs

LEMMA MarksWrite ==
    ASSUME WellBuilt(blocks), NEW A, LeavesLast(blocks, A), Heads(lines, blocks), NEW n,
           Written(lines, blocks, refmap, n)
    PROVE  /\ WellBuilt(Marked) /\ Len(Marked) = Len(blocks)
           /\ Written(lines, Marked, refmap, n) /\ LeavesLast(Marked, A)
           /\ Heads(lines, Marked)
<1> DEFINE ms == Marked
<1>1. /\ Restyled(blocks, ms)
      /\ \A b \in 1 .. Len(blocks) : ms[b].content = blocks[b].content
  BY MarkedRestyles
<1> HIDE DEF ms
<1>2. WellBuilt(ms) /\ Len(ms) = Len(blocks) /\ LeavesLast(ms, A)
  BY <1>1, RestyledWellBuilt, LeavesRestyled DEF Restyled
<1>3. \A b \in 1 .. Len(blocks) : ms[b].type = "freed" => blocks[b].type = "freed"
  BY <1>1 DEF Restyled
<1>4. Written(lines, ms, refmap, n)
  BY <1>1, <1>2, <1>3, SameWritten
<1>5. Heads(lines, ms)
  BY <1>1, <1>2 DEF Heads, Restyled
<1> QED BY <1>2, <1>4, <1>5 DEF ms

\* While a line is dealt with, those before it are placed.
LEMMA LinePlaced ==
    ASSUME TInv, Unplaced
    PROVE  /\ IsSeq(lines) /\ Placed \in Nat /\ line_number = Placed + 1 /\ line_number \in Nat
           /\ Len(lines) = line_number
BY DEF TInv, Placed, line_number, IsSeq

LEMMA TextOfLazyLine ==
    ASSUME IInv, TInv, LazyLine
    PROVE  TInv'
<1> DEFINE ms == Marked
<1>1. /\ pc = "text" /\ pc' = "idle" /\ current # last_matched /\ container = last_matched
      /\ blocks' = WithLine(ms, current, indent) /\ refmap' = refmap /\ lines' = lines
      /\ type(current) = "paragraph"
  BY DEF LazyLine, lazy
<1>2. /\ Unplaced /\ Unmatched = {} /\ ~Unplaced' /\ Unmatched' = {}
      /\ line_number' = line_number /\ Placed' = line_number
  BY <1>1 DEF Unplaced, Unmatched, Placed, line_number
<1>3. /\ WellBuilt(blocks) /\ current \in 1 .. Len(blocks) /\ blocks[current].open
  BY <1>1 DEF IInv, Opened, Hanging
<1>4. /\ Written(lines, blocks, refmap, Placed) /\ LeavesLast(blocks, {})
      /\ Heads(lines, blocks)
  BY <1>2 DEF TInv
<1>5. current = Len(blocks)
  <2>1. "paragraph" \notin Holders
    BY DEF Holders
  <2> QED BY <1>1, <1>3, <1>4, <2>1 DEF LeavesLast, type
<1>6. /\ WellBuilt(ms) /\ Len(ms) = Len(blocks) /\ Written(lines, ms, refmap, Placed)
      /\ LeavesLast(ms, {}) /\ Heads(lines, ms)
  BY <1>3, <1>4, MarksWrite
<1>7. ms[current].open
  BY <1>3, MarkedRestyles DEF Restyled
<1> HIDE DEF ms
<1>8. /\ IsSeq(lines) /\ Placed \in Nat /\ line_number = Placed + 1 /\ line_number \in Nat
  BY <1>2, LinePlaced
<1>9. /\ Written(lines, blocks', refmap, line_number) /\ LeavesLast(blocks', {})
      /\ Heads(lines, blocks')
  BY <1>1, <1>5, <1>6, <1>7, <1>8, LineAtEnd
<1>10. TextLeft' /\ pc' # "add"
  BY <1>1, <1>2 DEF TextLeft
<1> QED BY ONLY <1>1, <1>2, <1>8, <1>9, <1>10 DEF TInv

LEMMA TextOfMark ==
    ASSUME IInv, TInv, MarkLine
    PROVE  TInv'
<1>1. /\ pc = "text" /\ pc' = "close" /\ blocks' = Marked /\ refmap' = refmap
      /\ lines' = lines /\ body' = body /\ current' = current /\ last_matched' = last_matched
  BY DEF MarkLine, input
<1>2. /\ Placed' = Placed /\ (Unplaced' <=> Unplaced) /\ line_number' = line_number
      /\ Unmatched \subseteq Unmatched' /\ IsSeq(lines) /\ Placed \in Nat
  BY <1>1 DEF Placed, Unplaced, line_number, Unmatched, TInv
<1>3. /\ Written(lines, blocks', refmap, Placed) /\ LeavesLast(blocks', Unmatched)
      /\ Heads(lines, blocks')
  BY <1>1, MarksWrite DEF TInv, IInv
<1>4. LeavesLast(blocks', Unmatched')
  BY <1>2, <1>3 DEF LeavesLast
<1>5. TextLeft' /\ pc' # "add"
  BY <1>1, <1>2 DEF TInv, TextLeft
<1> QED BY ONLY <1>1, <1>2, <1>3, <1>4, <1>5 DEF TInv

LEMMA TextOfAddLine ==
    ASSUME IInv, TInv, AddLine
    PROVE  TInv'
<1>1. /\ Closing /\ TakesLine /\ pc' \in {"idle", "html_end"} /\ lines' = lines
      /\ refmap' = refmap /\ \E lead : blocks' = WithLine(blocks, container, lead)
  BY DEF AddLine
<1>2. /\ WellBuilt(blocks) /\ pc = "close" /\ current = last_matched
      /\ current \in 1 .. Len(blocks)
      /\ container \in 1 .. Len(blocks) /\ blocks[container].open
  BY <1>1, AllKept
<1>3. /\ Unplaced /\ Unmatched = {} /\ ~Unplaced' /\ Unmatched' = {}
      /\ line_number' = line_number /\ Placed' = line_number
  BY <1>1, <1>2 DEF Unplaced, Unmatched, Placed, line_number
<1>4. /\ Written(lines, blocks, refmap, Placed) /\ LeavesLast(blocks, {})
      /\ Heads(lines, blocks)
  BY <1>3 DEF TInv
<1>5. container = Len(blocks)
  <2>1. type(container) \notin Holders
    BY <1>1 DEF TakesLine, accepts_lines, Holders
  <2> QED BY <1>2, <1>4, <2>1 DEF LeavesLast, type
<1>6. /\ IsSeq(lines) /\ Placed \in Nat /\ line_number = Placed + 1 /\ line_number \in Nat
  BY <1>3, LinePlaced
<1>7. /\ Written(lines, blocks', refmap, line_number) /\ LeavesLast(blocks', {})
      /\ Heads(lines, blocks')
  BY <1>1, <1>2, <1>4, <1>5, <1>6, LineAtEnd
<1>8. TextLeft' /\ pc' # "add"
  BY <1>1, <1>3 DEF TextLeft
<1> QED BY ONLY <1>1, <1>3, <1>6, <1>7, <1>8 DEF TInv

\* A blank line that no block takes is no text.
LEMMA TextOfNothing ==
    ASSUME IInv, TInv, AddNothing
    PROVE  TInv'
<1>1. /\ Closing /\ blank /\ pc' = "idle" /\ lines' = lines
      /\ refmap' = refmap /\ blocks' = blocks
  BY DEF AddNothing
<1>2. pc = "close" /\ current = last_matched /\ current \in 1 .. Len(blocks)
  BY <1>1, AllKept
<1>3. /\ Unplaced /\ Unmatched = {} /\ ~Unplaced' /\ Unmatched' = {}
      /\ line_number' = line_number /\ Placed' = line_number
  BY <1>1, <1>2 DEF Unplaced, Unmatched, Placed, line_number
<1>4. /\ Written(lines, blocks, refmap, Placed) /\ LeavesLast(blocks, {})
      /\ Heads(lines, blocks)
  BY <1>3 DEF TInv
<1>5. /\ IsSeq(lines) /\ Placed \in Nat /\ line_number = Placed + 1 /\ line_number \in Nat
  BY <1>3, LinePlaced
<1>6. lines[line_number].body \notin TextBodies
  <2>1. body \notin TextBodies
    BY <1>1 DEF blank, TextBodies
  <2> QED BY <1>3, <2>1 DEF TInv, TextLeft
<1>7. Written(lines, blocks, refmap, line_number)
  BY <1>4, <1>5, <1>6, SkippedWritten
<1>8. TextLeft' /\ pc' # "add"
  BY <1>1, <1>3 DEF TextLeft
<1> QED BY ONLY <1>1, <1>3, <1>4, <1>5, <1>7, <1>8 DEF TInv

LEMMA TextOfParagraph ==
    ASSUME TInv, AddParagraph
    PROVE  TInv'
<1> DEFINE e == [Block("paragraph") EXCEPT !.content = <<Entry(0)>>]
           new == <<e>>
<1>1. /\ pc = "close" /\ pc' = "add" /\ adding' = new /\ lines' = lines /\ body' = body
      /\ blocks' = blocks /\ refmap' = refmap /\ current' = current
      /\ last_matched' = last_matched
  BY DEF AddParagraph, Closing, input
<1>2. /\ Placed' = Placed /\ (Unplaced' <=> Unplaced) /\ line_number' = line_number
      /\ Unmatched \subseteq Unmatched'
  BY <1>1 DEF Placed, Unplaced, line_number, Unmatched
<1>3. e.type = "paragraph" /\ Len(e.content) = 1 /\ e.content[1].line = line_number
  BY DEF Block, Entry
<1> HIDE DEF e
<1>4. Len(new) = 1 /\ new[1] = e
  OBVIOUS
<1> HIDE DEF new
<1>5. AddsText'
  BY <1>1, <1>2, <1>3, <1>4 DEF AddsText
<1>6. TextLeft'
  BY <1>1, <1>2 DEF TInv, TextLeft
<1> QED BY <1>1, <1>2, <1>5, <1>6, TextUnmoved

\* add_child: a paragraph comes with the line, other blocks are empty.
LEMMA TextOfChild ==
    ASSUME IInv, TInv, add_child
    PROVE  TInv'
<1> DEFINE K == Kept(blocks, last_matched, current)
           n == Len(blocks) + 1
           e == [Head(adding) EXCEPT !.parent = container]
           ty == adding[1].type
<1>1. /\ pc = "add" /\ can_contain(type(container), Head(adding).type)
      /\ blocks' = Append(blocks, e) /\ container' = Len(blocks') /\ adding' = Tail(adding)
      /\ current' = IF Head(adding).type = "paragraph" THEN container' ELSE current
      /\ pc' = AfterChild(Head(adding).type) /\ body' = body
      /\ last_matched' = last_matched /\ lines' = lines /\ refmap' = refmap
  BY DEF add_child, input
<1>2. /\ WellBuilt(blocks) /\ Chain(blocks, K, container)
      /\ Hanging(blocks, last_matched, current) /\ Adding
  BY <1>1 DEF IInv, Opened
<1>3. /\ K \in SUBSET (1 .. Len(blocks)) /\ Len(blocks) \in Nat /\ IsSeq(blocks)
      /\ current \in 1 .. Len(blocks) /\ last_matched \in 1 .. current
  BY <1>2, WellBuiltFields DEF Kept, Hanging
<1>4. /\ Head(adding) = adding[1] /\ Len(adding') = Len(adding) - 1
      /\ Len(adding) = 2 => adding'[1] = adding[2]
      /\ Len(adding) \in {1, 2} /\ IsBlock(adding[1])
      /\ Len(adding) = 2 => ty = "list"
  BY <1>1, <1>2, HeadIsFirst DEF Adding
<1>5. /\ e.type = ty /\ e.content = adding[1].content /\ e.fenced = adding[1].fenced
      /\ adding[1].fenced => ty = "code_block"
  BY <1>4 DEF IsBlock, Fields
<1>6. blocks[container].type \in Holders
  BY <1>1 DEF can_contain, type, Holders
<1> HIDE DEF e
<1>7. /\ Len(blocks') = n /\ blocks'[n] = e
      /\ \A b \in 1 .. Len(blocks) : blocks'[b] = blocks[b]
  BY <1>1, <1>3, Appended
<1>8. /\ Unplaced /\ Unmatched = last_matched + 1 .. current /\ line_number' = line_number
  BY <1>1 DEF Unplaced, Unmatched, line_number
<1>9. /\ IsSeq(lines) /\ Placed \in Nat /\ line_number = Placed + 1 /\ line_number \in Nat
      /\ Len(lines) = line_number
  BY <1>8, LinePlaced
<1>10. /\ Written(lines, blocks, refmap, Placed) /\ LeavesLast(blocks, Unmatched)
       /\ Heads(lines, blocks) /\ AddsText
  BY <1>1 DEF TInv
<1>11. LeavesLast(blocks', Unmatched)
  <2> SUFFICES ASSUME NEW b \in 1 .. Len(blocks'), blocks'[b].open,
                      blocks'[b].type \notin Holders, b # Len(blocks'), b \notin Unmatched
               PROVE  FALSE
    BY DEF LeavesLast
  <2>1. b \in 1 .. Len(blocks) /\ blocks'[b] = blocks[b]
    BY <1>3, <1>7
  <2>2. b \in K
    BY <1>3, <1>8, <2>1 DEF Kept
  <2>3. blocks[b].open /\ blocks[b].type \notin Holders
    BY <2>1
  <2> HIDE DEF K
  <2>4. b = container
    BY <1>2, <1>3, <2>2, <2>3, TipHoldsNothing
  <2> QED BY <1>6, <2>3, <2>4
<1> HIDE DEF K
<1>12. ASSUME e.fenced => e.content = << >> /\ lines[Len(lines)].body \notin TextBodies
       PROVE  Heads(lines, blocks')
  <2> SUFFICES ASSUME NEW b \in 1 .. Len(blocks'), blocks'[b].open, blocks'[b].fenced
               PROVE  IF blocks'[b].content = << >>
                      THEN lines[Len(lines)].body \notin TextBodies
                      ELSE lines[blocks'[b].content[1].line].body \notin TextBodies
    BY DEF Heads
  <2>1. CASE b = n
    BY <1>7, <1>12, <2>1
  <2>2. CASE b # n
    <3>1. b \in 1 .. Len(blocks) /\ blocks'[b] = blocks[b]
      BY <1>3, <1>7, <2>2
    <3> QED BY <1>10, <3>1 DEF Heads
  <2> QED BY <2>1, <2>2
<1>13. CASE ty = "paragraph"
  <2>1. /\ Len(adding) = 1 /\ Len(e.content) = 1 /\ e.content[1].line = line_number
    BY <1>4, <1>5, <1>10, <1>13 DEF AddsText
  <2>2. pc' = "idle"
    BY <1>1, <1>4, <1>13, <2>1 DEF AfterChild
  <2>3. /\ ~Unplaced' /\ Unmatched' = {} /\ Placed' = line_number
    BY <1>8, <2>2 DEF Unplaced, Unmatched, Placed
  <2>4. Unmatched = {}
    <3>1. current = last_matched
      BY <1>2, <1>13 DEF Adding
    <3> QED BY <1>3, <1>8, <3>1
  <2>5. AtEnd(blocks, blocks', line_number)
    <3>1. n - 1 = Len(blocks) /\ n \in Nat \ {0}
      BY <1>3
    <3>2. \A b \in 1 .. n - 1 : b \in 1 .. Len(blocks)
      BY <3>1
    <3>3. e.type # "freed"
      BY <1>5, <1>13
    <3> HIDE DEF n
    <3> QED BY <1>3, <1>7, <2>1, <3>1, <3>2, <3>3 DEF AtEnd
  <2>6. Written(lines, blocks', refmap, line_number)
    BY <1>9, <1>10, <2>5, AtEndWritten
  <2>7. Heads(lines, blocks')
    BY <1>5, <1>12, <1>13
  <2>8. TextLeft' /\ pc' # "add"
    BY <2>2, <2>3 DEF TextLeft
  <2> QED BY ONLY <1>1, <1>9, <1>11, <2>3, <2>4, <2>6, <2>7, <2>8 DEF TInv
<1>14. CASE ty # "paragraph"
  <2>1. \A i \in 1 .. Len(adding) :
            /\ adding[i].type # "paragraph" /\ adding[i].content = << >>
            /\ adding[i].fenced => lines[line_number].body \notin TextBodies
    BY <1>10, <1>14 DEF AddsText
  <2>2. 1 \in 1 .. Len(adding) /\ (Len(adding) = 2 => 2 \in 1 .. Len(adding))
    BY <1>4
  <2>3. e.content = << >> /\ (e.fenced => lines[line_number].body \notin TextBodies)
    BY <1>5, <2>1, <2>2
  <2>4. /\ current' = current /\ pc' \in {"add", "text", "open"}
        /\ pc' = "add" => Len(adding) = 2
    <3>1. CASE Len(adding) = 2
      BY <1>1, <1>4, <1>14, <3>1 DEF AfterChild
    <3>2. CASE Len(adding) = 1
      <4>1. pc' = "text" \/ pc' = "open"
        BY <1>1, <1>4, <1>14, <3>2 DEF AfterChild
      <4> QED BY <1>1, <1>4, <1>14, <4>1
    <3> QED BY <1>4, <3>1, <3>2
  <2>5. Unplaced' /\ Placed' = Placed
    BY <1>8, <2>4 DEF Unplaced, Placed
  <2>6. Unmatched' = Unmatched
    <3>1. container' # last_matched'
      BY <1>1, <1>3, <1>7
    <3> QED BY <1>1, <1>8, <2>4, <3>1 DEF Unmatched
  <2>7. Written(lines, blocks', refmap, Placed)
    BY <1>3, <1>7, <1>10, <2>3, EmptyWritten
  <2>8. Heads(lines, blocks')
    BY <1>9, <1>12, <2>3
  <2>9. TextLeft'
    BY <1>1, <1>8, <2>5 DEF TInv, TextLeft
  <2>10. pc' = "add" => AddsText'
    <3> SUFFICES ASSUME pc' = "add"
                 PROVE  AddsText'
      OBVIOUS
    <3>1. Len(adding') = 1 /\ adding'[1] = adding[2] /\ \A i \in 1 .. Len(adding') : i = 1
      BY <1>4, <2>4
    <3>2. \A i \in 1 .. Len(adding') :
              /\ adding'[i].type # "paragraph" /\ adding'[i].content = << >>
              /\ adding'[i].fenced => lines'[line_number'].body \notin TextBodies
      BY <1>1, <1>8, <2>1, <2>2, <2>4, <3>1
    <3> QED BY ONLY <3>2 DEF AddsText
  <2> QED BY ONLY <1>1, <1>9, <1>11, <2>5, <2>6, <2>7, <2>8, <2>9, <2>10 DEF TInv
<1> QED BY <1>13, <1>14

LEMMA TextPreserved ==
    ASSUME IInv, TInv, [Next]_vars
    PROVE  TInv'
<1>1. CASE UNCHANGED vars
  <2>1. /\ pc' = pc /\ lines' = lines /\ blocks' = blocks /\ refmap' = refmap /\ body' = body
        /\ current' = current /\ container' = container /\ last_matched' = last_matched
        /\ adding' = adding
    BY <1>1 DEF vars, input
  <2>2. Placed' = Placed /\ Unmatched' = Unmatched /\ (Unplaced' <=> Unplaced)
        /\ line_number' = line_number
    BY <2>1 DEF Placed, Unmatched, Unplaced, line_number
  <2>3. TextLeft' /\ (pc' = "add" => AddsText')
    BY <2>1, <2>2 DEF TInv, TextLeft, AddsText
  <2> QED BY <2>1, <2>2, <2>3, TextUnmoved
<1>2. CASE \E l \in UNION {d.of : d \in Documents} : S_process_line(l)
  BY <1>2, TextOfNextLine
<1>3. CASE CheckNext \/ CheckDone \/ CheckFence
  BY <1>3, TextWhileMatching, TextOfFence
<1>4. CASE \/ OpenQuote \/ OpenHeading \/ OpenFence \/ OpenHTML \/ OpenBreak \/ OpenFootnote
           \/ OpenList \/ OpenCode
  BY <1>4, TextOfOpening
<1>5. CASE OpenSetext \/ OpenNothing
  BY <1>5, TextOfSetext, TextWhileMatching
<1>6. CASE BackUp \/ add_child
  BY <1>6, TextOfBackUp, TextOfChild
<1>7. CASE LazyLine \/ MarkLine \/ CloseUnmatched
  BY <1>7, TextOfLazyLine, TextOfMark, TextOfUnmatched
<1>8. CASE AddLine \/ AddNothing \/ AddParagraph
  BY <1>8, TextOfAddLine, TextOfNothing, TextOfParagraph
<1>9. CASE CloseHTML
  <2>1. pc = "html_end" /\ finalize(container) /\ pc' = "idle" /\ lines' = lines
    BY <1>9 DEF CloseHTML
  <2>2. container = current
    BY <2>1 DEF IInv
  <2> QED BY <2>1, <2>2, TextOfCurrent
<1>10. CASE cmark_parser_finish
  BY <1>10, TextWhileMatching
<1>11. CASE FinishBlock
  <2>1. /\ pc = "finish" /\ finalize(current) /\ lines' = lines
        /\ pc' \in {"finish", "done"}
    BY <1>11 DEF FinishBlock
  <2> QED BY <2>1, TextOfCurrent
<1>12. CASE Finished
  BY <1>1, <1>12 DEF Finished
<1> QED BY <1>1, <1>2, <1>3, <1>4, <1>5, <1>6, <1>7, <1>8, <1>9, <1>10, <1>11, <1>12
        DEF Next, InLine

\* Between the lines, and at the end, the text of every line is in the content of one block,
\* or was taken as a reference definition, once, and the blocks have the lines in their
\* order: none is lost, repeated or moved by lazy continuation, by closing what did not
\* match, by what finalize takes from a block, or by a setext line.
THEOREM BlocksTextOnce == Spec => []TextOnce
<1>1. IInv /\ TInv => TextOnce
  <2> SUFFICES ASSUME IInv, TInv, pc \in {"idle", "done"}
               PROVE  /\ InOrder(blocks)
                      /\ \A k \in 1 .. Len(lines) : lines[k].body \in TextBodies =>
                            Holds(blocks, k) \/ k \in ToSet(refmap)
                      /\ \A i, j \in 1 .. Len(refmap) : i # j => refmap[i] # refmap[j]
                      /\ \A k \in ToSet(refmap) : ~Holds(blocks, k)
    BY DEF TextOnce
  <2>1. Placed = Len(lines)
    BY DEF Placed, Unplaced, line_number
  <2>2. /\ IsSeq(refmap) /\ Distinct(refmap) /\ Sorted(blocks)
        /\ \A b \in 1 .. Len(blocks) : blocks[b].type = "freed" => blocks[b].content = << >>
        /\ \A k : Held(blocks, k) => ~Taken(refmap, k)
        /\ \A k \in 1 .. Len(lines) :
              lines[k].body \in TextBodies => Held(blocks, k) \/ Taken(refmap, k)
    BY <2>1 DEF TInv, Written
  <2>3. \A k : k \in ToSet(refmap) <=> Taken(refmap, k)
    BY <2>2 DEF ToSet, Taken, IsSeq
  <2>4. ASSUME NEW k
        PROVE  Holds(blocks, k) <=> Held(blocks, k)
    <3>1. ASSUME NEW b \in 1 .. Len(blocks)
          PROVE  k \in ToSet(LinesIn(blocks[b].content)) <=>
                    \E i \in 1 .. Len(blocks[b].content) : blocks[b].content[i].line = k
      BY DEF ToSet, LinesIn
    <3>2. \A b \in 1 .. Len(blocks) : blocks[b].type = "freed" =>
              ~\E i \in 1 .. Len(blocks[b].content) : blocks[b].content[i].line = k
      BY <2>2
    <3> QED BY <3>1, <3>2 DEF Holds, Held
  <2>5. InOrder(blocks)
    BY <2>2 DEF InOrder, Sorted
  <2> QED BY <2>2, <2>3, <2>4, <2>5 DEF Distinct
<1>2. Init => IInv /\ TInv
  BY Initially, InitiallyNone
<1>3. IInv /\ TInv /\ [Next]_vars => IInv' /\ TInv'
  BY Preserved, TextPreserved
<1> QED BY <1>1, <1>2, <1>3, PTL DEF Spec
===============================================================================

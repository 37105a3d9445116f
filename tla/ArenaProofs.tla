------------------------------ MODULE ArenaProofs ------------------------------
(***************************************************************************)
(* The safety properties of Arena, for any threads, requests and sizes.    *)
(* The chunks that A leads to are in the order of their pushes, and a push *)
(* point is where the level rises; so what a pop frees are the chunks, and *)
(* what it takes away the blocks, that were made since the push.           *)
(***************************************************************************)
EXTENDS Arena, TLAPS, SequenceTheorems, FiniteSetTheorems

Chunks == [sz : Nat, used : Nat, push_point : BOOLEAN, level : Nat]
Blocks == [chunk : Nat, from : Nat, level : Nat, size : Nat, copied : Nat]

Lone == \E t \in Threads : users = {t}

Types ==
    /\ users \subseteq Threads
    /\ depth \in Nat
    /\ pc \in [Threads -> {"idle", "init", "alloc"}]
    /\ request \in [Threads -> [words : Nat, old : Nat]]

\* Where a thread is in arena_calloc, and what it asks for: no pushes unless it is
\* alone, and an arena that was there when it tested A is there when it has the lock.
Calls ==
    /\ ~Lone => depth = 0
    /\ \A t \in Threads : pc[t] # "idle" =>
          t \in users /\ request[t].words > 0 /\ request[t].old < request[t].words
    /\ \A t \in Threads : pc[t] = "alloc" => chain # <<>>
    /\ \A t \in Threads : Lone /\ pc[t] = "init" => chain = <<>>

ChunksGood(cs, d) ==
    /\ cs \in [DOMAIN cs -> Chunks] /\ DOMAIN cs \subseteq 1 .. MaxChunks + 1
    /\ \A c \in DOMAIN cs : cs[c].used <= cs[c].sz /\ cs[c].level <= d

\* The chain ch: no chunk twice, the levels in order, higher by one after a push point
\* and the same where there is none, up to the depth of now.
ChainGood(ch, cs, d) ==
    /\ ch \in Seq(DOMAIN cs)
    /\ \A j, k \in 1 .. Len(ch) : j # k => ch[j] # ch[k]
    /\ \A j, k \in 1 .. Len(ch) : j <= k => cs[ch[j]].level <= cs[ch[k]].level
    /\ \A j, k \in 1 .. Len(ch) :
          j <= k /\ (\A i \in j .. k - 1 : ~cs[ch[i]].push_point) =>
              cs[ch[j]].level = cs[ch[k]].level
    /\ \A k \in 1 .. Len(ch) - 1 :
          cs[ch[k]].push_point => cs[ch[k + 1]].level = cs[ch[k]].level + 1
    /\ Len(ch) > 0 => cs[ch[Len(ch)]].level = d /\ ~cs[ch[Len(ch)]].push_point

\* Each block is within what its chunk has handed out, and of the level of it.
BlocksGood(bs, cs) ==
    /\ bs \subseteq Blocks
    /\ \A b \in bs : /\ b.chunk \in DOMAIN cs /\ b.copied <= b.size
                     /\ b.from + b.size <= cs[b.chunk].used
                     /\ b.level = cs[b.chunk].level
    /\ \A b, c \in bs : b # c /\ b.chunk = c.chunk =>
          b.from + b.size < c.from \/ c.from + c.size < b.from

IInv ==
    /\ Types /\ Calls
    /\ ChunksGood(chunks, depth) /\ ChainGood(chain, chunks, depth) /\ BlocksGood(blocks, chunks)
    /\ Lone => DOMAIN chunks = ToSet(chain)

-----------------------------------------------------------------------------
(* Sets of numbers *)

LEMMA HasLeast ==
    ASSUME NEW S \in SUBSET Nat, S # {}
    PROVE  \E m \in S : \A k \in S : m <= k
<1> DEFINE R == {ss \in Nat \X Nat : ss[1] < ss[2]}
<1>1. IsWellFoundedOn(R, Nat)
  BY NatLessThanWellFounded DEF OpToRel
<1>2. \E x \in S : \A y \in S : ~ (<<y, x>> \in R)
  <2> HIDE DEF R
  <2> QED BY <1>1, WFMin
<1>3. \A x, y \in S : <<y, x>> \in R <=> y < x
  OBVIOUS
<1> HIDE DEF R
<1>4. PICK x \in S : \A y \in S : ~(y < x)
  BY <1>2, <1>3
<1> QED BY <1>4

LEMMA HasGreatest ==
    ASSUME NEW n \in Nat, NEW S \in SUBSET (1 .. n), S # {}
    PROVE  \E m \in S : \A k \in S : k <= m
<1> DEFINE D == {d \in 0 .. n : n - d \in S}
<1>1. \A k \in S : n - k \in 0 .. n /\ n - (n - k) = k /\ k \in 1 .. n
  OBVIOUS
<1>2. \A k \in S : n - k \in D
  BY <1>1
<1>3. D \in SUBSET Nat /\ D # {}
  <2>1. PICK k \in S : TRUE
    OBVIOUS
  <2>2. n - k \in D
    BY <1>2, <2>1
  <2>3. \A d \in D : d \in Nat
    OBVIOUS
  <2> HIDE DEF D
  <2> QED BY <2>2, <2>3
<1>4. \A d \in D : d \in Nat /\ n - d \in S
  OBVIOUS
<1> HIDE DEF D
<1>5. PICK d \in D : \A k \in D : d <= k
  BY <1>3, HasLeast
<1>6. \A k \in S : k <= n - d
  BY <1>1, <1>2, <1>4, <1>5
<1> QED BY <1>4, <1>5, <1>6

\* There is a number for one more chunk.
LEMMA NewChunk ==
    ASSUME ChunksGood(chunks, depth), Room
    PROVE  new \in 1 .. MaxChunks + 1 /\ new \notin DOMAIN chunks
<1> DEFINE I == 1 .. MaxChunks + 1
<1>1. MaxChunks \in Nat
  BY ArenaAssumption
<1>2. IsFiniteSet(I) /\ Cardinality(I) = MaxChunks + 1
  BY <1>1, FS_Interval
<1>3. DOMAIN chunks # I
  BY <1>1, <1>2 DEF Room
<1>4. \E k \in I : k \notin DOMAIN chunks
  BY <1>3 DEF ChunksGood
<1> QED BY <1>4 DEF new

-----------------------------------------------------------------------------
(* The chain *)

\* Only levels and push points matter to the chain.
LEMMA SameChain ==
    ASSUME NEW ch, NEW cs, NEW cs2, NEW d, ChainGood(ch, cs, d), DOMAIN cs2 = DOMAIN cs,
           \A c \in DOMAIN cs : cs2[c].level = cs[c].level /\ cs2[c].push_point = cs[c].push_point
    PROVE  ChainGood(ch, cs2, d)
<1>1. \A k \in 1 .. Len(ch) : ch[k] \in DOMAIN cs
  BY ElementOfSeq DEF ChainGood
<1>2. Len(ch) \in Nat
  BY LenProperties DEF ChainGood
<1>3. \A k \in 1 .. Len(ch) : /\ cs2[ch[k]].level = cs[ch[k]].level
                              /\ cs2[ch[k]].push_point = cs[ch[k]].push_point
  BY <1>1
<1>4. ASSUME NEW j \in 1 .. Len(ch), NEW k \in 1 .. Len(ch), j <= k,
             \A i \in j .. k - 1 : ~cs2[ch[i]].push_point
      PROVE  cs2[ch[j]].level = cs2[ch[k]].level
  <2>1. \A i \in j .. k - 1 : i \in 1 .. Len(ch)
    BY <1>2
  <2>2. \A i \in j .. k - 1 : ~cs[ch[i]].push_point
    BY <1>3, <1>4, <2>1
  <2> QED BY <1>3, <1>4, <2>2 DEF ChainGood
<1>5. ASSUME NEW k \in 1 .. Len(ch) - 1, cs2[ch[k]].push_point
      PROVE  cs2[ch[k + 1]].level = cs2[ch[k]].level + 1
  <2>1. k \in 1 .. Len(ch) /\ k + 1 \in 1 .. Len(ch)
    BY <1>2
  <2> QED BY <1>3, <1>5, <2>1 DEF ChainGood
<1>6. \A j, k \in 1 .. Len(ch) : j <= k => cs2[ch[j]].level <= cs2[ch[k]].level
  BY <1>3 DEF ChainGood
<1>7. Len(ch) > 0 => cs2[ch[Len(ch)]].level = d /\ ~cs2[ch[Len(ch)]].push_point
  <2>1. Len(ch) > 0 => Len(ch) \in 1 .. Len(ch)
    BY <1>2
  <2> QED BY <1>3, <2>1 DEF ChainGood
<1> QED BY <1>4, <1>5, <1>6, <1>7 DEF ChainGood

\* A chunk of the level of now can come in front of A or after it.
LEMMA GrownChain ==
    ASSUME NEW cs, NEW d \in Nat, NEW ch, ChunksGood(cs, d), ChainGood(ch, cs, d), Len(ch) > 0,
           NEW n, n \notin DOMAIN cs,
           NEW cs2, DOMAIN cs2 = DOMAIN cs \cup {n}, cs2[n].level = d, ~cs2[n].push_point,
           \A c \in DOMAIN cs : cs2[c] = cs[c],
           NEW new_ch \in Seq(DOMAIN cs2), Len(new_ch) = Len(ch) + 1,
           \A k \in 1 .. Len(ch) - 1 : new_ch[k] = ch[k],
           \/ new_ch[Len(ch)] = n /\ new_ch[Len(ch) + 1] = ch[Len(ch)]
           \/ new_ch[Len(ch)] = ch[Len(ch)] /\ new_ch[Len(ch) + 1] = n
    PROVE  ChainGood(new_ch, cs2, d)
<1> DEFINE L == Len(ch)
<1>1. /\ L \in Nat /\ L >= 1
      /\ \A k \in 1 .. L : ch[k] \in DOMAIN cs
  BY ElementOfSeq, LenProperties DEF ChainGood
<1>2. \A k \in 1 .. L : cs2[ch[k]] = cs[ch[k]] /\ ch[k] # n /\ cs[ch[k]].level \in Nat
  BY <1>1 DEF ChunksGood, Chunks
<1>3. cs[ch[L]].level = d /\ ~cs[ch[L]].push_point
  BY <1>1 DEF ChainGood
<1>4. cs2[n].level = d /\ ~cs2[n].push_point
  OBVIOUS
<1>5. \A k \in 1 .. L - 1 : new_ch[k] = ch[k] /\ cs2[new_ch[k]] = cs[ch[k]]
  <2>1. \A k \in 1 .. L - 1 : k \in 1 .. L
    BY <1>1
  <2> QED BY <1>2, <2>1
<1>13. \A k \in 1 .. L - 1 : cs2[new_ch[k]].push_point = cs[ch[k]].push_point
  BY <1>5
<1>6. \A k \in {L, L + 1} : cs2[new_ch[k]].level = d /\ ~cs2[new_ch[k]].push_point
  BY <1>1, <1>2, <1>3, <1>4
<1>7. \A j, k \in 1 .. Len(new_ch) : j # k => new_ch[j] # new_ch[k]
  BY <1>1, <1>2 DEF ChainGood
<1>8. \A k \in 1 .. L + 1 : k \in 1 .. L - 1 \/ k \in {L, L + 1}
  BY <1>1
<1>9. \A k \in 1 .. L : cs[ch[k]].level <= d
  BY <1>1, <1>3 DEF ChainGood
<1>10. \A j, k \in 1 .. Len(new_ch) : j <= k => cs2[new_ch[j]].level <= cs2[new_ch[k]].level
  <2> SUFFICES ASSUME NEW j \in 1 .. L + 1, NEW k \in 1 .. L + 1, j <= k
               PROVE  cs2[new_ch[j]].level <= cs2[new_ch[k]].level
    OBVIOUS
  <2>1. CASE k \in 1 .. L - 1
    <3>1. j \in 1 .. L - 1 /\ j \in 1 .. L /\ k \in 1 .. L
      BY <1>1, <2>1
    <3>2. cs[ch[j]].level <= cs[ch[k]].level
      BY <3>1 DEF ChainGood
    <3> QED BY <1>5, <2>1, <3>1, <3>2
  <2>2. CASE k \in {L, L + 1} /\ j \in 1 .. L - 1
    BY <1>1, <1>5, <1>6, <1>9, <2>2
  <2>3. CASE k \in {L, L + 1} /\ j \in {L, L + 1}
    BY <1>6, <2>3
  <2> QED BY <1>8, <2>1, <2>2, <2>3
<1>11. ASSUME NEW j \in 1 .. Len(new_ch), NEW k \in 1 .. Len(new_ch), j <= k,
              \A i \in j .. k - 1 : ~cs2[new_ch[i]].push_point
       PROVE  cs2[new_ch[j]].level = cs2[new_ch[k]].level
  <2>1. CASE k \in 1 .. L - 1
    <3>1. \A i \in j .. k - 1 : i \in 1 .. L - 1
      BY <1>1, <2>1
    <3>2. \A i \in j .. k - 1 : ~cs[ch[i]].push_point
      BY <1>13, <1>11, <3>1
    <3>3. j \in 1 .. L /\ k \in 1 .. L /\ j \in 1 .. L - 1
      BY <1>1, <1>11, <2>1
    <3>4. cs[ch[j]].level = cs[ch[k]].level
      BY <1>11, <3>2, <3>3 DEF ChainGood
    <3> QED BY <1>5, <2>1, <3>3, <3>4
  <2>2. CASE k \in {L, L + 1} /\ j \in 1 .. L - 1
    <3>1. \A i \in j .. L - 1 : i \in 1 .. L - 1 /\ i \in j .. k - 1
      BY <1>1, <2>2
    <3>3. \A i \in j .. L - 1 : ~cs[ch[i]].push_point
      BY <1>13, <1>11, <3>1
    <3>4. j \in 1 .. L /\ L \in 1 .. L /\ j <= L
      BY <1>1, <2>2
    <3>2. cs[ch[j]].level = cs[ch[L]].level
      BY <3>3, <3>4 DEF ChainGood
    <3> QED BY <1>3, <1>5, <1>6, <2>2, <3>2
  <2>3. CASE k \in {L, L + 1} /\ j \in {L, L + 1}
    BY <1>6, <2>3
  <2> QED BY <1>8, <1>11, <2>1, <2>2, <2>3
<1>12. ASSUME NEW k \in 1 .. Len(new_ch) - 1, cs2[new_ch[k]].push_point
       PROVE  cs2[new_ch[k + 1]].level = cs2[new_ch[k]].level + 1
  <2>1. k \in 1 .. L - 1 /\ cs[ch[k]].push_point
    BY <1>1, <1>5, <1>6, <1>8, <1>12
  <2>2. cs[ch[k + 1]].level = cs[ch[k]].level + 1
    BY <1>1, <2>1 DEF ChainGood
  <2>3. k + 1 \in 1 .. L - 1 \/ k + 1 = L
    BY <1>1, <2>1
  <2>4. cs2[new_ch[k + 1]].level = cs[ch[k + 1]].level
    BY <1>3, <1>5, <1>6, <2>3
  <2> QED BY <1>5, <2>1, <2>2, <2>4
<1> QED BY <1>1, <1>6, <1>7, <1>10, <1>11, <1>12 DEF ChainGood

\* The push of a chunk: A becomes a push point, and a chunk of the next level follows.
LEMMA PushedChain ==
    ASSUME NEW cs, NEW d \in Nat, NEW ch, ChunksGood(cs, d), ChainGood(ch, cs, d), Len(ch) > 0,
           NEW n, n \notin DOMAIN cs,
           NEW cs2, DOMAIN cs2 = DOMAIN cs \cup {n}, cs2[n].level = d + 1, ~cs2[n].push_point,
           \A c \in DOMAIN cs : /\ cs2[c].level = cs[c].level
                                /\ c = ch[Len(ch)] => cs2[c].push_point
                                /\ c # ch[Len(ch)] => cs2[c].push_point = cs[c].push_point
    PROVE  ChainGood(Append(ch, n), cs2, d + 1)
<1> DEFINE L == Len(ch)
           new_ch == Append(ch, n)
<1>1. /\ L \in Nat /\ L >= 1
      /\ \A k \in 1 .. L : ch[k] \in DOMAIN cs
      /\ ch \in Seq(DOMAIN cs2) /\ n \in DOMAIN cs2
  BY ElementOfSeq, LenProperties, SeqMonotonic DEF ChainGood
<1>2. /\ new_ch \in Seq(DOMAIN cs2) /\ Len(new_ch) = L + 1
      /\ \A k \in 1 .. L : new_ch[k] = ch[k]
      /\ new_ch[L + 1] = n
  BY <1>1, AppendProperties
<1>3. \A k \in 1 .. L : cs[ch[k]].level \in Nat /\ cs[ch[k]].level <= d /\ ch[k] # n
  BY <1>1 DEF ChunksGood, Chunks
<1>4. cs[ch[L]].level = d
  BY <1>1 DEF ChainGood
<1> HIDE DEF new_ch
<1>5. \A k \in 1 .. L : cs2[new_ch[k]].level = cs[ch[k]].level
  BY <1>1, <1>2
<1>6. \A k \in 1 .. L - 1 : ch[k] # ch[L]
  BY <1>1 DEF ChainGood
<1>7. \A k \in 1 .. L - 1 : cs2[new_ch[k]].push_point = cs[ch[k]].push_point
  BY <1>1, <1>2, <1>6
<1>8. cs2[new_ch[L]].push_point
  BY <1>1, <1>2
<1>9. cs2[new_ch[L + 1]].level = d + 1 /\ ~cs2[new_ch[L + 1]].push_point
  BY <1>2
<1>10. \A j, k \in 1 .. Len(new_ch) : j # k => new_ch[j] # new_ch[k]
  BY <1>1, <1>2, <1>3 DEF ChainGood
<1>11. \A j, k \in 1 .. Len(new_ch) : j <= k => cs2[new_ch[j]].level <= cs2[new_ch[k]].level
  <2> SUFFICES ASSUME NEW j \in 1 .. L + 1, NEW k \in 1 .. L + 1, j <= k
               PROVE  cs2[new_ch[j]].level <= cs2[new_ch[k]].level
    BY <1>2
  <2>1. CASE k \in 1 .. L
    <3>1. j \in 1 .. L
      BY <1>1, <2>1
    <3> QED BY <1>5, <2>1, <3>1 DEF ChainGood
  <2>2. CASE k = L + 1 /\ j \in 1 .. L
    BY <1>3, <1>5, <1>9, <2>2
  <2>3. CASE k = L + 1 /\ j = L + 1
    BY <1>9, <2>3
  <2> QED BY <1>1, <2>1, <2>2, <2>3
<1>12. ASSUME NEW j \in 1 .. Len(new_ch), NEW k \in 1 .. Len(new_ch), j <= k,
              \A i \in j .. k - 1 : ~cs2[new_ch[i]].push_point
       PROVE  cs2[new_ch[j]].level = cs2[new_ch[k]].level
  <2>1. CASE k \in 1 .. L
    <3>1. j \in 1 .. L /\ \A i \in j .. k - 1 : i \in 1 .. L - 1
      BY <1>1, <2>1, <1>12
    <3>2. \A i \in j .. k - 1 : ~cs[ch[i]].push_point
      BY <1>7, <1>12, <3>1
    <3>3. cs[ch[j]].level = cs[ch[k]].level
      BY <1>12, <2>1, <3>1, <3>2 DEF ChainGood
    <3> QED BY <1>5, <2>1, <3>1, <3>3
  <2>2. CASE k = L + 1 /\ j = L + 1
    BY <2>2
  <2>3. CASE k = L + 1 /\ j <= L
    <3>1. L \in j .. k - 1
      BY <1>1, <1>2, <1>12, <2>3
    <3> QED BY <1>8, <1>12, <3>1
  <2> QED BY <1>1, <1>2, <1>12, <2>1, <2>2, <2>3
<1>13. ASSUME NEW k \in 1 .. Len(new_ch) - 1, cs2[new_ch[k]].push_point
       PROVE  cs2[new_ch[k + 1]].level = cs2[new_ch[k]].level + 1
  <2>1. CASE k = L
    <3>1. cs2[new_ch[L]].level = d
      BY <1>1, <1>4, <1>5
    <3> QED BY <1>9, <2>1, <3>1
  <2>2. CASE k \in 1 .. L - 1
    <3>1. cs[ch[k]].push_point
      BY <1>7, <1>13, <2>2
    <3>2. k \in 1 .. L /\ k + 1 \in 1 .. L
      BY <1>1, <2>2
    <3>3. cs[ch[k + 1]].level = cs[ch[k]].level + 1
      BY <2>2, <3>1 DEF ChainGood
    <3> QED BY <1>5, <3>2, <3>3
  <2> QED BY <1>1, <1>2, <2>1, <2>2
<1>14. ChainGood(new_ch, cs2, d + 1)
  BY <1>1, <1>2, <1>9, <1>10, <1>11, <1>12, <1>13 DEF ChainGood
<1> QED BY <1>14 DEF new_ch

\* What a pop leaves: the chain up to the last push point, which is one no more.
LEMMA PoppedChain ==
    ASSUME NEW cs, NEW d \in Nat, NEW ch, ChunksGood(cs, d), ChainGood(ch, cs, d),
           NEW m \in 1 .. Len(ch), cs[ch[m]].push_point,
           \A k \in 1 .. Len(ch) : cs[ch[k]].push_point => k <= m,
           NEW new_ch \in Seq(DOMAIN cs), Len(new_ch) = m, \A k \in 1 .. m : new_ch[k] = ch[k],
           NEW cs2,
           \A k \in 1 .. m : /\ ch[k] \in DOMAIN cs2 /\ cs2[ch[k]].level = cs[ch[k]].level
                             /\ k = m => ~cs2[ch[k]].push_point
                             /\ k # m => cs2[ch[k]].push_point = cs[ch[k]].push_point
    PROVE  /\ ChainGood(new_ch, cs2, d - 1)
           /\ \A k \in 1 .. m : cs[ch[k]].level <= d - 1
           /\ \A k \in m + 1 .. Len(ch) : cs[ch[k]].level = d
           /\ ToSet(new_ch) = {ch[k] : k \in 1 .. m}
<1> DEFINE L == Len(ch)
<1>1. /\ L \in Nat /\ ch \in Seq(DOMAIN cs) /\ m <= L
      /\ \A k \in 1 .. L : ch[k] \in DOMAIN cs
  BY ElementOfSeq, LenProperties DEF ChainGood
<1>2. \A k \in 1 .. m : new_ch[k] = ch[k]
  OBVIOUS
<1>3. DOMAIN new_ch = 1 .. m /\ ToSet(new_ch) = {ch[k] : k \in 1 .. m}
  <2>1. DOMAIN new_ch = 1 .. m
    BY <1>2, LenProperties
  <2>2. \A x : x \in ToSet(new_ch) <=> \E k \in 1 .. m : x = ch[k]
    BY <1>2, <2>1 DEF ToSet
  <2> QED BY <2>1, <2>2
<1>4. new_ch \in Seq(DOMAIN cs2)
  <2>1. new_ch \in [1 .. m -> DOMAIN cs] /\ \A k \in 1 .. m : new_ch[k] \in DOMAIN cs2
    BY <1>2, LenProperties
  <2>2. new_ch \in [1 .. m -> DOMAIN cs2]
    BY <2>1
  <2> QED BY <2>2, SeqDef
<1>5. \A k \in 1 .. L : cs[ch[k]].level \in Nat
  BY <1>1 DEF ChunksGood, Chunks
<1>6. m < L /\ cs[ch[m + 1]].level = cs[ch[m]].level + 1
  <2>1. m # L
    BY <1>1 DEF ChainGood
  <2>2. m \in 1 .. L - 1
    BY <1>1, <2>1
  <2> QED BY <2>2 DEF ChainGood
<1>7. \A k \in m + 1 .. L : cs[ch[k]].level = d
  <2> SUFFICES ASSUME NEW k \in m + 1 .. L PROVE cs[ch[k]].level = d
    OBVIOUS
  <2>1. k \in 1 .. L /\ L \in 1 .. L /\ k <= L
    BY <1>1
  <2>2. \A i \in k .. L - 1 : i \in 1 .. L /\ ~(i <= m)
    BY <1>1
  <2>3. \A i \in k .. L - 1 : ~cs[ch[i]].push_point
    BY <2>2
  <2> QED BY <1>1, <2>1, <2>3 DEF ChainGood
<1>8. cs[ch[m]].level = d - 1
  <2>1. m + 1 \in m + 1 .. L /\ m \in 1 .. L
    BY <1>1, <1>6
  <2> QED BY <1>5, <1>6, <1>7, <2>1
<1>9. \A k \in 1 .. m : cs[ch[k]].level <= d - 1
  BY <1>1, <1>8 DEF ChainGood
<1>10. \A k \in 1 .. m : cs2[new_ch[k]].level = cs[ch[k]].level
  BY <1>2
<1>11. \A k \in 1 .. m - 1 : cs2[new_ch[k]].push_point = cs[ch[k]].push_point
  BY <1>2
<1>12. ~cs2[new_ch[m]].push_point /\ cs2[new_ch[m]].level = d - 1
  BY <1>2, <1>8, <1>10
<1>13. \A j, k \in 1 .. m : j # k => new_ch[j] # new_ch[k]
  BY <1>1, <1>2 DEF ChainGood
<1>14. \A j, k \in 1 .. m : j <= k => cs2[new_ch[j]].level <= cs2[new_ch[k]].level
  <2>1. \A j, k \in 1 .. m : j <= k => cs[ch[j]].level <= cs[ch[k]].level
    BY <1>1 DEF ChainGood
  <2> QED BY <1>10, <2>1
<1>15. ASSUME NEW j \in 1 .. m, NEW k \in 1 .. m, j <= k,
              \A i \in j .. k - 1 : ~cs2[new_ch[i]].push_point
       PROVE  cs2[new_ch[j]].level = cs2[new_ch[k]].level
  <2>1. j \in 1 .. L /\ k \in 1 .. L /\ \A i \in j .. k - 1 : i \in 1 .. m - 1
    BY <1>1
  <2>2. \A i \in j .. k - 1 : ~cs[ch[i]].push_point
    BY <1>11, <1>15, <2>1
  <2>3. cs[ch[j]].level = cs[ch[k]].level
    BY <1>15, <2>1, <2>2 DEF ChainGood
  <2> QED BY <1>10, <2>3
<1>16. ASSUME NEW k \in 1 .. m - 1, cs2[new_ch[k]].push_point
       PROVE  cs2[new_ch[k + 1]].level = cs2[new_ch[k]].level + 1
  <2>1. k \in 1 .. L - 1 /\ k \in 1 .. m /\ k + 1 \in 1 .. m
    BY <1>1
  <2>2. cs[ch[k + 1]].level = cs[ch[k]].level + 1
    BY <1>11, <1>16, <2>1 DEF ChainGood
  <2> QED BY <1>10, <2>1, <2>2
<1>17. ChainGood(new_ch, cs2, d - 1)
  BY <1>2, <1>4, <1>12, <1>13, <1>14, <1>15, <1>16 DEF ChainGood
<1> QED BY <1>3, <1>7, <1>9, <1>17

-----------------------------------------------------------------------------
(* Chunks and blocks *)

\* A chunk that is made disturbs neither the chunks nor the blocks.
LEMMA MadeGood ==
    ASSUME NEW cs, NEW d \in Nat, NEW bs, ChunksGood(cs, d), BlocksGood(bs, cs),
           NEW n \in 1 .. MaxChunks + 1, n \notin DOMAIN cs,
           NEW cs2, cs2 \in [DOMAIN cs2 -> Chunks], DOMAIN cs2 = DOMAIN cs \cup {n},
           cs2[n].level = d, cs2[n].used <= cs2[n].sz,
           \A c \in DOMAIN cs : cs2[c] = cs[c]
    PROVE  ChunksGood(cs2, d) /\ BlocksGood(bs, cs2)
<1>1. DOMAIN cs2 = DOMAIN cs \cup {n} /\ \A c \in DOMAIN cs : cs2[c] = cs[c]
  OBVIOUS
<1>2. cs2 \in [DOMAIN cs2 -> Chunks]
  BY <1>1
<1>3. DOMAIN cs2 \subseteq 1 .. MaxChunks + 1
  BY <1>1 DEF ChunksGood
<1>4. \A c \in DOMAIN cs2 : cs2[c].used <= cs2[c].sz /\ cs2[c].level <= d
  BY <1>1 DEF ChunksGood
<1>5. BlocksGood(bs, cs2)
  BY <1>1 DEF BlocksGood
<1> QED BY <1>2, <1>3, <1>4, <1>5 DEF ChunksGood

\* A block is handed out of a chunk of the level of now that has room for it.
LEMMA HandOutGood ==
    ASSUME NEW cs, NEW d \in Nat, NEW bs, ChunksGood(cs, d), BlocksGood(bs, cs),
           NEW b0 \in Blocks, b0.chunk \in DOMAIN cs, b0.from = cs[b0.chunk].used + 1,
           b0.level = d, b0.copied <= b0.size,
           NEW cs2, cs2 \in [DOMAIN cs2 -> Chunks], DOMAIN cs2 = DOMAIN cs,
           \A e \in DOMAIN cs : e # b0.chunk => cs2[e] = cs[e],
           cs2[b0.chunk].used = b0.from + b0.size, cs2[b0.chunk].used <= cs2[b0.chunk].sz,
           cs2[b0.chunk].level = d, cs[b0.chunk].level = d
    PROVE  ChunksGood(cs2, d) /\ BlocksGood(bs \cup {b0}, cs2)
<1> DEFINE c == b0.chunk
           bs2 == bs \cup {b0}
<1>1. \A e \in DOMAIN cs : cs[e] \in Chunks /\ cs2[e] \in Chunks
  BY DEF ChunksGood
<1>2. cs[c].used <= cs2[c].used
  BY <1>1 DEF Blocks, Chunks
<1>3. ChunksGood(cs2, d)
  <2>1. \A e \in DOMAIN cs2 : cs2[e].used <= cs2[e].sz /\ cs2[e].level <= d
    <3> SUFFICES ASSUME NEW e \in DOMAIN cs2 PROVE cs2[e].used <= cs2[e].sz /\ cs2[e].level <= d
      OBVIOUS
    <3>1. CASE e = c
      BY <3>1
    <3>2. CASE e # c
      BY <3>2 DEF ChunksGood
    <3> QED BY <3>1, <3>2
  <2>2. DOMAIN cs2 \subseteq 1 .. MaxChunks + 1
    BY DEF ChunksGood
  <2> QED BY <2>1, <2>2 DEF ChunksGood
<1>4. \A b \in bs : /\ b.chunk \in DOMAIN cs2 /\ b.copied <= b.size
                    /\ b.from + b.size <= cs2[b.chunk].used
                    /\ b.level = cs2[b.chunk].level
  <2> SUFFICES ASSUME NEW b \in bs
               PROVE  /\ b.chunk \in DOMAIN cs2 /\ b.copied <= b.size
                      /\ b.from + b.size <= cs2[b.chunk].used
                      /\ b.level = cs2[b.chunk].level
    OBVIOUS
  <2>1. /\ b \in Blocks /\ b.chunk \in DOMAIN cs /\ b.copied <= b.size
        /\ b.from + b.size <= cs[b.chunk].used /\ b.level = cs[b.chunk].level
    BY DEF BlocksGood
  <2>2. CASE b.chunk # c
    BY <2>1, <2>2
  <2>3. CASE b.chunk = c
    <3>1. b.from + b.size \in Nat /\ cs[c].used \in Nat /\ cs2[c].used \in Nat
      BY <1>1, <2>1, <2>3 DEF Blocks, Chunks
    <3>2. b.from + b.size <= cs2[b.chunk].used
      BY <1>2, <2>1, <2>3, <3>1
    <3>3. b.level = cs2[b.chunk].level
      BY <2>1, <2>3
    <3> QED BY <2>1, <3>2, <3>3
  <2> QED BY <2>2, <2>3
<1>5. \A b \in bs : b.chunk = c => b.from + b.size < b0.from
  <2> SUFFICES ASSUME NEW b \in bs, b.chunk = c PROVE b.from + b.size < b0.from
    OBVIOUS
  <2>1. b \in Blocks /\ b.from + b.size <= cs[c].used
    BY DEF BlocksGood
  <2>2. b.from + b.size \in Nat /\ cs[c].used \in Nat
    BY <1>1, <2>1 DEF Blocks, Chunks
  <2> QED BY <2>1, <2>2
<1>6. \A b \in bs2 : b \in bs \/ b = b0
  OBVIOUS
<1>7. \A b \in bs2 : /\ b.chunk \in DOMAIN cs2 /\ b.copied <= b.size
                     /\ b.from + b.size <= cs2[b.chunk].used
                     /\ b.level = cs2[b.chunk].level
  <2>1. cs2[c].used <= cs2[c].used
    BY <1>1 DEF Chunks
  <2>2. b0.from + b0.size <= cs2[c].used
    BY <2>1
  <2> QED BY <1>4, <1>6, <2>2
<1> HIDE DEF bs2
<1>8. \A b, e \in bs2 : b # e /\ b.chunk = e.chunk =>
          b.from + b.size < e.from \/ e.from + e.size < b.from
  BY <1>5, <1>6 DEF BlocksGood
<1>9. bs2 \subseteq Blocks
  BY <1>6 DEF BlocksGood
<1>10. BlocksGood(bs2, cs2)
  BY <1>7, <1>8, <1>9 DEF BlocksGood
<1> QED BY <1>3, <1>10 DEF bs2

\* Whether a chunk is a push point matters to neither.
LEMMA MarkedGood ==
    ASSUME NEW cs, NEW d, NEW bs, ChunksGood(cs, d), BlocksGood(bs, cs),
           NEW cs2, cs2 \in [DOMAIN cs2 -> Chunks], DOMAIN cs2 = DOMAIN cs,
           \A e \in DOMAIN cs : /\ cs2[e].level = cs[e].level
                                /\ cs2[e].used = cs[e].used /\ cs2[e].sz = cs[e].sz
    PROVE  ChunksGood(cs2, d) /\ BlocksGood(bs, cs2)
<1>1. ChunksGood(cs2, d)
  BY DEF ChunksGood
<1>2. BlocksGood(bs, cs2)
  BY DEF BlocksGood
<1> QED BY <1>1, <1>2

-----------------------------------------------------------------------------
(* The actions *)

LEMMA InitGood == Init => IInv
<1> SUFFICES ASSUME Init PROVE IInv
  OBVIOUS
<1>1. Types
  BY DEF Init, Types, None
<1>2. Calls
  BY DEF Init, Calls
<1>3. DOMAIN chunks = {} /\ Len(chain) = 0 /\ chain \in Seq({}) /\ ToSet(chain) = {}
  BY DEF Init, ToSet
<1>4. ChunksGood(chunks, depth)
  BY <1>3 DEF Init, ChunksGood
<1>5. ChainGood(chain, chunks, depth)
  BY <1>3 DEF Init, ChainGood
<1>6. BlocksGood(blocks, chunks)
  BY DEF Init, BlocksGood
<1> QED BY <1>1, <1>2, <1>3, <1>4, <1>5, <1>6 DEF IInv

LEMMA CallGood ==
    ASSUME IInv, NEW t \in Threads, t \in users, pc[t] = "idle",
           NEW words \in Nat, NEW old \in Nat, words > 0, old < words,
           pc' = [pc EXCEPT ![t] = Tested],
           request' = [request EXCEPT ![t] = [words |-> words, old |-> old]],
           UNCHANGED <<users, chain, chunks, blocks, depth>>
    PROVE  IInv'
<1>1. Types'
  BY DEF IInv, Types, Tested
<1>2. Calls'
  BY DEF IInv, Types, Calls, Tested, Lone
<1> QED BY <1>1, <1>2 DEF IInv, Lone

\* A is the top of the chain.
LEMMA ATop ==
    ASSUME IInv, chain # <<>>
    PROVE  /\ Len(chain) \in Nat /\ Len(chain) > 0 /\ A = chain[Len(chain)]
           /\ A \in DOMAIN chunks /\ chunks[A] \in Chunks
           /\ chunks[A].level = depth /\ ~chunks[A].push_point
           /\ \A k \in 1 .. Len(chain) : chain[k] \in DOMAIN chunks
<1>1. chain \in Seq(DOMAIN chunks)
  BY DEF IInv, ChainGood
<1>2. Len(chain) \in Nat /\ Len(chain) > 0
  BY <1>1, EmptySeq, LenProperties
<1>3. \A k \in 1 .. Len(chain) : chain[k] \in DOMAIN chunks
  BY <1>1, ElementOfSeq
<1>4. A = chain[Len(chain)]
  BY DEF A, Last
<1>5. A \in DOMAIN chunks
  BY <1>2, <1>3, <1>4
<1> QED BY <1>2, <1>3, <1>4, <1>5 DEF IInv, ChainGood, ChunksGood

LEMMA init_arenaGood ==
    ASSUME IInv, NEW t \in Threads, init_arena(t)
    PROVE  IInv'
<1> DEFINE chunk == Chunk(FirstSize, depth)
<1>1. /\ new \in 1 .. MaxChunks + 1 /\ new \notin DOMAIN chunks
      /\ depth \in Nat /\ chunk \in Chunks /\ chunk.level = depth /\ ~chunk.push_point
      /\ chunk.used <= chunk.sz
  BY NewChunk, ArenaAssumption DEF IInv, Types, init_arena, Chunk, Chunks
<1>2. chunks' = [c \in DOMAIN chunks \cup {new} |-> IF c = new THEN chunk ELSE chunks[c]]
  BY DEF init_arena, Made
<1>3. /\ DOMAIN chunks' = DOMAIN chunks \cup {new} /\ chunks'[new] = chunk
      /\ chain' = <<new>> /\ depth' = depth /\ blocks' = blocks /\ users' = users
  BY <1>2 DEF init_arena
<1> HIDE DEF chunk
<1>4. ChunksGood(chunks', depth') /\ BlocksGood(blocks', chunks')
  <2>1. ChunksGood(chunks, depth) /\ BlocksGood(blocks, chunks)
    BY DEF IInv
  <2>2. chunks' \in [DOMAIN chunks' -> Chunks]
    BY <1>1, <1>2, <2>1 DEF ChunksGood
  <2>3. \A c \in DOMAIN chunks : chunks'[c] = chunks[c]
    BY <1>1, <1>2
  <2> HIDE DEF new
  <2> QED BY <1>1, <1>3, <2>1, <2>2, <2>3, MadeGood
<1>5. /\ chain' \in Seq(DOMAIN chunks') /\ Len(chain') = 1 /\ chain'[1] = new
      /\ ToSet(chain') = {new}
  BY <1>3 DEF ToSet
<1>6. ChainGood(chain', chunks', depth')
  <2>1. \A k \in 1 .. Len(chain') : k = 1
    BY <1>5
  <2>2. chunks'[chain'[1]].level = depth' /\ ~chunks'[chain'[1]].push_point
    BY <1>1, <1>3, <1>5
  <2>3. \A k \in 1 .. Len(chain') - 1 : FALSE
    BY <1>5
  <2> HIDE DEF new
  <2>4. chunks'[chain'[1]].level <= chunks'[chain'[1]].level
    BY <1>1, <1>3, <2>2
  <2> QED BY <1>5, <2>1, <2>2, <2>3, <2>4 DEF ChainGood
<1>7. Types'
  BY DEF IInv, Types, init_arena
<1>8. t \in users /\ (Lone => users = {t})
  BY DEF IInv, Calls, Lone, init_arena
<1>9. Calls'
  <2>1. chain' # <<>>
    BY <1>5
  <2>2. \A s \in Threads : pc'[s] = IF s = t THEN "alloc" ELSE pc[s]
    BY DEF IInv, Types, init_arena
  <2>3. \A s \in Threads : pc'[s] # "idle" =>
          s \in users' /\ request'[s].words > 0 /\ request'[s].old < request'[s].words
    BY <1>3, <2>2 DEF IInv, Calls, init_arena
  <2>4. \A s \in Threads : ~(Lone /\ pc'[s] = "init")
    BY <1>8, <2>2 DEF IInv, Calls, Lone
  <2> QED BY <1>3, <2>1, <2>3, <2>4 DEF IInv, Calls, Lone
<1>10. Lone => DOMAIN chunks' = ToSet(chain')
  <2> SUFFICES ASSUME Lone PROVE DOMAIN chunks' = ToSet(chain')
    OBVIOUS
  <2>1. chain = <<>>
    BY DEF IInv, Calls, init_arena
  <2>2. ToSet(<<>>) = {}
    BY DEF ToSet
  <2>3. DOMAIN chunks = {}
    BY <2>1, <2>2 DEF IInv
  <2> QED BY <1>3, <1>5, <2>3
<1> QED BY <1>3, <1>4, <1>6, <1>7, <1>9, <1>10 DEF IInv, Lone

\* What the three ways to allocate have in common: a block comes out of chunk c of cs.
LEMMA AllocGood ==
    ASSUME IInv, NEW t \in Threads, Locked(t), NEW cs, NEW c, HandOut(t, c, cs),
           ChunksGood(cs, depth), BlocksGood(blocks, cs), ChainGood(chain', cs, depth),
           c \in DOMAIN cs, cs[c].level = depth, cs[c].used + request[t].words <= cs[c].sz,
           chain' # <<>>, Lone => DOMAIN cs = ToSet(chain')
    PROVE  IInv'
<1>1. /\ request[t].words \in Nat /\ request[t].old \in Nat
      /\ request[t].words > 0 /\ request[t].old < request[t].words
      /\ t \in users /\ depth \in Nat /\ depth' = depth /\ users' = users
  BY DEF IInv, Types, Calls, Locked, HandOut
<1>2. /\ ChunksGood(chunks', depth') /\ BlocksGood(blocks', chunks')
      /\ DOMAIN chunks' = DOMAIN cs
      /\ \A e \in DOMAIN cs : /\ chunks'[e].level = cs[e].level
                              /\ chunks'[e].push_point = cs[e].push_point
  <2> DEFINE words == request[t].words
             b0 == [chunk |-> c, from |-> cs[c].used + 1, level |-> depth,
                    size |-> words - 1, copied |-> request[t].old]
  <2>1. /\ cs \in [DOMAIN cs -> Chunks] /\ DOMAIN cs \subseteq 1 .. MaxChunks + 1
        /\ cs[c] \in Chunks
    BY DEF ChunksGood
  <2>2. chunks' = [cs EXCEPT ![c].used = @ + words] /\ blocks' = blocks \cup {b0}
    BY DEF HandOut
  <2>3. /\ b0 \in Blocks /\ b0.chunk = c /\ b0.from = cs[c].used + 1 /\ b0.level = depth
        /\ b0.copied <= b0.size /\ b0.from + b0.size = cs[c].used + words
    <3>1. c \in Nat /\ cs[c].used \in Nat /\ words - 1 \in Nat
      BY <1>1, <2>1 DEF Chunks
    <3> QED BY <1>1, <3>1 DEF Blocks
  <2>4. /\ DOMAIN chunks' = DOMAIN cs /\ \A e \in DOMAIN cs : e # c => chunks'[e] = cs[e]
        /\ chunks'[c] = [cs[c] EXCEPT !.used = @ + words]
    BY <2>1, <2>2
  <2>5. /\ chunks'[c] \in Chunks /\ chunks'[c].used = cs[c].used + words
        /\ chunks'[c].sz = cs[c].sz /\ chunks'[c].level = cs[c].level
        /\ chunks'[c].push_point = cs[c].push_point
    <3>1. cs[c].used + words \in Nat
      BY <1>1, <2>1 DEF Chunks
    <3> HIDE DEF words
    <3> QED BY <2>1, <2>4, <3>1 DEF Chunks
  <2>6. chunks' \in [DOMAIN chunks' -> Chunks]
    BY <2>1, <2>2, <2>4, <2>5
  <2> HIDE DEF b0
  <2>7. /\ chunks'[b0.chunk].used = b0.from + b0.size
        /\ chunks'[b0.chunk].used <= chunks'[b0.chunk].sz
        /\ chunks'[b0.chunk].level = depth /\ cs[b0.chunk].level = depth
    BY <2>3, <2>5
  <2>8. /\ b0 \in Blocks /\ b0.chunk \in DOMAIN cs /\ b0.from = cs[b0.chunk].used + 1
        /\ b0.level = depth /\ b0.copied <= b0.size
        /\ \A e \in DOMAIN cs : e # b0.chunk => chunks'[e] = cs[e]
    BY <2>3, <2>4
  <2>9. ChunksGood(chunks', depth) /\ BlocksGood(blocks \cup {b0}, chunks')
    BY <1>1, <2>4, <2>6, <2>7, <2>8, HandOutGood
  <2> QED BY <1>1, <2>2, <2>4, <2>5, <2>9
<1>3. ChainGood(chain', chunks', depth')
  BY <1>1, <1>2, SameChain
<1>4. Types'
  <2>1. request' = [request EXCEPT ![t] = None] /\ None \in [words : Nat, old : Nat]
    BY DEF HandOut, None
  <2> QED BY <1>1, <2>1 DEF IInv, Types, HandOut
<1>5. Calls'
  <2>1. \A s \in Threads : /\ pc'[s] = IF s = t THEN "idle" ELSE pc[s]
                           /\ s # t => request'[s] = request[s]
    BY DEF IInv, Types, HandOut
  <2>2. \A s \in Threads : pc'[s] # "idle" =>
          s \in users' /\ request'[s].words > 0 /\ request'[s].old < request'[s].words
    BY <1>1, <2>1 DEF IInv, Calls
  <2>3. \A s \in Threads : ~(Lone /\ pc'[s] = "init")
    BY <1>1, <2>1 DEF IInv, Calls, Lone
  <2> QED BY <1>1, <2>2, <2>3 DEF IInv, Calls, Lone
<1> QED BY <1>1, <1>2, <1>3, <1>4, <1>5 DEF IInv, Lone

LEMMA AllocInAGood ==
    ASSUME IInv, NEW t \in Threads, AllocInA(t)
    PROVE  IInv'
<1>1. chain # <<>> /\ Locked(t) /\ HandOut(t, A, chunks) /\ chain' = chain
  BY DEF IInv, Calls, AllocInA, Locked
<1>2. /\ A \in DOMAIN chunks /\ chunks[A] \in Chunks /\ chunks[A].level = depth
      /\ request[t].words \in Nat
  BY <1>1, ATop DEF IInv, Types
<1>3. chunks[A].used + request[t].words <= chunks[A].sz
  BY <1>2 DEF AllocInA, Left, Chunks
<1> QED BY <1>1, <1>2, <1>3, AllocGood DEF IInv

\* A chunk for the request, made at place m of the chain.
LEMMA AllocNewGood ==
    ASSUME IInv, NEW t \in Threads, Locked(t), Room,
           NEW size \in Nat, request[t].words <= size,
           HandOut(t, new, Made(chunks, Chunk(size, depth))),
           chain' \in Seq(DOMAIN chunks \cup {new}), Len(chain') = Len(chain) + 1,
           \A k \in 1 .. Len(chain) - 1 : chain'[k] = chain[k],
           \/ chain'[Len(chain)] = new /\ chain'[Len(chain) + 1] = chain[Len(chain)]
           \/ chain'[Len(chain)] = chain[Len(chain)] /\ chain'[Len(chain) + 1] = new
    PROVE  IInv'
<1> DEFINE chunk == Chunk(size, depth)
           cs == Made(chunks, chunk)
<1>1. /\ new \in 1 .. MaxChunks + 1 /\ new \notin DOMAIN chunks
      /\ depth \in Nat /\ chunk \in Chunks /\ chunk.level = depth /\ ~chunk.push_point
      /\ chunk.used = 0 /\ chunk.sz = size /\ request[t].words \in Nat
  BY NewChunk DEF IInv, Types, Chunk, Chunks
<1>2. /\ cs = [c \in DOMAIN chunks \cup {new} |-> IF c = new THEN chunk ELSE chunks[c]]
      /\ DOMAIN cs = DOMAIN chunks \cup {new} /\ cs[new] = chunk
  BY DEF Made
<1>10. \A c \in DOMAIN chunks : cs[c] = chunks[c]
  BY <1>1, <1>2
<1>11. ChunksGood(chunks, depth) /\ BlocksGood(blocks, chunks) /\ ChainGood(chain, chunks, depth)
  BY DEF IInv
<1>3. chain # <<>> /\ Len(chain) \in Nat /\ Len(chain) > 0
  BY ATop DEF IInv, Calls, Locked
<1>4. HandOut(t, new, cs)
  OBVIOUS
<1> HIDE DEF cs, chunk, new
<1>5. ChunksGood(cs, depth) /\ BlocksGood(blocks, cs)
  <2>1. chunk.used <= chunk.sz
    BY <1>1
  <2>2. cs \in [DOMAIN cs -> Chunks]
    BY <1>1, <1>2, <1>11 DEF ChunksGood
  <2>3. DOMAIN cs = DOMAIN chunks \cup {new} /\ cs[new].level = depth /\ cs[new].used <= cs[new].sz
    BY <1>1, <1>2, <2>1
  <2> QED BY <1>1, <1>10, <1>11, <2>2, <2>3, MadeGood
<1>6. ChainGood(chain', cs, depth)
  <2>1. /\ chain' \in Seq(DOMAIN cs) /\ DOMAIN cs = DOMAIN chunks \cup {new}
        /\ cs[new].level = depth /\ ~cs[new].push_point
    BY <1>1, <1>2
  <2> QED BY <1>1, <1>3, <1>10, <1>11, <2>1, GrownChain
<1>7. Lone => DOMAIN cs = ToSet(chain')
  <2> SUFFICES ASSUME Lone PROVE DOMAIN cs = ToSet(chain')
    OBVIOUS
  <2>1. /\ DOMAIN chain' = 1 .. Len(chain) + 1 /\ DOMAIN chain = 1 .. Len(chain)
        /\ chain \in Seq(DOMAIN chunks)
    BY <1>3, LenProperties DEF IInv, ChainGood
  <2>2. DOMAIN chunks = {chain[k] : k \in 1 .. Len(chain)}
    BY <2>1 DEF IInv, ToSet
  <2>3. \A x : x \in ToSet(chain') <=> \E k \in 1 .. Len(chain) + 1 : x = chain'[k]
    BY <2>1 DEF ToSet
  <2>4. \A k \in 1 .. Len(chain) + 1 : chain'[k] \in DOMAIN chunks \cup {new}
    BY ElementOfSeq
  <2>5. \E k \in 1 .. Len(chain) + 1 : chain'[k] = new
    <3>1. Len(chain) \in 1 .. Len(chain) + 1 /\ Len(chain) + 1 \in 1 .. Len(chain) + 1
      BY <1>3
    <3> QED BY <3>1
  <2>6. \A k \in 1 .. Len(chain) : chain'[k] = chain[k] \/ chain'[k + 1] = chain[k]
    <3>1. \A k \in 1 .. Len(chain) : k \in 1 .. Len(chain) - 1 \/ k = Len(chain)
      BY <1>3
    <3> QED BY <1>3, <3>1
  <2>7. \A x \in DOMAIN chunks : \E k \in 1 .. Len(chain) + 1 : x = chain'[k]
    <3> SUFFICES ASSUME NEW x \in DOMAIN chunks
                 PROVE  \E k \in 1 .. Len(chain) + 1 : x = chain'[k]
      OBVIOUS
    <3>1. PICK k \in 1 .. Len(chain) : x = chain[k]
      BY <2>2
    <3>2. k \in 1 .. Len(chain) + 1 /\ k + 1 \in 1 .. Len(chain) + 1
      BY <1>3
    <3> QED BY <2>6, <3>1, <3>2
  <2>8. \A x : x \in ToSet(chain') <=> x \in DOMAIN chunks \cup {new}
    BY <2>3, <2>4, <2>5, <2>7
  <2> QED BY <1>2, <2>8
<1>8. chain' # <<>>
  BY <1>3
<1>9. cs[new].level = depth /\ cs[new].used + request[t].words <= cs[new].sz
  BY <1>1, <1>2
<1> QED BY <1>2, <1>4, <1>5, <1>6, <1>7, <1>8, <1>9, AllocGood

LEMMA AllocGrowGood ==
    ASSUME IInv, NEW t \in Threads, AllocGrow(t)
    PROVE  IInv'
<1>1. chain # <<>> /\ Locked(t) /\ Room /\ chain' = Append(chain, new)
  BY DEF IInv, Calls, AllocGrow, Locked
<1>2. /\ chunks[A].sz \in Nat /\ request[t].words \in Nat
      /\ Len(chain) \in Nat /\ chain \in Seq(DOMAIN chunks \cup {new})
  <2>1. chain \in Seq(DOMAIN chunks)
    BY DEF IInv, ChainGood
  <2>2. chain \in Seq(DOMAIN chunks \cup {new})
    BY <2>1, SeqMonotonic
  <2> QED BY <1>1, <2>2, ATop DEF IInv, Types, Chunks
<1> DEFINE size == chunks[A].sz + chunks[A].sz \div 2
<1>3. size \in Nat /\ request[t].words <= size
  BY <1>2 DEF AllocGrow
<1>4. HandOut(t, new, Made(chunks, Chunk(size, depth)))
  BY DEF AllocGrow
<1>5. /\ chain' \in Seq(DOMAIN chunks \cup {new}) /\ Len(chain') = Len(chain) + 1
      /\ \A k \in 1 .. Len(chain) : chain'[k] = chain[k]
      /\ chain'[Len(chain) + 1] = new
  <2> HIDE DEF new
  <2> QED BY <1>1, <1>2, AppendProperties
<1>6. \A k \in 1 .. Len(chain) - 1 : chain'[k] = chain[k]
  BY <1>2, <1>5
<1>7. chain'[Len(chain)] = chain[Len(chain)]
  BY <1>1, <1>2, <1>5, ATop
<1> HIDE DEF size
<1> QED BY <1>1, <1>3, <1>4, <1>5, <1>6, <1>7, AllocNewGood

LEMMA AllocBelowGood ==
    ASSUME IInv, NEW t \in Threads, AllocBelow(t)
    PROVE  IInv'
<1>1. chain # <<>> /\ Locked(t) /\ Room /\ chain' = InsertAt(chain, Len(chain), new)
  BY DEF IInv, Calls, AllocBelow, Locked
<1>2. /\ request[t].words \in Nat /\ Len(chain) \in Nat /\ Len(chain) > 0
      /\ chain \in Seq(DOMAIN chunks \cup {new})
  <2>1. chain \in Seq(DOMAIN chunks)
    BY DEF IInv, ChainGood
  <2>2. chain \in Seq(DOMAIN chunks \cup {new})
    BY <2>1, SeqMonotonic
  <2> QED BY <1>1, <2>2, ATop DEF IInv, Types, Chunks
<1> DEFINE L == Len(chain)
           S == DOMAIN chunks \cup {new}
           lower == SubSeq(chain, 1, L - 1)
           upper == SubSeq(chain, L, L)
<1>11. \A k \in 1 .. L : chain[k] \in S
  BY <1>2, ElementOfSeq
<1>3. lower \in Seq(S) /\ Len(lower) = L - 1 /\ \A k \in 1 .. L - 1 : lower[k] = chain[k]
  <2>1. L - 1 \in Int /\ 1 \in Int /\ \A k \in 1 .. L - 1 : chain[k] \in S
    BY <1>2, <1>11
  <2> HIDE DEF S
  <2>2. /\ Len(lower) = IF 1 <= L - 1 THEN L - 1 - 1 + 1 ELSE 0
        /\ \A k \in 1 .. L - 1 - 1 + 1 : lower[k] = chain[1 + k - 1]
        /\ lower \in Seq(S)
    BY <2>1, SubSeqProperties
  <2> HIDE DEF lower
  <2>3. L \in Nat /\ L >= 1
    BY <1>2
  <2> HIDE DEF L
  <2>4. Len(lower) = L - 1
    BY <2>2, <2>3
  <2>5. \A k \in 1 .. L - 1 : k \in 1 .. L - 1 - 1 + 1 /\ 1 + k - 1 = k
    BY <2>3
  <2> QED BY <2>2, <2>4, <2>5
<1>4. upper \in Seq(S) /\ Len(upper) = 1 /\ upper[1] = chain[L]
  BY <1>2, SubSeqProperties
<1>5. chain' = lower \o <<new>> \o upper
  BY <1>1 DEF InsertAt
<1>6. <<new>> \in Seq(S) /\ Len(<<new>>) = 1 /\ <<new>>[1] = new
  <2>1. new \in S
    OBVIOUS
  <2> HIDE DEF new, S
  <2> QED BY <2>1
<1> HIDE DEF lower, upper, new, S
<1>7. /\ lower \o <<new>> \in Seq(S) /\ Len(lower \o <<new>>) = L
      /\ \A k \in 1 .. L - 1 : (lower \o <<new>>)[k] = chain[k]
      /\ (lower \o <<new>>)[L] = new
  BY <1>2, <1>3, <1>6, ConcatProperties
<1>8. /\ chain' \in Seq(S) /\ Len(chain') = L + 1
      /\ \A k \in 1 .. L : chain'[k] = (lower \o <<new>>)[k]
      /\ chain'[L + 1] = chain[L]
  <2> DEFINE both == lower \o <<new>>
  <2>1. both \in Seq(S) /\ Len(both) = L /\ chain' = both \o upper
    BY <1>5, <1>7
  <2> HIDE DEF both
  <2>7. /\ both \o upper \in Seq(S) /\ Len(both \o upper) = Len(both) + Len(upper)
        /\ \A k \in 1 .. Len(both) + Len(upper) :
              (both \o upper)[k] = IF k <= Len(both) THEN both[k] ELSE upper[k - Len(both)]
    <3>1. both \in Seq(S) /\ upper \in Seq(S)
      BY <1>4, <2>1
    <3> QED BY ONLY <3>1, ConcatProperties
  <2>2. /\ chain' \in Seq(S) /\ Len(chain') = Len(both) + Len(upper)
        /\ \A k \in 1 .. Len(both) + Len(upper) :
              chain'[k] = IF k <= Len(both) THEN both[k] ELSE upper[k - Len(both)]
    BY <2>1, <2>7
  <2>3. Len(chain') = L + 1 /\ L + 1 \in 1 .. L + 1 /\ L \in Nat
    BY <1>2, <1>4, <2>1, <2>2
  <2>4. \A k \in 1 .. L : chain'[k] = both[k]
    BY <1>4, <2>1, <2>2, <2>3
  <2>5. chain'[L + 1] = upper[L + 1 - L]
    BY <1>4, <2>1, <2>2, <2>3
  <2>6. chain'[L + 1] = chain[L]
    BY <1>4, <2>3, <2>5
  <2> QED BY <2>2, <2>3, <2>4, <2>6 DEF both
<1>9. /\ chain'[L] = new
      /\ \A k \in 1 .. L - 1 : chain'[k] = chain[k]
  <2>1. L \in 1 .. L /\ \A k \in 1 .. L - 1 : k \in 1 .. L
    BY <1>2
  <2> QED BY <1>7, <1>8, <2>1
<1>10. HandOut(t, new, Made(chunks, Chunk(request[t].words, depth)))
  BY DEF AllocBelow
<1>12. request[t].words <= request[t].words
  BY <1>2
<1> QED BY <1>1, <1>2, <1>8, <1>9, <1>10, <1>12, AllocNewGood DEF S

\* Whoever pushes, pops or resets is alone, and nobody is in arena_calloc.
LEMMA AloneCalls ==
    ASSUME IInv, NEW t \in Threads, Alone(t), UNCHANGED <<users, pc, request>>, depth' \in Nat
    PROVE  Lone /\ Lone' /\ Types' /\ Calls'
<1>1. Lone /\ Lone'
  BY DEF Alone, Lone
<1>2. Types'
  BY DEF IInv, Types
<1>3. \A s \in Threads : pc[s] # "idle" => FALSE
  <2>1. \A s \in Threads : pc[s] # "idle" => s = t
    BY DEF IInv, Calls, Alone
  <2> QED BY <2>1 DEF Alone
<1>4. \A s \in Threads : pc'[s] = "idle"
  BY <1>3
<1>5. Calls'
  BY <1>1, <1>4 DEF Calls
<1> QED BY <1>1, <1>2, <1>5

LEMMA PushGood ==
    ASSUME IInv, NEW t \in Threads, cmark_arena_push(t)
    PROVE  IInv'
<1>1. /\ Alone(t) /\ UNCHANGED <<users, blocks, pc, request>>
      /\ depth \in Nat /\ depth' = depth + 1 /\ depth' \in Nat
      /\ ChunksGood(chunks, depth) /\ BlocksGood(blocks, chunks) /\ ChainGood(chain, chunks, depth)
  BY DEF IInv, Types, cmark_arena_push
<1>2. Lone /\ Lone' /\ Types' /\ Calls'
  BY <1>1, AloneCalls
<1>3. DOMAIN chunks = ToSet(chain)
  BY <1>2 DEF IInv
<1>4. \A c \in DOMAIN chunks : chunks[c].level \in Nat /\ chunks[c].level <= depth
  BY <1>1 DEF ChunksGood, Chunks
<1>5. CASE chain = <<>>
  <2>1. chain' = chain /\ chunks' = chunks
    BY <1>5 DEF cmark_arena_push
  <2>2. ChunksGood(chunks', depth')
    BY <1>1, <1>4, <2>1 DEF ChunksGood
  <2>3. ChainGood(chain', chunks', depth')
    <3>1. Len(chain) = 0
      BY <1>5
    <3> QED BY <1>1, <2>1, <3>1 DEF ChainGood
  <2> QED BY <1>1, <1>2, <1>3, <2>1, <2>2, <2>3 DEF IInv
<1>6. CASE chain # <<>>
  <2> DEFINE marked == [chunks EXCEPT ![A].push_point = TRUE]
             chunk == Chunk(PushSize, depth + 1)
  <2>1. Room /\ chain' = Append(chain, new) /\ chunks' = Made(marked, chunk)
    BY <1>6 DEF cmark_arena_push
  <2>2. new \in 1 .. MaxChunks + 1 /\ new \notin DOMAIN chunks
    BY <1>1, <2>1, NewChunk
  <2>3. /\ Len(chain) \in Nat /\ Len(chain) > 0 /\ A = chain[Len(chain)] /\ A \in DOMAIN chunks
        /\ chain \in Seq(DOMAIN chunks)
    BY <1>1, <1>6, ATop DEF ChainGood
  <2>4. /\ ChunksGood(marked, depth) /\ BlocksGood(blocks, marked)
        /\ DOMAIN marked = DOMAIN chunks
        /\ \A e \in DOMAIN chunks : /\ marked[e].level = chunks[e].level
                                    /\ e = A => marked[e].push_point
                                    /\ e # A => marked[e].push_point = chunks[e].push_point
    <3> HIDE DEF A
    <3>1. chunks \in [DOMAIN chunks -> Chunks] /\ chunks[A] \in Chunks
      BY <1>1, <2>3 DEF ChunksGood
    <3>2. /\ DOMAIN marked = DOMAIN chunks
          /\ \A e \in DOMAIN chunks : e # A => marked[e] = chunks[e]
          /\ marked[A] = [chunks[A] EXCEPT !.push_point = TRUE]
      BY <2>3, <3>1
    <3>3. /\ marked[A] \in Chunks /\ marked[A].used = chunks[A].used
          /\ marked[A].sz = chunks[A].sz /\ marked[A].level = chunks[A].level
          /\ marked[A].push_point = TRUE
      BY <3>1, <3>2 DEF Chunks
    <3>4. marked \in [DOMAIN marked -> Chunks]
      BY <3>1, <3>2, <3>3
    <3>5. \A e \in DOMAIN chunks : /\ marked[e].level = chunks[e].level
                                   /\ marked[e].used = chunks[e].used
                                   /\ marked[e].sz = chunks[e].sz
      BY <3>2, <3>3
    <3> HIDE DEF marked
    <3>6. ChunksGood(marked, depth) /\ BlocksGood(blocks, marked)
      BY <1>1, <3>2, <3>4, <3>5, MarkedGood
    <3> QED BY <3>2, <3>3, <3>6
  <2>5. /\ chunk \in Chunks /\ chunk.level = depth' /\ ~chunk.push_point
        /\ chunk.used <= chunk.sz
    BY <1>1, ArenaAssumption DEF Chunk, Chunks
  <2> HIDE DEF new, A, marked, chunk
  <2>6. /\ DOMAIN chunks' = DOMAIN chunks \cup {new} /\ chunks'[new] = chunk
        /\ \A c \in DOMAIN chunks : chunks'[c] = marked[c]
    BY <2>1, <2>2, <2>4 DEF Made
  <2>7. ChunksGood(chunks', depth') /\ BlocksGood(blocks, chunks')
    <3>1. ChunksGood(marked, depth')
      <4>1. \A c \in DOMAIN marked : marked[c].level <= depth'
        BY <1>1, <1>4, <2>4
      <4> QED BY <2>4, <4>1 DEF ChunksGood
    <3>2. chunks' \in [DOMAIN chunks' -> Chunks]
      BY <2>1, <2>4, <2>5, <2>6 DEF ChunksGood, Made
    <3>3. chunks'[new].level = depth' /\ chunks'[new].used <= chunks'[new].sz
      BY <2>5, <2>6
    <3>4. /\ new \notin DOMAIN marked /\ DOMAIN chunks' = DOMAIN marked \cup {new}
          /\ \A c \in DOMAIN marked : chunks'[c] = marked[c]
      BY <2>2, <2>4, <2>6
    <3> QED BY <1>1, <2>2, <2>4, <3>1, <3>2, <3>3, <3>4, MadeGood
  <2>8. ChainGood(chain', chunks', depth')
    <3>1. chunks'[new].level = depth + 1 /\ ~chunks'[new].push_point
      BY <1>1, <2>5, <2>6
    <3>2. \A c \in DOMAIN chunks :
             /\ chunks'[c].level = chunks[c].level
             /\ c = chain[Len(chain)] => chunks'[c].push_point
             /\ c # chain[Len(chain)] => chunks'[c].push_point = chunks[c].push_point
      BY <2>3, <2>4, <2>6
    <3>3. ChainGood(Append(chain, new), chunks', depth + 1)
      BY <1>1, <2>2, <2>3, <2>6, <3>1, <3>2, PushedChain
    <3> QED BY <1>1, <2>1, <3>3
  <2>9. DOMAIN chunks' = ToSet(chain')
    <3>1. chain \in Seq(DOMAIN chunks \cup {new}) /\ new \in DOMAIN chunks \cup {new}
      BY <2>3, SeqMonotonic
    <3>2. /\ Len(chain') = Len(chain) + 1 /\ chain' \in Seq(DOMAIN chunks \cup {new})
          /\ \A k \in 1 .. Len(chain) : chain'[k] = chain[k]
          /\ chain'[Len(chain) + 1] = new
      BY <2>1, <3>1, AppendProperties
    <3>3. DOMAIN chain' = 1 .. Len(chain) + 1 /\ DOMAIN chain = 1 .. Len(chain)
      BY <2>3, <3>2, LenProperties
    <3>4. \A k \in 1 .. Len(chain) + 1 : k \in 1 .. Len(chain) \/ k = Len(chain) + 1
      BY <2>3
    <3>5. \A k \in 1 .. Len(chain) : k \in 1 .. Len(chain) + 1
      BY <2>3
    <3>6. \A x : x \in ToSet(chain') <=> x \in ToSet(chain) \/ x = new
      <4>1. Len(chain) + 1 \in 1 .. Len(chain) + 1
        BY <2>3
      <4> QED BY <3>2, <3>3, <3>4, <3>5, <4>1 DEF ToSet
    <3> QED BY <1>3, <2>6, <3>6
  <2> QED BY <1>1, <1>2, <2>7, <2>8, <2>9 DEF IInv
<1> QED BY <1>5, <1>6

LEMMA ResetGood ==
    ASSUME IInv, NEW t \in Threads, cmark_arena_reset(t)
    PROVE  IInv'
<1>1. Alone(t) /\ UNCHANGED <<users, pc, request>> /\ depth' = 0
  BY DEF cmark_arena_reset
<1>2. Lone /\ Lone' /\ Types' /\ Calls'
  BY <1>1, AloneCalls
<1>3. chain' = <<>> /\ Len(chain') = 0 /\ chain' \in Seq({}) /\ ToSet(chain') = {} /\ blocks' = {}
  BY DEF cmark_arena_reset, ToSet
<1>4. DOMAIN chunks' = {} /\ chunks' \in [{} -> Chunks]
  <2>1. DOMAIN chunks \ ToSet(chain) = {}
    BY <1>2 DEF IInv
  <2> QED BY <2>1 DEF cmark_arena_reset, Freed
<1>5. ChunksGood(chunks', depth')
  BY <1>4 DEF ChunksGood
<1>6. ChainGood(chain', chunks', depth')
  BY <1>3, <1>4 DEF ChainGood
<1>7. BlocksGood(blocks', chunks')
  BY <1>3 DEF BlocksGood
<1> QED BY <1>2, <1>3, <1>4, <1>5, <1>6, <1>7 DEF IInv

\* The blocks of a level below the one that ends are in chunks that stay as they are.
LEMMA KeptBlocks ==
    ASSUME NEW bs, NEW cs, NEW d \in Nat, d > 0, ChunksGood(cs, d), BlocksGood(bs, cs),
           NEW bs2, bs2 \subseteq bs, \A b \in bs2 : b.level < d,
           NEW cs2, cs2 \in [DOMAIN cs2 -> Chunks], DOMAIN cs2 \subseteq DOMAIN cs,
           \A c \in DOMAIN cs : cs[c].level < d => c \in DOMAIN cs2,
           \A c \in DOMAIN cs2 : /\ cs[c].level < d /\ cs2[c].level = cs[c].level
                                 /\ cs2[c].sz = cs[c].sz /\ cs2[c].used = cs[c].used
    PROVE  ChunksGood(cs2, d - 1) /\ BlocksGood(bs2, cs2)
<1>1. DOMAIN cs2 \subseteq 1 .. MaxChunks + 1
  BY DEF ChunksGood
<1>2. \A c \in DOMAIN cs2 : cs2[c].level \in Nat
  BY DEF Chunks
<1>3. \A c \in DOMAIN cs2 : cs2[c].used <= cs2[c].sz /\ cs2[c].level <= d - 1
  BY <1>2 DEF ChunksGood
<1>4. ChunksGood(cs2, d - 1)
  BY <1>1, <1>3 DEF ChunksGood
<1>5. \A b \in bs2 : b \in bs /\ b.level < d
  OBVIOUS
<1>6. bs2 \subseteq Blocks
  BY <1>5 DEF BlocksGood
<1>7. \A b \in bs2 : /\ b.chunk \in DOMAIN cs2 /\ b.copied <= b.size
                     /\ b.from + b.size <= cs2[b.chunk].used
                     /\ b.level = cs2[b.chunk].level
  <2> SUFFICES ASSUME NEW b \in bs2
               PROVE  /\ b.chunk \in DOMAIN cs2 /\ b.copied <= b.size
                      /\ b.from + b.size <= cs2[b.chunk].used
                      /\ b.level = cs2[b.chunk].level
    OBVIOUS
  <2>1. /\ b.chunk \in DOMAIN cs /\ b.copied <= b.size
        /\ b.from + b.size <= cs[b.chunk].used /\ b.level = cs[b.chunk].level /\ b.level < d
    BY <1>5 DEF BlocksGood
  <2>2. b.chunk \in DOMAIN cs2
    BY <2>1
  <2> QED BY <2>1, <2>2
<1>8. \A b, c \in bs2 : b # c /\ b.chunk = c.chunk =>
          b.from + b.size < c.from \/ c.from + c.size < b.from
  BY <1>5 DEF BlocksGood
<1> QED BY <1>4, <1>6, <1>7, <1>8 DEF BlocksGood

LEMMA PopGood ==
    ASSUME IInv, NEW t \in Threads, cmark_arena_pop(t)
    PROVE  IInv'
<1> DEFINE points == {k \in DOMAIN chain : chunks[chain[k]].push_point}
           L == Len(chain)
<1>1. /\ Alone(t) /\ UNCHANGED <<users, pc, request>>
      /\ depth \in Nat /\ depth > 0 /\ depth' = depth - 1 /\ depth' \in Nat
      /\ ChunksGood(chunks, depth) /\ BlocksGood(blocks, chunks) /\ ChainGood(chain, chunks, depth)
      /\ blocks' = {b \in blocks : b.level < depth}
  BY DEF IInv, Types, cmark_arena_pop
<1>2. Lone /\ Lone' /\ Types' /\ Calls'
  BY <1>1, AloneCalls
<1>3. /\ DOMAIN chunks = ToSet(chain) /\ chain \in Seq(DOMAIN chunks)
      /\ L \in Nat /\ DOMAIN chain = 1 .. L /\ \A k \in 1 .. L : chain[k] \in DOMAIN chunks
  <2>1. chain \in Seq(DOMAIN chunks)
    BY <1>1 DEF ChainGood
  <2> QED BY <1>2, <2>1, ElementOfSeq, LenProperties DEF IInv
<1>4. \A c \in DOMAIN chunks : \E k \in 1 .. L : c = chain[k]
  BY <1>3 DEF ToSet
<1>5. \A c \in DOMAIN chunks : chunks[c] \in Chunks /\ chunks[c].level \in Nat
  BY <1>1 DEF ChunksGood, Chunks
<1>6. CASE points = {}
  <2>1. chain' = <<>> /\ chunks' = Freed(chunks, ToSet(chain) \ ToSet(<<>>))
    BY <1>6 DEF cmark_arena_pop, Kept, Unmark
  <2>2. /\ Len(chain') = 0 /\ chain' \in Seq({}) /\ ToSet(chain') = {} /\ ToSet(<<>>) = {}
        /\ DOMAIN chunks' = {} /\ chunks' \in [DOMAIN chunks' -> Chunks]
    BY <1>3, <2>1 DEF ToSet, Freed
  <2>3. \A c \in DOMAIN chunks : ~(chunks[c].level < depth)
    <3>1. \A k \in 1 .. L : ~chunks[chain[k]].push_point
      BY <1>3, <1>6
    <3>2. \A k \in 1 .. L : chunks[chain[k]].level = depth
      <4> SUFFICES ASSUME NEW k \in 1 .. L PROVE chunks[chain[k]].level = depth
        OBVIOUS
      <4>1. L \in 1 .. L /\ k <= L /\ \A i \in k .. L - 1 : i \in 1 .. L
        BY <1>3
      <4>2. \A i \in k .. L - 1 : ~chunks[chain[i]].push_point
        BY <3>1, <4>1
      <4> QED BY <1>1, <4>1, <4>2 DEF ChainGood
    <3> QED BY <1>1, <1>4, <3>2
  <2>4. ChunksGood(chunks', depth') /\ BlocksGood(blocks', chunks')
    BY <1>1, <2>2, <2>3, KeptBlocks
  <2>5. ChainGood(chain', chunks', depth')
    BY <2>2 DEF ChainGood
  <2> QED BY <1>2, <2>2, <2>4, <2>5 DEF IInv
<1>7. CASE points # {}
  <2> DEFINE m == CHOOSE k \in points : \A j \in points : j <= k
             kept == SubSeq(chain, 1, m)
  <2>1. m \in points /\ \A j \in points : j <= m
    <3>1. points \in SUBSET (1 .. L)
      BY <1>3
    <3> HIDE DEF points
    <3>2. \E k \in points : \A j \in points : j <= k
      BY <1>3, <1>7, <3>1, HasGreatest
    <3> QED BY <3>2
  <2>2. /\ m \in 1 .. L /\ chunks[chain[m]].push_point
        /\ \A k \in 1 .. L : chunks[chain[k]].push_point => k <= m
    BY <1>3, <2>1
  <2>3. Kept = kept
    BY <1>7 DEF Kept
  <2> HIDE DEF m, points
  <2>4. kept \in Seq(DOMAIN chunks) /\ Len(kept) = m /\ \A k \in 1 .. m : kept[k] = chain[k]
    <3>1. \A k \in 1 .. m : chain[k] \in DOMAIN chunks
      BY <1>3, <2>2
    <3>2. /\ kept \in Seq(DOMAIN chunks) /\ Len(kept) = IF 1 <= m THEN m - 1 + 1 ELSE 0
          /\ \A k \in 1 .. m - 1 + 1 : kept[k] = chain[1 + k - 1]
      BY <2>2, <3>1, SubSeqProperties
    <3>3. m - 1 + 1 = m /\ 1 <= m /\ \A k \in 1 .. m : 1 + k - 1 = k
      BY <2>2
    <3> QED BY <3>2, <3>3
  <2> HIDE DEF kept
  <2> DEFINE top == chain[m]
             marked == [chunks EXCEPT ![top].push_point = FALSE]
  <2>5. kept # <<>> /\ Last(kept) = top
    BY <2>2, <2>4 DEF Last
  <2>6. chain' = kept /\ chunks' = Freed(marked, ToSet(chain) \ ToSet(kept))
    BY <2>3, <2>5 DEF cmark_arena_pop, Unmark
  <2>7. ToSet(kept) \subseteq DOMAIN chunks /\ \A x : x \in ToSet(kept) <=> \E k \in 1 .. m : x = chain[k]
    <3>1. DOMAIN kept = 1 .. m
      BY <2>4, LenProperties
    <3>2. \A k \in 1 .. m : k \in 1 .. L
      BY <1>3, <2>2
    <3> QED BY <1>3, <2>4, <3>1, <3>2 DEF ToSet
  <2>8. /\ top \in DOMAIN chunks /\ marked \in [DOMAIN chunks -> Chunks]
        /\ \A c \in DOMAIN chunks : /\ marked[c].level = chunks[c].level
                                    /\ marked[c].used = chunks[c].used
                                    /\ marked[c].sz = chunks[c].sz
                                    /\ c = top => ~marked[c].push_point
                                    /\ c # top => marked[c].push_point = chunks[c].push_point
    <3>1. top \in DOMAIN chunks /\ chunks \in [DOMAIN chunks -> Chunks] /\ chunks[top] \in Chunks
      BY <1>1, <1>3, <2>2 DEF ChunksGood
    <3> HIDE DEF top
    <3>2. /\ DOMAIN marked = DOMAIN chunks
          /\ \A c \in DOMAIN chunks : c # top => marked[c] = chunks[c]
          /\ marked[top] = [chunks[top] EXCEPT !.push_point = FALSE]
      BY <3>1
    <3>3. /\ marked[top] \in Chunks /\ marked[top].used = chunks[top].used
          /\ marked[top].sz = chunks[top].sz /\ marked[top].level = chunks[top].level
          /\ marked[top].push_point = FALSE
      BY <3>1, <3>2 DEF Chunks
    <3>4. marked \in [DOMAIN chunks -> Chunks]
      BY <3>1, <3>2, <3>3
    <3> QED BY <3>1, <3>2, <3>3, <3>4
  <2> HIDE DEF marked
  <2>9. /\ DOMAIN chunks' = ToSet(kept) /\ \A c \in ToSet(kept) : chunks'[c] = marked[c]
        /\ chunks' \in [DOMAIN chunks' -> Chunks]
    <3>1. DOMAIN marked \ (ToSet(chain) \ ToSet(kept)) = ToSet(kept)
      BY <1>3, <2>7, <2>8
    <3>2. chunks' = [c \in ToSet(kept) |-> marked[c]]
      BY <2>6, <3>1 DEF Freed
    <3>3. \A c \in ToSet(kept) : marked[c] \in Chunks
      BY <2>7, <2>8
    <3> QED BY <3>2, <3>3
  <2>10. \A k \in 1 .. m : /\ chain[k] \in DOMAIN chunks'
                           /\ chunks'[chain[k]].level = chunks[chain[k]].level
                           /\ k = m => ~chunks'[chain[k]].push_point
                           /\ k # m =>
                                chunks'[chain[k]].push_point = chunks[chain[k]].push_point
    <3>1. \A k \in 1 .. m : k \in 1 .. L /\ chain[k] \in ToSet(kept) /\ chain[k] \in DOMAIN chunks
      BY <1>3, <2>2, <2>7
    <3>2. \A k \in 1 .. m : k # m => chain[k] # top
      BY <1>1, <2>2, <3>1 DEF ChainGood
    <3> QED BY <2>8, <2>9, <3>1, <3>2
  <2>11. /\ ChainGood(kept, chunks', depth - 1)
         /\ \A k \in 1 .. m : chunks[chain[k]].level <= depth - 1
         /\ \A k \in m + 1 .. L : chunks[chain[k]].level = depth
    BY <1>1, <2>2, <2>4, <2>10, PoppedChain
  <2>12. ChainGood(chain', chunks', depth')
    BY <1>1, <2>6, <2>11
  <2>13. \A c \in DOMAIN chunks : chunks[c].level < depth => c \in DOMAIN chunks'
    <3> SUFFICES ASSUME NEW c \in DOMAIN chunks, chunks[c].level < depth PROVE c \in DOMAIN chunks'
      OBVIOUS
    <3>1. PICK k \in 1 .. L : c = chain[k]
      BY <1>4
    <3>2. k \in 1 .. m \/ k \in m + 1 .. L
      BY <1>3, <2>2
    <3>3. k \in 1 .. m
      BY <1>1, <2>11, <3>1, <3>2
    <3> QED BY <2>7, <2>9, <3>1, <3>3
  <2>14. \A c \in DOMAIN chunks' : /\ chunks[c].level < depth
                                   /\ chunks'[c].level = chunks[c].level
                                   /\ chunks'[c].sz = chunks[c].sz
                                   /\ chunks'[c].used = chunks[c].used
    <3> SUFFICES ASSUME NEW c \in DOMAIN chunks'
                 PROVE  /\ chunks[c].level < depth
                        /\ chunks'[c].level = chunks[c].level
                        /\ chunks'[c].sz = chunks[c].sz
                        /\ chunks'[c].used = chunks[c].used
      OBVIOUS
    <3>1. c \in ToSet(kept) /\ c \in DOMAIN chunks
      BY <2>7, <2>9
    <3>2. PICK k \in 1 .. m : c = chain[k]
      BY <2>7, <3>1
    <3>3. chunks[c].level <= depth - 1 /\ chunks[c].level \in Nat
      BY <1>5, <2>11, <3>1, <3>2
    <3>4. chunks[c].level < depth
      BY <1>1, <3>3
    <3> QED BY <2>8, <2>9, <3>1, <3>4
  <2>15. ChunksGood(chunks', depth') /\ BlocksGood(blocks', chunks')
    <3>1. DOMAIN chunks' \subseteq DOMAIN chunks
      BY <2>7, <2>9
    <3>2. blocks' \subseteq blocks /\ \A b \in blocks' : b.level < depth
      BY <1>1, <1>2
    <3>3. /\ depth \in Nat /\ depth > 0 /\ ChunksGood(chunks, depth) /\ BlocksGood(blocks, chunks)
          /\ chunks' \in [DOMAIN chunks' -> Chunks]
      BY <1>1, <2>9
    <3>4. ChunksGood(chunks', depth - 1) /\ BlocksGood(blocks', chunks')
      BY <2>13, <2>14, <3>1, <3>2, <3>3, KeptBlocks
    <3> QED BY <1>1, <3>4
  <2> QED BY <1>2, <2>6, <2>9, <2>12, <2>15 DEF IInv
<1> QED BY <1>6, <1>7

-----------------------------------------------------------------------------
LEMMA NextGood == IInv /\ [Next]_vars => IInv'
<1> SUFFICES ASSUME IInv, [Next]_vars PROVE IInv'
  OBVIOUS
<1>1. ASSUME NEW t \in Threads, NEW w \in Requests, Calloc(t, w) PROVE IInv'
  <2>1. w \in Nat /\ w + 1 \in Nat /\ w + 1 > 0 /\ 0 < w + 1
    BY ArenaAssumption
  <2> DEFINE words == w + 1
  <2>2. /\ t \in users /\ pc[t] = "idle" /\ pc' = [pc EXCEPT ![t] = Tested]
        /\ request' = [request EXCEPT ![t] = [words |-> words, old |-> 0]]
        /\ UNCHANGED <<users, chain, chunks, blocks, depth>>
    BY <1>1 DEF Calloc
  <2> HIDE DEF words
  <2>3. words \in Nat /\ words > 0 /\ 0 < words
    BY <2>1 DEF words
  <2> QED BY <2>2, <2>3, CallGood
<1>2. ASSUME NEW t \in Threads, NEW w \in Requests, Realloc(t, w) PROVE IInv'
  <2>1. PICK b \in blocks : /\ b.size <= w
                            /\ request' = [request EXCEPT ![t] = [words |-> w + 1, old |-> b.size]]
    BY <1>2 DEF Realloc
  <2> DEFINE words == w + 1
             old == b.size
  <2>2. b \in Blocks
    BY DEF IInv, BlocksGood
  <2>3. words \in Nat /\ words > 0 /\ old \in Nat /\ old < words
    BY <2>1, <2>2, ArenaAssumption DEF Blocks
  <2>4. /\ t \in users /\ pc[t] = "idle" /\ pc' = [pc EXCEPT ![t] = Tested]
        /\ request' = [request EXCEPT ![t] = [words |-> words, old |-> old]]
        /\ UNCHANGED <<users, chain, chunks, blocks, depth>>
    BY <1>2, <2>1 DEF Realloc
  <2> HIDE DEF words, old
  <2> QED BY <2>3, <2>4, CallGood
<1>3. ASSUME NEW t \in Threads, init_arena(t) PROVE IInv'
  BY <1>3, init_arenaGood
<1>4. ASSUME NEW t \in Threads, AllocBelow(t) PROVE IInv'
  BY <1>4, AllocBelowGood
<1>5. ASSUME NEW t \in Threads, AllocGrow(t) PROVE IInv'
  BY <1>5, AllocGrowGood
<1>6. ASSUME NEW t \in Threads, AllocInA(t) PROVE IInv'
  BY <1>6, AllocInAGood
<1>7. ASSUME NEW t \in Threads, cmark_arena_push(t) PROVE IInv'
  BY <1>7, PushGood
<1>8. ASSUME NEW t \in Threads, cmark_arena_pop(t) PROVE IInv'
  BY <1>8, PopGood
<1>9. ASSUME NEW t \in Threads, cmark_arena_reset(t) PROVE IInv'
  BY <1>9, ResetGood
<1>10. CASE UNCHANGED vars
  BY <1>10 DEF vars, IInv, Types, Calls, Lone
<1> QED BY <1>1, <1>2, <1>3, <1>4, <1>5, <1>6, <1>7, <1>8, <1>9, <1>10 DEF Next

\* Whatever the threads do between the test of A and the lock, what callers hold is in
\* memory that is not freed and not shared, and has room for what is copied to it
\* (arena_calloc, arena_realloc, init_arena, cmark_arena_pop).
THEOREM ArenaBlocksSafe == Spec => []BlocksSafe
<1>1. IInv => BlocksSafe
  BY DEF IInv, BlocksSafe, BlocksGood, ChunksGood
<1> QED BY <1>1, InitGood, NextGood, PTL DEF Spec

\* A thread that is alone gets back all that was made since its push with a pop, and
\* everything with a reset: cmark_arena_push, cmark_arena_pop, cmark_arena_reset.
THEOREM ArenaLevelsReturned == Spec => []LevelsReturned
<1>1. IInv => LevelsReturned
  BY DEF IInv, LevelsReturned, Lone, ChunksGood
<1> QED BY <1>1, InitGood, NextGood, PTL DEF Spec
=============================================================================

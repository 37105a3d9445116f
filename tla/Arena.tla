-------------------------------- MODULE Arena -------------------------------
(***************************************************************************)
(* The arena allocator (src/arena.c) and the threads that allocate from    *)
(* it. What is done under the lock is one action; the test for an empty    *)
(* arena is made without it and is an action of its own. Sizes are in      *)
(* words of sizeof(size_t) bytes, to which requests are rounded up.        *)
(***************************************************************************)
EXTENDS Integers, FiniteSets, SequencesExt

CONSTANTS
    Threads,
    Requests,     \* the words that are asked for
    FirstSize,    \* the words of the first chunk: 4 MB
    PushSize,     \* the words of the chunk of cmark_arena_push: 10240 bytes
    MaxChunks,    \* the chunks, the blocks in use and the open pushes at one time
    MaxBlocks,
    MaxDepth
ASSUME ArenaAssumption ==
    /\ Requests \subseteq Nat \ {0}
    /\ {FirstSize, PushSize, MaxChunks, MaxBlocks, MaxDepth} \subseteq Nat \ {0}

VARIABLES
    users,        \* the threads that use the arena
    chain,        \* the chunks that A leads to, from the bottom up: A is the last
    chunks,       \* the chunks that are not freed: sz, used, push_point, level
    blocks,       \* the blocks that callers hold
    depth,        \* the pushes that were not popped
    pc, request   \* where a thread is in arena_calloc, and what it asks for
vars == <<users, chain, chunks, blocks, depth, pc, request>>

None == [words |-> 0, old |-> 0]
Init == /\ users \in SUBSET Threads \ {{}}
        /\ chain = <<>> /\ chunks = <<>> /\ blocks = {} /\ depth = 0
        /\ pc = [t \in Threads |-> "idle"] /\ request = [t \in Threads |-> None]

\* The push points belong to the process: a thread that pops frees what others
\* hold, and one that has tested A may then find none. So whoever pushes, pops or
\* resets has to be alone.
Alone(t) == users = {t} /\ pc[t] = "idle"

Chunk(sz, level) == [sz |-> sz, used |-> 0, push_point |-> FALSE, level |-> level]
new == CHOOSE k \in 1 .. MaxChunks + 1 : k \notin DOMAIN chunks
Room == Cardinality(DOMAIN chunks) < MaxChunks
Made(cs, chunk) == [c \in DOMAIN cs \cup {new} |-> IF c = new THEN chunk ELSE cs[c]]
Freed(cs, S) == [c \in DOMAIN cs \ S |-> cs[c]]
A == Last(chain)
-----------------------------------------------------------------------------
\* The first lines of arena_calloc, and of arena_realloc for an old block: if (!A)
Tested == IF chain = <<>> THEN "init" ELSE "alloc"
Calloc(t, words) ==
    /\ t \in users /\ pc[t] = "idle" /\ Cardinality(blocks) < MaxBlocks
    /\ pc' = [pc EXCEPT ![t] = Tested]
    /\ request' = [request EXCEPT ![t] = [words |-> words + 1, old |-> 0]]
    /\ UNCHANGED <<users, chain, chunks, blocks, depth>>
\* Callers only ask for more than they have. arena_free gives nothing back.
Realloc(t, words) ==
    /\ t \in users /\ pc[t] = "idle" /\ Cardinality(blocks) < MaxBlocks
    /\ \E b \in blocks : /\ b.size <= words
                         /\ request' = [request EXCEPT ![t] = [words |-> words + 1, old |-> b.size]]
    /\ pc' = [pc EXCEPT ![t] = Tested]
    /\ UNCHANGED <<users, chain, chunks, blocks, depth>>

\* A is replaced, whatever it is by now.
init_arena(t) ==
    /\ pc[t] = "init"
    /\ Room /\ chunks' = Made(chunks, Chunk(FirstSize, depth)) /\ chain' = <<new>>
    /\ pc' = [pc EXCEPT ![t] = "alloc"]
    /\ UNCHANGED <<users, blocks, depth, request>>

\* The block of the request at the place where chunk c is filled; its size, in the
\* word before it, is how much of the old block is copied.
HandOut(t, c, cs) ==
    /\ chunks' = [cs EXCEPT ![c].used = @ + request[t].words]
    /\ blocks' = blocks \cup {[chunk |-> c, from |-> cs[c].used + 1, level |-> depth,
                               size |-> request[t].words - 1, copied |-> request[t].old]}
    /\ pc' = [pc EXCEPT ![t] = "idle"] /\ request' = [request EXCEPT ![t] = None]
    /\ UNCHANGED <<users, depth>>
Locked(t) == pc[t] = "alloc"

\* Mutant: what is left of a chunk is taken to be all of it.
Left_All(c) == chunks[c].sz
Left(c) == chunks[c].sz - chunks[c].used
\* A request that A could never hold has a chunk of its own, below A.
AllocBelow(t) ==
    /\ Locked(t) /\ request[t].words > chunks[A].sz /\ Room
    /\ chain' = InsertAt(chain, Len(chain), new)
    /\ HandOut(t, new, Made(chunks, Chunk(request[t].words, depth)))
AllocGrow(t) ==
    /\ Locked(t) /\ request[t].words \in Left(A) + 1 .. chunks[A].sz /\ Room
    /\ chain' = Append(chain, new)
    /\ HandOut(t, new, Made(chunks, Chunk(chunks[A].sz + chunks[A].sz \div 2, depth)))
AllocInA(t) ==
    /\ Locked(t) /\ request[t].words <= Left(A)
    /\ HandOut(t, A, chunks)
    /\ UNCHANGED chain

cmark_arena_push(t) ==
    /\ Alone(t) /\ depth < MaxDepth /\ depth' = depth + 1
    /\ IF chain = <<>> THEN UNCHANGED <<chain, chunks>>
       ELSE /\ Room /\ chain' = Append(chain, new)
            /\ chunks' = Made([chunks EXCEPT ![A].push_point = TRUE], Chunk(PushSize, depth + 1))
    /\ UNCHANGED <<users, blocks, pc, request>>

\* What the loop of cmark_arena_pop leaves: the chunks up to the last push point
Kept == LET points == {k \in DOMAIN chain : chunks[chain[k]].push_point}
        IN  IF points = {} THEN <<>>
            ELSE SubSeq(chain, 1, CHOOSE k \in points : \A j \in points : j <= k)
\* Mutant: the push point stays.
Unmark_Not(kept) == chunks
Unmark(kept) == IF kept = <<>> THEN chunks ELSE [chunks EXCEPT ![Last(kept)].push_point = FALSE]
cmark_arena_pop(t) ==
    /\ Alone(t) /\ depth > 0 /\ depth' = depth - 1
    /\ chain' = Kept /\ chunks' = Freed(Unmark(Kept), ToSet(chain) \ ToSet(Kept))
    /\ blocks' = {b \in blocks : b.level < depth}
    /\ UNCHANGED <<users, pc, request>>

cmark_arena_reset(t) ==
    /\ Alone(t)
    /\ chain' = <<>> /\ chunks' = Freed(chunks, ToSet(chain)) /\ blocks' = {} /\ depth' = 0
    /\ UNCHANGED <<users, pc, request>>

Next == \/ \E t \in Threads, w \in Requests : Calloc(t, w)
        \/ \E t \in Threads, w \in Requests : Realloc(t, w)
        \/ \E t \in Threads : init_arena(t)
        \/ \E t \in Threads : AllocBelow(t)
        \/ \E t \in Threads : AllocGrow(t)
        \/ \E t \in Threads : AllocInA(t)
        \/ \E t \in Threads : cmark_arena_push(t)
        \/ \E t \in Threads : cmark_arena_pop(t)
        \/ \E t \in Threads : cmark_arena_reset(t)
Spec == Init /\ [][Next]_vars
-----------------------------------------------------------------------------
\* Whatever the threads do between the test of A and the lock, the blocks that
\* callers hold are in memory that is not freed, none overlaps another or the end
\* of what its chunk has handed out, and each has room for what is copied to it.
\* arena_calloc, init_arena, cmark_arena_pop
BlocksSafe ==
    /\ \A b \in blocks : /\ b.chunk \in DOMAIN chunks /\ b.copied <= b.size
                         /\ b.from + b.size <= chunks[b.chunk].used
                         /\ chunks[b.chunk].used <= chunks[b.chunk].sz
    /\ \A b, c \in blocks : b # c /\ b.chunk = c.chunk =>
          b.from + b.size < c.from \/ c.from + c.size < b.from

\* A thread that is alone has every chunk that is not freed within the reach of
\* cmark_arena_reset, and a pop returned all that was made since its push: chunks
\* that grew and those below A included, also when the push found no arena.
LevelsReturned ==
    (\E t \in Threads : users = {t}) => /\ DOMAIN chunks = ToSet(chain)
                                        /\ \A c \in DOMAIN chunks : chunks[c].level <= depth
=============================================================================

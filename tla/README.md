# swift-cmark in TLA+

A model of swift-cmark (cmark-gfm, the C implementation of GitHub Flavored
Markdown) from its input to its output: the splitting of input into lines, the
block parser, the text of paragraphs down to its characters, emphasis and
links, tables, autolinks and footnotes, the map of reference definitions, the
document tree and its iterator, the renderers, and the two things that threads
share, the arena and the registry of extensions. The modules are translated
from the C source under `src/`; comments in them name the functions.

## The system

A client creates a `cmark_parser`, attaches extensions, feeds it buffers and
calls `cmark_parser_finish`. `S_parser_feed` cuts the buffers into lines and
hands each to `S_process_line`, which walks the open blocks, opens new ones,
and adds the text to one of them. When the input ends, `finalize_document`
closes all blocks, limits reference expansion, and `process_inlines` walks the
tree with an iterator and parses the text of every leaf block, looking
references up in the map that the block phase filled. `process_footnotes`
numbers and moves footnotes, extensions postprocess the tree, and adjacent
text nodes are consolidated. The tree then belongs to the client, which edits
it through `node.c`, walks it with iterators, renders it and frees it.

| Component | State it keeps | Operations | What makes it correct |
|---|---|---|---|
| Tree (`node.c`) | five pointers and a type per node; a process-wide safety flag | create, unlink, insert before/after, replace, append, prepend, set type, free | the pointers of all nodes describe one forest, without cycles or dangling pointers; no call puts a child where it may not be, other than by converting its parent |
| Iterator (`iterator.c`) | current and next event | next, reset, consolidate | every node entered and left once although the tree changes; ends; never holds a freed node |
| Line splitting (`blocks.c`) | `linebuf`, `last_buffer_ended_with_cr`, `total_size` | feed, feed reentrant, parse document, parse file, finish | the lines do not depend on how the input was cut |
| Block phase (`blocks.c`) | the tree of blocks with their open flags, `current`, blank-line marks | process a line, finish | one chain of open blocks; text neither lost nor doubled; tightness as specified; every line ends |
| Inline parser (`inlines.c`) | delimiter stack, bracket stack, `no_link_openers`, list of nodes | parse a token, process emphasis, close a bracket | stacks and tree agree; delimiters are conserved; searches cut short lose nothing; ends |
| Reference map (`map.c`, `references.c`) | list, sorted array, expansion so far and its limit | define, look up, free | first definition wins; the expansion is limited |
| Footnotes (`blocks.c`, `footnotes.c`) | map of definitions, indices | collect, number, move, drop | each reference gets its definition; definitions are written once, in order of first use |
| Arena (`arena.c`) | process-wide list of chunks, push points | calloc, realloc, push, pop, reset | no memory is handed out twice or lost between threads |
| Registry (`registry.c`, `syntax_extension.c`, `plugin.c`, `core-extensions.c`) | process-wide list of extensions, counters of node types and flags | register, find, list, release | registered once; types and flags unique |
| Text (`inlines.c`, `scanners.c`, `houdini_*.c`) | position in the paragraph, line and column, recorded backticks, flags of failed scans | read a definition, a span of code or raw HTML, an entity, an escape, a line break | a scan cut short misses nothing; spans end where they should; positions are exact |
| Autolinks (`autolink.c`) | none of its own: takes characters back from nodes, splits text nodes | `www.` and `://` while parsing, addresses afterwards | text neither lost nor doubled |
| Tables (`table.c`) | columns, rows, alignments, count of cells, spans | take a header from a paragraph, add a row, leave | rows are full; the count is exact; spans are right; written tables read back the same |
| String buffer (`buffer.c`) | pointer, size, allocated size | grow, put, drop, truncate, detach | never writes past its allocation; always NUL-terminated |
| Other extensions (`extensions/`) | data in nodes, special characters and delimiters in the parser | hooks called from the block and inline phases and by the renderers | as for the phase they hook into |
| Renderers (`html.c`, `xml.c`, `render.c` and its formats) | output buffer, column, prefix, last breakable position, modes | one call per event of a walk | output well nested; wrapping loses nothing; every line has its prefix |

Components interact by calls in one thread: the parser owns its tree and map;
extensions are called back from inside `S_process_line` and the inline parser
and may feed text back (`cmark_parser_feed_reentrant`). The arena and the
registry alone are shared between threads. Nothing is persisted. What is hard
here is therefore seldom failure or timing but long sequences of legal calls,
pointers into structures that are rearranged while they are in use (the
iterator, the stacks of the inline parser, `parser->current`), caches
(`openers_bottom`, the sorted array, the blank-line marks, recorded backticks),
modes that one event sets and another resets, state that survives
from one call to the next (`last_buffer_ended_with_cr`), and limits.
`PROJECT.json` lists these hazards by line.

## Modules

| Module | Models | Used by |
|---|---|---|
| `NodeLinks` | the five pointer fields as a record of functions; unlink, insert and free as operators on it | `NodeTree`, `TreeShapes` |
| `NodeTree` | the public operations of `node.c` | `MCNodeTree`, `NodeTreeProofs` |
| `Forest` | what they promise: nodes with sequences of children | refined by `NodeTree` |
| `NodeFree` | `cmark_node_free` with one step per turn of the loop of `S_free_nodes` | `Iterator` |
| `TreeShapes` | all trees of a given size | `NodeFree`, `Iterator` |
| `Iterator` | `cmark_iter_next`, `cmark_iter_reset`, two clients: one that edits, and `cmark_consolidate_text_nodes` | |
| `Feed` | `S_parser_feed` and the interfaces above it | `MCFeed`, `FeedProofs` |
| `Blocks` | `S_process_line` to `finalize_document` | `MCBlocks` |
| `Inlines` | `parse_inline`, `handle_close_bracket`, `process_emphasis`, `S_insert_emph`, strikethrough's `insert` | `MCInlines` |
| `RefMap` | `map.c`, `references.c`, their callers, the expansion limit | `MCRefMap`, `RefMapProofs` |
| `RefDict` | what it promises: a dictionary with a limit on its answers | refined by `RefMap` |
| `Regex`, `Scanners` | regular expressions and every scanner of `scanners.c` and `ext_scanners.c` as one | `Escape`, `Document` |
| `Escape` | entities, escapes and cleaning of destinations | `LinkParts`, `Autolink`, `Table` |
| `LinkParts` | labels, destinations, titles and attributes; reference definitions | `Spans` |
| `Autolink` | `extensions/autolink.c` | `Spans` |
| `Spans` | the text of a paragraph, one step per definition and per inline | `MCSpans` |
| `Table` | `extensions/table.c` from lines to rows, and the CommonMark it is written as | `MCTable` |
| `Document` | the finished tree, the order of its events, `process_footnotes` | `Html`, `Outc` |
| `Html` | `html.c` and `xml.c` with the extensions' renderers: one call of `S_render_node` | `Output` |
| `Outc`, `Render` | `outc` of four formats; `S_out`, prefixes and wrapping of `render.c` | `Formats` |
| `Formats` | `commonmark.c`, `plaintext.c`, `latex.c`, `man.c` with the extensions' renderers | `Output` |
| `Output` | composes them: a tree is built, its footnotes processed, its events rendered | `MCOutput` |
| `Arena` | `arena.c` and the threads that allocate | |
| `Registry` | `registry.c`, `plugin.c`, `core-extensions.c`, node types, the once and lock of `mutex.h` | |
| `NodeLinksProofs`, `NodeTreeProofs`, `IteratorProofs`, `FeedProofs`, `BlocksProofs`, `RefMapProofs`, `ArenaProofs`, `RegistryProofs` | theorems about the modules they are named for, the first for the next two | |

Operators with names such as `Trimmed_OneMore` are mutants: plausible bugs,
each placed before the definition it replaces. `PROJECT.json` says which
property notices which.

**Tree.** `tree.next`, `tree.prev` and so on are functions from nodes to nodes
or `NULL`. Each public operation is one action: what it does to the pointers is
an operator of `NodeLinks` composed of the same stores as the code, its return
value is `ret`. `cmark_node_free` is atomic in `NodeTree` and a loop in
`NodeFree`; `FreesSubtree` shows that the loop does what the atomic action
says. A client that links a node below itself with the safety checks off is
outside the documented interface and not modelled (`NoLoop`); one that inserts
a node next to itself is, under `SelfSibling`. `cmark_node_set_type`
converts any node, and asks the parent alone: the children of the node may then
be where `cmark_node_can_contain_type` does not allow them. The mapping to `Forest`
reads the children of a node off the pointers: `ChildSeq` is the sequence that
starts at `first_child` and follows `next`.

**Iterator.** `cur` and `next` are the fields of the iterator. The general
client makes, between two calls, the changes `cmark-gfm.h` allows: it frees,
unlinks or replaces the current node after EXIT, and the two changes the
library itself makes after ENTER: filling a leaf with children
(`process_inlines`) and skipping to EXIT (`cmark_render`). The other client is
`cmark_consolidate_text_nodes`.

**Line splitting.** A byte is `x`, `CR`, `LF` or `NUL`; `frames` is the stack
of active calls of `S_parser_feed`, as an extension may feed from inside
`S_process_line`. `IsLinesOf` is the reference: it says of a sequence of lines that
they are those of a whole text, without saying how they were found.

**Block phase.** A line is a prefix of markers and indentation, in units of two
columns, and a body, which is what the scanners find after it. Blocks are
records in a sequence, numbered as they are made. `pc` says where
`S_process_line` is: `check` (check_open_blocks), `open` (open_new_blocks),
`add` (add_child, which may close blocks while it backs up), `text`, `close`
and `html_end` (add_text_to_container), `finish`. The content of a block is the
sequence of the numbers of its lines. Before its properties were trusted, the
model was compared with the program: for the documents of the run without
footnotes (17314 of them), and for all 23871 documents of up to two lines
over every body with fourteen prefixes, tree, contents and tightness were those
of the compiled library.

**Inline parser.** A token is a run of delimiters with its flanking, a bracket,
a closing bracket with what follows it (`nothing`, `inline`, `reference`,
`shortcut`), or a text. The nodes of tokens are numbered by position. `pe`
holds the locals of the active `process_emphasis` call, whose loop takes one
step per turn.

**Reference map.** The list is a set of entries with ages. `sort_map`'s loop,
which drops duplicates in the array it reads, takes one step per turn. Labels
are numbers ordered as `strcmp` orders them; `normalize` maps raw labels to
them, or to `NULL`.

**Text.** A character is a letter, a punctuation mark, a word the scanners
know, or `SP`, `LF`, `BS`, `BQ` and so on. A scanner is the set of positions
where a match of its expression may end, of which re2c takes the longest.
`Spans` has the content of a paragraph: `resolve_reference_link_definitions`
takes definitions from its front one by one, then `pos` moves through the text
and `out` collects the nodes; `line`, `column_offset` and the scans recorded
(`backticks`, `scanned_for_backticks`, the flags `FLAG_SKIP_HTML_...`) are those
of `subject`. When the end or a character of `Inlines` is reached,
`postprocess_text` splits the text nodes that hold addresses.

**Tables.** `open` is the open block, `content` the paragraph, `table` the open
table with its rows of cells. A line is one step, which takes the whole of
`try_opening_table_header` or `try_opening_table_row`. `RowText` and
`DelimiterText` are what the CommonMark renderer writes, `ReadBack` reads it
with the operators of the parser.

**Output.** A tree is built in the order of the source, with each node where
`cmark_node_can_contain_type` allows it. `process_footnotes` is one step. Then
each step is one event of the walk and the whole of `S_render_node` for it. The
output of HTML and XML is a sequence of tags and texts; that of the other
formats a sequence of characters, in which a piece of markup that is always
written whole (`\emph{`, `.PP`) is one. Formats turn an event into commands
(`Out`, `CR`, `Push`, ...) that `Render` carries out, as the code calls through
the function pointers of `cmark_renderer`.

**Arena.** What is done under the lock is one action; the test of `A` before it
is another, so that two threads can both find no arena. Blocks know the chunk
and the words they have. Push points are those of the process: only a thread
that is alone pushes, pops and resets, which is the precondition
`cmark-gfm.h` leaves unsaid.

**Registry.** `at` says where each thread is in its call. Inside the once
(`once`) of the registration a thread creates the extensions that have node
types, each time reading the last type and writing the next one in two steps,
and then takes `lock` to append them. One thread may register a plugin of its
own after it has ensured the core extensions, and releases all of them; after
that nothing is registered again. The once that initializes the lock is left
out: what it runs waits for nothing.

The text, table and output models were compared with the compiled program on
random documents before their properties were trusted: the nodes of paragraphs
and tables, and some twelve hundred trees in each of six formats with options
and widths, without a difference other than those listed below as left out.

## Runs

| Run | Instance | Shows |
|---|---|---|
| `node_tree` | 5 nodes, one of them of another allocator; types custom block and item | links consistent (`LinksOK`); only converting a parent puts a child where it may not be: no call moves one there, or converts one in its place to what its parent may not hold, and no edge mixes allocators (`ContainmentKept`; `ContainmentOK`, every child where it may be, is not true, as converted parents keep their children); every step is one step of `Forest`, which has no cycles and no dangling children, and the node goes where the header says (`ImplementsForest`) |
| `iterator` | documents of 5 nodes of every shape, 2 changes, 2 spare nodes | the event held ahead is on a live node and the assertion is not reached (`NextIsLive`); each node once, contents before EXIT (`EventsNest`); the walk ends (`WalkEnds`); freeing frees the subtree (`FreesSubtree`); consolidation keeps text (`TextPreserved`) |
| `feed` | documents of up to 4 bytes, cut anywhere | the lines are those of the whole document and `total_size` saturates (`SameLines`); nested buffers are complete (`NestedComplete`) |
| `blocks` | up to 3 lines of 22 kinds, 4 of 8, 5 of 5 | the open blocks are one chain (`OpenSpine`); no text lost or doubled (`TextOnce`) or put into a closed block (`ClosedForGood`); tightness (`TightWithoutBreaks`); every line ends (`LineEnds`) |
| `inlines` | 4 runs of `*` (1 to 3, all flankings), 4 of shorter `*`, `~`, quotes; 5 tokens of links, attributes and footnotes with runs across them | stacks and tree agree (`StacksInTree`); text keeps its order and markers are conserved (`MarkersConserved`); one-sided runs find their openers (`NoOneSidedOpenerMissed`); brackets are processed on their own (`BracketsIsolate`); the loop ends (`EmphasisEnds`) |
| `refmap` | 4 definitions of 2 labels in 5 spellings, small limits | `SortedFirsts`, `ExpansionBounded`, `ImplementsRefDict` |
| `text` | about 29000 paragraphs in eleven groups: backticks, raw HTML, entities, breaks, links, addresses, definitions, first lines of blocks | recorded backticks hide no code span (`CodeSpanNotMissed`); raw HTML ends with its terminator although that is not read (`RawHtmlTerminated`); lines and columns are exact (`StartsExact`); autolinks keep the text (`TextKept`); scanners for the same text agree and escapes are undone by reading (`ScannersAgree`) |
| `tables` | 5 lines of ten, with and without spans; at most one made-up cell before the limit | rows are full (`RowsFull`), which `try_opening_table_row` relies on to end; the count of made-up cells is exact and limited (`AutocompletedExact`); spans cover their markers (`SpanExact`); a written table is read back the same (`RoundTrip`) |
| `output` | every tree of 5 to 9 nodes of six corpora, six formats, two widths | tags, braces and environments nest and modes are reset (`WellFormed`); the references left in the tree and the definitions match, and each has its anchor and one link back (`FootnotesLinked`); every line has its prefix (`LinesPrefixed`); the text is written once and in order (`LettersWritten`), outside the descriptions of images in LaTeX and the contents of what `is_autolink` accepts (`Dropped`) |
| `arena` | 3 threads, 6 chunks, 4 blocks, 3 levels | blocks are allocated, apart and large enough (`BlocksSafe`); a pop returns what was made since its push (`LevelsReturned`) |
| `registry` | 3 threads of 3 calls | core extensions are found after `ensure_registered`, each once and with its own node type (`EnsuredFound`); every call returns (`CallsReturn`) |
| `spans_title` (violation) | the definitions of `text` | `spec.txt:3038` says of a title that other text follows that the definition "has no title"; `cmark_parse_reference_inline` goes back to before it and keeps it |

### Bounds

Four nodes are the fewest with which a node can be moved between two siblings
while another list exists; five make a tree three levels deep with siblings on
two. In `node_tree` a fifth node, of the other allocator, may join none of the
four. A custom block holds both types and an item only custom blocks, so that
nodes are converted, refused, and converted over a child that may then no longer
be there. Four bytes hold a CRLF cut in two, followed by a part of a line and a
second ending. `UINT_MAX`, `SIZE_MAX` and `AlwaysAllowed` are small so that
saturation, the limit and the allowance are all reached. Three lines open,
continue and close any block, and nest a list in an item with text after it;
the blank-line marks of a nested list take a fourth and fifth (an outer item,
an inner item, a blank line, what follows, the next item). `MAX_LIST_DEPTH` is
3, so that a line of two markers reaches it. Four runs include an opener, an
intervening failed closer, and two more closers, which is what a stale
`openers_bottom` needs. `MaxEntries` of 4 gives labels with duplicates on both
sides of another label. `node_tree` uses symmetry: it has no liveness
property, and no operation orders nodes of one allocator. No other model does:
there nodes, lines and labels are ordered.

Seven groups of backticks, letters and line ends hold an opener that fails, the
runs that it records, and two later openers. `MAXBACKTICKS` of 3 and the small
limits on labels, parentheses and periods are each passed. A text of three or
four pieces after a beginning holds a link and what is cut from its end, an
address with two `@`, or a construct of raw HTML with a false end in it. Five
lines are a paragraph, header, delimiter row and two rows, of which the second
may continue the first's spans; `MAX_AUTOCOMPLETED_CELLS` of 1 is passed by one
row. Trees of five to nine nodes nest a list of two digits in a quote, an image
in a link in emphasis, and a definition in a definition with two references.
Widths of 4 and 5 break lines of these texts at several places. Six chunks
leave room for a second first chunk, one that grew, and two pushed ones; two
threads of three calls pass each other in every once.

Deadlock is checked where there is a state to end in: a finished walk,
document or input has a stuttering step of its own (`Finished`, `Done`,
`Parsed`). `tables`, `output`, `arena` and `registry` end when the lines, the
events, the blocks or the calls do, and say `CHECK_DEADLOCK FALSE`.

### Fairness

Outside of the arena and the registry the code is sequential, and a call that
has been made runs until it returns:
weak fairness of the steps inside a call (`InLine` in `Blocks`, `Process` in
`Inlines`, the steps of the walk and of `S_free_nodes` in `Iterator`) says
this and nothing else. No fairness is assumed of the client's choices, except
that the client of the iterator keeps calling `cmark_iter_next` until DONE, as
every loop in the library does.

In `Registry` every thread that can take a step inside a call does so in the
end (`WF_vars(Step(t))`), as the scheduler of the system grants. The mutex and
the once need not be fair: threads make finitely many calls, so that others
cannot take the lock forever.

## Proofs

The theorems hold for every value of the constants that the named assumptions
allow: any set of nodes, threads, definitions, documents, any sizes and limits.
The runs show the same properties on small instances.

**Tree.** `TreeSafe` proves `LinksOK`, `Acyclic` and `NoDangling`, and
`ContainmentSafe` proves `ContainmentKept`, for every assignment of allocators
and every set of types. `LeavesKeepContainment` proves `ContainmentOK`, which is
false in general, of a client that converts only nodes without children
(`ConvertsLeaves`), as `table.c:481` and `strikethrough.c:54` do. Every relinking
operation unlinks a node and splices it between two neighbours of a list; the
lemmas of `NodeLinksProofs` say what
`Unlinked` and `Spliced` preserve, and that each of the four insertions, with
its own order of stores, is a composition of the two. The inductive invariant
`IInv` is the conjunction of `TypeOK`, `LinksOK`, `Acyclic`, `NoDangling` and
`OneAllocator` (what types a parent may hold is not in it, as conversion breaks
that; `NextKeeps` shows it of each step): no one of them is inductive
alone (that a splice keeps the links needs that its neighbours are adjacent, and
that a move makes no cycle needs the links), all together are. Acyclicity is
stated as well-foundedness (every non-empty set of nodes has one whose successor
is outside of it), which local changes preserve without talking of paths.
`NodeTreeImplementsForest` proves `ImplementsForest`: each call is one step of
the forest and puts the node where the header says. To `IInv` it adds
`HasLists`: the children of every node are listed, each of them once, by
`first_child` and `next` (`IsList`). It is carried as an invariant of its own:
the links are facts about neighbours, and to get the list from them takes an
induction along it. `HasLists` is kept because every call changes at most two lists:
unlinking drops the node from the one list that holds it (`UnlinkedForest`), a
splice inserts it in the gap between its new neighbours (`SplicedForest`), and
freeing empties the lists of the subtree and of no other node (`FreedForest`). A
node has one list, as two of them follow the same pointers (`OneList`, by the
least place where they differ), so that `ChildSeq` is it. What the forest calls
the nodes below one, by sets closed under children, is the subtree that
`S_free_nodes` walks (`BelowIsSubtree`, from acyclicity).
`ASSUME ~SelfSibling` is there because these theorems are false without it, see
the known differences.

**Iterator.** `IteratorSafe` proves `NextIsLive` and `FreesExactly` proves
`FreesSubtree`. Between the calls `IInv` says that the tree is good in the sense
above and that `next` is what the tree as it is now gives after `cur` (`Walk`);
each change the client is allowed leaves `next` where it is. While a node is
being freed, `Freeing` relates the tree to the one the call began with: the
nodes of the list that the loop of `S_free_nodes` walks, and their subtrees in
the old tree, are together what is left of the subtree to free, each once, and
every other node has the pointers it will have at the end. Splicing the children
of a node behind it keeps that, so the loop ends with exactly the subtree gone.

`IteratorNests` proves `EventsNest` with `NInv` beside `IInv`. `Nest` says what
the events so far mean in the tree as it is now: what is left of a node that was
reached was passed, what is above it was entered, and the nodes above the event
held ahead are those entered and not left. It holds of a tree with nodes taken
out of it, and of one with a new node below an entered one and behind none that
was not passed; so the client may make its changes while `next` stays as it is,
and what cmark_iter_next computes ahead is entered for the first time, or has
nothing below it that was not seen. While nodes are being freed, it holds of
the tree the call will leave.

**Line splitting.** `FeedSameLines` proves `SameLines`, and `FeedNested` proves
`NestedComplete`, for documents of any length cut into buffers in any way.
`IInv` says what has been done at any moment: the first so many bytes of the
text are the lines given out and then the part of a line in `linebuf`
(`Sofar`), and the buffer in hand is the rest of the text (`Running`). An
iteration reads up to the next stop and lengthens the part or ends the line;
a new buffer lengthens the text. The one place where a longer text changes what
was said of a shorter one is a CR at its end, after which an LF belongs to the
line before (`LineStays`): the invariant therefore ties
`last_buffer_ended_with_cr` to the last byte of the document between the calls
and to the last step of a call. It also says when no more can come (`Closed`),
as only then may the last line be one that no line ending ends, and that a call
of an extension's buffer runs inside of one that is in `S_process_line`, which
is why it may use `linebuf`. Both theorems assume that no extension's buffer
ends in CR, and the second that none ends in NUL. Without that they are false,
see below; the buffers of the run satisfy both.

**Block phase.** `BlocksSpine` proves `OpenSpine` and `BlocksClosed` proves
`ClosedForGood`. Between the lines the open blocks are one chain from `current`
to the root. During a line `IInv` has two: the blocks that matched with those
opened in them, of which `container` is the tip, and the unmatched blocks after
`last_matched`, of which `current` is the tip and which hang in the first
(`Chain`, `Hanging`). `add_child` may close blocks of the first chain above the
unmatched ones, which leaves open blocks in a closed one until
`CloseUnmatched`; that is why the two are kept apart, and why the chain is whole
again only when the last unmatched block is closed, or when a lazy line finds
that none was opened since (`Joined`). Two assertions need more: a fenced code
block is empty only until the end of the line that opens it (`FencesFilled`),
and what `add_child` backs up from is never the document, as only an item does
not fit there and items are made only in lists (`Adding`). `ClosedForGood` also
needs what the recursive function in `Ancestors` computes; `AboveStep` exhibits
a function that satisfies the recursion.

`BlocksTextOnce` proves `TextOnce` with a second invariant, `TInv`, beside
`IInv`. `Written` says that the text of the lines placed so far (`Placed`) is in
the blocks or has been taken as definitions, each line once and in order.
`add_line` must therefore append to the last text there is: an open leaf is the
last block made (`LeavesLast`), unless it is an unmatched paragraph that a lazy
line may still continue (`Unmatched`). What `finalize` takes away has to be what
`TextOnce` lets go: definitions at the head of a paragraph, which move to the
reference map; the first line of a fenced block, which `Heads` shows to be its
opening fence; the blank lines that end an indented block.

**Reference map.** `RefMapSorted` proves `SortedFirsts`, `RefMapBounded` proves
`ExpansionBounded`. `IInv` describes the array in the middle of `sort_map`: what
is before `last` is final, what is from `i` on is as qsort left it and after
everything final, and every label has its first definition in one of the two.
For the limit it says that `ref_size` never exceeds `max_ref_size`, without
which the unsigned difference in `cmark_map_lookup` would wrap.
`RefMapImplementsRefDict` uses it to prove that every step is a step of the
dictionary or leaves it unchanged.

**Arena.** `ArenaBlocksSafe` proves `BlocksSafe`, `ArenaLevelsReturned` proves
`LevelsReturned`. A chunk and a block carry the number of pushes before them.
`IInv` says that the chunks from `A` on have their levels in order, that the
level rises by one exactly at a push point, and that every block is within what
its chunk has handed out, of its chunk's level, and apart from the others; so
what a pop frees is what was made since its push. A lock that is held, or a
single thread, is what makes the chain and the set of chunks agree.

**Registry.** `RegistrySafe` proves `EnsuredFound`. `IInv` says which thread is
in the once and how far it has got, that the list is what has been registered so
far, and that types given out are below the one to be given out next, in spite
of readers that have an old value of it.

Nothing is assumed but the named assumptions of the modules: `Iterator` has
`NULL` outside of the nodes, `Registry` that no thread is named as the free lock
is, the others the types of their numbers. Numbers are reasoned about by least
counterexamples (`WFMin` of the library), which replaces induction wherever it
was needed.

Only model-checked are: liveness (`WalkEnds`, `EmphasisEnds`, `LineEnds`,
`CallsReturn`); `TextPreserved` of `Iterator`; `TightWithoutBreaks` of
`Blocks`; and everything about the inlines, tables and renderers. `Escape`, `LinkParts`,
`Autolink`, `Spans`, `Table`, `Document`, `Inlines` and what extends them use
recursive operators, so that no theorem can be stated about them as they are.

## Not modelled

- In the block phase: tabs and partially consumed tabs, ordered lists, source
  positions, `CMARK_OPT_PRESERVE_WHITESPACE`, `CMARK_OPT_INLINE_ONLY`,
  `thematic_break_kill_pos` (it only saves time), extensions' blocks; a task
  list item; tables in other blocks; lengths of fences.
- In the text: `scan_delims` for Unicode, quotes of smart punctuation (they are
  tokens of `Inlines`), characters beyond ASCII other than one that stands for
  them all.
- In the renderers: the alignment of table columns, line breaks between HTML
  tags, attributes and source positions, typographic characters that LaTeX and
  man have names for, custom nodes. Trees have no two adjacent text nodes, as
  the parser consolidates them. An attribute node in man is left out (`ManFails`)
  as the program passes `NULL` to `strlen` there, and so are two footnote labels
  of which one is the other followed by `-2`, whose anchors coincide.
- In the arena: pops and resets beside other threads, which free their blocks.
  In the registry: setters of functions, node flags, listing, plugins that fail.
- The string buffer: growth, limits and 32-bit sizes; `utf8.c`.
- Reentrant buffers that end in CR, after which the flag they leave is read by
  the outer document, or in NUL, whose last text is lost when `linebuf` is put
  back, and feeds of no bytes, which clear the flag.
- Components marked `not_modelled` in `PROJECT.json`, with the reasons there.

## Known differences

Each was found while modelling and confirmed with the compiled library. The
models have what the code does.

Between the program and what its documentation says:

- `cmark_node_insert_before(n, n)` and `cmark_node_insert_after(n, n)` are
  accepted and make `n` its own sibling (`cmark-gfm.h:555`). The run and the
  theorem leave such calls out.
- Attribute and link definitions share one map, so the older one of a label
  hides the other kind (`map.c:94`; `spec.txt:8450`).
- `openers_bottom` is kept per length modulo three, but whether an opener fits
  also depends on whether the closer may open: `**foo*bar*baz*`
  (`spec.txt:10202`). `NoOneSidedOpenerMissed` is the part that holds.
- Any `[` after a link resets `no_link_openers`: `[a [b](u) [c] d](w)` is a link
  in a link (`spec.txt:7747`).
- A blank line after a thematic break in an item leaves no mark, so the list is
  tight (`blocks.c:1386`; `spec.txt:5163`).
- A definition keeps the title that was given back to the text (`spans_title`).
- After a second `@` an address is searched for with the periods counted so
  far: `a@.a@a` (`autolink.c`; `spec.txt:9320`).
- `<? a ??>`, `<![CDATA[a]]]>` and `<!--a--->` are not raw HTML, and a comment
  that does not end turns off declarations and CDATA too (`inlines.c:964`;
  `spec.txt:9410`).
- `[x]` anywhere in the line of a task marks it as done (`tasklist.c:97`).
- A destination ends at a space inside of open parentheses
  (`manual_scan_link_url_2`; `spec.txt:7770`); a backslash hides a line end in
  `<...>`; entities in destinations and titles are replaced before backslashes.
- The end column of raw HTML over several lines is one too small.
- A link whose first child is its address is written as an autolink and its
  other children are dropped: `[http:a*b*](http:a)` (`commonmark.c:119`,
  `latex.c:154`; `render.c:196` says "used for autolinks"). The first child need
  not be a text: `as.literal` shares its place with `as.link.url`, so
  `[![a](http:x)](http:x)` is written `<http:x>` without the image, and it is empty for emphasis: `[*a*](mailto:)` is `<>`.
- `cmark_node_set_type` on a node with children leaves them where they may not
  be (`node.c:242`; `ContainmentOK`).
- `cmark_node_set_type` returns 1 when it has changed the type; the comment at
  `cmark-gfm-extension_api.h:587` says 0.

In tables: the flag `CMARK_NODE__TABLE_VISITED` is not cleared when the
paragraph grows; the paragraph before a header is not finalized, and `\|` in it
is unescaped also in code; a cell may span columns that were dropped; a leading
empty cell has nothing that spans it; a marker in the header is hidden and then
written back beside its text; a marker below a made-up cell is not counted.
`RoundTrip` leaves the last three out (`Writable`).

In what is written: with a width, a break before a space writes the prefix
again for each space; paragraphs of a quote in a tight item run together in
CommonMark, and a code block followed by a paragraph in a quote makes two
quotes; wrapping may put `-`, `+` or `=` (CommonMark) and `.` (man) at the start
of a line, unescaped; in man the second line of a code block is not escaped,
and a hard break does not end its line; `|` is not escaped inside strikethrough
in a cell, and in LaTeX and man it gets a backslash; plain text writes attributes
twice; a line end in a destination becomes `% A`; columns after a wrap count
bytes. A footnote definition that only a dropped one refers to stays, and its link
back leads nowhere: `[^a]: p[^b]` and `[^b]: y` (`FootnotesLinked` starts from the
references in the tree).

In the arena: two threads that find it empty make two first chunks, and the
first is lost; a realloc to fewer bytes copies the old size.

## Plan

1. Task list items and tables inside of other blocks: extend `Blocks`, whose
   `Opening` ends where the extensions are asked.
2. The string buffer in 32-bit arithmetic.
3. Proofs: `StacksInTree` of `Inlines`, after its recursive operators are
   functions.

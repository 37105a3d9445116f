------------------------------- MODULE RefMap -------------------------------
(***************************************************************************)
(* The map of reference definitions: src/src/map.c and references.c, with  *)
(* the two places of inlines.c that look a label up and the limit that     *)
(* finalize_document (blocks.c) puts on what the references expand to.     *)
(*                                                                         *)
(* Definitions are only prepended to a list while blocks are parsed.  The  *)
(* first lookup sorts them into an array and drops, in place, every entry  *)
(* that is not the first of its label; the loop is modelled step by step.  *)
(***************************************************************************)
EXTENDS Integers, FiniteSets

CONSTANTS
    Raw,          \* labels as written
    Labels,       \* normalized labels, ordered as strcmp orders them
    normalize,    \* normalize_map_label: NULL for a label of whitespace only
    BadLength,    \* raw labels that are empty or longer than MAX_LINK_LABEL_LENGTH
    Sizes,        \* the sizes of url plus title
    Totals,       \* the values of total_size when the document ends
    AlwaysAllowed,\* 100000: "Always allow 100KB"
    SIZE_MAX, UINT_MAX,
    MaxEntries,   \* how many definitions a document has
    NULL

ASSUME RefMapAssumption ==
    /\ Labels \subseteq Int
    /\ NULL \notin Labels
    /\ normalize \in [Raw -> Labels \cup {NULL}]
    /\ BadLength \subseteq Raw
    /\ SIZE_MAX \in Nat /\ UINT_MAX \in 0 .. SIZE_MAX
    /\ Sizes \subseteq 0 .. SIZE_MAX
    /\ Totals \subseteq 0 .. UINT_MAX
    /\ AlwaysAllowed \in 0 .. SIZE_MAX
    /\ MaxEntries \in Nat

VARIABLES
    refs,          \* map->refs, as a set: an entry's age says where it is in the list
    sorted,        \* map->sorted: NoArray until the first lookup
    size,          \* map->size
    ref_size, max_ref_size,
    phase,         \* "blocks", then "inlines"
    pc,            \* where cmark_map_lookup is: "idle", "sort" (in sort_map) or "search"
    array, i, last,\* sorted, i and last of sort_map
    key,           \* norm: what the active lookup is for
    use,           \* who looks up: "link" (line 1372) or "attributes" (line 1241)
    found,         \* what the last lookup returned
    expanded       \* bytes of url and title that lookups have copied into the tree

vars == <<refs, sorted, size, ref_size, max_ref_size, phase, pc, array, i, last, key, use,
          found, expanded>>

Entries == [label : Labels, age : Nat, size : 0 .. SIZE_MAX, is_attributes : BOOLEAN]

\* A null pointer.
NoArray == [k \in {} |-> NULL]

Init ==
    /\ refs = {} /\ sorted = NoArray /\ size = 0
    /\ ref_size = 0 /\ max_ref_size = UINT_MAX
    /\ phase = "blocks"
    /\ pc = "idle"
    /\ array = NoArray /\ i = 0 /\ last = 0
    /\ key = NULL /\ use = NULL /\ found = NULL
    /\ expanded = 0

lookupVars == <<phase, pc, array, i, last, key, use, found, expanded>>

-----------------------------------------------------------------------------
(* Definitions *)

Entry(label, s, attributes) ==
    [label |-> label, age |-> size, size |-> s, is_attributes |-> attributes]

\* The body that cmark_reference_create and cmark_reference_create_attributes
\* share; map->sorted == NULL is asserted.
Create(raw, s, attributes) ==
    /\ phase = "blocks" /\ size < MaxEntries
    /\ normalize[raw] # NULL
    /\ refs' = refs \cup {Entry(normalize[raw], s, attributes)}
    /\ size' = size + 1
    /\ UNCHANGED <<sorted, ref_size, max_ref_size, lookupVars>>

cmark_reference_create(raw, s) == Create(raw, s, FALSE)

\* The entry is calloc'ed and its size never set.
cmark_reference_create_attributes(raw) == Create(raw, 0, TRUE)

\* The document is complete: the limit is set and process_inlines starts.
finalize_document(total_size) ==
    /\ phase = "blocks"
    /\ phase' = "inlines"
    /\ max_ref_size' = IF total_size > AlwaysAllowed THEN total_size ELSE AlwaysAllowed
    /\ UNCHANGED <<refs, sorted, size, ref_size, pc, array, i, last, key, use, found,
                   expanded>>

-----------------------------------------------------------------------------
(* cmark_map_lookup *)

\* Mutant of Before: equal labels stay in the order of the list, newest first.
Before_NewestFirst(r1, r2) ==
    r1.label < r2.label \/ (r1.label = r2.label /\ r1.age > r2.age)

\* refcmp: by label, then by age.
Before(r1, r2) == r1.label < r2.label \/ (r1.label = r2.label /\ r1.age < r2.age)

\* What qsort leaves in an array of the n entries of R.
SortedArray(a, R, n) ==
    /\ \A r \in R : \E k \in 0 .. n - 1 : a[k] = r
    /\ \A j, k \in 0 .. n - 1 : j < k => Before(a[j], a[k])

Begin(raw, who) ==
    /\ phase = "inlines" /\ pc = "idle"
    /\ key' = normalize[raw]
    /\ use' = who

\* The early returns.
LookupNothing(raw, who) ==
    /\ Begin(raw, who)
    /\ raw \in BadLength \/ size = 0 \/ normalize[raw] = NULL
    /\ found' = NULL
    /\ UNCHANGED <<refs, sorted, size, ref_size, max_ref_size, phase, pc, array, i, last,
                   expanded>>

Wanted(raw) == raw \notin BadLength /\ size # 0 /\ normalize[raw] # NULL

\* The first lookup calls sort_map: up to its second loop.
LookupFirst(raw, who) ==
    /\ Begin(raw, who) /\ Wanted(raw)
    /\ sorted = NoArray
    /\ array' \in {a \in [0 .. size - 1 -> refs] : SortedArray(a, refs, size)}
    /\ i' = 1 /\ last' = 0
    /\ pc' = "sort"
    /\ UNCHANGED <<refs, sorted, size, ref_size, max_ref_size, phase, found, expanded>>

LookupAgain(raw, who) ==
    /\ Begin(raw, who) /\ Wanted(raw)
    /\ sorted # NoArray
    /\ pc' = "search"
    /\ UNCHANGED <<refs, sorted, size, ref_size, max_ref_size, phase, array, i, last, found,
                   expanded>>

\* Mutant of Keep: array[last] is overwritten instead of the place after it.
Keep_Overwrites ==
    IF array[i].label # array[last].label
    THEN last' = last + 1 /\ array' = [array EXCEPT ![last] = array[i]]
    ELSE UNCHANGED <<last, array>>

\* An iteration of the loop of sort_map: keep array[i] if its label is new.
Keep ==
    IF array[i].label # array[last].label
    THEN last' = last + 1 /\ array' = [array EXCEPT ![last + 1] = array[i]]
    ELSE UNCHANGED <<last, array>>

SortStep ==
    /\ pc = "sort" /\ i < size
    /\ Keep
    /\ i' = i + 1
    /\ UNCHANGED <<refs, sorted, size, ref_size, max_ref_size, phase, pc, key, use, found,
                   expanded>>

SortEnd ==
    /\ pc = "sort" /\ ~(i < size)
    /\ sorted' = array
    /\ size' = last + 1
    /\ pc' = "search"
    /\ UNCHANGED <<refs, ref_size, max_ref_size, phase, array, i, last, key, use, found,
                   expanded>>

\* bsearch finds an entry of that label among the first size ones, if there is one.
Hits == {k \in 0 .. size - 1 : sorted[k].label = key}

\* Subtraction and addition of size_t, which wrap.
Minus(a, b) == IF a >= b THEN a - b ELSE a - b + SIZE_MAX + 1

Plus(a, b) == IF a + b <= SIZE_MAX THEN a + b ELSE a + b - SIZE_MAX - 1

\* Mutant of OverLimit: the size of the entry is not counted in.
OverLimit_Late(r) == ref_size > max_ref_size

OverLimit(r) == r.size > Minus(max_ref_size, ref_size)

\* Both callers drop an entry of the other kind; the link copies url and title.
Copied(r) == IF use = "link" /\ ~r.is_attributes THEN r.size ELSE 0

SearchHit ==
    /\ pc = "search"
    /\ \E k \in Hits :
        LET r == sorted[k] IN
          IF OverLimit(r)
          THEN found' = NULL /\ UNCHANGED <<ref_size, expanded>>
          ELSE /\ found' = r
               /\ ref_size' = Plus(ref_size, r.size)
               /\ expanded' = expanded + Copied(r)
    /\ pc' = "idle"
    /\ UNCHANGED <<refs, sorted, size, max_ref_size, phase, array, i, last, key, use>>

SearchMiss ==
    /\ pc = "search" /\ Hits = {}
    /\ found' = NULL
    /\ pc' = "idle"
    /\ UNCHANGED <<refs, sorted, size, ref_size, max_ref_size, phase, array, i, last, key,
                   use, expanded>>

\* A document is parsed, its map freed (cmark_map_free) and a new one made.
cmark_map_free ==
    /\ phase = "inlines" /\ pc = "idle"
    /\ refs' = {} /\ sorted' = NoArray /\ size' = 0
    /\ ref_size' = 0 /\ max_ref_size' = UINT_MAX
    /\ phase' = "blocks"
    /\ array' = NoArray /\ i' = 0 /\ last' = 0
    /\ key' = NULL /\ use' = NULL /\ found' = NULL
    /\ expanded' = 0
    /\ UNCHANGED pc

Next ==
    \/ \E raw \in Raw, s \in Sizes : cmark_reference_create(raw, s)
    \/ \E raw \in Raw : cmark_reference_create_attributes(raw)
    \/ \E total \in Totals : finalize_document(total)
    \/ \E raw \in Raw, who \in {"link", "attributes"} :
            \/ LookupNothing(raw, who)
            \/ LookupFirst(raw, who)
            \/ LookupAgain(raw, who)
    \/ SortStep \/ SortEnd \/ SearchHit \/ SearchMiss
    \/ cmark_map_free

Spec == Init /\ [][Next]_vars

-----------------------------------------------------------------------------
(* Properties *)

\* r is the first definition of its label in the document.
First(r) == \A e \in refs : e.label = r.label => r.age <= e.age

\* After sort_map the array is what bsearch needs, each label once and in order,
\* with the first definition of every label that has one and no other entry:
\* the duplicates dropped in place have left no hole and hidden no label.
SortedFirsts ==
    sorted # NoArray =>
        /\ \A k \in 0 .. size - 1 : sorted[k] \in refs /\ First(sorted[k])
        /\ \A j, k \in 0 .. size - 1 : j < k => sorted[j].label < sorted[k].label
        /\ \A e \in refs : \E k \in 0 .. size - 1 : sorted[k].label = e.label

\* The url and title bytes copied from reference definitions are limited by the
\* size of the document, or by the allowance (cmark_map_lookup, with the limit
\* that finalize_document sets).
ExpansionBounded ==
    phase = "inlines" => expanded <= ref_size /\ ref_size <= max_ref_size

-----------------------------------------------------------------------------
(* The promise: a dictionary that keeps the first definition, see RefDict. *)

\* Each label with its first definition.
Defs == [l \in {e.label : e \in refs} |-> CHOOSE r \in refs : r.label = l /\ First(r)]

\* A lookup has started and not returned.
Asked == IF pc = "idle" THEN NULL ELSE key

Dict == INSTANCE RefDict WITH
            defs <- Defs, spent <- ref_size, limit <- max_ref_size, asked <- Asked,
            answer <- found, open <- (phase = "blocks")

ImplementsRefDict == Dict!Spec
=============================================================================

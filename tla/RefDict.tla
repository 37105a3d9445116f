------------------------------ MODULE RefDict -------------------------------
(***************************************************************************)
(* What the map of reference definitions promises the inline parser        *)
(* (spec.txt:2973 and 8450, and the comment at blocks.c:679): a dictionary *)
(* from labels to definitions in which the first definition of a label     *)
(* stays, and lookups whose answers together never exceed a limit.         *)
(***************************************************************************)
EXTENDS Integers

CONSTANTS Labels, NULL

VARIABLES
    defs,     \* the definition of each label
    limit, spent,
    open,     \* the document is still being read
    asked,    \* the label of a lookup that has not been answered
    answer

vars == <<defs, limit, spent, open, asked, answer>>

EmptyDict == [l \in {} |-> NULL]

Init ==
    /\ defs = EmptyDict /\ spent = 0 /\ limit \in Nat
    /\ open = TRUE /\ asked = NULL /\ answer = NULL

\* A definition of label l: a later one of the same label has no effect.
Define(l) ==
    /\ open = TRUE
    /\ DOMAIN defs' = DOMAIN defs \cup {l}
    /\ \A k \in DOMAIN defs : defs'[k] = defs[k]
    /\ defs'[l].label = l
    /\ UNCHANGED <<limit, spent, open, asked, answer>>

Close ==
    /\ open = TRUE /\ open' = FALSE
    /\ limit' \in Nat
    /\ UNCHANGED <<defs, spent, asked, answer>>

Ask(l) ==
    /\ open = FALSE /\ asked = NULL
    /\ asked' = l
    /\ UNCHANGED <<defs, limit, spent, open, answer>>

\* The definition, if there is one and its size fits in what is left.
Answer ==
    /\ asked # NULL
    /\ asked' = NULL
    /\ IF asked \in DOMAIN defs /\ spent + defs[asked].size <= limit
       THEN answer' = defs[asked] /\ spent' = spent + defs[asked].size
       ELSE answer' = NULL /\ UNCHANGED spent
    /\ UNCHANGED <<defs, limit, open>>

\* A label that cannot be one.
Refuse ==
    /\ open = FALSE /\ asked = NULL
    /\ answer' = NULL
    /\ UNCHANGED <<defs, limit, spent, open, asked>>

Discard ==
    /\ open = FALSE /\ asked = NULL /\ open' = TRUE
    /\ defs' = EmptyDict /\ spent' = 0 /\ limit' \in Nat
    /\ answer' = NULL
    /\ UNCHANGED asked

Next ==
    \/ \E l \in Labels : Define(l) \/ Ask(l)
    \/ Close \/ Answer \/ Refuse \/ Discard

Spec == Init /\ [][Next]_vars
=============================================================================

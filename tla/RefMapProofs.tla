---------------------------- MODULE RefMapProofs ----------------------------
(***************************************************************************)
(* Proofs about RefMap, for any number of definitions, labels and sizes:   *)
(* the in-place loop of sort_map keeps exactly the first definition of     *)
(* each label, the expansion limit holds, and the map implements the       *)
(* dictionary of RefDict.                                                  *)
(***************************************************************************)
EXTENDS RefMap, TLAPS

USE DEF Entries

Types ==
    /\ refs \subseteq Entries
    /\ size \in Nat
    /\ ref_size \in Nat /\ max_ref_size \in 0 .. SIZE_MAX /\ expanded \in Nat
    /\ phase \in {"blocks", "inlines"} /\ pc \in {"idle", "sort", "search"}
    /\ use \in {"link", "attributes", NULL}

\* The list: ages count the definitions, so a label that has a definition has a
\* first one.
ListOK ==
    /\ \A e, f \in refs : e.age = f.age => e = f
    /\ \A e \in refs : \E r \in refs : r.label = e.label /\ First(r)
    /\ sorted = NoArray => \A e \in refs : e.age < size

PhaseOK ==
    /\ phase = "blocks" => sorted = NoArray /\ pc = "idle" /\ ref_size = 0 /\ expanded = 0
    /\ pc # "idle" => key \in Labels
    /\ pc = "sort" => sorted = NoArray
    /\ pc = "search" => sorted # NoArray

\* The loop of sort_map: array[0 .. last] is done, array[i ..] is as qsort left it.
LoopOK(a, ii, l) ==
    /\ size # 0
    /\ a \in [0 .. size - 1 -> refs]
    /\ ii \in Nat /\ l \in Nat /\ l < ii /\ ii <= size
    /\ \A k \in 0 .. l : First(a[k])
    /\ \A j, k \in 0 .. l : j < k => a[j].label < a[k].label
    /\ \A j, k \in ii .. size - 1 : j < k => Before(a[j], a[k])
    /\ \A k \in 0 .. l, j \in ii .. size - 1 : Before(a[k], a[j])
    /\ \A e \in refs : \/ \E k \in 0 .. l : a[k].label = e.label
                       \/ \E k \in ii .. size - 1 : a[k] = e

Loop == pc = "sort" => LoopOK(array, i, last)

IInv == Types /\ ListOK /\ PhaseOK /\ Loop /\ SortedFirsts /\ ExpansionBounded

-----------------------------------------------------------------------------

LEMMA FirstStays ==
    ASSUME NEW r \in refs, refs' = refs
    PROVE  First(r)' <=> First(r)
BY DEF First

\* The array qsort leaves satisfies the invariant of the loop at its start.
LEMMA LoopStart ==
    ASSUME Types, ListOK, size # 0,
           NEW a \in [0 .. size - 1 -> refs], SortedArray(a, refs, size)
    PROVE  LoopOK(a, 1, 0)
<1>0. \A r \in refs : r.label \in Int /\ r.age \in Nat
  BY RefMapAssumption DEF Types
<1>1. 0 \in 0 .. size - 1 /\ a[0] \in refs
  BY DEF Types
<1>2. First(a[0])
  <2> SUFFICES ASSUME NEW e \in refs, e.label = a[0].label
               PROVE  a[0].age <= e.age
    BY DEF First
  <2>1. PICK k \in 0 .. size - 1 : a[k] = e
    BY DEF SortedArray
  <2>2. k = 0 \/ Before(a[0], a[k])
    BY <1>1, <2>1 DEF SortedArray
  <2> QED
    BY <1>0, <1>1, <2>1, <2>2 DEF Before
<1>3. \A k \in 0 .. 0 : First(a[k])
  BY <1>2
<1>4. \A e \in refs : \/ \E k \in 0 .. 0 : a[k].label = e.label
                      \/ \E k \in 1 .. size - 1 : a[k] = e
  <2> SUFFICES ASSUME NEW e \in refs
               PROVE  \/ a[0].label = e.label
                      \/ \E k \in 1 .. size - 1 : a[k] = e
    OBVIOUS
  <2>1. PICK k \in 0 .. size - 1 : a[k] = e
    BY DEF SortedArray
  <2> QED
    BY <2>1 DEF Types
<1> QED
  BY <1>1, <1>3, <1>4 DEF LoopOK, SortedArray, Types

\* An iteration of the loop preserves its invariant.
LEMMA LoopStep ==
    ASSUME Types, ListOK, LoopOK(array, i, last), i < size, Keep
    PROVE  LoopOK(array', i + 1, last')
<1> DEFINE a == array
           b == array'
<1>1. /\ a \in [0 .. size - 1 -> refs] /\ i \in Nat /\ last \in Nat /\ size \in Nat
      /\ last < i /\ i \in 0 .. size - 1 /\ last \in 0 .. size - 1
      /\ a[i] \in refs /\ a[last] \in refs
  BY DEF LoopOK, Types
<1>2. \A r \in refs : r.label \in Int /\ r.age \in Nat
  BY RefMapAssumption DEF Types
<1>3. CASE a[i].label = a[last].label
  <2>1. b = a /\ last' = last
    BY <1>3 DEF Keep
  <2>2. \A e \in refs : \/ \E k \in 0 .. last : a[k].label = e.label
                        \/ \E k \in i + 1 .. size - 1 : a[k] = e
    BY <1>1, <1>3 DEF LoopOK
  <2> QED
    BY <1>1, <2>1, <2>2 DEF LoopOK
<1>4. CASE a[i].label # a[last].label
  <2>1. /\ last' = last + 1 /\ b = [a EXCEPT ![last + 1] = a[i]]
        /\ last + 1 \in 0 .. size - 1
    BY <1>1, <1>4 DEF Keep
  <2>2. /\ b \in [0 .. size - 1 -> refs]
        /\ b[last + 1] = a[i]
        /\ \A k \in 0 .. size - 1 : k # last + 1 => b[k] = a[k]
    BY <1>1, <2>1
  <2>3. \A k \in 0 .. last : a[k] \in refs /\ a[k].label < a[i].label
    <3> SUFFICES ASSUME NEW k \in 0 .. last
                 PROVE  a[k] \in refs /\ a[k].label < a[i].label
      OBVIOUS
    <3>1. k \in 0 .. size - 1 /\ a[k] \in refs
      BY <1>1
    <3>2. Before(a[last], a[i])
      BY <1>1 DEF LoopOK
    <3>3. a[last].label < a[i].label
      BY <3>2, <1>4 DEF Before
    <3>4. k = last \/ a[k].label < a[last].label
      BY <1>1 DEF LoopOK
    <3> QED
      BY <3>1, <3>3, <3>4, <1>1, <1>2
  <2>4. First(a[i])
    <3> SUFFICES ASSUME NEW e \in refs, e.label = a[i].label
                 PROVE  a[i].age <= e.age
      BY DEF First
    <3>1. PICK k \in i .. size - 1 : a[k] = e
      BY <2>3, <1>1, <1>2 DEF LoopOK
    <3>2. k = i \/ Before(a[i], a[k])
      BY <1>1, <3>1 DEF LoopOK
    <3> QED
      BY <1>1, <1>2, <3>1, <3>2 DEF Before
  <2>5. \A k \in 0 .. last + 1 : First(b[k])
    BY <1>1, <2>1, <2>2, <2>4 DEF LoopOK
  <2>6. \A j, k \in 0 .. last + 1 : j < k => b[j].label < b[k].label
    <3> SUFFICES ASSUME NEW j \in 0 .. last + 1, NEW k \in 0 .. last + 1, j < k
                 PROVE  b[j].label < b[k].label
      OBVIOUS
    <3>1. j \in 0 .. last /\ b[j] = a[j]
      BY <1>1, <2>1, <2>2
    <3>2. CASE k = last + 1
      BY <3>1, <3>2, <2>2, <2>3
    <3>3. CASE k \in 0 .. last
      <4>1. b[k] = a[k]
        BY <1>1, <2>1, <2>2, <3>3
      <4> QED
        BY <3>1, <3>3, <4>1 DEF LoopOK
    <3> QED
      BY <3>2, <3>3, <1>1
  <2>7. \A k \in i + 1 .. size - 1 : b[k] = a[k] /\ k \in i .. size - 1
    BY <1>1, <2>1, <2>2
  <2>8. \A j, k \in i + 1 .. size - 1 : j < k => Before(b[j], b[k])
    BY <2>7 DEF LoopOK
  <2>9. \A k \in 0 .. last + 1, j \in i + 1 .. size - 1 : Before(b[k], b[j])
    <3> SUFFICES ASSUME NEW k \in 0 .. last + 1, NEW j \in i + 1 .. size - 1
                 PROVE  Before(b[k], b[j])
      OBVIOUS
    <3>1. CASE k = last + 1
      <4>1. i \in i .. size - 1 /\ i < j
        BY <1>1
      <4>2. Before(a[i], a[j])
        BY <2>7, <4>1 DEF LoopOK
      <4> QED
        BY <3>1, <2>2, <2>7, <4>2
    <3>2. CASE k \in 0 .. last
      <4>1. b[k] = a[k]
        BY <1>1, <2>1, <2>2, <3>2
      <4> QED
        BY <3>2, <2>7, <4>1 DEF LoopOK
    <3> QED
      BY <3>1, <3>2, <1>1
  <2>10. ASSUME NEW e \in refs
         PROVE  \/ \E k \in 0 .. last + 1 : b[k].label = e.label
                \/ \E k \in i + 1 .. size - 1 : b[k] = e
    <3>1. CASE \E k \in 0 .. last : a[k].label = e.label
      <4>1. PICK k \in 0 .. last : a[k].label = e.label
        BY <3>1
      <4>2. k \in 0 .. last + 1 /\ b[k] = a[k]
        BY <1>1, <2>1, <2>2
      <4> QED
        BY <4>1, <4>2
    <3>2. CASE \E k \in i .. size - 1 : a[k] = e
      <4>1. PICK k \in i .. size - 1 : a[k] = e
        BY <3>2
      <4>2. CASE k = i
        <5>1. last + 1 \in 0 .. last + 1 /\ b[last + 1].label = e.label
          BY <4>1, <4>2, <2>2, <1>1
        <5> QED
          BY <5>1
      <4>3. CASE k \in i + 1 .. size - 1
        BY <4>1, <4>3, <2>7
      <4> QED
        BY <4>2, <4>3, <1>1
    <3> QED
      BY <3>1, <3>2 DEF LoopOK
  <2> HIDE DEF a, b
  <2> QED
    BY <1>1, <2>1, <2>2, <2>5, <2>6, <2>8, <2>9, <2>10 DEF LoopOK, b
<1> QED
  BY <1>3, <1>4

-----------------------------------------------------------------------------
(* IInv is an inductive invariant: one lemma for each action that changes what *)
(* it is about.                                                                *)

LEMMA InitIInv == Init => IInv
BY RefMapAssumption
   DEF Init, IInv, Types, ListOK, PhaseOK, Loop, SortedFirsts, ExpansionBounded

LEMMA CreateIInv ==
    ASSUME IInv, NEW raw \in Raw, NEW s \in 0 .. SIZE_MAX, NEW at \in BOOLEAN,
           Create(raw, s, at)
    PROVE  IInv'
<1> DEFINE e == Entry(normalize[raw], s, at)
<1>1. /\ e \in Entries /\ e.age = size /\ refs' = refs \cup {e} /\ size' = size + 1
      /\ phase = "blocks"
  BY RefMapAssumption DEF Create, Entry, IInv, Types
<1>2. UNCHANGED <<sorted, ref_size, max_ref_size, phase, pc, array, i, last, key, use, found,
                  expanded>>
  BY DEF Create, lookupVars
<1>3. sorted = NoArray /\ pc = "idle" /\ (\A f \in refs : f.age < size /\ f.age \in Nat)
  BY <1>1 DEF IInv, PhaseOK, ListOK, Types
<1> HIDE DEF e
<1>4. Types'
  BY <1>1, <1>2 DEF IInv, Types
<1>5. \A f \in refs : First(f) => First(f)'
  BY <1>1, <1>3 DEF First, IInv, Types
<1>6. ListOK'
  <2>1. \A f, g \in refs' : f.age = g.age => f = g
    BY <1>1, <1>3 DEF IInv, ListOK
  <2>2. \A f \in refs' : \E r \in refs' : r.label = f.label /\ First(r)'
    <3> SUFFICES ASSUME NEW f \in refs'
                 PROVE  \E r \in refs' : r.label = f.label /\ First(r)'
      OBVIOUS
    <3>1. CASE \E g \in refs : g.label = f.label
      BY <1>1, <1>5, <3>1 DEF IInv, ListOK
    <3>2. CASE \A g \in refs : g.label # f.label
      <4>1. f = e
        BY <1>1, <3>2
      <4>2. First(f)'
        BY <1>1, <3>2, <4>1 DEF First, IInv, Types
      <4> QED
        BY <1>1, <4>1, <4>2
    <3> QED
      BY <3>1, <3>2
  <2>3. \A f \in refs' : f.age < size'
    BY <1>1, <1>3 DEF IInv, Types
  <2> QED
    BY <2>1, <2>2, <2>3 DEF ListOK
<1>7. PhaseOK'
  BY <1>2 DEF IInv, PhaseOK
<1> QED
  BY <1>1, <1>2, <1>3, <1>4, <1>6, <1>7 DEF IInv, Loop, SortedFirsts, ExpansionBounded

\* The actions that change neither the list nor the array.
LEMMA FirstsStay ==
    ASSUME IInv, UNCHANGED <<refs, sorted, size>>
    PROVE  ListOK' /\ SortedFirsts'
BY DEF IInv, ListOK, SortedFirsts, First

LEMMA FinalizeIInv ==
    ASSUME IInv, NEW total \in Totals, finalize_document(total)
    PROVE  IInv'
<1>1. ListOK' /\ SortedFirsts'
  BY FirstsStay DEF finalize_document
<1>2. Types'
  BY RefMapAssumption DEF finalize_document, IInv, Types
<1>3. PhaseOK' /\ Loop' /\ ExpansionBounded'
  BY <1>2 DEF finalize_document, IInv, PhaseOK, Loop, ExpansionBounded, Types
<1> QED
  BY <1>1, <1>2, <1>3 DEF IInv

LEMMA LookupIInv ==
    ASSUME IInv, NEW raw \in Raw, NEW who \in {"link", "attributes"},
           \/ LookupNothing(raw, who) \/ LookupFirst(raw, who) \/ LookupAgain(raw, who)
    PROVE  IInv'
<1>1. ListOK' /\ SortedFirsts'
  BY FirstsStay DEF LookupNothing, LookupFirst, LookupAgain
<1>2. Types'
  BY DEF LookupNothing, LookupFirst, LookupAgain, Begin, IInv, Types
<1>3. ExpansionBounded'
  BY DEF LookupNothing, LookupFirst, LookupAgain, IInv, ExpansionBounded
<1>4. PhaseOK'
  BY RefMapAssumption
     DEF LookupNothing, LookupFirst, LookupAgain, Begin, Wanted, IInv, PhaseOK
<1>5. Loop'
  <2>1. CASE LookupFirst(raw, who)
    <3>1. LoopOK(array', 1, 0)
      BY <2>1, LoopStart DEF LookupFirst, Wanted, IInv
    <3> QED
      BY <2>1, <3>1 DEF LookupFirst, Loop, LoopOK, First
  <2>2. CASE LookupNothing(raw, who) \/ LookupAgain(raw, who)
    BY <2>2 DEF LookupNothing, LookupAgain, Begin, Loop
  <2> QED
    BY <2>1, <2>2
<1> QED
  BY <1>1, <1>2, <1>3, <1>4, <1>5 DEF IInv

LEMMA SortStepIInv ==
    ASSUME IInv, SortStep
    PROVE  IInv'
<1>1. ListOK' /\ SortedFirsts'
  BY FirstsStay DEF SortStep
<1>2. Types' /\ PhaseOK' /\ ExpansionBounded'
  BY DEF SortStep, IInv, Types, PhaseOK, ExpansionBounded
<1>3. LoopOK(array', i + 1, last')
  BY LoopStep DEF SortStep, IInv, Loop
<1>4. Loop'
  BY <1>3 DEF SortStep, Loop, LoopOK, First
<1> QED
  BY <1>1, <1>2, <1>4 DEF IInv

\* At the end of the loop the part that is done is all there is.
LEMMA SortEndIInv ==
    ASSUME IInv, SortEnd
    PROVE  IInv'
<1>1. LoopOK(array, i, last) /\ i = size /\ sorted' = array /\ size' = last + 1
      /\ refs' = refs
  BY DEF SortEnd, IInv, Loop, LoopOK, Types
<1>2. array # NoArray
  <2>1. 0 \in DOMAIN array
    BY <1>1 DEF LoopOK, IInv, Types
  <2>2. DOMAIN NoArray = {}
    BY DEF NoArray
  <2> QED
    BY <2>1, <2>2
<1>3. last \in Nat /\ size \in Nat /\ last < size /\ last + 1 - 1 = last
  BY <1>1 DEF LoopOK, IInv, Types
<1>4. SortedFirsts'
  <2>0. \A r \in refs : First(r) => First(r)'
    BY <1>1 DEF First
  <2>1. \A k \in 0 .. last : array[k] \in refs /\ First(array[k])
    BY <1>1, <1>3 DEF LoopOK
  <2>2. \A j, k \in 0 .. last : j < k => array[j].label < array[k].label
    BY <1>1 DEF LoopOK
  <2>3. \A e \in refs : \E k \in 0 .. last : array[k].label = e.label
    BY <1>1, <1>3 DEF LoopOK
  <2> QED
    BY <1>1, <1>3, <2>0, <2>1, <2>2, <2>3 DEF SortedFirsts
<1>5. Types' /\ PhaseOK' /\ ExpansionBounded' /\ Loop'
  BY <1>1, <1>2, <1>3 DEF SortEnd, IInv, Types, PhaseOK, ExpansionBounded, Loop
<1>6. ListOK'
  BY <1>1, <1>2 DEF IInv, ListOK, First
<1> QED
  BY <1>4, <1>5, <1>6 DEF IInv

\* What bsearch finds is the first definition of the label.
LEMMA HitIsFirst ==
    ASSUME IInv, pc = "search", NEW k \in Hits
    PROVE  sorted[k] \in refs /\ sorted[k].label = key /\ First(sorted[k])
BY DEF IInv, PhaseOK, SortedFirsts, Hits

\* The subtraction of the limit check does not wrap, nor does the sum it allows.
LEMMA WithinLimit ==
    ASSUME IInv, phase = "inlines", NEW r \in refs
    PROVE  /\ OverLimit(r) <=> ref_size + r.size > max_ref_size
           /\ ~OverLimit(r) => Plus(ref_size, r.size) = ref_size + r.size
BY RefMapAssumption DEF IInv, Types, ExpansionBounded, OverLimit, Minus, Plus

LEMMA SearchIInv ==
    ASSUME IInv, SearchHit \/ SearchMiss
    PROVE  IInv'
<1>1. ListOK' /\ SortedFirsts'
  BY FirstsStay DEF SearchHit, SearchMiss
<1>2. PhaseOK' /\ Loop'
  BY DEF SearchHit, SearchMiss, IInv, PhaseOK, Loop
<1>3. pc = "search" /\ phase = "inlines"
  BY DEF SearchHit, SearchMiss, IInv, PhaseOK, Types
<1>4. Types' /\ ExpansionBounded'
  <2>1. CASE SearchMiss
    BY <2>1 DEF SearchMiss, IInv, Types, ExpansionBounded
  <2>2. CASE SearchHit
    <3>1. PICK k \in Hits :
            IF OverLimit(sorted[k])
            THEN found' = NULL /\ UNCHANGED <<ref_size, expanded>>
            ELSE /\ found' = sorted[k]
                 /\ ref_size' = Plus(ref_size, sorted[k].size)
                 /\ expanded' = expanded + Copied(sorted[k])
      BY <2>2 DEF SearchHit
    <3>2. sorted[k] \in refs /\ sorted[k].size \in Nat
      BY <1>3, HitIsFirst DEF IInv, Types
    <3>3. CASE OverLimit(sorted[k])
      BY <2>2, <3>1, <3>3 DEF SearchHit, IInv, Types, ExpansionBounded
    <3>4. CASE ~OverLimit(sorted[k])
      <4>1. /\ ref_size' = ref_size + sorted[k].size
            /\ ref_size + sorted[k].size <= max_ref_size
        BY <1>3, <3>1, <3>2, <3>4, WithinLimit, RefMapAssumption DEF IInv, Types
      <4>2. Copied(sorted[k]) \in 0 .. sorted[k].size
        BY <3>2 DEF Copied
      <4>3. expanded' = expanded + Copied(sorted[k])
        BY <3>1, <3>4
      <4>4. UNCHANGED <<refs, size, max_ref_size, phase, use>> /\ pc' = "idle"
        BY <2>2 DEF SearchHit
      <4>5. /\ ref_size \in Nat /\ expanded \in Nat /\ expanded <= ref_size
            /\ max_ref_size \in Nat
        BY <1>3, RefMapAssumption DEF IInv, Types, ExpansionBounded
      <4>6. ref_size' \in Nat /\ expanded' \in Nat /\ expanded' <= ref_size'
            /\ ref_size' <= max_ref_size
        BY <4>1, <4>2, <4>3, <4>5, <3>2
      <4> QED
        BY <4>4, <4>6 DEF IInv, Types, ExpansionBounded
    <3> QED
      BY <3>3, <3>4
  <2> QED
    BY <2>1, <2>2
<1> QED
  BY <1>1, <1>2, <1>4 DEF IInv

LEMMA FreeIInv ==
    ASSUME IInv, cmark_map_free
    PROVE  IInv'
BY RefMapAssumption
   DEF cmark_map_free, IInv, Types, ListOK, PhaseOK, Loop, SortedFirsts, ExpansionBounded

LEMMA StutterIInv ==
    ASSUME IInv, UNCHANGED vars
    PROVE  IInv'
<1>1. ListOK' /\ SortedFirsts'
  BY FirstsStay DEF vars
<1>2. Loop'
  BY DEF vars, IInv, Loop, LoopOK, First
<1> QED
  BY <1>1, <1>2 DEF vars, IInv, Types, PhaseOK, ExpansionBounded

LEMMA NextIInv == IInv /\ [Next]_vars => IInv'
<1> SUFFICES ASSUME IInv, [Next]_vars PROVE IInv'
  OBVIOUS
<1>1. ASSUME NEW raw \in Raw, NEW s \in Sizes, cmark_reference_create(raw, s) PROVE IInv'
  BY <1>1, CreateIInv, RefMapAssumption DEF cmark_reference_create
<1>2. ASSUME NEW raw \in Raw, cmark_reference_create_attributes(raw) PROVE IInv'
  <2>1. 0 \in 0 .. SIZE_MAX /\ TRUE \in BOOLEAN
    BY RefMapAssumption
  <2>2. Create(raw, 0, TRUE)
    BY <1>2 DEF cmark_reference_create_attributes
  <2> QED
    BY <2>1, <2>2, CreateIInv
<1> QED
  BY <1>1, <1>2, FinalizeIInv, LookupIInv, SortStepIInv, SortEndIInv, SearchIInv, FreeIInv,
     StutterIInv DEF Next

\* Whatever the definitions of a document, what bsearch works on after sort_map is
\* the array of the first definitions in the order of their labels.
THEOREM RefMapSorted == Spec => []SortedFirsts
<1>1. IInv => SortedFirsts
  BY DEF IInv
<1> QED
  BY <1>1, InitIInv, NextIInv, PTL DEF Spec

\* Whatever a document defines and however often it refers to that, what
\* cmark_map_lookup lets be copied stays within the limit of finalize_document.
THEOREM RefMapBounded == Spec => []ExpansionBounded
<1>1. IInv => ExpansionBounded
  BY DEF IInv
<1> QED
  BY <1>1, InitIInv, NextIInv, PTL DEF Spec

-----------------------------------------------------------------------------
(* Refinement: RefMap implements RefDict. *)

FirstIn(R, r) == \A e \in R : e.label = r.label => r.age <= e.age

DefsOf(R) == [l \in {e.label : e \in R} |-> CHOOSE r \in R : r.label = l /\ FirstIn(R, r)]

LEMMA DefsIs == Defs = DefsOf(refs) /\ Defs' = DefsOf(refs')
BY DEF Defs, DefsOf, First, FirstIn

LEMMA DefsDomain == \A R : DOMAIN DefsOf(R) = {e.label : e \in R}
BY DEF DefsOf

LEMMA Defined == \A l : l \in DOMAIN Defs <=> \E e \in refs : e.label = l
<1>1. DOMAIN Defs = {e.label : e \in refs}
  BY DefsIs, DefsDomain
<1> QED
  BY <1>1

\* Ages are distinct, so the first definition of a label is the only one.
LEMMA DefsValue ==
    ASSUME NEW R, R \subseteq Entries, \A e, f \in R : e.age = f.age => e = f,
           NEW r \in R, FirstIn(R, r)
    PROVE  DefsOf(R)[r.label] = r
<1>1. r.label \in {e.label : e \in R}
  OBVIOUS
<1>2. \A q \in R : q.label = r.label /\ FirstIn(R, q) => q = r
  BY DEF FirstIn
<1>3. (CHOOSE q \in R : q.label = r.label /\ FirstIn(R, q)) = r
  BY <1>2
<1> QED
  BY <1>1, <1>3 DEF DefsOf

LEMMA CreateRefines ==
    ASSUME IInv, IInv', NEW raw \in Raw, NEW s \in 0 .. SIZE_MAX, NEW at \in BOOLEAN,
           Create(raw, s, at)
    PROVE  \E l \in Labels : Dict!Define(l)
<1> DEFINE l == normalize[raw]
           e == Entry(l, s, at)
<1>1. /\ l \in Labels /\ e.label = l /\ e.age = size
      /\ refs' = refs \cup {e} /\ phase = "blocks"
  BY RefMapAssumption DEF Create, Entry
<1>2. /\ UNCHANGED <<max_ref_size, ref_size, phase, pc, key, found>>
  BY DEF Create, lookupVars
<1> HIDE DEF l, e
<1>3. DOMAIN Defs' = DOMAIN Defs \cup {l}
  <2>1. {f.label : f \in refs'} = {f.label : f \in refs} \cup {l}
    BY <1>1
  <2> QED
    BY <2>1, DefsIs, DefsDomain
<1>4. ASSUME NEW k \in DOMAIN Defs PROVE Defs'[k] = Defs[k]
  <2>1. PICK f \in refs : f.label = k
    BY Defined
  <2>2. PICK r \in refs : r.label = f.label /\ First(r)
    BY DEF IInv, ListOK
  <2>3. FirstIn(refs, r) /\ FirstIn(refs', r) /\ r \in refs'
    BY <1>1, <2>2 DEF First, FirstIn, IInv, ListOK, PhaseOK, Types
  <2>4. Defs[r.label] = r
    BY <2>3, DefsIs, DefsValue DEF IInv, ListOK, Types
  <2>5. Defs'[r.label] = r
    BY <2>3, DefsIs, DefsValue DEF IInv, ListOK, Types
  <2> QED
    BY <2>1, <2>2, <2>4, <2>5
<1>5. Defs'[l].label = l
  <2>1. PICK r \in refs' : r.label = l /\ FirstIn(refs', r)
    BY <1>1 DEF IInv, ListOK, First, FirstIn
  <2>2. Defs'[l] = r
    BY <2>1, DefsIs, DefsValue DEF IInv, ListOK, Types
  <2> QED
    BY <2>1, <2>2
<1>6. Asked' = Asked
  BY <1>2 DEF Asked
<1>7. Dict!Define(l)
  BY <1>1, <1>2, <1>3, <1>4, <1>5, <1>6 DEF Dict!Define
<1> QED
  BY <1>1, <1>7

LEMMA SearchRefines ==
    ASSUME IInv, SearchHit \/ SearchMiss
    PROVE  Dict!Answer
<1>1. /\ pc = "search" /\ pc' = "idle" /\ phase = "inlines" /\ key \in Labels
      /\ UNCHANGED <<refs, max_ref_size, phase, key>>
  BY DEF SearchHit, SearchMiss, IInv, PhaseOK, Types
<1>2. /\ Asked = key /\ Asked' = NULL /\ key # NULL /\ Defs' = Defs
  BY <1>1, RefMapAssumption, DefsIs DEF Asked
<1>3. CASE SearchMiss
  <2>1. key \notin DOMAIN Defs
    BY <1>1, <1>3, Defined DEF SearchMiss, Hits, IInv, PhaseOK, SortedFirsts
  <2> QED
    BY <1>1, <1>2, <1>3, <2>1 DEF SearchMiss, Dict!Answer
<1>4. CASE SearchHit
  <2>1. PICK k \in Hits :
          IF OverLimit(sorted[k])
          THEN found' = NULL /\ UNCHANGED <<ref_size, expanded>>
          ELSE /\ found' = sorted[k]
               /\ ref_size' = Plus(ref_size, sorted[k].size)
               /\ expanded' = expanded + Copied(sorted[k])
    BY <1>4 DEF SearchHit
  <2>2. /\ sorted[k] \in refs /\ sorted[k].label = key /\ First(sorted[k])
    BY <1>1, HitIsFirst
  <2>3. FirstIn(refs, sorted[k])
    BY <2>2 DEF First, FirstIn
  <2>4. key \in DOMAIN Defs /\ Defs[key] = sorted[k]
    <3>1. key \in DOMAIN Defs
      BY <2>2, Defined
    <3>2. DefsOf(refs)[sorted[k].label] = sorted[k]
      BY <2>2, <2>3, DefsValue DEF IInv, ListOK, Types
    <3> QED
      BY <2>2, <3>1, <3>2, DefsIs
  <2>5. /\ OverLimit(sorted[k]) <=> ref_size + sorted[k].size > max_ref_size
        /\ ~OverLimit(sorted[k]) => Plus(ref_size, sorted[k].size) = ref_size + sorted[k].size
    BY <1>1, <2>2, WithinLimit
  <2>6. ref_size + sorted[k].size \in Int /\ max_ref_size \in Int
    BY <2>2 DEF IInv, Types
  <2>7. IF ref_size + sorted[k].size <= max_ref_size
        THEN found' = sorted[k] /\ ref_size' = ref_size + sorted[k].size
        ELSE found' = NULL /\ ref_size' = ref_size
    BY <2>1, <2>5, <2>6
  <2> QED
    BY <1>1, <1>2, <2>4, <2>7 DEF Dict!Answer
<1> QED
  BY <1>3, <1>4

\* The map that RefMap maintains is a dictionary in which the first definition of
\* a label stays and whose answers fit in the limit: every step of the map is a
\* step of RefDict or leaves the dictionary as it is (cmark_map_lookup, with its
\* lazy sort_map, and cmark_reference_create).
THEOREM RefMapImplementsRefDict == Spec => ImplementsRefDict
<1>1. Init => Dict!Init
  <2> SUFFICES ASSUME Init PROVE Dict!Init
    OBVIOUS
  <2>1. Defs = [l \in {} |-> NULL]
    <3>1. {e.label : e \in refs} = {}
      BY DEF Init
    <3>2. DOMAIN Defs = {}
      BY <3>1, DefsIs, DefsDomain
    <3> QED
      BY <3>2 DEF Defs
  <2> QED
    BY <2>1, RefMapAssumption DEF Init, Dict!Init, Dict!EmptyDict, Asked
<1>2. IInv /\ IInv' /\ [Next]_vars => [Dict!Next]_Dict!vars
  <2> SUFFICES ASSUME IInv, IInv', [Next]_vars PROVE [Dict!Next]_Dict!vars
    OBVIOUS
  <2>1. ASSUME NEW raw \in Raw, NEW s \in Sizes, cmark_reference_create(raw, s)
        PROVE  Dict!Next
    BY <2>1, CreateRefines, RefMapAssumption DEF cmark_reference_create, Dict!Next
  <2>2. ASSUME NEW raw \in Raw, cmark_reference_create_attributes(raw)
        PROVE  Dict!Next
    <3>1. 0 \in 0 .. SIZE_MAX /\ TRUE \in BOOLEAN
      BY RefMapAssumption
    <3>2. Create(raw, 0, TRUE)
      BY <2>2 DEF cmark_reference_create_attributes
    <3> QED
      BY <3>1, <3>2, CreateRefines DEF Dict!Next
  <2>3. ASSUME NEW total \in Totals, finalize_document(total) PROVE Dict!Close
    <3>1. Defs' = Defs /\ Asked' = Asked
      BY <2>3, DefsIs DEF finalize_document, Asked
    <3>2. max_ref_size' \in Nat
      BY RefMapAssumption DEF IInv, Types
    <3> QED
      BY <2>3, <3>1, <3>2 DEF finalize_document, Dict!Close
  <2>4. ASSUME NEW raw \in Raw, NEW who \in {"link", "attributes"}, LookupNothing(raw, who)
        PROVE  Dict!Refuse
    <3>1. Defs' = Defs
      BY <2>4, DefsIs DEF LookupNothing
    <3> QED
      BY <2>4, <3>1 DEF LookupNothing, Begin, Asked, Dict!Refuse
  <2>5. ASSUME NEW raw \in Raw, NEW who \in {"link", "attributes"},
               LookupFirst(raw, who) \/ LookupAgain(raw, who)
        PROVE  \E l \in Labels : Dict!Ask(l)
    <3>1. Defs' = Defs
      BY <2>5, DefsIs DEF LookupFirst, LookupAgain
    <3>2. /\ normalize[raw] \in Labels /\ Asked = NULL /\ Asked' = normalize[raw]
      BY <2>5, RefMapAssumption DEF LookupFirst, LookupAgain, Begin, Wanted, Asked
    <3>3. Dict!Ask(normalize[raw])
      BY <2>5, <3>1, <3>2 DEF LookupFirst, LookupAgain, Begin, Dict!Ask
    <3> QED
      BY <3>2, <3>3
  <2>6. ASSUME SortStep \/ SortEnd PROVE UNCHANGED Dict!vars
    <3>1. Defs' = Defs
      BY <2>6, DefsIs DEF SortStep, SortEnd
    <3> QED
      BY <2>6, <3>1 DEF SortStep, SortEnd, Asked, Dict!vars
  <2>7. ASSUME cmark_map_free PROVE Dict!Discard
    <3>1. Defs' = [l \in {} |-> NULL]
      <4>1. {e.label : e \in refs'} = {}
        BY <2>7 DEF cmark_map_free
      <4>2. DOMAIN Defs' = {}
        BY <4>1, DefsIs, DefsDomain
      <4> QED
        BY <4>2 DEF Defs
    <3> QED
      BY <2>7, <3>1, RefMapAssumption DEF cmark_map_free, Asked, Dict!Discard, Dict!EmptyDict
  <2>8. ASSUME UNCHANGED vars PROVE UNCHANGED Dict!vars
    <3>1. Defs' = Defs
      BY <2>8, DefsIs DEF vars
    <3> QED
      BY <2>8, <3>1 DEF vars, Asked, Dict!vars
  <2> QED
    BY <2>1, <2>2, <2>3, <2>4, <2>5, <2>6, <2>7, <2>8, SearchRefines DEF Next, Dict!Next
<1> QED
  BY <1>1, <1>2, InitIInv, NextIInv, PTL DEF Spec, ImplementsRefDict, Dict!Spec
=============================================================================

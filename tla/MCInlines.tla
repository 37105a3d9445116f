------------------------------ MODULE MCInlines -----------------------------
(* Inlines for TLC: the inputs of the run. *)
EXTENDS Inlines

\* The three ways a run can be flanking.
Runs(c, lens) == {Run(c, l, f[1], f[2]) : l \in lens,
                  f \in {<<TRUE, FALSE>>, <<FALSE, TRUE>>, <<TRUE, TRUE>>}}

OneSided(S) == {r \in S : r.open # r.close}

\* Every run of up to three characters.
Stars == [of |-> Runs("*", 1 .. 3), max |-> 4]

\* Runs of the three kinds across each other.
Mixed ==
    [of |-> OneSided(Runs("*", 1 .. 2)) \cup {Run("*", 1, TRUE, TRUE)}
              \cup OneSided(Runs("~", 1 .. 2)) \cup OneSided(Runs("q", {1})),
     max |-> 4]

\* Brackets, with runs that may pair across them.
Links ==
    [of |-> {Bracket("LINK"), Text(TRUE)} \cup {Close(f) : f \in {"nothing", "inline", "shortcut"}}
              \cup OneSided(Runs("*", {1})) \cup OneSided(Runs("~", {1})),
     max |-> 5]
Attributes ==
    [of |-> {Bracket("LINK"), Bracket("ATTRIBUTE"), Text(TRUE)}
              \cup {Close(f) : f \in {"nothing", "inline"}} \cup OneSided(Runs("*", {1})),
     max |-> 5]

AllDocuments == {Stars, Mixed, Links, Attributes}
=============================================================================

------------------------------ MODULE MCRefMap ------------------------------
(* RefMap for TLC: five ways to write two labels. *)
EXTENDS RefMap, TLC

MCRaw == {"a", "A", "b", "blank", "overlong"}

\* "a" and "A" are one label once case folded.
MCNormalize ==
    "a" :> 1 @@ "A" :> 1 @@ "b" :> 2 @@ "blank" :> NULL @@ "overlong" :> 2
=============================================================================

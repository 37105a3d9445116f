-------------------------------- MODULE Regex --------------------------------
(***************************************************************************)
(* Regular expressions as re2c reads them, for the scanners. A text is a   *)
(* sequence of characters; an expression is a value, and Ends gives the    *)
(* positions at which its matches of a text may end. A scanner generated   *)
(* by re2c takes the longest match.                                        *)
(***************************************************************************)
EXTENDS Integers, Sequences, FiniteSetsExt

One(S) == <<"one", S>>
r ** q == <<"cat", r, q>>
r || q == <<"alt", r, q>>
Many(r) == <<"many", r>>
Empty == <<"empty">>
Opt(r) == Empty || r
Some(r) == r ** Many(r)

\* The positions from which a match of r that began at one of P may go on.
RECURSIVE Ends(_, _, _)
Ends(r, text, P) ==
    CASE r[1] = "empty" -> P
      [] r[1] = "one" -> {p + 1 : p \in {p \in P : p <= Len(text) /\ text[p] \in r[2]}}
      [] r[1] = "cat" -> Ends(r[3], text, Ends(r[2], text, P))
      [] r[1] = "alt" -> Ends(r[2], text, P) \cup Ends(r[3], text, P)
      [] r[1] = "many" -> LET more == P \cup Ends(r[2], text, P)
                          IN  IF more = P THEN P ELSE Ends(r, text, more)

\* r between m and n times.
RECURSIVE Times(_, _, _)
Times(r, m, n) == IF n = 0 THEN Empty
                  ELSE IF m = 0 THEN Opt(r ** Times(r, 0, n - 1))
                  ELSE r ** Times(r, m - 1, n - 1)

\* A word, one character after the other.
RECURSIVE Word(_)
Word(w) == IF w = <<>> THEN Empty ELSE One({w[1]}) ** Word(Tail(w))

\* The length of the longest match of r at position p, 0 when there is none.
Longest(r, text, p) == Max({p} \cup Ends(r, text, {p})) - p

\* The same for r when it is followed by what context matches (re2c's "/").
LongestBefore(r, context, text, p) ==
    Max({p} \cup {e \in Ends(r, text, {p}) : Ends(context, text, {e}) # {}}) - p
=============================================================================

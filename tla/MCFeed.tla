------------------------------- MODULE MCFeed -------------------------------
(* Feed for TLC: what an extension feeds. *)
EXTENDS Feed

\* Complete and incomplete lines, and a NUL inside.
MCNested == {<<"x">>, <<"x", "LF">>, <<"NUL", "x">>, <<"LF", "x">>}
=============================================================================

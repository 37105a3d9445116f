------------------------------- MODULE MCTable -------------------------------
(***************************************************************************)
(* Documents for Table: rows of one to three cells, delimiter rows, rows   *)
(* with markers, escaped pipes and nothing between pipes.                  *)
(***************************************************************************)
EXTENDS Table
MCLines == {<<"LF">>, <<"a", "LF">>, <<"a", "|", "a", "LF">>, <<"-", "|", ":", "-", "LF">>,
            <<"|", "-", ":", "|", "LF">>, <<"|", "^", "|", "a", "|", "LF">>, <<"a", "|", "|", "LF">>,
            <<"|", "a", "BS", "|", "a", "|", "LF">>, <<"|", "|", "a", "|", "SP", "|", "a", "LF">>,
            <<"|", "LF">>}
MCOptions == {{}, {"TABLE_SPANS"}}
=============================================================================

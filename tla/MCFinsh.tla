------------------------------ MODULE MCFinsh ------------------------------
(***************************************************************************)
(* Two commands, one the beginning of the other.                           *)
(***************************************************************************)
EXTENDS Finsh

MCCommand == <<<<"a", "a">>, <<"a">>>>
MCChar == {"a", " ", QUOTE, BACKSLASH}
=============================================================================

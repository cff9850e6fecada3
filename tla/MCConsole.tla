----------------------------- MODULE MCConsole -----------------------------
(***************************************************************************)
(* The console with a buffer of four places: lines that leave room for the *)
(* terminator, that fill the buffer and that are longer than it.  Words    *)
(* have three bits: the counts of :step are one that is kept, one that     *)
(* becomes negative and one that becomes zero.                             *)
(***************************************************************************)
EXTENDS Console

MCLines == {<<"a">>, <<"b", "c">>, <<"d", "e", "f">>, <<"g", "h", "i", "j", "k">>}
MCSteps == {2, 5, 8}
MCBreaks == {2, 9}
MCPcs == {1, 2}
=============================================================================

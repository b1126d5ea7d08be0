------------------------------ MODULE MCDemoReset ------------------------------
(***************************************************************************)
(* Two seed books, one other ISBN, at most three rows, and the eight keys  *)
(* of one character.                                                       *)
(***************************************************************************)
EXTENDS DemoReset

=============================================================================

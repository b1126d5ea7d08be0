------------------------- MODULE MCReadingProgress -------------------------
(***************************************************************************)
(* One book of at most three pages.                                        *)
(***************************************************************************)
EXTENDS ReadingProgress

=============================================================================

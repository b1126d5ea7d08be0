-------------------------- MODULE MCBookshelfAlone --------------------------
(***************************************************************************)
(* One request at a time, with keys so short (15 of them) that a shelf of  *)
(* three books is rebalanced and runs out of keys.                         *)
(***************************************************************************)
EXTENDS BookshelfAlone

\* delete_book leaves the keys of the other books alone and triples the states.
OrderingKinds == AllKinds \ {"delete_book"}

=============================================================================

----------------------------- MODULE MCBookshelf -----------------------------
(***************************************************************************)
(* Concurrent requests on one member's shelves.                            *)
(***************************************************************************)
EXTENDS Bookshelf, TLC

Interchangeable == Permutations(Requests)

\* Everything but the two operations that place a book among others.
RegisterKinds == AllKinds \ {"reorder_book", "move_book_shelf"}

=============================================================================

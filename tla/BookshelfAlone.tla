--------------------------- MODULE BookshelfAlone ---------------------------
(***************************************************************************)
(* Bookshelf as an implementation of ShelfOrder: the keys of a shelf's     *)
(* books, read in string order, are the shelf's sequence.                  *)
(***************************************************************************)
EXTENDS Bookshelf

Order == INSTANCE ShelfOrder WITH
  Books <- BookIds,
  order <- [s \in ShelfIds |-> Sorted(On(s))],
  open  <- {s \in ShelfIds : shelves[s] = "live"}

\* Run one at a time, the requests do exactly what ShelfOrder promises: the step
\* that commits one edits the sequences of books as its operation says, and every
\* other step, a refused or failed request's too, leaves them as they are.
KeepsOrder == Order!Spec

=============================================================================

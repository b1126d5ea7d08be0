----------------------------- MODULE ShelfOrder -----------------------------
(***************************************************************************)
(* What the library promises a reader about her shelves, without keys,     *)
(* rows or locks: a shelf is a sequence of books, and every operation      *)
(* edits one or two of these sequences at once.  Bookshelf is the code     *)
(* that is meant to do this, one request at a time.                        *)
(***************************************************************************)
EXTENDS Integers, Sequences, SequencesExt

CONSTANTS Books, ShelfIds, NoShelf

VARIABLES
  order,   \* the books of each shelf, first to last
  open,    \* the shelves that exist
  default  \* the shelf that is never deleted, NoShelf until it is made

vars == <<order, open, default>>

Placed(b) == \E s \in ShelfIds : b \in ToSet(order[s])

ShelfOf(b) == CHOOSE s \in ShelfIds : b \in ToSet(order[s])

Init ==
  /\ order = [s \in ShelfIds |-> << >>]
  /\ default \in ShelfIds \cup {NoShelf}
  /\ open = {default} \ {NoShelf}

Open(s) ==
  /\ s \notin open
  /\ open' = open \cup {s}
  /\ UNCHANGED <<order, default>>

OpenDefault(s) ==
  /\ default = NoShelf
  /\ default' = s
  /\ s \notin open /\ open' = open \cup {s}
  /\ UNCHANGED order

\* A new book goes to the end of its shelf.
Register(b, s) ==
  /\ ~ Placed(b) /\ s \in open
  /\ order' = [order EXCEPT ![s] = Append(@, b)]
  /\ UNCHANGED <<open, default>>

\* A moved book goes to the end of its new shelf, which may be its own.
Move(b, s) ==
  /\ Placed(b) /\ s \in open
  /\ order' = [t \in ShelfIds |->
       IF t = s THEN Append(RemoveFirst(order[t], b), b) ELSE RemoveFirst(order[t], b)]
  /\ UNCHANGED <<open, default>>

\* A reordered book is put right before or right after another one of its shelf.
Place(b, pivot, side) ==
  /\ Placed(b) /\ Placed(pivot) /\ b # pivot
  /\ ShelfOf(b) = ShelfOf(pivot)
  /\ LET rest == RemoveFirst(order[ShelfOf(b)], b)
         at   == SelectInSeq(rest, LAMBDA x : x = pivot)
     IN  order' = [order EXCEPT ![ShelfOf(b)] =
           InsertAt(rest, IF side = "before" THEN at ELSE at + 1, b)]
  /\ UNCHANGED <<open, default>>

Discard(b) ==
  /\ Placed(b)
  /\ order' = [t \in ShelfIds |-> RemoveFirst(order[t], b)]
  /\ UNCHANGED <<open, default>>

\* The books of a deleted shelf follow those of the default one, in their order.
Close(s) ==
  /\ s \in open \ {default} /\ default # NoShelf
  /\ open' = open \ {s}
  /\ order' = [order EXCEPT ![s] = << >>, ![default] = @ \o order[s]]
  /\ UNCHANGED default

\* A step that edits nothing is a stutter; told apart first, it is cheap to check.
Next ==
  /\ vars' # vars
  /\ \/ \E s \in ShelfIds : Open(s) \/ OpenDefault(s) \/ Close(s)
     \/ \E b \in Books : Discard(b)
     \/ \E b \in Books, s \in ShelfIds : Register(b, s) \/ Move(b, s)
     \/ \E b, pivot \in Books, side \in {"before", "after"} : Place(b, pivot, side)

Spec == Init /\ [][Next]_vars

=============================================================================

-------------------------- MODULE BookshelfProofs --------------------------
(***************************************************************************)
(* Bookshelf for every number of requests, shelves and books and every     *)
(* alphabet: what the row locks and the unique indexes guarantee, where    *)
(* registered books end up, the types of what is written, and who waits    *)
(* for whom.                                                               *)
(***************************************************************************)
EXTENDS Bookshelf, ShelfRankProofs, FiniteSetTheorems

Fields == {"pc", "kind", "book", "shelf", "pivot", "side", "isbn", "row", "ranks", "to"}

Types ==
  /\ DOMAIN req = Requests
  /\ \A r \in Requests : DOMAIN req[r] = Fields
  /\ locked \in [ShelfIds -> Requests \cup {NoRequest}]
  /\ shelves \in [ShelfIds -> {"none", "live", "deleted"}]
  /\ default \in Shelf
  /\ \A r \in Requests : req[r].pc = "make_default" =>
       req[r].kind \in {"create_book", "get_shelves", "delete_shelf"}

\* The request is past its Load, and about a shelf it was given or has found.
Active(r) ==
  /\ req[r].pc \in {"loaded", "planned", "flushing", "collided", "replanned"}
  /\ req[r].kind # "reorder_book"

\* The request holds the row lock of its shelf.
Holds(r) ==
  \/ req[r].pc = "planned" /\ req[r].kind \in {"create_book", "move_book_shelf"}
  \/ req[r].pc = "flushing"

\* The last conjunct is LockedTargetIsLive.  It is kept because the move holds the lock
\* of its shelf, and delete_shelf commits only what it has locked itself.
LockInv ==
  \A r \in Requests :
    /\ Active(r) => req[r].shelf \in ShelfIds
    /\ req[r].pc = "flushing" => req[r].kind = "delete_shelf"
    /\ Holds(r) => locked[req[r].shelf] = r
    /\ req[r].pc = "planned" /\ req[r].kind = "move_book_shelf" =>
         shelves[req[r].shelf] = "live"

\* delete_shelf is never about the default shelf, not even about one made after
\* the request has begun.
DefaultInv ==
  /\ default # NoShelf => shelves[default] = "live"
  /\ \A r \in Requests :
       req[r].kind = "delete_shelf" /\ ~ Answered(r) =>
         req[r].shelf # default /\ req[r].shelf \in ShelfIds \ Unused

-----------------------------------------------------------------------------
LEMMA IdleFields ==
  /\ DOMAIN Idle = Fields
  /\ Idle.pc = "idle" /\ Idle.kind = "none" /\ Idle.shelf = NoShelf
BY DEF Idle, Fields

LEMMA InitTypes == Init => Types /\ LockInv /\ DefaultInv
<1> SUFFICES ASSUME Init PROVE Types /\ LockInv /\ DefaultInv
  OBVIOUS
<1>1. DOMAIN req = Requests /\ \A r \in Requests : req[r] = Idle
  BY DEF Init
<1>2. Types
  BY <1>1, IdleFields DEF Init, Types, Shelf
<1>3. LockInv
  BY <1>1, IdleFields DEF LockInv, Active, Holds
<1>4. DefaultInv
  BY <1>1, IdleFields DEF Init, DefaultInv, Answered
<1>5. QED
  BY <1>2, <1>3, <1>4

\* What a step of request r leaves alone, and what it makes of r.
Effect(r, kind, pc, shelf) ==
  /\ \A q \in Requests \ {r} : req'[q] = req[q]
  /\ DOMAIN req' = Requests /\ DOMAIN req'[r] = Fields
  /\ req'[r].kind = kind /\ req'[r].pc = pc /\ req'[r].shelf = shelf

LEMMA BeginEffect ==
  ASSUME Types, NEW r \in Requests, NEW kind, NEW request, DOMAIN request = Fields,
         Begin(r, kind, request)
  PROVE  /\ UNCHANGED <<books, shelves, default, locked>>
         /\ Effect(r, kind, request.pc, request.shelf)
BY DEF Types, Begin, Effect, Fields

LEMMA LoadEffect ==
  ASSUME Types, NEW r \in Requests, Load(r)
  PROVE  /\ UNCHANGED <<books, shelves, default, locked>>
         /\ \E kind \in AllKinds, pc \in {"loaded", "make_default"} : \E s :
              /\ Effect(r, kind, pc, s)
              /\ pc = "loaded" /\ kind # "reorder_book" => s \in ShelfIds
              /\ pc = "make_default" => kind \in {"create_book", "get_shelves", "delete_shelf"}
              /\ kind = "delete_shelf" =>
                   /\ s \in ShelfIds \ {default} /\ shelves[s] = "live"
                   /\ pc = "loaded" => default \in ShelfIds
<1>1. NextPC \in {"loaded", "make_default"} /\ (NextPC = "loaded" => default \in ShelfIds)
  BY DEF NextPC, Shelf, Types
<1>2. CASE CreateBook(r)
  <2>1. PICK s \in ShelfIds \cup {NoShelf}, i \in Isbns \cup {NoIsbn} :
          Begin(r, "create_book",
            [Idle EXCEPT !.pc = IF s = NoShelf THEN NextPC ELSE "loaded",
                         !.shelf = IF s = NoShelf THEN default ELSE s, !.isbn = i])
    BY <1>2 DEF CreateBook
  <2> DEFINE request == [Idle EXCEPT !.pc = IF s = NoShelf THEN NextPC ELSE "loaded",
                           !.shelf = IF s = NoShelf THEN default ELSE s, !.isbn = i]
  <2>2. /\ DOMAIN request = Fields
        /\ request.pc = IF s = NoShelf THEN NextPC ELSE "loaded"
        /\ request.shelf = IF s = NoShelf THEN default ELSE s
    BY DEF Idle, Fields
  <2> HIDE DEF request
  <2>3. /\ UNCHANGED <<books, shelves, default, locked>>
        /\ Effect(r, "create_book", request.pc, request.shelf)
    BY <2>1, <2>2, BeginEffect DEF request
  <2>4. /\ request.pc \in {"loaded", "make_default"}
        /\ request.pc = "loaded" => request.shelf \in ShelfIds
    BY <1>1, <2>2
  <2>5. QED
    BY <2>3, <2>4 DEF AllKinds
<1>3. CASE MoveBookShelf(r)
  <2>1. PICK b \in BookIds, s \in ShelfIds \ Unused :
          Begin(r, "move_book_shelf",
            [Idle EXCEPT !.pc = "loaded", !.book = b, !.shelf = s, !.row = Row(b)])
    BY <1>3 DEF MoveBookShelf
  <2> DEFINE request == [Idle EXCEPT !.pc = "loaded", !.book = b, !.shelf = s, !.row = Row(b)]
  <2>2. DOMAIN request = Fields /\ request.pc = "loaded" /\ request.shelf = s
    BY DEF Idle, Fields
  <2> HIDE DEF request
  <2>3. /\ UNCHANGED <<books, shelves, default, locked>>
        /\ Effect(r, "move_book_shelf", request.pc, request.shelf)
    BY <2>1, <2>2, BeginEffect DEF request
  <2>4. QED
    BY <2>2, <2>3 DEF AllKinds
<1>4. CASE ReorderBook(r)
  <2>1. PICK b, pivot \in BookIds, side \in {"before", "after"} :
          Begin(r, "reorder_book",
            [Idle EXCEPT !.pc = "loaded", !.book = b, !.shelf = books[b].shelf,
                         !.pivot = pivot, !.side = side, !.row = Row(b)])
    BY <1>4 DEF ReorderBook
  <2> DEFINE request == [Idle EXCEPT !.pc = "loaded", !.book = b, !.shelf = books[b].shelf,
                           !.pivot = pivot, !.side = side, !.row = Row(b)]
  <2>2. DOMAIN request = Fields /\ request.pc = "loaded"
    BY DEF Idle, Fields
  <2> HIDE DEF request
  <2>3. /\ UNCHANGED <<books, shelves, default, locked>>
        /\ Effect(r, "reorder_book", request.pc, request.shelf)
    BY <2>1, <2>2, BeginEffect DEF request
  <2>4. QED
    BY <2>2, <2>3 DEF AllKinds
<1>5. CASE GetShelves(r)
  <2> DEFINE request == [Idle EXCEPT !.pc = "make_default"]
  <2>1. DOMAIN request = Fields /\ request.pc = "make_default"
    BY DEF Idle, Fields
  <2>2. Begin(r, "get_shelves", request)
    BY <1>5 DEF GetShelves
  <2> HIDE DEF request
  <2>3. /\ UNCHANGED <<books, shelves, default, locked>>
        /\ Effect(r, "get_shelves", request.pc, request.shelf)
    BY <2>1, <2>2, BeginEffect
  <2>4. QED
    BY <2>1, <2>3 DEF AllKinds
<1>6. CASE DeleteShelf(r)
  <2>1. PICK s \in ShelfIds \ {default} :
          /\ shelves[s] = "live"
          /\ Begin(r, "delete_shelf", [Idle EXCEPT !.pc = NextPC, !.shelf = s])
    BY <1>6 DEF DeleteShelf
  <2> DEFINE request == [Idle EXCEPT !.pc = NextPC, !.shelf = s]
  <2>2. DOMAIN request = Fields /\ request.pc = NextPC /\ request.shelf = s
    BY DEF Idle, Fields
  <2> HIDE DEF request
  <2>3. /\ UNCHANGED <<books, shelves, default, locked>>
        /\ Effect(r, "delete_shelf", request.pc, request.shelf)
    BY <2>1, <2>2, BeginEffect DEF request
  <2>4. QED
    BY <1>1, <2>1, <2>2, <2>3 DEF AllKinds
<1>7. QED
  BY <1>2, <1>3, <1>4, <1>5, <1>6 DEF Load

\* MakeDefault makes a shelf only when there is none.
LEMMA MakeDefaultEffect ==
  ASSUME Types, NEW r \in Requests, MakeDefault(r)
  PROVE  /\ req[r].pc = "make_default"
         /\ UNCHANGED <<books, locked>>
         /\ \/ UNCHANGED <<shelves, default>> /\ default # NoShelf
            \/ /\ default = NoShelf /\ default' \in Unused
               /\ shelves' = [shelves EXCEPT ![default'] = "live"]
         /\ \/ Effect(r, "none", "idle", NoShelf)
            \/ req[r].kind = "delete_shelf" /\ Effect(r, "delete_shelf", "loaded", req[r].shelf)
            \/ default' \in ShelfIds /\ Effect(r, "create_book", "loaded", default')
<1>1. /\ req[r].pc = "make_default"
      /\ UNCHANGED <<books, locked>>
      /\ \/ UNCHANGED <<shelves, default>> /\ default # NoShelf
         \/ /\ default = NoShelf /\ default' \in Unused
            /\ shelves' = [shelves EXCEPT ![default'] = "live"]
  BY DEF MakeDefault, FindOrInsertDefault, InsertDefault
<1>2. default' \in ShelfIds
  BY <1>1 DEF Unused, Types, Shelf
<1>3. CASE req[r].kind = "get_shelves"
  <2>1. Effect(r, "none", "idle", NoShelf)
    BY <1>3, IdleFields DEF MakeDefault, Effect, Types
  <2>2. QED
    BY <1>1, <2>1
<1>4. CASE req[r].kind = "delete_shelf"
  <2>1. req' = [req EXCEPT ![r] = [req[r] EXCEPT !.pc = "loaded"]]
    BY <1>4 DEF MakeDefault
  <2>2. Effect(r, "delete_shelf", "loaded", req[r].shelf)
    BY <1>4, <2>1 DEF Effect, Types, Fields
  <2>3. QED
    BY <1>1, <1>4, <2>2 DEF AllKinds
<1>5. CASE req[r].kind = "create_book"
  <2>1. \/ req' = [req EXCEPT ![r] = Idle]
        \/ req' = [req EXCEPT ![r] = [req[r] EXCEPT !.pc = "loaded", !.shelf = default']]
    BY <1>5 DEF MakeDefault
  <2>2. \/ Effect(r, "none", "idle", NoShelf)
        \/ Effect(r, "create_book", "loaded", default')
    BY <1>5, <2>1, IdleFields DEF Effect, Types, Fields
  <2>3. QED
    BY <1>1, <1>2, <2>2 DEF AllKinds
<1>6. QED
  BY <1>1, <1>3, <1>4, <1>5 DEF Types

LEMMA ReplaceEffect ==
  ASSUME Types, NEW r \in Requests, NEW request, DOMAIN request = Fields,
         req' = [req EXCEPT ![r] = request]
  PROVE  Effect(r, request.kind, request.pc, request.shelf)
BY DEF Types, Effect

LEMMA AnsweredEffect ==
  ASSUME Types, NEW r \in Requests, NEW pc,
         \/ req' = [req EXCEPT ![r] = Idle] /\ pc = "idle"
         \/ req' = [req EXCEPT ![r] = [Idle EXCEPT !.pc = pc]]
  PROVE  Effect(r, "none", pc, NoShelf)
<1> DEFINE request == [Idle EXCEPT !.pc = pc]
<1>1. DOMAIN request = Fields /\ request.pc = pc /\ request.kind = "none" /\ request.shelf = NoShelf
  BY DEF Idle, Fields
<1> HIDE DEF request
<1>2. QED
  BY <1>1, IdleFields, ReplaceEffect DEF request

LEMMA PlanAppendEffect ==
  ASSUME Types, NEW r \in Requests, PlanAppend(r)
  PROVE  /\ req[r].pc = "loaded" /\ req[r].kind \in {"create_book", "move_book_shelf"}
         /\ UNCHANGED <<books, shelves, default>>
         /\ \/ /\ UNCHANGED locked
               /\ Effect(r, "none", "idle", NoShelf) \/ Effect(r, "none", "exhausted", NoShelf)
            \/ /\ locked[req[r].shelf] = NoRequest
               /\ locked' = [locked EXCEPT ![req[r].shelf] = r]
               /\ req[r].kind = "move_book_shelf" => shelves[req[r].shelf] = "live"
               /\ Effect(r, req[r].kind, "planned", req[r].shelf)
<1>1. /\ req[r].pc = "loaded" /\ req[r].kind \in {"create_book", "move_book_shelf"}
      /\ UNCHANGED <<books, shelves, default>>
  BY DEF PlanAppend
<1> DEFINE s == req[r].shelf
           new == AppendRank(LastRank(r, s))
           planned == [req[r] EXCEPT !.pc = "planned", !.row = NoRow,
                         !.ranks = [b \in {req[r].book} |-> Changed(new, req[r].row.rank)],
                         !.to = IF s = req[r].row.shelf THEN NoShelf ELSE s]
<1>2. \/ UNCHANGED locked /\ req' = [req EXCEPT ![r] = Idle]
      \/ UNCHANGED locked /\ req' = [req EXCEPT ![r] = [Idle EXCEPT !.pc = "exhausted"]]
      \/ /\ locked[s] = NoRequest
         /\ locked' = [locked EXCEPT ![s] = r]
         /\ req[r].kind = "move_book_shelf" => shelves[s] = "live"
         /\ req' = [req EXCEPT ![r] = planned]
  BY DEF PlanAppend, Lockable
<1>3. /\ DOMAIN planned = Fields /\ planned.pc = "planned" /\ planned.kind = req[r].kind
      /\ planned.shelf = req[r].shelf
  BY DEF Types, Fields
<1> HIDE DEF planned
<1>4. req' = [req EXCEPT ![r] = planned] => Effect(r, req[r].kind, "planned", req[r].shelf)
  BY <1>3, ReplaceEffect
<1>5. req' = [req EXCEPT ![r] = Idle] => Effect(r, "none", "idle", NoShelf)
  BY AnsweredEffect
<1>6. req' = [req EXCEPT ![r] = [Idle EXCEPT !.pc = "exhausted"]]
        => Effect(r, "none", "exhausted", NoShelf)
  BY AnsweredEffect
<1>7. QED
  BY <1>1, <1>2, <1>4, <1>5, <1>6

LEMMA PlanAgainEffect ==
  ASSUME Types, NEW r \in Requests, PlanAgain(r)
  PROVE  /\ req[r].pc = "collided"
         /\ UNCHANGED <<books, shelves, default, locked>>
         /\ \/ Effect(r, "none", "exhausted", NoShelf)
            \/ Effect(r, req[r].kind, "replanned", req[r].shelf)
BY IdleFields DEF PlanAgain, Effect, Types, Fields

LEMMA PlanReorderEffect ==
  ASSUME Types, NEW r \in Requests, PlanReorder(r)
  PROVE  /\ req[r].pc = "loaded" /\ req[r].kind = "reorder_book"
         /\ UNCHANGED <<books, shelves, default, locked>>
         /\ \/ Effect(r, "none", "idle", NoShelf)
            \/ Effect(r, "reorder_book", "planned", req[r].shelf)
BY IdleFields DEF PlanReorder, Effect, Types, Fields

LEMMA PlanDeleteShelfEffect ==
  ASSUME Types, NEW r \in Requests, PlanDeleteShelf(r)
  PROVE  /\ req[r].pc = "loaded" /\ req[r].kind = "delete_shelf"
         /\ UNCHANGED <<books, shelves, default, locked>>
         /\ \/ Effect(r, "none", "exhausted", NoShelf)
            \/ Effect(r, "delete_shelf", "planned", req[r].shelf)
BY IdleFields DEF PlanDeleteShelf, Effect, Types, Fields

LEMMA FlushShelfEffect ==
  ASSUME Types, NEW r \in Requests, FlushShelf(r)
  PROVE  /\ req[r].pc = "planned" /\ req[r].kind = "delete_shelf"
         /\ locked[req[r].shelf] = NoRequest
         /\ locked' = [locked EXCEPT ![req[r].shelf] = r]
         /\ UNCHANGED <<books, shelves, default>>
         /\ Effect(r, "delete_shelf", "flushing", req[r].shelf)
BY DEF FlushShelf, Lockable, Effect, Types, Fields

LEMMA RefuseEffect ==
  ASSUME Types, NEW r \in Requests, Refuse(r)
  PROVE  /\ locked' = Release(r)
         /\ UNCHANGED <<books, shelves, default>>
         /\ Effect(r, "none", "idle", NoShelf)
BY AnsweredEffect DEF Refuse

LEMMA CommitEffect ==
  ASSUME Types, NEW r \in Requests, CommitInsert(r) \/ CommitUpdate(r)
  PROVE  /\ req[r].pc \in {"planned", "flushing", "replanned"}
         /\ locked' = Release(r)
         /\ default' = default
         /\ \/ UNCHANGED shelves
            \/ /\ req[r].kind = "delete_shelf" /\ req[r].pc = "flushing"
               /\ shelves' = [shelves EXCEPT ![req[r].shelf] = "deleted"]
         /\ Effect(r, "none", "idle", NoShelf)
BY AnsweredEffect DEF CommitInsert, CommitUpdate, Flushing, Done

LEMMA CollisionEffect ==
  ASSUME Types, NEW r \in Requests, Collision(r)
  PROVE  /\ locked' = Release(r)
         /\ UNCHANGED <<books, shelves, default>>
         /\ \/ /\ Effect(r, req[r].kind, "collided", req[r].shelf)
               /\ req[r].kind \in {"create_book", "move_book_shelf"}
               /\ req[r].pc = "planned"
            \/ Effect(r, "none", "failed", NoShelf)
BY IdleFields DEF Collision, Effect, Types, Fields

Inv == Types /\ LockInv /\ DefaultInv

LEMMA InvStep == Inv /\ [Next]_vars => Inv'
<1> SUFFICES ASSUME Types, LockInv, DefaultInv, [Next]_vars PROVE Inv'
  BY DEF Inv
<1> USE BookshelfAssumption
<1>1. CASE UNCHANGED vars
  BY <1>1 DEF vars, Inv, Types, LockInv, DefaultInv, Active, Holds, Answered, Unused
<1>2. CASE DeleteBook
  BY <1>2 DEF DeleteBook, Inv, Types, LockInv, DefaultInv, Active, Holds, Answered, Unused
<1>3. CASE CreateShelf
  BY <1>3 DEF CreateShelf, Inv, Types, LockInv, DefaultInv, Active, Holds, Answered, Unused, Shelf
<1>4. ASSUME NEW r \in Requests, Load(r) PROVE Inv'
  BY <1>4, LoadEffect DEF Effect, Inv, Types, LockInv, DefaultInv, Active, Holds, Answered, Unused
<1>5. ASSUME NEW r \in Requests, MakeDefault(r) PROVE Inv'
  <2>1. Types'
    BY <1>5, MakeDefaultEffect DEF Effect, Types, Unused, Shelf
  <2>2. LockInv'
    BY <1>5, MakeDefaultEffect DEF Effect, Types, LockInv, DefaultInv, Answered, Active, Holds, Unused
  <2>3. DefaultInv'
    BY <1>5, MakeDefaultEffect DEF Effect, Types, DefaultInv, Answered, Unused, Shelf
  <2>4. QED
    BY <2>1, <2>2, <2>3 DEF Inv
<1>6. ASSUME NEW r \in Requests, PlanAppend(r) PROVE Inv'
  BY <1>6, PlanAppendEffect DEF Effect, Inv, Types, LockInv, DefaultInv, Active, Holds, Answered, Unused
<1>7. ASSUME NEW r \in Requests, PlanAgain(r) PROVE Inv'
  BY <1>7, PlanAgainEffect DEF Effect, Inv, Types, LockInv, DefaultInv, Active, Holds, Answered, Unused
<1>8. ASSUME NEW r \in Requests, PlanReorder(r) PROVE Inv'
  BY <1>8, PlanReorderEffect DEF Effect, Inv, Types, LockInv, DefaultInv, Active, Holds, Answered, Unused
<1>9. ASSUME NEW r \in Requests, PlanDeleteShelf(r) PROVE Inv'
  BY <1>9, PlanDeleteShelfEffect DEF Effect, Inv, Types, LockInv, DefaultInv, Active, Holds, Answered, Unused
<1>10. ASSUME NEW r \in Requests, FlushShelf(r) PROVE Inv'
  BY <1>10, FlushShelfEffect DEF Effect, Inv, Types, LockInv, DefaultInv, Active, Holds, Answered, Unused
<1>11. ASSUME NEW r \in Requests, Refuse(r) PROVE Inv'
  BY <1>11, RefuseEffect DEF Effect, Inv, Types, LockInv, DefaultInv, Active, Holds, Answered, Unused, Release
<1>12. ASSUME NEW r \in Requests, CommitInsert(r) \/ CommitUpdate(r) PROVE Inv'
  <2>1. Types'
    BY <1>12, CommitEffect DEF Effect, Types, Release
  <2>2. LockInv'
    <3>1. ASSUME NEW q \in Requests \ {r}, Holds(q) PROVE locked'[req[q].shelf] = q
      BY <1>12, <3>1, CommitEffect DEF Types, LockInv, Active, Holds, Release
    <3>2. ASSUME NEW q \in Requests \ {r}, req[q].pc = "planned", req[q].kind = "move_book_shelf"
          PROVE  shelves'[req[q].shelf] = "live"
      BY <1>12, <3>2, CommitEffect DEF Types, LockInv, Active, Holds
    <3>3. QED
      BY <1>12, <3>1, <3>2, CommitEffect DEF Effect, LockInv, Active, Holds
  <2>3. DefaultInv'
    BY <1>12, CommitEffect DEF Effect, Types, DefaultInv, Answered, Unused, Shelf
  <2>4. QED
    BY <2>1, <2>2, <2>3 DEF Inv
<1>13. ASSUME NEW r \in Requests, Collision(r) PROVE Inv'
  BY <1>13, CollisionEffect DEF Effect, Inv, Types, LockInv, DefaultInv, Active, Holds, Answered, Unused, Release
<1>14. QED
  BY <1>1, <1>2, <1>3, <1>4, <1>5, <1>6, <1>7, <1>8, <1>9, <1>10, <1>11, <1>12, <1>13
     DEF Next, Proceed

\* The lock discipline: a request past its lock is the one the row's lock names, and
\* delete_shelf is never about the default shelf.
THEOREM InvAlways == Spec => []Inv
<1>1. Init => Inv
  BY InitTypes DEF Inv
<1>2. Inv /\ [Next]_vars => Inv'
  BY InvStep
<1>3. QED
  BY <1>1, <1>2, PTL DEF Spec

\* A shelf that move_book_shelf has locked and found live is live until the move is
\* committed, for any number of requests, shelves and books.
THEOREM MoveTargetLive == Spec => []LockedTargetIsLive
<1>1. Inv => LockedTargetIsLive
  BY DEF Inv, LockInv, LockedTargetIsLive
<1>2. QED
  BY <1>1, InvAlways, PTL

LEMMA DefaultStays ==
  ASSUME Types, [Next]_vars, default # NoShelf
  PROVE  default' = default
<1>1. CASE UNCHANGED vars
  BY <1>1 DEF vars
<1>2. CASE DeleteBook \/ CreateShelf
  BY <1>2 DEF DeleteBook, CreateShelf
<1>3. ASSUME NEW r \in Requests, Load(r) \/ Proceed(r) PROVE default' = default
  BY <1>3, LoadEffect, MakeDefaultEffect, PlanAppendEffect, PlanAgainEffect,
     PlanReorderEffect, PlanDeleteShelfEffect, FlushShelfEffect, RefuseEffect,
     CommitEffect, CollisionEffect DEF Proceed
<1>4. QED
  BY <1>1, <1>2, <1>3 DEF Next

\* The default shelf is made once and never deleted.
THEOREM DefaultShelfStays == Spec => DefaultShelfForever
<1>1. Inv /\ Inv' /\ [Next]_vars =>
        [default # NoShelf => default' = default /\ shelves'[default] = "live"]_vars
  BY DefaultStays DEF Inv, DefaultInv
<1>2. QED
  BY <1>1, InvAlways, PTL DEF Spec, DefaultShelfForever

-----------------------------------------------------------------------------
BookFields == {"state", "shelf", "rank", "isbn"}

BookShape == DOMAIN books = BookIds /\ \A b \in BookIds : DOMAIN books[b] = BookFields

Same(x, y) == x.shelf = y.shelf /\ x.rank = y.rank

LEMMA GoneFields ==
  ASSUME NEW state
  PROVE  DOMAIN Gone(state) = BookFields /\ Gone(state).state = state
BY DEF Gone, BookFields

LEMMA WrittenFields ==
  ASSUME BookShape, NEW r \in Requests, NEW b \in BookIds
  PROVE  DOMAIN Written(r, b) = BookFields /\ Written(r, b).state = books[b].state
BY DEF Written, BookShape, BookFields

\* The operations that write books.
LEMMA WhoWritesBooks ==
  ASSUME [Next]_vars
  PROVE  \/ books' = books
         \/ DeleteBook
         \/ \E r \in Requests : CommitInsert(r) \/ CommitUpdate(r)
<1>1. CASE UNCHANGED vars
  BY <1>1 DEF vars
<1>2. CASE CreateShelf
  BY <1>2 DEF CreateShelf
<1>3. ASSUME NEW r \in Requests, Load(r) PROVE books' = books
  BY <1>3 DEF Load, CreateBook, MoveBookShelf, ReorderBook, GetShelves, DeleteShelf, Begin
<1>4. ASSUME NEW r \in Requests, Proceed(r), ~ CommitInsert(r), ~ CommitUpdate(r)
      PROVE  books' = books
  BY <1>4 DEF Proceed, MakeDefault, PlanAppend, PlanAgain, PlanReorder, PlanDeleteShelf,
     FlushShelf, Refuse, Collision
<1>5. QED
  BY <1>1, <1>2, <1>3, <1>4 DEF Next

LEMMA BookShapeStep == BookShape /\ [Next]_vars => BookShape'
<1> SUFFICES ASSUME BookShape, [Next]_vars PROVE BookShape'
  OBVIOUS
<1>1. CASE books' = books
  BY <1>1 DEF BookShape
<1>2. CASE DeleteBook
  BY <1>2, GoneFields DEF DeleteBook, BookShape
<1>3. ASSUME NEW r \in Requests, CommitInsert(r) PROVE BookShape'
  BY <1>3 DEF CommitInsert, BookShape, BookFields
<1>4. ASSUME NEW r \in Requests, CommitUpdate(r) PROVE BookShape'
  BY <1>4, WrittenFields DEF CommitUpdate, BookShape
<1>5. QED
  BY <1>1, <1>2, <1>3, <1>4, WhoWritesBooks

LEMMA KeysUniqueStep == BookShape /\ KeysUnique /\ [Next]_vars => KeysUnique'
<1> SUFFICES ASSUME BookShape, KeysUnique, [Next]_vars PROVE KeysUnique'
  OBVIOUS
<1>1. CASE books' = books
  BY <1>1 DEF KeysUnique, Live, On
<1>2. CASE DeleteBook
  BY <1>2, GoneFields DEF DeleteBook, BookShape, KeysUnique, Live, On
<1>3. ASSUME NEW r \in Requests, CommitInsert(r) PROVE KeysUnique'
  <2>1. PICK b \in BookIds :
          /\ ~ Live(b)
          /\ books' = [books EXCEPT ![b] =
               [state |-> "live", shelf |-> req[r].shelf, rank |-> req[r].ranks[NewBook],
                isbn |-> req[r].isbn]]
    BY <1>3 DEF CommitInsert, Live
  <2>2. \A c \in On(req[r].shelf) : books[c].rank # req[r].ranks[NewBook]
    BY <1>3 DEF CommitInsert, Collides, InsertCollides
  <2>3. QED
    BY <2>1, <2>2 DEF BookShape, KeysUnique, Live, On
<1>4. ASSUME NEW r \in Requests, CommitUpdate(r) PROVE KeysUnique'
  <2> DEFINE D == {b \in DOMAIN req[r].ranks \cap BookIds : Live(b)}
  <2>1. books' = [b \in BookIds |-> IF b \in D THEN Written(r, b) ELSE books[b]]
    BY <1>4 DEF CommitUpdate
  <2>2. \A b \in BookIds : Live(b)' <=> Live(b)
    BY <2>1, WrittenFields DEF Live
  <2>3. ASSUME NEW b \in D, NEW c \in BookIds \ {b}, Live(c), c \notin D \/ c < b
        PROVE  ~ Same(books'[b], books'[c])
    BY <1>4, <2>1, <2>3 DEF CommitUpdate, Collides, UpdateCollides, Same
  <2>4. ASSUME NEW b \in BookIds, NEW c \in BookIds \ {b}, Live(b), Live(c)
        PROVE  ~ Same(books'[b], books'[c])
    <3>1. CASE b \notin D /\ c \notin D
      BY <2>1, <2>4, <3>1 DEF KeysUnique, On, Same
    <3>2. b < c \/ c < b
      BY BookshelfAssumption DEF BookIds
    <3>3. CASE b \in D /\ (c \notin D \/ c < b)
      BY <2>3, <2>4, <3>3
    <3>4. CASE c \in D /\ (b \notin D \/ b < c)
      <4>1. ~ Same(books'[c], books'[b])
        BY <2>3, <2>4, <3>4
      <4>2. QED
        BY <4>1 DEF Same
    <3>5. QED
      BY <3>1, <3>2, <3>3, <3>4
  <2>5. QED
    BY <2>2, <2>4 DEF KeysUnique, On, Same
<1>5. QED
  BY <1>1, <1>2, <1>3, <1>4, WhoWritesBooks

\* No two books of a shelf ever have the same key, whatever the requests do: the flush
\* of many rows is checked one by one, and that is enough.
THEOREM KeysStayUnique == Spec => []KeysUnique
<1>1. Init => BookShape /\ KeysUnique
  <2> SUFFICES ASSUME Init PROVE BookShape /\ KeysUnique
    OBVIOUS
  <2>1. \A b \in BookIds : books[b] = Gone("none")
    BY DEF Init
  <2>2. QED
    BY <2>1, GoneFields DEF Init, BookShape, KeysUnique, Live
<1>2. BookShape /\ KeysUnique /\ [Next]_vars => (BookShape /\ KeysUnique)'
  BY BookShapeStep, KeysUniqueStep
<1>3. QED
  BY <1>1, <1>2, PTL DEF Spec

-----------------------------------------------------------------------------
(* Registration under the shelf's lock, while shelves are made and deleted  *)
(* and books are deleted, but none is moved or reordered: a move of a book  *)
(* that another move has just brought to the same shelf is written without  *)
(* its lock, and a reordering takes no lock at all.                         *)

Registering == Kinds \cap {"move_book_shelf", "reorder_book"} = {}

\* What a request is about to write.
PlanOK(q) ==
  /\ q.kind \in Kinds \cup {"none"}
  /\ q.pc \in {"planned", "flushing"} => q.kind \in {"create_book", "delete_shelf"}
  /\ q.pc \in {"collided", "replanned"} => q.kind = "create_book"
  /\ q.kind \in {"create_book", "delete_shelf"} => q.row = NoRow /\ q.book = NewBook
  /\ q.kind = "create_book" /\ q.pc \in {"planned", "replanned"} => q.ranks[NewBook] \in Rank
  /\ q.kind = "delete_shelf" /\ q.pc \in {"planned", "flushing"} =>
       q.to \in ShelfIds /\ \A b \in DOMAIN q.ranks : q.ranks[b] \in Rank \cup {None}

LiveRanks == \A b \in BookIds : Live(b) => books[b].rank \in Rank

DefaultFound ==
  \A r \in Requests :
    req[r].kind = "delete_shelf" /\ req[r].pc = "loaded" => default \in ShelfIds

RegisterInv ==
  LiveRanks /\ (\A r \in Requests : PlanOK(req[r])) /\ DefaultFound /\ CreatedBookIsLast

-----------------------------------------------------------------------------
LEMMA InitialRank == Initial \in Rank
<1>1. BASE \div 2 \in Digit \ {0}
  BY RankAssumption DEF Digit
<1>2. QED
  BY <1>1, RankAssumption DEF Initial, Rank

\* A key appended to a shelf is a key, and follows the shelf's last one.
LEMMA Appending ==
  ASSUME NEW last \in Rank \cup {None}, CanAppend(last)
  PROVE  /\ AppendRank(last) \in Rank
         /\ last # None => Less(last, AppendRank(last))
<1>1. last \in Neighbour /\ None \in Neighbour
  BY DEF Neighbour
<1>2. CASE last = None
  BY <1>2, InitialRank DEF AppendRank
<1>3. CASE last # None
  <2>1. HasRoom(last, None) /\ AppendRank(last) = Between(last, None)
    BY <1>3 DEF CanAppend, AppendRank, After
  <2>2. Between(last, None) \in Rank
    BY <1>1, <2>1, BetweenShape
  <2>3. Less(last, Between(last, None))
    BY <1>1, <2>1, BetweenIsAfter
  <2>4. QED
    BY <2>1, <2>2, <2>3
<1>4. QED
  BY <1>2, <1>3

AppendedFrom(last, n, f) ==
  f = [i \in 0 .. n |->
        IF i = 0 THEN last
        ELSE IF i > 1 /\ f[i - 1] = None THEN None
        ELSE IF CanAppend(f[i - 1]) THEN AppendRank(f[i - 1]) ELSE None]

\* The recursive function exists ...
LEMMA AppendedExists ==
  ASSUME NEW last
  PROVE  \A n \in Nat : \E f : AppendedFrom(last, n, f)
<1> DEFINE Bad == {n \in Nat : ~ \E f : AppendedFrom(last, n, f)}
<1>1. SUFFICES ASSUME Bad # {} PROVE FALSE
  OBVIOUS
<1>2. PICK n \in Bad : \A m \in Bad : n <= m
  BY <1>1, LeastNat
<1>3. CASE n = 0
  <2> DEFINE f == [i \in 0 .. 0 |-> last]
  <2>1. AppendedFrom(last, 0, f)
    BY DEF AppendedFrom
  <2>2. QED
    BY <1>2, <1>3, <2>1
<1>4. CASE n # 0
  <2>1. n - 1 \in Nat /\ n - 1 \notin Bad
    BY <1>2, <1>4
  <2>2. PICK g : AppendedFrom(last, n - 1, g)
    BY <2>1
  <2> DEFINE key == IF n > 1 /\ g[n - 1] = None THEN None
                    ELSE IF CanAppend(g[n - 1]) THEN AppendRank(g[n - 1]) ELSE None
             f == [i \in 0 .. n |-> IF i = n THEN key ELSE g[i]]
  <2>3. /\ f[n] = key
        /\ \A i \in 0 .. n - 1 : f[i] = g[i]
    BY <1>2
  <2>4. ASSUME NEW i \in 0 .. n
        PROVE  f[i] = IF i = 0 THEN last
                      ELSE IF i > 1 /\ f[i - 1] = None THEN None
                      ELSE IF CanAppend(f[i - 1]) THEN AppendRank(f[i - 1]) ELSE None
    <3>1. CASE i = n
      <4>1. f[i - 1] = g[n - 1] /\ f[i] = key
        BY <1>2, <1>4, <2>1, <2>3, <3>1
      <4> HIDE DEF f
      <4>2. QED
        BY <1>4, <3>1, <4>1
    <3>2. CASE i # n
      <4>1. i \in 0 .. n - 1 /\ f[i] = g[i] /\ (i # 0 => f[i - 1] = g[i - 1])
        BY <1>2, <2>3, <3>2
      <4> HIDE DEF f
      <4>2. QED
        BY <2>2, <4>1 DEF AppendedFrom
    <3>3. QED
      BY <3>1, <3>2
  <2>5. f = [i \in 0 .. n |-> f[i]]
    OBVIOUS
  <2> HIDE DEF f
  <2>6. AppendedFrom(last, n, f)
    BY <2>4, <2>5 DEF AppendedFrom
  <2>7. QED
    BY <1>2, <2>6
<1>5. QED
  BY <1>3, <1>4

LEMMA AppendedIs ==
  ASSUME NEW last, NEW n \in Nat
  PROVE  AppendedFrom(last, n, Appended(last, n))
<1> DEFINE f == Appended(last, n)
<1>1. PICK g : AppendedFrom(last, n, g)
  BY AppendedExists
<1>2. f = CHOOSE h : AppendedFrom(last, n, h)
  BY Zenon DEF Appended, AppendedFrom
<1> HIDE DEF f
<1>3. AppendedFrom(last, n, f)
  BY <1>1, <1>2, Zenon
<1>4. QED
  BY <1>3 DEF f

\* ... and its values are keys, up to where they run out.
LEMMA AppendedType ==
  ASSUME NEW last \in Rank \cup {None}, NEW n \in Nat
  PROVE  \A i \in 1 .. n : Appended(last, n)[i] \in Rank \cup {None}
<1> DEFINE f == Appended(last, n)
<1>1. AppendedFrom(last, n, f)
  BY AppendedIs
<1> HIDE DEF f
<1> DEFINE Bad == {i \in 0 .. n : f[i] \notin Rank \cup {None}}
<1>2. SUFFICES ASSUME Bad # {} PROVE FALSE
  BY DEF f
<1>3. PICK i \in Bad : \A j \in Bad : i <= j
  <2>1. Bad \subseteq Nat
    OBVIOUS
  <2>2. QED
    BY <1>2, <2>1, LeastNat
<1>4. i # 0
  BY <1>1, <1>3 DEF AppendedFrom
<1>5. i - 1 \in 0 .. n /\ i - 1 \notin Bad
  BY <1>3, <1>4
<1>6. f[i - 1] \in Rank \cup {None}
  BY <1>5
<1>7. f[i] = IF i > 1 /\ f[i - 1] = None THEN None
             ELSE IF CanAppend(f[i - 1]) THEN AppendRank(f[i - 1]) ELSE None
  BY <1>1, <1>3, <1>4 DEF AppendedFrom
<1>8. CanAppend(f[i - 1]) => AppendRank(f[i - 1]) \in Rank
  BY <1>6, Appending
<1>9. f[i] \in Rank \cup {None}
  BY <1>7, <1>8
<1>10. QED
  BY <1>3, <1>9

-----------------------------------------------------------------------------
\* A shelf with books has a last one.
LEMMA LastExists ==
  ASSUME KeysUnique, LiveRanks, NEW s, On(s) # {}
  PROVE  \E b \in On(s) : \A c \in On(s) \ {b} : Less(books[c].rank, books[b].rank)
<1> DEFINE key == [b \in BookIds |-> books[b].rank]
<1>1. On(s) \subseteq 1 .. MaxBooks /\ MaxBooks \in Nat
  BY BookshelfAssumption DEF On, BookIds
<1>2. \A b \in On(s) : key[b] = books[b].rank /\ key[b] \in Rank
  BY DEF On, LiveRanks
<1>3. \A b \in On(s) : \A c \in On(s) \ {b} : key[b] # key[c]
  BY <1>2 DEF KeysUnique, On
<1> HIDE DEF key
<1>4. \E b \in On(s) : \A c \in On(s) \ {b} : Less(key[c], key[b])
  BY <1>1, <1>2, <1>3, GreatestKey
<1>5. QED
  BY <1>2, <1>4

\* The request has no older copy of a book of the shelf.
SeesAsStored(r, s) == \A b \in On(s) : Seen(r, b) = books[b].rank

LEMMA NothingLoaded ==
  ASSUME NEW r, NEW s, req[r].row = NoRow
  PROVE  SeesAsStored(r, s)
BY DEF SeesAsStored, Seen

\* LastRank really is the last of the keys of the shelf.
LEMMA LastRankIsLast ==
  ASSUME KeysUnique, LiveRanks, NEW r \in Requests, NEW s, SeesAsStored(r, s)
  PROVE  \/ On(s) = {} /\ LastRank(r, s) = None
         \/ \E b \in On(s) : /\ LastRank(r, s) = books[b].rank
                             /\ \A c \in On(s) \ {b} : Less(books[c].rank, LastRank(r, s))
<1>1. CASE On(s) = {}
  BY <1>1 DEF LastRank
<1>2. CASE On(s) # {}
  <2> DEFINE last == CHOOSE b \in On(s) : \A c \in On(s) \ {b} : Less(books[c].rank, books[b].rank)
  <2>1. last \in On(s) /\ \A c \in On(s) \ {last} : Less(books[c].rank, books[last].rank)
    BY <1>2, LastExists
  <2>2. LastRank(r, s) = books[last].rank
    <3>1. LastRank(r, s) = Seen(r, last)
      BY <1>2 DEF LastRank
    <3> HIDE DEF last
    <3>2. QED
      BY <2>1, <3>1 DEF SeesAsStored
  <2> HIDE DEF last
  <2>3. QED
    BY <2>1, <2>2
<1>3. QED
  BY <1>1, <1>2

\* delete_shelf reads it too, and has loaded no book before.
LEMMA LastRankOfAny ==
  ASSUME KeysUnique, LiveRanks, NEW r \in Requests, NEW s, SeesAsStored(r, s)
  PROVE  LastRank(r, s) \in Rank \cup {None}
BY LastRankIsLast DEF On, LiveRanks

\* So that what create_book appends follows every book of the shelf.
LEMMA AppendedIsLast ==
  ASSUME KeysUnique, LiveRanks, NEW r \in Requests, NEW s, SeesAsStored(r, s),
         CanAppend(LastRank(r, s))
  PROVE  /\ AppendRank(LastRank(r, s)) \in Rank
         /\ \A b \in On(s) : Less(books[b].rank, AppendRank(LastRank(r, s)))
<1>1. CASE On(s) = {} /\ LastRank(r, s) = None
  BY <1>1, Appending
<1>2. ASSUME NEW b \in On(s), LastRank(r, s) = books[b].rank,
             \A c \in On(s) \ {b} : Less(books[c].rank, LastRank(r, s))
      PROVE  /\ AppendRank(LastRank(r, s)) \in Rank
             /\ \A c \in On(s) : Less(books[c].rank, AppendRank(LastRank(r, s)))
  <2> DEFINE last == LastRank(r, s)
             new == AppendRank(last)
  <2>1. last \in Rank /\ last # None /\ \A c \in On(s) : books[c].rank \in Rank
    BY <1>2, RankType DEF On, LiveRanks
  <2>2. new \in Rank /\ Less(last, new)
    BY <2>1, Appending
  <2>3. ASSUME NEW c \in On(s) \ {b} PROVE Less(books[c].rank, new)
    <3>1. Less(books[c].rank, last)
      BY <1>2
    <3> HIDE DEF last, new
    <3>2. QED
      BY <2>1, <2>2, <3>1, LessTransitive
  <2>4. QED
    BY <1>2, <2>2, <2>3
<1>3. QED
  BY <1>1, <1>2, LastRankIsLast
-----------------------------------------------------------------------------
\* A book of a shelf has a position among its books.
LEMMA PositionType ==
  ASSUME LiveRanks, NEW s, NEW b \in On(s)
  PROVE  /\ Cardinality(On(s)) \in Nat
         /\ Position(b, On(s)) \in 1 .. Cardinality(On(s))
<1> DEFINE before == {c \in On(s) : Less(books[c].rank, books[b].rank)}
<1>1. IsFiniteSet(On(s))
  <2>1. IsFiniteSet(1 .. MaxBooks) /\ On(s) \subseteq 1 .. MaxBooks
    BY FS_Interval, BookshelfAssumption DEF On, BookIds
  <2>2. QED
    BY <2>1, FS_Subset
<1>2. before \subseteq On(s) \ {b}
  BY LessIrreflexive DEF On, LiveRanks
<1>3. IsFiniteSet(On(s) \ {b}) /\ Cardinality(On(s) \ {b}) = Cardinality(On(s)) - 1
  BY <1>1, FS_RemoveElement
<1>4. IsFiniteSet(before) /\ Cardinality(before) <= Cardinality(On(s)) - 1
  BY <1>2, <1>3, FS_Subset
<1>5. Cardinality(before) \in Nat /\ Cardinality(On(s)) \in Nat
  BY <1>1, <1>4, FS_CardinalityType
<1>6. QED
  BY <1>4, <1>5 DEF Position

LEMMA LoadPlan ==
  ASSUME Registering, Types, NEW r \in Requests, Load(r)
  PROVE  PlanOK(req'[r])
<1>1. CASE CreateBook(r)
  <2>1. PICK s, i :
          /\ "create_book" \in Kinds
          /\ req' = [req EXCEPT ![r] = [[Idle EXCEPT 
                  !.pc = IF s = NoShelf THEN NextPC ELSE "loaded",
                  !.shelf = IF s = NoShelf THEN default ELSE s, !.isbn = i] 
                EXCEPT !.kind = "create_book"]]
    BY <1>1 DEF CreateBook, Begin
  <2>2. /\ req'[r].kind = "create_book" /\ req'[r].row = NoRow /\ req'[r].book = NewBook
        /\ req'[r].pc \in {"loaded", "make_default"}
    BY <2>1 DEF Types, Idle, NextPC
  <2>3. QED
    BY <2>1, <2>2 DEF PlanOK
<1>2. CASE ~ CreateBook(r)
  <2>1. GetShelves(r) \/ DeleteShelf(r)
    BY <1>2 DEF Load, MoveBookShelf, ReorderBook, Begin, Registering
  <2>2. req'[r].kind \in Kinds
    BY <2>1 DEF GetShelves, DeleteShelf, Begin, Types, Idle
  <2>3. req'[r].kind \in {"get_shelves", "delete_shelf"}
    BY <2>1 DEF GetShelves, DeleteShelf, Begin, Types, Idle
  <2>4. /\ req'[r].pc \in {"loaded", "make_default"}
        /\ req'[r].row = NoRow /\ req'[r].book = NewBook
    <3>1. CASE GetShelves(r)
      BY <3>1 DEF GetShelves, Begin, Types, Idle
    <3>2. CASE DeleteShelf(r)
      BY <3>2 DEF DeleteShelf, Begin, Types, Idle, NextPC
    <3>3. QED
      BY <2>1, <3>1, <3>2
  <2>5. QED
    BY <2>2, <2>3, <2>4 DEF PlanOK
<1>3. QED
  BY <1>1, <1>2

LEMMA MakeDefaultPlan ==
  ASSUME Types, NEW r \in Requests, PlanOK(req[r]), MakeDefault(r)
  PROVE  PlanOK(req'[r])
<1>1. \/ req'[r] = Idle
      \/ req'[r] = [req[r] EXCEPT !.pc = "loaded"]
      \/ req'[r] = [req[r] EXCEPT !.pc = "loaded", !.shelf = default']
  BY DEF MakeDefault, Types
<1>2. QED
  BY <1>1, IdleFields DEF PlanOK, Types, Fields

LEMMA PlanAppendPlan ==
  ASSUME Registering, Types, KeysUnique, LiveRanks, NEW r \in Requests, PlanOK(req[r]),
         PlanAppend(r)
  PROVE  /\ PlanOK(req'[r])
         /\ req'[r].pc = "planned" /\ req'[r].kind = "create_book" =>
              \A b \in On(req'[r].shelf) : Less(books[b].rank, req'[r].ranks[NewBook])
<1> DEFINE s == req[r].shelf
           new == AppendRank(LastRank(r, s))
           planned == [req[r] EXCEPT !.pc = "planned", !.row = NoRow,
                         !.ranks = [b \in {req[r].book} |-> Changed(new, req[r].row.rank)],
                         !.to = IF s = req[r].row.shelf THEN NoShelf ELSE s]
<1>1. req[r].kind = "create_book" /\ req[r].row = NoRow /\ req[r].book = NewBook
      /\ "create_book" \in Kinds
  BY DEF PlanAppend, PlanOK, Registering
<1>2. \/ req'[r] = Idle \/ req'[r] = [Idle EXCEPT !.pc = "exhausted"]
      \/ req'[r] = planned /\ CanAppend(LastRank(r, s))
  BY DEF PlanAppend, Types
<1>3. CASE req'[r] = planned /\ CanAppend(LastRank(r, s))
  <2>1. new \in Rank /\ \A b \in On(s) : Less(books[b].rank, new)
    BY <1>1, <1>3, NothingLoaded, AppendedIsLast
  <2> HIDE DEF new
  <2>2. Changed(new, req[r].row.rank) = new
    BY <1>1, <2>1, RankType DEF NoRow, Changed
  <2>3. /\ planned.kind = "create_book" /\ planned.pc = "planned" /\ planned.shelf = s
        /\ planned.row = NoRow /\ planned.book = NewBook /\ planned.ranks[NewBook] = new
    BY <1>1, <2>2 DEF Types, Fields
  <2> HIDE DEF planned
  <2>4. QED
    BY <1>1, <1>3, <2>1, <2>3 DEF PlanOK
<1>4. CASE req'[r] = Idle \/ req'[r] = [Idle EXCEPT !.pc = "exhausted"]
  <2>1. req'[r].kind = "none" /\ req'[r].pc \in {"idle", "exhausted"}
    BY <1>4 DEF Idle
  <2>2. QED
    BY <2>1 DEF PlanOK
<1>5. QED
  BY <1>2, <1>3, <1>4

LEMMA PlanAgainPlan ==
  ASSUME Types, KeysUnique, LiveRanks, NEW r \in Requests, PlanOK(req[r]), PlanAgain(r)
  PROVE  PlanOK(req'[r])
<1> DEFINE last == LastRank(r, req[r].shelf)
           replanned == [req[r] EXCEPT !.pc = "replanned", !.to = req[r].shelf,
                           !.ranks = [b \in {req[r].book} |-> AppendRank(last)]]
<1>1. req[r].kind = "create_book" /\ req[r].row = NoRow /\ req[r].book = NewBook
      /\ "create_book" \in Kinds
  BY DEF PlanAgain, PlanOK
<1>2. \/ req'[r] = [Idle EXCEPT !.pc = "exhausted"]
      \/ req'[r] = replanned /\ CanAppend(last)
  BY DEF PlanAgain, Types
<1>3. CASE req'[r] = replanned /\ CanAppend(last)
  <2>1. AppendRank(last) \in Rank
    BY <1>1, <1>3, NothingLoaded, AppendedIsLast
  <2> HIDE DEF last
  <2>2. /\ replanned.kind = "create_book" /\ replanned.pc = "replanned"
        /\ replanned.row = NoRow /\ replanned.book = NewBook
        /\ replanned.ranks[NewBook] = AppendRank(last)
    BY <1>1 DEF Types, Fields
  <2> HIDE DEF replanned
  <2>3. QED
    BY <1>1, <1>3, <2>1, <2>2 DEF PlanOK
<1>4. CASE req'[r] = [Idle EXCEPT !.pc = "exhausted"]
  <2>1. req'[r].kind = "none" /\ req'[r].pc = "exhausted"
    BY <1>4 DEF Idle
  <2>2. QED
    BY <2>1 DEF PlanOK
<1>5. QED
  BY <1>2, <1>3, <1>4

LEMMA PlanDeleteShelfPlan ==
  ASSUME Types, KeysUnique, LiveRanks, DefaultFound, NEW r \in Requests, PlanOK(req[r]),
         PlanDeleteShelf(r)
  PROVE  PlanOK(req'[r])
<1> DEFINE moved == On(req[r].shelf)
           keys == Appended(LastRank(r, default), Cardinality(moved))
           planned == [req[r] EXCEPT !.pc = "planned", !.to = default,
             !.ranks = [b \in moved |-> Changed(keys[Position(b, moved)], books[b].rank)]]
<1>1. /\ req[r].kind = "delete_shelf" /\ "delete_shelf" \in Kinds /\ default \in ShelfIds
      /\ req[r].row = NoRow /\ req[r].book = NewBook
  BY DEF PlanDeleteShelf, PlanOK, DefaultFound
<1>2. req'[r] = [Idle EXCEPT !.pc = "exhausted"] \/ req'[r] = planned
  BY DEF PlanDeleteShelf, Types
<1>3. LastRank(r, default) \in Rank \cup {None}
  BY <1>1, NothingLoaded, LastRankOfAny DEF PlanOK
<1>4. ASSUME NEW b \in moved PROVE Changed(keys[Position(b, moved)], books[b].rank) \in Rank \cup {None}
  <2>1. Cardinality(moved) \in Nat /\ Position(b, moved) \in 1 .. Cardinality(moved)
    BY PositionType
  <2> HIDE DEF moved
  <2>2. keys[Position(b, moved)] \in Rank \cup {None}
    BY <1>3, <2>1, AppendedType
  <2>3. QED
    BY <2>2 DEF Changed
<1> HIDE DEF keys
<1>5. CASE req'[r] = planned
  <2>1. /\ planned.kind = "delete_shelf" /\ planned.pc = "planned" /\ planned.to = default
        /\ planned.row = NoRow /\ planned.book = NewBook /\ DOMAIN planned.ranks = moved
        /\ \A b \in moved :
             planned.ranks[b] = Changed(keys[Position(b, moved)], books[b].rank)
    BY <1>1 DEF Types, Fields
  <2> HIDE DEF planned, moved
  <2>2. QED
    BY <1>1, <1>4, <1>5, <2>1 DEF PlanOK
<1>6. CASE req'[r] = [Idle EXCEPT !.pc = "exhausted"]
  <2>1. req'[r].kind = "none" /\ req'[r].pc = "exhausted"
    BY <1>6 DEF Idle
  <2>2. QED
    BY <2>1 DEF PlanOK
<1>7. QED
  BY <1>2, <1>5, <1>6

\* The other steps of a request go on with the same plan or end it.
LEMMA OtherPlan ==
  ASSUME Types, NEW r \in Requests, PlanOK(req[r]),
         FlushShelf(r) \/ Refuse(r) \/ CommitInsert(r) \/ CommitUpdate(r) \/ Collision(r)
  PROVE  PlanOK(req'[r])
<1>1. CASE FlushShelf(r)
  <2>1. req'[r] = [req[r] EXCEPT !.pc = "flushing"] /\ req[r].pc = "planned" /\ req[r].kind = "delete_shelf"
    BY <1>1 DEF FlushShelf, Types
  <2>2. QED
    BY <2>1 DEF PlanOK, Types, Fields
<1>2. CASE Refuse(r) \/ CommitInsert(r) \/ CommitUpdate(r)
  BY <1>2, IdleFields DEF Refuse, CommitInsert, CommitUpdate, Done, Types, PlanOK
<1>3. CASE Collision(r)
  <2>1. \/ req'[r] = [Idle EXCEPT !.pc = "failed"]
        \/ /\ req'[r] = [req[r] EXCEPT !.pc = "collided", !.ranks = << >>, !.to = NoShelf]
           /\ req[r].kind \in {"create_book", "move_book_shelf"} /\ req[r].pc = "planned"
    BY <1>3 DEF Collision, Types
  <2>2. CASE req'[r] = [Idle EXCEPT !.pc = "failed"]
    <3>1. req'[r].kind = "none" /\ req'[r].pc = "failed"
      BY <2>2 DEF Idle
    <3>2. QED
      BY <3>1 DEF PlanOK
  <2>3. CASE /\ req'[r] = [req[r] EXCEPT !.pc = "collided", !.ranks = << >>, !.to = NoShelf]
             /\ req[r].kind \in {"create_book", "move_book_shelf"} /\ req[r].pc = "planned"
    <3>1. /\ req'[r].kind = req[r].kind /\ req'[r].pc = "collided"
          /\ req'[r].row = req[r].row /\ req'[r].book = req[r].book
      BY <2>3 DEF Types, Fields
    <3>2. QED
      BY <2>3, <3>1 DEF PlanOK
  <2>4. QED
    BY <2>1, <2>2, <2>3
<1>4. QED
  BY <1>1, <1>2, <1>3

-----------------------------------------------------------------------------
LEMMA BooksStay ==
  ASSUME [Next]_vars
  PROVE  books' = books \/ DeleteBook \/ \E r \in Requests : CommitInsert(r) \/ CommitUpdate(r)
BY DEF Next, vars, CreateShelf, Load, CreateBook, MoveBookShelf, ReorderBook, GetShelves,
   DeleteShelf, Begin, Proceed, MakeDefault, PlanAppend, PlanAgain, PlanReorder,
   PlanDeleteShelf, FlushShelf, Refuse, Collision

LEMMA OtherRequests ==
  ASSUME Types, NEW r \in Requests, Load(r) \/ Proceed(r)
  PROVE  \A q \in Requests \ {r} : req'[q] = req[q]
BY LoadEffect, MakeDefaultEffect, PlanAppendEffect, PlanAgainEffect, PlanReorderEffect,
   PlanDeleteShelfEffect, FlushShelfEffect, RefuseEffect, CommitEffect, CollisionEffect
   DEF Proceed, Effect

\* What a commit writes onto the shelves: an update of delete_shelf brings books only
\* to shelves that no create_book holds.
LEMMA CommittedRanks ==
  ASSUME Types, BookShape, LiveRanks, NEW r \in Requests, PlanOK(req[r]),
         CommitInsert(r) \/ CommitUpdate(r)
  PROVE  LiveRanks'
<1>1. CASE CommitInsert(r)
  <2>1. req[r].ranks[NewBook] \in Rank
    BY <1>1 DEF CommitInsert, Flushing, PlanOK
  <2>2. QED
    BY <1>1, <2>1 DEF CommitInsert, LiveRanks, Live, BookShape
<1>2. CASE CommitUpdate(r)
  <2>1. req[r].kind = "delete_shelf" /\ req[r].pc = "flushing"
    BY <1>2 DEF CommitUpdate, Flushing, PlanOK
  <2>2. \A b \in DOMAIN req[r].ranks : req[r].ranks[b] \in Rank \cup {None}
    BY <2>1 DEF PlanOK
  <2>3. \A b \in BookIds : books'[b] = IF b \in DOMAIN req[r].ranks /\ Live(b)
                                       THEN Written(r, b) ELSE books[b]
    BY <1>2 DEF CommitUpdate
  <2>4. ASSUME NEW b \in BookIds, b \in DOMAIN req[r].ranks, Live(b)
        PROVE  Written(r, b).rank \in Rank
    BY <2>2, <2>4 DEF Written, BookShape, BookFields, LiveRanks
  <2>5. \A b \in BookIds : Live(b)' <=> Live(b)
    BY <2>3, WrittenFields DEF Live
  <2>6. QED
    BY <2>3, <2>4, <2>5 DEF LiveRanks
<1>3. QED
  BY <1>1, <1>2

LEMMA CommittedElsewhere ==
  ASSUME Types, BookShape, LockInv, NEW r \in Requests, PlanOK(req[r]),
         CommitInsert(r) \/ CommitUpdate(r),
         NEW q \in Requests \ {r}, req[q].pc = "planned", req[q].kind = "create_book"
  PROVE  \A b \in On(req[q].shelf)' : b \in On(req[q].shelf) /\ books'[b].rank = books[b].rank
<1> DEFINE s == req[q].shelf
<1>1. locked[s] = q /\ s \in ShelfIds
  BY DEF LockInv, Holds, Active
<1>2. CASE CommitInsert(r)
  <2>1. req[r].shelf # s
    BY <1>1, <1>2 DEF CommitInsert, Flushing, NewShelves
  <2>2. PICK b \in BookIds :
          books' = [books EXCEPT ![b] =
               [state |-> "live", shelf |-> req[r].shelf, rank |-> req[r].ranks[NewBook],
                isbn |-> req[r].isbn]]
    BY <1>2 DEF CommitInsert
  <2>3. \A c \in BookIds : books'[c].shelf = s => books'[c] = books[c]
    BY <2>1, <2>2 DEF BookShape
  <2>4. req'[q].shelf = s
    BY CommitEffect DEF Effect
  <2>5. QED
    BY <2>3, <2>4 DEF On, Live
<1>3. CASE CommitUpdate(r)
  <2>1. req[r].kind = "delete_shelf" /\ req[r].pc = "flushing" /\ req[r].to \in ShelfIds
    BY <1>3 DEF CommitUpdate, Flushing, PlanOK
  <2>2. DOMAIN req[r].ranks # {} => req[r].to # s
    BY <1>1, <1>3, <2>1 DEF CommitUpdate, Flushing, NewShelves
  <2>3. \A b \in BookIds : books'[b] = IF b \in DOMAIN req[r].ranks /\ Live(b)
                                       THEN Written(r, b) ELSE books[b]
    BY <1>3 DEF CommitUpdate
  <2>4. ASSUME NEW b \in BookIds, b \in DOMAIN req[r].ranks PROVE Written(r, b).shelf # s
    <3>1. Written(r, b).shelf = req[r].to
      BY <2>1, BookshelfAssumption DEF Written, BookShape, BookFields
    <3>2. QED
      BY <2>2, <2>4, <3>1
  <2>5. \A c \in BookIds : books'[c].shelf = s => books'[c] = books[c]
    BY <2>3, <2>4
  <2>6. req'[q].shelf = s
    BY CommitEffect DEF Effect
  <2>7. QED
    BY <2>5, <2>6 DEF On, Live
<1>4. QED
  BY <1>2, <1>3

LEMMA RegisterStep ==
  ASSUME Registering, Inv, BookShape, KeysUnique, RegisterInv, [Next]_vars
  PROVE  RegisterInv'
<1> USE DEF Inv, RegisterInv
<1>1. LiveRanks'
  <2>1. CASE books' = books
    BY <2>1 DEF LiveRanks, Live
  <2>2. CASE DeleteBook
    BY <2>2, GoneFields DEF DeleteBook, LiveRanks, Live, BookShape
  <2>3. ASSUME NEW r \in Requests, CommitInsert(r) \/ CommitUpdate(r) PROVE LiveRanks'
    BY <2>3, CommittedRanks
  <2>4. QED
    BY <2>1, <2>2, <2>3, BooksStay
<1>2. \A r \in Requests : PlanOK(req'[r])
  <2>1. CASE UNCHANGED req
    BY <2>1
  <2>2. ASSUME NEW r \in Requests, Load(r) \/ Proceed(r)
        PROVE  /\ PlanOK(req'[r])
               /\ \A q \in Requests \ {r} : req'[q] = req[q]
    <3>1. ~ PlanReorder(r)
      BY DEF PlanReorder, PlanOK, Registering
    <3>2. PlanOK(req'[r])
      BY <2>2, <3>1, LoadPlan, MakeDefaultPlan, PlanAppendPlan, PlanAgainPlan,
         PlanDeleteShelfPlan, OtherPlan DEF Proceed
    <3>3. \A q \in Requests \ {r} : req'[q] = req[q]
      BY <2>2, OtherRequests
    <3>4. QED
      BY <3>2, <3>3
  <2>3. QED
    BY <2>1, <2>2 DEF Next, vars, DeleteBook, CreateShelf
<1>3. DefaultFound'
  <2> SUFFICES ASSUME NEW q \in Requests, req'[q].kind = "delete_shelf", req'[q].pc = "loaded"
               PROVE  default' \in ShelfIds
    BY DEF DefaultFound
  <2>1. CASE req'[q] = req[q]
    BY <2>1, DefaultStays, BookshelfAssumption DEF DefaultFound
  <2>2. CASE Load(q)
    BY <2>2, LoadEffect DEF Effect
  <2>3. CASE MakeDefault(q)
    BY <2>3, MakeDefaultEffect DEF Effect, Types, Shelf, Unused
  <2>4. CASE Proceed(q) /\ ~ MakeDefault(q)
    BY <2>4, PlanAppendEffect, PlanAgainEffect, PlanReorderEffect, PlanDeleteShelfEffect,
       FlushShelfEffect, RefuseEffect, CommitEffect, CollisionEffect DEF Proceed, Effect
  <2>5. QED
    BY <2>1, <2>2, <2>3, <2>4, OtherRequests DEF Next, vars, DeleteBook, CreateShelf
<1>4. CreatedBookIsLast'
  <2> SUFFICES ASSUME NEW q \in Requests, req'[q].kind = "create_book", req'[q].pc = "planned",
                      NEW b \in On(req[q].shelf)'
               PROVE  Less(books'[b].rank, req'[q].ranks[NewBook])
    BY DEF CreatedBookIsLast
  <2>1. CASE req'[q] = req[q] /\ books' = books
    BY <2>1 DEF CreatedBookIsLast, On, Live
  <2>2. CASE DeleteBook
    <3>1. req'[q] = req[q] /\ b \in On(req[q].shelf) /\ books'[b] = books[b]
      BY <2>2, GoneFields DEF DeleteBook, BookShape, On, Live
    <3>2. QED
      BY <3>1 DEF CreatedBookIsLast
  <2>3. ASSUME NEW r \in Requests \ {q}, CommitInsert(r) \/ CommitUpdate(r)
        PROVE  Less(books'[b].rank, req'[q].ranks[NewBook])
    <3>1. req'[q] = req[q]
      BY <2>3, CommitEffect DEF Effect
    <3>2. b \in On(req[q].shelf) /\ books'[b].rank = books[b].rank
      BY <2>3, <3>1, CommittedElsewhere
    <3>3. QED
      BY <3>1, <3>2 DEF CreatedBookIsLast
  <2>4. CASE PlanAppend(q)
    <3>1. books' = books
      BY <2>4 DEF PlanAppend
    <3>2. QED
      BY <2>4, <3>1, PlanAppendPlan DEF On, Live
  <2>5. CASE Load(q) \/ (Proceed(q) /\ ~ PlanAppend(q))
    BY <2>5, LoadEffect, MakeDefaultEffect, PlanAgainEffect, PlanReorderEffect,
       PlanDeleteShelfEffect, FlushShelfEffect, RefuseEffect, CommitEffect, CollisionEffect
       DEF Proceed, Effect
  <2>6. CASE UNCHANGED vars \/ CreateShelf
    BY <2>1, <2>6 DEF vars, CreateShelf
  <2>7. ASSUME NEW r \in Requests \ {q}, Load(r) \/ Proceed(r)
        PROVE  Less(books'[b].rank, req'[q].ranks[NewBook])
    <3>1. CASE CommitInsert(r) \/ CommitUpdate(r)
      BY <2>3, <3>1
    <3>2. CASE ~ (CommitInsert(r) \/ CommitUpdate(r))
      <4>1. books' = books
        BY <2>7, <3>2, LoadEffect, MakeDefaultEffect, PlanAppendEffect, PlanAgainEffect,
           PlanReorderEffect, PlanDeleteShelfEffect, FlushShelfEffect, RefuseEffect,
           CollisionEffect DEF Proceed
      <4>2. QED
        BY <2>1, <2>7, <4>1, OtherRequests
    <3>3. QED
      BY <3>1, <3>2
  <2>8. QED
    BY <2>2, <2>4, <2>5, <2>6, <2>7 DEF Next
<1>5. QED
  BY <1>1, <1>2, <1>3, <1>4

RegInv == Inv /\ BookShape /\ KeysUnique /\ RegisterInv

LEMMA RegInvAlways ==
  ASSUME Registering
  PROVE  Spec => []RegInv
<1>1. Init => RegInv
  <2> SUFFICES ASSUME Init PROVE RegInv
    OBVIOUS
  <2>1. \A b \in BookIds : books[b] = Gone("none")
    BY DEF Init
  <2>2. \A r \in Requests : req[r] = Idle
    BY DEF Init
  <2>3. BookShape /\ KeysUnique /\ LiveRanks
    BY <2>1, GoneFields DEF Init, BookShape, KeysUnique, LiveRanks, Live
  <2>4. \A r \in Requests : PlanOK(req[r])
    BY <2>2, IdleFields DEF PlanOK
  <2>5. DefaultFound /\ CreatedBookIsLast
    BY <2>2, IdleFields DEF DefaultFound, CreatedBookIsLast
  <2>6. QED
    BY <2>3, <2>4, <2>5, InitTypes DEF RegInv, Inv, RegisterInv
<1>2. RegInv /\ [Next]_vars => RegInv'
  BY InvStep, BookShapeStep, KeysUniqueStep, RegisterStep DEF RegInv
<1>3. QED
  BY <1>1, <1>2, PTL DEF Spec

\* The key create_book has computed under the shelf's lock follows those of all the
\* books of the shelf until it is committed.
THEOREM CreatedIsLast ==
  ASSUME Registering
  PROVE  Spec => []CreatedBookIsLast
<1>1. RegInv => CreatedBookIsLast
  BY DEF RegInv, RegisterInv
<1>2. QED
  BY <1>1, RegInvAlways, PTL

\* The key of a first INSERT is on no book of its shelf.
LEMMA FirstInsertCollides ==
  ASSUME RegisterInv, NEW r \in Requests, req[r].kind = "create_book", req[r].pc = "planned",
         InsertCollides(r)
  PROVE  Registered(req[r].isbn)
<1>1. \A c \in On(req[r].shelf) : books[c].rank # req[r].ranks[NewBook]
  <2>1. req[r].ranks[NewBook] \in Rank
    BY DEF RegisterInv, PlanOK
  <2>2. \A c \in On(req[r].shelf) : Less(books[c].rank, req[r].ranks[NewBook])
    BY DEF RegisterInv, CreatedBookIsLast
  <2>3. QED
    BY <2>1, <2>2, LessIrreflexive
<1>2. QED
  BY <1>1 DEF InsertCollides

\* So the first INSERT of create_book fails on its ISBN only: the retry is never for
\* what it was written for.
THEOREM OnlyIsbnsDo ==
  ASSUME Registering
  PROVE  Spec => OnlyIsbnsCollide
<1>1. RegInv /\ [Next]_vars =>
        [\A r \in Requests :
           req[r].kind = "create_book" /\ req[r].pc = "planned" /\ req'[r].pc = "collided"
           => Registered(req[r].isbn)]_vars
  <2> SUFFICES ASSUME RegInv, [Next]_vars, NEW r \in Requests, req[r].kind = "create_book",
                      req[r].pc = "planned", req'[r].pc = "collided"
               PROVE  Registered(req[r].isbn)
    OBVIOUS
  <2> USE DEF RegInv, Inv
  <2>1. Collision(r)
    <3>1. req'[r] # req[r]
      OBVIOUS
    <3>2. Load(r) \/ Proceed(r)
      BY <3>1, OtherRequests DEF Next, vars, DeleteBook, CreateShelf
    <3>3. QED
      BY <3>2, LoadEffect, MakeDefaultEffect, PlanAppendEffect, PlanAgainEffect,
         PlanReorderEffect, PlanDeleteShelfEffect, FlushShelfEffect, RefuseEffect, CommitEffect
         DEF Proceed, Effect
  <2>2. QED
    BY <2>1, FirstInsertCollides DEF Collision, Collides
<1>2. QED
  BY <1>1, RegInvAlways, PTL DEF Spec, OnlyIsbnsCollide

-----------------------------------------------------------------------------
(* The books of a shelf in the order of their keys: a sequence of the books *)
(* of which each key comes after the one before is the sequence that Sorted *)
(* picks place by place.                                                    *)

EarlierThan(key, b, S) == {c \in S : Less(key[c], key[b])}

PlaceOf(key, b, S) == 1 + Cardinality(EarlierThan(key, b, S))

InOrder(key, S) == [i \in 1 .. Cardinality(S) |-> CHOOSE b \in S : PlaceOf(key, b, S) = i]

\* Different books have different keys.
Keyed(key, S) ==
  /\ IsFiniteSet(S)
  /\ \A b \in S : key[b] \in Rank
  /\ \A b, c \in S : key[b] = key[c] => b = c

ListOf(q, S) == q \in Seq(S) /\ \A b \in S : \E i \in 1 .. Len(q) : q[i] = b

Increasing(key, q) ==
  \A i, j \in 1 .. Len(q) : i < j => Less(key[q[i]], key[q[j]])

LEMMA NotBoth ==
  ASSUME NEW a \in Rank, NEW b \in Rank, Less(a, b)
  PROVE  ~ Less(b, a) /\ a # b
BY LessTransitive, LessIrreflexive

LEMMA InOrderIs ==
  ASSUME NEW S, NEW key, \A b \in S : key[b] \in Rank,
         NEW q, ListOf(q, S), Increasing(key, q)
  PROVE  /\ IsFiniteSet(S) /\ Cardinality(S) = Len(q)
         /\ \A i \in 1 .. Len(q) : PlaceOf(key, q[i], S) = i
         /\ InOrder(key, S) = q
<1> DEFINE n == Len(q)
<1>1. /\ n \in Nat
      /\ \A i \in 1 .. n : q[i] \in S
      /\ \A b \in S : \E i \in 1 .. n : q[i] = b
      /\ \A i, j \in 1 .. n : i < j => Less(key[q[i]], key[q[j]])
      /\ q = [i \in 1 .. n |-> q[i]]
  BY DEF ListOf, Increasing
<1> HIDE DEF n
<1>2. ASSUME NEW i \in 1 .. n, NEW j \in 1 .. n
      PROVE  /\ q[i] = q[j] => i = j
             /\ Less(key[q[i]], key[q[j]]) <=> i < j
  <2>1. key[q[i]] \in Rank /\ key[q[j]] \in Rank
    BY <1>1
  <2>2. i < j \/ i = j \/ j < i
    OBVIOUS
  <2>3. /\ i < j => Less(key[q[i]], key[q[j]])
        /\ j < i => Less(key[q[j]], key[q[i]])
    BY <1>1
  <2>4. QED
    BY <2>1, <2>2, <2>3, NotBoth, LessIrreflexive
<1>3. ExistsBijection(1 .. n, S)
  <2> DEFINE f == [i \in 1 .. n |-> q[i]]
  <2>1. f \in Bijection(1 .. n, S)
    BY <1>1, <1>2 DEF Bijection, Injection, IsInjective, Surjection
  <2>2. QED
    BY <2>1 DEF ExistsBijection
<1>4. Cardinality(S) = n
  BY <1>1, <1>3, FS_CountingElements
<1>5. IsFiniteSet(S)
  BY <1>1, <1>3, FS_NatBijection
<1>6. ASSUME NEW i \in 1 .. n PROVE PlaceOf(key, q[i], S) = i
  <2> DEFINE E == EarlierThan(key, q[i], S)
             f == [j \in 1 .. i - 1 |-> q[j]]
  <2>1. \A j \in 1 .. i - 1 : j \in 1 .. n /\ q[j] \in E
    BY <1>1, <1>2 DEF EarlierThan
  <2>2. ASSUME NEW b \in E PROVE \E j \in 1 .. i - 1 : q[j] = b
    <3>1. PICK j \in 1 .. n : q[j] = b
      BY <1>1 DEF EarlierThan
    <3>2. j < i
      BY <1>2, <3>1 DEF EarlierThan
    <3>3. QED
      BY <3>1, <3>2
  <2>3. f \in Bijection(1 .. i - 1, E)
    BY <1>2, <2>1, <2>2 DEF Bijection, Injection, IsInjective, Surjection
  <2>4. ExistsBijection(1 .. i - 1, E) /\ i - 1 \in Nat
    BY <1>1, <2>3 DEF ExistsBijection
  <2> HIDE DEF E
  <2>5. Cardinality(E) = i - 1
    BY <2>4, FS_CountingElements
  <2>6. QED
    BY <1>1, <2>5 DEF PlaceOf, E
<1>7. ASSUME NEW i \in 1 .. n PROVE (CHOOSE b \in S : PlaceOf(key, b, S) = i) = q[i]
  <2>1. q[i] \in S /\ PlaceOf(key, q[i], S) = i
    BY <1>1, <1>6
  <2>2. \A b \in S : PlaceOf(key, b, S) = i => b = q[i]
    BY <1>1, <1>6
  <2>3. QED
    BY <2>1, <2>2
<1>8. InOrder(key, S) = q
  BY <1>1, <1>4, <1>7 DEF InOrder
<1>9. QED
  BY <1>4, <1>5, <1>6, <1>8 DEF n

LEMMA PlaceGrows ==
  ASSUME NEW S, NEW key, Keyed(key, S), NEW b \in S
  PROVE  /\ PlaceOf(key, b, S) \in 1 .. Cardinality(S)
         /\ \A c \in S : Less(key[b], key[c]) => PlaceOf(key, b, S) < PlaceOf(key, c, S)
<1> DEFINE E(c) == EarlierThan(key, c, S)
<1>1. \A c \in S : IsFiniteSet(E(c)) /\ Cardinality(E(c)) \in Nat
  <2>1. \A c \in S : E(c) \in SUBSET S
    BY DEF EarlierThan
  <2>2. QED
    BY <2>1, FS_Subset, FS_CardinalityType DEF Keyed
<1>2. /\ IsFiniteSet(S \ {b}) /\ Cardinality(S \ {b}) = Cardinality(S) - 1
      /\ Cardinality(S) \in Nat
  BY FS_RemoveElement, FS_CardinalityType DEF Keyed
<1>3. E(b) \in SUBSET (S \ {b})
  BY LessIrreflexive DEF EarlierThan, Keyed
<1>4. Cardinality(E(b)) <= Cardinality(S) - 1
  BY <1>2, <1>3, FS_Subset
<1>5. ASSUME NEW c \in S, Less(key[b], key[c]) PROVE Cardinality(E(b)) < Cardinality(E(c))
  <2>1. b \in E(c)
    BY <1>5 DEF EarlierThan
  <2>2. E(b) \in SUBSET (E(c) \ {b})
    BY <1>5, LessTransitive, LessIrreflexive DEF EarlierThan, Keyed
  <2>3. IsFiniteSet(E(c) \ {b}) /\ Cardinality(E(c) \ {b}) = Cardinality(E(c)) - 1
    BY <1>1, <2>1, FS_RemoveElement
  <2> HIDE DEF E
  <2>4. Cardinality(E(b)) <= Cardinality(E(c)) - 1
    BY <2>2, <2>3, FS_Subset
  <2>5. QED
    BY <1>1, <2>4
<1> HIDE DEF E
<1>6. \A c \in S : PlaceOf(key, c, S) = 1 + Cardinality(E(c))
  BY DEF PlaceOf, E
<1>7. QED
  BY <1>1, <1>2, <1>4, <1>5, <1>6

LEMMA InOrderLists ==
  ASSUME NEW S, NEW key, Keyed(key, S)
  PROVE  /\ Cardinality(S) \in Nat
         /\ Len(InOrder(key, S)) = Cardinality(S)
         /\ ListOf(InOrder(key, S), S)
         /\ Increasing(key, InOrder(key, S))
         /\ \A i \in 1 .. Cardinality(S) : PlaceOf(key, InOrder(key, S)[i], S) = i
<1> DEFINE n == Cardinality(S)
           place == [b \in S |-> PlaceOf(key, b, S)]
<1>1. n \in Nat
  BY FS_CardinalityType DEF Keyed
<1>2. \A b \in S : place[b] \in 1 .. n
  BY PlaceGrows
<1>3. \A b, c \in S : Less(key[b], key[c]) => place[b] < place[c]
  BY PlaceGrows
<1>4. \A b, c \in S : place[b] = place[c] => b = c
  <2> SUFFICES ASSUME NEW b \in S, NEW c \in S, place[b] = place[c], b # c PROVE FALSE
    OBVIOUS
  <2>1. key[b] \in Rank /\ key[c] \in Rank /\ key[b] # key[c]
    BY DEF Keyed
  <2>2. Less(key[b], key[c]) \/ Less(key[c], key[b])
    BY <2>1, LessTotal
  <2>3. place[b] \in Int /\ place[c] \in Int
    BY <1>1, <1>2
  <2> HIDE DEF place
  <2>4. QED
    BY <1>3, <2>2, <2>3
<1>5. \A i \in 1 .. n : \E b \in S : place[b] = i
  <2>1. place \in Injection(S, 1 .. n)
    BY <1>2, <1>4 DEF Injection, IsInjective
  <2>2. IsFiniteSet(1 .. n) /\ Cardinality(1 .. n) = n
    BY <1>1, FS_Interval
  <2> HIDE DEF place
  <2>3. place \in Surjection(S, 1 .. n)
    BY <2>1, <2>2, FS_Injection DEF n
  <2>4. QED
    BY <2>3 DEF Surjection
<1> DEFINE q == InOrder(key, S)
<1>6. \A i \in 1 .. n : q[i] \in S /\ place[q[i]] = i
  <2> SUFFICES ASSUME NEW i \in 1 .. n PROVE q[i] \in S /\ place[q[i]] = i
    OBVIOUS
  <2>1. \E b \in S : PlaceOf(key, b, S) = i
    BY <1>5
  <2>2. q[i] = CHOOSE b \in S : PlaceOf(key, b, S) = i
    BY DEF InOrder
  <2>3. q[i] \in S /\ PlaceOf(key, q[i], S) = i
    BY <2>1, <2>2
  <2>4. QED
    BY <2>3
<1>7. q \in Seq(S) /\ Len(q) = n
  <2>1. q = [i \in 1 .. n |-> q[i]]
    BY DEF InOrder
  <2>2. \A i \in 1 .. n : q[i] \in S
    BY <1>6
  <2> HIDE DEF q, n
  <2>3. QED
    BY <1>1, <2>1, <2>2
<1>8. \A b \in S : q[place[b]] = b
  BY <1>2, <1>4, <1>6
<1>9. \A i, j \in 1 .. n : i < j => Less(key[q[i]], key[q[j]])
  <2> SUFFICES ASSUME NEW i \in 1 .. n, NEW j \in 1 .. n, i < j PROVE Less(key[q[i]], key[q[j]])
    OBVIOUS
  <2>1. q[i] \in S /\ q[j] \in S /\ place[q[i]] = i /\ place[q[j]] = j
    BY <1>6
  <2>2. key[q[i]] \in Rank /\ key[q[j]] \in Rank
    BY <2>1 DEF Keyed
  <2>3. key[q[i]] # key[q[j]]
    BY <2>1 DEF Keyed
  <2> HIDE DEF q, place
  <2>4. ~ Less(key[q[j]], key[q[i]])
    BY <1>1, <1>3, <2>1
  <2>5. QED
    BY <2>2, <2>3, <2>4, LessTotal
<1>10. \A i \in 1 .. n : PlaceOf(key, q[i], S) = i
  BY <1>6
<1>11. \A b \in S : \E i \in 1 .. n : q[i] = b
  BY <1>2, <1>8
<1> HIDE DEF q, n
<1>12. ListOf(q, S) /\ Increasing(key, q)
  BY <1>7, <1>9, <1>11 DEF ListOf, Increasing
<1>13. QED
  BY <1>1, <1>7, <1>10, <1>12 DEF q, n

RankOf == [b \in BookIds |-> books[b].rank]

LEMMA SortedInOrder ==
  ASSUME NEW S, S \subseteq BookIds
  PROVE  /\ \A b \in S : Position(b, S) = PlaceOf(RankOf, b, S)
         /\ Sorted(S) = InOrder(RankOf, S)
<1>1. ASSUME NEW b \in S PROVE Position(b, S) = PlaceOf(RankOf, b, S)
  <2>1. {c \in S : Less(books[c].rank, books[b].rank)} = EarlierThan(RankOf, b, S)
    BY DEF EarlierThan, RankOf
  <2>2. QED
    BY <2>1 DEF Position, PlaceOf
<1>2. ASSUME NEW i \in 1 .. Cardinality(S)
      PROVE  (CHOOSE b \in S : Position(b, S) = i) = CHOOSE b \in S : PlaceOf(RankOf, b, S) = i
  BY <1>1
<1>3. QED
  BY <1>1, <1>2 DEF Sorted, InOrder

LEMMA ShelfIsKeyed ==
  ASSUME KeysUnique, LiveRanks, NEW s, NEW S, S \subseteq On(s)
  PROVE  S \subseteq BookIds /\ Keyed(RankOf, S)
<1>1. On(s) \subseteq 1 .. MaxBooks /\ IsFiniteSet(1 .. MaxBooks) /\ BookIds = 1 .. MaxBooks
  BY FS_Interval, BookshelfAssumption DEF On, BookIds
<1>2. IsFiniteSet(S)
  BY <1>1, FS_Subset
<1>3. S \subseteq BookIds
  BY <1>1
<1>4. \A b \in S : RankOf[b] = books[b].rank /\ RankOf[b] \in Rank
  BY DEF RankOf, LiveRanks, On
<1>5. ASSUME NEW b \in S, NEW c \in S, RankOf[b] = RankOf[c] PROVE b = c
  BY <1>4, <1>5 DEF KeysUnique, On
<1>6. QED
  BY <1>2, <1>3, <1>4, <1>5 DEF Keyed

-----------------------------------------------------------------------------
(* The types, whatever the requests do.                                     *)

\* What the types of a request leave open.
PlanTyped(q) ==
  /\ q.kind = "create_book" => q.row = NoRow /\ q.book = NewBook
  /\ q.kind = "create_book" /\ q.pc \in {"planned", "replanned"} =>
       NewBook \in DOMAIN q.ranks /\ q.ranks[NewBook] \in Rank
  /\ q.kind = "reorder_book" /\ q.pc = "loaded" => q.book \in BookIds

RequestOK(q) == IsRequest(q) /\ PlanTyped(q)

RowsOK ==
  /\ books \in [BookIds -> [state : {"none", "live", "deleted"}, shelf : Shelf, rank : Keys,
                            isbn  : Isbns \cup {NoIsbn}]]
  /\ \A b \in BookIds : Live(b) => books[b].shelf \in ShelfIds /\ books[b].rank \in Rank

LEMMA IdleOK ==
  /\ RequestOK(Idle)
  /\ \A pc \in {"failed", "exhausted"} : RequestOK([Idle EXCEPT !.pc = pc])
<1>1. /\ NoRow \in [shelf : Shelf, rank : Keys] /\ NoShelf \in Shelf
      /\ DOMAIN << >> = {}
  BY DEF NoRow, Shelf, Keys
<1>2. ASSUME NEW q, \/ q = Idle
                    \/ \E pc \in {"failed", "exhausted"} : q = [Idle EXCEPT !.pc = pc]
      PROVE  RequestOK(q)
  <2>1. /\ DOMAIN q = DOMAIN Idle
        /\ q.pc \in {"idle", "failed", "exhausted"} /\ q.kind = "none" /\ q.book = NewBook
        /\ q.shelf = NoShelf /\ q.pivot = NewBook /\ q.side = "none" /\ q.isbn = NoIsbn
        /\ q.row = NoRow /\ q.ranks = << >> /\ q.to = NoShelf
    BY <1>2 DEF Idle
  <2>2. IsRequest(q)
    BY <1>1, <2>1 DEF IsRequest
  <2>3. PlanTyped(q)
    BY <2>1 DEF PlanTyped
  <2>4. QED
    BY <2>2, <2>3 DEF RequestOK
<1>3. QED
  BY <1>2

\* What a handler begins with.
LEMMA BegunOK ==
  ASSUME NEW q, DOMAIN q = DOMAIN Idle,
         q.pc \in {"loaded", "make_default"}, q.kind \in AllKinds,
         q.side \in {"before", "after", "none"}, {q.book, q.pivot} \subseteq BookIds \cup {NewBook},
         q.shelf \in Shelf, q.isbn \in Isbns \cup {NoIsbn}, q.row \in [shelf : Shelf, rank : Keys],
         q.ranks = << >>, q.to = NoShelf,
         q.kind = "create_book" => q.row = NoRow /\ q.book = NewBook,
         q.kind = "reorder_book" => q.book \in BookIds
  PROVE  RequestOK(q)
<1>1. q.to \in Shelf /\ DOMAIN q.ranks = {}
  BY DEF Shelf
<1>2. IsRequest(q)
  BY <1>1 DEF IsRequest
<1>3. PlanTyped(q)
  BY DEF PlanTyped
<1>4. QED
  BY <1>2, <1>3 DEF RequestOK

LEMMA LoadOK ==
  ASSUME RowsOK, Types, NEW r \in Requests, Load(r)
  PROVE  RequestOK(req'[r])
<1>1. /\ NoRow \in [shelf : Shelf, rank : Keys] /\ NoShelf \in Shelf /\ default \in Shelf
      /\ ShelfIds \subseteq Shelf
  BY DEF NoRow, Shelf, Keys, Types
<1>2. NextPC \in {"loaded", "make_default"}
  BY DEF NextPC
<1>3. CASE CreateBook(r)
  <2>1. PICK s \in ShelfIds \cup {NoShelf}, i \in Isbns \cup {NoIsbn} :
          req' = [req EXCEPT ![r] = [[Idle EXCEPT
                  !.pc = IF s = NoShelf THEN NextPC ELSE "loaded",
                  !.shelf = IF s = NoShelf THEN default ELSE s, !.isbn = i]
                EXCEPT !.kind = "create_book"]]
    BY <1>3 DEF CreateBook, Begin
  <2> DEFINE q == req'[r]
  <2>2. /\ DOMAIN q = DOMAIN Idle /\ q.pc \in {"loaded", "make_default"} /\ q.kind = "create_book"
        /\ q.side = "none" /\ q.book = NewBook /\ q.pivot = NewBook
        /\ q.shelf \in Shelf /\ q.isbn = i /\ q.row = NoRow /\ q.ranks = << >> /\ q.to = NoShelf
    BY <1>1, <1>2, <2>1 DEF Types, Idle
  <2> HIDE DEF q
  <2>3. RequestOK(q)
    BY <1>1, <2>2, BegunOK DEF AllKinds
  <2>4. QED
    BY <2>3 DEF q
<1>4. CASE MoveBookShelf(r)
  <2>1. PICK b \in BookIds, s \in ShelfIds \ Unused :
          req' = [req EXCEPT ![r] = [[Idle EXCEPT !.pc = "loaded", !.book = b, !.shelf = s,
                                      !.row = Row(b)] EXCEPT !.kind = "move_book_shelf"]]
    BY <1>4 DEF MoveBookShelf, Begin
  <2>2. Row(b) \in [shelf : Shelf, rank : Keys] /\ s \in Shelf
    BY <1>1 DEF Row, RowsOK
  <2> DEFINE q == req'[r]
  <2>3. /\ DOMAIN q = DOMAIN Idle /\ q.pc = "loaded" /\ q.kind = "move_book_shelf"
        /\ q.side = "none" /\ q.book = b /\ q.pivot = NewBook
        /\ q.shelf = s /\ q.isbn = NoIsbn /\ q.row = Row(b) /\ q.ranks = << >> /\ q.to = NoShelf
    BY <2>1 DEF Types, Idle
  <2> HIDE DEF q
  <2>4. RequestOK(q)
    BY <2>2, <2>3, BegunOK DEF AllKinds
  <2>5. QED
    BY <2>4 DEF q
<1>5. CASE ReorderBook(r)
  <2>1. PICK b \in BookIds, pivot \in BookIds, side \in {"before", "after"} :
          req' = [req EXCEPT ![r] = [[Idle EXCEPT !.pc = "loaded", !.book = b, !.shelf = books[b].shelf,
                                      !.pivot = pivot, !.side = side, !.row = Row(b)]
                                     EXCEPT !.kind = "reorder_book"]]
    BY <1>5 DEF ReorderBook, Begin
  <2>2. Row(b) \in [shelf : Shelf, rank : Keys] /\ books[b].shelf \in Shelf
    BY DEF Row, RowsOK
  <2> DEFINE q == req'[r]
  <2>3. /\ DOMAIN q = DOMAIN Idle /\ q.pc = "loaded" /\ q.kind = "reorder_book"
        /\ q.side = side /\ q.book = b /\ q.pivot = pivot /\ q.shelf = books[b].shelf
        /\ q.isbn = NoIsbn /\ q.row = Row(b) /\ q.ranks = << >> /\ q.to = NoShelf
    BY <2>1 DEF Types, Idle
  <2> HIDE DEF q
  <2>4. RequestOK(q)
    BY <2>2, <2>3, BegunOK DEF AllKinds
  <2>5. QED
    BY <2>4 DEF q
<1>6. CASE GetShelves(r)
  <2>1. req' = [req EXCEPT ![r] = [[Idle EXCEPT !.pc = "make_default"] EXCEPT !.kind = "get_shelves"]]
    BY <1>6 DEF GetShelves, Begin
  <2> DEFINE q == req'[r]
  <2>2. /\ DOMAIN q = DOMAIN Idle /\ q.pc = "make_default" /\ q.kind = "get_shelves"
        /\ q.side = "none" /\ q.book = NewBook /\ q.pivot = NewBook
        /\ q.shelf = NoShelf /\ q.isbn = NoIsbn /\ q.row = NoRow /\ q.ranks = << >> /\ q.to = NoShelf
    BY <2>1 DEF Types, Idle
  <2> HIDE DEF q
  <2>3. RequestOK(q)
    BY <1>1, <2>2, BegunOK DEF AllKinds
  <2>4. QED
    BY <2>3 DEF q
<1>7. CASE DeleteShelf(r)
  <2>1. PICK s \in ShelfIds :
          req' = [req EXCEPT ![r] = [[Idle EXCEPT !.pc = NextPC, !.shelf = s]
                                     EXCEPT !.kind = "delete_shelf"]]
    BY <1>7 DEF DeleteShelf, Begin
  <2> DEFINE q == req'[r]
  <2>2. /\ DOMAIN q = DOMAIN Idle /\ q.pc = NextPC /\ q.kind = "delete_shelf"
        /\ q.side = "none" /\ q.book = NewBook /\ q.pivot = NewBook
        /\ q.shelf = s /\ q.isbn = NoIsbn /\ q.row = NoRow /\ q.ranks = << >> /\ q.to = NoShelf
    BY <2>1 DEF Types, Idle
  <2> HIDE DEF q
  <2>3. RequestOK(q)
    BY <1>1, <1>2, <2>2, BegunOK DEF AllKinds
  <2>4. QED
    BY <2>3 DEF q
<1>8. QED
  BY <1>3, <1>4, <1>5, <1>6, <1>7 DEF Load

\* What the ORM does not write is None.
LEMMA ChangedType ==
  ASSUME NEW new \in Keys, NEW old
  PROVE  Changed(new, old) \in Keys
BY DEF Changed, Keys

LEMMA LastRankType ==
  ASSUME KeysUnique, LiveRanks, NEW r \in Requests, NEW s, req[r].row.rank \in Keys
  PROVE  LastRank(r, s) \in Keys
<1>1. CASE On(s) = {}
  BY <1>1 DEF LastRank, Keys
<1>2. CASE On(s) # {}
  <2> DEFINE last == CHOOSE b \in On(s) : \A c \in On(s) \ {b} : Less(books[c].rank, books[b].rank)
  <2>1. last \in On(s)
    BY <1>2, LastExists
  <2>2. LastRank(r, s) = Seen(r, last)
    BY <1>2 DEF LastRank
  <2> HIDE DEF last
  <2>3. books[last].rank \in Rank
    BY <2>1 DEF On, LiveRanks
  <2>4. QED
    BY <2>2, <2>3 DEF Seen, Keys
<1>3. QED
  BY <1>1, <1>2

LEMMA AppendRankType ==
  ASSUME NEW last \in Keys, CanAppend(last)
  PROVE  AppendRank(last) \in Rank
BY Appending DEF Keys

LEMMA MakeDefaultOK ==
  ASSUME Types, NEW r \in Requests, RequestOK(req[r]), MakeDefault(r)
  PROVE  RequestOK(req'[r])
<1>1. default' \in Shelf
  BY MakeDefaultEffect DEF Types, Shelf, Unused
<1>2. \/ req'[r] = Idle
      \/ req'[r] = [req[r] EXCEPT !.pc = "loaded"] /\ req[r].kind = "delete_shelf"
      \/ req'[r] = [req[r] EXCEPT !.pc = "loaded", !.shelf = default'] /\ req[r].kind = "create_book"
  BY DEF MakeDefault, Types
<1>3. CASE req'[r] = Idle
  BY <1>3, IdleOK
<1>4. ASSUME req'[r] # Idle PROVE RequestOK(req'[r])
  <2> DEFINE q == req'[r]
  <2>1. /\ DOMAIN q = DOMAIN Idle /\ q.pc = "loaded" /\ q.kind = req[r].kind
        /\ q.side = req[r].side /\ q.book = req[r].book /\ q.pivot = req[r].pivot
        /\ q.shelf \in {req[r].shelf, default'} /\ q.isbn = req[r].isbn
        /\ q.row = req[r].row /\ q.ranks = req[r].ranks /\ q.to = req[r].to
        /\ req[r].kind \in {"delete_shelf", "create_book"}
    BY <1>2, <1>4, IdleFields DEF Types, Fields
  <2> HIDE DEF q
  <2>2. IsRequest(q)
    BY <1>1, <2>1 DEF IsRequest, RequestOK
  <2>3. PlanTyped(q)
    BY <2>1 DEF PlanTyped, RequestOK
  <2>4. QED
    BY <2>2, <2>3 DEF q, RequestOK
<1>5. QED
  BY <1>3, <1>4

LEMMA PlanAppendOK ==
  ASSUME Types, KeysUnique, LiveRanks, NEW r \in Requests, RequestOK(req[r]), PlanAppend(r)
  PROVE  RequestOK(req'[r])
<1> DEFINE s == req[r].shelf
           new == AppendRank(LastRank(r, s))
           planned == [req[r] EXCEPT !.pc = "planned", !.row = NoRow,
                         !.ranks = [b \in {req[r].book} |-> Changed(new, req[r].row.rank)],
                         !.to = IF s = req[r].row.shelf THEN NoShelf ELSE s]
<1>1. \/ req'[r] = Idle \/ req'[r] = [Idle EXCEPT !.pc = "exhausted"]
      \/ req'[r] = planned /\ CanAppend(LastRank(r, s))
  BY DEF PlanAppend, Types
<1>2. CASE req'[r] = planned /\ CanAppend(LastRank(r, s))
  <2>1. LastRank(r, s) \in Keys
    BY LastRankType DEF RequestOK, IsRequest
  <2>2. new \in Rank /\ Changed(new, req[r].row.rank) \in Keys
    BY <1>2, <2>1, AppendRankType, ChangedType DEF Keys
  <2>3. req[r].kind = "create_book" => Changed(new, req[r].row.rank) = new /\ req[r].book = NewBook
    BY <2>2, RankType DEF RequestOK, PlanTyped, NoRow, Changed
  <2> HIDE DEF new
  <2>4. /\ DOMAIN planned = DOMAIN Idle /\ planned.pc = "planned" /\ planned.kind = req[r].kind
        /\ planned.side = req[r].side /\ planned.book = req[r].book /\ planned.pivot = req[r].pivot
        /\ planned.shelf = s /\ planned.isbn = req[r].isbn /\ planned.row = NoRow
        /\ planned.ranks = [b \in {req[r].book} |-> Changed(new, req[r].row.rank)]
        /\ planned.to \in {NoShelf, s}
    BY IdleFields DEF Types, Fields
  <2>5. NoShelf \in Shelf /\ NoRow \in [shelf : Shelf, rank : Keys]
    BY DEF Shelf, NoRow, Keys
  <2> HIDE DEF planned
  <2>6. IsRequest(planned)
    BY <2>2, <2>4, <2>5 DEF IsRequest, RequestOK
  <2>7. PlanTyped(planned)
    BY <2>2, <2>3, <2>4 DEF PlanTyped, RequestOK
  <2>8. QED
    BY <1>2, <2>6, <2>7 DEF RequestOK
<1>3. QED
  BY <1>1, <1>2, IdleOK

LEMMA PlanAgainOK ==
  ASSUME Types, KeysUnique, LiveRanks, NEW r \in Requests, RequestOK(req[r]), PlanAgain(r)
  PROVE  RequestOK(req'[r])
<1> DEFINE s == req[r].shelf
           new == AppendRank(LastRank(r, s))
           replanned == [req[r] EXCEPT !.pc = "replanned", !.to = req[r].shelf,
                           !.ranks = [b \in {req[r].book} |-> new]]
<1>1. \/ req'[r] = [Idle EXCEPT !.pc = "exhausted"]
      \/ req'[r] = replanned /\ CanAppend(LastRank(r, s))
  BY DEF PlanAgain, Types
<1>2. CASE req'[r] = replanned /\ CanAppend(LastRank(r, s))
  <2>1. LastRank(r, s) \in Keys
    BY LastRankType DEF RequestOK, IsRequest
  <2>2. new \in Rank /\ new \in Keys
    BY <1>2, <2>1, AppendRankType DEF Keys
  <2> HIDE DEF new
  <2>3. /\ DOMAIN replanned = DOMAIN Idle /\ replanned.pc = "replanned"
        /\ replanned.kind = req[r].kind
        /\ replanned.side = req[r].side /\ replanned.book = req[r].book
        /\ replanned.pivot = req[r].pivot
        /\ replanned.shelf = s /\ replanned.isbn = req[r].isbn /\ replanned.row = req[r].row
        /\ replanned.ranks = [b \in {req[r].book} |-> new]
        /\ replanned.to = s
    BY IdleFields DEF Types, Fields
  <2> HIDE DEF replanned
  <2>4. IsRequest(replanned)
    BY <2>2, <2>3 DEF IsRequest, RequestOK
  <2>5. PlanTyped(replanned)
    BY <2>2, <2>3 DEF PlanTyped, RequestOK
  <2>6. QED
    BY <1>2, <2>4, <2>5 DEF RequestOK
<1>3. QED
  BY <1>1, <1>2, IdleOK

\* A book's place among the others of its shelf, and the book of each place.
LEMMA PlacesOfShelf ==
  ASSUME KeysUnique, LiveRanks, NEW s, NEW S, S \subseteq On(s)
  PROVE  /\ Cardinality(S) \in Nat
         /\ \A b \in S : Position(b, S) \in 1 .. Cardinality(S)
         /\ \A i \in 1 .. Cardinality(S) : Sorted(S)[i] \in S /\ books[Sorted(S)[i]].rank \in Rank
<1>1. S \subseteq BookIds /\ Keyed(RankOf, S)
  BY ShelfIsKeyed
<1>2. /\ \A b \in S : Position(b, S) = PlaceOf(RankOf, b, S)
      /\ Sorted(S) = InOrder(RankOf, S)
  BY <1>1, SortedInOrder
<1>3. \A b \in S : Position(b, S) \in 1 .. Cardinality(S)
  BY <1>1, <1>2, PlaceGrows
<1>4. /\ Cardinality(S) \in Nat
      /\ Len(Sorted(S)) = Cardinality(S) /\ ListOf(Sorted(S), S)
  BY <1>1, <1>2, InOrderLists
<1>5. \A i \in 1 .. Cardinality(S) : Sorted(S)[i] \in S
  BY <1>4 DEF ListOf
<1>6. QED
  BY <1>3, <1>4, <1>5 DEF On, LiveRanks

RoomToRebalance == Capacity[MAX_LENGTH] >= 4 * MaxBooks

LEMMA RebalancedType ==
  ASSUME RoomToRebalance, NEW n \in Nat, n < MaxBooks
  PROVE  \A i \in 1 .. n + 1 : RebalancedSequence(n + 1)[i] \in Rank
<1>1. n + 1 \in Nat \ {0} /\ 4 * (n + 1) <= 4 * MaxBooks
  BY BookshelfAssumption
<1>2. Capacity[MAX_LENGTH] \in Nat
  BY RankAssumption, CapacityGrows
<1>3. Capacity[MAX_LENGTH] >= 4 * (n + 1)
  BY <1>1, <1>2, BookshelfAssumption DEF RoomToRebalance
<1>4. QED
  BY <1>1, <1>3, RebalancedKeysIncrease

\* The other books of the shelf of a book are fewer than all.
LEMMA FewerBooks ==
  ASSUME NEW b \in BookIds, NEW S, S \subseteq BookIds \ {b}
  PROVE  Cardinality(S) < MaxBooks
<1>1. /\ IsFiniteSet(BookIds) /\ Cardinality(BookIds) = MaxBooks
      /\ IsFiniteSet(BookIds \ {b}) /\ Cardinality(BookIds \ {b}) = MaxBooks - 1
  <2>1. BookIds = 1 .. MaxBooks /\ MaxBooks \in Int /\ MaxBooks >= 1
    BY BookshelfAssumption DEF BookIds
  <2>2. IsFiniteSet(1 .. MaxBooks) /\ Cardinality(1 .. MaxBooks) = MaxBooks
    BY <2>1, FS_Interval
  <2>3. QED
    BY <2>1, <2>2, FS_RemoveElement
<1>2. Cardinality(S) <= MaxBooks - 1 /\ Cardinality(S) \in Nat
  BY <1>1, FS_Subset, FS_CardinalityType
<1>3. QED
  BY <1>2, BookshelfAssumption

LEMMA PlanReorderOK ==
  ASSUME RoomToRebalance, Types, KeysUnique, LiveRanks, NEW r \in Requests, RequestOK(req[r]),
         PlanReorder(r)
  PROVE  RequestOK(req'[r])
<1> DEFINE b    == req[r].book
           rest == On(req[r].shelf) \ {b}
           n    == Cardinality(rest)
           at   == Position(req[r].pivot, rest)
           prev == IF req[r].side = "before" THEN at - 1 ELSE at
           rank(i) == IF i \in 1 .. Cardinality(rest) THEN books[Sorted(rest)[i]].rank ELSE None
           spread == RebalancedSequence(Cardinality(rest) + 1)
           place(c) == LET i == Position(c, rest) IN IF i <= prev THEN i ELSE i + 1
           rebalanced == [c \in rest \cup {b} |->
             IF c = b THEN Changed(spread[prev + 1], req[r].row.rank)
                      ELSE Changed(spread[place(c)], books[c].rank)]
           single == [c \in {b} |-> Changed(Between(rank(prev), rank(prev + 1)), req[r].row.rank)]
<1>1. \/ req'[r] = Idle
      \/ /\ req[r].pivot \in rest
         /\ HasRoom(rank(prev), rank(prev + 1))
         /\ req'[r] = [req[r] EXCEPT !.pc = "planned", !.row = NoRow, !.pivot = NewBook,
                                     !.side = "none", !.ranks = single]
      \/ /\ req[r].pivot \in rest
         /\ req'[r] = [req[r] EXCEPT !.pc = "planned", !.row = NoRow, !.pivot = NewBook,
                                     !.side = "none", !.ranks = rebalanced]
  BY DEF PlanReorder, Types
<1>2. b \in BookIds /\ req[r].kind = "reorder_book"
  BY DEF PlanReorder, RequestOK, PlanTyped
<1> HIDE DEF b
<1>3. rest \subseteq On(req[r].shelf) /\ rest \subseteq BookIds \ {b}
  BY DEF On
<1> HIDE DEF rest
<1>4. /\ n \in Nat
      /\ \A c \in rest : Position(c, rest) \in 1 .. n
      /\ \A i \in 1 .. n : books[Sorted(rest)[i]].rank \in Rank
  BY <1>3, PlacesOfShelf
<1>5. n < MaxBooks
  BY <1>2, <1>3, FewerBooks
<1> HIDE DEF n
<1>6. \A i \in 1 .. n + 1 : spread[i] \in Keys
  BY <1>4, <1>5, RebalancedType DEF n, Keys
<1>7. \A i : rank(i) \in Keys /\ rank(i) \in Neighbour
  BY <1>4 DEF n, Keys, Neighbour
<1> HIDE DEF rank, spread
<1>8. ASSUME req[r].pivot \in rest PROVE prev \in 0 .. n
  <2>1. at \in 1 .. n
    BY <1>4, <1>8
  <2>2. QED
    BY <1>4, <2>1
<1> HIDE DEF at, prev
<1>9. ASSUME req[r].pivot \in rest, HasRoom(rank(prev), rank(prev + 1))
      PROVE  \A c \in DOMAIN single : c = b /\ single[c] \in Keys
  <2>1. Between(rank(prev), rank(prev + 1)) \in Keys
    BY <1>7, <1>9, BetweenShape DEF Keys
  <2>2. QED
    BY <2>1, ChangedType
<1>10. ASSUME req[r].pivot \in rest
       PROVE  \A c \in DOMAIN rebalanced : c \in rest \cup {b} /\ rebalanced[c] \in Keys
  <2>1. prev + 1 \in 1 .. n + 1 /\ \A c \in rest : place(c) \in 1 .. n + 1
    BY <1>4, <1>8, <1>10
  <2> HIDE DEF place
  <2>2. \A c \in rest \cup {b} : rebalanced[c] \in Keys
    BY <1>6, <2>1, ChangedType
  <2>3. QED
    BY <2>2
<1> HIDE DEF single, rebalanced
<1>11. ASSUME NEW ranks, DOMAIN ranks \subseteq rest \cup {b}, \A c \in DOMAIN ranks : ranks[c] \in Keys,
              req'[r] = [req[r] EXCEPT !.pc = "planned", !.row = NoRow, !.pivot = NewBook,
                                       !.side = "none", !.ranks = ranks]
       PROVE  RequestOK(req'[r])
  <2> DEFINE q == req'[r]
  <2>1. /\ DOMAIN q = DOMAIN Idle /\ q.pc = "planned" /\ q.kind = req[r].kind
        /\ q.side = "none" /\ q.book = req[r].book /\ q.pivot = NewBook
        /\ q.shelf = req[r].shelf /\ q.isbn = req[r].isbn /\ q.row = NoRow
        /\ q.ranks = ranks /\ q.to = req[r].to
    BY <1>11, IdleFields DEF Types, Fields
  <2>2. NoRow \in [shelf : Shelf, rank : Keys]
    BY DEF Shelf, NoRow, Keys
  <2> HIDE DEF q
  <2>3. IsRequest(q)
    BY <1>2, <1>3, <1>11, <2>1, <2>2 DEF IsRequest, RequestOK
  <2>4. PlanTyped(q)
    BY <1>2, <2>1 DEF PlanTyped
  <2>5. QED
    BY <2>3, <2>4 DEF q, RequestOK
<1>12. QED
  <2>1. CASE req'[r] = Idle
    BY <2>1, IdleOK
  <2>2. ASSUME req[r].pivot \in rest, HasRoom(rank(prev), rank(prev + 1)),
               req'[r] = [req[r] EXCEPT !.pc = "planned", !.row = NoRow, !.pivot = NewBook,
                                        !.side = "none", !.ranks = single]
        PROVE  RequestOK(req'[r])
    <3>1. DOMAIN single \subseteq rest \cup {b} /\ \A c \in DOMAIN single : single[c] \in Keys
      BY <1>9, <2>2
    <3>2. QED
      BY <1>11, <2>2, <3>1
  <2>3. ASSUME req[r].pivot \in rest,
               req'[r] = [req[r] EXCEPT !.pc = "planned", !.row = NoRow, !.pivot = NewBook,
                                        !.side = "none", !.ranks = rebalanced]
        PROVE  RequestOK(req'[r])
    <3>1. DOMAIN rebalanced \subseteq rest \cup {b}
          /\ \A c \in DOMAIN rebalanced : rebalanced[c] \in Keys
      BY <1>10, <2>3
    <3>2. QED
      BY <1>11, <2>3, <3>1
  <2>4. QED
    BY <1>1, <2>1, <2>2, <2>3

LEMMA PlanDeleteShelfOK ==
  ASSUME Types, KeysUnique, LiveRanks, NEW r \in Requests, RequestOK(req[r]), PlanDeleteShelf(r)
  PROVE  RequestOK(req'[r])
<1> DEFINE moved == On(req[r].shelf)
           keys == Appended(LastRank(r, default), Cardinality(moved))
           ranks == [b \in moved |-> Changed(keys[Position(b, moved)], books[b].rank)]
<1>1. \/ req'[r] = [Idle EXCEPT !.pc = "exhausted"]
      \/ req'[r] = [req[r] EXCEPT !.pc = "planned", !.to = default, !.ranks = ranks]
  BY DEF PlanDeleteShelf, Types
<1>2. LastRank(r, default) \in Rank \cup {None}
  BY LastRankType DEF RequestOK, IsRequest, Keys
<1>3. ASSUME NEW b \in moved PROVE ranks[b] \in Keys
  <2>1. Cardinality(moved) \in Nat /\ Position(b, moved) \in 1 .. Cardinality(moved)
    BY PlacesOfShelf
  <2> HIDE DEF moved
  <2>2. keys[Position(b, moved)] \in Keys
    BY <1>2, <2>1, AppendedType DEF Keys
  <2> HIDE DEF keys
  <2>3. QED
    BY <2>2, ChangedType
<1>4. DOMAIN ranks = moved /\ moved \subseteq BookIds
  BY DEF On
<1> HIDE DEF moved, keys, ranks
<1>5. ASSUME req'[r] = [req[r] EXCEPT !.pc = "planned", !.to = default, !.ranks = ranks]
      PROVE  RequestOK(req'[r])
  <2> DEFINE q == req'[r]
  <2>1. /\ DOMAIN q = DOMAIN Idle /\ q.pc = "planned" /\ q.kind = req[r].kind
        /\ q.side = req[r].side /\ q.book = req[r].book /\ q.pivot = req[r].pivot
        /\ q.shelf = req[r].shelf /\ q.isbn = req[r].isbn /\ q.row = req[r].row
        /\ q.ranks = ranks /\ q.to = default /\ req[r].kind = "delete_shelf"
    BY <1>5, IdleFields DEF Types, Fields, PlanDeleteShelf
  <2>2. default \in Shelf
    BY DEF Types
  <2> HIDE DEF q
  <2>3. IsRequest(q)
    BY <1>3, <1>4, <2>1, <2>2 DEF IsRequest, RequestOK
  <2>4. PlanTyped(q)
    BY <2>1 DEF PlanTyped
  <2>5. QED
    BY <2>3, <2>4 DEF q, RequestOK
<1>6. QED
  BY <1>1, <1>5, IdleOK

\* The other steps of a request.
LEMMA OthersOK ==
  ASSUME Types, NEW r \in Requests, RequestOK(req[r]),
         FlushShelf(r) \/ Refuse(r) \/ CommitInsert(r) \/ CommitUpdate(r) \/ Collision(r)
  PROVE  RequestOK(req'[r])
<1> DEFINE q == req'[r]
<1>1. \/ q = Idle \/ q = [Idle EXCEPT !.pc = "failed"]
      \/ q = [req[r] EXCEPT !.pc = "flushing"] /\ req[r].kind = "delete_shelf"
      \/ q = [req[r] EXCEPT !.pc = "collided", !.ranks = << >>, !.to = NoShelf]
  BY DEF FlushShelf, Refuse, CommitInsert, CommitUpdate, Done, Collision, Types
<1>2. CASE q = Idle \/ q = [Idle EXCEPT !.pc = "failed"]
  BY <1>2, IdleOK
<1>3. CASE q = [req[r] EXCEPT !.pc = "flushing"] /\ req[r].kind = "delete_shelf"
  <2>1. /\ DOMAIN q = DOMAIN Idle /\ q.pc = "flushing" /\ q.kind = req[r].kind
        /\ q.side = req[r].side /\ q.book = req[r].book /\ q.pivot = req[r].pivot
        /\ q.shelf = req[r].shelf /\ q.isbn = req[r].isbn /\ q.row = req[r].row
        /\ q.ranks = req[r].ranks /\ q.to = req[r].to /\ req[r].kind = "delete_shelf"
    BY <1>3, IdleFields DEF Types, Fields
  <2> HIDE DEF q
  <2>2. IsRequest(q)
    BY <2>1 DEF IsRequest, RequestOK
  <2>3. PlanTyped(q)
    BY <2>1 DEF PlanTyped
  <2>4. QED
    BY <2>2, <2>3 DEF q, RequestOK
<1>4. CASE q = [req[r] EXCEPT !.pc = "collided", !.ranks = << >>, !.to = NoShelf]
  <2>1. /\ DOMAIN q = DOMAIN Idle /\ q.pc = "collided" /\ q.kind = req[r].kind
        /\ q.side = req[r].side /\ q.book = req[r].book /\ q.pivot = req[r].pivot
        /\ q.shelf = req[r].shelf /\ q.isbn = req[r].isbn /\ q.row = req[r].row
        /\ q.ranks = << >> /\ q.to = NoShelf
    BY <1>4, IdleFields DEF Types, Fields
  <2>2. NoShelf \in Shelf /\ DOMAIN << >> = {}
    BY DEF Shelf
  <2> HIDE DEF q
  <2>3. IsRequest(q)
    BY <2>1, <2>2 DEF IsRequest, RequestOK
  <2>4. PlanTyped(q)
    BY <2>1 DEF PlanTyped, RequestOK
  <2>5. QED
    BY <2>3, <2>4 DEF q, RequestOK
<1>5. QED
  BY <1>1, <1>2, <1>3, <1>4

LEMMA CommitRows ==
  ASSUME Types, LockInv, RowsOK, NEW r \in Requests, RequestOK(req[r]),
         CommitInsert(r) \/ CommitUpdate(r)
  PROVE  RowsOK'
<1> DEFINE RowType == [state : {"none", "live", "deleted"}, shelf : Shelf, rank : Keys,
                       isbn  : Isbns \cup {NoIsbn}]
<1>1. CASE CommitInsert(r)
  <2>1. /\ req[r].kind = "create_book" /\ req[r].pc \in {"planned", "replanned"}
        /\ req[r].shelf \in ShelfIds
        /\ req[r].ranks[NewBook] \in Rank /\ req[r].isbn \in Isbns \cup {NoIsbn}
    BY <1>1 DEF CommitInsert, Flushing, LockInv, Active, RequestOK, PlanTyped, IsRequest
  <2> DEFINE row == [state |-> "live", shelf |-> req[r].shelf, rank |-> req[r].ranks[NewBook],
                     isbn |-> req[r].isbn]
  <2>2. row \in RowType /\ row.shelf \in ShelfIds /\ row.rank \in Rank
    BY <2>1 DEF Shelf, Keys
  <2>3. PICK b \in BookIds : books' = [books EXCEPT ![b] = row]
    BY <1>1 DEF CommitInsert
  <2> HIDE DEF row
  <2>4. QED
    BY <2>2, <2>3 DEF RowsOK, Live
<1>2. CASE CommitUpdate(r)
  <2>1. ASSUME NEW b \in DOMAIN req[r].ranks, b \in BookIds
        PROVE  /\ Written(r, b) \in RowType
               /\ Written(r, b).state = books[b].state
               /\ Live(b) => Written(r, b).shelf \in ShelfIds /\ Written(r, b).rank \in Rank
    <3>1. req[r].ranks[b] \in Keys /\ req[r].to \in Shelf
      BY <2>1 DEF RequestOK, IsRequest
    <3>2. books[b] \in RowType /\ (Live(b) => books[b].shelf \in ShelfIds /\ books[b].rank \in Rank)
      BY <2>1 DEF RowsOK
    <3>3. QED
      BY <3>1, <3>2 DEF Written, Shelf, Keys
  <2>2. books' = [b \in BookIds |-> IF b \in DOMAIN req[r].ranks /\ Live(b)
                                    THEN Written(r, b) ELSE books[b]]
    BY <1>2 DEF CommitUpdate
  <2>3. QED
    BY <2>1, <2>2 DEF RowsOK, Live
<1>3. QED
  BY <1>1, <1>2

TypedInv == Inv /\ BookShape /\ KeysUnique /\ RowsOK /\ \A r \in Requests : RequestOK(req[r])

LEMMA TypedStep ==
  ASSUME RoomToRebalance, TypedInv, [Next]_vars
  PROVE  TypedInv'
<1> USE DEF TypedInv
<1>1. Types /\ LockInv /\ LiveRanks
  BY DEF Inv, RowsOK, LiveRanks
<1>2. (Inv /\ BookShape /\ KeysUnique)'
  BY InvStep, BookShapeStep, KeysUniqueStep
<1>3. RowsOK'
  <2>1. CASE books' = books
    BY <2>1 DEF RowsOK, Live
  <2>2. CASE DeleteBook
    <3>1. PICK b \in BookIds : books' = [books EXCEPT ![b] = Gone("deleted")]
      BY <2>2 DEF DeleteBook
    <3>2. /\ Gone("deleted") \in [state : {"none", "live", "deleted"}, shelf : Shelf, rank : Keys,
                                  isbn  : Isbns \cup {NoIsbn}]
          /\ Gone("deleted").state = "deleted"
      BY DEF Gone, Shelf, Keys
    <3>3. QED
      BY <3>1, <3>2 DEF RowsOK, Live
  <2>3. QED
    BY <1>1, <2>1, <2>2, BooksStay, CommitRows
<1>4. ASSUME NEW r \in Requests PROVE RequestOK(req'[r])
  <2>1. CASE req'[r] = req[r]
    BY <2>1
  <2>2. CASE Load(r) \/ Proceed(r)
    BY <1>1, <2>2, LoadOK, MakeDefaultOK, PlanAppendOK, PlanAgainOK, PlanReorderOK,
       PlanDeleteShelfOK, OthersOK DEF Proceed
  <2>3. QED
    BY <1>1, <2>1, <2>2, OtherRequests DEF Next, vars, DeleteBook, CreateShelf
<1>5. QED
  BY <1>2, <1>3, <1>4

LEMMA TypedAlways ==
  ASSUME RoomToRebalance
  PROVE  Spec => []TypedInv
<1>1. Init => TypedInv
  <2> SUFFICES ASSUME Init PROVE TypedInv
    OBVIOUS
  <2>1. \A b \in BookIds : books[b] = Gone("none")
    BY DEF Init
  <2>2. \A r \in Requests : req[r] = Idle
    BY DEF Init
  <2>3. BookShape /\ KeysUnique
    BY <2>1, GoneFields DEF Init, BookShape, KeysUnique, Live
  <2>4. RowsOK
    <3>1. /\ Gone("none") \in [state : {"none", "live", "deleted"}, shelf : Shelf, rank : Keys,
                               isbn  : Isbns \cup {NoIsbn}]
          /\ Gone("none").state = "none"
      BY DEF Gone, Shelf, Keys
    <3>2. QED
      BY <2>1, <3>1 DEF Init, RowsOK, Live
  <2>5. \A r \in Requests : RequestOK(req[r])
    BY <2>2, IdleOK
  <2>6. QED
    BY <2>3, <2>4, <2>5, InitTypes DEF TypedInv, Inv
<1>2. TypedInv /\ [Next]_vars => TypedInv'
  BY TypedStep
<1>3. QED
  BY <1>1, <1>2, PTL DEF Spec

\* The rows and the requests have the values the handlers expect, and a book that exists
\* always has a shelf and a key that fits the column, where the keys of the longest length
\* are at least four times as many as the books.
THEOREM BookshelfTypeCorrect ==
  ASSUME RoomToRebalance
  PROVE  Spec => []TypeOK
<1>1. TypedInv => TypeOK
  BY DEF TypedInv, Inv, Types, RowsOK, RequestOK, TypeOK
<1>2. QED
  BY <1>1, TypedAlways, PTL

-----------------------------------------------------------------------------
(* Who waits for whom.                                                     *)

\* The requests that hold a row lock which the next step of r is waiting for: the lock it
\* wants itself, or one FOR UPDATE on a shelf its books newly refer to.
WaitsFor(r) ==
  {q \in Requests :
     \/ /\ req[r].pc = "loaded" /\ req[r].kind \in {"create_book", "move_book_shelf"}
        /\ locked[req[r].shelf] = q
     \/ /\ req[r].pc = "planned" /\ req[r].kind = "delete_shelf"
        /\ locked[req[r].shelf] = q
     \/ /\ req[r].pc \in IF req[r].kind = "delete_shelf" THEN {"flushing"} ELSE {"planned", "replanned"}
        /\ q # r /\ req[q].kind # "delete_shelf"
        /\ \E s \in ShelfIds : s \in NewShelves(r) /\ locked[s] = q}

WaitsEnd ==
  \A r, q, p \in Requests : q \in WaitsFor(r) /\ p \in WaitsFor(q) => WaitsFor(p) = {}

\* A lock is held by a request that is between taking it and its commit: none is left behind
\* by a request that was refused, has collided or has failed.
NoLockLeaks ==
  \A s \in ShelfIds : locked[s] # NoRequest =>
    Holds(locked[s]) /\ req[locked[s]].shelf = s

PlannedTo ==
  \A r \in Requests :
    req[r].pc = "planned" /\ req[r].kind = "move_book_shelf" =>
      req[r].to \in {NoShelf, req[r].shelf}

WaitInv == Inv /\ NoLockLeaks /\ PlannedTo

LEMMA LocksKept ==
  ASSUME Inv, NoLockLeaks, [Next]_vars
  PROVE  NoLockLeaks'
<1> USE BookshelfAssumption DEF Inv
<1>1. CASE UNCHANGED <<locked, req>>
  BY <1>1 DEF NoLockLeaks, Holds
<1>2. ASSUME NEW r \in Requests, ~ Holds(r), UNCHANGED locked,
             \A q \in Requests \ {r} : req'[q] = req[q]
      PROVE  NoLockLeaks'
  BY <1>2 DEF NoLockLeaks, Holds, Types
<1>3. ASSUME NEW r \in Requests, locked' = Release(r),
             \A q \in Requests \ {r} : req'[q] = req[q]
      PROVE  NoLockLeaks'
  BY <1>3 DEF NoLockLeaks, Holds, Types, Release
<1>4. ASSUME NEW r \in Requests, ~ Holds(r), Holds(r)', req[r].shelf \in ShelfIds,
             locked' = [locked EXCEPT ![req[r].shelf] = r], req'[r].shelf = req[r].shelf,
             \A q \in Requests \ {r} : req'[q] = req[q]
      PROVE  NoLockLeaks'
  BY <1>4 DEF NoLockLeaks, Holds, Types
<1>5. ASSUME NEW r \in Requests, Load(r) PROVE NoLockLeaks'
  <2>1. ~ Holds(r)
    BY <1>5 DEF Load, CreateBook, MoveBookShelf, ReorderBook, GetShelves, DeleteShelf, Begin,
       Answered, Holds
  <2>2. QED
    BY <1>2, <1>5, <2>1, LoadEffect, OtherRequests
<1>6. ASSUME NEW r \in Requests, MakeDefault(r) \/ PlanAgain(r) \/ PlanReorder(r) \/ PlanDeleteShelf(r)
      PROVE  NoLockLeaks'
  <2>1. ~ Holds(r) /\ UNCHANGED locked
    BY <1>6, MakeDefaultEffect, PlanAgainEffect, PlanReorderEffect, PlanDeleteShelfEffect DEF Holds
  <2>2. QED
    BY <1>2, <1>6, <2>1, OtherRequests DEF Proceed
<1>7. ASSUME NEW r \in Requests, PlanAppend(r) PROVE NoLockLeaks'
  <2>1. ~ Holds(r) /\ req[r].shelf \in ShelfIds
    BY <1>7, PlanAppendEffect DEF Holds, LockInv, Active
  <2>2. \A q \in Requests \ {r} : req'[q] = req[q]
    BY <1>7, OtherRequests DEF Proceed
  <2>3. CASE UNCHANGED locked
    BY <1>2, <2>1, <2>2, <2>3
  <2>4. CASE /\ locked' = [locked EXCEPT ![req[r].shelf] = r]
             /\ Effect(r, req[r].kind, "planned", req[r].shelf)
    <3>1. Holds(r)' /\ req'[r].shelf = req[r].shelf
      BY <1>7, <2>4, PlanAppendEffect DEF Effect, Holds
    <3>2. QED
      BY <1>4, <2>1, <2>2, <2>4, <3>1
  <2>5. QED
    BY <1>7, <2>3, <2>4, PlanAppendEffect
<1>8. ASSUME NEW r \in Requests, FlushShelf(r) PROVE NoLockLeaks'
  <2>1. ~ Holds(r) /\ req[r].shelf \in ShelfIds /\ Holds(r)' /\ req'[r].shelf = req[r].shelf
    BY <1>8, FlushShelfEffect DEF Holds, LockInv, Active, Effect
  <2>2. \A q \in Requests \ {r} : req'[q] = req[q]
    BY <1>8, OtherRequests DEF Proceed
  <2>3. QED
    BY <1>4, <1>8, <2>1, <2>2, FlushShelfEffect
<1>9. ASSUME NEW r \in Requests, Refuse(r) \/ CommitInsert(r) \/ CommitUpdate(r) \/ Collision(r)
      PROVE  NoLockLeaks'
  <2>1. locked' = Release(r)
    BY <1>9, RefuseEffect, CommitEffect, CollisionEffect
  <2>2. QED
    BY <1>3, <1>9, <2>1, OtherRequests DEF Proceed
<1>10. QED
  BY <1>1, <1>5, <1>6, <1>7, <1>8, <1>9 DEF Next, Proceed, DeleteBook, CreateShelf, vars

LEMMA PlannedToKept ==
  ASSUME Inv, PlannedTo, [Next]_vars
  PROVE  PlannedTo'
<1> USE DEF Inv
<1> SUFFICES ASSUME NEW q \in Requests, req'[q].pc = "planned", req'[q].kind = "move_book_shelf"
             PROVE  req'[q].to \in {NoShelf, req'[q].shelf}
  BY DEF PlannedTo
<1>1. CASE req'[q] = req[q]
  BY <1>1 DEF PlannedTo
<1>2. CASE PlanAppend(q)
  <2> DEFINE s == req[q].shelf
             new == AppendRank(LastRank(q, s))
             planned == [req[q] EXCEPT !.pc = "planned", !.row = NoRow,
                           !.ranks = [b \in {req[q].book} |-> Changed(new, req[q].row.rank)],
                           !.to = IF s = req[q].row.shelf THEN NoShelf ELSE s]
  <2>1. \/ req' = [req EXCEPT ![q] = Idle] \/ req' = [req EXCEPT ![q] = [Idle EXCEPT !.pc = "exhausted"]]
        \/ req' = [req EXCEPT ![q] = planned]
    BY <1>2 DEF PlanAppend
  <2>2. planned.to \in {NoShelf, s} /\ planned.shelf = s
    BY DEF Types, Fields
  <2> HIDE DEF planned
  <2>3. CASE req' = [req EXCEPT ![q] = planned]
    BY <2>2, <2>3 DEF Types
  <2>4. CASE \/ req' = [req EXCEPT ![q] = Idle]
             \/ req' = [req EXCEPT ![q] = [Idle EXCEPT !.pc = "exhausted"]]
    BY <2>4, AnsweredEffect DEF Effect
  <2>5. QED
    BY <2>1, <2>3, <2>4
<1>3. CASE Load(q) \/ (Proceed(q) /\ ~ PlanAppend(q))
  BY <1>3, LoadEffect, MakeDefaultEffect, PlanAgainEffect, PlanReorderEffect,
     PlanDeleteShelfEffect, FlushShelfEffect, RefuseEffect, CommitEffect, CollisionEffect
     DEF Proceed, Effect
<1>4. QED
  BY <1>1, <1>2, <1>3, OtherRequests DEF Next, vars, DeleteBook, CreateShelf

\* Who holds a shelf to append to it waits for nobody: its book refers to no other shelf.
LEMMA AppendersGo ==
  ASSUME WaitInv, NEW p \in Requests, req[p].pc = "planned",
         req[p].kind \in {"create_book", "move_book_shelf"}
  PROVE  WaitsFor(p) = {}
<1>1. NewShelves(p) \subseteq {req[p].shelf}
  BY BookshelfAssumption DEF NewShelves, WaitInv, PlannedTo
<1>2. locked[req[p].shelf] = p
  BY DEF WaitInv, Inv, LockInv, Holds
<1>3. QED
  BY <1>1, <1>2 DEF WaitsFor

LEMMA WaitsAreShort == WaitInv => WaitsEnd
<1> SUFFICES ASSUME WaitInv, NEW r \in Requests, NEW q \in Requests, NEW p \in Requests,
                    q \in WaitsFor(r), p \in WaitsFor(q)
             PROVE  WaitsFor(p) = {}
  BY DEF WaitsEnd
<1> USE BookshelfAssumption
<1>1. ASSUME NEW a \in Requests, NEW b \in WaitsFor(a) PROVE b \in Requests /\ Holds(b)
  <2>1. b \in Requests /\ \E s \in ShelfIds : locked[s] = b
    BY <1>1 DEF WaitsFor, WaitInv, Inv, LockInv, Active
  <2>2. QED
    BY <2>1 DEF WaitInv, NoLockLeaks
<1>2. CASE req[p].kind # "delete_shelf"
  <2>1. req[p].pc = "planned" /\ req[p].kind \in {"create_book", "move_book_shelf"}
    BY <1>1, <1>2 DEF Holds, WaitInv, Inv, LockInv
  <2>2. QED
    BY <2>1, AppendersGo
<1>3. CASE req[p].kind = "delete_shelf"
  <2>1. req[q].kind # "delete_shelf" \/ req[q].pc = "flushing"
    BY <1>1 DEF Holds
  <2>2. CASE req[q].kind # "delete_shelf"
    <3>1. req[q].pc = "planned" /\ req[q].kind \in {"create_book", "move_book_shelf"}
      BY <1>1, <2>2 DEF Holds, WaitInv, Inv, LockInv
    <3>2. WaitsFor(q) = {}
      BY <3>1, AppendersGo
    <3>3. QED
      BY <3>2
  <2>3. CASE req[q].kind = "delete_shelf" /\ req[q].pc = "flushing"
    BY <1>3, <2>3 DEF WaitsFor
  <2>4. QED
    BY <2>1, <2>2, <2>3
<1>4. QED
  BY <1>2, <1>3

\* Of the requests that wait for shelves' row locks none waits in a circle, whichever and however
\* many overlap: the one a request waits for waits, if at all, for one that can go on.  Only
\* delete_shelf waits with a lock in hand, and only for a registration or a move, which has all
\* it needs once it has its shelf.
THEOREM WaitsDoNotCircle == Spec => [](NoLockLeaks /\ WaitsEnd)
<1>1. Init => WaitInv
  <2>1. Init => NoLockLeaks /\ PlannedTo
    BY IdleFields, BookshelfAssumption DEF Init, NoLockLeaks, PlannedTo
  <2>2. QED
    BY <2>1, InitTypes DEF WaitInv, Inv
<1>2. WaitInv /\ [Next]_vars => WaitInv'
  BY InvStep, LocksKept, PlannedToKept DEF WaitInv
<1>3. WaitInv => NoLockLeaks /\ WaitsEnd
  BY WaitsAreShort DEF WaitInv
<1>4. QED
  BY <1>1, <1>2, <1>3, PTL DEF Spec

=============================================================================

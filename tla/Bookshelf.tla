----------------------------- MODULE Bookshelf -----------------------------
(***************************************************************************)
(* The shelves and books of one member: ShelfService and the shelf side of *)
(* BookService, as concurrent requests over PostgreSQL (READ COMMITTED).   *)
(* A request reads its book or shelf (Load), waits for a shelf's row lock, *)
(* reads that shelf and computes keys (Plan), and flushes and commits      *)
(* (Commit).  Sessions run with autoflush off, so nothing is written       *)
(* before the commit, and the commit is one step.  A request that is       *)
(* refused with a 4xx writes nothing: it is a step only when the request   *)
(* had already begun.                                                      *)
(***************************************************************************)
EXTENDS ShelfRank, FiniteSets

CONSTANTS
  Requests,    \* the requests that can be in progress at the same time
  ShelfIds,
  MaxBooks,    \* bound: books ever registered
  Isbns,
  Kinds,       \* the operations clients call
  NoShelf, NoRequest, NoIsbn

BookIds == 1 .. MaxBooks

NewBook == 0  \* the row an INSERT is about to add

AllKinds == {"create_book", "move_book_shelf", "reorder_book", "delete_book",
             "create_shelf", "get_shelves", "delete_shelf"}

ASSUME BookshelfAssumption ==
  /\ MaxBooks \in Nat
  /\ Kinds \subseteq AllKinds
  /\ NoShelf \notin ShelfIds /\ NoRequest \notin Requests /\ NoIsbn \notin Isbns

VARIABLES
  books,    \* core.library_book: each row's state, shelf, rank and isbn
  shelves,  \* core.shelf: "none", "live" or "deleted" (deleted_at is set)
  default,  \* the live shelf with is_default, NoShelf while there is none
  locked,   \* the request holding each shelf row's FOR UPDATE lock
  req       \* what each request has read and is about to write

vars == <<books, shelves, default, locked, req>>

NoRow == [shelf |-> NoShelf, rank |-> None]

\* A row that was never inserted; one that was deleted is not read again by these
\* handlers.
Gone(state) == [state |-> state, shelf |-> NoShelf, rank |-> None, isbn |-> NoIsbn]

\* row: the request's book as it was loaded.  ranks: the rows the request will
\* write, and the key for each (None: the ORM leaves an unchanged column out of
\* the UPDATE).  to: the shelf_id it will write to all of them, or NoShelf.
Idle == [pc |-> "idle", kind |-> "none", book |-> NewBook, shelf |-> NoShelf,
         pivot |-> NewBook, side |-> "none", isbn |-> NoIsbn, row |-> NoRow,
         ranks |-> << >>, to |-> NoShelf]

\* A request that was answered: with success or a 4xx ("idle"), a 500 after a
\* failed commit ("failed") or ShelfRankExhaustedException ("exhausted").
Answered(r) == req[r].pc \in {"idle", "failed", "exhausted"}

Init ==
  /\ books = [b \in BookIds |-> Gone("none")]
  /\ default \in ShelfIds \cup {NoShelf}  \* missing if registration broke off
  /\ shelves = [s \in ShelfIds |-> IF s = default THEN "live" ELSE "none"]
  /\ locked = [s \in ShelfIds |-> NoRequest]
  /\ req = [r \in Requests |-> Idle]

-----------------------------------------------------------------------------
\* The rows as the database holds them.
Live(b) == books[b].state = "live"

On(s) == {b \in BookIds : Live(b) /\ books[b].shelf = s}

Registered(i) == i # NoIsbn /\ \E b \in BookIds : Live(b) /\ books[b].isbn = i

Unused == {s \in ShelfIds : shelves[s] = "none"}

\* The rows as request r sees them.  Its session's identity map hands back the
\* object it has already loaded, whatever the query has just returned for it.
Seen(r, b) ==
  IF b = req[r].book /\ req[r].row # NoRow THEN req[r].row.rank ELSE books[b].rank

\* Mutant of LastRank: ORDER BY without DESC.
FirstRank(r, s) ==
  IF On(s) = {} THEN None
  ELSE Seen(r, CHOOSE b \in On(s) : \A c \in On(s) \ {b} : Less(books[b].rank, books[c].rank))

\* ORDER BY shelf_rank DESC LIMIT 1
LastRank(r, s) ==
  IF On(s) = {} THEN None
  ELSE Seen(r, CHOOSE b \in On(s) : \A c \in On(s) \ {b} : Less(books[c].rank, books[b].rank))

CanAppend(last) == last = None \/ HasRoom(last, None)

AppendRank(last) == IF last = None THEN Initial ELSE After(last)

\* The keys of n books appended one after the other, from where they run out None.
Appended(last, n) ==
  LET rank[i \in 0 .. n] ==
        IF i = 0 THEN last
        ELSE IF i > 1 /\ rank[i - 1] = None THEN None
        ELSE IF CanAppend(rank[i - 1]) THEN AppendRank(rank[i - 1]) ELSE None
  IN  rank

\* The books of a set in the order of their keys.
Position(b, S) == 1 + Cardinality({c \in S : Less(books[c].rank, books[b].rank)})

Sorted(S) == [i \in 1 .. Cardinality(S) |-> CHOOSE b \in S : Position(b, S) = i]

-----------------------------------------------------------------------------
\* Load: the request's arguments, and the row they name.
Begin(r, kind, request) ==
  /\ Answered(r)
  /\ kind \in Kinds
  /\ req' = [req EXCEPT ![r] = [request EXCEPT !.kind = kind]]
  /\ UNCHANGED <<books, shelves, default, locked>>

NextPC == IF default = NoShelf THEN "make_default" ELSE "loaded"

\* The bound MaxBooks leaves a row for every create_book that has begun.
RowLeft ==
  Cardinality({b \in BookIds : books[b].state = "none"}) >
  Cardinality({r \in Requests : req[r].kind = "create_book"})

\* Without a shelf_id the book goes to the default shelf, made if need be.
CreateBook(r) ==
  \E s \in ShelfIds \cup {NoShelf}, i \in Isbns \cup {NoIsbn} :
    /\ RowLeft
    /\ s # NoShelf => shelves[s] = "live"
    /\ s # NoShelf \/ default # NoShelf => ~ Registered(i)
    /\ Begin(r, "create_book",
         [Idle EXCEPT !.pc = IF s = NoShelf THEN NextPC ELSE "loaded",
                      !.shelf = IF s = NoShelf THEN default ELSE s, !.isbn = i])

Row(b) == [shelf |-> books[b].shelf, rank |-> books[b].rank]

MoveBookShelf(r) ==
  \E b \in BookIds, s \in ShelfIds \ Unused :
    /\ Live(b)
    /\ Begin(r, "move_book_shelf",
         [Idle EXCEPT !.pc = "loaded", !.book = b, !.shelf = s, !.row = Row(b)])

ReorderBook(r) ==
  \E b, pivot \in BookIds, side \in {"before", "after"} :
    /\ Live(b) /\ pivot # b /\ books[pivot].state # "none"
    /\ Begin(r, "reorder_book",
         [Idle EXCEPT !.pc = "loaded", !.book = b, !.shelf = books[b].shelf,
                      !.pivot = pivot, !.side = side, !.row = Row(b)])

GetShelves(r) ==
  /\ default = NoShelf
  /\ Begin(r, "get_shelves", [Idle EXCEPT !.pc = "make_default"])

DeleteShelf(r) ==
  \E s \in ShelfIds \ {default} :
    /\ shelves[s] = "live"
    /\ Begin(r, "delete_shelf", [Idle EXCEPT !.pc = NextPC, !.shelf = s])

\* Two operations whose read decides nothing that could change before their
\* commit: they are one step.
DeleteBook ==
  \E b \in BookIds :
    /\ "delete_book" \in Kinds
    /\ Live(b)
    /\ books' = [books EXCEPT ![b] = Gone("deleted")]
    /\ UNCHANGED <<shelves, default, locked, req>>

CreateShelf ==
  \E s \in Unused :
    /\ "create_shelf" \in Kinds
    /\ default = NoShelf => Unused # {s}  \* the bound leaves an id for it
    /\ shelves' = [shelves EXCEPT ![s] = "live"]
    /\ UNCHANGED <<books, default, locked, req>>

InsertDefault ==
  \E s \in Unused : default' = s /\ shelves' = [shelves EXCEPT ![s] = "live"]

\* Mutant of FindOrInsertDefault: no unique index on the member's default shelf.
AlwaysInsertDefault == IF Unused # {} THEN InsertDefault ELSE UNCHANGED <<default, shelves>>

\* get_or_create_default_shelf after it has found none: the INSERT, or the
\* IntegrityError of another request's INSERT and the second SELECT.
FindOrInsertDefault ==
  IF default = NoShelf THEN InsertDefault ELSE UNCHANGED <<default, shelves>>

MakeDefault(r) ==
  /\ req[r].pc = "make_default"
  /\ FindOrInsertDefault
  /\ req' = [req EXCEPT ![r] =
       CASE req[r].kind = "get_shelves"  -> Idle
         [] req[r].kind = "delete_shelf" -> [@ EXCEPT !.pc = "loaded"]
         [] req[r].kind = "create_book"  ->
              IF Registered(req[r].isbn) THEN Idle
              ELSE [@ EXCEPT !.pc = "loaded", !.shelf = default']]
  /\ UNCHANGED <<books, locked>>

-----------------------------------------------------------------------------
\* Plan: the columns that differ from the row as it was loaded.
Changed(new, old) == IF new = old THEN None ELSE new

\* Mutant of Lockable: a database without FOR UPDATE, which the code lets pass.
AlwaysLockable(s) == TRUE

\* SELECT ... FOR UPDATE returns.
Lockable(s) == locked[s] = NoRequest

\* create_book and move_book_shelf wait for the shelf's row lock and append.
\* Only move_book_shelf looks at deleted_at again once it has the lock.
PlanAppend(r) ==
  LET s    == req[r].shelf
      last == LastRank(r, s)
      new  == AppendRank(last)
  IN  /\ req[r].pc = "loaded"
      /\ req[r].kind \in {"create_book", "move_book_shelf"}
      /\ Lockable(s)
      /\ IF req[r].kind = "move_book_shelf" /\ shelves[s] # "live"
         THEN req' = [req EXCEPT ![r] = Idle] /\ UNCHANGED locked
         ELSE IF ~ CanAppend(last)
         THEN req' = [req EXCEPT ![r] = [Idle EXCEPT !.pc = "exhausted"]] /\ UNCHANGED locked
         ELSE /\ locked' = [locked EXCEPT ![s] = r]
              /\ req' = [req EXCEPT ![r] =
                   [@ EXCEPT !.pc = "planned", !.row = NoRow,
                             !.ranks = [b \in {req[r].book} |-> Changed(new, req[r].row.rank)],
                             !.to = IF s = req[r].row.shelf THEN NoShelf ELSE s]]
      /\ UNCHANGED <<books, shelves, default>>

\* The second and last attempt after a collision.  The rollback has released the
\* lock and expired the loaded row, so every column is written.
PlanAgain(r) ==
  LET last == LastRank(r, req[r].shelf)
  IN  /\ req[r].pc = "collided"
      /\ req' = [req EXCEPT ![r] =
           IF CanAppend(last)
           THEN [@ EXCEPT !.pc = "replanned", !.to = req[r].shelf,
                          !.ranks = [b \in {req[r].book} |-> AppendRank(last)]]
           ELSE [Idle EXCEPT !.pc = "exhausted"]]
      /\ UNCHANGED <<books, shelves, default, locked>>

\* reorder_book takes no lock.  Its new order is the shelf's other books with
\* the moved one before or after the pivot; it is written as one key when there
\* is room for one, and as a new key for every book when there is not.
PlanReorder(r) ==
  LET b    == req[r].book
      rest == On(req[r].shelf) \ {b}
      at   == Position(req[r].pivot, rest)
      prev == IF req[r].side = "before" THEN at - 1 ELSE at
      rank(i) == IF i \in 1 .. Cardinality(rest) THEN books[Sorted(rest)[i]].rank ELSE None
      spread == RebalancedSequence(Cardinality(rest) + 1)
      place(c) == LET i == Position(c, rest) IN IF i <= prev THEN i ELSE i + 1
      rebalanced == [c \in rest \cup {b} |->
        IF c = b THEN Changed(spread[prev + 1], req[r].row.rank)
                 ELSE Changed(spread[place(c)], books[c].rank)]
  IN  /\ req[r].pc = "loaded"
      /\ req[r].kind = "reorder_book"
      /\ req' = [req EXCEPT ![r] =
           IF req[r].pivot \notin rest THEN Idle
           ELSE [@ EXCEPT !.pc = "planned", !.row = NoRow, !.pivot = NewBook, !.side = "none",
                  !.ranks = IF HasRoom(rank(prev), rank(prev + 1))
                            THEN [c \in {b} |-> Changed(Between(rank(prev), rank(prev + 1)),
                                                        req[r].row.rank)]
                            ELSE rebalanced]]
      /\ UNCHANGED <<books, shelves, default, locked>>

\* delete_shelf appends the shelf's books to the default shelf, one after the
\* other, and takes no lock either.
PlanDeleteShelf(r) ==
  LET moved == On(req[r].shelf)
      keys  == Appended(LastRank(r, default), Cardinality(moved))
  IN  /\ req[r].pc = "loaded"
      /\ req[r].kind = "delete_shelf"
      /\ req' = [req EXCEPT ![r] =
           IF \E i \in 1 .. Cardinality(moved) : keys[i] = None THEN [Idle EXCEPT !.pc = "exhausted"]
           ELSE [@ EXCEPT !.pc = "planned", !.to = default,
                  !.ranks = [b \in moved |-> Changed(keys[Position(b, moved)], books[b].rank)]]]
      /\ UNCHANGED <<books, shelves, default, locked>>

\* Mutant of Release: the transaction of a failed request is left open.
KeepLocks(r) == locked

\* A row lock goes with its transaction.
Release(r) == [s \in ShelfIds |-> IF locked[s] = r THEN NoRequest ELSE locked[s]]

\* create_book can still be refused with the shelf locked: the page check, the
\* cover check.
Refuse(r) ==
  /\ req[r].pc = "planned" /\ req[r].kind = "create_book"
  /\ locked' = Release(r)
  /\ req' = [req EXCEPT ![r] = Idle]
  /\ UNCHANGED <<books, shelves, default>>

-----------------------------------------------------------------------------
\* Commit: delete_shelf first updates the row of its shelf, and keeps it locked
\* while it waits to write the books.
FlushShelf(r) ==
  /\ req[r].pc = "planned" /\ req[r].kind = "delete_shelf"
  /\ Lockable(req[r].shelf)
  /\ locked' = [locked EXCEPT ![req[r].shelf] = r]
  /\ req' = [req EXCEPT ![r].pc = "flushing"]
  /\ UNCHANGED <<books, shelves, default>>

\* Books are written when, because of the foreign key, the shelves they newly
\* refer to are not locked FOR UPDATE; delete_shelf's own lock is a weaker one.
NewShelves(r) ==
  CASE req[r].kind = "create_book"     -> {req[r].shelf}
    [] req[r].kind = "move_book_shelf" -> {req[r].to} \ {NoShelf, books[req[r].book].shelf}
    [] req[r].kind = "delete_shelf"    -> {req[r].to : b \in DOMAIN req[r].ranks}
    [] OTHER -> {}

Flushing(r) ==
  /\ req[r].pc \in IF req[r].kind = "delete_shelf" THEN {"flushing"} ELSE {"planned", "replanned"}
  /\ \A q \in Requests \ {r} : \A s \in NewShelves(r) :
       locked[s] = q => req[q].kind = "delete_shelf"

\* Mutant of Written: every column is in the UPDATE, changed or not.
WrittenInFull(r, b) ==
  [books[b] EXCEPT !.rank = req[r].ranks[b], !.shelf = req[r].to]

Written(r, b) ==
  [books[b] EXCEPT !.rank  = IF req[r].ranks[b] = None THEN @ ELSE req[r].ranks[b],
                   !.shelf = IF req[r].to = NoShelf THEN @ ELSE req[r].to]

\* Rows are updated one by one, in the order of their ids, and each is checked
\* against the unique indexes at once.  A row deleted in the meantime is written
\* too, out of their sight.
UpdateCollides(r) ==
  LET D == {b \in DOMAIN req[r].ranks : Live(b)}
  IN  \E b \in D : \E c \in {c \in BookIds \ {b} : Live(c)} :
        LET other == IF c \in D /\ c < b THEN Written(r, c) ELSE books[c]
        IN  other.shelf = Written(r, b).shelf /\ other.rank = Written(r, b).rank

\* Mutant of InsertCollides: no unique index on shelf_rank.
OnlyIsbnCollides(r) == Registered(req[r].isbn)

InsertCollides(r) ==
  \/ Registered(req[r].isbn)
  \/ \E c \in On(req[r].shelf) : books[c].rank = req[r].ranks[NewBook]

Collides(r) ==
  IF req[r].kind = "create_book" THEN InsertCollides(r) ELSE UpdateCollides(r)

Done(r) ==
  /\ req' = [req EXCEPT ![r] = Idle]
  /\ locked' = Release(r)

CommitInsert(r) ==
  /\ Flushing(r) /\ req[r].kind = "create_book" /\ ~ Collides(r)
  /\ \E b \in BookIds :
       /\ books[b].state = "none" /\ \A c \in 1 .. b - 1 : books[c].state # "none"
       /\ books' = [books EXCEPT ![b] =
            [state |-> "live", shelf |-> req[r].shelf, rank |-> req[r].ranks[NewBook],
             isbn |-> req[r].isbn]]
  /\ Done(r)
  /\ UNCHANGED <<shelves, default>>

CommitUpdate(r) ==
  /\ Flushing(r) /\ req[r].kind # "create_book" /\ ~ Collides(r)
  /\ books' = [b \in BookIds |->
       IF b \in DOMAIN req[r].ranks /\ Live(b) THEN Written(r, b) ELSE books[b]]
  /\ shelves' = IF req[r].kind = "delete_shelf"
                THEN [shelves EXCEPT ![req[r].shelf] = "deleted"] ELSE shelves
  /\ Done(r)
  /\ UNCHANGED default

\* IntegrityError.  Any of them looks like a shelf_rank collision to create_book
\* and move_book_shelf: the message they search quotes the SQL.
Collision(r) ==
  /\ Flushing(r) /\ Collides(r)
  /\ locked' = Release(r)
  /\ req' = [req EXCEPT ![r] =
       IF req[r].pc = "planned" /\ req[r].kind \in {"create_book", "move_book_shelf"}
       THEN [@ EXCEPT !.pc = "collided", !.ranks = << >>, !.to = NoShelf]
       ELSE [Idle EXCEPT !.pc = "failed"]]
  /\ UNCHANGED <<books, shelves, default>>

-----------------------------------------------------------------------------
Load(r) == CreateBook(r) \/ MoveBookShelf(r) \/ ReorderBook(r) \/ GetShelves(r) \/ DeleteShelf(r)

Proceed(r) ==
  \/ MakeDefault(r)
  \/ PlanAppend(r) \/ PlanAgain(r) \/ PlanReorder(r) \/ PlanDeleteShelf(r)
  \/ FlushShelf(r) \/ Refuse(r) \/ CommitInsert(r) \/ CommitUpdate(r) \/ Collision(r)

Next ==
  \/ DeleteBook \/ CreateShelf
  \/ \E r \in Requests : Load(r) \/ Proceed(r)

Spec == Init /\ [][Next]_vars

\* A request that has begun runs on; PostgreSQL grants a row lock in the order
\* it was asked for, so that no request waits behind others for ever.
FairSpec == Spec /\ \A r \in Requests : SF_vars(Proceed(r))

-----------------------------------------------------------------------------
Keys == Rank \cup {None}

Shelf == ShelfIds \cup {NoShelf}

IsRequest(q) ==
  /\ DOMAIN q = DOMAIN Idle
  /\ q.pc \in {"idle", "make_default", "loaded", "planned", "flushing", "collided",
               "replanned", "failed", "exhausted"}
  /\ q.kind \in AllKinds \cup {"none"}
  /\ q.side \in {"before", "after", "none"}
  /\ {q.book, q.pivot} \subseteq BookIds \cup {NewBook}
  /\ {q.shelf, q.to} \subseteq Shelf
  /\ q.isbn \in Isbns \cup {NoIsbn}
  /\ q.row \in [shelf : Shelf, rank : Keys]
  /\ DOMAIN q.ranks \subseteq BookIds \cup {NewBook}
  /\ \A b \in DOMAIN q.ranks : q.ranks[b] \in Keys

\* The values of the state.  A book that exists has a shelf, and a key that fits the
\* column and does not end in '0', whichever operations have written its row.
TypeOK ==
  /\ books \in [BookIds -> [state : {"none", "live", "deleted"},
                            shelf : Shelf, rank : Keys,
                            isbn  : Isbns \cup {NoIsbn}]]
  /\ \A b \in BookIds : Live(b) => books[b].shelf \in ShelfIds /\ books[b].rank \in Rank
  /\ shelves \in [ShelfIds -> {"none", "live", "deleted"}]
  /\ default \in Shelf
  /\ locked \in [ShelfIds -> Requests \cup {NoRequest}]
  /\ DOMAIN req = Requests /\ \A r \in Requests : IsRequest(req[r])

\* The key create_book has computed under the shelf's lock stays after those of
\* all the books of the shelf until it is committed, whatever the other requests
\* do in the meantime (the calls to the library and the AI agent come between).
CreatedBookIsLast ==
  \A r \in Requests :
    req[r].pc = "planned" /\ req[r].kind = "create_book" =>
      \A b \in On(req[r].shelf) : Less(books[b].rank, req[r].ranks[NewBook])

\* ... so that a registration collides only with one of the same ISBN, whatever
\* the retry takes the error for.
OnlyIsbnsCollide ==
  [][\A r \in Requests :
       req[r].kind = "create_book" /\ req[r].pc = "planned" /\ req'[r].pc = "collided"
       => Registered(req[r].isbn)]_vars

\* Two books of a shelf never have the same key, although a flush is checked row
\* by row against a half-written shelf.
KeysUnique ==
  \A b \in BookIds : Live(b) =>
    \A c \in On(books[b].shelf) \ {b} : books[c].rank # books[b].rank

\* A shelf that move_book_shelf has locked and found live is still there when the
\* book is put on it: delete_shelf needs the same lock.
LockedTargetIsLive ==
  \A r \in Requests :
    req[r].pc = "planned" /\ req[r].kind = "move_book_shelf" => shelves[req[r].shelf] = "live"

\* The member's default shelf is made once, by whichever request comes first, and
\* is there for good.
DefaultShelfForever ==
  [][default # NoShelf => default' = default /\ shelves'[default] = "live"]_vars

\* No book is left on a shelf that has been deleted.
NoBookOnDeletedShelf ==
  \A b \in BookIds : Live(b) => shelves[books[b].shelf] = "live"

\* A reordering finds room for the book: it is not answered with a 500.
ReorderNeverFails == \A r \in Requests : req[r].pc # "failed"

\* Every request is answered: none waits for ever for a row lock.
EveryRequestAnswered == \A r \in Requests : ~ Answered(r) ~> Answered(r)

=============================================================================

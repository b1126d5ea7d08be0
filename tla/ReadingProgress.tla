-------------------------- MODULE ReadingProgress --------------------------
(***************************************************************************)
(* The reading state of one book: how far it has been read, of how many    *)
(* pages, its status, and since when it is completed.  Four handlers write *)
(* it: BookService.create_book, update_book and update_progress, and       *)
(* ReadingSessionService.create_session.  Each but the first loads the     *)
(* row, computes the new values from what it has loaded, and commits the   *)
(* columns that changed; no lock is taken between the two.                 *)
(***************************************************************************)
EXTENDS Integers

CONSTANTS
  Requests,  \* the requests that can be in progress at the same time
  MaxPage,   \* bound: pages and page counts
  MaxTime    \* bound: ticks of the clock

ASSUME ReadingAssumption == MaxPage \in Nat /\ MaxTime \in Nat

Page == 0 .. MaxPage

\* total_pages is None or at least 1; completed_at is None or a time after 0.
NoTotal == 0
Never == 0

Status == {"PLANNED", "READING", "COMPLETED"}

VARIABLES
  book,  \* the row's reading_status, current_page, total_pages, completed_at
  now,   \* datetime.now(UTC)
  req    \* each request: whether it is under way, the row it has loaded, its new values

vars == <<book, now, req>>

Row == [status : Status, current : Page, total : Page, completed : 0 .. MaxTime + 1]

\* create_book: the row as it is inserted, with the status the client chose.
Registered(status, current, total, time) ==
  [status    |-> IF total # NoTotal /\ current = total THEN "COMPLETED"
                 ELSE IF status = "PLANNED" /\ current > 0 THEN "READING" ELSE status,
   current   |-> current,
   total     |-> total,
   completed |-> IF (total # NoTotal /\ current = total) \/ status = "COMPLETED"
                 THEN time ELSE Never]

Idle == [pc |-> "idle", kind |-> "none",
         old |-> Registered("PLANNED", 0, NoTotal, 1), new |-> Registered("PLANNED", 0, NoTotal, 1)]

Init ==
  /\ now = 1
  /\ \E status \in Status, current, total \in Page :
       /\ total # NoTotal => current <= total
       /\ book = Registered(status, current, total, now)
  /\ req = [r \in Requests |-> Idle]

-----------------------------------------------------------------------------
WithinTotal(row) == row.total # NoTotal => row.current <= row.total

Reached(row) == row.total # NoTotal /\ row.current >= row.total

\* Mutant of Since: the date is set anew at every page.
SinceNow(row) == now

Since(row) == IF row.completed = Never THEN now ELSE row.completed

\* update_progress to a page the row allows.
UpdateProgress(row, page) ==
  IF row.total # NoTotal /\ page = row.total
  THEN [row EXCEPT !.current = page, !.status = "COMPLETED", !.completed = Since(row)]
  ELSE IF page > 0
  THEN [row EXCEPT !.current = page, !.status = "READING", !.completed = Never]
  ELSE [row EXCEPT !.current = page,
                   !.completed = IF row.status = "COMPLETED" THEN Never ELSE @]

\* Mutant of UpdateBook: the date outlives the status.
UpdateBookOnly(row, status, total) ==
  LET new == IF total # NoTotal /\ row.current = total THEN "COMPLETED" ELSE status
  IN  [row EXCEPT !.status = new, !.total = total,
                  !.completed = IF new = "COMPLETED" THEN Since(row) ELSE @]

\* update_book replaces the status and the number of pages.
UpdateBook(row, status, total) ==
  LET new == IF total # NoTotal /\ row.current = total THEN "COMPLETED" ELSE status
  IN  [row EXCEPT !.status = new, !.total = total,
                  !.completed = IF new = "COMPLETED" THEN Since(row) ELSE Never]

\* Mutant of CreateSession: end_page taken for the number of pages read.
CreateSessionAdding(row, end) == [row EXCEPT !.current = @ + end]

\* create_session with an end_page; it never looks at whether the book has it.
CreateSession(row, end) ==
  LET read == [row EXCEPT !.current = IF end > @ THEN end ELSE @]
  IN  IF Reached(read)
      THEN [read EXCEPT !.status = "COMPLETED", !.completed = Since(row)]
      ELSE IF read.current > 0 /\ read.status = "PLANNED"
      THEN [read EXCEPT !.status = "READING"]
      ELSE read

-----------------------------------------------------------------------------
Load(r, kind, new) ==
  /\ req[r].pc = "idle"
  /\ req' = [req EXCEPT ![r] = [pc |-> "loaded", kind |-> kind, old |-> book, new |-> new]]
  /\ UNCHANGED <<book, now>>

LoadProgress(r) ==
  \E page \in Page :
    /\ WithinTotal([book EXCEPT !.current = page])
    /\ Load(r, "update_progress", UpdateProgress(book, page))

\* Mutant of LoadBook: total_pages is taken as it comes.
LoadBookUnchecked(r) ==
  \E status \in Status, total \in Page : Load(r, "update_book", UpdateBook(book, status, total))

LoadBook(r) ==
  \E status \in Status, total \in Page :
    /\ WithinTotal([book EXCEPT !.total = total])
    /\ Load(r, "update_book", UpdateBook(book, status, total))

LoadSession(r) ==
  \E end \in Page : Load(r, "create_session", CreateSession(book, end))

\* The UPDATE has the columns whose value is not the loaded one.
Commit(r) ==
  /\ req[r].pc = "loaded"
  /\ book' = [c \in DOMAIN book |->
       IF req[r].new[c] # req[r].old[c] THEN req[r].new[c] ELSE book[c]]
  /\ req' = [req EXCEPT ![r] = Idle]
  /\ UNCHANGED now

Tick ==
  /\ now <= MaxTime
  /\ now' = now + 1
  /\ UNCHANGED <<book, req>>

Next ==
  \/ Tick
  \/ \E r \in Requests : LoadProgress(r) \/ LoadBook(r) \/ LoadSession(r) \/ Commit(r)

Spec == Init /\ [][Next]_vars

\* A request that has loaded the row goes on to its commit.
FairSpec == Spec /\ \A r \in Requests : WF_vars(Commit(r))

-----------------------------------------------------------------------------
TypeOK ==
  /\ book \in Row
  /\ now \in 1 .. MaxTime + 1
  /\ req \in [Requests -> [pc   : {"idle", "loaded"},
                           kind : {"none", "update_progress", "update_book", "create_session"},
                           old  : Row, new : Row]]

\* While requests come one at a time: a book read to its last page, by whichever
\* handler, is completed, and only a completed book has a date of completion.
\* (The monthly report counts the books by that date.)
FinishedIsCompleted ==
  /\ Reached(book) => book.status = "COMPLETED"
  /\ book.completed # Never => book.status = "COMPLETED"

\* The date of completion is the first one: it stays as long as the book is
\* completed and has been read to any page at all.
CompletionDateKept ==
  [][/\ book.completed # Never
     /\ book'.status = "COMPLETED" /\ book'.current > 0
     => book'.completed = book.completed]_vars

\* Only a reading session takes a book beyond its last page; the other handlers
\* refuse to.
OnlySessionsOvershoot ==
  [][WithinTotal(book) /\ (\A r \in Requests : req[r].kind # "create_session")
     => WithinTotal(book')]_vars

\* Going back to an earlier page reopens the book: it is being read again, and not
\* completed.
GoingBackReopens ==
  [][book'.current < book.current =>
       book'.status = "READING" /\ book'.completed = Never]_vars

=============================================================================

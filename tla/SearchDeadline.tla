--------------------------- MODULE SearchDeadline ---------------------------
(***************************************************************************)
(* One GET /books/search: which sources it asks, how long it waits for     *)
(* each, and which one the answer is from.  Time is in tenths of a second. *)
(***************************************************************************)
EXTENDS Integers, FiniteSetsExt

CONSTANTS
  Lag,      \* how late the event loop may be with a timeout
  MaxWait,  \* bound: how long a wait without a deadline of its own takes at most
  Deadline  \* TOTAL_DEADLINE

ASSUME DeadlineAssumption == {Lag, MaxWait, Deadline} \subseteq Nat

VARIABLES
  lookup,   \* the search: what it looks for, where it stands, what it has found
  elapsed   \* since start_time

deadlineVars == <<lookup, elapsed>>

Asked == [given : {"isbn", "query"}, shape : {"empty", "text", "bad isbn", "isbn"}, member : BOOLEAN]

DeadlineInit ==
  /\ \E asked \in Asked :
       lookup = [asked |-> asked, pc |-> "route", found |-> {}, google |-> FALSE]
  /\ elapsed = 0

Goes(pc) == lookup' = [lookup EXCEPT !.pc = pc]

Finds(pc, found) == lookup' = [lookup EXCEPT !.pc = pc, !.found = @ \cup found]

\* The time that passes in a wait of at most so long.
Waits(atMost) == \E t \in 0 .. atMost : elapsed' = elapsed + t

-----------------------------------------------------------------------------
\* A parameter isbn must be one; a query that looks like one but is not, is a keyword.
Route ==
  LET asked == lookup.asked
  IN  /\ lookup.pc = "route"
      /\ Goes(IF asked.shape = "isbn" THEN "registered"
              ELSE IF asked.given = "isbn" \/ asked.shape = "empty" THEN "refused" ELSE "keyword")
      /\ UNCHANGED elapsed

\* YES24's keyword search under wait_for(2.5).
KeywordYes24 ==
  /\ lookup.pc = "keyword"
  /\ \/ Waits(25) /\ Finds("done", {"YES24"})
     \/ Waits(25 + Lag) /\ Goes("google")

\* The member's own book ends an ISBN search; start_time is read after it.
RegisteredBook ==
  /\ lookup.pc = "registered"
  /\ \/ lookup.asked.member /\ Finds("done", {"own"})
     \/ Goes("gather")
  /\ UNCHANGED elapsed

\* gather(fetch_yes24(), fetch_nl()): no deadline over it.
Gather ==
  /\ lookup.pc = "gather"
  /\ Waits(MaxWait)
  /\ \E found \in SUBSET {"YES24", "NL"} :
       Finds(IF found = {} THEN "google" ELSE IF found = {"NL"} THEN "title" ELSE "done", found)

\* lookup_by_title_and_author, if the National Library's book has a title.
TitleYes24 ==
  /\ lookup.pc = "title"
  /\ Waits(MaxWait)
  /\ \E found \in SUBSET {"YES24"} : Finds("done", found)

Remaining == Deadline - elapsed

\* Mutant of GoogleTimeout: what remains is not looked at.
GoogleTimeoutFixed == 20

\* gb_timeout
GoogleTimeout == Min({20, Remaining - 2})

AskGoogle ==
  /\ lookup.pc = "google" /\ Remaining >= 10
  /\ \/ Waits(GoogleTimeout) /\ lookup' = [lookup EXCEPT !.pc = "done", !.google = TRUE, !.found = {"GOOGLE"}]
     \/ Waits(GoogleTimeout + Lag) /\ lookup' = [lookup EXCEPT !.pc = "local", !.google = TRUE]

SkipGoogle ==
  /\ lookup.pc = "google" /\ Remaining < 10
  /\ Goes("local")
  /\ UNCHANGED elapsed

\* The fallbacks of the keyword search in the database: the member's books, all books.
LocalBooks ==
  /\ lookup.pc = "local"
  /\ IF lookup.asked.shape = "isbn" THEN Goes("done")
     ELSE \/ lookup.asked.member /\ Finds("done", {"own"})
          \/ Finds("done", {"pool"})
          \/ Goes("done")
  /\ UNCHANGED elapsed

DeadlineNext ==
  Route \/ KeywordYes24 \/ RegisteredBook \/ Gather \/ TitleYes24 \/ AskGoogle \/ SkipGoogle \/ LocalBooks

DeadlineSpec == DeadlineInit /\ [][DeadlineNext]_deadlineVars

-----------------------------------------------------------------------------
DeadlineTypeOK ==
  /\ lookup \in [asked : Asked, pc : {"route", "refused", "keyword", "registered", "gather",
                                      "title", "google", "local", "done"},
                 found : SUBSET {"own", "YES24", "NL", "GOOGLE", "pool"}, google : BOOLEAN]
  /\ elapsed \in Nat

\* A keyword search, and any search that asks Google Books, has done with the sources when
\* the 4.5 seconds are over, although each of its timeouts fires up to Lag late.
SearchWithinDeadline ==
  lookup.asked.shape # "isbn" \/ lookup.google => elapsed <= Deadline

=============================================================================

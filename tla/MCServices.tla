----------------------------- MODULE MCServices -----------------------------
(***************************************************************************)
(* Instances of the components of Services, of a few requests, rows and    *)
(* dates each.                                                             *)
(***************************************************************************)
EXTENDS Services, TLC

CONSTANTS r1, r2, me, shelf, book1, scrap, record, recordScrap, mine, pic, photo

SymRequests == Permutations({r1, r2})

\* A login checks the address, then the e-mail address; a guest's login the first alone.
MCHandlers == {<<"ip">>, <<"ip", "email">>}
MCLimits == [ip |-> 3, email |-> 2]

\* One row of every table; a scrap of the book and one of the record.
MCTableOf ==
  me :> "member" @@ shelf :> "shelf" @@ book1 :> "book" @@ scrap :> "scrap"
    @@ record :> "record" @@ recordScrap :> "record_scrap"
MCParentOf ==
  me :> me @@ shelf :> me @@ book1 :> me @@ record :> me
    @@ scrap :> book1 @@ recordScrap :> record

\* Both images may be the scrap's, one of them the profile's.
MCFits == scrap :> {pic, photo} @@ mine :> {pic}

\* A source whose empty answers are kept for a tick, or, when they must not be, not at all.
MCLives == "google" :> [items |-> {2}, empty |-> {0, 1}]

\* Books that differ in one digit or in two; X and 0 are among their check digits.
MCBodies == {<<8, 9, x, 4, 6, 0, 7, y, 2>> : x \in {0, 9}, y \in {3, 4, 8}}

MCGenreOf == "novel" :> "literature" @@ "notes" :> "none"
MCKinds == <<"history", "literature">>

\* Two months of three days.  They begin at the hours 24 and 96, and in Korea at 15 and 87:
\* activities lie on both sides of each, and sessions end on another day, or in another month.
MCFirstDay == <<1, 4, 7>>
Activity(kind, created, ended, title, from, to) ==
  [kind |-> kind, created |-> created, ended |-> ended, book |-> title, from |-> from, to |-> to]
MCActivities ==
  {Activity("session", 14, NoTime, "novel", 0, 5), Activity("session", 15, 12, "novel", 5, 3),
   Activity("session", 24, 47, "notes", 0, 2), Activity("session", 70, 74, "notes", 2, 9),
   Activity("session", 86, 95, "novel", 3, 9), Activity("session", 96, NoTime, "novel", 9, 9),
   Activity("record", 87, NoTime, "notes", 0, 0), Activity("record", 150, NoTime, "notes", 0, 0),
   Activity("scrap", 95, NoTime, "notes", 0, 0), Activity("registered", 23, NoTime, "novel", 0, 0),
   Activity("completed", 95, NoTime, "novel", 0, 9)}

=============================================================================

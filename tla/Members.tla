------------------------------ MODULE Members ------------------------------
(***************************************************************************)
(* Accounts that come into being on their first login: social, dev and     *)
(* demo members, and the shared guest.  The row is flushed, then           *)
(* get_or_create_default_shelf commits it together with the shelf, and     *)
(* only then follow the librarian, the guest's seed books and the second   *)
(* commit.  From the first commit on everybody can use the account.        *)
(***************************************************************************)
EXTENDS FiniteSets

CONSTANTS
  Accounts,       \* the e-mail addresses or fixed ids
  Guest,          \* the shared account: it gets seed books, and its creators expect company
  MemberRequests  \* the requests that can be in progress at the same time

ASSUME MemberAssumption == Guest \in Accounts

VARIABLES
  account,  \* what is committed of each account
  joining,  \* each request: its step and its account
  orphaned  \* history: the accounts whose creator died between its two commits

memberVars == <<account, joining, orphaned>>

\* "foreign": a librarian, or for the guest a book, that somebody else has put there.
Parts == {"member", "shelf", "librarian", "seeds", "foreign"}

Outside == [pc |-> "idle", of |-> Guest]

MemberInit ==
  /\ account = [a \in Accounts |-> {}]
  /\ joining = [r \in MemberRequests |-> Outside]
  /\ orphaned = {}

-----------------------------------------------------------------------------
Step(r, from, to) ==
  /\ joining[r].pc = from
  /\ joining' = [joining EXCEPT ![r].pc = to]

Leave(r) == joining' = [joining EXCEPT ![r] = Outside]

Gives(r, parts) == account' = [account EXCEPT ![joining[r].of] = @ \cup parts]

AtWork(a, steps) == \E r \in MemberRequests : joining[r].of = a /\ joining[r].pc \in steps

\* The SELECT finds no live member; one that is found is answered as it is, whole or not.
FindNobody(r, a) ==
  /\ joining[r].pc = "idle"
  /\ "member" \notin account[a]
  /\ joining' = [joining EXCEPT ![r] = [pc |-> "missing", of |-> a]]
  /\ UNCHANGED <<account, orphaned>>

\* The flush waits for another request's uncommitted row.  If that is committed, the guest's
\* request rolls back and polls; any other is answered with a 500.
InsertMember(r) ==
  LET a == joining[r].of
  IN  /\ joining[r].pc = "missing"
      /\ ~ AtWork(a, {"inserted"})
      /\ IF "member" \notin account[a] THEN Step(r, "missing", "inserted")
         ELSE IF a = Guest THEN Step(r, "missing", "poll") ELSE Leave(r)
      /\ UNCHANGED <<account, orphaned>>

\* get_or_create_default_shelf
CommitWithShelf(r) ==
  /\ Step(r, "inserted", "half")
  /\ Gives(r, {"member", "shelf"})
  /\ UNCHANGED orphaned

\* A login that finds the half-made account, and its first requests: a librarian is acquired,
\* or, by a guest, a book is registered on the empty shelf, at the key of a seed.
UseHalfMade(a) ==
  /\ AtWork(a, IF a = Guest THEN {"half", "given"} ELSE {"half"})
  /\ account' = [account EXCEPT ![a] = @ \cup {"foreign"}]
  /\ UNCHANGED <<joining, orphaned>>

\* _ensure_default_cat_librarian, not yet committed: not for a member who has acquired one.
GiveLibrarian(r) ==
  /\ Step(r, "half",
          IF joining[r].of # Guest /\ "foreign" \in account[joining[r].of] THEN "spoilt" ELSE "given")
  /\ UNCHANGED <<account, orphaned>>

\* The seed books of the guest are flushed one by one.  A visitor's book in the place of one
\* makes the flush fail, and with it go the librarian and the seeds; the request polls.
FlushSeeds(r) ==
  /\ joining[r].of = Guest
  /\ Step(r, "given", IF "foreign" \in account[Guest] THEN "poll" ELSE "seeded")
  /\ UNCHANGED <<account, orphaned>>

\* Mutant of CommitMember: what follows the shelf is never committed.
CommitMemberNot(r) ==
  /\ joining[r].pc \in {"given", "spoilt", "seeded"}
  /\ Leave(r)
  /\ UNCHANGED <<account, orphaned>>

CommitMember(r) ==
  LET own == IF joining[r].of = Guest THEN "seeded" ELSE "given"
  IN  /\ joining[r].pc \in {own, "spoilt"}
      /\ Gives(r, IF joining[r].pc = "spoilt" THEN {} ELSE
                  IF joining[r].of = Guest THEN {"librarian", "seeds"} ELSE {"librarian"})
      /\ Leave(r)
      /\ UNCHANGED orphaned

\* Ten looks, 20 ms apart, and the answer: the member, whole or not.
Poll(r) ==
  /\ joining[r].pc = "poll"
  /\ Leave(r)
  /\ UNCHANGED <<account, orphaned>>

\* The process dies, or the client leaves: what is not committed is rolled back.
JoinDies(r) ==
  /\ joining[r].pc # "idle"
  /\ Leave(r)
  /\ orphaned' = IF joining[r].pc \in {"half", "given", "spoilt", "seeded"}
                 THEN orphaned \cup {joining[r].of} ELSE orphaned
  /\ UNCHANGED account

MemberNext ==
  \/ \E a \in Accounts : UseHalfMade(a)
  \/ \E r \in MemberRequests :
       \/ \E a \in Accounts : FindNobody(r, a)
       \/ InsertMember(r) \/ CommitWithShelf(r) \/ GiveLibrarian(r) \/ FlushSeeds(r)
       \/ CommitMember(r) \/ Poll(r) \/ JoinDies(r)

MemberSpec == MemberInit /\ [][MemberNext]_memberVars

-----------------------------------------------------------------------------
MemberTypeOK ==
  /\ account \in [Accounts -> SUBSET Parts]
  /\ joining \in [MemberRequests -> [pc : {"idle", "missing", "inserted", "half", "given",
                                           "spoilt", "seeded", "poll"}, of : Accounts]]
  /\ orphaned \subseteq Accounts

\* The handlers promise a default shelf, a librarian and, to the guest, seed books.  An account
\* without them is one whose creator is still at work, or died between its two commits, or was
\* overtaken by somebody who used the account between them; nothing ever completes it then.
MembersAreWhole ==
  \A a \in Accounts :
    /\ "member" \in account[a] <=> "shelf" \in account[a]
    /\ "member" \in account[a] /\ "foreign" \notin account[a] /\ a \notin orphaned
         /\ ~ AtWork(a, {"half", "given", "seeded"})
       => "librarian" \in account[a] /\ (a = Guest => "seeds" \in account[a])

=============================================================================

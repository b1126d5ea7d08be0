----------------------------- MODULE Librarians -----------------------------
(***************************************************************************)
(* The librarians of one member.  LibrarianService loads a row, and writes *)
(* it in a later statement; the only row locks are those of the UPDATEs.   *)
(* A statement sees the rows as committed when it starts (READ COMMITTED), *)
(* waits for the rows that another transaction has changed, and then looks *)
(* again at those rows only.                                               *)
(***************************************************************************)
EXTENDS Integers, Sequences, FiniteSets

CONSTANTS
  Types,         \* the types of librarian a member can own
  FirstType,     \* CAT, which a registration gives
  LibRequests,   \* the requests that can be in progress at the same time
  MaxLibrarians  \* bound: rows ever inserted

ASSUME LibrarianAssumption == FirstType \in Types /\ MaxLibrarians \in Nat \ {0}

VARIABLES
  librarians,  \* the committed rows, by id
  libreq       \* each request: its step, the row or type it is about, its snapshot, its UPDATE

libVars == <<librarians, libreq>>

Librarian == [type : Types, rep : BOOLEAN, live : BOOLEAN, named : BOOLEAN]

\* held: the row that its UPDATE has changed and not yet committed.
LibIdle == [pc |-> "idle", target |-> 0, type |-> FirstType, seen |-> {}, held |-> {}]

LibInit ==
  /\ librarians = << [type |-> FirstType, rep |-> TRUE, live |-> TRUE, named |-> FALSE] >>
  /\ libreq = [r \in LibRequests |-> LibIdle]

-----------------------------------------------------------------------------
LiveOnes == {i \in DOMAIN librarians : librarians[i].live}

\* uk_librarian_member_type and uk_librarian_member_representative: among the live rows.
OwnsType(t) == \E i \in LiveOnes : librarians[i].type = t
Representatives == {i \in LiveOnes : librarians[i].rep}

HeldByOther(r, i) == \E o \in LibRequests \ {r} : i \in libreq[o].held

At(r, pc) == libreq[r].pc = pc

\* The request ends: answered after its commit, refused, or rolled back.
Ends(r) == libreq' = [libreq EXCEPT ![r] = LibIdle]

\* acquire_librarian: the type must not be owned; two requests may both find it so.
AcquireCheck(r, t) ==
  /\ At(r, "idle")
  /\ ~ OwnsType(t)
  /\ libreq' = [libreq EXCEPT ![r] = [LibIdle EXCEPT !.pc = "acquire", !.type = t]]
  /\ UNCHANGED librarians

\* The INSERT; the index refuses it (500) when another has been faster.
AcquireCommit(r) ==
  /\ At(r, "acquire")
  /\ LET row == [type |-> libreq[r].type, rep |-> FALSE, live |-> TRUE, named |-> FALSE]
     IN  IF OwnsType(row.type) THEN UNCHANGED librarians
         ELSE /\ Len(librarians) < MaxLibrarians
              /\ librarians' = Append(librarians, row)
  /\ Ends(r)

\* rename, delete and set_representative all begin with the SELECT of a live row.
LoadLibrarian(r, i, pc) ==
  /\ At(r, "idle")
  /\ i \in LiveOnes
  /\ libreq' = [libreq EXCEPT ![r] = [LibIdle EXCEPT !.pc = pc, !.target = i]]
  /\ UNCHANGED librarians

\* UPDATE ... WHERE id = target: the row may have been deleted since it was loaded.
WriteById(r, pc, change(_)) ==
  /\ At(r, pc)
  /\ ~ HeldByOther(r, libreq[r].target)
  /\ librarians' = [librarians EXCEPT ![libreq[r].target] = change(@)]
  /\ Ends(r)

RenameCommit(r) ==
  LET Renamed(row) == [row EXCEPT !.named = TRUE] IN WriteById(r, "rename", Renamed)

DeleteCommit(r) ==
  LET Deleted(row) == [row EXCEPT !.live = FALSE] IN WriteById(r, "delete", Deleted)

\* set_representative: the UPDATE that clears the flag starts, and finds its rows.
SetScan(r) ==
  /\ At(r, "set")
  /\ libreq' = [libreq EXCEPT ![r].pc = "reset", ![r].seen = Representatives]
  /\ UNCHANGED librarians

\* Mutant of SetReset: the flag is cleared in a transaction of its own.
SetResetCommitted(r) ==
  /\ At(r, "reset")
  /\ \A i \in libreq[r].seen : ~ HeldByOther(r, i)
  /\ librarians' = [i \in DOMAIN librarians |->
                      IF i \in libreq[r].seen THEN [librarians[i] EXCEPT !.rep = FALSE]
                                              ELSE librarians[i]]
  /\ libreq' = [libreq EXCEPT ![r].pc = "setting"]

\* It has waited for them; those that are no longer the representative are left alone.
SetReset(r) ==
  /\ At(r, "reset")
  /\ \A i \in libreq[r].seen : ~ HeldByOther(r, i)
  /\ libreq' = [libreq EXCEPT ![r].pc = "setting",
                              ![r].held = libreq[r].seen \cap Representatives]
  /\ UNCHANGED librarians

\* The flush of the flag, and the commit of both.  The index waits for a transaction that is
\* clearing another row's flag, and refuses (500, rollback) when another row bears it.
SetCommit(r) ==
  LET target == libreq[r].target
      rivals == Representatives \ (libreq[r].held \cup {target})
      free == ~ librarians[target].live \/ rivals = {}
  IN  /\ At(r, "setting")
      /\ ~ HeldByOther(r, target)
      /\ librarians[target].live => \A i \in rivals : ~ HeldByOther(r, i)
      /\ librarians' = [i \in DOMAIN librarians |->
                          IF ~ free THEN librarians[i]
                          ELSE IF i = target THEN [librarians[i] EXCEPT !.rep = TRUE]
                          ELSE IF i \in libreq[r].held THEN [librarians[i] EXCEPT !.rep = FALSE]
                          ELSE librarians[i]]
      /\ Ends(r)

\* The client leaves or the process dies: the transaction is rolled back.
LibDies(r) ==
  /\ libreq[r].pc # "idle"
  /\ Ends(r)
  /\ UNCHANGED librarians

LibNext == \E r \in LibRequests :
  \/ \E t \in Types : AcquireCheck(r, t)
  \/ \E i \in DOMAIN librarians, pc \in {"rename", "delete", "set"} : LoadLibrarian(r, i, pc)
  \/ AcquireCommit(r) \/ RenameCommit(r) \/ DeleteCommit(r)
  \/ SetScan(r) \/ SetReset(r) \/ SetCommit(r) \/ LibDies(r)

LibSpec == LibInit /\ [][LibNext]_libVars

-----------------------------------------------------------------------------
LibTypeOK ==
  /\ librarians \in Seq(Librarian)
  /\ libreq \in [LibRequests ->
       [pc : {"idle", "acquire", "rename", "delete", "set", "reset", "setting"},
        target : 0 .. MaxLibrarians, type : Types,
        seen : SUBSET (1 .. MaxLibrarians), held : SUBSET (1 .. MaxLibrarians)]]

\* Whatever set_representative, delete and rename do to each other, the flag is never lost
\* between two of them and never on two living librarians: a member is left without a
\* representative only because the librarian that bears the flag has been deleted.
RepresentativeNeverDropped ==
  /\ \E i \in DOMAIN librarians : librarians[i].rep
  /\ Cardinality(Representatives) <= 1

=============================================================================

----------------------------- MODULE DemoReset -----------------------------
(***************************************************************************)
(* The books of the demo or guest account, which anyone may change, and    *)
(* the reset that is to bring the seed books back.  The reset loads all    *)
(* rows, deleted ones too, removes those whose ISBN is not a seed's,       *)
(* revives the others where they were, and inserts the seeds that are      *)
(* missing; the unique indexes decide whether that can be committed.  The  *)
(* account has one shelf: it may not create others.  A request is one step *)
(* here: how registrations and moves overlap is Bookshelf's subject.       *)
(***************************************************************************)
EXTENDS Integers, Sequences, FiniteSets, SequencesExt

CONSTANTS
  Seeds,         \* DEMO_SEED_ISBNS or GUEST_SEED_ISBNS
  OtherIsbns,    \* what else visitors register
  Quota,         \* DEMO_MAX_BOOKS
  KeyBase,       \* the size of the keys' alphabet
  MaxRows,       \* bound: rows at a time
  MaxKey         \* bound: the characters of a key

ASSUME DemoAssumption == /\ {Quota, KeyBase, MaxRows, MaxKey} \subseteq Nat /\ KeyBase >= 2
                         /\ IsFiniteSet(Seeds) /\ Seeds \cap OtherIsbns = {}

Key == INSTANCE ShelfRank WITH BASE <- KeyBase, MAX_LENGTH <- 128

VARIABLES
  shelved,  \* the rows, oldest first, deleted ones too: ISBN, state, order key, and whether
            \* there are scraps that are none of the seed's
  answer    \* history: what the last reset was answered, if it was the last thing to happen

demoVars == <<shelved, answer>>

Isbns == Seeds \cup OtherIsbns

SeedRow(isbn, key) ==
  [isbn |-> isbn, state |-> "live", key |-> key, extra |-> FALSE]

\* The rows of a set of seeds with fresh keys; a Python set has no order of its own.
FreshRows(isbns) ==
  {[n \in 1 .. Cardinality(isbns) |-> SeedRow(s[n], Key!RebalancedSequence(Cardinality(isbns))[n])]
     : s \in {t \in [1 .. Cardinality(isbns) -> isbns] : {t[n] : n \in DOMAIN t} = isbns}}

DemoInit ==
  /\ shelved \in FreshRows(Seeds)
  /\ answer = "none"

-----------------------------------------------------------------------------
LiveRows(rows) == {i \in DOMAIN rows : rows[i].state = "live"}

\* uk_library_book_member_isbn and uk_library_book_shelf_rank
Unique(rows) ==
  \A i, j \in LiveRows(rows) : i # j =>
    rows[i].isbn # rows[j].isbn /\ rows[i].key # rows[j].key

InUse(isbn) == \E i \in LiveRows(shelved) : shelved[i].isbn = isbn

\* The key after the last book; without room after it there is none, and the answer is 500.
NextKeys ==
  LET keys == {shelved[i].key : i \in LiveRows(shelved)}
      last == {k \in keys : \A other \in keys : other = k \/ Key!Less(other, k)}
      next == IF keys = {} THEN {Key!Initial}
              ELSE {Key!After(k) : k \in {l \in last : Key!HasRoom(l, Key!None)}}
  IN  {k \in next : Len(k) <= MaxKey}

Writes(rows) == shelved' = rows /\ answer' = "none"

\* create_book
RegisterDemoBook ==
  /\ Cardinality(LiveRows(shelved)) < Quota
  /\ Len(shelved) < MaxRows
  /\ \E isbn \in Isbns, key \in NextKeys :
       ~ InUse(isbn) /\ Writes(Append(shelved, SeedRow(isbn, key)))

\* delete_book (the scraps go with it), update_book with another ISBN, move_book_shelf to the
\* same shelf, create_scrap and delete_scrap.
ChangeDemoBook ==
  \E i \in LiveRows(shelved) :
    \/ Writes([shelved EXCEPT ![i].state = "deleted", ![i].extra = FALSE])
    \/ \E isbn \in Isbns : ~ InUse(isbn) /\ Writes([shelved EXCEPT ![i].isbn = isbn])
    \/ \E key \in NextKeys : Writes([shelved EXCEPT ![i].key = key])
    \/ \E more \in BOOLEAN : Writes([shelved EXCEPT ![i].extra = more])

\* Mutant of Revived: deleted_at is left as it is.
RevivedNot(row) == [row EXCEPT !.extra = FALSE]

\* Scraps whose sentence is none of the seed's are removed, deleted_at is cleared (and the
\* progress set back); the key stays what it was.
Revived(row) == [row EXCEPT !.state = "live", !.extra = FALSE]

\* The loop that tells seed_books from surplus_books.
Kept(rows, row) == IF row.isbn \in Seeds THEN Append(rows, row) ELSE rows

\* reset_member_by_seed: DELETE, UPDATEs, INSERTs, and a commit unless an index refuses (500).
Reset ==
  LET left == FoldLeft(Kept, << >>, shelved)
      revived == [i \in DOMAIN left |-> Revived(left[i])]
  IN  \E fresh \in FreshRows(Seeds \ {left[i].isbn : i \in DOMAIN left}) :
        /\ Len(left \o fresh) <= MaxRows
        /\ IF Unique(revived \o fresh)
           THEN shelved' = revived \o fresh /\ answer' = "restored"
           ELSE shelved' = shelved /\ answer' = "failed"

Refused == << SeedRow("none", << >>) >>

\* seed_account of scripts/seed_demo_library.py, for one seed: a row that has its ISBN, deleted
\* or not, or a new one, gets the seed's place, and the flush fails when the place is
\* taken.  Scraps are added, and none removed.
Seeded(rows, seed) ==
  LET same == {i \in DOMAIN rows : rows[i].isbn = seed.isbn}
      old == CHOOSE i \in same : TRUE
      next == IF same = {} THEN Append(rows, seed)
              ELSE [rows EXCEPT ![old] = [seed EXCEPT !.extra = rows[old].extra]]
  IN  IF rows # Refused /\ Unique(next) THEN next ELSE Refused

\* The script: with --reset it first removes, and commits, all that is there.
SeedScript(reset) ==
  \E seeds \in FreshRows(Seeds) :
    LET before == IF reset THEN << >> ELSE shelved
        after == FoldLeft(Seeded, before, seeds)
    IN  /\ Len(after) <= MaxRows
        /\ Writes(IF after = Refused THEN before ELSE after)

DemoNext ==
  \/ RegisterDemoBook
  \/ ChangeDemoBook
  \/ Reset
  \/ \E reset \in BOOLEAN : SeedScript(reset)

DemoSpec == DemoInit /\ [][DemoNext]_demoVars

-----------------------------------------------------------------------------
DemoTypeOK ==
  /\ shelved \in Seq([isbn : Isbns, state : {"live", "deleted"},
                     key : Seq(0 .. KeyBase - 1), extra : BOOLEAN])
  /\ answer \in {"none", "restored", "failed"}

\* A reset that is answered with success leaves the seeds and nothing else, each once and
\* without a visitor's scraps, and no two books in one place: whatever visitors have deleted,
\* registered again, relabelled, moved or scrapped before.
ResetRestores ==
  answer = "restored" =>
    /\ \A isbn \in Seeds : Cardinality({i \in LiveRows(shelved) : shelved[i].isbn = isbn}) = 1
    /\ \A i \in LiveRows(shelved) :
         shelved[i].isbn \in Seeds /\ ~ shelved[i].extra
    /\ Unique(shelved)

\* The reset's docstring calls it an idempotent restoration: it should never be refused.
ResetSucceeds == answer # "failed"

=============================================================================

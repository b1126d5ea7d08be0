----------------------------- MODULE SoftDelete -----------------------------
(***************************************************************************)
(* What is deleted with what.  Nothing is ever removed: rows get           *)
(* deleted_at, those of a book, of a record or of a member by UPDATEs that *)
(* take all the live rows of a table they see when they start, wait for    *)
(* rows that others have changed, and look at those again.  A row that is  *)
(* inserted meanwhile is not seen.                                         *)
(***************************************************************************)
EXTENDS Integers, Sequences, SequencesExt

CONSTANTS
  Items,           \* the rows of one member
  TableOf,         \* the table of each
  ParentOf,        \* the book of a scrap, the record of a record's scrap, else the member
  MemberRow,       \* the row of the member
  CascadeRequests  \* the requests that can be in progress at the same time

ASSUME CascadeAssumption ==
  /\ MemberRow \in Items /\ \A i \in Items : TableOf[i] = "member" <=> i = MemberRow
  /\ TableOf \in [Items -> {"member", "shelf", "librarian", "book", "scrap",
                            "record", "record_scrap"}]
  /\ ParentOf \in [Items -> Items]
  /\ \A i \in Items : CASE TableOf[i] = "scrap" -> TableOf[ParentOf[i]] = "book"
                      [] TableOf[i] = "record_scrap" -> TableOf[ParentOf[i]] = "record"
                      [] OTHER -> ParentOf[i] = MemberRow

VARIABLES
  item,      \* each row, as committed: not there yet, live or deleted
  cascade,   \* each request: what it deletes or creates, and how far it is; and, as history,
             \* the rows that were live when it began
  raced      \* history: the rows inserted when a deletion that should take them had passed

cascadeVars == <<item, cascade, raced>>

Children == {i \in Items : ParentOf[i] # MemberRow}
Of(table) == {i \in Items : TableOf[i] = table}
Living == {i \in Items : item[i] = "live"}

NoCascade == [op |-> "none", of |-> MemberRow, todo |-> << >>, seen |-> {}, held |-> {}, began |-> {}]

\* Shelves and librarians are there from the registration on.
CascadeInit ==
  /\ item \in [Items -> {"none", "live"}]
  /\ \A i \in Items : TableOf[i] \in {"member", "shelf", "librarian", "book"} => item[i] = "live"
  /\ \A i \in Children : item[i] = item[ParentOf[i]] \/ (TableOf[i] = "scrap" /\ item[i] = "none")
  /\ cascade = [r \in CascadeRequests |-> NoCascade]
  /\ raced = {}

-----------------------------------------------------------------------------
Started(r, op, i, todo) ==
  /\ cascade[r] = NoCascade
  /\ cascade' = [cascade EXCEPT ![r] = [op |-> op, of |-> i, todo |-> todo, seen |-> {}, held |-> {},
                                      began |-> IF op = "withdraw" THEN Living ELSE {}]]
  /\ UNCHANGED <<item, raced>>

Done(r) == cascade' = [cascade EXCEPT ![r] = NoCascade]

\* create_scrap: the SELECT of the live book; the INSERT is later.
StartScrap(r, i) ==
  /\ TableOf[i] = "scrap" /\ item[i] = "none" /\ item[ParentOf[i]] = "live"
  /\ \A o \in CascadeRequests : cascade[o].op = "create" => cascade[o].of # i
  /\ Started(r, "create", i, << >>)

\* Its table's UPDATE has started, in a deletion that takes the row with its parent.
PassedBy(i) ==
  \E r \in CascadeRequests :
    /\ cascade[r].op = "withdraw" \/ (cascade[r].op = "cascade" /\ cascade[r].of = ParentOf[i])
    /\ \/ ~ Contains(cascade[r].todo, TableOf[i])
       \/ Head(cascade[r].todo) = TableOf[i] /\ cascade[r].seen # {}

InsertScrap(r) ==
  LET i == cascade[r].of
  IN  /\ cascade[r].op = "create"
      /\ item' = [item EXCEPT ![i] = "live"]
      /\ raced' = IF item[ParentOf[i]] # "live" \/ PassedBy(i) THEN raced \cup {i} ELSE raced
      /\ Done(r)

\* create_record: the record and its scraps in one commit, with no look at book or member.
CreateRecord(p) ==
  LET own == {i \in Children : ParentOf[i] = p}
  IN  /\ TableOf[p] = "record" /\ item[p] = "none"
      /\ item' = [i \in Items |-> IF i \in own \cup {p} THEN "live" ELSE item[i]]
      /\ raced' = raced \cup {i \in own : PassedBy(i)}
      /\ UNCHANGED cascade

\* delete_scrap, and delete_book and delete_record with the scraps.
StartDelete(r, i) ==
  /\ TableOf[i] \in {"scrap", "book", "record"} /\ item[i] = "live"
  /\ Started(r, "cascade", i, CASE TableOf[i] = "scrap" -> << >>
                                [] TableOf[i] = "book" -> <<"scrap">>
                                [] TableOf[i] = "record" -> <<"record_scrap">>)

\* Mutant of StartWithdraw: the records' scraps are left to the records.
StartWithdrawShort(r) ==
  /\ item[MemberRow] = "live"
  /\ Started(r, "withdraw", MemberRow, <<"scrap", "book", "shelf", "record", "librarian">>)

\* withdraw_member
StartWithdraw(r) ==
  /\ item[MemberRow] = "live"
  /\ Started(r, "withdraw", MemberRow,
             <<"scrap", "book", "shelf", "record_scrap", "record", "librarian">>)

\* Mutant of Scan: the statement takes what the book or record had when it was loaded.
ScanNothing(r) ==
  /\ cascade[r].todo # << >> /\ cascade[r].seen = {}
  /\ cascade' = [cascade EXCEPT ![r].todo = Tail(@)]
  /\ UNCHANGED <<item, raced>>

\* The next UPDATE starts; one that sees no row is over.
Scan(r) ==
  LET c == cascade[r]
      rows == {i \in Of(Head(c.todo)) \cap Living : c.op = "withdraw" \/ ParentOf[i] = c.of}
  IN  /\ c.todo # << >> /\ c.seen = {}
      /\ cascade' = IF rows = {} THEN [cascade EXCEPT ![r].todo = Tail(@)]
                                 ELSE [cascade EXCEPT ![r].seen = rows]
      /\ UNCHANGED <<item, raced>>

HeldByOthers(r) == UNION {cascade[o].held : o \in CascadeRequests \ {r}}

\* It has its rows; those that were deleted meanwhile keep the time they have.
Take(r) ==
  LET c == cascade[r]
  IN  /\ c.seen # {}
      /\ c.seen \cap HeldByOthers(r) = {}
      /\ cascade' = [cascade EXCEPT ![r].todo = Tail(@), ![r].seen = {},
                                    ![r].held = @ \cup (c.seen \cap Living)]
      /\ UNCHANGED <<item, raced>>

\* The book, record, scrap or member itself is flushed last, by its id, and all is committed.
CommitCascade(r) ==
  LET c == cascade[r]
  IN  /\ c.op \in {"cascade", "withdraw"} /\ c.todo = << >>
      /\ c.of \notin HeldByOthers(r)
      /\ item' = [i \in Items |-> IF i \in c.held \cup {c.of} THEN "deleted" ELSE item[i]]
      /\ Done(r)
      /\ UNCHANGED raced

\* The client leaves or the process dies: the transaction is rolled back.
RolledBack(r) ==
  /\ cascade[r] # NoCascade
  /\ Done(r)
  /\ UNCHANGED <<item, raced>>

CascadeNext ==
  \/ \E p \in Items : CreateRecord(p)
  \/ \E r \in CascadeRequests :
       \/ \E i \in Items : StartScrap(r, i) \/ StartDelete(r, i)
       \/ StartWithdraw(r) \/ InsertScrap(r) \/ Scan(r) \/ Take(r)
       \/ CommitCascade(r) \/ RolledBack(r)

CascadeSpec == CascadeInit /\ [][CascadeNext]_cascadeVars

-----------------------------------------------------------------------------
CascadeTypeOK ==
  /\ item \in [Items -> {"none", "live", "deleted"}]
  /\ \A r \in CascadeRequests :
       /\ cascade[r].op \in {"none", "create", "cascade", "withdraw"}
       /\ cascade[r].of \in Items
       /\ cascade[r].seen \cup cascade[r].held \cup cascade[r].began \subseteq Items
  /\ raced \subseteq Items

\* withdraw_member promises to delete all of the member's data: whatever runs meanwhile, the
\* rows that were there when it began are deleted once it has committed.
WithdrawalIsWhole ==
  [][\A r \in CascadeRequests :
       cascade[r].op = "withdraw" /\ item[MemberRow]' = "deleted" /\ cascade[r]' = NoCascade
         /\ item # item'
       => \A i \in cascade[r].began : item[i]' = "deleted"]_cascadeVars

\* A living scrap of a deleted book, or of a deleted record, is there only because it was
\* inserted after the deletion had gone through its table, or after its commit.
OrphansRaced ==
  \A i \in Children : item[i] = "live" /\ item[ParentOf[i]] = "deleted" => i \in raced

=============================================================================

--------------------------- MODULE ServicesProofs ---------------------------
(***************************************************************************)
(* ReadingProgress for every number of pages and every time: the columns   *)
(* keep their types under any number of requests; what relates them to     *)
(* each other needs requests that come one at a time.  And Services: each  *)
(* of its components behaves as it does by itself, so that the theorems    *)
(* about the components are theorems about Services, and the variables of  *)
(* all of them keep their types.                                           *)
(***************************************************************************)
EXTENDS Services, AccountProofs, SearchProofs

-----------------------------------------------------------------------------
(* The progress of a book.                                                 *)

Fields == {"status", "current", "total", "completed"}

Agrees(row) ==
  /\ Reached(row) => row.status = "COMPLETED"
  /\ row.completed # Never => row.status = "COMPLETED"

\* What a handler computes from a row in which the columns agree.
Computed(kind, old, new) ==
  /\ Agrees(new)
  /\ old.completed # Never /\ new.status = "COMPLETED" /\ new.current > 0 =>
       new.completed = old.completed
  /\ kind # "create_session" => WithinTotal(new)

OneRequest == \A q, r \in Requests : q = r

\* A lone request still has before it the row it has loaded, so what it commits is
\* the row it has computed.
LoadedInv ==
  \A r \in Requests :
    req[r].pc = "loaded" => req[r].old = book /\ Computed(req[r].kind, book, req[r].new)

Inv == TypeOK /\ Agrees(book) /\ LoadedInv

-----------------------------------------------------------------------------
LEMMA RegisteredRow ==
  ASSUME NEW status \in Status, NEW current \in Page, NEW total \in Page,
         NEW time \in 1 .. MaxTime + 1
  PROVE  /\ Registered(status, current, total, time) \in Row
         /\ (total # NoTotal => current <= total) =>
              Agrees(Registered(status, current, total, time))
<1> DEFINE row == Registered(status, current, total, time)
<1>1. /\ row.status = IF total # NoTotal /\ current = total THEN "COMPLETED"
                      ELSE IF status = "PLANNED" /\ current > 0 THEN "READING" ELSE status
      /\ row.current = current /\ row.total = total
      /\ row.completed = IF (total # NoTotal /\ current = total) \/ status = "COMPLETED"
                         THEN time ELSE Never
      /\ row = [status |-> row.status, current |-> row.current, total |-> row.total,
                completed |-> row.completed]
  BY DEF Registered
<1> HIDE DEF row
<1>2. row \in Row
  BY <1>1, ReadingAssumption DEF Row, Status, Page, Never
<1>3. (total # NoTotal => current <= total) => Agrees(row)
  BY <1>1, ReadingAssumption DEF Agrees, Reached, Status, Page, Never
<1>4. QED
  BY <1>2, <1>3 DEF row

LEMMA IdleRow == Idle.pc = "idle" /\ Idle.kind = "none" /\ Idle.old \in Row /\ Idle.new \in Row
                 /\ DOMAIN Idle = {"pc", "kind", "old", "new"}
                 /\ Idle = [pc |-> Idle.pc, kind |-> Idle.kind, old |-> Idle.old, new |-> Idle.new]
<1>1. Registered("PLANNED", 0, NoTotal, 1) \in Row
  BY RegisteredRow, ReadingAssumption DEF Status, Page, NoTotal
<1>2. QED
  BY <1>1 DEF Idle

LEMMA UpdateProgressRow ==
  ASSUME NEW row \in Row, NEW page \in Page, now \in 1 .. MaxTime + 1
  PROVE  /\ UpdateProgress(row, page) \in Row
         /\ Agrees(row) /\ (row.total # NoTotal => page <= row.total) =>
              Computed("update_progress", row, UpdateProgress(row, page))
<1> DEFINE new == UpdateProgress(row, page)
           finished == row.total # NoTotal /\ page = row.total
<1>1. /\ new.status = IF finished THEN "COMPLETED" ELSE IF page > 0 THEN "READING" ELSE row.status
      /\ new.current = page /\ new.total = row.total
      /\ new.completed = IF finished THEN Since(row)
                         ELSE IF page > 0 \/ row.status = "COMPLETED" THEN Never
                         ELSE row.completed
      /\ new = [status |-> new.status, current |-> new.current, total |-> new.total,
                completed |-> new.completed]
  BY DEF UpdateProgress, Row
<1> HIDE DEF new
<1>2. Since(row) \in 1 .. MaxTime + 1 /\ (row.completed # Never => Since(row) = row.completed)
  BY DEF Since, Row, Never
<1>3. new \in Row
  BY <1>1, <1>2, ReadingAssumption DEF Row, Status, Never
<1>4. Agrees(row) /\ (row.total # NoTotal => page <= row.total) =>
        Computed("update_progress", row, new)
  BY <1>1, <1>2, ReadingAssumption
     DEF Computed, Agrees, Reached, WithinTotal, Row, Status, Page, Never, NoTotal
<1>5. QED
  BY <1>3, <1>4 DEF new

LEMMA UpdateBookRow ==
  ASSUME NEW row \in Row, NEW status \in Status, NEW total \in Page, now \in 1 .. MaxTime + 1
  PROVE  /\ UpdateBook(row, status, total) \in Row
         /\ (total # NoTotal => row.current <= total) =>
              Computed("update_book", row, UpdateBook(row, status, total))
<1> DEFINE new == UpdateBook(row, status, total)
           becomes == IF total # NoTotal /\ row.current = total THEN "COMPLETED" ELSE status
           since == IF becomes = "COMPLETED" THEN Since(row) ELSE Never
<1>0. new = [row EXCEPT !.status = becomes, !.total = total, !.completed = since]
  BY DEF UpdateBook
<1> HIDE DEF since
<1>1. /\ new.status = becomes
      /\ new.current = row.current /\ new.total = total
      /\ new.completed = since
      /\ new = [status |-> new.status, current |-> new.current, total |-> new.total,
                completed |-> new.completed]
  BY <1>0 DEF Row
<1> HIDE DEF new
<1> USE DEF since
<1>2. Since(row) \in 1 .. MaxTime + 1 /\ (row.completed # Never => Since(row) = row.completed)
  BY DEF Since, Row, Never
<1>3. new \in Row
  BY <1>1, <1>2, ReadingAssumption DEF Row, Status, Never
<1>4. (total # NoTotal => row.current <= total) => Computed("update_book", row, new)
  BY <1>1, <1>2, ReadingAssumption
     DEF Computed, Agrees, Reached, WithinTotal, Row, Status, Page, Never, NoTotal
<1>5. QED
  BY <1>3, <1>4 DEF new

LEMMA CreateSessionRow ==
  ASSUME NEW row \in Row, NEW end \in Page, now \in 1 .. MaxTime + 1
  PROVE  /\ CreateSession(row, end) \in Row
         /\ Agrees(row) => Computed("create_session", row, CreateSession(row, end))
<1> DEFINE new == CreateSession(row, end)
           page == IF end > row.current THEN end ELSE row.current
           finished == row.total # NoTotal /\ page >= row.total
<1>1. /\ new.status = IF finished THEN "COMPLETED"
                      ELSE IF page > 0 /\ row.status = "PLANNED" THEN "READING" ELSE row.status
      /\ new.current = page /\ new.total = row.total
      /\ new.completed = IF finished THEN Since(row) ELSE row.completed
      /\ new = [status |-> new.status, current |-> new.current, total |-> new.total,
                completed |-> new.completed]
  BY DEF CreateSession, Reached, Row
<1> HIDE DEF new
<1>2. Since(row) \in 1 .. MaxTime + 1 /\ (row.completed # Never => Since(row) = row.completed)
  BY DEF Since, Row, Never
<1>3. new \in Row
  BY <1>1, <1>2, ReadingAssumption DEF Row, Status, Page, Never
<1>4. Agrees(row) => Computed("create_session", row, new)
  BY <1>1, <1>2, ReadingAssumption
     DEF Computed, Agrees, Reached, Row, Status, Page, Never, NoTotal
<1>5. QED
  BY <1>3, <1>4 DEF new

-----------------------------------------------------------------------------
LEMMA InitType == Init => TypeOK
<1> SUFFICES ASSUME Init PROVE TypeOK
  OBVIOUS
<1>1. now \in 1 .. MaxTime + 1
  BY ReadingAssumption DEF Init
<1>2. book \in Row
  BY <1>1, RegisteredRow DEF Init
<1>3. QED
  BY <1>1, <1>2, IdleRow DEF Init, TypeOK

LEMMA TypeStep == TypeOK /\ [Next]_vars => TypeOK'
<1> SUFFICES ASSUME TypeOK, [Next]_vars PROVE TypeOK'
  OBVIOUS
<1> USE DEF TypeOK
<1>1. CASE Tick
  BY <1>1, ReadingAssumption DEF Tick
<1>2. CASE UNCHANGED vars
  BY <1>2 DEF vars
<1>3. ASSUME NEW r \in Requests, NEW kind \in {"update_progress", "update_book", "create_session"},
             NEW new \in Row, Load(r, kind, new)
      PROVE  TypeOK'
  BY <1>3 DEF Load
<1>4. ASSUME NEW r \in Requests, LoadProgress(r) PROVE TypeOK'
  BY <1>3, <1>4, UpdateProgressRow DEF LoadProgress
<1>5. ASSUME NEW r \in Requests, LoadBook(r) PROVE TypeOK'
  BY <1>3, <1>5, UpdateBookRow DEF LoadBook
<1>6. ASSUME NEW r \in Requests, LoadSession(r) PROVE TypeOK'
  BY <1>3, <1>6, CreateSessionRow DEF LoadSession
<1>7. ASSUME NEW r \in Requests, Commit(r) PROVE TypeOK'
  <2>1. book' \in Row
    BY <1>7 DEF Commit, Row
  <2>2. QED
    BY <1>7, <2>1, IdleRow DEF Commit
<1>8. QED
  BY <1>1, <1>2, <1>4, <1>5, <1>6, <1>7 DEF Next

\* The columns of the row keep their types, for any number of requests that load the
\* same row and commit columns of their own into it.
THEOREM ReadingTypeCorrect == Spec => []TypeOK
BY InitType, TypeStep, PTL DEF Spec

LEMMA CommittedRow ==
  ASSUME Inv, NEW r \in Requests, Commit(r)
  PROVE  book' = req[r].new /\ req[r].pc = "loaded"
<1>1. req[r].pc = "loaded" /\ req[r].old = book
  BY DEF Commit, Inv, LoadedInv
<1>2. req[r].new \in Row /\ book \in Row
  BY DEF Inv, TypeOK
<1>3. book' = [c \in Fields |-> req[r].new[c]]
  BY <1>1, <1>2 DEF Commit, Row, Fields
<1>4. req[r].new = [c \in Fields |-> req[r].new[c]]
  BY <1>2 DEF Row, Fields
<1>5. QED
  BY <1>1, <1>3, <1>4

LEMMA CommitsOnly ==
  ASSUME Next, book' # book
  PROVE  \E r \in Requests : Commit(r)
BY DEF Next, Tick, LoadProgress, LoadBook, LoadSession, Load

LEMMA InvStep ==
  ASSUME OneRequest, Inv, [Next]_vars
  PROVE  Inv'
<1> USE DEF Inv, OneRequest
<1>1. TypeOK'
  BY TypeStep
<1>2. CASE Tick \/ UNCHANGED vars
  BY <1>1, <1>2 DEF Tick, vars, LoadedInv, Agrees, Reached
<1>3. ASSUME NEW r \in Requests, NEW kind, NEW new, Load(r, kind, new), Computed(kind, book, new)
      PROVE  Inv'
  <2>1. book' = book /\ req'[r].old = book /\ req'[r].kind = kind /\ req'[r].new = new
    BY <1>3 DEF Load, TypeOK
  <2>2. LoadedInv'
    BY <1>3, <2>1 DEF LoadedInv
  <2>3. QED
    BY <1>1, <2>1, <2>2 DEF Agrees, Reached
<1>4. ASSUME NEW r \in Requests, LoadProgress(r) PROVE Inv'
  BY <1>3, <1>4, UpdateProgressRow DEF LoadProgress, WithinTotal, TypeOK, Row
<1>5. ASSUME NEW r \in Requests, LoadBook(r) PROVE Inv'
  BY <1>3, <1>5, UpdateBookRow DEF LoadBook, WithinTotal, TypeOK, Row
<1>6. ASSUME NEW r \in Requests, LoadSession(r) PROVE Inv'
  BY <1>3, <1>6, CreateSessionRow DEF LoadSession, TypeOK
<1>7. ASSUME NEW r \in Requests, Commit(r) PROVE Inv'
  <2>1. book' = req[r].new /\ Agrees(book')
    BY <1>7, CommittedRow DEF LoadedInv, Computed
  <2>2. req'[r].pc = "idle"
    BY <1>7, IdleRow DEF Commit, TypeOK
  <2>3. QED
    BY <1>1, <2>1, <2>2 DEF LoadedInv, Agrees, Reached
<1>8. QED
  BY <1>2, <1>4, <1>5, <1>6, <1>7 DEF Next

LEMMA InvAlways ==
  ASSUME OneRequest
  PROVE  Spec => []Inv
<1>1. Init => Inv
  <2> SUFFICES ASSUME Init PROVE Inv
    OBVIOUS
  <2>1. now \in 1 .. MaxTime + 1
    BY ReadingAssumption DEF Init
  <2>2. Agrees(book)
    BY <2>1, RegisteredRow DEF Init
  <2>3. LoadedInv
    BY IdleRow DEF Init, LoadedInv
  <2>4. QED
    BY <2>2, <2>3, InitType DEF Inv
<1>2. Inv /\ [Next]_vars => Inv'
  BY InvStep
<1>3. QED
  BY <1>1, <1>2, PTL DEF Spec

\* With one request at a time, a book read to its end is completed whichever handler
\* noticed it, and no other book has a date of completion.
THEOREM FinishedStaysCompleted ==
  ASSUME OneRequest
  PROVE  Spec => []FinishedIsCompleted
<1>1. Inv => FinishedIsCompleted
  BY DEF Inv, Agrees, FinishedIsCompleted
<1>2. QED
  BY <1>1, InvAlways, PTL

\* With one request at a time, the date of completion is the first one.
THEOREM DateStays ==
  ASSUME OneRequest
  PROVE  Spec => CompletionDateKept
<1>1. Inv /\ [Next]_vars =>
        [book.completed # Never /\ book'.status = "COMPLETED" /\ book'.current > 0
         => book'.completed = book.completed]_vars
  <2> SUFFICES ASSUME Inv, Next, book' # book
               PROVE  book.completed # Never /\ book'.status = "COMPLETED" /\ book'.current > 0
                      => book'.completed = book.completed
    OBVIOUS
  <2>1. PICK r \in Requests : Commit(r)
    BY CommitsOnly
  <2>2. QED
    BY <2>1, CommittedRow DEF Inv, LoadedInv, Computed
<1>2. QED
  BY <1>1, InvAlways, PTL DEF Spec, CompletionDateKept

\* With one request at a time, only a reading session takes a book beyond its last page.
THEOREM SessionsOvershoot ==
  ASSUME OneRequest
  PROVE  Spec => OnlySessionsOvershoot
<1>1. Inv /\ [Next]_vars =>
        [WithinTotal(book) /\ (\A r \in Requests : req[r].kind # "create_session")
         => WithinTotal(book')]_vars
  <2> SUFFICES ASSUME Inv, Next, book' # book, \A r \in Requests : req[r].kind # "create_session"
               PROVE  WithinTotal(book')
    OBVIOUS
  <2>1. PICK r \in Requests : Commit(r)
    BY CommitsOnly
  <2>2. QED
    BY <2>1, CommittedRow DEF Inv, LoadedInv, Computed
<1>2. QED
  BY <1>1, InvAlways, PTL DEF Spec, OnlySessionsOvershoot

-----------------------------------------------------------------------------
(* The components of Services.                                             *)

LEMMA ServicesBegin ==
  ServicesInit =>
    /\ Init /\ MemberInit /\ AccessInit /\ LimiterInit /\ LibInit /\ CascadeInit /\ DemoInit
    /\ ImageInit /\ CacheInit /\ DeadlineInit /\ IsbnInit /\ GenreInit /\ ReportInit
BY DEF ServicesInit

\* A step of Services is a step of the component that moves and none of the others.
LEMMA ServicesMove ==
  ASSUME [ServicesNext]_servicesVars
  PROVE  /\ [Next]_vars
         /\ [MemberNext]_memberVars
         /\ [AccessNext]_accessVars
         /\ [LimiterNext]_limiterVars
         /\ [LibNext]_libVars
         /\ [CascadeNext]_cascadeVars
         /\ [DemoNext]_demoVars
         /\ [ImageNext]_imageVars
         /\ [CacheNext]_cacheVars
         /\ [DeadlineNext]_deadlineVars
         /\ [Mistake]_isbnVars
         /\ [GenreNext]_genreVars
         /\ [ReportNext]_reportVars
<1>1. CASE UNCHANGED servicesVars
  BY <1>1 DEF servicesVars
<1>2. CASE ServicesNext
  BY <1>2 DEF ServicesNext, Others, Moves
<1>3. QED
  BY <1>1, <1>2

\* Whatever Services does, each component does by itself: what is proved of a component's
\* specification holds in Services.
THEOREM PartsAreThemselves ==
  ServicesSpec =>
    /\ Spec /\ MemberSpec /\ AccessSpec /\ LimiterSpec /\ LibSpec
    /\ CascadeSpec /\ DemoSpec /\ ImageSpec /\ CacheSpec /\ DeadlineSpec
    /\ IsbnSpec /\ GenreSpec /\ ReportSpec
BY ServicesBegin, ServicesMove, PTL
   DEF ServicesSpec, Spec, MemberSpec, AccessSpec, LimiterSpec, LibSpec, CascadeSpec, DemoSpec,
       ImageSpec, CacheSpec, DeadlineSpec, IsbnSpec, GenreSpec, ReportSpec
-----------------------------------------------------------------------------
(* The types of every component's variables.                               *)

LEMMA LimiterTyped == LimiterSpec => []LimiterTypeOK
<1>1. LimiterTypes => LimiterTypeOK
  BY DEF LimiterTypes
<1>2. QED
  BY <1>1, LimiterInitially, LimiterStep, LimiterTypesInitially, LimiterTypesStep, PTL DEF LimiterSpec

LEMMA LibTyped == LibSpec => []LibTypeOK
<1>1. LibTypes => LibTypeOK
  BY DEF LibTypes, LibTypeOK, LibRow
<1>2. QED
  BY <1>1, RepInitially, RepStep, LibTypesInitially, LibTypesStep, PTL DEF LibSpec

LEMMA CascadeTyped == CascadeSpec => []CascadeTypeOK
<1>1. CascadeInit => raced \subseteq Items
  BY DEF CascadeInit
<1>2. CascadeInv /\ raced \subseteq Items => CascadeTypeOK
  BY DEF CascadeInv, CascadeTypeOK, CascadeRequest
<1>3. QED
  BY <1>1, <1>2, CascadeInitially, CascadeStep, RacedStep, PTL DEF CascadeSpec

LEMMA DemoTyped == DemoSpec => []DemoTypeOK
<1>1. DemoInv => DemoTypeOK
  BY DEF DemoInv
<1>2. QED
  BY <1>1, DemoInitially, DemoStep, PTL DEF DemoSpec

LEMMA OthersTyped ==
  /\ AccessInv => AccessTypeOK
  /\ ImageInv => ImageTypeOK
  /\ CacheInv => CacheTypeOK
  /\ GenreInv => GenreTypeOK
<1>1. AccessInv => AccessTypeOK
  BY DEF AccessInv, AccessTypes, AccessTypeOK
<1>2. ImageInv => ImageTypeOK
  BY DEF ImageInv, ImageTypes, ImageTypeOK, ImageRequest
<1>3. QED
  BY <1>1, <1>2 DEF CacheInv, GenreInv

\* Whatever requests come, in whatever order their steps are taken: every row, token, file,
\* cached answer and report of every component is of the kind the code's types promise; among
\* them, a client that is refused is told to wait at most a window, and a shelf of the demo
\* account has keys of the alphabet's letters only.
THEOREM ServicesTyped == ServicesSpec => []ServicesTypeOK
<1>1. MemberSpec => []MemberTypeOK
  BY MembersInitially, MemberTypesStep, PTL DEF MemberSpec
<1>2. AccessSpec => []AccessTypeOK
  BY AccessInitially, AccessStep, OthersTyped, PTL DEF AccessSpec
<1>3. ImageSpec => []ImageTypeOK
  BY ImageInitially, ImageStep, OthersTyped, PTL DEF ImageSpec
<1>4. CacheSpec => []CacheTypeOK
  BY CacheInitially, CacheStep, OthersTyped, PTL DEF CacheSpec
<1>5. DeadlineSpec => []DeadlineTypeOK
  BY DeadlineTypes, DeadlineTypesStep, PTL DEF DeadlineSpec
<1>6. IsbnSpec => []IsbnTypeOK
  <2>1. IsbnInit => IsbnInv
    BY DEF IsbnInit, IsbnInv
  <2>2. QED
    BY <2>1, IsbnSafe, IsbnStep, PTL DEF IsbnSpec
<1>7. GenreSpec => []GenreTypeOK
  BY GenreInitially, GenreStep, OthersTyped, PTL DEF GenreSpec
<1>8. QED
  BY <1>1, <1>2, <1>3, <1>4, <1>5, <1>6, <1>7, LimiterTyped, LibTyped, CascadeTyped, DemoTyped,
     ReportsAddUp, PartsAreThemselves, PTL DEF ServicesTypeOK

=============================================================================

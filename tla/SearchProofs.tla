---------------------------- MODULE SearchProofs ----------------------------
(***************************************************************************)
(* Proofs about the search for books: how old a cached answer can be, how  *)
(* long a search takes, and whose genre a registration takes over; for any *)
(* number of sources, searches, members, genres and ticks.  About what the *)
(* reading calendar, the longest streak and a month's figures show of any  *)
(* activities.  And about the two forms of an ISBN and what a slip in one  *)
(* of them leads to.                                                       *)
(***************************************************************************)
EXTENDS SearchCaches, SearchDeadline, Genre, Report, Isbn, FiniteSetTheorems,
        SequenceTheorems, TLAPS

-----------------------------------------------------------------------------
(* The age of a cached answer.                                             *)

\* An entry expires within the lifetime of its answer, because a search asks the source after
\* it has read the time.
CacheInv ==
  /\ CacheTypeOK
  /\ \A s \in Sources : cache[s].answer # NoAnswer =>
       /\ cache[s].answer <= fetched
       /\ cache[s].expires_at <= answers[cache[s].answer].given + answers[cache[s].answer].life
  /\ \A r \in Searches :
       /\ search[r].pc = "asked" => search[r].now <= wall
       /\ search[r].pc = "given" => search[r].now <= answers[search[r].answer].given
       /\ search[r].pc \in {"given", "has", "read", "done"} => search[r].answer \in 1 .. fetched
       /\ search[r].cached =>
            /\ search[r].pc = "has"
            /\ search[r].now < answers[search[r].answer].given + answers[search[r].answer].life

\* The part of CacheInv about one search.
SearchInv(r) ==
  /\ search[r].pc = "asked" => search[r].now <= wall
  /\ search[r].pc = "given" => search[r].now <= answers[search[r].answer].given
  /\ search[r].pc \in {"given", "has", "read", "done"} => search[r].answer \in 1 .. fetched
  /\ search[r].cached =>
       /\ search[r].pc = "has"
       /\ search[r].now < answers[search[r].answer].given + answers[search[r].answer].life

SearchType ==
  [pc : {"idle", "asked", "given", "has", "read", "done"}, source : Sources,
   by : Persons \cup {Anybody}, now : 0 .. MaxWall, answer : 0 .. MaxFetches,
   cached : BOOLEAN, mine : BOOLEAN]

LEMMA IdleIsTyped == SearchIdle \in SearchType
  BY CacheAssumption DEF SearchIdle, SearchType, NoAnswer

LEMMA CacheInitially == CacheInit => CacheInv
<1> SUFFICES ASSUME CacheInit PROVE CacheInv
  OBVIOUS
<1> USE CacheAssumption DEF CacheInit
<1>1. cache \in [Sources -> [answer : 0 .. MaxFetches, expires_at : Nat]]
  BY DEF NoAnswer
<1>2. answers \in [1 .. MaxFetches ->
        [given : 0 .. MaxWall, life : Nat, items : BOOLEAN, is_registered : BOOLEAN]]
  <2>1. NewAnswer \in [given : 0 .. MaxWall, life : Nat, items : BOOLEAN, is_registered : BOOLEAN]
    BY DEF NewAnswer
  <2> QED
    BY <2>1
<1>3. search \in [Searches -> SearchType]
  BY IdleIsTyped
<1>4. CacheTypeOK
  BY <1>1, <1>2, <1>3 DEF CacheTypeOK, SearchType
<1>5. \A r \in Searches : search[r].pc = "idle" /\ search[r].cached = FALSE
  BY DEF SearchIdle
<1> QED
  BY <1>4, <1>5 DEF CacheInv

LEMMA CacheInvSafe == CacheInv => CacheNeverTooOld
<1> SUFFICES ASSUME CacheInv, NEW r \in Searches, search[r].cached
             PROVE  search[r].now - answers[search[r].answer].given < answers[search[r].answer].life
  BY DEF CacheNeverTooOld
<1>1. search[r].answer \in 1 .. MaxFetches /\ search[r].now \in Nat
  BY CacheAssumption DEF CacheInv, CacheTypeOK
<1>2. answers[search[r].answer].given \in Nat /\ answers[search[r].answer].life \in Nat
  BY <1>1 DEF CacheInv, CacheTypeOK
<1> QED
  BY <1>1, <1>2 DEF CacheInv

\* A step that changes one search and neither the cache nor the answers.
LEMMA OneSearch ==
  ASSUME CacheInv, NEW r \in Searches, NEW q \in SearchType,
         search' = [search EXCEPT ![r] = q], SearchInv(r)',
         UNCHANGED <<cache, answers, fetched, owns, wall>>
  PROVE  CacheInv'
<1>1. CacheTypeOK'
  BY DEF CacheInv, CacheTypeOK, SearchType
<1>2. \A o \in Searches \ {r} : search'[o] = search[o]
  BY DEF CacheInv, CacheTypeOK
<1> QED
  BY <1>1, <1>2 DEF CacheInv, SearchInv

LEMMA LookUpStep ==
  ASSUME CacheInv, NEW r \in Searches, NEW s \in Sources, NEW by \in Persons \cup {Anybody},
         LookUp(r, s, by)
  PROVE  CacheInv'
<1> DEFINE entry == cache[s]
           hit == entry.answer # NoAnswer /\ wall < entry.expires_at
<1>1. entry \in [answer : 0 .. MaxFetches, expires_at : Nat]
  BY DEF CacheInv, CacheTypeOK
<1>2. \A o \in Searches \ {r} : search'[o] = search[o]
  BY DEF LookUp, CacheInv, CacheTypeOK
<1>3. UNCHANGED <<answers, fetched, owns, wall>>
  BY DEF LookUp
<1>4. search' \in [Searches -> SearchType]
  <2> DEFINE q == [SearchIdle EXCEPT !.pc = IF hit THEN "has" ELSE "asked", !.source = s, !.by = by,
                     !.now = wall, !.answer = IF hit THEN entry.answer ELSE NoAnswer, !.cached = hit]
  <2>1. search' = [search EXCEPT ![r] = q] /\ search \in [Searches -> SearchType]
    BY DEF LookUp, CacheInv, CacheTypeOK, SearchType
  <2>2. hit \in BOOLEAN
    OBVIOUS
  <2>3. wall \in 0 .. MaxWall /\ entry.answer \in 0 .. MaxFetches /\ NoAnswer \in 0 .. MaxFetches
    BY <1>1, CacheAssumption DEF CacheInv, CacheTypeOK, NoAnswer
  <2> HIDE DEF hit, entry
  <2>4. q \in SearchType
    BY <2>2, <2>3, IdleIsTyped DEF SearchType
  <2> HIDE DEF q
  <2> QED
    BY <2>1, <2>4
<1>5. CASE hit
  <2>1. cache' = cache
    BY <1>5 DEF LookUp, CacheInv, CacheTypeOK
  <2>2. search'[r].pc = "has" /\ search'[r].now = wall /\ search'[r].answer = entry.answer
    BY <1>5 DEF LookUp, CacheInv, CacheTypeOK, SearchIdle
  <2>3. wall < answers[entry.answer].given + answers[entry.answer].life /\ entry.answer \in 1 .. fetched
    <3>1. entry.answer \in 1 .. MaxFetches /\ entry.answer <= fetched
      BY <1>1, <1>5 DEF CacheInv, NoAnswer
    <3>2. entry.expires_at <= answers[entry.answer].given + answers[entry.answer].life
      BY <1>5 DEF CacheInv
    <3>3. wall \in Nat /\ fetched \in Nat /\ answers[entry.answer].given \in Nat /\ answers[entry.answer].life \in Nat
      BY <3>1 DEF CacheInv, CacheTypeOK
    <3> QED
      BY <1>1, <1>5, <3>1, <3>2, <3>3
  <2>4. SearchInv(r)'
    BY <1>3, <2>2, <2>3 DEF SearchInv
  <2> QED
    BY <1>2, <1>3, <1>4, <2>1, <2>4, ZenonT(60) DEF CacheInv, CacheTypeOK, SearchInv, SearchType
<1>6. CASE ~ hit
  <2>1. cache' = [cache EXCEPT ![s] = [answer |-> NoAnswer, expires_at |-> 0]]
    BY <1>6 DEF LookUp, CacheInv, CacheTypeOK
  <2>2. search'[r].pc = "asked" /\ search'[r].now = wall /\ search'[r].cached = FALSE
    BY <1>6 DEF LookUp, CacheInv, CacheTypeOK, SearchIdle
  <2>3. SearchInv(r)'
    BY <1>3, <2>2 DEF SearchInv, CacheInv, CacheTypeOK
  <2>4. cache' \in [Sources -> [answer : 0 .. MaxFetches, expires_at : Nat]] /\ cache'[s].answer = NoAnswer
    BY <2>1, CacheAssumption DEF CacheInv, CacheTypeOK, NoAnswer
  <2>5. \A o \in Sources \ {s} : cache'[o] = cache[o]
    BY <2>1 DEF CacheInv, CacheTypeOK
  <2> QED
    BY <1>2, <1>3, <1>4, <2>3, <2>4, <2>5, ZenonT(60) DEF CacheInv, CacheTypeOK, SearchInv, SearchType
<1> QED
  BY <1>5, <1>6

LEMMA SourceGivesStep ==
  ASSUME CacheInv, NEW r \in Searches, SourceGives(r)
  PROVE  CacheInv'
<1> DEFINE n == fetched + 1
<1>1. n \in 1 .. MaxFetches /\ fetched \in Nat /\ fetched' = n
  BY CacheAssumption DEF SourceGives, CacheInv, CacheTypeOK
<1>2. UNCHANGED <<cache, owns, wall>> /\ search[r].pc = "asked"
  BY DEF SourceGives
<1>3. PICK items \in BOOLEAN :
        \E life \in (IF items THEN Lives[search[r].source].items ELSE Lives[search[r].source].empty) :
          answers' = [answers EXCEPT ![n] =
            [NewAnswer EXCEPT !.given = wall, !.life = life, !.items = items]]
  BY DEF SourceGives
<1>4. PICK life \in Nat : answers' = [answers EXCEPT ![n] =
        [NewAnswer EXCEPT !.given = wall, !.life = life, !.items = items]]
  <2>1. search[r].source \in Sources
    BY DEF CacheInv, CacheTypeOK
  <2> QED
    BY <1>3, <2>1, CacheAssumption
<1>5. answers' \in [1 .. MaxFetches ->
        [given : 0 .. MaxWall, life : Nat, items : BOOLEAN, is_registered : BOOLEAN]]
      /\ answers'[n].given = wall
  BY <1>1, <1>4 DEF CacheInv, CacheTypeOK, NewAnswer
<1>6. \A a \in 1 .. fetched : answers'[a] = answers[a]
  BY <1>1, <1>4 DEF CacheInv, CacheTypeOK
<1>7. \A o \in Searches \ {r} : search'[o] = search[o]
  BY DEF SourceGives, CacheInv, CacheTypeOK
<1>8. search' \in [Searches -> SearchType] /\ search'[r].pc = "given" /\ search'[r].answer = n
      /\ search'[r].now = search[r].now /\ search'[r].cached = search[r].cached
  <2>1. search' = [search EXCEPT ![r] = [search[r] EXCEPT !.pc = "given", !.answer = n]]
    BY DEF SourceGives, CacheInv, CacheTypeOK
  <2>2. search \in [Searches -> SearchType]
    BY DEF CacheInv, CacheTypeOK, SearchType
  <2>3. n \in 0 .. MaxFetches
    BY <1>1, CacheAssumption
  <2> HIDE DEF n
  <2>4. [search[r] EXCEPT !.pc = "given", !.answer = n] \in SearchType
    BY <2>2, <2>3 DEF SearchType
  <2>5. search'[r] = [search[r] EXCEPT !.pc = "given", !.answer = n]
    BY <2>1, <2>2
  <2> QED
    BY <2>1, <2>2, <2>4, <2>5 DEF SearchType
<1>9. CacheTypeOK'
  BY <1>1, <1>2, <1>5, <1>8 DEF CacheInv, CacheTypeOK, SearchType
<1>10. SearchInv(r)'
  BY <1>1, <1>2, <1>5, <1>8 DEF SearchInv, CacheInv
<1>11. ASSUME NEW o \in Searches \ {r} PROVE SearchInv(o)'
  <2>1. SearchInv(o)
    BY DEF CacheInv, SearchInv
  <2>2. search[o].answer \in 1 .. fetched => answers'[search[o].answer] = answers[search[o].answer]
    BY <1>6
  <2> QED
    BY <1>1, <1>2, <1>7, <2>1, <2>2 DEF SearchInv
<1>12. ASSUME NEW s \in Sources, cache'[s].answer # NoAnswer
       PROVE  /\ cache'[s].answer <= fetched'
              /\ cache'[s].expires_at <= answers'[cache'[s].answer].given + answers'[cache'[s].answer].life
  <2>1. cache'[s] = cache[s] /\ cache[s].answer \in 1 .. fetched
    BY <1>1, <1>2, <1>12 DEF CacheInv, CacheTypeOK, NoAnswer
  <2> QED
    BY <1>1, <1>6, <1>12, <2>1 DEF CacheInv
<1> QED
  BY <1>9, <1>10, <1>11, <1>12 DEF CacheInv, SearchInv

LEMMA ReceiveStep ==
  ASSUME CacheInv, NEW r \in Searches, Receive(r)
  PROVE  CacheInv'
<1> DEFINE a == search[r].answer
           s == search[r].source
<1>1. /\ a \in 1 .. fetched /\ a \in 1 .. MaxFetches /\ s \in Sources
      /\ search[r].now <= answers[a].given /\ search[r].cached = FALSE
      /\ search[r].now \in Nat /\ answers[a].given \in Nat /\ answers[a].life \in Nat
  <2>1. search[r].pc = "given"
    BY DEF Receive
  <2>2. a \in 1 .. fetched /\ search[r].now <= answers[a].given /\ ~ search[r].cached
    BY <2>1 DEF CacheInv
  <2>3. search[r] \in SearchType /\ fetched \in 0 .. MaxFetches
    BY DEF CacheInv, CacheTypeOK, SearchType
  <2>4. a \in 1 .. MaxFetches
    BY <2>2, <2>3, CacheAssumption
  <2> QED
    BY <2>2, <2>3, <2>4 DEF CacheInv, CacheTypeOK, SearchType
<1>2. UNCHANGED <<answers, fetched, owns, wall>>
  BY DEF Receive
<1>3. \A o \in Searches \ {r} : search'[o] = search[o]
  BY DEF Receive, CacheInv, CacheTypeOK
<1>4. search' \in [Searches -> SearchType] /\ search'[r].pc = "has" /\ search'[r].answer = a
      /\ search'[r].cached = FALSE
  <2>1. search' = [search EXCEPT ![r] = [search[r] EXCEPT !.pc = "has", !.now = 0]]
    BY DEF Receive, CacheInv, CacheTypeOK
  <2>2. search \in [Searches -> SearchType] /\ 0 \in 0 .. MaxWall
    BY CacheAssumption DEF CacheInv, CacheTypeOK, SearchType
  <2> QED
    BY <1>1, <2>1, <2>2, ZenonT(60) DEF SearchType
<1>5. cache' = cache \/ cache' = [cache EXCEPT ![s] = [answer |-> a, expires_at |-> Expiry(r)]]
  BY DEF Receive
<1>6. Expiry(r) \in Nat /\ Expiry(r) <= answers[a].given + answers[a].life
  BY <1>1 DEF Expiry
<1>7. cache' \in [Sources -> [answer : 0 .. MaxFetches, expires_at : Nat]]
  BY <1>1, <1>5, <1>6 DEF CacheInv, CacheTypeOK
<1>8. \A o \in Sources : cache'[o] = cache[o] \/ cache'[o] = [answer |-> a, expires_at |-> Expiry(r)]
  BY <1>5 DEF CacheInv, CacheTypeOK
<1>9. SearchInv(r)'
  BY <1>1, <1>2, <1>4 DEF SearchInv
<1>10. CacheTypeOK'
  BY <1>2, <1>4, <1>7 DEF CacheInv, CacheTypeOK, SearchType
<1>11. ASSUME NEW o \in Sources, cache'[o].answer # NoAnswer
       PROVE  /\ cache'[o].answer <= fetched'
              /\ cache'[o].expires_at <= answers'[cache'[o].answer].given + answers'[cache'[o].answer].life
  BY <1>1, <1>2, <1>6, <1>8, <1>11 DEF CacheInv
<1> QED
  BY <1>2, <1>3, <1>9, <1>10, <1>11 DEF CacheInv, SearchInv

LEMMA MarkStep ==
  ASSUME CacheInv, NEW r \in Searches, Mark(r)
  PROVE  CacheInv'
<1>1. UNCHANGED <<cache, fetched, owns, wall>>
  BY DEF Mark
<1>2. \A o \in Searches \ {r} : search'[o] = search[o]
  BY DEF Mark, CacheInv, CacheTypeOK
<1>3. search' \in [Searches -> SearchType] /\ search'[r].pc = "done"
      /\ search'[r].answer = search[r].answer /\ search'[r].cached = search[r].cached
  BY ZenonT(60) DEF Mark, CacheInv, CacheTypeOK, SearchType
<1>4. answers' \in [1 .. MaxFetches ->
        [given : 0 .. MaxWall, life : Nat, items : BOOLEAN, is_registered : BOOLEAN]]
  <2> DEFINE a == search[r].answer
             mark == answers[a].is_registered \/ search[r].mine
  <2>1. answers' = [answers EXCEPT ![a] = [answers[a] EXCEPT !.is_registered = mark]]
    BY DEF Mark, CacheInv, CacheTypeOK
  <2>2. mark \in BOOLEAN
    OBVIOUS
  <2> HIDE DEF mark
  <2> QED
    BY <2>1, <2>2, ZenonT(60) DEF CacheInv, CacheTypeOK
<1>5. \A a \in 1 .. MaxFetches : answers'[a].given = answers[a].given /\ answers'[a].life = answers[a].life
  BY DEF Mark, CacheInv, CacheTypeOK
<1>6. search[r].pc = "read"
  BY DEF Mark
<1>7. SearchInv(r)'
  BY <1>1, <1>3, <1>6 DEF SearchInv, CacheInv
<1>8. \A o \in Searches : search[o].answer \in 1 .. fetched => search[o].answer \in 1 .. MaxFetches
  BY CacheAssumption DEF CacheInv, CacheTypeOK
<1>9. ASSUME NEW o \in Searches \ {r} PROVE SearchInv(o)'
  <2>1. SearchInv(o)
    BY DEF CacheInv, SearchInv
  <2> QED
    BY <1>1, <1>2, <1>5, <1>8, <2>1 DEF SearchInv
<1>10. CacheTypeOK'
  BY <1>1, <1>3, <1>4 DEF CacheInv, CacheTypeOK, SearchType
<1>11. \A s \in Sources : cache[s].answer # NoAnswer => cache[s].answer \in 1 .. MaxFetches
  BY DEF CacheInv, CacheTypeOK, NoAnswer
<1> QED
  BY <1>1, <1>5, <1>7, <1>9, <1>10, <1>11 DEF CacheInv, SearchInv

LEMMA CacheStep == CacheInv /\ [CacheNext]_cacheVars => CacheInv'
<1> SUFFICES ASSUME CacheInv, [CacheNext]_cacheVars PROVE CacheInv'
  OBVIOUS
<1>1. CASE UNCHANGED cacheVars
  BY <1>1 DEF cacheVars, CacheInv, CacheTypeOK
<1>2. CASE WallTick
  <2>1. UNCHANGED <<cache, answers, fetched, owns, search>> /\ wall' = wall + 1 /\ wall' \in 0 .. MaxWall
    BY <1>2, CacheAssumption DEF WallTick, CacheInv, CacheTypeOK
  <2>2. \A r \in Searches : search[r].now \in Nat /\ wall \in Nat
    BY DEF CacheInv, CacheTypeOK
  <2>3. \A r \in Searches : search[r].pc = "asked" => search[r].now <= wall'
    BY <2>1, <2>2 DEF CacheInv
  <2>4. CacheTypeOK'
    BY <2>1 DEF CacheInv, CacheTypeOK
  <2> QED
    BY <2>1, <2>3, <2>4 DEF CacheInv
<1>3. ASSUME NEW p \in Persons, RegisterOrDelete(p) PROVE CacheInv'
  BY <1>3 DEF RegisterOrDelete, CacheInv, CacheTypeOK
<1>4. ASSUME NEW r \in Searches, Fails(r) \/ EndSearch(r) PROVE CacheInv'
  <2>1. search' = [search EXCEPT ![r] = SearchIdle] /\ UNCHANGED <<cache, answers, fetched, owns, wall>>
    BY <1>4 DEF Fails, EndSearch
  <2>2. search'[r] = SearchIdle
    BY <2>1 DEF CacheInv, CacheTypeOK
  <2>3. SearchInv(r)'
    BY <2>2 DEF SearchInv, SearchIdle
  <2> QED
    BY <2>1, <2>3, IdleIsTyped, OneSearch
<1>5. ASSUME NEW r \in Searches, ReadRegistered(r) PROVE CacheInv'
  <2> DEFINE mine == /\ search[r].source \in Marked /\ answers[search[r].answer].items
                     /\ search[r].by \in owns
             q == [SearchIdle EXCEPT !.pc = "read", !.answer = search[r].answer, !.mine = mine]
  <2>1. search' = [search EXCEPT ![r] = q] /\ UNCHANGED <<cache, answers, fetched, owns, wall>>
    BY <1>5 DEF ReadRegistered
  <2>2. q \in SearchType
    <3>1. search[r].answer \in 0 .. MaxFetches
      BY DEF CacheInv, CacheTypeOK
    <3>2. mine \in BOOLEAN
      OBVIOUS
    <3> HIDE DEF mine
    <3> QED
      BY <3>1, <3>2, IdleIsTyped DEF SearchType
  <2>3. q.pc = "read" /\ q.answer = search[r].answer /\ q.cached = FALSE
    BY DEF SearchIdle
  <2>4. search'[r] = q
    BY <2>1 DEF CacheInv, CacheTypeOK
  <2>5. search[r].pc = "has"
    BY <1>5 DEF ReadRegistered
  <2>6. SearchInv(r)'
    BY <2>1, <2>3, <2>4, <2>5 DEF SearchInv, CacheInv
  <2> HIDE DEF q
  <2> QED
    BY <2>1, <2>2, <2>6, OneSearch
<1> QED
  BY <1>1, <1>2, <1>3, <1>4, <1>5, LookUpStep, SourceGivesStep, ReceiveStep, MarkStep DEF CacheNext

\* However long an answer travels and however many searches overwrite an entry: what the cache
\* hands out is younger than its lifetime (_cache of the three clients).
THEOREM CacheIsFresh == CacheSpec => []CacheNeverTooOld
  BY CacheInitially, CacheStep, CacheInvSafe, PTL DEF CacheSpec

-----------------------------------------------------------------------------
(* The deadline of a search.                                               *)

\* Nothing has been waited for before the keyword search; a search asks Google once, and only
\* then, or in the search by ISBN, can it have waited for something without a deadline.
DeadlineInv ==
  /\ lookup \in [asked : Asked, pc : {"route", "refused", "keyword", "registered", "gather",
                                      "title", "google", "local", "done"},
                 found : SUBSET {"own", "YES24", "NL", "GOOGLE", "pool"}, google : BOOLEAN]
  /\ elapsed \in Nat
  /\ lookup.pc \in {"route", "refused", "keyword"} => elapsed = 0
  /\ lookup.pc \in {"registered", "gather", "title"} => lookup.asked.shape = "isbn"
  /\ lookup.pc \in {"route", "refused", "keyword", "registered", "gather", "title", "google"} =>
       lookup.google = FALSE
  /\ SearchWithinDeadline

\* Google Books gets what remains less 0.2 s, and never more than 2 s.
LEMMA GoogleTimeoutBound ==
  ASSUME elapsed \in Nat, Remaining >= 10
  PROVE  GoogleTimeout \in 0 .. 20 /\ elapsed + GoogleTimeout + 2 <= Deadline
<1>1. Remaining \in Int /\ Deadline \in Int /\ Remaining = Deadline - elapsed
  BY DeadlineAssumption DEF Remaining
<1>2. \E x \in {20, Remaining - 2} : \A y \in {20, Remaining - 2} : x <= y
  BY <1>1
<1>3. GoogleTimeout \in {20, Remaining - 2} /\ \A y \in {20, Remaining - 2} : GoogleTimeout <= y
  BY <1>2 DEF GoogleTimeout, Min
<1> QED
  BY <1>1, <1>3

LEMMA DeadlineStep ==
  ASSUME Lag <= 2, 25 + Lag <= Deadline, DeadlineInv, [DeadlineNext]_deadlineVars
  PROVE  DeadlineInv'
<1> USE DeadlineAssumption
<1>0. lookup.asked \in Asked /\ elapsed \in Nat
  BY DEF DeadlineInv
<1>1. CASE UNCHANGED deadlineVars
  BY <1>1 DEF deadlineVars, DeadlineInv, SearchWithinDeadline
<1>2. CASE Route
  BY <1>2 DEF Route, Goes, DeadlineInv, SearchWithinDeadline
<1>3. CASE KeywordYes24
  <2>1. PICK t \in 0 .. 25 + Lag : elapsed' = t
    BY <1>0, <1>3 DEF KeywordYes24, Waits, DeadlineInv
  <2>2. elapsed' \in Nat /\ elapsed' <= Deadline
    BY <2>1
  <2> QED
    BY <1>3, <2>2, ZenonT(60) DEF KeywordYes24, Goes, Finds, DeadlineInv, SearchWithinDeadline
<1>4. CASE RegisteredBook \/ SkipGoogle \/ LocalBooks
  <2>1. elapsed' = elapsed
    BY <1>4 DEF RegisteredBook, SkipGoogle, LocalBooks
  <2>2. /\ lookup'.asked = lookup.asked /\ lookup'.google = lookup.google
        /\ lookup' \in [asked : Asked, pc : {"gather", "local", "done"},
                        found : SUBSET {"own", "YES24", "NL", "GOOGLE", "pool"}, google : BOOLEAN]
        /\ lookup'.pc = "gather" => lookup.pc = "registered"
    <3>1. PICK pc \in {"gather", "local", "done"}, found \in SUBSET {"own", "pool"} :
            /\ Goes(pc) \/ Finds(pc, found)
            /\ pc = "gather" => lookup.pc = "registered"
      BY <1>4 DEF RegisteredBook, SkipGoogle, LocalBooks
    <3>2. lookup' = [lookup EXCEPT !.pc = pc] \/ lookup' = [lookup EXCEPT !.pc = pc, !.found = @ \cup found]
      BY <3>1 DEF Goes, Finds
    <3> QED
      BY <3>1, <3>2, ZenonT(60) DEF DeadlineInv
  <2> QED
    BY <2>1, <2>2 DEF DeadlineInv, SearchWithinDeadline
<1>5. CASE Gather \/ TitleYes24
  <2>1. elapsed' \in Nat
    BY <1>0, <1>5 DEF Gather, TitleYes24, Waits
  <2>2. lookup.asked.shape = "isbn" /\ lookup.google = FALSE
    BY <1>5 DEF Gather, TitleYes24, DeadlineInv
  <2>3. /\ lookup'.asked = lookup.asked /\ lookup'.google = lookup.google
        /\ lookup' \in [asked : Asked, pc : {"google", "title", "done"},
                        found : SUBSET {"own", "YES24", "NL", "GOOGLE", "pool"}, google : BOOLEAN]
    <3>1. PICK pc \in {"google", "title", "done"}, found \in SUBSET {"YES24", "NL"} : Finds(pc, found)
      BY <1>5 DEF Gather, TitleYes24
    <3> QED
      BY <3>1 DEF Finds, DeadlineInv
  <2> QED
    BY <2>1, <2>2, <2>3 DEF DeadlineInv, SearchWithinDeadline
<1>6. CASE AskGoogle
  <2>1. lookup.pc = "google" /\ Remaining >= 10
    BY <1>6 DEF AskGoogle
  <2>2. GoogleTimeout \in 0 .. 20 /\ elapsed + GoogleTimeout + 2 <= Deadline
    BY <1>0, <2>1, GoogleTimeoutBound
  <2>3. elapsed' \in Nat /\ elapsed' <= Deadline
    <3>1. PICK t \in 0 .. GoogleTimeout + Lag : elapsed' = elapsed + t
      BY <1>6, <2>2 DEF AskGoogle, Waits
    <3> QED
      BY <1>0, <2>2, <3>1
  <2>4. lookup' \in [asked : Asked, pc : {"local", "done"},
                     found : SUBSET {"own", "YES24", "NL", "GOOGLE", "pool"}, google : BOOLEAN]
    BY <1>6 DEF AskGoogle, DeadlineInv
  <2> QED
    BY <2>3, <2>4 DEF DeadlineInv, SearchWithinDeadline
<1> QED
  BY <1>1, <1>2, <1>3, <1>4, <1>5, <1>6 DEF DeadlineNext

\* Timeouts that fire up to 0.2 s late do not make a keyword search, or one that asks Google
\* Books, exceed any deadline that leaves room for the first source (search_book).
THEOREM SearchEndsInTime ==
  ASSUME Lag <= 2, 25 + Lag <= Deadline
  PROVE  DeadlineSpec => []SearchWithinDeadline
<1>1. DeadlineInit => DeadlineInv
  BY DeadlineAssumption DEF DeadlineInit, DeadlineInv, SearchWithinDeadline
<1>2. DeadlineInv /\ [DeadlineNext]_deadlineVars => DeadlineInv'
  BY DeadlineStep
<1>3. DeadlineInv => SearchWithinDeadline
  BY DEF DeadlineInv
<1> QED
  BY <1>1, <1>2, <1>3, PTL DEF DeadlineSpec

\* Any deadline does for the types: no wait takes less than no time.
LEMMA DeadlineTypes == DeadlineInit => DeadlineTypeOK
BY DEF DeadlineInit, DeadlineTypeOK

LEMMA DeadlineTypesStep == DeadlineTypeOK /\ [DeadlineNext]_deadlineVars => DeadlineTypeOK'
<1> SUFFICES ASSUME DeadlineTypeOK, [DeadlineNext]_deadlineVars PROVE DeadlineTypeOK'
  OBVIOUS
<1> DEFINE Steps == {"route", "refused", "keyword", "registered", "gather", "title", "google",
                     "local", "done"}
           Places == {"own", "YES24", "NL", "GOOGLE", "pool"}
<1>0. lookup \in [asked : Asked, pc : Steps, found : SUBSET Places, google : BOOLEAN] /\ elapsed \in Nat
  BY DEF DeadlineTypeOK
<1>1. ASSUME NEW n \in Int, Waits(n) PROVE elapsed' \in Nat
  BY <1>0, <1>1 DEF Waits
<1>2. ASSUME NEW pc \in Steps, Goes(pc) PROVE lookup' \in [asked : Asked, pc : Steps, found : SUBSET Places, google : BOOLEAN]
  <2> HIDE DEF Steps, Places
  <2> QED
    BY <1>0, <1>2 DEF Goes
<1>3. ASSUME NEW pc \in Steps, NEW found \in SUBSET Places, Finds(pc, found)
      PROVE  lookup' \in [asked : Asked, pc : Steps, found : SUBSET Places, google : BOOLEAN]
  <2> HIDE DEF Steps, Places
  <2>1. lookup.found \cup found \in SUBSET Places
    BY <1>0
  <2> QED
    BY <1>0, <1>3, <2>1 DEF Finds
<1>4. CASE UNCHANGED deadlineVars
  BY <1>4 DEF deadlineVars, DeadlineTypeOK
<1>5. CASE Route
  BY <1>0, <1>2, <1>5 DEF Route, DeadlineTypeOK
<1>6. CASE KeywordYes24
  <2>1. elapsed' \in Nat
    BY <1>1, <1>6, DeadlineAssumption DEF KeywordYes24
  <2> QED
    BY <1>2, <1>3, <1>6, <2>1 DEF KeywordYes24, DeadlineTypeOK
<1>7. CASE RegisteredBook
  BY <1>0, <1>2, <1>3, <1>7 DEF RegisteredBook, DeadlineTypeOK
<1>8. CASE Gather
  <2>1. elapsed' \in Nat
    BY <1>1, <1>8, DeadlineAssumption DEF Gather
  <2> QED
    BY <1>3, <1>8, <2>1 DEF Gather, DeadlineTypeOK
<1>9. CASE TitleYes24
  <2>1. elapsed' \in Nat
    BY <1>1, <1>9, DeadlineAssumption DEF TitleYes24
  <2> QED
    BY <1>3, <1>9, <2>1 DEF TitleYes24, DeadlineTypeOK
<1>10. CASE AskGoogle
  <2>1. GoogleTimeout \in Int /\ GoogleTimeout + Lag \in Int
    BY <1>0, <1>10, GoogleTimeoutBound, DeadlineAssumption DEF AskGoogle
  <2>2. elapsed' \in Nat
    BY <1>1, <1>10, <2>1 DEF AskGoogle
  <2>3. lookup' \in [asked : Asked, pc : Steps, found : SUBSET Places, google : BOOLEAN]
    BY <1>0, <1>10 DEF AskGoogle
  <2> QED
    BY <2>2, <2>3 DEF DeadlineTypeOK
<1>11. CASE SkipGoogle
  BY <1>0, <1>2, <1>11 DEF SkipGoogle, DeadlineTypeOK
<1>12. CASE LocalBooks
  BY <1>0, <1>2, <1>3, <1>12 DEF LocalBooks, DeadlineTypeOK
<1> QED
  BY <1>4, <1>5, <1>6, <1>7, <1>8, <1>9, <1>10, <1>11, <1>12 DEF DeadlineNext

-----------------------------------------------------------------------------
(* Whose genre a registration takes over.                                  *)

\* A genre that has not leaked: nobody chose it, or an update has restated its source, or it is
\* the member's own choice and says so.
Private(genre, m) == genre.by = Catalogue \/ genre.restated \/ (genre.by = m /\ genre.source = "USER")

\* What holds of a request.
GenreRequestInv(r) ==
  LET q == genreq[r]
  IN  /\ q.pc \in {"library", "cache", "agent"} => q.final.by = Catalogue
      /\ q.pc = "insert" => Private(q.final, q.member)
      /\ q.pc # "idle" => q.final \in Genred
      /\ q.pc = "update" =>
           /\ copy[q.member] # NoCopy
           /\ q.final.label # q.loaded.label => q.final.source = "USER"
           /\ q.loaded.source = "USER" => copy[q.member].source = "USER" \/ copy[q.member].restated

GenreInv ==
  /\ GenreTypeOK
  /\ \A m \in Owners : Private(copy[m], m)
  /\ \A r \in GenreRequests : GenreRequestInv(r)

GenreRequestType ==
  [pc : {"idle", "library", "cache", "agent", "insert", "update"}, member : Owners,
   loaded : Genred \cup {NoCopy}, final : Genred \cup {NoCopy}]

LEMMA GenreIdleIsTyped == GenreIdle \in GenreRequestType /\ GenreIdle.pc = "idle"
  BY GenreAssumption DEF GenreIdle, GenreRequestType

LEMMA NoCopyIsNoGenre == NoCopy \notin Genred /\ NoCopy.by = Catalogue /\ NoCopy.source = "none"
  BY DEF NoCopy, Chosen, Genred, GenreSource

LEMMA ChosenIsTyped ==
  ASSUME NEW label \in AnyLabel, NEW source \in GenreSource, NEW by \in Owners \cup {Catalogue}
  PROVE  /\ Chosen(label, source, by) \in Genred
         /\ Chosen(label, source, by).by = by /\ Chosen(label, source, by).source = source
  BY DEF Chosen, Genred

LEMMA GenreInitially == GenreInit => GenreInv
  BY GenreIdleIsTyped, NoCopyIsNoGenre
  DEF GenreInit, GenreInv, GenreTypeOK, GenreRequestType, GenreRequestInv, Private

\* A step of one request that leaves the books alone.
LEMMA OneGenreRequest ==
  ASSUME GenreInv, NEW r \in GenreRequests, NEW q \in GenreRequestType,
         genreq' = [genreq EXCEPT ![r] = q], copy' = copy, GenreRequestInv(r)'
  PROVE  GenreInv'
<1>1. GenreTypeOK'
  BY DEF GenreInv, GenreTypeOK, GenreRequestType
<1>2. \A o \in GenreRequests \ {r} : genreq'[o] = genreq[o]
  BY DEF GenreInv, GenreTypeOK
<1> QED
  BY <1>1, <1>2 DEF GenreInv, GenreRequestInv

\* A registration goes on with a genre that is the catalogue's, or that may be inserted.
LEMMA GotoStep ==
  ASSUME GenreInv, NEW r \in GenreRequests, NEW pc \in {"cache", "agent", "insert"},
         NEW final \in Genred, Goto(r, pc, final), copy' = copy,
         final.by = Catalogue \/ (pc = "insert" /\ final.restated)
  PROVE  GenreInv'
<1> DEFINE q == [genreq[r] EXCEPT !.pc = pc, !.final = final]
<1>1. genreq[r] \in GenreRequestType
  BY DEF GenreInv, GenreTypeOK, GenreRequestType
<1>2. genreq' = [genreq EXCEPT ![r] = q]
  BY <1>1 DEF Goto, GenreInv, GenreTypeOK
<1>3. q \in GenreRequestType /\ q.pc = pc /\ q.final = final
  BY <1>1 DEF GenreRequestType
<1> HIDE DEF q
<1>4. genreq'[r] = q
  BY <1>2 DEF GenreInv, GenreTypeOK
<1>5. GenreRequestInv(r)'
  BY <1>3, <1>4 DEF GenreRequestInv, Private
<1> QED
  BY <1>2, <1>3, <1>5, OneGenreRequest

LEMMA BeginRegistrationStep ==
  ASSUME GenreInv, NEW r \in GenreRequests, NEW m \in Owners, BeginRegistration(r, m)
  PROVE  GenreInv'
<1>1. PICK req \in CreateLibraryBookRequest :
        genreq' = [genreq EXCEPT ![r] =
          [GenreIdle EXCEPT
             !.pc = IF req.source = "USER" THEN "insert" ELSE IF req.kdc THEN "cache" ELSE "library",
             !.member = m,
             !.final = Chosen(req.label, req.source, IF req.source = "USER" THEN m ELSE Catalogue)]]
  BY DEF BeginRegistration
<1> DEFINE pc == IF req.source = "USER" THEN "insert" ELSE IF req.kdc THEN "cache" ELSE "library"
           final == Chosen(req.label, req.source, IF req.source = "USER" THEN m ELSE Catalogue)
           q == [GenreIdle EXCEPT !.pc = pc, !.member = m, !.final = final]
<1>2. /\ final \in Genred /\ final.source = req.source
      /\ final.by = IF req.source = "USER" THEN m ELSE Catalogue
  BY ChosenIsTyped DEF CreateLibraryBookRequest
<1>3. pc \in {"insert", "cache", "library"} /\ (pc = "insert" <=> req.source = "USER")
  OBVIOUS
<1>4. genreq' = [genreq EXCEPT ![r] = q] /\ copy' = copy
  BY <1>1 DEF BeginRegistration
<1> HIDE DEF pc, final
<1>5. q \in GenreRequestType /\ q.pc = pc /\ q.member = m /\ q.final = final
  BY <1>2, <1>3, GenreIdleIsTyped DEF GenreRequestType
<1> HIDE DEF q
<1>6. genreq'[r] = q
  BY <1>4 DEF GenreInv, GenreTypeOK
<1>7. GenreRequestInv(r)'
  BY <1>2, <1>3, <1>5, <1>6 DEF GenreRequestInv, Private
<1> QED
  BY <1>4, <1>5, <1>7, OneGenreRequest

LEMMA BeginUpdateGenreStep ==
  ASSUME GenreInv, NEW r \in GenreRequests, NEW m \in Owners, BeginUpdateGenre(r, m)
  PROVE  GenreInv'
<1>1. PICK req \in UpdateLibraryBookRequest :
        genreq' = [genreq EXCEPT ![r] =
          [pc |-> "update", member |-> m, loaded |-> copy[m],
           final |-> IF req.label # copy[m].label THEN Chosen(req.label, "USER", m)
                     ELSE [copy[m] EXCEPT !.source = req.source]]]
  BY DEF BeginUpdateGenre
<1> DEFINE final == IF req.label # copy[m].label THEN Chosen(req.label, "USER", m)
                    ELSE [copy[m] EXCEPT !.source = req.source]
           q == [pc |-> "update", member |-> m, loaded |-> copy[m], final |-> final]
<1>2. copy[m] \in Genred /\ copy[m] # NoCopy /\ copy' = copy
  BY DEF BeginUpdateGenre, GenreInv, GenreTypeOK
<1>3. req.label \in AnyLabel /\ req.source \in GenreSource
  BY DEF UpdateLibraryBookRequest
<1>4. final \in Genred /\ (final.label # copy[m].label => final.source = "USER")
  <2>1. CASE req.label # copy[m].label
    BY <1>3, <2>1, ChosenIsTyped DEF GenreSource
  <2>2. CASE req.label = copy[m].label
    BY <1>2, <1>3, <2>2 DEF Genred
  <2> QED
    BY <2>1, <2>2
<1> HIDE DEF final
<1>5. q \in GenreRequestType
  BY <1>2, <1>4 DEF GenreRequestType
<1>6. genreq' = [genreq EXCEPT ![r] = q] /\ genreq'[r] = q
  BY <1>1 DEF final, GenreInv, GenreTypeOK
<1>7. GenreRequestInv(r)'
  BY <1>2, <1>4, <1>6 DEF GenreRequestInv
<1> HIDE DEF q
<1> QED
  BY <1>2, <1>5, <1>6, <1>7, OneGenreRequest

\* The book of one member changes, and the request that changes it ends.
LEMMA OneCopy ==
  ASSUME GenreInv, NEW r \in GenreRequests, NEW m \in Owners, NEW genre \in Genred,
         copy' = [copy EXCEPT ![m] = genre], genreq' = [genreq EXCEPT ![r] = GenreIdle],
         Private(genre, m),
         \/ copy[m] = NoCopy
         \/ genre.restated
         \/ /\ copy[m].source = "USER" /\ ~ copy[m].restated => genre.source = "USER"
            /\ copy[m].restated => genre.restated
  PROVE  GenreInv'
<1>1. GenreTypeOK'
  BY GenreIdleIsTyped DEF GenreInv, GenreTypeOK, GenreRequestType
<1>2. copy'[m] = genre /\ genre # NoCopy /\ \A o \in Owners \ {m} : copy'[o] = copy[o]
  BY NoCopyIsNoGenre DEF GenreInv, GenreTypeOK
<1>3. \A o \in Owners : Private(copy'[o], o)
  BY <1>2 DEF GenreInv
<1>4. ASSUME NEW o \in GenreRequests PROVE GenreRequestInv(o)'
  <2>1. CASE o = r
    <3>1. genreq'[o].pc = "idle"
      BY <2>1, GenreIdleIsTyped DEF GenreInv, GenreTypeOK
    <3> QED
      BY <3>1 DEF GenreRequestInv
  <2>2. CASE o # r
    <3>1. genreq'[o] = genreq[o] /\ GenreRequestInv(o) /\ genreq[o].member \in Owners
      BY <2>2 DEF GenreInv, GenreTypeOK
    <3>2. CASE genreq[o].member # m
      BY <1>2, <3>1, <3>2 DEF GenreRequestInv
    <3>3. CASE genreq[o].member = m
      BY <1>2, <3>1, <3>3 DEF GenreRequestInv
    <3> QED
      BY <3>2, <3>3
  <2> QED
    BY <2>1, <2>2
<1> QED
  BY <1>1, <1>3, <1>4 DEF GenreInv

LEMMA InsertCopyStep ==
  ASSUME GenreInv, NEW r \in GenreRequests, InsertCopy(r)
  PROVE  GenreInv'
<1> DEFINE m == genreq[r].member
           final == genreq[r].final
<1>1. final \in Genred /\ Private(final, m) /\ m \in Owners
  BY DEF InsertCopy, GenreInv, GenreTypeOK, GenreRequestInv
<1>2. genreq' = [genreq EXCEPT ![r] = GenreIdle]
  BY DEF InsertCopy
<1>3. CASE copy[m] = NoCopy
  <2>1. copy' = [copy EXCEPT ![m] = final]
    BY <1>3 DEF InsertCopy
  <2>2. genreq' = [genreq EXCEPT ![r] = GenreIdle] /\ m \in Owners /\ final \in Genred /\ Private(final, m)
    BY <1>1, <1>2
  <2> HIDE DEF m, final
  <2> QED
    BY <1>3, <2>1, <2>2, OneCopy
<1>4. CASE copy[m] # NoCopy
  <2>1. copy' = copy
    BY <1>4 DEF InsertCopy
  <2>2. genreq'[r].pc = "idle"
    BY <1>2, GenreIdleIsTyped DEF GenreInv, GenreTypeOK
  <2>3. GenreRequestInv(r)'
    BY <2>2 DEF GenreRequestInv
  <2> QED
    BY <1>2, <2>1, <2>3, GenreIdleIsTyped, OneGenreRequest
<1> QED
  BY <1>3, <1>4

LEMMA CommitUpdateGenreStep ==
  ASSUME GenreInv, NEW r \in GenreRequests, CommitUpdateGenre(r)
  PROVE  GenreInv'
<1> DEFINE m == genreq[r].member
           final == genreq[r].final
           loaded == genreq[r].loaded
           chose == final.label # loaded.label
           genre == [label    |-> IF final.label # loaded.label THEN final.label ELSE copy[m].label,
                     source   |-> IF final.source # loaded.source THEN final.source ELSE copy[m].source,
                     by       |-> IF chose THEN m ELSE copy[m].by,
                     restated |-> copy[m].restated \/ (~ chose /\ final.source # loaded.source)]
<1>1. genreq[r].pc = "update" /\ m \in Owners /\ final \in Genred
  BY DEF CommitUpdateGenre, GenreInv, GenreTypeOK, GenreRequestInv
<1>2. copy[m] \in Genred /\ Private(copy[m], m)
  BY <1>1 DEF GenreInv, GenreTypeOK, GenreRequestInv
<1>3. /\ chose => final.source = "USER"
      /\ loaded.source = "USER" => copy[m].source = "USER" \/ copy[m].restated
  BY <1>1 DEF GenreInv, GenreRequestInv
<1>4. copy' = [copy EXCEPT ![m] = genre] /\ genreq' = [genreq EXCEPT ![r] = GenreIdle]
  BY <1>1 DEF CommitUpdateGenre, GenreInv, GenreTypeOK
<1> HIDE DEF m, final, loaded
<1>5. genre \in Genred
  BY <1>1, <1>2 DEF Genred
<1>6. Private(genre, m)
  BY <1>2, <1>3 DEF Private
<1>7. \/ genre.restated
      \/ /\ copy[m].source = "USER" /\ ~ copy[m].restated => genre.source = "USER"
         /\ copy[m].restated => genre.restated
  BY <1>3
<1> HIDE DEF genre
<1> QED
  BY <1>1, <1>4, <1>5, <1>6, <1>7, OneCopy

LEMMA DeleteCopyStep ==
  ASSUME GenreInv, NEW m \in Owners, DeleteCopy(m)
  PROVE  GenreInv'
<1>1. copy' = [copy EXCEPT ![m] = NoCopy]
  BY DEF DeleteCopy
<1>2. \A o \in Owners \ {m} : copy'[o] = copy[o]
  BY <1>1 DEF GenreInv, GenreTypeOK
<1>3. copy'[m] = NoCopy /\ copy' \in [Owners -> Genred \cup {NoCopy}]
  BY <1>1 DEF GenreInv, GenreTypeOK
<1>4. genreq' = [r \in GenreRequests |->
        IF genreq[r].pc = "update" /\ genreq[r].member = m THEN GenreIdle ELSE genreq[r]]
  BY DEF DeleteCopy
<1>5. genreq' \in [GenreRequests -> GenreRequestType]
  BY <1>4, GenreIdleIsTyped DEF GenreInv, GenreTypeOK, GenreRequestType
<1>6. \A o \in Owners : Private(copy'[o], o)
  BY <1>2, <1>3, NoCopyIsNoGenre DEF GenreInv, Private
<1>7. ASSUME NEW r \in GenreRequests PROVE GenreRequestInv(r)'
  <2>1. CASE genreq[r].pc = "update" /\ genreq[r].member = m
    <3>1. genreq'[r].pc = "idle"
      BY <1>4, <2>1, GenreIdleIsTyped
    <3> QED
      BY <3>1 DEF GenreRequestInv
  <2>2. CASE ~ (genreq[r].pc = "update" /\ genreq[r].member = m)
    <3>1. genreq'[r] = genreq[r] /\ GenreRequestInv(r) /\ genreq[r].member \in Owners
      BY <1>4, <2>2 DEF GenreInv, GenreTypeOK
    <3> QED
      BY <1>2, <2>2, <3>1 DEF GenreRequestInv
  <2> QED
    BY <2>1, <2>2
<1> QED
  BY <1>3, <1>5, <1>6, <1>7 DEF GenreInv, GenreTypeOK, GenreRequestType

LEMMA GenreStep == GenreInv /\ [GenreNext]_genreVars => GenreInv'
<1> SUFFICES ASSUME GenreInv, [GenreNext]_genreVars PROVE GenreInv'
  OBVIOUS
<1>1. CASE UNCHANGED genreVars
  BY <1>1 DEF genreVars, GenreInv, GenreTypeOK, GenreRequestInv
<1>2. ASSUME NEW r \in GenreRequests, GenreDies(r) PROVE GenreInv'
  <2>1. genreq' = [genreq EXCEPT ![r] = GenreIdle] /\ copy' = copy
    BY <1>2 DEF GenreDies
  <2>2. genreq'[r].pc = "idle"
    BY <2>1, GenreIdleIsTyped DEF GenreInv, GenreTypeOK
  <2>3. GenreRequestInv(r)'
    BY <2>2 DEF GenreRequestInv
  <2> QED
    BY <2>1, <2>3, GenreIdleIsTyped, OneGenreRequest
<1>3. ASSUME NEW r \in GenreRequests, LibraryAnswers(r) PROVE GenreInv'
  <2>1. genreq[r].final \in Genred /\ genreq[r].final.by = Catalogue /\ copy' = copy
    BY <1>3 DEF LibraryAnswers, GenreInv, GenreRequestInv
  <2>2. PICK final \in Genred : final.by = Catalogue /\ Goto(r, "cache", final)
    BY <1>3, <2>1, ChosenIsTyped DEF LibraryAnswers, GenreSource
  <2> QED
    BY <2>1, <2>2, GotoStep
<1>4. ASSUME NEW r \in GenreRequests, ReuseCached(r) PROVE GenreInv'
  <2>1. PICK m \in BestCached : Goto(r, "insert", copy[m])
    BY <1>4 DEF ReuseCached
  <2>2. m \in Owners /\ copy[m] # NoCopy /\ copy[m].source # "USER"
    BY DEF BestCached, Cached
  <2>3. copy[m] \in Genred /\ (copy[m].by = Catalogue \/ copy[m].restated)
    BY <2>2 DEF GenreInv, GenreTypeOK, Private
  <2> QED
    BY <1>4, <2>1, <2>3, GotoStep DEF ReuseCached
<1>5. ASSUME NEW r \in GenreRequests, NothingCached(r) PROVE GenreInv'
  <2>1. genreq[r].final \in Genred /\ genreq[r].final.by = Catalogue
    BY <1>5 DEF NothingCached, GenreInv, GenreRequestInv
  <2> QED
    BY <1>5, <2>1, GotoStep DEF NothingCached
<1>6. ASSUME NEW r \in GenreRequests, AgentAnswers(r) PROVE GenreInv'
  <2>1. genreq[r].final \in Genred /\ genreq[r].final.by = Catalogue /\ copy' = copy
    BY <1>6 DEF AgentAnswers, GenreInv, GenreRequestInv
  <2>2. genreq[r].final.label \in AnyLabel /\ Labels \subseteq AnyLabel
    BY <2>1 DEF Genred, AnyLabel
  <2>3. PICK final \in Genred : final.by = Catalogue /\ Goto(r, "insert", final)
    BY <1>6, <2>1, <2>2, ChosenIsTyped DEF AgentAnswers, GenreSource
  <2> QED
    BY <2>1, <2>3, GotoStep
<1> QED
  BY <1>1, <1>2, <1>3, <1>4, <1>5, <1>6, BeginRegistrationStep, BeginUpdateGenreStep,
     InsertCopyStep, CommitUpdateGenreStep, DeleteCopyStep
  DEF GenreNext

\* Whatever registrations and updates of one ISBN mix: another member's choice does not come
\* over, unless somebody has restated its source (create_book's cache_stmt, update_book).
THEOREM ChoicesStayPrivate == GenreSpec => []ChoiceStaysPrivate
<1>1. GenreInv => ChoiceStaysPrivate
  BY DEF GenreInv, ChoiceStaysPrivate, Private
<1> QED
  BY GenreInitially, GenreStep, <1>1, PTL DEF GenreSpec

-----------------------------------------------------------------------------
\* The two limits of a calendar month, in hours of UTC, are those between which the
\* clock in Korea shows one of its days.
LEMMA KoreanMonth ==
  ASSUME NEW m \in Months, NEW t \in Nat
  PROVE  InCalendar(t, m) <=> KSTDay(t) \in FirstDay[m] .. FirstDay[m + 1] - 1
<1>1. FirstDay[m] \in Nat /\ FirstDay[m + 1] \in Nat
  BY ReportAssumption DEF Months
<1> DEFINE first == FirstDay[m]
           next  == FirstDay[m + 1]
<1> HIDE DEF first, next
<1>2. first \in Nat /\ next \in Nat
  BY <1>1 DEF first, next
<1>3. (t + 9) \div 24 \in Int
  OBVIOUS
<1>4. (t + 9) \div 24 >= first <=> 24 * first - 9 <= t
  BY <1>2
<1>5. (t + 9) \div 24 <= next - 1 <=> t < 24 * next - 9
  BY <1>2
<1>6. QED
  BY <1>2, <1>3, <1>4, <1>5 DEF first, next, InCalendar, KSTDay, KST

\* The calendar shows each activity in the one month that its day in Korea belongs to,
\* for every month and at every hour.
THEOREM CalendarIsKorean == ReportSpec => []CalendarDaysInMonth
<1>1. ReportInit => log \subseteq Activities
  BY DEF ReportInit
<1>2. log \subseteq Activities /\ [ReportNext]_reportVars => (log \subseteq Activities)'
  BY DEF ReportNext, reportVars, Act, DropActivity, DropBook
<1>3. log \subseteq Activities => CalendarDaysInMonth
  <2> SUFFICES ASSUME log \subseteq Activities, NEW m \in Months
               PROVE  /\ \A e \in Calendar(m) : e.date \in FirstDay[m] .. FirstDay[m + 1] - 1
                      /\ \A a \in log :
                           /\ a.kind # "completed"
                           /\ KSTDay(a.created) \in FirstDay[m] .. FirstDay[m + 1] - 1
                           => \E e \in Calendar(m) : e.what = a
    BY DEF CalendarDaysInMonth
  <2>1. \A a \in log : a.created \in Nat
    BY ReportAssumption
  <2>2. \A a \in log : InCalendar(a.created, m)
                        <=> KSTDay(a.created) \in FirstDay[m] .. FirstDay[m + 1] - 1
    BY <2>1, KoreanMonth
  <2>3. ASSUME NEW e \in Calendar(m) PROVE e.date \in FirstDay[m] .. FirstDay[m + 1] - 1
    <3>1. PICK a \in log : /\ InCalendar(a.created, m)
                           /\ e = [what |-> a, date |-> KSTDay(a.created)]
      BY DEF Calendar
    <3>2. QED
      BY <2>2, <3>1
  <2>4. ASSUME NEW a \in log, a.kind # "completed",
               KSTDay(a.created) \in FirstDay[m] .. FirstDay[m + 1] - 1
        PROVE  \E e \in Calendar(m) : e.what = a
    <3> DEFINE e == [what |-> a, date |-> KSTDay(a.created)]
    <3>1. e \in Calendar(m)
      BY <2>2, <2>4 DEF Calendar
    <3>2. QED
      BY <3>1
  <2>5. QED
    BY <2>3, <2>4
<1>4. QED
  BY <1>1, <1>2, <1>3, PTL DEF ReportSpec

-----------------------------------------------------------------------------
(* The longest streak of a month.                                          *)

LEMMA LeastNumber ==
  ASSUME NEW T, T \subseteq Nat, T # {}
  PROVE  \E x \in T : \A y \in T : x <= y
<1> DEFINE R == OpToRel(<, Nat)
<1>1. \A m, n \in Nat : <<m, n>> \in R <=> m < n
  BY DEF OpToRel
<1>2. IsWellFoundedOn(R, Nat)
  BY NatLessThanWellFounded
<1> HIDE DEF R
<1>3. PICK x \in T : \A y \in T : ~ (<<y, x>> \in R)
  BY <1>2, WFMin
<1>4. ASSUME NEW y \in T PROVE x <= y
  <2>1. x \in Nat /\ y \in Nat /\ ~ (y < x)
    BY <1>1, <1>3
  <2> QED
    BY <2>1
<1>5. QED
  BY <1>4

\* Max is the element that no other exceeds.
LEMMA MaxIs ==
  ASSUME NEW S, S \subseteq Int, NEW x \in S, \A y \in S : x >= y
  PROVE  Max(S) = x
<1>1. \A z \in S : (\A y \in S : z >= y) <=> z = x
  OBVIOUS
<1> QED
  BY <1>1 DEF Max

\* A finite set of days has a last one.
LEMMA LastDay ==
  ASSUME NEW D, D \subseteq Nat, IsFiniteSet(D), D # {}
  PROVE  /\ Max(D) \in D
         /\ \A d \in D : d <= Max(D)
<1> DEFINE HasLast(S) == S # {} => \E x \in S : \A y \in S : x >= y
           Bad == {n \in Nat : \E S \in SUBSET D : Cardinality(S) = n /\ ~ HasLast(S)}
<1>1. Bad = {}
  <2>1. SUFFICES ASSUME Bad # {} PROVE FALSE
    OBVIOUS
  <2>2. PICK n \in Bad : \A k \in Bad : n <= k
    BY <2>1, LeastNumber
  <2>3. PICK S \in SUBSET D : Cardinality(S) = n /\ ~ HasLast(S)
    BY <2>2
  <2>4. PICK x \in S : TRUE
    BY <2>3
  <2> DEFINE T == S \ {x}
  <2>5. IsFiniteSet(S) /\ IsFiniteSet(T) /\ Cardinality(T) = n - 1 /\ n - 1 \in Nat
    <3>1. IsFiniteSet(S)
      BY FS_Subset
    <3>2. IsFiniteSet(T) /\ Cardinality(T) = n - 1
      BY <2>3, <2>4, <3>1, FS_RemoveElement
    <3>3. Cardinality(T) \in Nat
      BY <3>2, FS_CardinalityType
    <3>4. QED
      BY <3>1, <3>2, <3>3
  <2>6. HasLast(T)
    <3>1. n - 1 \notin Bad
      BY <2>2, <2>5
    <3>2. QED
      BY <2>5, <3>1
  <2>7. S \subseteq Nat
    BY <2>3
  <2>8. HasLast(S)
    <3>1. CASE T = {}
      <4>1. S = {x} /\ x \in Nat
        BY <2>4, <2>7, <3>1
      <4> QED
        BY <4>1
    <3>2. CASE T # {}
      <4>1. PICK y \in T : \A z \in T : y >= z
        BY <2>6, <3>2
      <4>2. CASE y >= x
        BY <4>1, <4>2
      <4>3. CASE ~ (y >= x)
        <5>1. \A z \in S : z = x \/ (z \in T /\ y >= z)
          BY <4>1
        <5>2. \A z \in S : x \in Nat /\ y \in Nat /\ z \in Nat
          BY <2>4, <2>7
        <5>3. \A z \in S : x >= z
          BY <4>3, <5>1, <5>2
        <5> QED
          BY <2>4, <5>3
      <4>4. QED
        BY <4>2, <4>3
    <3>3. QED
      BY <3>1, <3>2
  <2>9. QED
    BY <2>3, <2>8
<1>2. PICK x \in D : \A y \in D : x >= y
  <2>1. Cardinality(D) \in Nat
    BY FS_CardinalityType
  <2>2. Cardinality(D) \notin Bad
    BY <1>1
  <2>3. QED
    BY <2>1, <2>2
<1>3. Max(D) = x
  <2>1. D \subseteq Int
    OBVIOUS
  <2>2. QED
    BY <1>2, <2>1, MaxIs
<1>4. QED
  BY <1>2, <1>3

\* All days from a to b are active.
Run(D, a, b) == a \in D /\ b \in D /\ a <= b /\ a .. b \subseteq D

\* What the loop knows after the days D: the longest run of them, and the one it is in.
StreakOf(D, s) ==
  /\ s \in [longest : Nat, current : Nat, prev : Int]
  /\ \A a, b \in D : Run(D, a, b) => b - a + 1 <= s.longest
  /\ s.longest = 0 \/ \E a, b \in D : Run(D, a, b) /\ s.longest = b - a + 1
  /\ D = {} => s.current = 0 /\ s.prev = -1
  /\ D # {} => /\ s.prev \in D /\ \A d \in D : d <= s.prev
               /\ s.current >= 1
               /\ (s.prev - s.current + 1) .. s.prev \subseteq D
               /\ s.prev - s.current \notin D

LEMMA StreakBegins == StreakOf({}, NoStreak)
  BY DEF StreakOf, NoStreak

\* One turn of the loop.
LEMMA StreakGrows ==
  ASSUME NEW D, D \subseteq Nat, NEW m \in D, \A d \in D : d <= m,
         NEW t, StreakOf(D \ {m}, t)
  PROVE  StreakOf(D, NextDay(t, m))
<1> DEFINE E == D \ {m}
           s == NextDay(t, m)
           joins == t.prev # -1 /\ m - t.prev = 1
<1>1. /\ t \in [longest : Nat, current : Nat, prev : Int]
      /\ \A a, b \in E : Run(E, a, b) => b - a + 1 <= t.longest
      /\ t.longest = 0 \/ \E a, b \in E : Run(E, a, b) /\ t.longest = b - a + 1
  BY DEF StreakOf
<1>2. t.longest \in Nat /\ t.current \in Nat /\ t.prev \in Int /\ m \in Nat
  BY <1>1
<1>3. E = {} => t.current = 0 /\ t.prev = -1
  BY DEF StreakOf
<1>4. E # {} => /\ t.prev \in E /\ (\A d \in E : d <= t.prev)
                /\ t.current >= 1
                /\ (t.prev - t.current + 1) .. t.prev \subseteq E
                /\ t.prev - t.current \notin E
  BY DEF StreakOf
<1>5. /\ s.prev = m
      /\ s.current = IF joins THEN t.current + 1 ELSE 1
      /\ s.longest = Max({t.longest, s.current})
      /\ s = [longest |-> s.longest, current |-> s.current, prev |-> s.prev]
  BY DEF NextDay
<1>6. s.current \in Nat /\ s.current >= 1
  BY <1>2, <1>5
<1>7. s.longest = IF t.longest >= s.current THEN t.longest ELSE s.current
  <2> DEFINE big == IF t.longest >= s.current THEN t.longest ELSE s.current
  <2>1. {t.longest, s.current} \subseteq Int
    BY <1>2, <1>6
  <2>2. big \in {t.longest, s.current} /\ \A y \in {t.longest, s.current} : big >= y
    BY <1>2, <1>6
  <2> HIDE DEF big, s
  <2>3. Max({t.longest, s.current}) = big
    BY <2>1, <2>2, MaxIs
  <2>4. QED
    BY <1>5, <2>3 DEF big
<1> HIDE DEF s
<1>8. /\ (m - s.current + 1) .. m \subseteq D
      /\ m - s.current \notin D
  <2>1. CASE joins
    <3>1. E # {} /\ s.current = t.current + 1 /\ m = t.prev + 1
      BY <1>2, <1>3, <1>5, <2>1
    <3>2. m - s.current = t.prev - t.current /\ m - s.current # m
      BY <1>2, <1>6, <3>1
    <3>3. \A d \in (m - s.current + 1) .. m : d = m \/ d \in (t.prev - t.current + 1) .. t.prev
      BY <1>2, <1>6, <3>1
    <3>4. QED
      BY <1>4, <3>1, <3>2, <3>3
  <2>2. CASE ~ joins
    <3>1. s.current = 1
      BY <1>5, <2>2
    <3>2. (m - s.current + 1) .. m \subseteq D
      BY <1>2, <3>1
    <3>3. ASSUME m - 1 \in D PROVE FALSE
      <4>1. m - 1 \in E
        BY <1>2, <3>3
      <4>2. t.prev \in E /\ m - 1 <= t.prev
        BY <1>4, <4>1
      <4>3. t.prev \in Nat /\ t.prev # m /\ t.prev <= m
        BY <4>2
      <4>4. m - t.prev = 1 /\ t.prev # -1
        BY <1>2, <4>2, <4>3
      <4>5. QED
        BY <2>2, <4>4
    <3>4. QED
      BY <3>1, <3>2, <3>3
  <2>3. QED
    BY <2>1, <2>2
<1>9. ASSUME NEW a \in D, NEW b \in D, Run(D, a, b)
      PROVE  b - a + 1 <= s.longest
  <2>1. a \in Nat /\ b \in Nat /\ a <= b /\ b <= m /\ a .. b \subseteq D
    BY <1>9 DEF Run
  <2>2. CASE b = m
    <3>1. m - s.current \notin a .. b
      BY <1>8, <2>1
    <3>2. b - a + 1 <= s.current
      BY <1>2, <1>6, <2>1, <2>2, <3>1
    <3>3. QED
      BY <1>2, <1>6, <1>7, <2>1, <3>2
  <2>3. CASE b # m
    <3>1. m \notin a .. b
      BY <1>2, <2>1, <2>3
    <3>2. a \in E /\ b \in E /\ Run(E, a, b)
      BY <2>1, <3>1, <2>3 DEF Run
    <3>3. b - a + 1 <= t.longest
      BY <1>1, <3>2
    <3>4. QED
      BY <1>2, <1>6, <1>7, <2>1, <3>3
  <2>4. QED
    BY <2>2, <2>3
<1>10. \E a, b \in D : Run(D, a, b) /\ s.longest = b - a + 1
  <2>1. CASE t.longest >= s.current
    <3>1. s.longest = t.longest /\ t.longest # 0
      BY <1>2, <1>6, <1>7, <2>1
    <3>2. PICK a \in E, b \in E : Run(E, a, b) /\ t.longest = b - a + 1
      BY <1>1, <3>1
    <3>3. Run(D, a, b)
      BY <3>2 DEF Run
    <3>4. QED
      BY <3>1, <3>2, <3>3
  <2>2. CASE ~ (t.longest >= s.current)
    <3> DEFINE a == m - s.current + 1
    <3>1. s.longest = m - a + 1 /\ a \in a .. m /\ a <= m
      BY <1>2, <1>6, <1>7, <2>2
    <3>2. a .. m \subseteq D
      BY <1>8
    <3> HIDE DEF a
    <3>3. a \in D /\ Run(D, a, m)
      BY <3>1, <3>2 DEF Run
    <3>4. QED
      BY <3>1, <3>3
  <2>3. QED
    BY <2>1, <2>2
<1>11. s \in [longest : Nat, current : Nat, prev : Int]
  <2>1. s.longest \in Nat /\ s.prev \in Int
    BY <1>2, <1>5, <1>6, <1>7
  <2>2. QED
    BY <1>5, <1>6, <2>1
<1>12. QED
  <2>1. StreakOf(D, s)
    BY <1>5, <1>6, <1>8, <1>9, <1>10, <1>11 DEF StreakOf
  <2>2. QED
    BY <2>1 DEF s

\* ... and there is only one thing that it can know.
LEMMA StreakUnique ==
  ASSUME NEW D, D \subseteq Nat, NEW s, NEW t, StreakOf(D, s), StreakOf(D, t)
  PROVE  s = t
<1> DEFINE S == [longest : Nat, current : Nat, prev : Int]
<1>1. /\ s \in S /\ t \in S
      /\ s.longest \in Nat /\ s.current \in Nat /\ s.prev \in Int
      /\ t.longest \in Nat /\ t.current \in Nat /\ t.prev \in Int
  BY DEF StreakOf
<1>2. ASSUME NEW u, NEW v, StreakOf(D, u), StreakOf(D, v)
      PROVE  u.longest <= v.longest
  <2>1. u.longest \in Nat /\ v.longest \in Nat
    BY <1>2 DEF StreakOf
  <2>2. CASE u.longest = 0
    BY <2>1, <2>2
  <2>3. CASE u.longest # 0
    <3>1. PICK a \in D, b \in D : Run(D, a, b) /\ u.longest = b - a + 1
      BY <1>2, <2>3 DEF StreakOf
    <3>2. b - a + 1 <= v.longest
      BY <1>2, <3>1 DEF StreakOf
    <3>3. QED
      BY <3>1, <3>2
  <2>4. QED
    BY <2>2, <2>3
<1>3. s.longest = t.longest
  <2>1. s.longest <= t.longest /\ t.longest <= s.longest
    BY <1>2
  <2>2. QED
    BY <1>1, <2>1
<1>4. s.current = t.current /\ s.prev = t.prev
  <2>1. CASE D = {}
    BY <2>1 DEF StreakOf
  <2>2. CASE D # {}
    <3>1. s.prev = t.prev /\ s.prev \in D
      <4>1. s.prev \in D /\ t.prev \in D
        BY <2>2 DEF StreakOf
      <4>2. s.prev <= t.prev /\ t.prev <= s.prev
        BY <2>2, <4>1 DEF StreakOf
      <4>3. QED
        BY <1>1, <4>1, <4>2
    <3>2. ASSUME NEW u, NEW v, StreakOf(D, u), StreakOf(D, v), u.prev = v.prev
          PROVE  u.current <= v.current
      <4>1. /\ u.current \in Nat /\ v.current \in Nat /\ u.prev \in Int
            /\ (u.prev - u.current + 1) .. u.prev \subseteq D
            /\ v.prev - v.current \notin D
        BY <2>2, <3>2 DEF StreakOf
      <4>2. SUFFICES ASSUME u.current > v.current PROVE FALSE
        BY <4>1
      <4>3. v.prev - v.current \in (u.prev - u.current + 1) .. u.prev
        BY <3>2, <4>1, <4>2
      <4>4. QED
        BY <4>1, <4>3
    <3>3. s.current <= t.current /\ t.current <= s.current
      BY <3>1, <3>2
    <3>4. QED
      BY <1>1, <3>1, <3>3
  <2>3. QED
    BY <2>1, <2>2
<1>5. QED
  BY <1>1, <1>3, <1>4

\* By taking away the last day as long as there is one, every finite set of days is reached.
LEMMA StreakExists ==
  ASSUME NEW dates, dates \subseteq Nat, IsFiniteSet(dates)
  PROVE  \A D \in SUBSET dates : \E s : StreakOf(D, s)
<1> DEFINE Bad == {n \in Nat : \E D \in SUBSET dates : Cardinality(D) = n /\ ~ \E s : StreakOf(D, s)}
<1>1. Bad = {}
  <2>1. SUFFICES ASSUME Bad # {} PROVE FALSE
    OBVIOUS
  <2>2. PICK n \in Bad : \A k \in Bad : n <= k
    BY <2>1, LeastNumber
  <2>3. PICK D \in SUBSET dates : Cardinality(D) = n /\ ~ \E s : StreakOf(D, s)
    BY <2>2
  <2>4. D # {} /\ D \subseteq Nat /\ IsFiniteSet(D)
    <3>1. D # {}
      BY <2>3, StreakBegins
    <3>2. IsFiniteSet(D)
      BY FS_Subset
    <3>3. QED
      BY <3>1, <3>2
  <2> DEFINE m == Max(D)
  <2>5. m \in D /\ \A d \in D : d <= m
    BY <2>4, LastDay
  <2> HIDE DEF m
  <2>6. D \ {m} \in SUBSET dates /\ Cardinality(D \ {m}) = n - 1 /\ n - 1 \in Nat
    <3>1. IsFiniteSet(D \ {m}) /\ Cardinality(D \ {m}) = n - 1
      BY <2>3, <2>4, <2>5, FS_RemoveElement
    <3>2. Cardinality(D \ {m}) \in Nat
      BY <3>1, FS_CardinalityType
    <3>3. QED
      BY <3>1, <3>2
  <2>7. n - 1 \notin Bad
    BY <2>2, <2>6
  <2>8. PICK t : StreakOf(D \ {m}, t)
    BY <2>6, <2>7
  <2>9. StreakOf(D, NextDay(t, m))
    BY <2>4, <2>5, <2>8, StreakGrows
  <2>10. QED
    BY <2>3, <2>9
<1>2. ASSUME NEW D \in SUBSET dates PROVE \E s : StreakOf(D, s)
  <2>1. Cardinality(D) \in Nat
    BY FS_Subset, FS_CardinalityType
  <2>2. Cardinality(D) \notin Bad
    BY <1>1
  <2>3. QED
    BY <2>1, <2>2
<1>3. QED
  BY <1>2

\* The loop, for the days up to any.
StreakFrom(dates, f) ==
  f = [days \in SUBSET dates |->
         IF days = {} THEN NoStreak ELSE NextDay(f[days \ {Max(days)}], Max(days))]

LEMMA StreakLoop ==
  ASSUME NEW dates, dates \subseteq Nat, IsFiniteSet(dates)
  PROVE  \E f : StreakFrom(dates, f)
<1> DEFINE f == [D \in SUBSET dates |-> CHOOSE s : StreakOf(D, s)]
<1>1. \A D \in SUBSET dates : StreakOf(D, f[D])
  BY StreakExists
<1>2. f = [D \in SUBSET dates |-> f[D]]
  OBVIOUS
<1> HIDE DEF f
<1>3. ASSUME NEW D \in SUBSET dates
      PROVE  f[D] = IF D = {} THEN NoStreak ELSE NextDay(f[D \ {Max(D)}], Max(D))
  <2>1. D \subseteq Nat /\ IsFiniteSet(D) /\ StreakOf(D, f[D])
    BY <1>1, FS_Subset
  <2>2. CASE D = {}
    <3>1. StreakOf(D, NoStreak)
      BY <2>2, StreakBegins
    <3>2. f[D] = NoStreak
      BY <2>1, <3>1, StreakUnique
    <3>3. QED
      BY <2>2, <3>2
  <2>3. CASE D # {}
    <3> DEFINE m == Max(D)
    <3>1. m \in D /\ \A d \in D : d <= m
      BY <2>1, <2>3, LastDay
    <3> HIDE DEF m
    <3>2. StreakOf(D \ {m}, f[D \ {m}])
      <4>1. D \ {m} \in SUBSET dates
        OBVIOUS
      <4>2. QED
        BY <1>1, <4>1
    <3>3. StreakOf(D, NextDay(f[D \ {m}], m))
      BY <2>1, <3>1, <3>2, StreakGrows
    <3>4. f[D] = NextDay(f[D \ {m}], m)
      BY <2>1, <3>3, StreakUnique
    <3>5. QED
      BY <2>3, <3>4 DEF m
  <2>4. QED
    BY <2>2, <2>3
<1>4. StreakFrom(dates, f)
  BY <1>2, <1>3, Zenon DEF StreakFrom
<1>5. QED
  BY <1>4

\* What the loop computes is what it is to compute.
LEMMA StreakComputed ==
  ASSUME NEW dates, dates \subseteq Nat, IsFiniteSet(dates), NEW f, StreakFrom(dates, f)
  PROVE  StreakOf(dates, f[dates])
<1> DEFINE Bad == {n \in Nat : \E D \in SUBSET dates : Cardinality(D) = n /\ ~ StreakOf(D, f[D])}
<1>1. Bad = {}
  <2>1. SUFFICES ASSUME Bad # {} PROVE FALSE
    OBVIOUS
  <2>2. PICK n \in Bad : \A k \in Bad : n <= k
    BY <2>1, LeastNumber
  <2>3. PICK D \in SUBSET dates : Cardinality(D) = n /\ ~ StreakOf(D, f[D])
    BY <2>2
  <2>4. f[D] = IF D = {} THEN NoStreak ELSE NextDay(f[D \ {Max(D)}], Max(D))
    BY Zenon DEF StreakFrom
  <2>5. D # {}
    BY <2>3, <2>4, StreakBegins
  <2>6. D \subseteq Nat /\ IsFiniteSet(D)
    BY FS_Subset
  <2> DEFINE m == Max(D)
  <2>7. m \in D /\ \A d \in D : d <= m
    BY <2>5, <2>6, LastDay
  <2>8. f[D] = NextDay(f[D \ {m}], m)
    BY <2>4, <2>5
  <2> HIDE DEF m
  <2>9. D \ {m} \in SUBSET dates /\ Cardinality(D \ {m}) = n - 1 /\ n - 1 \in Nat
    <3>1. IsFiniteSet(D \ {m}) /\ Cardinality(D \ {m}) = n - 1
      BY <2>3, <2>6, <2>7, FS_RemoveElement
    <3>2. Cardinality(D \ {m}) \in Nat
      BY <3>1, FS_CardinalityType
    <3>3. QED
      BY <3>1, <3>2
  <2>10. n - 1 \notin Bad
    BY <2>2, <2>9
  <2>11. StreakOf(D \ {m}, f[D \ {m}])
    BY <2>9, <2>10
  <2>12. StreakOf(D, NextDay(f[D \ {m}], m))
    BY <2>6, <2>7, <2>11, StreakGrows
  <2>13. QED
    BY <2>3, <2>8, <2>12
<1>2. Cardinality(dates) \in Nat /\ Cardinality(dates) \notin Bad
  BY <1>1, FS_CardinalityType
<1>3. QED
  BY <1>2

\* LongestStreak of any finite set of days is the length of its longest run.
LEMMA LongestStreakIs ==
  ASSUME NEW D, D \subseteq Nat, IsFiniteSet(D)
  PROVE  LET runs == {r \in D \X D : r[1] <= r[2] /\ (r[1] .. r[2]) \subseteq D}
         IN  LongestStreak(D) = Max({0} \cup {r[2] - r[1] + 1 : r \in runs})
<1> DEFINE f == CHOOSE h : StreakFrom(D, h)
           runs == {r \in D \X D : r[1] <= r[2] /\ (r[1] .. r[2]) \subseteq D}
           lengths == {0} \cup {r[2] - r[1] + 1 : r \in runs}
<1>1. LongestStreak(D) = f[D].longest
  BY Zenon DEF LongestStreak, StreakFrom
<1>2. StreakFrom(D, f)
  BY StreakLoop, Zenon
<1> HIDE DEF f
<1> DEFINE s == f[D]
<1>3. StreakOf(D, s)
  BY <1>2, StreakComputed
<1> HIDE DEF s
<1>4. s.longest \in lengths
  <2>1. CASE s.longest = 0
    BY <2>1
  <2>2. CASE s.longest # 0
    <3>1. PICK a \in D, b \in D : Run(D, a, b) /\ s.longest = b - a + 1
      BY <1>3, <2>2 DEF StreakOf
    <3>2. <<a, b>> \in runs
      BY <3>1 DEF Run
    <3>3. QED
      BY <3>1, <3>2
  <2>3. QED
    BY <2>1, <2>2
<1>5. ASSUME NEW n \in lengths PROVE n \in Int /\ s.longest >= n
  <2>1. s.longest \in Nat
    BY <1>3 DEF StreakOf
  <2>2. CASE n = 0
    BY <2>1, <2>2
  <2>3. CASE n # 0
    <3>1. PICK r \in runs : n = r[2] - r[1] + 1
      BY <2>3
    <3>2. r[1] \in D /\ r[2] \in D /\ Run(D, r[1], r[2])
      BY DEF Run
    <3>3. r[2] - r[1] + 1 <= s.longest
      BY <1>3, <3>2 DEF StreakOf
    <3>4. r[1] \in Nat /\ r[2] \in Nat
      BY <3>2
    <3>5. QED
      BY <2>1, <3>1, <3>3, <3>4
  <2>4. QED
    BY <2>2, <2>3
<1> HIDE DEF lengths
<1>6. Max(lengths) = s.longest
  BY <1>4, <1>5, MaxIs
<1>7. QED
  BY <1>1, <1>6 DEF lengths, s

\* What a member has done is finite, and on days that are numbered from the epoch.
ActivityInv == log \subseteq Activities /\ IsFiniteSet(log)

LEMMA ActivityStep == ActivityInv /\ [ReportNext]_reportVars => ActivityInv'
<1> SUFFICES ASSUME ActivityInv, [ReportNext]_reportVars PROVE ActivityInv'
  OBVIOUS
<1>1. CASE UNCHANGED reportVars
  BY <1>1 DEF ActivityInv, reportVars
<1>2. ASSUME NEW a \in Activities, Act(a) PROVE ActivityInv'
  BY <1>2, FS_AddElement DEF ActivityInv, Act
<1>3. ASSUME NEW a \in Activities, DropActivity(a) PROVE ActivityInv'
  BY <1>3, FS_RemoveElement DEF ActivityInv, DropActivity
<1>4. ASSUME NEW b \in Titles, DropBook(b) PROVE ActivityInv'
  <2>1. log' \in SUBSET log
    BY <1>4 DEF DropBook
  <2>2. QED
    BY <2>1, FS_Subset DEF ActivityInv
<1>5. QED
  BY <1>1, <1>2, <1>3, <1>4 DEF ReportNext

LEMMA ActiveDays ==
  ASSUME ActivityInv, NEW m \in Months
  PROVE  ActiveDates(m) \subseteq Nat /\ IsFiniteSet(ActiveDates(m))
<1> DEFINE day(a) == RefTime(a) \div 24
           made(a) == a.created \div 24
           sessions == InReport("session", m)
           records == InReport("record", m)
<1>1. sessions \in SUBSET log /\ records \in SUBSET log
  BY DEF InReport
<1>2. \A a \in log : RefTime(a) \in Nat /\ a.created \in Nat
  BY ReportAssumption DEF ActivityInv, RefTime
<1>3. IsFiniteSet(sessions) /\ IsFiniteSet(records)
  BY <1>1, FS_Subset DEF ActivityInv
<1>4. \A t \in Nat : t \div 24 \in Nat
  OBVIOUS
<1>5. ActiveDates(m) = {day(a) : a \in sessions} \cup {made(a) : a \in records}
  BY DEF ActiveDates
<1> HIDE DEF sessions, records
<1>6. IsFiniteSet({day(a) : a \in sessions}) /\ IsFiniteSet({made(a) : a \in records})
  <2> DEFINE f == [a \in sessions |-> day(a)]
             g == [a \in records |-> made(a)]
  <2>1. /\ f \in Surjection(sessions, {day(a) : a \in sessions})
        /\ g \in Surjection(records, {made(a) : a \in records})
    BY DEF Surjection
  <2>2. QED
    BY <1>3, <2>1, FS_Surjection
<1>7. IsFiniteSet({day(a) : a \in sessions} \cup {made(a) : a \in records})
  <2> HIDE DEF day, made
  <2>1. QED
    BY <1>6, FS_Union
<1>8. ActiveDates(m) \subseteq Nat
  <2>1. \A a \in sessions : day(a) \in Nat
    BY <1>1, <1>2, <1>4
  <2>2. \A a \in records : made(a) \in Nat
    BY <1>1, <1>2, <1>4
  <2> HIDE DEF day, made
  <2>3. QED
    BY <1>5, <2>1, <2>2
<1>9. QED
  BY <1>5, <1>7, <1>8

\* The report's longest streak is the longest run of active days, for every history, every
\* month and any number of gaps.
THEOREM StreaksAreRuns == ReportSpec => []StreakIsLongestRun
<1>1. ReportInit => ActivityInv
  BY FS_EmptySet DEF ReportInit, ActivityInv
<1>2. ActivityInv => StreakIsLongestRun
  <2> SUFFICES ASSUME ActivityInv, NEW m \in Months
               PROVE  LET days == ActiveDates(m)
                          runs == {r \in days \X days : r[1] <= r[2] /\ (r[1] .. r[2]) \subseteq days}
                      IN  LongestStreak(days) = Max({0} \cup {r[2] - r[1] + 1 : r \in runs})
    BY DEF StreakIsLongestRun
  <2>1. ActiveDates(m) \subseteq Nat /\ IsFiniteSet(ActiveDates(m))
    BY ActiveDays
  <2>2. QED
    BY <2>1, LongestStreakIs
<1>3. QED
  BY <1>1, <1>2, ActivityStep, PTL DEF ReportSpec

-----------------------------------------------------------------------------
(* Sums over finite sets.                                                  *)

\* f adds up w over the subsets of X, in whatever order.
Additive(w, X, f) ==
  /\ f \in [SUBSET X -> Int] /\ f[{}] = 0
  /\ \A S \in SUBSET X : \A x \in S : f[S] = w[x] + f[S \ {x}]

LEMMA AdditiveExists ==
  ASSUME NEW X, IsFiniteSet(X), NEW w \in [X -> Int]
  PROVE  \E f : Additive(w, X, f)
<1> DEFINE Bad == {n \in Nat : \E Y \in SUBSET X : Cardinality(Y) = n /\ ~ \E f : Additive(w, Y, f)}
<1>1. Bad = {}
  <2>1. SUFFICES ASSUME Bad # {} PROVE FALSE
    OBVIOUS
  <2>2. PICK n \in Bad : \A k \in Bad : n <= k
    BY <2>1, LeastNumber
  <2>3. PICK Y \in SUBSET X : Cardinality(Y) = n /\ ~ \E f : Additive(w, Y, f)
    BY <2>2
  <2>4. Y # {}
    <3> DEFINE f == [S \in {{}} |-> 0]
    <3>1. Additive(w, {}, f)
      BY DEF Additive
    <3>2. QED
      BY <2>3, <3>1
  <2>5. PICK y \in Y : TRUE
    BY <2>4
  <2> DEFINE Z == Y \ {y}
  <2>6. Z \in SUBSET X /\ Cardinality(Z) = n - 1 /\ n - 1 \in Nat
    <3>1. IsFiniteSet(Y)
      BY FS_Subset
    <3>2. IsFiniteSet(Z) /\ Cardinality(Z) = n - 1
      BY <2>3, <2>5, <3>1, FS_RemoveElement
    <3>3. Cardinality(Z) \in Nat
      BY <3>2, FS_CardinalityType
    <3>4. QED
      BY <3>2, <3>3
  <2>7. PICK g : Additive(w, Z, g)
    BY <2>2, <2>6
  <2> DEFINE f == [S \in SUBSET Y |-> (IF y \in S THEN w[y] ELSE 0) + g[S \ {y}]]
  <2>8. /\ \A S \in SUBSET Y : S \ {y} \in SUBSET Z
        /\ \A S \in SUBSET Z : g[S] \in Int
        /\ \A x \in Y : w[x] \in Int
    BY <2>7 DEF Additive
  <2>9. f \in [SUBSET Y -> Int]
    BY <2>5, <2>8
  <2>10. f[{}] = 0
    <3>1. {} \ {y} = {} /\ y \notin {} /\ {} \in SUBSET Y
      OBVIOUS
    <3>2. g[{}] = 0
      BY <2>7 DEF Additive
    <3>3. f[{}] = 0 + g[{}]
      BY <3>1
    <3>4. QED
      BY <3>2, <3>3
  <2>11. ASSUME NEW S \in SUBSET Y, NEW x \in S PROVE f[S] = w[x] + f[S \ {x}]
    <3>1. S \ {x} \in SUBSET Y
      OBVIOUS
    <3>2. CASE x = y
      <4>1. (S \ {y}) \ {y} = S \ {y} /\ y \notin S \ {y} /\ S \ {y} \in SUBSET Z
        OBVIOUS
      <4>2. f[S \ {x}] = 0 + g[S \ {y}]
        BY <3>1, <3>2, <4>1
      <4>3. f[S] = w[y] + g[S \ {y}]
        BY <3>2
      <4>4. g[S \ {y}] \in Int
        BY <2>8
      <4> HIDE DEF f
      <4>5. QED
        BY <3>2, <4>2, <4>3, <4>4
    <3>3. CASE x # y
      <4> DEFINE T == S \ {y}
      <4>1. T \in SUBSET Z /\ x \in T /\ T \ {x} \in SUBSET Z /\ (S \ {x}) \ {y} = T \ {x}
        BY <3>3
      <4>2. g[T] = w[x] + g[T \ {x}]
        BY <2>7, <4>1 DEF Additive
      <4>3. y \in S <=> y \in S \ {x}
        BY <3>3
      <4>4. /\ f[S] = (IF y \in S THEN w[y] ELSE 0) + g[T]
            /\ f[S \ {x}] = (IF y \in S THEN w[y] ELSE 0) + g[T \ {x}]
        BY <3>1, <4>1, <4>3
      <4>5. g[T \ {x}] \in Int /\ w[x] \in Int /\ w[y] \in Int
        BY <2>5, <2>8, <4>1
      <4> HIDE DEF T, f
      <4>6. QED
        BY <4>2, <4>4, <4>5
    <3>4. QED
      BY <3>2, <3>3
  <2> HIDE DEF f
  <2>12. Additive(w, Y, f)
    BY <2>9, <2>10, <2>11 DEF Additive
  <2>13. QED
    BY <2>3, <2>12
<1>2. Cardinality(X) \in Nat /\ Cardinality(X) \notin Bad
  BY <1>1, FS_CardinalityType
<1>3. QED
  BY <1>2

\* How the library adds up: it takes one element after the other, whichever it chooses.
SumFrom(w, X, f) ==
  f = [S \in SUBSET X |->
         IF S = {} THEN 0 ELSE w[CHOOSE x \in S : TRUE] + f[S \ {CHOOSE x \in S : TRUE}]]

LEMMA SumExists ==
  ASSUME NEW X, IsFiniteSet(X), NEW w \in [X -> Int]
  PROVE  \E f : SumFrom(w, X, f)
<1>1. PICK f : Additive(w, X, f)
  BY AdditiveExists
<1>2. f = [S \in SUBSET X |-> f[S]]
  BY <1>1 DEF Additive
<1>3. ASSUME NEW S \in SUBSET X
      PROVE  f[S] = IF S = {} THEN 0 ELSE w[CHOOSE x \in S : TRUE] + f[S \ {CHOOSE x \in S : TRUE}]
  <2>1. CASE S = {}
    BY <1>1, <2>1 DEF Additive
  <2>2. CASE S # {}
    <3> DEFINE x == CHOOSE x \in S : TRUE
    <3>1. x \in S
      BY <2>2
    <3> HIDE DEF x
    <3>2. f[S] = w[x] + f[S \ {x}]
      BY <1>1, <3>1 DEF Additive
    <3>3. QED
      BY <2>2, <3>2 DEF x
  <2>3. QED
    BY <2>1, <2>2
<1>4. SumFrom(w, X, f)
  BY <1>2, <1>3, Zenon DEF SumFrom
<1>5. QED
  BY <1>4

\* The order does not matter.
LEMMA SumIsAdditive ==
  ASSUME NEW X, IsFiniteSet(X), NEW w \in [X -> Int], NEW f, SumFrom(w, X, f)
  PROVE  Additive(w, X, f)
<1>1. PICK g : Additive(w, X, g)
  BY AdditiveExists
<1> DEFINE Bad == {n \in Nat : \E S \in SUBSET X : Cardinality(S) = n /\ f[S] # g[S]}
<1>2. Bad = {}
  <2>1. SUFFICES ASSUME Bad # {} PROVE FALSE
    OBVIOUS
  <2>2. PICK n \in Bad : \A k \in Bad : n <= k
    BY <2>1, LeastNumber
  <2>3. PICK S \in SUBSET X : Cardinality(S) = n /\ f[S] # g[S]
    BY <2>2
  <2> DEFINE x == CHOOSE x \in S : TRUE
  <2>4. f[S] = IF S = {} THEN 0 ELSE w[x] + f[S \ {x}]
    BY Zenon DEF SumFrom
  <2>5. S # {}
    BY <1>1, <2>3, <2>4 DEF Additive
  <2>6. x \in S
    BY <2>5
  <2> HIDE DEF x
  <2>7. S \ {x} \in SUBSET X /\ Cardinality(S \ {x}) = n - 1 /\ n - 1 \in Nat
    <3>1. IsFiniteSet(S)
      BY FS_Subset
    <3>2. IsFiniteSet(S \ {x}) /\ Cardinality(S \ {x}) = n - 1
      BY <2>3, <2>6, <3>1, FS_RemoveElement
    <3>3. Cardinality(S \ {x}) \in Nat
      BY <3>2, FS_CardinalityType
    <3>4. QED
      BY <3>2, <3>3
  <2>8. n - 1 \notin Bad
    BY <2>2, <2>7
  <2>9. f[S \ {x}] = g[S \ {x}]
    BY <2>7, <2>8
  <2>10. g[S] = w[x] + g[S \ {x}]
    BY <1>1, <2>6 DEF Additive
  <2>11. QED
    BY <2>3, <2>4, <2>5, <2>9, <2>10
<1>3. ASSUME NEW S \in SUBSET X PROVE f[S] = g[S]
  <2>1. Cardinality(S) \in Nat
    BY FS_Subset, FS_CardinalityType
  <2>2. Cardinality(S) \notin Bad
    BY <1>2
  <2>3. QED
    BY <2>1, <2>2
<1>4. f = [S \in SUBSET X |-> f[S]] /\ g = [S \in SUBSET X |-> g[S]]
  <2>1. f = [S \in SUBSET X |-> f[S]]
    BY Zenon DEF SumFrom
  <2>2. QED
    BY <1>1, <2>1 DEF Additive
<1>5. f = g
  BY <1>3, <1>4
<1>6. QED
  BY <1>1, <1>5

\* Where the summands are the same the sums are.
LEMMA SameSum ==
  ASSUME NEW X, IsFiniteSet(X), NEW w, NEW v, NEW f, NEW g, Additive(w, X, f), Additive(v, X, g),
         NEW Y \in SUBSET X, \A x \in Y : w[x] = v[x]
  PROVE  f[Y] = g[Y]
<1> DEFINE Bad == {n \in Nat : \E S \in SUBSET Y : Cardinality(S) = n /\ f[S] # g[S]}
<1>1. IsFiniteSet(Y)
  BY FS_Subset
<1>2. Bad = {}
  <2>1. SUFFICES ASSUME Bad # {} PROVE FALSE
    OBVIOUS
  <2>2. PICK n \in Bad : \A k \in Bad : n <= k
    BY <2>1, LeastNumber
  <2>3. PICK S \in SUBSET Y : Cardinality(S) = n /\ f[S] # g[S]
    BY <2>2
  <2>4. S # {}
    BY <2>3 DEF Additive
  <2>5. PICK x \in S : TRUE
    BY <2>4
  <2>6. S \ {x} \in SUBSET Y /\ Cardinality(S \ {x}) = n - 1 /\ n - 1 \in Nat
    <3>1. IsFiniteSet(S)
      BY <1>1, FS_Subset
    <3>2. IsFiniteSet(S \ {x}) /\ Cardinality(S \ {x}) = n - 1
      BY <2>3, <2>5, <3>1, FS_RemoveElement
    <3>3. Cardinality(S \ {x}) \in Nat
      BY <3>2, FS_CardinalityType
    <3>4. QED
      BY <3>2, <3>3
  <2>7. n - 1 \notin Bad
    BY <2>2, <2>6
  <2>8. f[S \ {x}] = g[S \ {x}]
    BY <2>6, <2>7
  <2>9. f[S] = w[x] + f[S \ {x}] /\ g[S] = v[x] + g[S \ {x}] /\ w[x] = v[x]
    BY <2>3, <2>5 DEF Additive
  <2>10. QED
    BY <2>3, <2>8, <2>9
<1>3. Cardinality(Y) \in Nat /\ Cardinality(Y) \notin Bad
  BY <1>1, <1>2, FS_CardinalityType
<1>4. QED
  BY <1>3

\* One summand that is another changes the sum by their difference.
LEMMA OtherSum ==
  ASSUME NEW X, IsFiniteSet(X), NEW w \in [X -> Int], NEW v \in [X -> Int],
         NEW f, NEW g, Additive(w, X, f), Additive(v, X, g),
         NEW x \in X, \A y \in X \ {x} : w[y] = v[y]
  PROVE  g[X] = f[X] + (v[x] - w[x])
<1>1. X \ {x} \in SUBSET X /\ X \in SUBSET X
  OBVIOUS
<1>2. f[X] = w[x] + f[X \ {x}] /\ g[X] = v[x] + g[X \ {x}]
  BY <1>1 DEF Additive
<1>3. f[X \ {x}] = g[X \ {x}]
  BY <1>1, SameSum
<1>4. w[x] \in Int /\ v[x] \in Int /\ f[X \ {x}] \in Int
  BY <1>1 DEF Additive
<1>5. QED
  BY <1>2, <1>3, <1>4

-----------------------------------------------------------------------------
(* The check digits of ISBNs.                                              *)

\* The sums of the code, written out.
Weighted10(s) ==
  10 * s[1] + 9 * s[2] + 8 * s[3] + 7 * s[4] + 6 * s[5] + 5 * s[6] + 4 * s[7] + 3 * s[8] + 2 * s[9]

Weighted13(s) ==
  s[1] + 3 * s[2] + s[3] + 3 * s[4] + s[5] + 3 * s[6] + s[7] + 3 * s[8] + s[9] + 3 * s[10]
  + s[11] + 3 * s[12]

Summands10(s) == [i \in 1 .. 9 |-> s[i] * Weight10(i)]

Weight13(i) == IF i % 2 = 1 THEN 1 ELSE 3

Summands13(s) == [i \in 1 .. 12 |-> s[i] * Weight13(i)]

\* A sum over the first n numbers ends with the last of them.
LEMMA SumOfFirst ==
  ASSUME NEW m \in Nat, NEW w \in [1 .. m -> Int], NEW f, Additive(w, 1 .. m, f)
  PROVE  /\ f[1 .. 0] = 0
         /\ \A n \in 1 .. m : f[1 .. n] = w[n] + f[1 .. n - 1] /\ f[1 .. n] \in Int
<1>1. f[1 .. 0] = 0
  <2>1. 1 .. 0 = {}
    OBVIOUS
  <2> QED
    BY <2>1 DEF Additive
<1>2. ASSUME NEW n \in 1 .. m PROVE f[1 .. n] = w[n] + f[1 .. n - 1] /\ f[1 .. n] \in Int
  <2>1. 1 .. n \in SUBSET (1 .. m) /\ n \in 1 .. n /\ (1 .. n) \ {n} = 1 .. n - 1
    OBVIOUS
  <2>2. f[1 .. n] = w[n] + f[(1 .. n) \ {n}] /\ f[1 .. n] \in Int
    BY <2>1, ZenonT(30) DEF Additive
  <2>3. QED
    BY <2>1, <2>2, Zenon
<1>3. QED
  BY <1>1, <1>2

LEMMA SumIs10 ==
  ASSUME NEW s, \A i \in 1 .. 9 : s[i] \in Int
  PROVE  /\ LET weighted(i) == s[i] * Weight10(i)
            IN  MapThenSumSet(weighted, 1 .. 9) = Weighted10(s)
         /\ Summands10(s) \in [1 .. 9 -> Int]
         /\ \E f : Additive(Summands10(s), 1 .. 9, f) /\ f[1 .. 9] = Weighted10(s)
<1> DEFINE X == 1 .. 9
           Raw(h) == h = [S \in SUBSET X |->
                       IF S = {} THEN 0
                       ELSE LET x == CHOOSE x \in S : TRUE IN s[x] * Weight10(x) + h[S \ {x}]]
           f == CHOOSE h : Raw(h)
           w == Summands10(s)
<1> USE DEF Summands10
<1>1. LET weighted(i) == s[i] * Weight10(i) IN MapThenSumSet(weighted, X) = f[X]
  BY Zenon DEF MapThenSumSet, MapThenFoldSet
<1>2. IsFiniteSet(X) /\ w \in [X -> Int]
  <2>1. IsFiniteSet(1 .. 9)
    BY FS_Interval, 1 \in Int, 9 \in Int
  <2>2. \A a, b \in Int : a * b \in Int
    OBVIOUS
  <2>3. \A i \in 1 .. 9 : Weight10(i) \in Int
    BY DEF Weight10
  <2>4. ASSUME NEW i \in 1 .. 9 PROVE s[i] * Weight10(i) \in Int
    <3>1. s[i] \in Int /\ Weight10(i) \in Int
      BY <2>3
    <3>2. QED
      BY <2>2, <3>1
  <2>5. QED
    BY <2>1, <2>4
<1>3. ASSUME NEW h PROVE Raw(h) <=> SumFrom(w, X, h)
  <2>1. \A S \in SUBSET X : S # {} =>
          s[CHOOSE x \in S : TRUE] * Weight10(CHOOSE x \in S : TRUE) = w[CHOOSE x \in S : TRUE]
    <3>1. \A i \in X : s[i] * Weight10(i) = w[i]
      OBVIOUS
    <3>2. ASSUME NEW S \in SUBSET X, S # {} PROVE (CHOOSE x \in S : TRUE) \in X
      <4>1. (CHOOSE x \in S : TRUE) \in S
        BY <3>2
      <4>2. QED
        BY <4>1
    <3> HIDE DEF w, X
    <3>3. QED
      BY <3>1, <3>2
  <2> HIDE DEF w, X
  <2>2. QED
    BY <2>1 DEF SumFrom
<1>4. \E h : Raw(h)
  <2> HIDE DEF w, Raw, X
  <2> QED
    BY <1>2, <1>3, SumExists
<1>5. Raw(f)
  BY <1>4, Zenon
<1> HIDE DEF f
<1>6. Additive(w, X, f)
  <2> HIDE DEF w, Raw, X
  <2> QED
    BY <1>2, <1>3, <1>5, SumIsAdditive
<1>7. /\ f[1 .. 0] = 0
      /\ \A n \in 1 .. 9 : f[1 .. n] = w[n] + f[1 .. n - 1] /\ f[1 .. n] \in Int
  <2> HIDE DEF w
  <2> QED
    BY <1>2, <1>6, SumOfFirst
<1>8. /\ f[1 .. 1] = w[1] + f[1 .. 0] /\ f[1 .. 2] = w[2] + f[1 .. 1]
      /\ f[1 .. 3] = w[3] + f[1 .. 2] /\ f[1 .. 4] = w[4] + f[1 .. 3]
      /\ f[1 .. 5] = w[5] + f[1 .. 4] /\ f[1 .. 6] = w[6] + f[1 .. 5]
      /\ f[1 .. 7] = w[7] + f[1 .. 6] /\ f[1 .. 8] = w[8] + f[1 .. 7]
      /\ f[1 .. 9] = w[9] + f[1 .. 8]
  <2> HIDE DEF w, X
  <2>1. \A n \in 1 .. 9 : f[1 .. n] = w[n] + f[1 .. n - 1]
    BY <1>7
  <2>2. /\ 1 - 1 = 0 /\ 2 - 1 = 1 /\ 3 - 1 = 2 /\ 4 - 1 = 3 /\ 5 - 1 = 4
        /\ 6 - 1 = 5 /\ 7 - 1 = 6 /\ 8 - 1 = 7 /\ 9 - 1 = 8
    OBVIOUS
  <2> QED
    BY <2>1, <2>2
<1>9. /\ w[1] = 10 * s[1] /\ w[2] = 9 * s[2] /\ w[3] = 8 * s[3] /\ w[4] = 7 * s[4]
      /\ w[5] = 6 * s[5] /\ w[6] = 5 * s[6] /\ w[7] = 4 * s[7] /\ w[8] = 3 * s[8]
      /\ w[9] = 2 * s[9]
  BY DEF Weight10
<1>10. /\ s[1] \in Int /\ s[2] \in Int /\ s[3] \in Int /\ s[4] \in Int /\ s[5] \in Int
       /\ s[6] \in Int /\ s[7] \in Int /\ s[8] \in Int /\ s[9] \in Int
  OBVIOUS
<1> HIDE DEF w
<1>11. f[1 .. 9] = Weighted10(s)
  BY <1>7, <1>8, <1>9, <1>10 DEF Weighted10
<1>12. QED
  BY <1>1, <1>2, <1>6, <1>11, Zenon DEF w

LEMMA SumIs13 ==
  ASSUME NEW s, \A i \in 1 .. 12 : s[i] \in Int
  PROVE  /\ LET weighted(i) == s[i] * (IF i % 2 = 1 THEN 1 ELSE 3)
            IN  MapThenSumSet(weighted, 1 .. 12) = Weighted13(s)
         /\ Summands13(s) \in [1 .. 12 -> Int]
         /\ \E f : Additive(Summands13(s), 1 .. 12, f) /\ f[1 .. 12] = Weighted13(s)
<1> DEFINE X == 1 .. 12
           Raw(h) == h = [S \in SUBSET X |->
                       IF S = {} THEN 0
                       ELSE LET x == CHOOSE x \in S : TRUE IN s[x] * Weight13(x) + h[S \ {x}]]
           f == CHOOSE h : Raw(h)
           w == Summands13(s)
<1> USE DEF Summands13
<1>1. LET weighted(i) == s[i] * (IF i % 2 = 1 THEN 1 ELSE 3) IN MapThenSumSet(weighted, X) = f[X]
  BY Zenon DEF MapThenSumSet, MapThenFoldSet, Weight13
<1>2. IsFiniteSet(X) /\ w \in [X -> Int]
  <2>1. IsFiniteSet(1 .. 12)
    BY FS_Interval, 1 \in Int, 12 \in Int
  <2>2. \A a, b \in Int : a * b \in Int
    OBVIOUS
  <2>3. \A i \in 1 .. 12 : Weight13(i) \in Int
    BY DEF Weight13
  <2>4. ASSUME NEW i \in 1 .. 12 PROVE s[i] * Weight13(i) \in Int
    <3>1. s[i] \in Int /\ Weight13(i) \in Int
      BY <2>3
    <3>2. QED
      BY <2>2, <3>1
  <2>5. QED
    BY <2>1, <2>4
<1>3. ASSUME NEW h PROVE Raw(h) <=> SumFrom(w, X, h)
  <2>1. \A S \in SUBSET X : S # {} =>
          s[CHOOSE x \in S : TRUE] * Weight13(CHOOSE x \in S : TRUE) = w[CHOOSE x \in S : TRUE]
    <3>1. \A i \in X : s[i] * Weight13(i) = w[i]
      OBVIOUS
    <3>2. ASSUME NEW S \in SUBSET X, S # {} PROVE (CHOOSE x \in S : TRUE) \in X
      <4>1. (CHOOSE x \in S : TRUE) \in S
        BY <3>2
      <4>2. QED
        BY <4>1
    <3> HIDE DEF w, X
    <3>3. QED
      BY <3>1, <3>2
  <2> HIDE DEF w, X
  <2>2. QED
    BY <2>1 DEF SumFrom
<1>4. \E h : Raw(h)
  <2> HIDE DEF w, Raw, X
  <2> QED
    BY <1>2, <1>3, SumExists
<1>5. Raw(f)
  BY <1>4, Zenon
<1> HIDE DEF f
<1>6. Additive(w, X, f)
  <2> HIDE DEF w, Raw, X
  <2> QED
    BY <1>2, <1>3, <1>5, SumIsAdditive
<1>7. /\ f[1 .. 0] = 0
      /\ \A n \in 1 .. 12 : f[1 .. n] = w[n] + f[1 .. n - 1] /\ f[1 .. n] \in Int
  <2> HIDE DEF w
  <2> QED
    BY <1>2, <1>6, SumOfFirst
<1>8. /\ f[1 .. 1] = w[1] + f[1 .. 0] /\ f[1 .. 2] = w[2] + f[1 .. 1]
      /\ f[1 .. 3] = w[3] + f[1 .. 2] /\ f[1 .. 4] = w[4] + f[1 .. 3]
      /\ f[1 .. 5] = w[5] + f[1 .. 4] /\ f[1 .. 6] = w[6] + f[1 .. 5]
      /\ f[1 .. 7] = w[7] + f[1 .. 6] /\ f[1 .. 8] = w[8] + f[1 .. 7]
      /\ f[1 .. 9] = w[9] + f[1 .. 8] /\ f[1 .. 10] = w[10] + f[1 .. 9]
      /\ f[1 .. 11] = w[11] + f[1 .. 10] /\ f[1 .. 12] = w[12] + f[1 .. 11]
  <2> HIDE DEF w, X
  <2>1. \A n \in 1 .. 12 : f[1 .. n] = w[n] + f[1 .. n - 1]
    BY <1>7
  <2>2. /\ 1 - 1 = 0 /\ 2 - 1 = 1 /\ 3 - 1 = 2 /\ 4 - 1 = 3 /\ 5 - 1 = 4 /\ 6 - 1 = 5
        /\ 7 - 1 = 6 /\ 8 - 1 = 7 /\ 9 - 1 = 8 /\ 10 - 1 = 9 /\ 11 - 1 = 10 /\ 12 - 1 = 11
    OBVIOUS
  <2> QED
    BY <2>1, <2>2
<1>9. /\ w[1] = s[1] /\ w[2] = 3 * s[2] /\ w[3] = s[3] /\ w[4] = 3 * s[4]
      /\ w[5] = s[5] /\ w[6] = 3 * s[6] /\ w[7] = s[7] /\ w[8] = 3 * s[8]
      /\ w[9] = s[9] /\ w[10] = 3 * s[10] /\ w[11] = s[11] /\ w[12] = 3 * s[12]
  <2>1. /\ Weight13(1) = 1 /\ Weight13(2) = 3 /\ Weight13(3) = 1 /\ Weight13(4) = 3
        /\ Weight13(5) = 1 /\ Weight13(6) = 3 /\ Weight13(7) = 1 /\ Weight13(8) = 3
        /\ Weight13(9) = 1 /\ Weight13(10) = 3 /\ Weight13(11) = 1 /\ Weight13(12) = 3
    BY DEF Weight13
  <2>2. QED
    BY <2>1
<1>10. /\ s[1] \in Int /\ s[2] \in Int /\ s[3] \in Int /\ s[4] \in Int /\ s[5] \in Int
       /\ s[6] \in Int /\ s[7] \in Int /\ s[8] \in Int /\ s[9] \in Int /\ s[10] \in Int
       /\ s[11] \in Int /\ s[12] \in Int
  OBVIOUS
<1> HIDE DEF w
<1>11. f[1 .. 12] = Weighted13(s)
  BY <1>7, <1>8, <1>9, <1>10 DEF Weighted13
<1>12. QED
  BY <1>1, <1>2, <1>6, <1>11, Zenon DEF w

\* What a sum knows of its summands, without writing it out.
LEMMA Weigh10 ==
  ASSUME NEW s, NEW p, \A j \in 1 .. 9 : s[j] \in Int /\ p[j] \in Int
  PROVE  /\ Weighted10(s) \in Int
         /\ (\A j \in 1 .. 9 : p[j] = s[j]) => Weighted10(p) = Weighted10(s)
         /\ \A i \in 1 .. 9 : (\A j \in (1 .. 9) \ {i} : p[j] = s[j]) =>
              Weighted10(p) = Weighted10(s) + (Summands10(p)[i] - Summands10(s)[i])
<1> DEFINE X == 1 .. 9
<1>1. IsFiniteSet(X)
  BY FS_Interval, 1 \in Int, 9 \in Int
<1>2. PICK f : Additive(Summands10(s), X, f) /\ f[X] = Weighted10(s)
  BY SumIs10
<1>3. PICK g : Additive(Summands10(p), X, g) /\ g[X] = Weighted10(p)
  BY SumIs10
<1>4. Summands10(s) \in [X -> Int] /\ Summands10(p) \in [X -> Int]
  BY SumIs10
<1>5. \A j \in X : p[j] = s[j] => Summands10(s)[j] = Summands10(p)[j]
  BY DEF Summands10
<1> HIDE DEF X
<1>6. X \in SUBSET X
  OBVIOUS
<1>7. Weighted10(s) \in Int
  BY <1>2, <1>6 DEF Additive
<1>8. ASSUME \A j \in X : p[j] = s[j] PROVE Weighted10(p) = Weighted10(s)
  <2>1. f[X] = g[X]
    BY <1>1, <1>2, <1>3, <1>5, <1>6, <1>8, SameSum
  <2>2. QED
    BY <1>2, <1>3, <2>1
<1>9. ASSUME NEW i \in X, \A j \in X \ {i} : p[j] = s[j]
      PROVE  Weighted10(p) = Weighted10(s) + (Summands10(p)[i] - Summands10(s)[i])
  <2>1. \A j \in X \ {i} : Summands10(s)[j] = Summands10(p)[j]
    BY <1>5, <1>9
  <2>2. g[X] = f[X] + (Summands10(p)[i] - Summands10(s)[i])
    BY <1>1, <1>2, <1>3, <1>4, <2>1, OtherSum
  <2>3. QED
    BY <1>2, <1>3, <2>2
<1>10. QED
  BY <1>7, <1>8, <1>9 DEF X

LEMMA Weigh13 ==
  ASSUME NEW s, NEW p, \A j \in 1 .. 12 : s[j] \in Int /\ p[j] \in Int
  PROVE  /\ Weighted13(s) \in Int
         /\ (\A j \in 1 .. 12 : p[j] = s[j]) => Weighted13(p) = Weighted13(s)
         /\ \A i \in 1 .. 12 : (\A j \in (1 .. 12) \ {i} : p[j] = s[j]) =>
              Weighted13(p) = Weighted13(s) + (Summands13(p)[i] - Summands13(s)[i])
<1> DEFINE X == 1 .. 12
<1>1. IsFiniteSet(X)
  BY FS_Interval, 1 \in Int, 12 \in Int
<1>2. PICK f : Additive(Summands13(s), X, f) /\ f[X] = Weighted13(s)
  BY SumIs13
<1>3. PICK g : Additive(Summands13(p), X, g) /\ g[X] = Weighted13(p)
  BY SumIs13
<1>4. Summands13(s) \in [X -> Int] /\ Summands13(p) \in [X -> Int]
  BY SumIs13
<1>5. \A j \in X : p[j] = s[j] => Summands13(s)[j] = Summands13(p)[j]
  BY DEF Summands13
<1> HIDE DEF X
<1>6. X \in SUBSET X
  OBVIOUS
<1>7. Weighted13(s) \in Int
  BY <1>2, <1>6 DEF Additive
<1>8. ASSUME \A j \in X : p[j] = s[j] PROVE Weighted13(p) = Weighted13(s)
  <2>1. f[X] = g[X]
    BY <1>1, <1>2, <1>3, <1>5, <1>6, <1>8, SameSum
  <2>2. QED
    BY <1>2, <1>3, <2>1
<1>9. ASSUME NEW i \in X, \A j \in X \ {i} : p[j] = s[j]
      PROVE  Weighted13(p) = Weighted13(s) + (Summands13(p)[i] - Summands13(s)[i])
  <2>1. \A j \in X \ {i} : Summands13(s)[j] = Summands13(p)[j]
    BY <1>5, <1>9
  <2>2. g[X] = f[X] + (Summands13(p)[i] - Summands13(s)[i])
    BY <1>1, <1>2, <1>3, <1>4, <2>1, OtherSum
  <2>3. QED
    BY <1>2, <1>3, <2>2
<1>10. QED
  BY <1>7, <1>8, <1>9 DEF X

\* The two checks of the code, with the sums written out.
LEMMA ValidIsbn10Is ==
  ASSUME NEW s \in Seq(0 .. 10)
  PROVE  ValidIsbn10(s) <=> /\ Len(s) = 10 /\ Digits(SubSeq(s, 1, 9)) /\ s[10] \in 0 .. 10
                            /\ (Weighted10(s) + s[10]) % 11 = 0
<1>1. ASSUME Len(s) = 10 PROVE \A i \in 1 .. 9 : s[i] \in Int
  <2>1. \A i \in 1 .. Len(s) : s[i] \in 0 .. 10
    OBVIOUS
  <2>2. QED
    BY <1>1, <2>1
<1>2. ASSUME \A i \in 1 .. 9 : s[i] \in Int
      PROVE  LET weighted(i) == s[i] * Weight10(i)
             IN  MapThenSumSet(weighted, 1 .. 9) = Weighted10(s)
  BY <1>2, SumIs10
<1>3. QED
  BY <1>1, <1>2, Zenon DEF ValidIsbn10

LEMMA CheckDigit13Is ==
  ASSUME NEW s, \A i \in 1 .. 12 : s[i] \in Int
  PROVE  CheckDigit13(s) = (10 - (Weighted13(s) % 10)) % 10
<1>1. LET weighted(i) == s[i] * (IF i % 2 = 1 THEN 1 ELSE 3)
      IN  MapThenSumSet(weighted, 1 .. 12) = Weighted13(s)
  BY SumIs13
<1>2. QED
  BY <1>1, Zenon DEF CheckDigit13

\* A check digit completes a sum to a multiple of ten, and no other does.
LEMMA CompletesTen ==
  ASSUME NEW t \in Int, NEW c \in 0 .. 9
  PROVE  c = (10 - (t % 10)) % 10 <=> (t + c) % 10 = 0
OBVIOUS

\* One wrong summand is noticed: 3 has no factor of 10, and no weight has one of 11.
LEMMA NoticedBy10 ==
  ASSUME NEW t \in Int, NEW d \in -9 .. 9, d # 0, NEW w \in {1, 3}, t % 10 = 0
  PROVE  (t + w * d) % 10 # 0
<1>1. CASE w = 1
  BY <1>1
<1>2. CASE w = 3
  <2>1. (t + 3 * d) % 10 # 0
    OBVIOUS
  <2>2. QED
    BY <1>2, <2>1
<1>3. QED
  BY <1>1, <1>2

LEMMA NoticedBy11 ==
  ASSUME NEW t \in Int, NEW d \in -10 .. 10, d # 0, NEW w \in 1 .. 10, t % 11 = 0
  PROVE  (t + w * d) % 11 # 0
<1>1. /\ (t + 1 * d) % 11 # 0 /\ (t + 2 * d) % 11 # 0 /\ (t + 3 * d) % 11 # 0
      /\ (t + 4 * d) % 11 # 0 /\ (t + 5 * d) % 11 # 0 /\ (t + 6 * d) % 11 # 0
      /\ (t + 7 * d) % 11 # 0 /\ (t + 8 * d) % 11 # 0 /\ (t + 9 * d) % 11 # 0
      /\ (t + 10 * d) % 11 # 0
  OBVIOUS
<1>2. \/ w = 1 \/ w = 2 \/ w = 3 \/ w = 4 \/ w = 5 \/ w = 6 \/ w = 7 \/ w = 8 \/ w = 9 \/ w = 10
  OBVIOUS
<1>3. QED
  BY <1>1, <1>2

-----------------------------------------------------------------------------
(* The two forms of a book's ISBN.                                         *)

Last10(b) ==
  (1 * b[1] + 2 * b[2] + 3 * b[3] + 4 * b[4] + 5 * b[5] + 6 * b[6] + 7 * b[7] + 8 * b[8] + 9 * b[9]) % 11

Sum13(b) ==
  9 + 8 + b[2] + b[4] + b[6] + b[8] + 3 * (7 + b[1] + b[3] + b[5] + b[7] + b[9])

Last13(b) == (10 - (Sum13(b) % 10)) % 10

\* The thirteen digits with any last one.
Form13(b, c) == <<9, 7, 8>> \o b \o <<c>>

Digit9(b) ==
  /\ b[1] \in 0 .. 9 /\ b[2] \in 0 .. 9 /\ b[3] \in 0 .. 9 /\ b[4] \in 0 .. 9 /\ b[5] \in 0 .. 9
  /\ b[6] \in 0 .. 9 /\ b[7] \in 0 .. 9 /\ b[8] \in 0 .. 9 /\ b[9] \in 0 .. 9

LEMMA BodyIs ==
  ASSUME NEW b \in Bodies
  PROVE  b \in Seq(0 .. 9) /\ Len(b) = 9 /\ Digit9(b)
<1>1. b \in [1 .. 9 -> 0 .. 9]
  BY IsbnAssumption
<1>2. b \in Seq(0 .. 9) /\ Len(b) = 9
  <2>1. b = [i \in 1 .. 9 |-> b[i]] /\ \A i \in 1 .. 9 : b[i] \in 0 .. 9
    BY <1>1
  <2>2. QED
    BY <2>1
<1>3. Digit9(b)
  BY <1>1 DEF Digit9
<1>4. QED
  BY <1>2, <1>3

LEMMA LastDigits ==
  ASSUME NEW b \in Bodies
  PROVE  Last10(b) \in 0 .. 10 /\ Last13(b) \in 0 .. 9 /\ Sum13(b) \in Nat
<1>1. Digit9(b)
  BY BodyIs
<1>2. Sum13(b) \in Nat
  BY <1>1 DEF Digit9, Sum13
<1>3. Last10(b) \in 0 .. 10
  <2> DEFINE t == 1 * b[1] + 2 * b[2] + 3 * b[3] + 4 * b[4] + 5 * b[5] + 6 * b[6] + 7 * b[7]
                  + 8 * b[8] + 9 * b[9]
  <2>1. t \in Nat
    <3>1. /\ b[1] \in Nat /\ b[2] \in Nat /\ b[3] \in Nat /\ b[4] \in Nat /\ b[5] \in Nat
          /\ b[6] \in Nat /\ b[7] \in Nat /\ b[8] \in Nat /\ b[9] \in Nat
      BY <1>1 DEF Digit9
    <3>2. /\ 1 * b[1] + 2 * b[2] + 3 * b[3] \in Nat
          /\ 4 * b[4] + 5 * b[5] + 6 * b[6] \in Nat
          /\ 7 * b[7] + 8 * b[8] + 9 * b[9] \in Nat
      BY <3>1
    <3>3. t = (1 * b[1] + 2 * b[2] + 3 * b[3]) + (4 * b[4] + 5 * b[5] + 6 * b[6])
              + (7 * b[7] + 8 * b[8] + 9 * b[9])
      BY <3>1
    <3> HIDE DEF t
    <3>4. QED
      BY <3>2, <3>3
  <2>2. Last10(b) = t % 11
    BY DEF Last10
  <2> HIDE DEF t
  <2>3. QED
    BY <2>1, <2>2
<1>4. Last13(b) \in 0 .. 9
  BY <1>2 DEF Last13
<1>5. QED
  BY <1>2, <1>3, <1>4

LEMMA Isbn10Is ==
  ASSUME NEW b \in Bodies
  PROVE  /\ Isbn10(b) \in Seq(0 .. 10) /\ Len(Isbn10(b)) = 10
         /\ \A i \in 1 .. 9 : Isbn10(b)[i] = b[i]
         /\ Isbn10(b)[10] = Last10(b)
<1> DEFINE c == Last10(b)
<1>1. Isbn10(b) = Append(b, c)
  BY DEF Isbn10, Last10
<1>2. b \in Seq(0 .. 10) /\ Len(b) = 9 /\ c \in 0 .. 10
  BY BodyIs, LastDigits
<1> HIDE DEF c
<1> DEFINE D == 0 .. 10
<1>3. b \in Seq(D) /\ c \in D
  BY <1>2
<1> HIDE DEF D
<1>4. /\ Append(b, c) \in Seq(D) /\ Len(Append(b, c)) = Len(b) + 1
      /\ \A i \in 1 .. Len(b) : Append(b, c)[i] = b[i]
      /\ Append(b, c)[Len(b) + 1] = c
  BY <1>3, AppendProperties
<1>5. QED
  BY <1>1, <1>2, <1>4 DEF c, D

LEMMA Form13Is ==
  ASSUME NEW b \in Bodies, NEW c \in 0 .. 10
  PROVE  /\ Form13(b, c) \in Seq(0 .. 10) /\ Len(Form13(b, c)) = 13
         /\ Form13(b, c)[1] = 9 /\ Form13(b, c)[2] = 7 /\ Form13(b, c)[3] = 8
         /\ \A i \in 1 .. 9 : Form13(b, c)[i + 3] = b[i]
         /\ Form13(b, c)[13] = c
<1>1. b \in Seq(0 .. 10) /\ Len(b) = 9
  BY BodyIs
<1> DEFINE D == 0 .. 10
           a == <<9, 7, 8>>
           z == <<c>>
           front == a \o b
<1>2. /\ a \in Seq(D) /\ Len(a) = 3 /\ a[1] = 9 /\ a[2] = 7 /\ a[3] = 8
      /\ z \in Seq(D) /\ Len(z) = 1 /\ z[1] = c
  OBVIOUS
<1>3. b \in Seq(D)
  BY <1>1
<1>4. Form13(b, c) = front \o z
  BY DEF Form13
<1> HIDE DEF D, a, z
<1>5. /\ front \in Seq(D) /\ Len(front) = Len(a) + Len(b)
      /\ \A i \in 1 .. Len(a) + Len(b) : front[i] = IF i <= Len(a) THEN a[i] ELSE b[i - Len(a)]
  BY <1>2, <1>3, ConcatProperties
<1> HIDE DEF front
<1>6. Len(front) = 12
  BY <1>1, <1>2, <1>5
<1>7. /\ front \o z \in Seq(D) /\ Len(front \o z) = Len(front) + Len(z)
      /\ \A i \in 1 .. Len(front) + Len(z) :
           (front \o z)[i] = IF i <= Len(front) THEN front[i] ELSE z[i - Len(front)]
  <2>1. front \in Seq(D) /\ z \in Seq(D)
    BY <1>2, <1>5
  <2>2. QED
    BY <2>1, ConcatProperties, Zenon
<1> DEFINE s == front \o z
<1>8. s \in Seq(D) /\ Len(s) = 13
  BY <1>2, <1>6, <1>7
<1>9. ASSUME NEW i \in 1 .. 12
      PROVE  s[i] = IF i <= 3 THEN a[i] ELSE b[i - 3]
  <2>1. i \in 1 .. Len(front) + Len(z) /\ i <= Len(front) /\ i \in 1 .. Len(a) + Len(b)
    BY <1>1, <1>2, <1>6
  <2>2. s[i] = front[i]
    BY <1>7, <2>1
  <2>3. QED
    BY <1>2, <1>5, <2>1, <2>2
<1>10. s[13] = c
  <2>1. 13 \in 1 .. Len(front) + Len(z) /\ ~ (13 <= Len(front)) /\ 13 - Len(front) = 1
    BY <1>2, <1>6
  <2>2. QED
    BY <1>2, <1>7, <2>1
<1> HIDE DEF s
<1>11. ASSUME NEW i \in 1 .. 9 PROVE s[i + 3] = b[i]
  <2>1. i + 3 \in 1 .. 12 /\ ~ (i + 3 <= 3) /\ (i + 3) - 3 = i
    OBVIOUS
  <2>2. QED
    BY <1>9, <2>1
<1>12. s[1] = 9 /\ s[2] = 7 /\ s[3] = 8
  BY <1>2, <1>9
<1>13. QED
  BY <1>4, <1>8, <1>10, <1>11, <1>12 DEF s, D

LEMMA Isbn13Is ==
  ASSUME NEW b \in Bodies
  PROVE  Isbn13(b) = Form13(b, Last13(b))
<1> DEFINE forms == {Form13(b, c) : c \in 0 .. 9}
           Fits(s) == (Sum13(b) + s[13]) % 10 = 0
<1>1. Isbn13(b) = CHOOSE s \in forms : Fits(s)
  <2>1. Isbn13(b) = CHOOSE s \in {<<9, 7, 8>> \o b \o <<c>> : c \in 0 .. 9} :
                      (9 + 8 + b[2] + b[4] + b[6] + b[8]
                       + 3 * (7 + b[1] + b[3] + b[5] + b[7] + b[9]) + s[13]) % 10 = 0
    BY Zenon DEF Isbn13
  <2>2. QED
    BY <2>1, Zenon DEF Sum13, Form13
<1>2. Sum13(b) \in Int /\ Last13(b) \in 0 .. 9
  BY LastDigits
<1>3. ASSUME NEW c \in 0 .. 9 PROVE Fits(Form13(b, c)) <=> c = Last13(b)
  <2>1. c \in 0 .. 10
    OBVIOUS
  <2>2. Form13(b, c)[13] = c
    BY <2>1, Form13Is
  <2>3. QED
    BY <1>2, <2>2, CompletesTen DEF Last13
<1>4. Form13(b, Last13(b)) \in forms /\ Fits(Form13(b, Last13(b)))
  BY <1>2, <1>3
<1>5. \A s \in forms : Fits(s) <=> s = Form13(b, Last13(b))
  BY <1>3, <1>4
<1> HIDE DEF forms, Fits
<1>6. QED
  BY <1>1, <1>4, <1>5

\* Both checks, without SubSeq.
LEMMA FrontIs ==
  ASSUME NEW s \in Seq(0 .. 10), NEW n \in 1 .. 12, Len(s) > n
  PROVE  /\ SubSeq(s, 1, n) \in Seq(0 .. 10) /\ Len(SubSeq(s, 1, n)) = n
         /\ \A i \in 1 .. n : SubSeq(s, 1, n)[i] = s[i] /\ s[i] \in 0 .. 10
<1> DEFINE D == 0 .. 10
<1>1. n \in Nat /\ Len(s) \in Nat /\ s \in Seq(D)
  BY LenProperties
<1>2. \A i \in 1 .. n : i \in 1 .. Len(s)
  BY <1>1
<1> HIDE DEF D
<1>3. \A i \in 1 .. n : s[i] \in D
  BY <1>1, <1>2, ElementOfSeq
<1>4. n \in Int /\ 1 \in Int /\ 1 <= n /\ n - 1 + 1 = n
  BY <1>1
<1>5. /\ SubSeq(s, 1, n) \in Seq(D)
      /\ Len(SubSeq(s, 1, n)) = IF 1 <= n THEN n - 1 + 1 ELSE 0
      /\ \A i \in 1 .. n - 1 + 1 : SubSeq(s, 1, n)[i] = s[1 + i - 1]
  BY <1>3, <1>4, SubSeqProperties
<1>6. \A i \in 1 .. n : 1 + i - 1 = i
  OBVIOUS
<1>7. \A i \in 1 .. n : SubSeq(s, 1, n)[i] = s[i]
  BY <1>4, <1>5, <1>6
<1>8. QED
  BY <1>3, <1>4, <1>5, <1>7 DEF D

LEMMA Valid10Means ==
  ASSUME NEW s \in Seq(0 .. 10)
  PROVE  ValidIsbn10(s) <=> /\ Len(s) = 10 /\ \A i \in 1 .. 9 : s[i] \in 0 .. 9
                            /\ (Weighted10(s) + s[10]) % 11 = 0
<1>1. CASE Len(s) # 10
  BY <1>1, ValidIsbn10Is
<1>2. CASE Len(s) = 10
  <2>1. Len(s) > 9 /\ 9 \in 1 .. 12 /\ 10 \in 1 .. Len(s)
    BY <1>2
  <2>2. SubSeq(s, 1, 9) \in Seq(0 .. 10) /\ Len(SubSeq(s, 1, 9)) = 9
    BY <2>1, FrontIs
  <2>3. \A i \in 1 .. 9 : SubSeq(s, 1, 9)[i] = s[i]
    BY <2>1, FrontIs
  <2>4. DOMAIN SubSeq(s, 1, 9) = 1 .. 9
    BY <2>2, LenProperties
  <2>5. Digits(SubSeq(s, 1, 9)) <=> \A i \in 1 .. 9 : s[i] \in 0 .. 9
    BY <2>3, <2>4, Zenon DEF Digits
  <2>6. s[10] \in 0 .. 10
    BY <2>1, ElementOfSeq
  <2>7. QED
    BY <2>5, <2>6, ValidIsbn10Is, Zenon
<1>3. QED
  BY <1>1, <1>2

LEMMA Valid13Means ==
  ASSUME NEW s \in Seq(0 .. 10)
  PROVE  ValidIsbn13(s) <=> /\ Len(s) = 13 /\ \A i \in 1 .. 13 : s[i] \in 0 .. 9
                            /\ (Weighted13(s) + s[13]) % 10 = 0
<1>1. CASE Len(s) # 13
  BY <1>1 DEF ValidIsbn13
<1>2. CASE Len(s) = 13
  <2> DEFINE t == SubSeq(s, 1, 12)
  <2>1. Len(s) > 12 /\ 12 \in 1 .. 12 /\ 13 \in 1 .. 13
    BY <1>2
  <2>2. \A i \in 1 .. 12 : SubSeq(s, 1, 12)[i] = s[i] /\ s[i] \in 0 .. 10
    BY <2>1, FrontIs
  <2>3. \A i \in 1 .. 12 : t[i] = s[i] /\ s[i] \in Int /\ t[i] \in Int
    <3>1. \A x \in 0 .. 10 : x \in Int
      OBVIOUS
    <3>2. QED
      BY <2>2, <3>1, Zenon
  <2>4. DOMAIN s = 1 .. 13
    BY <1>2, LenProperties
  <2>5. Digits(s) <=> \A i \in 1 .. 13 : s[i] \in 0 .. 9
    BY <2>4, Zenon DEF Digits
  <2> HIDE DEF t
  <2>6. Weighted13(t) = Weighted13(s) /\ Weighted13(s) \in Int
    BY <2>3, Weigh13
  <2>7. CheckDigit13(t) = (10 - (Weighted13(s) % 10)) % 10
    BY <2>3, <2>6, CheckDigit13Is
  <2>8. ASSUME s[13] \in 0 .. 9
        PROVE  s[13] = CheckDigit13(t) <=> (Weighted13(s) + s[13]) % 10 = 0
    BY <2>6, <2>7, <2>8, CompletesTen
  <2>9. ValidIsbn13(s) <=> Digits(s) /\ s[13] = CheckDigit13(t)
    BY <1>2 DEF ValidIsbn13, t
  <2>10. QED
    BY <1>2, <2>1, <2>5, <2>8, <2>9, Zenon
<1>3. QED
  BY <1>1, <1>2

\* One wrong character in a valid ISBN of ten makes it invalid ...
LEMMA SlipIn10 ==
  ASSUME NEW s \in Seq(0 .. 10), ValidIsbn10(s), NEW i \in 1 .. 10, NEW c \in 0 .. 10, c # s[i]
  PROVE  ~ ValidIsbn10([s EXCEPT ![i] = c])
<1> DEFINE p == [s EXCEPT ![i] = c]
<1>1. /\ Len(s) = 10 /\ \A j \in 1 .. 9 : s[j] \in 0 .. 9
      /\ (Weighted10(s) + s[10]) % 11 = 0
  BY Valid10Means
<1>2. DOMAIN s = 1 .. 10 /\ i \in 1 .. Len(s) /\ 10 \in 1 .. Len(s)
  BY <1>1, LenProperties
<1>3. p \in Seq(0 .. 10) /\ s[10] \in 0 .. 10
  BY <1>2, ExceptSeq, ElementOfSeq
<1>4. \A j \in 1 .. 10 : p[j] = IF j = i THEN c ELSE s[j]
  BY <1>2
<1>5. SUFFICES ASSUME ValidIsbn10(p) PROVE FALSE
  OBVIOUS
<1> HIDE DEF p
<1>6. /\ \A j \in 1 .. 9 : p[j] \in 0 .. 9
      /\ (Weighted10(p) + p[10]) % 11 = 0
  BY <1>3, <1>5, Valid10Means
<1>7. \A j \in 1 .. 9 : s[j] \in Int /\ p[j] \in Int
  BY <1>1, <1>6, SMTT(40)
<1>8. Weighted10(s) \in Int /\ Weighted10(p) \in Int
  BY <1>7, Weigh10
<1>9. s[10] \in Int /\ c \in Int
  BY <1>3
<1> DEFINE a == s[i]
           d == c - a
           t == Weighted10(s) + s[10]
<1>10. t % 11 = 0 /\ t \in Int
  BY <1>1, <1>8, <1>9
<1>11. CASE i = 10
  <2>1. Weighted10(p) = Weighted10(s)
    <3>1. \A j \in 1 .. 9 : p[j] = s[j]
      BY <1>4, <1>11
    <3>2. QED
      BY <1>7, <3>1, Weigh10
  <2>2. p[10] = c /\ a = s[10] /\ a \in 0 .. 10
    BY <1>3, <1>4, <1>11
  <2> HIDE DEF a
  <2>3. d \in -10 .. 10 /\ d # 0
    <3>1. c \in Int /\ 0 <= c /\ c <= 10 /\ c # a
      BY DEF a
    <3>2. a \in Int /\ 0 <= a /\ a <= 10
      BY <2>2
    <3>3. QED
      BY ONLY <3>1, <3>2
  <2>4. Weighted10(p) + p[10] = t + 1 * d
    BY <1>8, <1>9, <2>1, <2>2
  <2> HIDE DEF d, t
  <2>5. (t + 1 * d) % 11 # 0
    BY <1>10, <2>3, NoticedBy11, 1 \in 1 .. 10
  <2>6. QED
    BY <1>6, <2>4, <2>5
<1>12. CASE i \in 1 .. 9
  <2>1. a \in 0 .. 9 /\ c \in 0 .. 9 /\ p[i] = c /\ p[10] = s[10] /\ c # a
    BY <1>1, <1>4, <1>6, <1>12
  <2>2. \A j \in (1 .. 9) \ {i} : p[j] = s[j]
    BY <1>4, <1>12, SMTT(40)
  <2>3. Weighted10(p) = Weighted10(s) + (Summands10(p)[i] - Summands10(s)[i])
    BY <1>7, <1>12, <2>2, Weigh10
  <2> DEFINE w == 11 - i
  <2>4. Summands10(p)[i] = c * w /\ Summands10(s)[i] = a * w
    BY <1>12, <2>1 DEF Summands10, Weight10
  <2>5. w \in 1 .. 10
    BY <1>12
  <2> HIDE DEF w, a
  <2>6. d \in -9 .. 9 /\ d # 0 /\ d = c - a /\ d \in -10 .. 10
    BY <2>1
  <2>7. t = Weighted10(s) + s[10]
    OBVIOUS
  <2> HIDE DEF d, t
  <2>8. c * w - a * w = w * d /\ w * d \in Int
    BY <2>1, <2>5, <2>6
  <2>9. Weighted10(p) + p[10] = t + w * d
    <3> DEFINE q == w * d
    <3>1. q \in Int /\ Weighted10(p) = Weighted10(s) + q
      BY <2>3, <2>4, <2>8
    <3> HIDE DEF q
    <3>2. Weighted10(p) + p[10] = t + q
      BY <1>8, <1>9, <2>1, <2>7, <3>1
    <3>3. QED
      BY <3>2 DEF q
  <2>10. (t + w * d) % 11 # 0
    BY <1>10, <2>5, <2>6, NoticedBy11
  <2>11. QED
    BY <1>6, <2>9, <2>10
<1>13. QED
  BY <1>11, <1>12

\* ... and one in a valid ISBN of thirteen.
LEMMA SlipIn13 ==
  ASSUME NEW s \in Seq(0 .. 10), ValidIsbn13(s), NEW i \in 1 .. 13, NEW c \in 0 .. 10, c # s[i]
  PROVE  ~ ValidIsbn13([s EXCEPT ![i] = c])
<1> DEFINE p == [s EXCEPT ![i] = c]
<1>1. /\ Len(s) = 13 /\ \A j \in 1 .. 13 : s[j] \in 0 .. 9
      /\ (Weighted13(s) + s[13]) % 10 = 0
  BY Valid13Means
<1>2. DOMAIN s = 1 .. 13 /\ i \in 1 .. Len(s)
  BY <1>1, LenProperties
<1>3. p \in Seq(0 .. 10)
  BY <1>2, ExceptSeq
<1>4. \A j \in 1 .. 13 : p[j] = IF j = i THEN c ELSE s[j]
  BY <1>2
<1>5. SUFFICES ASSUME ValidIsbn13(p) PROVE FALSE
  OBVIOUS
<1> HIDE DEF p
<1>6. /\ \A j \in 1 .. 13 : p[j] \in 0 .. 9
      /\ (Weighted13(p) + p[13]) % 10 = 0
  BY <1>3, <1>5, Valid13Means
<1>7. \A j \in 1 .. 12 : s[j] \in Int /\ p[j] \in Int
  <2>1. \A j \in 1 .. 13 : s[j] \in Int /\ p[j] \in Int
    <3>1. \A x \in 0 .. 9 : x \in Int
      OBVIOUS
    <3>2. QED
      BY <1>1, <1>6, <3>1
  <2>2. \A j \in 1 .. 12 : j \in 1 .. 13
    OBVIOUS
  <2>3. QED
    BY <2>1, <2>2
<1>8. Weighted13(s) \in Int /\ Weighted13(p) \in Int
  BY <1>7, Weigh13
<1> DEFINE a == s[i]
           d == c - a
           t == Weighted13(s) + s[13]
<1>9. s[13] \in Int /\ a \in 0 .. 9 /\ c \in 0 .. 9 /\ p[i] = c /\ c # a
  <2>1. 13 \in 1 .. 13 /\ p[i] = c
    BY <1>4
  <2>2. s[13] \in 0 .. 9 /\ s[i] \in 0 .. 9 /\ p[i] \in 0 .. 9
    BY <1>1, <1>6, <2>1
  <2>3. QED
    BY <2>1, <2>2
<1>10. t % 10 = 0 /\ t \in Int
  BY <1>1, <1>8, <1>9
<1>11. CASE i = 13
  <2>1. Weighted13(p) = Weighted13(s)
    <3>1. ASSUME NEW j \in 1 .. 12 PROVE p[j] = s[j]
      <4>1. j \in 1 .. 13 /\ j # i
        BY <1>11
      <4>2. QED
        BY <1>4, <4>1
    <3>2. QED
      BY <1>7, <3>1, Weigh13
  <2>2. p[13] = c /\ a = s[13]
    BY <1>4, <1>11
  <2> HIDE DEF a
  <2>3. d \in -9 .. 9 /\ d # 0
    BY <1>9
  <2>4. Weighted13(p) + p[13] = t + 1 * d
    BY <1>8, <1>9, <2>1, <2>2
  <2> HIDE DEF d, t
  <2>5. (t + 1 * d) % 10 # 0
    BY <1>10, <2>3, NoticedBy10
  <2>6. QED
    BY <1>6, <2>4, <2>5
<1>12. CASE i \in 1 .. 12
  <2>1. p[13] = s[13] /\ \A j \in (1 .. 12) \ {i} : p[j] = s[j]
    <3>1. \A j \in (1 .. 12) \ {i} : j \in 1 .. 13
      OBVIOUS
    <3>2. 13 \in 1 .. 13 /\ i # 13
      BY <1>12
    <3>3. QED
      BY <1>4, <3>1, <3>2
  <2>2. Weighted13(p) = Weighted13(s) + (Summands13(p)[i] - Summands13(s)[i])
    BY <1>7, <1>12, <2>1, Weigh13
  <2> DEFINE w == Weight13(i)
  <2>3. Summands13(p)[i] = c * w /\ Summands13(s)[i] = a * w
    BY <1>9, <1>12 DEF Summands13
  <2>4. w \in {1, 3}
    BY DEF Weight13
  <2> HIDE DEF w, a
  <2>5. d \in -9 .. 9 /\ d # 0 /\ d = c - a
    BY <1>9
  <2>6. t = Weighted13(s) + s[13]
    OBVIOUS
  <2> HIDE DEF d, t
  <2>7. c * w - a * w = w * d /\ w * d \in Int
    BY <1>9, <2>4, <2>5
  <2>8. Weighted13(p) + p[13] = t + w * d
    <3> DEFINE q == w * d
    <3>1. q \in Int /\ Weighted13(p) = Weighted13(s) + q
      BY <2>2, <2>3, <2>7
    <3> HIDE DEF q
    <3>2. Weighted13(p) + p[13] = t + q
      BY <1>8, <1>9, <2>1, <2>6, <3>1
    <3>3. QED
      BY <3>2 DEF q
  <2>9. (t + w * d) % 10 # 0
    BY <1>10, <2>4, <2>5, NoticedBy10
  <2>10. QED
    BY <1>6, <2>8, <2>9
<1>13. QED
  BY <1>11, <1>12

-----------------------------------------------------------------------------
(* What the code makes of a book's ISBN and of a mistaken one.             *)

\* The ISBN of ten is valid: its weights and the standard's add up to eleven everywhere.
LEMMA Isbn10Valid ==
  ASSUME NEW b \in Bodies
  PROVE  ValidIsbn10(Isbn10(b))
<1> DEFINE s == Isbn10(b)
           t == 1 * b[1] + 2 * b[2] + 3 * b[3] + 4 * b[4] + 5 * b[5] + 6 * b[6] + 7 * b[7]
                + 8 * b[8] + 9 * b[9]
           b1 == b[1]
           b2 == b[2]
           b3 == b[3]
           b4 == b[4]
           b5 == b[5]
           b6 == b[6]
           b7 == b[7]
           b8 == b[8]
           b9 == b[9]
<1>1. /\ s \in Seq(0 .. 10) /\ Len(s) = 10 /\ s[10] = t % 11
      /\ \A i \in 1 .. 9 : s[i] = b[i]
  BY Isbn10Is DEF Last10
<1>2. \A i \in 1 .. 9 : b[i] \in 0 .. 9
  BY IsbnAssumption
<1>3. /\ b1 \in Int /\ b2 \in Int /\ b3 \in Int /\ b4 \in Int /\ b5 \in Int
      /\ b6 \in Int /\ b7 \in Int /\ b8 \in Int /\ b9 \in Int
  BY BodyIs DEF Digit9
<1> DEFINE W == 10 * b1 + 9 * b2 + 8 * b3 + 7 * b4 + 6 * b5 + 5 * b6 + 4 * b7 + 3 * b8 + 2 * b9
           all == b1 + b2 + b3 + b4 + b5 + b6 + b7 + b8 + b9
<1>4. Weighted10(s) = W
  <2>1. /\ s[1] = b1 /\ s[2] = b2 /\ s[3] = b3 /\ s[4] = b4 /\ s[5] = b5
        /\ s[6] = b6 /\ s[7] = b7 /\ s[8] = b8 /\ s[9] = b9
    BY <1>1
  <2> HIDE DEF s, b1, b2, b3, b4, b5, b6, b7, b8, b9
  <2>2. QED
    BY <2>1, Zenon DEF Weighted10
<1>5. t = 1 * b1 + 2 * b2 + 3 * b3 + 4 * b4 + 5 * b5 + 6 * b6 + 7 * b7 + 8 * b8 + 9 * b9
  OBVIOUS
<1> HIDE DEF s, t, b1, b2, b3, b4, b5, b6, b7, b8, b9
<1>6. W + t = 11 * all /\ W \in Int /\ t \in Int /\ all \in Int
  BY <1>3, <1>5
<1> HIDE DEF W, all
<1>7. (W + (t % 11)) % 11 = 0
  BY <1>6
<1>8. QED
  BY <1>1, <1>2, <1>4, <1>7, Valid10Means DEF s

\* The sum over the first twelve digits of the ISBN of thirteen.
LEMMA Weighted13Is ==
  ASSUME NEW b \in Bodies, NEW s,
         s[1] = 9, s[2] = 7, s[3] = 8, \A i \in 1 .. 9 : s[i + 3] = b[i]
  PROVE  Weighted13(s) = Sum13(b) /\ \A i \in 1 .. 12 : s[i] \in Int
<1>1. /\ s[4] = b[1] /\ s[5] = b[2] /\ s[6] = b[3] /\ s[7] = b[4] /\ s[8] = b[5]
      /\ s[9] = b[6] /\ s[10] = b[7] /\ s[11] = b[8] /\ s[12] = b[9]
  <2>1. /\ 1 + 3 = 4 /\ 2 + 3 = 5 /\ 3 + 3 = 6 /\ 4 + 3 = 7 /\ 5 + 3 = 8
        /\ 6 + 3 = 9 /\ 7 + 3 = 10 /\ 8 + 3 = 11 /\ 9 + 3 = 12
    OBVIOUS
  <2>2. /\ s[1 + 3] = b[1] /\ s[2 + 3] = b[2] /\ s[3 + 3] = b[3] /\ s[4 + 3] = b[4]
        /\ s[5 + 3] = b[5] /\ s[6 + 3] = b[6] /\ s[7 + 3] = b[7] /\ s[8 + 3] = b[8]
        /\ s[9 + 3] = b[9]
    OBVIOUS
  <2>3. QED
    BY <2>1, <2>2
<1> DEFINE b1 == b[1]
           b2 == b[2]
           b3 == b[3]
           b4 == b[4]
           b5 == b[5]
           b6 == b[6]
           b7 == b[7]
           b8 == b[8]
           b9 == b[9]
<1>2. /\ b1 \in Int /\ b2 \in Int /\ b3 \in Int /\ b4 \in Int /\ b5 \in Int
      /\ b6 \in Int /\ b7 \in Int /\ b8 \in Int /\ b9 \in Int
  BY BodyIs, SMTT(40) DEF Digit9
<1>3. Weighted13(s) = 9 + 3 * 7 + 8 + 3 * b1 + b2 + 3 * b3 + b4 + 3 * b5 + b6 + 3 * b7 + b8 + 3 * b9
  BY <1>1, Zenon DEF Weighted13
<1>4. Sum13(b) = 9 + 8 + b2 + b4 + b6 + b8 + 3 * (7 + b1 + b3 + b5 + b7 + b9)
  BY DEF Sum13
<1>5. Weighted13(s) = Sum13(b)
  <2> HIDE DEF b1, b2, b3, b4, b5, b6, b7, b8, b9
  <2>1. QED
    BY <1>2, <1>3, <1>4
<1>6. \A i \in 1 .. 12 : s[i] \in Int
  <2>1. \A i \in 1 .. 12 : \/ i = 1 \/ i = 2 \/ i = 3 \/ i = 4 \/ i = 5 \/ i = 6
                           \/ i = 7 \/ i = 8 \/ i = 9 \/ i = 10 \/ i = 11 \/ i = 12
    OBVIOUS
  <2>2. s[1] \in Int /\ s[2] \in Int /\ s[3] \in Int
    OBVIOUS
  <2>3. QED
    BY <1>1, <1>2, <2>1, <2>2, Zenon
<1>7. QED
  BY <1>5, <1>6

LEMMA Isbn13Valid ==
  ASSUME NEW b \in Bodies
  PROVE  /\ ValidIsbn13(Isbn13(b)) /\ Isbn13(b) \in Seq(0 .. 10) /\ Len(Isbn13(b)) = 13
         /\ \A i \in 1 .. 9 : Isbn13(b)[i + 3] = b[i]
<1> DEFINE s == Isbn13(b)
           c == Last13(b)
<1>1. c \in 0 .. 10 /\ c \in 0 .. 9 /\ Sum13(b) \in Int
  BY LastDigits
<1>2. s = Form13(b, c)
  BY Isbn13Is
<1> HIDE DEF s
<1>3. /\ s \in Seq(0 .. 10) /\ Len(s) = 13
      /\ s[1] = 9 /\ s[2] = 7 /\ s[3] = 8
      /\ \A i \in 1 .. 9 : s[i + 3] = b[i]
      /\ s[13] = c
  BY <1>1, <1>2, Form13Is
<1>4. Weighted13(s) = Sum13(b)
  BY <1>3, Weighted13Is
<1>5. (Weighted13(s) + s[13]) % 10 = 0
  <2>1. c = (10 - (Sum13(b) % 10)) % 10
    BY DEF Last13
  <2> HIDE DEF c
  <2>2. QED
    BY <1>1, <1>3, <1>4, <2>1, CompletesTen
<1>6. \A i \in 1 .. 13 : s[i] \in 0 .. 9
  <2>1. \A i \in 1 .. 9 : b[i] \in 0 .. 9
    BY IsbnAssumption
  <2>2. \A i \in 4 .. 12 : i - 3 \in 1 .. 9 /\ (i - 3) + 3 = i
    OBVIOUS
  <2>3. \A i \in 4 .. 12 : s[i] \in 0 .. 9
    BY <1>3, <2>1, <2>2
  <2>4. \A i \in 1 .. 13 : i = 1 \/ i = 2 \/ i = 3 \/ i \in 4 .. 12 \/ i = 13
    OBVIOUS
  <2>5. 9 \in 0 .. 9 /\ 7 \in 0 .. 9 /\ 8 \in 0 .. 9
    OBVIOUS
  <2>6. QED
    BY <1>1, <1>3, <2>3, <2>4, <2>5, Zenon
<1>7. ValidIsbn13(s)
  BY <1>3, <1>5, <1>6, Valid13Means
<1>8. QED
  BY <1>3, <1>7 DEF s

\* Two books have two ISBNs.
LEMMA Isbn13Differs ==
  ASSUME NEW b \in Bodies, NEW a \in Bodies, Isbn13(b) = Isbn13(a)
  PROVE  b = a
<1>1. b \in [1 .. 9 -> 0 .. 9] /\ a \in [1 .. 9 -> 0 .. 9]
  BY IsbnAssumption
<1>2. \A i \in 1 .. 9 : b[i] = a[i]
  BY Isbn13Valid, SMTT(40)
<1>3. QED
  BY <1>1, <1>2

\* Converting the one form gives the other.
LEMMA Converted ==
  ASSUME NEW b \in Bodies
  PROVE  ToIsbn13(Isbn10(b)) = Isbn13(b)
<1> DEFINE D == 0 .. 10
           s == Isbn10(b)
           front == SubSeq(s, 1, 9)
           head == <<9, 7, 8>>
           raw == head \o b
           c == Last13(b)
<1>1. s \in Seq(D) /\ Len(s) = 10 /\ \A i \in 1 .. 9 : s[i] = b[i]
  BY Isbn10Is
<1>2. front = b
  <2>1. Len(s) > 9 /\ 9 \in 1 .. 12
    BY <1>1
  <2>2. front \in Seq(D) /\ Len(front) = 9 /\ \A i \in 1 .. 9 : front[i] = s[i]
    BY <1>1, <2>1, FrontIs
  <2>3. b \in [1 .. 9 -> 0 .. 9]
    BY IsbnAssumption
  <2> HIDE DEF front, D
  <2>4. front \in [1 .. 9 -> D]
    BY <2>2, LenProperties
  <2>5. \A i \in 1 .. 9 : front[i] = b[i]
    BY <1>1, <2>2
  <2>6. QED
    BY <2>3, <2>4, <2>5
<1>3. head \in Seq(D) /\ Len(head) = 3 /\ head[1] = 9 /\ head[2] = 7 /\ head[3] = 8
  OBVIOUS
<1>4. b \in Seq(D) /\ Len(b) = 9 /\ c \in D
  <2>1. b \in Seq(0 .. 9) /\ Len(b) = 9
    BY BodyIs
  <2>2. 0 .. 9 \subseteq D
    OBVIOUS
  <2>3. b \in Seq(D)
    BY <2>1, <2>2, SeqMonotonic
  <2>4. c \in D
    BY LastDigits
  <2>5. QED
    BY <2>1, <2>3, <2>4
<1> HIDE DEF D, head, c
<1>5. /\ raw \in Seq(D) /\ Len(raw) = Len(head) + Len(b)
      /\ \A i \in 1 .. Len(head) + Len(b) : raw[i] = IF i <= Len(head) THEN head[i] ELSE b[i - Len(head)]
  BY <1>3, <1>4, ConcatProperties
<1> HIDE DEF raw
<1>6. /\ raw[1] = 9 /\ raw[2] = 7 /\ raw[3] = 8
      /\ \A i \in 1 .. 9 : raw[i + 3] = b[i]
  <2>1. /\ 1 \in 1 .. Len(head) + Len(b) /\ 1 <= Len(head)
        /\ 2 \in 1 .. Len(head) + Len(b) /\ 2 <= Len(head)
        /\ 3 \in 1 .. Len(head) + Len(b) /\ 3 <= Len(head)
    BY <1>3, <1>4
  <2>2. ASSUME NEW i \in 1 .. 9 PROVE raw[i + 3] = b[i]
    <3>1. i + 3 \in 1 .. Len(head) + Len(b) /\ ~ (i + 3 <= Len(head)) /\ (i + 3) - Len(head) = i
      BY <1>3, <1>4
    <3>2. QED
      BY <1>5, <3>1
  <2>3. QED
    BY <1>3, <1>5, <2>1, <2>2
<1>7. CheckDigit13(raw) = c
  <2>1. Weighted13(raw) = Sum13(b) /\ \A i \in 1 .. 12 : raw[i] \in Int
    BY <1>6, Weighted13Is
  <2>2. CheckDigit13(raw) = (10 - (Weighted13(raw) % 10)) % 10
    BY <2>1, CheckDigit13Is
  <2>3. QED
    BY <2>1, <2>2 DEF c, Last13
<1>8. ToIsbn13(s) = Append(raw, c)
  BY <1>2, <1>7, Zenon DEF ToIsbn13, raw, head
<1>9. Append(raw, c) = raw \o <<c>>
  BY <1>4, <1>5, AppendIsConcat
<1>10. Isbn13(b) = raw \o <<c>>
  BY Isbn13Is, Zenon DEF Form13, raw, head, c
<1>11. QED
  BY <1>8, <1>9, <1>10

LEMMA LengthTells ==
  ASSUME NEW s
  PROVE  /\ Len(s) = 13 => ~ ValidIsbn10(s)
         /\ Len(s) = 10 => ~ ValidIsbn13(s)
<1>1. 10 # 13
  OBVIOUS
<1>2. QED
  BY <1>1, Zenon DEF ValidIsbn10, ValidIsbn13

LEMMA NormalizedRight ==
  ASSUME NEW b \in Bodies, NEW s \in {Isbn10(b), Isbn13(b)}
  PROVE  Normalize(s) = Isbn13(b) /\ s \in Seq(0 .. 10)
<1>1. CASE s = Isbn10(b)
  BY <1>1, Isbn10Is, Isbn10Valid, Converted DEF Normalize
<1>2. CASE s = Isbn13(b)
  <2>1. s \in Seq(0 .. 10) /\ Len(s) = 13 /\ ValidIsbn13(s)
    BY <1>2, Isbn13Valid
  <2>2. ~ ValidIsbn10(s)
    BY <2>1, LengthTells
  <2>3. QED
    BY <1>2, <2>1, <2>2 DEF Normalize
<1>3. QED
  BY <1>1, <1>2

LEMMA NormalizedWrong ==
  ASSUME NEW b \in Bodies, NEW s \in {Isbn10(b), Isbn13(b)},
         NEW i \in DOMAIN s, NEW c \in 0 .. 10, c # s[i]
  PROVE  Normalize([s EXCEPT ![i] = c]) = Invalid /\ [s EXCEPT ![i] = c] \in Seq(0 .. 10)
<1> DEFINE p == [s EXCEPT ![i] = c]
<1>1. s \in Seq(0 .. 10)
  BY NormalizedRight
<1>2. i \in 1 .. Len(s)
  BY <1>1, LenProperties
<1>3. p \in Seq(0 .. 10) /\ Len(p) = Len(s)
  BY <1>1, <1>2, ExceptSeq
<1>4. CASE s = Isbn10(b)
  <2>1. Len(s) = 10 /\ ValidIsbn10(s)
    BY <1>4, Isbn10Is, Isbn10Valid
  <2>2. i \in 1 .. 10
    BY <1>2, <2>1
  <2>3. ~ ValidIsbn10(p)
    BY <1>1, <2>1, <2>2, SlipIn10
  <2>4. ~ ValidIsbn13(p)
    BY <1>3, <2>1, LengthTells
  <2>5. QED
    BY <1>3, <2>3, <2>4 DEF Normalize
<1>5. CASE s = Isbn13(b)
  <2>1. Len(s) = 13 /\ ValidIsbn13(s)
    BY <1>5, Isbn13Valid
  <2>2. i \in 1 .. 13
    BY <1>2, <2>1
  <2>3. ~ ValidIsbn13(p)
    BY <1>1, <2>1, <2>2, SlipIn13
  <2>4. ~ ValidIsbn10(p)
    BY <1>3, <2>1, LengthTells
  <2>5. QED
    BY <1>3, <2>3, <2>4 DEF Normalize
<1>6. QED
  BY <1>4, <1>5

\* What is printed is one of the two forms of the book's ISBN, or one of them with one
\* character that is another.
IsbnInv ==
  /\ foundBook \in Bodies /\ asked \in Bodies /\ slips \in 0 .. 1
  /\ slips = 0 => printed \in {Isbn10(foundBook), Isbn13(foundBook)}
  /\ slips = 1 => \E s \in {Isbn10(foundBook), Isbn13(foundBook)} : \E i \in DOMAIN s, c \in 0 .. 10 :
                    c # s[i] /\ printed = [s EXCEPT ![i] = c]

LEMMA IsbnSafe == IsbnInv => SameBookSameIsbn /\ IsbnTypeOK
<1> SUFFICES ASSUME IsbnInv PROVE SameBookSameIsbn /\ IsbnTypeOK
  OBVIOUS
<1>1. foundBook \in Bodies /\ asked \in Bodies /\ slips \in 0 .. 1
  BY DEF IsbnInv
<1>2. /\ Normalize(printed) = IF slips = 0 THEN Isbn13(foundBook) ELSE Invalid
      /\ printed \in Seq(0 .. 10)
  <2>1. CASE slips = 0
    BY <1>1, <2>1, NormalizedRight DEF IsbnInv
  <2>2. CASE slips = 1
    <3>1. PICK s \in {Isbn10(foundBook), Isbn13(foundBook)} : \E i \in DOMAIN s, c \in 0 .. 10 :
            c # s[i] /\ printed = [s EXCEPT ![i] = c]
      BY <2>2 DEF IsbnInv
    <3>2. PICK i \in DOMAIN s, c \in 0 .. 10 : c # s[i] /\ printed = [s EXCEPT ![i] = c]
      BY <3>1
    <3>3. Normalize(printed) = Invalid /\ printed \in Seq(0 .. 10)
      <4>1. c # s[i]
        BY <3>2
      <4>2. /\ Normalize([s EXCEPT ![i] = c]) = Invalid
            /\ [s EXCEPT ![i] = c] \in Seq(0 .. 10)
        BY <1>1, <4>1, NormalizedWrong, ZenonT(40)
      <4>3. QED
        BY <3>2, <4>2, Zenon
    <3>4. slips # 0
      BY <2>2
    <3>5. QED
      BY <3>3, <3>4, Zenon
  <2>3. QED
    BY <1>1, <2>1, <2>2
<1>3. /\ Normalize(Isbn13(asked)) = Isbn13(asked)
      /\ Isbn13(foundBook) = Isbn13(asked) => foundBook = asked
      /\ Len(Isbn13(asked)) = 13 /\ Len(Isbn13(foundBook)) = 13
  BY <1>1, NormalizedRight, Isbn13Differs, Isbn13Valid
<1>4. Isbn13(asked) # Invalid /\ Isbn13(foundBook) # Invalid
  BY <1>3 DEF Invalid
<1>5. Matches(Isbn13(asked), printed) <=> slips = 0 /\ foundBook = asked
  <2>1. Matches(Isbn13(asked), printed)
          <=> printed = Isbn13(asked) \/ Normalize(printed) = Isbn13(asked)
    BY <1>4 DEF Matches
  <2>2. printed = Isbn13(asked) => Normalize(printed) = Isbn13(asked)
    BY <1>3
  <2>3. Normalize(printed) = Isbn13(asked) <=> slips = 0 /\ foundBook = asked
    BY <1>2, <1>3, <1>4
  <2>4. QED
    BY <2>1, <2>2, <2>3
<1>6. QED
  BY <1>1, <1>2, <1>5 DEF SameBookSameIsbn, IsbnTypeOK

LEMMA IsbnStep == IsbnInv /\ [Mistake]_isbnVars => IsbnInv'
<1> SUFFICES ASSUME IsbnInv, [Mistake]_isbnVars PROVE IsbnInv'
  OBVIOUS
<1>1. CASE UNCHANGED isbnVars
  BY <1>1 DEF isbnVars, IsbnInv
<1>2. CASE Mistake
  <2>1. PICK i \in DOMAIN printed, c \in 0 .. 10 :
          c # printed[i] /\ printed' = [printed EXCEPT ![i] = c]
    BY <1>2 DEF Mistake
  <2>2. /\ slips = 0 /\ slips' = 1 /\ foundBook' = foundBook /\ asked' = asked
        /\ printed \in {Isbn10(foundBook), Isbn13(foundBook)}
    BY <1>2 DEF Mistake, IsbnInv
  <2>3. \E s \in {Isbn10(foundBook), Isbn13(foundBook)} : \E j \in DOMAIN s, e \in 0 .. 10 :
          e # s[j] /\ printed' = [s EXCEPT ![j] = e]
    BY <2>1, <2>2
  <2>4. /\ foundBook' \in Bodies /\ asked' \in Bodies /\ slips' \in 0 .. 1
        /\ slips' # 0
    BY <2>2 DEF IsbnInv
  <2>5. QED
    BY <2>2, <2>3, <2>4 DEF IsbnInv
<1>3. QED
  BY <1>1, <1>2

\* Both forms of every book's ISBN are normalized to the same thirteen digits, every
\* mistake in one character is noticed, and a found book is taken for the one asked for if
\* and only if it is that book.
THEOREM SameBooks == IsbnSpec => []SameBookSameIsbn
<1>1. IsbnInit => IsbnInv
  BY DEF IsbnInit, IsbnInv
<1>2. QED
  BY <1>1, IsbnSafe, IsbnStep, PTL DEF IsbnSpec

-----------------------------------------------------------------------------
(* What the monthly report adds up.                                        *)

\* A sum of natural numbers is one.
LEMMA NatSum ==
  ASSUME NEW X, IsFiniteSet(X), NEW w \in [X -> Nat], NEW f, Additive(w, X, f)
  PROVE  f[X] \in Nat
<1> DEFINE Bad == {n \in Nat : \E S \in SUBSET X : Cardinality(S) = n /\ f[S] \notin Nat}
<1>1. Bad = {}
  <2>1. SUFFICES ASSUME Bad # {} PROVE FALSE
    OBVIOUS
  <2>2. PICK n \in Bad : \A k \in Bad : n <= k
    BY <2>1, LeastNumber
  <2>3. PICK S \in SUBSET X : Cardinality(S) = n /\ f[S] \notin Nat
    BY <2>2
  <2>4. S # {}
    <3>1. f[{}] = 0
      BY DEF Additive
    <3>2. QED
      BY <2>3, <3>1
  <2>5. PICK x \in S : TRUE
    BY <2>4
  <2>6. S \ {x} \in SUBSET X /\ Cardinality(S \ {x}) = n - 1 /\ n - 1 \in Nat
    <3>1. IsFiniteSet(S)
      BY FS_Subset
    <3>2. IsFiniteSet(S \ {x}) /\ Cardinality(S \ {x}) = n - 1
      BY <2>3, <2>5, <3>1, FS_RemoveElement
    <3>3. Cardinality(S \ {x}) \in Nat
      BY <3>2, FS_CardinalityType
    <3>4. QED
      BY <3>2, <3>3
  <2>7. f[S \ {x}] \in Nat
    <3>1. n - 1 \notin Bad
      BY <2>2, <2>6
    <3>2. QED
      BY <2>6, <3>1
  <2>8. f[S] = w[x] + f[S \ {x}] /\ w[x] \in Nat
    BY <2>5 DEF Additive
  <2>9. QED
    BY <2>3, <2>7, <2>8
<1>2. Cardinality(X) \in Nat /\ Cardinality(X) \notin Bad
  BY <1>1, FS_CardinalityType
<1>3. QED
  BY <1>2

LEMMA PagesAreCounted ==
  ASSUME NEW X, IsFiniteSet(X), X \subseteq Activities
  PROVE  /\ MapThenSumSet(PagesOf, X) \in Nat
         /\ LET whole(a) == a.to IN MapThenSumSet(whole, X) \in Nat
<1>1. \A a \in X : a.from \in Nat /\ a.to \in Nat
  BY ReportAssumption
<1>2. MapThenSumSet(PagesOf, X) \in Nat
  <2> DEFINE Raw(h) == h = [S \in SUBSET X |->
                         IF S = {} THEN 0
                         ELSE LET x == CHOOSE x \in S : TRUE IN PagesOf(x) + h[S \ {x}]]
             f == CHOOSE h : Raw(h)
             w == [a \in X |-> PagesOf(a)]
  <2>1. MapThenSumSet(PagesOf, X) = f[X]
    BY Zenon DEF MapThenSumSet, MapThenFoldSet
  <2>2. w \in [X -> Nat] /\ w \in [X -> Int]
    BY <1>1 DEF PagesOf
  <2>3. ASSUME NEW h PROVE Raw(h) <=> SumFrom(w, X, h)
    <3>1. \A S \in SUBSET X : S # {} => PagesOf(CHOOSE x \in S : TRUE) = w[CHOOSE x \in S : TRUE]
      <4>1. ASSUME NEW S \in SUBSET X, S # {} PROVE (CHOOSE x \in S : TRUE) \in X
        <5>1. (CHOOSE x \in S : TRUE) \in S
          BY <4>1
        <5>2. QED
          BY <5>1
      <4>2. \A a \in X : PagesOf(a) = w[a]
        OBVIOUS
      <4> HIDE DEF w
      <4>3. QED
        BY <4>1, <4>2
    <3> HIDE DEF w
    <3>2. QED
      BY <3>1 DEF SumFrom
  <2>4. \E h : Raw(h)
    <3> HIDE DEF w, Raw
    <3> QED
      BY <2>2, <2>3, SumExists
  <2>5. Raw(f)
    BY <2>4, Zenon
  <2> HIDE DEF f, w, Raw
  <2>6. Additive(w, X, f)
    BY <2>2, <2>3, <2>5, SumIsAdditive
  <2>7. QED
    BY <2>1, <2>2, <2>6, NatSum
<1>3. LET whole(a) == a.to IN MapThenSumSet(whole, X) \in Nat
  <2> DEFINE Raw(h) == h = [S \in SUBSET X |->
                         IF S = {} THEN 0
                         ELSE LET x == CHOOSE x \in S : TRUE IN x.to + h[S \ {x}]]
             f == CHOOSE h : Raw(h)
             w == [a \in X |-> a.to]
  <2>1. LET whole(a) == a.to IN MapThenSumSet(whole, X) = f[X]
    BY Zenon DEF MapThenSumSet, MapThenFoldSet
  <2>2. w \in [X -> Nat] /\ w \in [X -> Int]
    BY <1>1
  <2>3. ASSUME NEW h PROVE Raw(h) <=> SumFrom(w, X, h)
    <3>1. \A S \in SUBSET X : S # {} => (CHOOSE x \in S : TRUE).to = w[CHOOSE x \in S : TRUE]
      <4>1. ASSUME NEW S \in SUBSET X, S # {} PROVE (CHOOSE x \in S : TRUE) \in X
        <5>1. (CHOOSE x \in S : TRUE) \in S
          BY <4>1
        <5>2. QED
          BY <5>1
      <4>2. \A a \in X : a.to = w[a]
        OBVIOUS
      <4> HIDE DEF w
      <4>3. QED
        BY <4>1, <4>2
    <3> HIDE DEF w
    <3>2. QED
      BY <3>1 DEF SumFrom
  <2>4. \E h : Raw(h)
    <3> HIDE DEF w, Raw
    <3> QED
      BY <2>2, <2>3, SumExists
  <2>5. Raw(f)
    BY <2>4, Zenon
  <2> HIDE DEF f, w, Raw
  <2>6. Additive(w, X, f)
    BY <2>2, <2>3, <2>5, SumIsAdditive
  <2>7. f[X] \in Nat
    BY <2>2, <2>6, NatSum
  <2>8. QED
    BY <2>1, <2>7
<1>4. QED
  BY <1>2, <1>3

\* What is counted of the activities of a month is finite.
LEMMA MonthIsFinite ==
  ASSUME ActivityInv, NEW m \in Months, NEW kind
  PROVE  /\ InReport(kind, m) \subseteq log /\ InReport(kind, m) \subseteq Activities
         /\ IsFiniteSet(InReport(kind, m))
         /\ \A T \in SUBSET InReport(kind, m) : IsFiniteSet(T)
<1>1. InReport(kind, m) \in SUBSET log
  BY DEF InReport
<1>2. IsFiniteSet(InReport(kind, m))
  BY <1>1, FS_Subset DEF ActivityInv
<1>3. QED
  BY <1>1, <1>2, FS_Subset DEF ActivityInv

LEMMA TimesAreCounted ==
  ASSUME ActivityInv, NEW m \in Months
  PROVE  TimeCounts(m) \in [{"dawn", "day", "evening", "night"} -> Nat]
<1> DEFINE sessions == InReport("session", m)
           records == InReport("record", m)
           ends == [s \in sessions |-> <<s, RefTime(s)>>]
           made == [r \in records |-> <<r, r.created>>]
<1>1. IsFiniteSet(sessions) /\ IsFiniteSet(records)
  BY MonthIsFinite
<1>2. /\ ends \in Surjection(sessions, {<<s, RefTime(s)>> : s \in sessions})
      /\ made \in Surjection(records, {<<r, r.created>> : r \in records})
  BY DEF Surjection
<1>3. IsFiniteSet(CountedTimes(m))
  <2>1. /\ IsFiniteSet({<<s, RefTime(s)>> : s \in sessions})
        /\ IsFiniteSet({<<r, r.created>> : r \in records})
    BY <1>1, <1>2, FS_Surjection
  <2>2. QED
    BY <2>1 DEF CountedTimes
<1>4. ASSUME NEW part PROVE Cardinality({c \in CountedTimes(m) : PartOfDay(c[2]) = part}) \in Nat
  <2> DEFINE counted == {c \in CountedTimes(m) : PartOfDay(c[2]) = part}
  <2>1. counted \in SUBSET CountedTimes(m)
    OBVIOUS
  <2> HIDE DEF counted
  <2>2. Cardinality(counted) \in Nat
    BY <1>3, <2>1, FS_Subset, FS_CardinalityType
  <2>3. QED
    BY <2>2 DEF counted
<1>5. QED
  BY <1>4 DEF TimeCounts

LEMMA DominantIs ==
  ASSUME NEW m \in Months
  PROVE  Dominant(m) \in {"none"} \cup {Kinds[n] : n \in DOMAIN Kinds}
<1> DEFINE best == {n \in DOMAIN Kinds :
                      /\ GenreCount(m, Kinds[n]) > 0
                      /\ \A o \in DOMAIN Kinds : GenreCount(m, Kinds[o]) <= GenreCount(m, Kinds[n])}
<1>1. Dominant(m) = IF best = {} THEN "none" ELSE Kinds[Min(best)]
  BY DEF Dominant
<1>2. best \subseteq DOMAIN Kinds /\ best \subseteq Nat
  BY ReportAssumption
<1> HIDE DEF best
<1>3. ASSUME best # {} PROVE Min(best) \in DOMAIN Kinds
  <2>1. \E x \in best : \A y \in best : x <= y
    BY <1>2, <1>3, LeastNumber
  <2>2. Min(best) \in best
    BY <2>1 DEF Min
  <2>3. QED
    BY <1>2, <2>2
<1>4. QED
  BY <1>1, <1>3

\* Ten genres, each ten points.
LEMMA ScoreIs ==
  ASSUME NEW m \in Months
  PROVE  DiversityScore(m) \in 0 .. 100
<1> DEFINE read == {n \in DOMAIN Kinds : GenreCount(m, Kinds[n]) > 0}
<1>1. PICK n \in 0 .. 10 : DOMAIN Kinds = 1 .. n
  BY ReportAssumption
<1>2. IsFiniteSet(1 .. n) /\ Cardinality(1 .. n) = n
  <2>1. 1 \in Int /\ n \in Nat /\ n \in Int
    OBVIOUS
  <2>2. /\ IsFiniteSet(1 .. n)
        /\ Cardinality(1 .. n) = IF 1 > n THEN 0 ELSE (n - 1) + 1
    BY <2>1, FS_Interval
  <2>3. QED
    BY <2>1, <2>2
<1>3. read \in SUBSET (1 .. n)
  BY <1>1
<1>4. DiversityScore(m) = 10 * Cardinality(read)
  BY DEF DiversityScore
<1> HIDE DEF read
<1>5. Cardinality(read) \in Nat /\ Cardinality(read) <= n
  BY <1>2, <1>3, FS_Subset, FS_CardinalityType
<1>6. QED
  BY <1>4, <1>5

LEMMA StreakIsNumber ==
  ASSUME NEW D, D \subseteq Nat, IsFiniteSet(D)
  PROVE  LongestStreak(D) \in Nat
<1> DEFINE f == CHOOSE h : StreakFrom(D, h)
<1>1. LongestStreak(D) = f[D].longest
  BY Zenon DEF LongestStreak, StreakFrom
<1>2. StreakFrom(D, f)
  BY StreakLoop, Zenon
<1> HIDE DEF f
<1>3. StreakOf(D, f[D])
  BY <1>2, StreakComputed
<1>4. QED
  BY <1>1, <1>3 DEF StreakOf

LEMMA ReportIsTyped ==
  ASSUME ActivityInv, NEW m \in Months
  PROVE  MonthlyReport(m) \in
           [completed_books_count : Nat, total_pages_read : Nat,
            time_distribution : [{"dawn", "day", "evening", "night"} -> Nat],
            longest_streak_days : Nat,
            dominant_genre : {"none"} \cup {Kinds[n] : n \in DOMAIN Kinds},
            is_biased : BOOLEAN, diversity_score : 0 .. 100]
<1>1. Cardinality(InReport("completed", m)) \in Nat
  BY MonthIsFinite, FS_CardinalityType
<1>2. TotalPages(m) \in Nat
  BY MonthIsFinite, PagesAreCounted DEF TotalPages
<1>3. LongestStreak(ActiveDates(m)) \in Nat
  BY ActiveDays, StreakIsNumber
<1>4. IsBiased(m) \in BOOLEAN
  BY DEF IsBiased
<1>5. QED
  BY <1>1, <1>2, <1>3, <1>4, TimesAreCounted, DominantIs, ScoreIs DEF MonthlyReport

ReportInv ==
  /\ ActivityInv
  /\ removed \subseteq Titles
  /\ \A a \in log : a.book \in removed => a.kind \in OfAnyBook

LEMMA ReportStep == ReportInv /\ [ReportNext]_reportVars => ReportInv'
<1> SUFFICES ASSUME ReportInv, [ReportNext]_reportVars PROVE ReportInv'
  OBVIOUS
<1>1. ActivityInv'
  BY ActivityStep DEF ReportInv
<1>2. CASE UNCHANGED reportVars
  BY <1>1, <1>2 DEF ReportInv, reportVars
<1>3. ASSUME NEW a \in Activities, Act(a) PROVE ReportInv'
  BY <1>1, <1>3 DEF ReportInv, Act, OfAnyBook
<1>4. ASSUME NEW a \in Activities, DropActivity(a) PROVE ReportInv'
  BY <1>1, <1>4 DEF ReportInv, DropActivity
<1>5. ASSUME NEW b \in Titles, DropBook(b) PROVE ReportInv'
  BY <1>1, <1>5 DEF ReportInv, DropBook
<1>6. QED
  BY <1>2, <1>3, <1>4, <1>5 DEF ReportNext

\* Of a deleted book only sessions and records are left, and whatever has been done and deleted,
\* the report counts no negative pages, times or days, names one of the genres it knows, and
\* scores at most 100 (get_monthly_stats).
THEOREM ReportsAddUp == ReportSpec => []ReportTypeOK
<1>1. ReportInit => ReportInv
  BY FS_EmptySet DEF ReportInit, ReportInv, ActivityInv
<1>2. ReportInv => ReportTypeOK
  BY ReportIsTyped DEF ReportInv, ActivityInv, ReportTypeOK
<1>3. QED
  BY <1>1, <1>2, ReportStep, PTL DEF ReportSpec

=============================================================================

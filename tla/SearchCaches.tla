---------------------------- MODULE SearchCaches ----------------------------
(***************************************************************************)
(* The caches of the clients of YES24, the National Library and Google     *)
(* Books, and what a search does with the items it gets from them: it      *)
(* marks those that the member has registered.  The items of an answer are *)
(* objects; the cache and every search that it serves share them.          *)
(***************************************************************************)
EXTENDS Integers

CONSTANTS
  Sources,    \* the clients' functions, each with a question that is always the same
  Lives,      \* the lifetimes that each gives an answer with items, and one without
  Marked,     \* the keyword searches: they mark the items of the answer
  Persons,    \* the members
  Anybody,    \* a search without a valid token
  Searches,   \* the searches that can be in progress at the same time
  MaxFetches, \* bound: answers of the sources
  MaxWall     \* bound: ticks

ASSUME CacheAssumption ==
  /\ Lives \in [Sources -> [items : SUBSET Nat, empty : SUBSET Nat]]
  /\ Sources # {} /\ Marked \subseteq Sources /\ Anybody \notin Persons
  /\ {MaxFetches, MaxWall} \subseteq Nat

VARIABLES
  cache,    \* _cache: the answer that each function keeps, and when it expires
  answers,  \* the answers so far, as objects: when the source gave it, and its items' mark
  fetched,  \* how many they are
  owns,     \* the members that have the book registered
  search,   \* each search
  wall      \* time.time()

cacheVars == <<cache, answers, fetched, owns, search, wall>>

NoAnswer == 0

NewAnswer == [given |-> 0, life |-> 0, items |-> FALSE, is_registered |-> FALSE]

SearchIdle == [pc |-> "idle", source |-> CHOOSE s \in Sources : TRUE, by |-> Anybody,
               now |-> 0, answer |-> NoAnswer, cached |-> FALSE, mine |-> FALSE]

CacheInit ==
  /\ cache = [s \in Sources |-> [answer |-> NoAnswer, expires_at |-> 0]]
  /\ answers = [a \in 1 .. MaxFetches |-> NewAnswer]
  /\ fetched = 0
  /\ owns = {}
  /\ search = [r \in Searches |-> SearchIdle]
  /\ wall = 0

-----------------------------------------------------------------------------
\* The part before the await: the time is read once, an entry that is not expired is
\* returned, and one that is, removed.
LookUp(r, s, by) ==
  LET entry == cache[s]
      hit == entry.answer # NoAnswer /\ wall < entry.expires_at
  IN  /\ search[r].pc = "idle"
      /\ search' = [search EXCEPT ![r] =
           [SearchIdle EXCEPT !.pc = IF hit THEN "has" ELSE "asked", !.source = s, !.by = by,
              !.now = wall, !.answer = IF hit THEN entry.answer ELSE NoAnswer, !.cached = hit]]
      /\ cache' = [cache EXCEPT ![s] =
           IF hit THEN @ ELSE [answer |-> NoAnswer, expires_at |-> 0]]
      /\ UNCHANGED <<answers, fetched, owns, wall>>

\* The source: it reads its data now, and its answer is on the way.
SourceGives(r) ==
  /\ search[r].pc = "asked" /\ fetched < MaxFetches
  /\ fetched' = fetched + 1
  /\ \E items \in BOOLEAN :
     \E life \in (IF items THEN Lives[search[r].source].items ELSE Lives[search[r].source].empty) :
       answers' = [answers EXCEPT ![fetched + 1] =
         [NewAnswer EXCEPT !.given = wall, !.life = life, !.items = items]]
  /\ search' = [search EXCEPT ![r].pc = "given", ![r].answer = fetched + 1]
  /\ UNCHANGED <<cache, owns, wall>>

\* Mutant of Expiry: the lifetime begins when the answer has arrived.
ExpiryLate(r) == wall + answers[search[r].answer].life

\* The lifetime begins before the source was asked.
Expiry(r) == search[r].now + answers[search[r].answer].life

\* The part after the await.  A lifetime of 0 stands for an answer that is not kept: a book
\* YES24 does not have, a response of Google that must not be stored.
Receive(r) ==
  LET a == search[r].answer
  IN  /\ search[r].pc = "given"
      /\ search' = [search EXCEPT ![r].pc = "has", ![r].now = 0]
      /\ cache' = IF answers[a].life = 0 THEN cache
                  ELSE [cache EXCEPT ![search[r].source] = [answer |-> a, expires_at |-> Expiry(r)]]
      /\ UNCHANGED <<answers, fetched, owns, wall>>

\* A timeout, an error status, a body that cannot be used: an empty answer that nobody keeps.
Fails(r) ==
  /\ search[r].pc \in {"asked", "given"}
  /\ search' = [search EXCEPT ![r] = SearchIdle]
  /\ UNCHANGED <<cache, answers, fetched, owns, wall>>

\* The query of the member's books; no query without a member or without items.
ReadRegistered(r) ==
  /\ search[r].pc = "has"
  /\ search' = [search EXCEPT ![r] =
       [SearchIdle EXCEPT !.pc = "read", !.answer = search[r].answer,
          !.mine = /\ search[r].source \in Marked /\ answers[search[r].answer].items
                   /\ search[r].by \in owns]]
  /\ UNCHANGED <<cache, answers, fetched, owns, wall>>

\* The loop over the items, and the response: the mark is set, never taken back.
Mark(r) ==
  /\ search[r].pc = "read"
  /\ answers' = [answers EXCEPT ![search[r].answer].is_registered = @ \/ search[r].mine]
  /\ search' = [search EXCEPT ![r].pc = "done"]
  /\ UNCHANGED <<cache, fetched, owns, wall>>

EndSearch(r) ==
  /\ search[r].pc = "done"
  /\ search' = [search EXCEPT ![r] = SearchIdle]
  /\ UNCHANGED <<cache, answers, fetched, owns, wall>>

\* create_book and delete_book, as far as this goes.
RegisterOrDelete(p) ==
  /\ owns' = IF p \in owns THEN owns \ {p} ELSE owns \cup {p}
  /\ UNCHANGED <<cache, answers, fetched, search, wall>>

WallTick ==
  /\ wall < MaxWall
  /\ wall' = wall + 1
  /\ UNCHANGED <<cache, answers, fetched, owns, search>>

CacheNext ==
  \/ WallTick
  \/ \E p \in Persons : RegisterOrDelete(p)
  \/ \E r \in Searches :
       \/ \E s \in Sources, by \in Persons \cup {Anybody} : LookUp(r, s, by)
       \/ SourceGives(r) \/ Receive(r) \/ Fails(r)
       \/ ReadRegistered(r) \/ Mark(r) \/ EndSearch(r)

CacheSpec == CacheInit /\ [][CacheNext]_cacheVars

-----------------------------------------------------------------------------
CacheTypeOK ==
  /\ cache \in [Sources -> [answer : 0 .. MaxFetches, expires_at : Nat]]
  /\ answers \in [1 .. MaxFetches ->
       [given : 0 .. MaxWall, life : Nat, items : BOOLEAN, is_registered : BOOLEAN]]
  /\ fetched \in 0 .. MaxFetches
  /\ owns \subseteq Persons
  /\ search \in [Searches ->
       [pc : {"idle", "asked", "given", "has", "read", "done"}, source : Sources,
        by : Persons \cup {Anybody}, now : 0 .. MaxWall, answer : 0 .. MaxFetches,
        cached : BOOLEAN, mine : BOOLEAN]]
  /\ wall \in 0 .. MaxWall

\* Whatever the delay between a source's answer and its arrival, and however many searches
\* fetch and overwrite the entry at the same time: what a search takes from the cache is
\* younger than the lifetime it was given, counted from the moment the source gave it.
CacheNeverTooOld ==
  \A r \in Searches :
    LET a == answers[search[r].answer]
    IN  search[r].cached => search[r].now - a.given < a.life

\* search_book's documentation: the items are compared with the member's own books.  An item
\* said to be registered is one that this member had registered when the search looked.
RegisteredFlagIsMine ==
  \A r \in Searches :
    search[r].pc = "done" /\ answers[search[r].answer].is_registered => search[r].mine

=============================================================================

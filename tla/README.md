# A verification project for the library back end

`backend-core-api` is a FastAPI service over PostgreSQL (SQLAlchemy, asyncio): members sign up
by e-mail, keep books on shelves in an order of their own, read them, keep scraps, and talk to
librarians that an AI service plays. This directory holds TLA+ modules translated from its code,
TLC configurations that check them on small instances, and TLAPS proofs about them for every
instance. `PROJECT.json` says which lines each definition models.

## 1. The system

Every HTTP request runs one handler with one database session: `autoflush` off,
`expire_on_commit` off, READ COMMITTED. A handler reads rows, changes the loaded objects, and
commits; the ORM then sends UPDATEs that contain only the columns that changed. Between a
handler's read and its commit any number of other requests may run: the process interleaves
handlers at every `await`, and there may be several processes. Handlers share nothing but the
database, two in-memory caches and the rate limiter's table. What protects them from each other is
a few `SELECT ... FOR UPDATE` and the unique indexes of the tables; an error nobody catches is
answered 500.

| Component | State | Operations | What is hard | What makes it correct |
|---|---|---|---|---|
| Order keys (`core/shelf_rank.py`) | none: strings | `between`, `initial`, `before`, `after`, `rebalanced_sequence` | an unbounded loop over two strings of different length; running out of room | the key is strictly between its neighbours; room runs out only at full length |
| Shelves and book order (`shelf_service.py`, `book_service.py`) | `shelf`, `library_book.shelf_id`, `.shelf_rank`, row locks | create/move/reorder/delete book, create/list/delete shelf, default shelf | concurrent requests on one shelf, unlocked reads, row-by-row unique checks, one retry, stale objects, running out of keys | the order is the one the reader made; one book per key; no book on a deleted shelf; one default shelf; no request waits for ever |
| Reading progress (`book_service.py`, `reading_session_service.py`) | `reading_status`, `current_page`, `total_pages`, `completed_at` | `create_book`, `update_book`, `update_progress`, `create_session` | four handlers with rules of their own over the same columns | status, page and completion date agree; the date is kept |
| Signup (`routers/auth.py`, `member_service.py`, `email_service.py`) | member, verification code, agreements, default shelf, librarian | register, confirm, resend, availability | half-committed registration, two signups of one address, attempts, expiry, cooldown, quota | a code works once, in time, at most five tries; an active member has all its rows |
| Social, dev, demo, guest members (`member_service.py`) | member, shelf, librarian, seed books | get or create on the first login | the first commit publishes half an account; two first logins at once; the guest's polling | an account is whole, or its creator was interrupted or overtaken |
| Tokens and guards (`core/security.py`, `deps.py`, `middlewares.py`) | signed tokens, `member.deleted_at` | login, renewal, withdrawal, what shared accounts may write | a token outlives the member it names | nothing of a withdrawn member can be renewed; nobody withdraws a shared account |
| Librarians (`librarian_service.py`) | librarian rows, `is_representative` | acquire, rename, delete, set representative | clear-then-set under a unique index | the representative is never lost between two requests |
| Scraps and records, cascades (`scrap_service.py`, `record_service.py`, `delete_book`, `withdraw_member`) | `deleted_at` of dependent rows | create, delete, cascade | a row inserted while its parent is deleted | nothing that was there survives; what does was inserted meanwhile |
| Demo reset and quotas (`demo_reset_service.py`, `scripts/seed_demo_library.py`) | the rows of the demo member | `reset_member_by_seed`, seeding | rows revived with old keys | a reset that succeeds leaves the seeds, each once |
| Rate limiter (`core/rate_limit.py`) | a list of times per key | `check` | the edge of the window; handlers with two keys | never more than the limit in a window; `Retry-After` is right |
| Search and caches (`routers/search.py`, `national_library.py`, `yes24.py`, `google_books.py`) | TTL caches, shared items | search, lookup | a shared deadline, late answers, expiry against `await`, objects shared through a cache | an answer in time, nothing expired is served |
| Image storage (`storage_service.py`) | uploaded objects, the columns that name them | presign, verify, attach, replace, delete | deletion after the commit, two requests over one image | no living row names a deleted object |
| Genre (`book_service.py`, `schemas/library_book.py`) | `genre`, `subject`, `genre_source` | registration, update, reuse of other members' books | four sources with an order of precedence | a member's own choice stays the member's |
| Monthly report and calendar (`report_service.py`) | none: queries | `get_monthly_stats`, `get_monthly_calendar` | month ends, two time zones, gaps in a streak | the figures are what they are called |
| ISBN (`core/isbn.py`) | none | `normalize_isbn`, comparison | check digits with X and 0 | one book, one ISBN; a mistake is noticed |
| Routers, schemas, health | none | translate JSON | | not modelled |

Interactions: `create_book` and `delete_shelf` call `get_or_create_default_shelf`, which commits on
its own; so does signup. `delete_book` and `withdraw_member` write the rows of scraps, sessions and
conversations. `update_progress`, `update_book`, `create_session` and the shelf operations write
different columns of the same `library_book` row. First logins, guest logins and signup make the same shelf and librarian;
search marks items with the member's registered books; scraps, books and the profile name uploaded images.
`PROJECT.json` lists the hazards line by line.

## 2. The modules

| Module | Models | Extends |
|---|---|---|
| `ShelfRank` | the keys, string order, `between` in closed form, `rebalanced_sequence`, `_to_key` | |
| `ShelfRankLoop` | the `while True` loop of `between`, one action per branch | `ShelfRank` |
| `ShelfOrder` | what shelves promise: sequences of books, edited one operation at a time (abstract) | |
| `Bookshelf` | one member's shelves and books under concurrent requests | `ShelfRank` |
| `BookshelfAlone` | the refinement mapping from `Bookshelf` to `ShelfOrder` | `Bookshelf` |
| `ReadingProgress` | the reading columns of one book under concurrent requests | |
| `Signup` | registration, confirmation and resends of one e-mail address | |
| `Members` | first logins: the two commits, collisions, polling, deaths | |
| `Access` | tokens, renewal, withdrawal, the shared accounts' routes | |
| `RateLimiter` | the sliding window and handlers with one key or two | |
| `Librarians` | acquire, rename, delete, set representative as overlapping transactions | |
| `SoftDelete` | cascades of a scrap, a book, a record, a member, statement by statement | |
| `DemoReset` | the shared account's books, the reset and the seed script | `ShelfRank` (instance) |
| `Images` | uploaded objects and the rows that name them | |
| `SearchCaches` | the clients' caches and what a search does to the items in them | |
| `SearchDeadline` | one search: which source, for how long | |
| `Genre` | the genre of one ISBN on the members' books | |
| `Report` | the figures of a month and its calendar | |
| `Isbn` | check digits, conversion, comparison | |
| `Services` | `ReadingProgress` and the twelve modules `Members` to `Isbn` side by side: one moves, the others stand still | those modules |
| `ShelfRankProofs`, `ShelfRankLoopProofs`, `BookshelfProofs`, `SignupProofs` | theorems | the modules they are about |
| `BookshelfOrderProofs` | the refinement of `ShelfOrder`, for requests one at a time and for overlapping registrations | `BookshelfAlone`, `BookshelfProofs` |
| `AccountProofs` | theorems | `Members`, `Access`, `RateLimiter`, `Librarians`, `SoftDelete`, `Images`, `DemoReset` |
| `SearchProofs` | theorems | `SearchCaches`, `SearchDeadline`, `Genre`, `Report`, `Isbn` |
| `ServicesProofs` | theorems about `ReadingProgress` and `Services` | `Services`, `AccountProofs`, `SearchProofs` |
| `MC*` | instances for TLC | |

### Keys: `ShelfRank`, `ShelfRankLoop`

A key is a sequence of digits below `BASE`, a digit being a character's index in `ALPHABET`; `None`
is the empty sequence, which the code treats as a missing neighbour. `Less` is string comparison.
The code pads the two keys with zeros and copies digits of the previous key until there is a gap;
once it has copied the lower of two adjacent digits the next key no longer bounds it
(`upper_unbounded`). `Between` says so without a loop: it is the shortest prefix that the loop
`Reaches` with a gap of more than one. `ShelfRankLoop` is the loop with its variables (`i` is
`Len(result)`) and its two exceptions. `Capacity` is the product that `rebalanced_sequence` multiplies up
until it is four times the number of books. No recursive operator is declared, so that all can be proved about.

### Shelves: `Bookshelf`

The state is the two tables' columns that matter (`books`, `shelves`, `default`), the row locks of
shelves (`locked`), and for each request what it has read and is about to write (`req`). A request
goes through

    Load  ->  [MakeDefault]  ->  Plan  ->  Commit | Collision  ->  [PlanAgain -> Commit | Collision]

* *Load* (`CreateBook`, `MoveBookShelf`, ...): the arguments and the row they name, as far as the
  handler's checks accept them. A request refused there has read only, and is no step.
* *MakeDefault*: `get_or_create_default_shelf` when it found none. It inserts and commits, or loses
  against another insert (unique index on the default shelf) and reads that one.
* *Plan*: the handler's reads of the shelf and the keys it computes. `create_book` and
  `move_book_shelf` first wait for the shelf's `FOR UPDATE` lock and keep it; `reorder_book` and
  `delete_shelf` take none. `move_book_shelf` tests `deleted_at` in the locking query,
  `create_book` does not. `Seen` is the session's identity map: a query returns the object loaded
  before, with the values it had then.
* *Commit*: the flush. UPDATEs carry changed columns only (`Changed`, `Written`), run in the order of
  ids, and each is checked against the unique index at once (`UpdateCollides`). Inserting a book, or
  putting one on another shelf, waits for that shelf's row (foreign key). `delete_shelf` updates its
  shelf's row first (`FlushShelf`) and needs its lock.
* *Collision*: an `IntegrityError`. Since the text the handlers search quotes the SQL, which names
  `shelf_rank`, every one leads `create_book` and `move_book_shelf` to the single retry without the
  lock (`PlanAgain`); a second one, or one in another handler, is a 500 (`failed`). Keys that ran out
  are `exhausted`, also a 500; only `reorder_book` rebalances.

Abstractions: one member, hence no ownership checks and no demo quota; names, covers, genres and
pages are left out (an ISBN is a model value); reads of one handler that follow each other with
nothing written in between are merged (the two of `delete_shelf`, those of `reorder_book`); the rows a
flush updates are locked and written in one step, so a deadlock between two flushes over the same
books, which PostgreSQL answers by aborting one, is not in the model; a retried INSERT waits for the
foreign key's lock like the first.

### Reading: `ReadingProgress`

The four columns of one row, a clock, and requests that load the row, compute (`UpdateProgress`,
`UpdateBook`, `CreateSession` are the handlers' rules as operators from row to row) and commit the
changed columns. `create_book` is the initial state.

### Signup: `Signup`

One address: its member row (`member`), its rows of `email_verifications` by id (`codes`), the row lock
that a resend takes (`locked`), a clock, and the requests. `Register` reads the member and counts the
quota; `InsertMember` is the flush together with the commit inside `get_or_create_default_shelf`, which
makes half a registration permanent; `CompleteMember` is the second commit, with librarian, agreements and
code. A pending member is updated instead (`UpdateMember`), without a lock. `ReadMember` and
`ConfirmSignup` are `confirm_signup` before and after it waits for the lock of the codes; judging, counting
a wrong try and activating happen under that lock and are one step. `LockMember` and `ResendCode` are
`resend_signup_code`. A code's `created` is the beginning of the transaction that inserts it
(`server_default=now()`). `Die` ends a request between two steps. `Tick` lets a transaction stay open for at most
`Latency`: without this limit a code could be dated back arbitrarily and no cooldown would mean anything.
The member's data, the agreements and the mail are left out; two random codes are never equal.

### First logins and tokens: `Members`, `Access`

A creator of an account goes `missing -> inserted -> half -> given [-> seeded] -> idle`. `InsertMember` is the flush:
it waits for another uncommitted row with the same address and then fails, with a 500, or, for the guest,
a rollback and a poll (ten looks, 20 ms apart). `CommitWithShelf` is the commit inside
`get_or_create_default_shelf`; everybody can use the account from then on (`UseHalfMade`), and what somebody
else has put there makes the creator give no librarian, or lets the flush of the guest's seeds fail.
In `Access` a token is its owner, its use and its expiry. `LoginFinds` and `RefreshFinds` look the member up, `Issue`
signs later: a withdrawal can come between. `Write` asks only whether the route is allowed, and stands for
the withdrawal when the route is `account`.

### Rate limits: `RateLimiter`

`granted` is the history of every key, `stamps` the indexes still in the code's list. `Ask` is a whole handler: it
checks its keys in order and stops at the first that is full; the ones before it have counted the request. `check`
has no `await` and holds a lock, so it is one step. `refusal` is history for `RetryAfterIsExact`.

### Rows under transactions: `Librarians`, `SoftDelete`, `Images`

PostgreSQL's READ COMMITTED, spelled out: a statement takes the rows it sees when it starts (`SetScan`, `Scan`),
waits for rows another transaction has changed, and tests those again (`SetReset`, `Take`); what it changed is
`held` until the commit. An INSERT that comes meanwhile is not seen. In `Librarians` the unique index of the
representative is looked at in the flush (`SetCommit`). In `SoftDelete` a request works off `todo`, the tables in the
order of the code's UPDATEs. `began` (the rows that were there) and `raced` (rows inserted behind a deletion's back)
are history. In `Images` the storage and the database are two states, and a request changes the second
(`ImageCommit`) before the first (`DropOld`), which may fail. The paths, owners, sizes and signatures that the
verification looks at are one question: does the image fit the row (`Fits`, `"bad"`).

### The shared account: `DemoReset`

Rows with ISBN, state and key, in the order of their insertion, deleted ones included. The reset and the
seeding script are single steps that end in what the unique indexes allow; `Revived` is what a reset makes of a
row, and a Python set of seeds has no order (`FreshRows`). A registration and a move take the key after the
last one (`NextKeys`). One request at a time: how they overlap is `Bookshelf`'s subject.

### Search: `SearchCaches`, `SearchDeadline`, `Isbn`

An answer is an object: the cache and all searches it serves share it, hence its mark
`is_registered`. `LookUp` reads the time and the entry before the `await`, `SourceGives` is the moment the source
reads its data, `Receive` stores the answer with the expiry computed from the earlier time. A lifetime 0 is an
answer that is not kept (YES24's misses, answers of Google with `no-store`). `SearchDeadline` has the
time in tenths of a second and one action per source; a timeout fires up to `Lag` late. In `Isbn`, `Isbn10` and
`Isbn13` are the standard, independent of the code, and `Mistake` changes one character.

### What the books say: `Genre`, `Report`

`Genre` follows a registration through client, National Library, other members' books and agent, and an update
through its validator, to the columns it writes. A label is a genre with its subject; taking the subject away
alone is not a change of the label. `by` and `restated` are history: whose choice it was, and whether an update
has stated another source for a genre it left as it was. `Report` keeps a log of activities; the figures are
operators over it, in the words of the code (`NextDay` is one turn of its loop). Hours are of UTC.

## 3. The runs

| Run | Question | Instance | Result |
|---|---|---|---|
| `between_loop` | Is `between` right, and does it end? | BASE 3, keys to 4 digits, every pair | holds, 20 856 states |
| `bookshelf_alone` | Do requests one at a time implement `ShelfOrder`? | 1 request, 2 shelves, 3 books, 15 keys | holds, about 1.1 M states |
| `bookshelf_register` | Do registrations keep out of each other's way, and is every request answered? | 3 requests, 2 shelves, 2 books, 1 ISBN | holds, 114 k states |
| `bookshelf_concurrent` | Are keys unique and locks respected when everything runs at once? | 2 requests, 2 shelves, 2 books, 8 keys | holds, about 2 M states |
| `rebalance_collides` | Does a reordering always find room? | 1 request, 1 shelf, 3 books | violated |
| `deleted_shelf_keeps_book` | Are all books of a deleted shelf moved? | 2 requests, 1 book | violated |
| `going_back_to_start` | Does going back reopen a book? | 1 request, pages to 3, 3 times | violated |
| `signup` | Are codes, quota, status and librarian right when requests overlap, wait and die? | 2 requests, 4 codes, 4 times, 2 tries, quota 2 | holds, about 2 M states |
| `signup_conflict` | Is the second of two registrations answered 409? | the same | violated |
| `services` | Does each of the thirteen components beside the shelves and signup keep its promises? | see below | holds, about 1.1 M states |
| `search_registered_flag` | Is an item marked registered only for the member who has it? | 2 searches, 2 answers, 2 ticks | violated |
| `demo_reset_repeats` | Can the shared account always be reset? | 2 seeds, 3 rows | violated |

`services` checks `ReadingProgress` and the twelve modules `Members` to `Isbn`. They share no state with each other in
this model, so the run's specification, `Services`, has initial states for each (`part`), from which only that component moves:
the runs of thirteen modules side by side, and not their product. Each question is a property of
its own:

| Component | Property | Instance |
|---|---|---|
| reading | `FinishedIsCompleted`, `CompletionDateKept`, `OnlySessionsOvershoot` | 1 request, pages to 3, 3 times |
| members | `MembersAreWhole` | 3 requests, the guest and one other account |
| access | `WithdrawnLoseAccess` | 2 requests, 1 member and the shared accounts, lives of 1 and 2 hours, 5 hours, 3 tokens |
| limiter | `NeverMoreThanLimit`, `RetryAfterIsExact` | 2 keys, limits 3 and 2, window 3, 8 ticks, 5 grants |
| librarians | `RepresentativeNeverDropped` | 2 requests, 2 types, 3 rows |
| deletion | `WithdrawalIsWhole`, `OrphansRaced` | 2 requests, one row of every table, a scrap of a book and of a record |
| demo | `ResetRestores` | 2 seeds, 1 other ISBN, 3 rows, keys of 1 character |
| images | `DanglingOnlyIfReused` | 2 requests, 2 images, a scrap and the profile |
| caches | `CacheNeverTooOld` | 2 searches, 1 source, 2 answers, 2 ticks |
| deadline | `SearchWithinDeadline` | lag 0.2 s, waits to 6 s, deadline 4.5 s |
| isbn | `SameBookSameIsbn` | 6 books, every single mistake |
| genre | `ChoiceStaysPrivate` | 2 requests, 2 members, 1 genre and none |
| report | `StreakIsLongestRun`, `CalendarDaysInMonth` | 11 activities, 2 months of 3 days |

`ServicesTypeOK` joins the type invariants of the twelve modules, `TypeOK` is that of `ReadingProgress`.

**Bounds.** `BASE` and `MAX_LENGTH` stand for 62 and 128. Nothing in the algorithm depends on their
values but the number of appends before keys run out (2 to 4 in the runs; 768 in the code: six a
character), and small ones make exhaustion and rebalancing happen within three books; the proofs
cover all values. Three books are the fewest for a book with two neighbours to move past a third, two
shelves for a move or a deletion. Two requests are enough for every pair of handlers to interleave;
the registration run has three, so that one can wait behind a second while a third commits. Pages to
three give a book that is unread, begun, finished and read beyond its end. `MaxBooks` and `MaxCodes` bound the rows
ever inserted, `MaxTime` the clock;
`MaxLibrarians`, `MaxRows`, `MaxFetches`, `MaxTokens` and `MaxGranted` bound rows, answers, tokens and grants in the same
way, `MaxClock`, `MaxWall` and `MaxHour` the clocks, `MaxKey` the length of the shared account's keys, `MaxWait` a wait that
the code does not limit. Four codes are one more than `QuotaNearlyKept` allows two requests in
a day of two ticks. A code lives one tick, a cooldown lasts two, and a transaction at most one, so that
every one of them can be over, or not, when it is looked at. `delete_book` is left out of `bookshelf_alone`, where it would
triple the states; the other two `Bookshelf` runs have it. Requests are symmetric in
`bookshelf_concurrent` and in `services`, which have no liveness property. Two transactions are what a row lock or a
unique index needs to be contended; first logins have three, since the third can see what the first two left. Five
grants overfill a key of three, with eight ticks for a window of three to pass twice. In `caches` an answer can expire
while another is on the way. The ISBNs differ in two digits, so that some differ in one and some in two, and X
and 0 are among the check digits. The activities lie on both sides of each midnight of Korea
and of UTC.

**Fairness.** `ShelfRankLoop`: weak fairness, a loop goes on. `Bookshelf`: strong fairness of each
request's steps. PostgreSQL queues the waiters of a row lock and grants it in that order, so a request
whose lock is free again and again gets it; nothing is assumed about clients sending requests.
`ReadingProgress`: weak fairness of `Commit`, a request that has read its row goes on. The modules of `services` state no
fairness: any of their requests may be given up at any step.

**Deadlock** checking is off where a bound ends the run: all books of the bound registered, a call
returned, and in `services` a search answered, a mistake made, or a clock at its end.

### What disagrees with the documents

* *A rebalance can fail* (`ReorderNeverFails`). `ARCHITECTURE.md` promises an automatic rebalance when
  keys run out. `reorder_book` assigns new keys to all books in one flush; rows are updated by id against
  an index that is checked at once, so a row may be given a key that a later one still has. The
  request is a 500, and the shelf stays full; it happens to one client alone.
* *A book on a deleted shelf* (`NoBookOnDeletedShelf`). "All books move to the default shelf" fails for a
  book registered between `delete_shelf`'s read and its commit. Its lock comes too late, and
  `create_book`'s lock does not look at `deleted_at`.
* *Back to page 0* (`GoingBackReopens`). The document says a lower page reopens the book as READING; at page
  0 a completed book stays COMPLETED and loses its date.

* *Two signups at once* (`ConflictIsAnswered`). The docstring of `signup_member` promises 409. The second
  INSERT of the member fails in the flush before the `try`; the answer is 500.

* *Registered, by somebody* (`RegisteredFlagIsMine`). A keyword search marks the items that the cache keeps: for 15
  minutes everybody with the same query is told the book is registered.
* *A reset that repeats its failure* (`ResetSucceeds`). The reset revives deleted rows beside live ones with the same
  ISBN or key; the index refuses the commit, now and at every later reset.

What the passing properties of `signup` also say, read the other way: the daily quota can be exceeded by one for
each further request in progress (`QuotaNearlyKept` is the exact bound), and a registration that dies between
its two commits leaves a member who never gets a librarian, for the next registration takes the branch of
pending members (`LibrarianGiven`).

Likewise: a half-made account stays so (`MembersAreWhole`), though `ensure_guest_member` says it guarantees the seeds;
a scrap can outlive its book (`OrphansRaced`), against the invariant in the comment of `book_service.py:697`; an image can
vanish if it is named twice (`DanglingOnlyIfReused`), and one whose deletion fails stays in the storage for ever; a chosen
genre leaves its member once an update has restated its source (`restated`): a body with the genre unchanged and
another `genre_source` undoes the "permanent" protection of `book_service.py:609`, and other members' registrations
then take the genre over. In an ISBN search the 4.5 s cover only Google Books: the first two sources and the
title lookup have their clients' own timeouts (`SearchWithinDeadline` says which searches it is about).

Read in the code, and not in the models: search answers can carry a `genre_source` (`GOOGLE`, `NONE`) that the schema
of a registration refuses (`schemas/library_book.py:17`); the quota of the shared accounts is counted without a lock, so
that requests at once can pass it by one for each further request; records copy scraps' images without
verifying them; `get_books` has no second criterion for equal dates; the report's pages can fall when a session is
added (only without sessions do finished books count), its months are UTC where the calendar's are Korean,
and sessions and records of a deleted book still count.

Seen while modelling, with no sentence to hold against it: a move whose book another request has just
moved to the same shelf takes the stale key of its own object for the last one (`Seen`); keys at the end of
a shelf run out after 768 appends, and `create_book`, `move_book_shelf` and `delete_shelf` then answer 500
until someone reorders a book at a place without room. And a registration whose INSERT met the same ISBN, which
is deleted before its second attempt, inserts without the shelf's lock and can get a place before a book that
another request has registered since: the book is not the last of its shelf (the order of registrations
holds in every run without `delete_book`, and is refuted with it; `FirstAttemptsKeepOrder` says that nothing else does this).

## 4. The proofs

Assumed of the constants: `RankAssumption` (at least two digits, keys of at least one),
`BookshelfAssumption` (the kinds are known ones, `NoShelf`, `NoRequest`, `NoIsbn` are none of the real
ones), `SignupAssumption` (finitely many requests, positive limits), `ReadingAssumption` (the bounds are numbers), `MemberAssumption`, `AccessAssumption`, `LimiterAssumption`, `LibrarianAssumption`,
`CascadeAssumption`, `ImageAssumption`, `CacheAssumption`, `DeadlineAssumption`, `GenreAssumption`, `ReportAssumption`, `IsbnAssumption`,
`DemoAssumption` (types, and special values
that are none of the others, months that follow each other, finitely many seeds, at most ten genres), and `KeysAssumption` of the loop (its arguments are
keys or missing). Everything holds for every alphabet, key length, number of requests, shelves,
books and pages, but for what a theorem's own hypotheses say: `RoomToRebalance`, that there are at least four
times as many digit strings of the longest length as books (62^128 in the code; otherwise a rebalance would
make keys longer than the column); `OneAtATime`, that there is at most one request; `Registering`, `OnlyRegistering` and
`OneRequest`, below. The instances of the runs satisfy `RoomToRebalance`, that of `bookshelf_alone` also `OneAtATime`.

**Keys.** `BetweenIsAfter` and `BetweenIsBefore` say of the closed form what `StrictlyBetween` says of the
loop. Both look at the first place where the two arguments differ; that there is one, and other inductions
over places of a key, are arguments by a least counterexample (`LeastNat`). `LessTransitive` and
`LessTotal` make string order a total order. The loop's invariant `LoopInv` says that the digits so far are
those of the padded previous key, that none of them left a gap, and that `upper_unbounded` is set exactly
when they are already below the next key's. `LoopMeetsClosedForm`, `LoopStrictlyBetween`,
`LoopExhaustion` and `LoopTypeCorrect` follow. `LoopCountsDown` is the measure of its termination: every step brings the
end closer, `MAX_LENGTH + 1` steps away at most. `RebalancedKeysIncrease`: the positions that
`rebalanced_sequence` computes differ and lie between 0 and `Capacity` (`Spread`); the digits of a position up to any place are
its quotient by a power of `BASE` (`LeadingGrows`), so of two positions the greater has the greater digit at the
first place where they differ, and the zeros that `_to_key` cuts off change nothing (`ToKeysInOrder`). That `Capacity`, a recursive
function, exists and grows is again shown by least counterexamples.

**Shelves, any requests.** `KeysStayUnique` needs only the rows' shape (`BookShape`): a flush checks each
row against the rows after its predecessors' updates, so the last of two rows with one key would have
been refused. `MoveTargetLive` and `DefaultShelfStays` share the invariant `Inv`: a request that `Holds`
its shelf's lock is the one `locked` names, so of two requests that both hold a shelf there is one; only
`delete_shelf` deletes, and only the shelf it holds; and `delete_shelf` never is about the default shelf,
not even when another request makes one after it has begun, since the new default is an unused row.

**Shelves, types.** `BookshelfTypeCorrect`, under `RoomToRebalance`: a request writes only keys (`PlanTyped`), whether they come from
`Between`, from `Appended` or from a rebalance, and puts a book only on a shelf. Its invariant `TypedInv` holds the
other invariants of the shelves together.

**Shelves, one request at a time: the refinement** (`BookshelfOrderProofs`). `OrderIsKept`, under `OneAtATime` and `RoomToRebalance`: every
step of `Bookshelf` is one of `ShelfOrder`, or leaves the sequences, the open shelves and the default one as they are.
Only a request's commit edits sequences, so the invariant has to carry what the request has planned from its reads to
its commit: `OrderInv` says that a plan `Fits` the rows. The key of a new or moved book follows those of the other books of its
shelf (`CreateFits`, `MoveFits`); the keys of a reordering keep the other books of the shelf in their order (`ReorderFits`); those of a
deleted shelf's books keep their order and follow the default shelf's (`DeleteFits`); the row a request has loaded is the row as it is
(`SeesRow`, with which the identity map shows it the truth), and its shelf is live when it matters (`ShelfIsLive`). `delete_book` is one
step and can come between the others: it takes books away, which spoils none of this (`DeleteBookFits`), and a request whose own
book it took commits without an effect. The run leaves `delete_book` out, the theorem does not. A sequence is the one list of a shelf's books in
the order of their keys (`InOrderIs`), so each commit is proved by giving that list: the old one with a book
appended (`ListAppended`), without one (`ListWithout`), with another one behind it (`ListsJoined`); a reordering is read backwards, from the
place where the book has ended up (`PutBack`).

**Shelves, overlapping registrations: the refinement again.** `RegistrationsKeepOrder`: any number of registrations, creations of shelves and
listings that overlap are steps of `ShelfOrder`. The plan of a registration that holds its shelf's lock fits the rows until its commit,
since nobody else inserts there (`RegisterOrderInv`); one that has lost the lock with its first transaction has collided
over its ISBN, finds it registered still, and writes nothing (`CollidedAgain`). With deletions of books the ISBN may be
free again; then each step but the INSERT of such a second attempt is one of `ShelfOrder`'s (`FirstAttemptsKeepOrder`), and that one
really is not. Moves and reorderings are out of `OnlyRegistering` because they overwrite each other's keys by design.

**Shelves, waits.** `WaitsDoNotCircle` is the safety half of `EveryRequestAnswered`, and holds for all operations at once. `WaitsFor(r)` are the requests
whose locks `r` needs for its next step. A registration or a move takes its one lock and then writes to the same shelf
(`PlannedTo`), or has given the lock up; only `delete_shelf` asks for a lock with another in hand, and only where a foreign key
or its own shelf's row makes it. So a chain of waits has two links at most.

**Registrations.** `CreatedIsLast` and `OnlyIsbnsDo` assume `Registering`: no book is moved or
reordered. This cannot be dropped: a reordering takes no lock, and a retried move writes without one, so
both can put a key behind the one a registration has computed. `RegisterInv` adds to `Inv` that the keys of
live books are keys, that a plan contains only keys of the shape its handler computes (`PlanOK`), that
`delete_shelf` finds a default shelf (`DefaultFound`), and `CreatedBookIsLast` itself, which every other
request keeps: it cannot insert or move books to a shelf whose lock it lacks (`CommittedElsewhere`). The
keys of `delete_shelf` are a recursive function, whose existence and type are proved by a least
counterexample (`AppendedExists`, `AppendedType`).

**Reading.** `ReadingTypeCorrect` holds for any requests. The other three assume `OneRequest`: two
requests mix their columns, and then status and pages may disagree (see the hazards). The invariant is that
a request which has loaded the row still has it before it, and that what it computed is `Computed`: the
columns agree, the date is the first, and the page is within the total unless a session wrote it.

**Signup.** A code that is sent is appended and unused (`SentCode`); a confirmation changes one code, the
newest unused one (`Confirmation`). With `ActiveIsConfirmed` this gives `LatestConfirms`: while the member is
not active no code is used, so the newest unused code is the newest of all, whatever was sent since the
member was read. `LibrarianGiven` is inductive together with `ConfirmsMember`, that a confirmation in
progress is of a member that is there. `QuotaIsNearlyKept`: in its inductive form (`QuotaInv`) a request that has passed the
quota and not yet sent its code counts like a code, so that the count which lets a request pass and
the inserts that follow are in balance. `ResendsStayApart` (`ResendInv`): the row lock lets one resend at a time between its look at the
codes and its insert, so that what it found out about them stays true (`ResendCooled`); a code may be dated back, but only by
`Latency` (`NearlyInOrder`).

**Accounts, limits, librarians, deletions, images** (`AccountProofs`). `MembersAreWhole` is inductive with the types:
a step changes only the account of its request, whose creator then leaves, having completed it, or dies (`WholeKept`, `StaysAtWork`).
`WithdrawnAreOut` needs `AccessInv`: every token expires within `LongestLife` of its issue, every request in
progress found its member at most `Late` ago and not after the withdrawal; so nothing is issued later than `withdrawn + Late`.
`LimitIsKept`: `KeyInv` says that grants are in order, that one dropped from the list is out of the window, and
that each is a window younger than the one `Limits` places before it; a key that is not full has its `Limits`-th last
grant out of the window (`NotFullMeansSpread`). `RefusalsAreExact`: the wait is counted from the oldest of the last `Limits` grants, which
are just those in the window when the key is full (`FullMeansLast`); while nothing is let through they stay the last
(`RefusalInv`), so the key has room when that one leaves the window, and not before. `OneRepresentative`: `RepInv` says that some row bears the flag and at
most one living row does, and that a request's row is there; a flag is cleared only in the commit that sets another
(`SetCommitStep`). `NothingSurvives`: each row that was
there when the withdrawal began is deleted, held, seen by the UPDATE in progress, or of a table still to come (`Covered`);
a statement is over only when it holds all the living rows it saw. `OrphansCameLate` turns this to the child (`OrphanInv`): a living scrap that was
not inserted behind a deletion's back has a living parent, and every deletion in progress that takes it with its
parent still will (`WillTake`). `NamedImagesAreThere`: at most one request is about to name an image named once, and until it has, no row names it;
then one row does, and only requests about that row have found it there (`NamedOnce`), which delete it when the row has
lost it or is deleted.

**Search and genre** (`SearchProofs`). `CacheIsFresh`: an entry expires within a lifetime of the moment its answer was given,
because the lifetime is counted from a time before the source was asked (`CacheInv`). `SearchEndsInTime` assumes
`Lag <= 2` and `25 + Lag <= Deadline`; its invariant bounds the time at each step of the search. `ChoicesStayPrivate`: a
book whose genre a member chose has the source `USER` unless restated, and `Cached` leaves those out (`GenreInv`); the
difficult step is an update that writes only the columns it changed over a row that was changed meanwhile.

**The calendar** (`SearchProofs`). `CalendarIsKorean` is arithmetic of hours: the day of Korea of an hour lies in a month exactly when the hour
lies between the two instants the code asks the database for.

**The report's figures** (`SearchProofs`). `StreaksAreRuns`: the loop over the sorted days is a recursive function over finite sets of days, whose
existence is shown by a least counterexample; what it carries (`StreakOf`) is the length of the run that ends with the last of the days so far and the longest of all.
`ReportsAddUp`: the figures are folds over finite sets of activities, hence numbers; the score is at most 100
because there are at most ten genres.

**ISBNs** (`SearchProofs`). `SameBooks`: the weighted sum of the thirteen-digit form changes by the slip times 1 or 3, which is no multiple of 10, that of the
ten-digit form by the slip times a weight from 1 to 10, which is none of 11, a prime; so no slip keeps a check digit right, whatever
the book. Of two books with different digits the normalized forms differ.

**The shared account** (`AccountProofs`). `ResetBringsBack`: what the reset keeps is the subsequence of seeds (`Kept`, a fold, whose equations are again shown to
hold by a least counterexample), and the fresh rows are the other seeds, each once (`FreshIs`); so when the
indexes let the result through, every seed is there once (`ResetIsWhole`). Of what happened before the theorem needs nothing but that
the rows are rows (`DemoInv`). That their keys are strings over the alphabet rests on the theorems about keys, taken for the
shared account's alphabet by an instance of `ShelfRankProofs` (`NextKeysTyped`).

**The components together** (`ServicesProofs`). `PartsAreThemselves`: a behaviour of `Services` is one of each component's own
specification, so what is proved of a component holds of all that the run `services` checks. `ServicesTyped` joins the types of the
twelve: most are part of the invariants above; a limiter's waits need the argument that the oldest of the last `Limits`
grants is still in the window when a client is refused (`RetryWithinWindow`: the wait is 1 to `Window`), a librarian's
request refers to rows that exist, since rows are only marked deleted (`LibTypesStep`), and a report's figures are those of `ReportsAddUp`.

**Left to TLC.** `Terminates` and `EveryRequestAnswered`, since they are liveness; their safety halves are `LoopCountsDown` and
`WaitsDoNotCircle`. That `between`'s closed form is what the loop returns is proved; that
`RebalancedSequence` is what the loops of `rebalanced_sequence` and `_to_key` compute is by reading.

## 5. Not modelled, and the plan

Not modelled: routers, schemas and health (they translate and keep no state; the validators that matter are conditions
of the services' actions); what sources, the identity providers and the AI service answer (model values); the texts
of books, scraps and records, agreements, mails; the ORM's deadlocks between two flushes over the same rows, which
PostgreSQL ends with an error for one of them; the collation of the database (see the hazards); the master data of
librarians; `update_shelf` and `update_shelf_placements`; ownership checks.

What would follow, in this order:

1. `Signup`: whose name and password a member has (a registration that has read a pending member overwrites one
   confirmed meanwhile).
2. `DemoReset` under concurrent requests, with the quota's count.
3. `Bookshelf`: a flush as one step per row, with the deadlock that PostgreSQL ends.
4. Theorems: the refinement for moves and reorderings that overlap, which needs an abstract specification weaker than
   `ShelfOrder`, since they may overwrite each other's places.

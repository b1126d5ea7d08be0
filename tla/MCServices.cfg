CONSTANTS
  r1 = r1
  r2 = r2
  me = me
  shelf = shelf
  book1 = book1
  scrap = scrap
  record = record
  recordScrap = recordScrap
  mine = mine
  pic = pic
  photo = photo
  Requests = {one}
  MaxPage = 3
  MaxTime = 2
  Accounts = {guest, ann}
  Guest = guest
  MemberRequests = {r1, r2, r3}
  Users = {ann}
  DemoUser = demo
  GuestUser = guest
  Routes = {"books", "librarians", "account"}
  GuestWrites = TRUE
  AccessLife = 1
  RefreshLife = 2
  Late = 1
  AccessRequests = {r1, r2}
  MaxTokens = 3
  MaxHour = 5
  Buckets = {"ip", "email"}
  Limits <- MCLimits
  Handlers <- MCHandlers
  Window = 3
  Second = 2
  MaxGranted = 5
  MaxClock = 8
  Types = {cat, owl}
  FirstType = cat
  LibRequests = {r1, r2}
  MaxLibrarians = 3
  Items = {me, shelf, book1, scrap, record, recordScrap}
  TableOf <- MCTableOf
  ParentOf <- MCParentOf
  MemberRow = me
  CascadeRequests = {r1, r2}
  Seeds = {s1, s2}
  OtherIsbns = {x}
  Quota = 3
  KeyBase = 8
  MaxKey = 1
  MaxRows = 3
  Images = {pic, photo}
  Elsewhere = elsewhere
  Holders = {scrap, mine}
  Profile = mine
  Fits <- MCFits
  ImageRequests = {r1, r2}
  Sources = {"google"}
  Lives <- MCLives
  Marked = {"google"}
  Persons = {ann}
  Anybody = anybody
  Searches = {r1, r2}
  MaxFetches = 2
  MaxWall = 2
  Lag = 2
  MaxWait = 60
  Deadline = 45
  Bodies <- MCBodies
  Owners = {ann, bob}
  Labels = {g}
  Unclassified = none
  GenreRequests = {r1, r2}
  Titles = {"novel", "notes"}
  GenreOf <- MCGenreOf
  Kinds <- MCKinds
  Activities <- MCActivities
  FirstDay <- MCFirstDay
SPECIFICATION ServicesSpec
SYMMETRY SymRequests
CHECK_DEADLOCK FALSE
INVARIANTS
  TypeOK
  ServicesTypeOK
  FinishedIsCompleted
  MembersAreWhole
  
  NeverMoreThanLimit
  RetryAfterIsExact
  RepresentativeNeverDropped
  OrphansRaced
  ResetRestores
  
  CacheNeverTooOld
  SearchWithinDeadline
  SameBookSameIsbn
  ChoiceStaysPrivate
  StreakIsLongestRun
  CalendarDaysInMonth
PROPERTIES
  CompletionDateKept
  OnlySessionsOvershoot
  WithdrawalIsWhole

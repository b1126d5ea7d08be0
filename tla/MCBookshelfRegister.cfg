CONSTANTS
  BASE = 4
  MAX_LENGTH = 2
  Requests = {r1, r2, r3}
  ShelfIds = {s1, s2}
  MaxBooks = 2
  Isbns = {i1}
  Kinds <- RegisterKinds
  NoShelf = NoShelf
  NoRequest = NoRequest
  NoIsbn = NoIsbn
SPECIFICATION FairSpec
INVARIANTS
  CreatedBookIsLast
PROPERTIES
  OnlyIsbnsCollide
  DefaultShelfForever
  EveryRequestAnswered
\* every book and shelf of the bound may be used up, and all requests answered
CHECK_DEADLOCK FALSE

CONSTANTS
  BASE = 3
  MAX_LENGTH = 2
  Requests = {r1, r2}
  ShelfIds = {s1, s2}
  MaxBooks = 2
  Isbns = {}
  Kinds <- AllKinds
  NoShelf = NoShelf
  NoRequest = NoRequest
  NoIsbn = NoIsbn
SPECIFICATION Spec
SYMMETRY Interchangeable
INVARIANTS
  TypeOK
  KeysUnique
  LockedTargetIsLive
\* every book of the bound may be used up and deleted
CHECK_DEADLOCK FALSE

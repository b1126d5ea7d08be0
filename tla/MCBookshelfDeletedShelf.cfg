CONSTANTS
  BASE = 4
  MAX_LENGTH = 2
  Requests = {r1, r2}
  ShelfIds = {s1, s2}
  MaxBooks = 1
  Isbns = {}
  Kinds = {"create_book", "create_shelf", "delete_shelf"}
  NoShelf = NoShelf
  NoRequest = NoRequest
  NoIsbn = NoIsbn
SPECIFICATION Spec
INVARIANT NoBookOnDeletedShelf
CHECK_DEADLOCK FALSE

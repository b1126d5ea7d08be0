CONSTANTS
  BASE = 4
  MAX_LENGTH = 2
  Requests = {r1}
  ShelfIds = {s1}
  MaxBooks = 3
  Isbns = {}
  Kinds = {"create_book", "get_shelves", "reorder_book"}
  NoShelf = NoShelf
  NoRequest = NoRequest
  NoIsbn = NoIsbn
SPECIFICATION Spec
INVARIANT ReorderNeverFails
CHECK_DEADLOCK FALSE

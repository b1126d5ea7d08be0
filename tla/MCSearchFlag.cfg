CONSTANTS
  Sources = {"google"}
  Lives <- MCLives
  Marked = {"google"}
  Persons = {ann}
  Anybody = anybody
  Searches = {r1, r2}
  MaxFetches = 2
  MaxWall = 2
SPECIFICATION CacheSpec
INVARIANT RegisteredFlagIsMine

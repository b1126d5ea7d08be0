SPECIFICATION Spec
CONSTANTS
  Requests = {r1, r2}
  NoRequest = NoRequest
  Attempts = 2
  Quota = 2
  Cooldown = 2
  Expiry = 1
  Day = 2
  Latency = 1
  MaxCodes = 4
  MaxTime = 4
SYMMETRY Symmetry
CHECK_DEADLOCK FALSE
INVARIANT ConflictIsAnswered

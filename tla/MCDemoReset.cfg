CONSTANTS
  Seeds = {s1, s2}
  OtherIsbns = {x}
  Quota = 3
  KeyBase = 8
  MaxKey = 1
  MaxRows = 3
SPECIFICATION DemoSpec
INVARIANT ResetSucceeds

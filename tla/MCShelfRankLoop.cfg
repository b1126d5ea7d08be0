CONSTANTS
  BASE = 3
  MAX_LENGTH = 4
  Keys <- AllKeys
SPECIFICATION FairSpec
INVARIANTS
  TypeOK
  StrictlyBetween
  MeetsClosedForm
  ExhaustedOnlyAtFullLength
PROPERTY Terminates
\* a call ends: every final pc is a deadlock
CHECK_DEADLOCK FALSE

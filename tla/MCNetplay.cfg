SPECIFICATION Spec
CONSTANTS
  INPUT_DELAY = 1
  MAX_ROLLBACK = 2
  SimMaxRollback = 2
  REDUNDANCY = 2
  AHEAD_LIMIT = 1
  SKIP_EVERY = 2
  CHECKSUM_EVERY = 2
  Neutral = 0
  Bits = {0, 1}
  Versions = {v1}
  Flights = {}
  MaxFrame = 4
  MaxLost = 0
INVARIANTS
  TypeOK
  InputDecidedOnce
  LogsAgree
  LogIsWhatRan
PROPERTIES
  SettledIsFinal
  ImplementsLockstep

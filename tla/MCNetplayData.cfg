SPECIFICATION Spec
CONSTANTS
  INPUT_DELAY = 0
  MAX_ROLLBACK = 1
  SimMaxRollback = 1
  REDUNDANCY = 2
  AHEAD_LIMIT = 0
  SKIP_EVERY = 2
  CHECKSUM_EVERY = 2
  Neutral = 0
  Bits = {0, 1}
  Versions = {v1, v2}
  Flights = {0}
  MaxFrame = 3
  MaxLost = 0
INVARIANTS
  VerdictsSound
  CorrectionsInTime

SPECIFICATION FairSpec
CONSTANTS
  INPUT_DELAY = 1
  MAX_ROLLBACK = 2
  SimMaxRollback = 2
  REDUNDANCY = 3
  AHEAD_LIMIT = 0
  SKIP_EVERY = 2
  CHECKSUM_EVERY = 9
  Neutral = 0
  Bits = {0}
  Versions = {v1}
  Flights = {0}
  MaxFrame = 3
  MaxLost = 1
PROPERTIES
  StallsEnd
  MatchGoesOn

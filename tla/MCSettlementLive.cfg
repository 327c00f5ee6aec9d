SPECIFICATION FairSpec
CONSTANTS
  Matches = {1}
  Modes = {"ranked", "casual"}
  Users = {1, 2}
  Player <- SameSeats
  Claims <- AllClaims
  StartLP <- Beginners
  Workers = {w1, w2}
  Sweeper = sweeper
  Fallible <- ServerOnly
  MaxFailures = 1
  NoMatch = NoMatch
CHECK_DEADLOCK FALSE
INVARIANTS OkIsReplayed
PROPERTIES ReportsAreDecided JobsAreJudged

SPECIFICATION Spec
CONSTANTS
  Matches = {1}
  Modes = {"ranked"}
  Users = {1, 2}
  Player <- SameSeats
  Claims <- TwoClaims
  StartLP <- Beginners
  Workers = {w1}
  Sweeper = sweeper
  Fallible <- Everybody
  MaxFailures = 0
  NoMatch = NoMatch
CHECK_DEADLOCK FALSE
INVARIANTS DisagreementPaysNothing

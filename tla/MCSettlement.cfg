SPECIFICATION Spec
CONSTANTS
  Matches = {1, 2}
  Modes = {"ranked", "casual"}
  Users = {1, 2}
  Player <- WithOneself
  Claims <- OneForgery
  StartLP <- Beginners
  Workers = {w1, w2}
  Sweeper = sweeper
  Fallible <- Everybody
  MaxFailures = 1
  NoMatch = NoMatch
CHECK_DEADLOCK FALSE
INVARIANTS TypeOK ReversedOnce CountsFit WinnerIsPaid

SPECIFICATION Spec
CONSTANTS
  Matches = {1, 2}
  Modes = {"ranked"}
  Users = {1, 2}
  Player <- OppositeSeats
  Claims <- OneLie
  StartLP <- AtTheFloor
  Workers = {w1}
  Sweeper = sweeper
  Fallible = {}
  MaxFailures = 0
  NoMatch = NoMatch
CHECK_DEADLOCK FALSE
INVARIANTS LadderBalances SettlementsDontDeadlock

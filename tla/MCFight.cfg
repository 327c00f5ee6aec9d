CONSTANTS
  Roster <- MCRoster
  Balance <- MCBalance
  Limits <- MCLimits
  One = 1
  BarUnits = 2
  FrameCap = 12
  InputHistory = 6
  InputBuffer = 2
  DashWindow = 4
  Motions <- MCMotions
  RoundFrames = 8
  RoundsToWin = 1
  MaxRounds = 2
  KOFreeze = 1
  RoundEndHold = 1
  IntroFrames = 1
  StartX = 3
  MaxProjectiles = 2
  Setups <- MCSetups
  Keyboard <- MCKeyboard
SPECIFICATION Spec
INVARIANTS TypeOK DebtsHeld OnScreen RoundBooks
PROPERTIES GaugesHonest DealtAdds ChipNeverKills GuardHolds HitsOnce LaunchedLands SetupSurvives MatchAdvances SeatBlind

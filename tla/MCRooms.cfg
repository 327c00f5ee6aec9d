CONSTANTS
  Clients <- MCClients
  Codes = {"code"}
  Lp <- MCLp
  Rtt <- MCRtt
  Bands <- MCBands
  Unlimited <- MCUnlimited
  Visits <- MCVisits
SPECIFICATION FairSpec
INVARIANTS TypeOK OnePairEach WaitersFindable FramesFit OneTransport
PROPERTIES WaitersMeet PairsSettle NobodyLeftBehind
CHECK_DEADLOCK FALSE

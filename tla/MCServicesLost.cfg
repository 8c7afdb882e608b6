CONSTANTS
  MaxTask = 2
  LowestPrio = 3
  Slice = 1
  NullPrio = 0
  MaxEvent = 2
  MaxQueue = 2
  MaxFlag = 2
  MaxTimer = 2
  MaxMail = 2
  MaxCell = 1
  SrqSize = 1
  App = {"lost"}
  Setup <- RaceSetup
  Calls <- RaceCalls
SPECIFICATION FairSpec
PROPERTY PermitsReachWaiters

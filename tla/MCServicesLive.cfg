CONSTANTS
  MaxTask = 2
  LowestPrio = 3
  Slice = 1
  NullPrio = 0
  MaxEvent = 2
  MaxQueue = 0
  MaxFlag = 0
  MaxTimer = 1
  MaxMail = 0
  MaxCell = 1
  SrqSize = 2
  App <- LiveApps
  Setup <- LiveSetup
  Calls <- LiveCalls
SPECIFICATION FairSpec
PROPERTIES DelaysEnd RequestsServed SrqIsFifo TimersFire UrgentRuns

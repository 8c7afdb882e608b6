CONSTANTS
  MaxTask = 4
  LowestPrio = 4
  Slice = 1
  NullPrio = 0
  MaxEvent = 1
  MaxQueue = 0
  MaxFlag = 0
  MaxTimer = 0
  MaxMail = 0
  MaxCell = 1
  SrqSize = 1
  App <- Applications
  Setup <- PairSetup
  Calls <- PairCalls
  MaxMutex = 1
  Enters <- Two
  Deletes <- PairDeletes
SPECIFICATION MutexFairSpec
INVARIANTS PriorityExact NoWildCall
PROPERTIES MutexIsLock MutexServes

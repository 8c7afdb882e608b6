CONSTANTS
  MaxTask = 3
  LowestPrio = 3
  Slice = 1
  NullPrio = 0
  MaxEvent = 1
  MaxQueue = 0
  MaxFlag = 0
  MaxTimer = 0
  MaxMail = 0
  MaxCell = 1
  SrqSize = 1
  App <- Applications
  Setup <- SafeSetup
  Calls <- SafeCalls
  MaxMutex = 1
  Enters <- All1
  Deletes <- SafeDeletes
SPECIFICATION MutexSpec
INVARIANTS MutexListsSound NoInversion
PROPERTIES MutexIsLock

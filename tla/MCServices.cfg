CONSTANTS
  MaxTask = 3
  LowestPrio = 3
  Slice = 1
  NullPrio = 0
  MaxEvent = 2
  MaxQueue = 2
  MaxFlag = 3
  MaxTimer = 2
  MaxMail = 4
  MaxCell = 2
  SrqSize = 1
  App <- SafeApps
  Setup <- SafeSetup
  Calls <- SafeCalls
SPECIFICATION Spec
INVARIANTS ListsSound PermitsConserved Exclusion WaitsDecided MailConserved NoFlagOverlooked FlagsStay TimersSound EcbsConserved
PROPERTIES DelaysKept MailsAreFifo TimersKept

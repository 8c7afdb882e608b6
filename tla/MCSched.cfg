CONSTANTS
  MaxTask = 3
  LowestPrio = 4
  Slice = 2
  NullPrio = 0
  Prios = {1, 2, 3}
  Creators = {1}
  Suspends <- OwnedSuspends
  Awakes <- OwnedAwakes
  Deletes <- OwnedDeletes
  Reprioritises <- OwnedPrios
  Lockers = {2}
  Stray = {}
  MaxSect = 1
SPECIFICATION Spec
INVARIANTS TypeOK ReadyListSound LockAccounting
PROPERTIES LockKeepsProcessor

CONSTANTS
  MaxTask = 4
  LowestPrio = 4
  Slice = 1
  NullPrio = 0
  Prios = {1, 2, 3}
  Creators = {1}
  Suspends <- OwnedSuspends
  Awakes <- OwnedAwakes
  Deletes <- OwnedDeletes
  Reprioritises <- SelfPrios
  Lockers = {2}
  Stray = {}
  MaxSect = 1
SPECIFICATION Spec
INVARIANTS RightTaskRuns
PROPERTIES FifoWithinPrio

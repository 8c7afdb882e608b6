CONSTANTS
  MaxTask = 5
  LowestPrio = 4
  Slice = 1
  NullPrio = 0
  Prios = {1, 2, 3}
  Creators = {1}
  Suspends <- OtherSuspends
  Awakes <- OtherAwakes
  Deletes = {}
  Reprioritises <- OtherPrios
  Lockers = {}
  Stray = {}
  MaxSect = 0
SPECIFICATION Spec
INVARIANTS RightTaskRuns

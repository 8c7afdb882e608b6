CONSTANTS
  MaxTask = 2
  LowestPrio = 3
  Slice = 2
  NullPrio = 0
  Prios = {1}
  Creators = {1}
  Suspends = {}
  Awakes = {}
  Deletes = {}
  Reprioritises = {}
  Lockers = {1}
  Stray = {}
  MaxSect = 1
SPECIFICATION FairSpec
PROPERTIES RobinShares

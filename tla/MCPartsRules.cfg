CONSTANTS
  HeapSize = 12
  Requests = {1, 3}
  MaxMm = 2
  Users = {1, 2, 3}
  MmPrio <- CreatorLast
  Creators = {1}
  Areas <- TwoAreas
  Width = 24
  Height = 40
  ascii_7x11 <- Font
  Drawers = {"main_task", "log_touch_task"}
  Drawings <- Flat
  Cuts = {4}
  OneDrawer = TRUE
  MaxCalls = 2
  LogTop = 26
  LogLines = 2
  LineHeight = 12
  Layout <- ScreenLayout
  Messages <- Texts
  MaxLogged = 3
  Positions <- Where
  AdcMax = 7
  CalSamples = 3
  PointSamples = 4
  WordBits = 12
  Factory <- BootCoefficients
  PenStays = TRUE
  References <- Marks
  Delays = {0, 2, 5}
  MaxPotFlags = 3
  PotValues = {0, 50, 4095}
SPECIFICATION PartsSpec
INVARIANTS HeapSound PartitionsSound ScreenShows TouchRight LightsRight
  CpuClocked PotFresh ToneAlive InterruptsNest
PROPERTIES BuffersKept
CHECK_DEADLOCK FALSE

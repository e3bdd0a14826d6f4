SPECIFICATION Spec
CONSTANTS
  NumBits = 12
  PageSize = 2
  PtEntries = 8
  NumTables = 5
  NumStatic = 1
  RecursivePde = 3
  Bottom = 34
  Top = 32
  MaxAreas = 4
  StackDepth = 3
  HeapSize = 6
  Growth = 6
  Devices <- MCDevices
  PageZero <- MCPageZero
CHECK_DEADLOCK FALSE
INVARIANTS
  TypeOK
  FramesExclusive
  ReturnedIsMapped
  TablesFromLowMemory
PROPERTIES
  SuccessLeaksNothing
  DeviceShows

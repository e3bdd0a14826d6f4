SPECIFICATION Spec
CONSTANTS
  PageSize = 2
  AddressSpace = 36
  ByteBits = 2
  LowFrames = 1
  LowPages = 3
  Image = {2}
  BitmapFirst = 3
  BitmapPages = 1
  HeapPages = 1
  MaxRegions = 5
  Recursive <- MCRecursive
  Framebuffer <- MCFramebuffer
  Lapic <- MCLapic
  IoapicLength = 1
  TagOrders <- MCOrders
  MemoryMaps <- MCMaps
  Places = {1, 14, 16, 24}
  Madts <- MCMadts
CHECK_DEADLOCK FALSE
INVARIANTS
  TypeOK
  HandsOutRam
  NoRamLost
  AcpiFound
  DevicesMapped

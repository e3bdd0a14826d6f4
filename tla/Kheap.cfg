SPECIFICATION Spec
CONSTANTS
  Start = 1
  Tag = 2
  Header = 2
  HeapSize = 18
  Growth = 8
  Sizes = {1, 3, 4}
  NodeSize = 3
  MaxEnd = 27
  MaxLost = 1
CHECK_DEADLOCK FALSE
INVARIANTS
  ChainTiles
  LiveBlocksSound
  FirstFreeIsLowest
  RecursesOnlyWhenFull
PROPERTIES
  StopsOnlyAtTheEnd
  ImplementsBlockAllocator

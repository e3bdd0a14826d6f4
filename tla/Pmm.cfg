SPECIFICATION Spec
CONSTANTS
  NumBits = 7
  ByteBits = 3
  LowFrames = 1
  BitmapFirst = 2
  BitmapPages = 1
  MaxPages = 3
  Client = {c1, c2}
SYMMETRY Symmetry
INVARIANTS
  FramesSound
  GrantsAreUsable
  BitmapKept
PROPERTIES
  ImplementsFrameAllocator

SPECIFICATION FairMCSpec
CONSTANTS
  ByteBits = 2
  LongBits = 4
  BitmapLongs = 3
  UINTPTR_MAX = 99
  MemoryMaps <- AllMaps
  Counts = {0, 1, 2, 5, 9}
  MaxGrants = 4
INVARIANTS
  TypeOK
  HintSound
  RunIsExact
  OutOfMemoryIsHonest
  Conservation
  NoDoubleGrantInRegion
PROPERTIES
  CallReturns
  PoolInRegion

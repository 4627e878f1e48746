SPECIFICATION Spec
CONSTANTS
  ByteBits = 2
  LongBits = 4
  BitmapLongs = 3
  UINTPTR_MAX = 99
  MemoryMaps <- TwoRegionMaps
  Counts = {0, 1, 2, 5, 9}
  MaxGrants = 4
INVARIANT AddressIsRun

SPECIFICATION MCSpec
CONSTANTS
  InitialMaps <- RegionMaps
  BootCounts = {1, 2, 5}
  ReserveCounts = {1, 2}
  MemoryEnd = 10
  MemoryMapsEnd = 13
  ByteBits = 2
  BitsPerPage = 6
  UINTPTR_MAX = 99
  Clients = {"kernel"}
INVARIANT UsedByDefault
CHECK_DEADLOCK FALSE

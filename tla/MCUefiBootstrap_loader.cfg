SPECIFICATION BootSpec
CONSTANTS
  InitialMaps <- RegionMaps
  BootCounts = {1, 2, 5}
  ReserveCounts = {1, 3}
  MemoryEnd = 10
  MemoryMapsEnd = 15
INVARIANT LoaderUnmapped
CHECK_DEADLOCK FALSE

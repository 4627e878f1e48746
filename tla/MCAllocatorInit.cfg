SPECIFICATION FairMCSpec
CONSTANTS
  InitialMaps <- RegionMaps
  BootCounts = {1, 2, 5}
  ReserveCounts = {1, 2}
  MemoryEnd = 10
  MemoryMapsEnd = 13
  ByteBits = 2
  BitsPerPage = 6
  UINTPTR_MAX = 99
  Clients = {"kernel", "any order"}
INVARIANTS
  BootAndInitTypeOK
  EveryFrameOnce
  ReservationsApart
  AllocatorStart
  FailedInitGrantsNothing
PROPERTY KernelBootEnds
CHECK_DEADLOCK FALSE

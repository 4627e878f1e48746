SPECIFICATION Spec
CONSTANTS
  MemoryPages = 17
  EntriesPerTable = 8
  Levels = 2
  VirtualPages = 48
  Segments <- LargeSegment
  EntryPage = 24
  Images = {"elf", "other"}
  Cpus = 2
  StackPages = 1
  FramebufferPages = 1
  InitrdPages = 1
  MapMargin = 2
  MaxEvents = 2
  Absent = Absent
INVARIANTS KernelComplete
CHECK_DEADLOCK FALSE

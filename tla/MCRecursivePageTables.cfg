SPECIFICATION MCSpec
CONSTANTS
  EntriesPerTable = 4
  EntryBytes = 2
  Frames <- PageFrames
  Absent = Absent
  RootFrame = 0
  InitialStates <- AllStates
  Requests <- AllRequests
  Scenarios = {"fresh", "boot", "zeroed"}
INVARIANTS
  PagesTypeOK
  TreeWithoutFault
PROPERTIES
  AddressSpaceKept
  NoFrameLost
  
CHECK_DEADLOCK FALSE

SPECIFICATION MCSpec
CONSTANTS
  EntriesPerTable = 4
  EntryBytes = 2
  Frames <- PageFrames
  Absent = Absent
  RootFrame = 0
  InitialStates <- AllStates
  Requests <- AllRequests
  Scenarios = {"boot"}
PROPERTY PresentTablesFound
CHECK_DEADLOCK FALSE

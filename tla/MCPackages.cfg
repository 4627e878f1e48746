SPECIFICATION Spec
CONSTANTS
  Off = Off
  Archives <- MCArchives
  Filename <- MCFilename
  Cuts = {0, 3, 122}
  Streams <- MCStreams
  Margins <- MCMargins
  HeapSize = 4
  Chunks = {0, 1, 4}
  TextRooms = {0, 2, 20}
  DictSize = 8
  Sources <- MCSources
  Modes <- MCModes
  MaxMatch = 5
  LongMatch = 5
  FarAway = 6
  Filtered = 3
  PosSpan = 16
  LzCodes = 3
  OutBufSize = 20
  Offers = {0, 6}
  CodeRooms = {0, 4, 40}
  MaxBytes = 32
  Counts <- MCCounts
  Limits = {3, 4}
  Lengths <- MCLengths
  Radix = 5
  FastBits = 2
  MaxZeros = 16
  Files <- MCFiles
  Sought <- MCSought
  Lower <- MCLower
  Shelf <- MCShelf
  Starts <- MCStarts
  Directories <- MCDirectories
  MaxFiles = 2
  MaxSize = 330
  MaxEntries = 3
  MaxLen = 250
  MaxFailures = 2
INVARIANTS PackagesTypeOK EntryFound Inflated Deflated CodesDecode 
CHECK_DEADLOCK FALSE

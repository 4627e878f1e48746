SPECIFICATION CoreSpec
CONSTANTS
  Off = Off
  Objects = {"u", "v"}
  Arrays = {"x"}
  Addr = {1, 2, 3}
  MaxLen = 2
  Null = null
  Ended = ended
  Moved = moved
  Values = {0, 1}
  Default = 0
  Initial = {0, 3}
  Reserves = {2, 5}
  MaxSize = 4
  Strings = {"a", "b"}
  Letters = {1, 2}
  kMaxShortLen = 3
  MaxText = 4
  Results = {"p", "q"}
  Items = {"i1", "i2"}
  Failures = {"Unknown", "OutOfMemory"}
  Bits = 16
  FlagNames = {"showbase", "showpos", "hex", "oct", "dec", "left", "internal", "right"}
  buf_chrs = 5
  Numbers <- MCNumbers
  Widths = {0, 3, 9}
  Fills = {" ", "0"}
  Formats <- MCFormats
  Arguments <- MCArguments
  LevelOrder <- MCLevelOrder
  rows_ = 2
  cols_ = 3
  TabStop = 2
  Glyphs = {"A"}
  Colors = {1, 15}
  MaxRow = 3
  MaxExtra = 2
INVARIANTS CoreTypeOK     VerdictsRight
PROPERTIES  OtherRowsKept
CHECK_DEADLOCK FALSE

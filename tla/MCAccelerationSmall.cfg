SPECIFICATION AccelerationSpec
CONSTANTS
  RowsPerHalf = 2
  MaxRows = 7
  MaxSide = 4
  MaxShift = 4
  CsSize = 30
  Widths = {1, 8, 9, 17}
  MaxLines = 4
  Adapters <- OneR600
  Sizes <- SmallSizes
  Places <- UsualPlaces
  Ports = {1, 2}
  CommandWords = 16384
  Size = 3
  MaxGrab = 2
  FifoSize = 2
  LoopCount = 2
  MaxWrites = 5
INVARIANTS FramesInTheirBuffers
CHECK_DEADLOCK FALSE

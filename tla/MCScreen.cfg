SPECIFICATION ConsoleSpec
CONSTANTS
  Units <- AllUnits
  Consoles <- TwoModes
  ByteBits = 1
  Images <- AllImages
  CardStates <- Cards
  Volatile <- Polled
  ParameterSpaces <- SomeParameters
  Garbage <- BothGarbage
  FirstFlags <- TwoFlags
  MaxExecs = 2
INVARIANTS ConsoleBack RestsInPlace CommandsCanRun
INVARIANTS ConsoleRegistersBack PowerAsAsked
INVARIANTS ParserOnTrack ParametersKept FieldsKept ChangedAreSaved
PROPERTIES MCMovedQuietly
CHECK_DEADLOCK FALSE

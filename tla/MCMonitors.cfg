CONSTANTS
  ChunkR5xx = 3
  ChunkRV620 = 2
  Bytes = 8
  Reads <- SomeReads
  CompareMin = 2
  SaveMin = 3
  CompareMax = 5
  Machines <- TheMachines
  ConsoleClocks <- Clocks
  Setups <- TheSetups
  MaxPlugs = 1
SPECIFICATION MonitorsSpec
INVARIANTS EngineHandedBack ReadRight ClocksKept VirtualRight
PROPERTIES ScreensGetTheirMode
CHECK_DEADLOCK FALSE

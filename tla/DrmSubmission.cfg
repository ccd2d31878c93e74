SPECIFICATION FairSpec
CONSTANTS
  Buffers = {b1, b2}
  NoBuffer = NoBuffer
  Size = 4
  Align = 2
  MaxGrab = 3
  LoopCount = 1
  MaxHeld = 1
  MaxWords = 4
INVARIANTS BuffersConserved SubmittedUntouched GetCanSucceed
PROPERTIES ImplementsStream SyncMeansDone FlushedIsExecuted
CHECK_DEADLOCK FALSE

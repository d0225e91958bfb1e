SPECIFICATION FairSpec
CONSTANTS
  MaxUnits = 4
  MaxCancels = 2
  Low = 1
  High = 2
INVARIANTS
  QueuesInStep
  AtMostOneLateChunk
  DownIsQuiet
PROPERTIES
  ImplementsChannel
  SpeechDrains
  ShutdownReturns
CHECK_DEADLOCK FALSE

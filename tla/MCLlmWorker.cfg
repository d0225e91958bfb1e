SPECIFICATION FairSpec
CONSTANTS
  Prompts = {p1, p2, p3}
  NoPrompt = NoPrompt
  NoChunk = NoChunk
  MaxChunks = 3
  Chunk <- MCChunk
  GateStates = {"Uninitialized", "Initializing", "Ready"}
INVARIANTS
  PreemptedIsSilent
  AnswerInFull
  PromptInOnePlace
  MainNeverWaitsForGeneration
  OneAnswerAtATime
  DownIsQuiet
PROPERTIES
  QueuedPromptLeaves
  ShutdownReturns

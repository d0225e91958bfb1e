SPECIFICATION Spec
CONSTANTS
  Prompts = {p1, p2, p3}
  NoPrompt = NoPrompt
  NoChunk = NoChunk
  MaxChunks = 1
  Chunk <- MCChunk
  GateStates = {"Ready"}
INVARIANT DeferredLineSent

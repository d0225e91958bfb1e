----------------------------- MODULE MCLlmWorker -----------------------------
(* Model-checking instances of LlmWorker: a few lines, short answers.         *)
EXTENDS LlmWorker

\* A chunk is the answered line and its position in the answer.
MCChunk == Prompts \X (1 .. MaxChunks)
=============================================================================

----------------------------- MODULE VoiceReply -----------------------------
(***************************************************************************)
(* The voice bridge between its two callers: the inference thread, which   *)
(* runs one generation at a time and calls back from inside it, and the    *)
(* main thread, which preempts, polls and cancels at any moment.           *)
(***************************************************************************)
EXTENDS VoiceReplyBridge

CONSTANTS MaxSession,  \* bound: user turns, plus one
          MaxChunks    \* bound: chunks accepted from one generation

vars == <<bridgeVars, run>>

TypeOK == BridgeTypeOK /\ run \in RunStatus

Init == BridgeInit /\ run = "none"

\* Inference thread -------------------------------------------------------
StartRun ==
    /\ run # "open"
    /\ run' = "open"
    /\ OnRunStarted

Generate(chunk) ==
    /\ run = "open"
    /\ Len(accepted) < MaxChunks
    /\ OnLlmChunk("NORMAL", chunk)
    /\ UNCHANGED run

FinishRun ==
    /\ run = "open"
    /\ run' = "finished"
    /\ OnLlmChunk("FINISH", NoChunk)

FailRun ==
    /\ run = "open"
    /\ run' = "failed"
    /\ OnLlmChunk("ERROR", NoChunk)

\* rkllm_run returned without a last callback (it failed or was aborted).
StopRun ==
    /\ run = "open"
    /\ run' = "stopped"
    /\ UNCHANGED bridgeVars

\* Main thread ------------------------------------------------------------
UserTurn ==
    /\ desired_session_id < MaxSession
    /\ BeginTurn
    /\ UNCHANGED run

PollEvents == Poll /\ UNCHANGED run

CancelReply == Cancel /\ UNCHANGED run

\* LlmWorker::Shutdown joins the inference thread first.
ResetReply ==
    /\ run # "open"
    /\ Reset
    /\ UNCHANGED run

Next ==
    \/ StartRun
    \/ \E chunk \in Chunk : Generate(chunk)
    \/ FinishRun
    \/ FailRun
    \/ StopRun
    \/ UserTurn
    \/ PollEvents
    \/ CancelReply
    \/ ResetReply

Spec == Init /\ [][Next]_vars
=============================================================================

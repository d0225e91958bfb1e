-------------------------- MODULE VoiceReplyBridge --------------------------
(***************************************************************************)
(* voice/voice_reply_bridge.{h,cpp}: the side channel that carries the     *)
(* chunks of an LLM answer from the rkllm callback thread to the speech    *)
(* worker.                                                                 *)
(*                                                                         *)
(* Every public operation runs under mutex_ and is one action here; the    *)
(* call of TtsWorker::Cancel or EnqueueFormalAnswer that follows the       *)
(* unlock is part of it, because only the main thread makes these calls.   *)
(* Two session numbers decide what may still be said: BeginTurn advances   *)
(* the one the user wants, OnRunStarted copies it to the running           *)
(* generation.                                                             *)
(*                                                                         *)
(* A chunk stands for the visible, speakable text of one NORMAL callback   *)
(* (TtsIngress and TtsPlanner drop the rest).  Where a sentence ends is    *)
(* data: the planner may release any prefix of the text it holds.          *)
(***************************************************************************)
EXTENDS Naturals, Sequences

CONSTANTS Chunk,        \* the texts an answer is made of
          NoChunk       \* the text of a FINISH or ERROR event

ASSUME ChunkAssumption == NoChunk \notin Chunk

VARIABLES
    desired_session_id,       \* session of the newest user turn
    active_run_session_id,    \* session of the running generation
    events,                   \* events_: filled by callbacks, drained by Poll
    unplanned,                \* text inside ingress_ and planner_
    deferred_formal,          \* planned text held back for prefetch
    formal_pipeline_started,  \* the first sentence has been handed over
    accepted,  \* history: chunks taken in from the current generation
    handed,    \* history: those of them handed to the speech worker
    run        \* history, kept by the callers: the generation, none yet, open, or how it ended

sessions == <<desired_session_id, active_run_session_id>>
formal == <<unplanned, deferred_formal, formal_pipeline_started>>
bridgeVars == <<sessions, events, formal, accepted, handed>>

RunState == {"NORMAL", "FINISH", "ERROR"}
RunStatus == {"none", "open", "finished", "failed", "stopped"}

Event == [session_id : Nat, state : RunState, chunk : Chunk \cup {NoChunk}]

SessionTypeOK ==
    /\ desired_session_id \in Nat \ {0}
    /\ active_run_session_id \in Nat \ {0}
    /\ events \in Seq(Event)

TextTypeOK ==
    /\ unplanned \in Seq(Chunk)
    /\ deferred_formal \in Seq(Chunk)
    /\ formal_pipeline_started \in BOOLEAN
    /\ accepted \in Seq(Chunk)
    /\ handed \in Seq(Chunk)

BridgeTypeOK == SessionTypeOK /\ TextTypeOK

BridgeInit ==
    /\ desired_session_id = 1
    /\ active_run_session_id = 1
    /\ events = <<>>
    /\ unplanned = <<>>
    /\ deferred_formal = <<>>
    /\ formal_pipeline_started = FALSE
    /\ accepted = <<>>
    /\ handed = <<>>

-----------------------------------------------------------------------------
\* events_.clear(), ingress_.Reset(), planner_.Reset(), ResetFormalPipelineUnlocked().
ClearReply ==
    /\ events' = <<>>
    /\ unplanned' = <<>>
    /\ deferred_formal' = <<>>
    /\ formal_pipeline_started' = FALSE
    /\ accepted' = <<>>
    /\ handed' = <<>>

\* Mutation: the waiting events survive the preemption.
BeginTurnKeepsEvents ==
    /\ desired_session_id' = desired_session_id + 1
    /\ unplanned' = <<>> /\ deferred_formal' = <<>> /\ formal_pipeline_started' = FALSE
    /\ accepted' = <<>> /\ handed' = <<>>
    /\ UNCHANGED <<active_run_session_id, events>>

\* A new user turn preempts the answer in flight (main thread).
BeginTurn ==
    /\ desired_session_id' = desired_session_id + 1
    /\ ClearReply
    /\ UNCHANGED active_run_session_id

\* Mutation: the prefetch buffer of the generation before is not reset.
OnRunStartedKeepsDeferred ==
    /\ active_run_session_id' = desired_session_id
    /\ events' = <<>> /\ unplanned' = <<>> /\ accepted' = <<>> /\ handed' = <<>>
    /\ UNCHANGED <<desired_session_id, deferred_formal, formal_pipeline_started>>

\* rkllm_run is about to start (inference thread).
OnRunStarted ==
    /\ active_run_session_id' = desired_session_id
    /\ ClearReply
    /\ UNCHANGED desired_session_id

IsCurrentRunLive == active_run_session_id = desired_session_id

\* A callback of the running generation (inference thread).
OnLlmChunk(state, chunk) ==
    /\ IF IsCurrentRunLive
       THEN /\ events' = Append(events, [session_id |-> active_run_session_id,
                                         state |-> state, chunk |-> chunk])
            /\ accepted' = IF state = "NORMAL" THEN Append(accepted, chunk) ELSE accepted
       ELSE UNCHANGED <<events, accepted>>
    /\ UNCHANGED <<sessions, formal, handed>>

-----------------------------------------------------------------------------
\* DrainDeferredTtsEventsUnlocked goes through the queue and skips the events of another
\* session.
IsLive(event) == event.session_id = desired_session_id

\* The text the loop has fed to the planner when the queue is empty.
LiveText ==
    LET fed[n \in 0 .. Len(events)] ==
            IF n = 0 THEN <<>>
            ELSE IF IsLive(events[n]) /\ events[n].state = "NORMAL"
            THEN Append(fed[n - 1], events[n].chunk)
            ELSE fed[n - 1]
    IN  fed[Len(events)]

Ended(state) == \E i \in DOMAIN events : IsLive(events[i]) /\ events[i].state = state

\* Mutation: FINISH does not flush the prefetch buffer.
AccumulateWithoutFlush(batch, prefetch) ==
    LET finished == Ended("FINISH") \/ Ended("ERROR")
        started  == formal_pipeline_started /\ ~Ended("ERROR")
        held     == IF started THEN deferred_formal \o batch ELSE <<>>
        release  == prefetch /\ batch # <<>>
    IN  /\ handed' = handed \o (IF ~started THEN batch ELSE IF release THEN held ELSE <<>>)
        /\ deferred_formal' = IF release THEN <<>> ELSE held
        /\ formal_pipeline_started' = (~finished /\ (started \/ batch # <<>>))

\* AccumulateFormalSegmentsUnlocked: the first batch goes out at once; later ones
\* wait until the held text reaches a sentence end or 48 characters (prefetch).
Accumulate(batch, prefetch) ==
    LET finished == Ended("FINISH") \/ Ended("ERROR")
        started  == formal_pipeline_started /\ ~Ended("ERROR")
        held     == IF started THEN deferred_formal \o batch ELSE <<>>
        release  == finished \/ (prefetch /\ batch # <<>>)
        out      == IF ~started THEN batch ELSE IF release THEN held ELSE <<>>
    IN  /\ handed' = handed \o out
        /\ deferred_formal' = IF release THEN <<>> ELSE held
        /\ formal_pipeline_started' = (~finished /\ (started \/ batch # <<>>))

\* The main thread consumes the waiting events and enqueues what is due.  The
\* planner releases the first `cut' chunks it holds: all of them on FINISH; on
\* ERROR what it has not released is dropped.
Poll ==
    IF events = <<>>
    THEN UNCHANGED bridgeVars
    ELSE /\ \E cut \in 0 .. Len(unplanned \o LiveText), prefetch \in BOOLEAN :
                LET text == unplanned \o LiveText
                IN  /\ Ended("FINISH") => cut = Len(text)
                    /\ unplanned' = IF Ended("ERROR") THEN <<>>
                                    ELSE SubSeq(text, cut + 1, Len(text))
                    /\ Accumulate(SubSeq(text, 1, cut), prefetch)
         /\ events' = <<>>
         /\ accepted' = IF Ended("ERROR") THEN handed' ELSE accepted
         /\ UNCHANGED sessions

\* Abort or process exit (main thread).
Cancel ==
    /\ ClearReply
    /\ UNCHANGED sessions

\* LlmWorker::Shutdown (main thread).
Reset ==
    /\ ClearReply
    /\ active_run_session_id' = desired_session_id
    /\ UNCHANGED desired_session_id

-----------------------------------------------------------------------------
\* Every waiting event belongs to the session the user wants: the filter in
\* DrainDeferredTtsEventsUnlocked never meets a stale one, because each place that
\* changes a session number clears the queue in the same critical section.
EventsLive == \A i \in DOMAIN events : events[i].session_id = desired_session_id

\* From a new user turn until the next generation starts the bridge holds nothing
\* and says nothing: late callbacks of the preempted generation are not taken in.
SilentUntilNextRun ==
    active_run_session_id # desired_session_id =>
        /\ events = <<>>
        /\ unplanned = <<>>
        /\ deferred_formal = <<>>
        /\ handed = <<>>

\* Of an answer the user has turned away from nothing waits and nothing is said.
PreemptedIsSilent == EventsLive /\ SilentUntilNextRun

\* No chunk is lost, repeated or said out of order on its way through the queue,
\* the planner and the prefetch buffer.
NothingLostOrReordered == handed \o deferred_formal \o unplanned \o LiveText = accepted

\* Once the FINISH event has been polled the whole answer has been handed to the
\* speech worker: no tail is left in the planner or in the prefetch buffer.
DeliveredInFull ==
    run = "finished" /\ events = <<>> => handed = accepted

\* What is said of an answer is the answer: in order at any time, all of it at its end.
AnswerInFull == NothingLostOrReordered /\ DeliveredInFull
=============================================================================

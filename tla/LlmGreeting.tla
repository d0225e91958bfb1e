----------------------------- MODULE LlmGreeting -----------------------------
(***************************************************************************)
(* platform/llm_greeting.{h,cpp}: who may talk to the model, and when.  A  *)
(* session goes Locked, Arming, Active, Grace as a face comes, stays and   *)
(* leaves; the input gate and the greeting follow it.                      *)
(*                                                                         *)
(* The main thread calls Update and then PollDeferred for every frame, and *)
(* SubmitUserPrompt between frames; the threads of LlmWorker move in       *)
(* between.  Of the worker only what the session asks of it is kept here:  *)
(* its init state, IsBusy, and whether a line waits (LlmWorker has the     *)
(* rest).  Counts saturate at their threshold, clocks count ticks; flags   *)
(* that only suppress repeated log lines are left out.                     *)
(***************************************************************************)
EXTENDS Naturals, FiniteSets

CONSTANTS Trigger,       \* trigger_threshold_
          FaceAbsent,    \* face_absent_threshold_
          GraceTimeout,  \* grace_timeout_ms_, in ticks
          IdleTimeout    \* idle_timeout_ms_, in ticks; 0 switches it off

\* What VisionLoop assumes of them.
Thresholds ==
    /\ Trigger \in Nat \ {0} /\ FaceAbsent \in Nat \ {0}
    /\ GraceTimeout \in Nat /\ IdleTimeout \in Nat

VARIABLES
    phase,       \* the next call of the frame: "update", then "poll"
    state,       \* state_
    stable,      \* face_stable_count_
    absent,      \* face_absent_count_
    gate,        \* prompt_gate_open_
    auto_sent,   \* auto_prompt_sent_for_visit_
    idle,        \* ticks since last_activity_ts_
    grace_left,  \* ticks until grace_deadline_
    worker,      \* LlmWorker: its init state
    busy,        \* LlmWorker: a generation is running
    queued,      \* LlmWorker: a line waits behind it
    scrfd_on,    \* scrfd_was_active_
    seen,        \* history: the last frame showed a face
    greetings    \* history: greetings since the session was last Locked

sessionVars == <<state, stable, absent, gate, auto_sent, idle, grace_left, scrfd_on>>
workerVars == <<worker, busy, queued>>
greetingVars == <<auto_sent, greetings>>
history == <<seen, greetings>>
vars == <<phase, sessionVars, workerVars, history>>

Dialogue == {"Active", "Grace"}  \* IsFaceDialogueActive

\* Loaded and Broken: the init thread is done, PollInitState has not looked yet.
WorkerState == {"Uninitialized", "Initializing", "Loaded", "Broken", "Ready", "Failed"}

TypeOK ==
    /\ phase \in {"update", "poll"}
    /\ state \in {"Locked", "Arming", "Active", "Grace"}
    /\ stable \in 0 .. Trigger
    /\ absent \in 0 .. FaceAbsent
    /\ idle \in 0 .. IdleTimeout
    /\ grace_left \in 0 .. GraceTimeout
    /\ worker \in WorkerState
    /\ {gate, auto_sent, busy, queued, seen, scrfd_on} \subseteq BOOLEAN
    /\ greetings \in 0 .. 2

Init ==
    /\ phase = "poll"  \* LogStartupHint polls once before the first frame
    /\ state = "Locked" /\ stable = 0 /\ absent = 0
    /\ gate = FALSE /\ auto_sent = FALSE
    /\ idle = IdleTimeout /\ grace_left = 0
    /\ worker \in {"Uninitialized", "Initializing", "Failed"}  \* preload_on_startup
    /\ busy = FALSE /\ queued = FALSE
    /\ seen = FALSE /\ scrfd_on = FALSE
    /\ greetings = 0

UpTo(n, limit) == IF n < limit THEN n ELSE limit

-----------------------------------------------------------------------------
\* Update

IdleExpired == state \in Dialogue /\ IdleTimeout > 0 /\ idle >= IdleTimeout

\* Mutation: the gate stays open when the session locks.
LockKeepsGate ==
    /\ state' = "Locked" /\ auto_sent' = FALSE
    /\ stable' = 0 /\ absent' = 0
    /\ queued' \in {FALSE, queued /\ busy}
    /\ greetings' = 0
    /\ UNCHANGED <<gate, idle, grace_left>>

\* Idle or grace timeout: the gate closes and the waiting line is dropped, unless a
\* finishing answer is just taking it (module LlmWorker, DropQueuedPrompts).
Lock ==
    /\ state' = "Locked" /\ gate' = FALSE /\ auto_sent' = FALSE
    /\ stable' = 0 /\ absent' = 0
    /\ queued' \in {FALSE, queued /\ busy}
    /\ greetings' = 0
    /\ UNCHANGED <<idle, grace_left>>

\* TryAutoPromptOnStableFace: not when this visit was greeted already, nor into a
\* reply being streamed.
Greet(sent) ==
    IF worker = "Ready" /\ ~sent /\ ~busy
    THEN auto_sent' = TRUE /\ greetings' = UpTo(greetings + 1, 2)
    ELSE auto_sent' = sent /\ UNCHANGED greetings

\* The face is stable, for the first time (from Arming) or again (from Grace).
OpenDialogue(sent) ==
    /\ state' = "Active" /\ gate' = (worker = "Ready")
    /\ idle' = 0
    /\ Greet(sent)

\* No greeting and no activity in this frame.
Silent == UNCHANGED <<gate, auto_sent, idle, queued, greetings>>

\* A Locked or Arming session; a first face on an active scrfd arms it.
ArmingFrame(face, scrfd, seenFor, goneFor) ==
    /\ stable' = seenFor /\ absent' = goneFor
    /\ UNCHANGED grace_left
    /\ \/ /\ state = "Locked" /\ ~(scrfd /\ face)
          /\ Silent /\ UNCHANGED state
       \/ /\ state = "Arming" /\ (~scrfd \/ goneFor >= FaceAbsent)
          /\ state' = "Locked" /\ Silent
       \/ /\ state = "Arming" \/ (state = "Locked" /\ face)
          /\ scrfd /\ goneFor < FaceAbsent
          /\ IF seenFor >= Trigger
             THEN OpenDialogue(FALSE) /\ UNCHANGED queued
             ELSE state' = "Arming" /\ Silent

\* An Active session loses its face.
ActiveFrame(seenFor, goneFor) ==
    /\ state = "Active"
    /\ stable' = seenFor /\ absent' = goneFor
    /\ Silent
    /\ IF goneFor >= FaceAbsent
       THEN state' = "Grace" /\ grace_left' = GraceTimeout
       ELSE UNCHANGED <<state, grace_left>>

\* A session in Grace gets its face back, or its lease ends.
GraceFrame(seenFor, goneFor) ==
    /\ state = "Grace"
    /\ \/ /\ seenFor >= Trigger
          /\ stable' = seenFor /\ absent' = 0
          /\ OpenDialogue(auto_sent) /\ UNCHANGED <<grace_left, queued>>
       \/ /\ seenFor < Trigger /\ grace_left = 0
          /\ Lock
       \/ /\ seenFor < Trigger /\ grace_left > 0
          /\ stable' = seenFor /\ absent' = goneFor
          /\ Silent /\ UNCHANGED <<state, grace_left>>

\* The face of this frame is counted and the session moves.
FaceStep(face, scrfd, seenFor, goneFor) ==
    \/ ArmingFrame(face, scrfd, seenFor, goneFor)
    \/ ActiveFrame(seenFor, goneFor)
    \/ GraceFrame(seenFor, goneFor)

\* One frame.  The model is asked for on the first frame of scrfd (TryPreload) and on
\* every frame the session is not idle; without the model file that fails at once.
Update(face, scrfd) ==
    /\ phase = "update" /\ phase' = "poll"
    /\ seen' = face /\ scrfd_on' = scrfd
    /\ IF worker = "Uninitialized" /\ scrfd /\ (~IdleExpired \/ ~scrfd_on)
       THEN worker' \in {"Initializing", "Failed"}
       ELSE UNCHANGED worker
    /\ \/ IdleExpired /\ Lock
       \/ ~IdleExpired /\ face /\ FaceStep(face, scrfd, UpTo(stable + 1, Trigger), 0)
       \/ ~IdleExpired /\ ~face /\ FaceStep(face, scrfd, 0, UpTo(absent + 1, FaceAbsent))
    /\ UNCHANGED busy

-----------------------------------------------------------------------------
\* PollDeferred, after Update

PolledWorker ==
    IF worker = "Loaded" THEN "Ready" ELSE IF worker = "Broken" THEN "Failed" ELSE worker

\* LlmWorker::PollDeferred: the waiting line runs once the model is ready and free.
\* A line that a finishing answer has just released may be lost (module LlmWorker).
RunQueued ==
    \/ queued /\ PolledWorker = "Ready" /\ ~busy /\ busy' = TRUE /\ queued' = FALSE
    \/ queued /\ busy /\ queued' = FALSE /\ UNCHANGED busy
    \/ ~(queued /\ PolledWorker = "Ready" /\ ~busy) /\ UNCHANGED <<queued, busy>>

\* TryOpenDialogueIfReady comes last: a face that was stable before the model was.  A greeting is
\* activity (SetBannerLine).
PollDeferred ==
    /\ phase = "poll" /\ phase' = "update"
    /\ worker' = PolledWorker
    /\ RunQueued
    /\ IF worker' = "Ready" /\ state \in Dialogue /\ stable >= Trigger
       THEN /\ gate' = TRUE
            /\ auto_sent' = (auto_sent \/ ~busy')
            /\ IF auto_sent' = auto_sent
               THEN UNCHANGED <<greetings, idle>>
               ELSE greetings' = UpTo(greetings + 1, 2) /\ idle' = 0
       ELSE UNCHANGED <<gate, greetingVars, idle>>
    /\ UNCHANGED <<state, stable, absent, grace_left, scrfd_on, seen>>

-----------------------------------------------------------------------------
\* Between frames

\* SubmitUserPrompt: only a line that runs at once counts as activity, a queued one
\* does not (SubmitPrompt returns false for it).
SubmitUserPrompt ==
    /\ phase = "update"
    /\ worker # "Failed" /\ gate
    /\ \/ /\ worker = "Ready" /\ ~busy
          /\ busy' = TRUE /\ idle' = 0 /\ UNCHANGED queued
       \/ /\ ~(worker = "Ready" /\ ~busy)
          /\ queued' = TRUE /\ UNCHANGED <<busy, idle>>
    /\ UNCHANGED <<phase, state, stable, absent, gate, grace_left, scrfd_on, worker,
                   greetingVars, seen>>

Tick ==
    /\ idle' = UpTo(idle + 1, IdleTimeout)
    /\ grace_left' = IF grace_left = 0 THEN 0 ELSE grace_left - 1
    /\ UNCHANGED <<phase, state, stable, absent, gate, scrfd_on, workerVars,
                   greetingVars, seen>>

\* The init thread of LlmWorker.
LoadEnds ==
    /\ worker = "Initializing"
    /\ worker' \in {"Loaded", "Broken"}
    /\ UNCHANGED <<phase, sessionVars, busy, queued, history>>

\* The inference thread of LlmWorker: the generation ends; after an error the waiting line is dropped with it.
RunEnds ==
    /\ busy
    /\ busy' = FALSE
    /\ queued' \in {queued, FALSE}
    /\ UNCHANGED <<phase, sessionVars, worker, history>>

Next ==
    \/ \E face, scrfd \in BOOLEAN : Update(face, scrfd)
    \/ PollDeferred
    \/ SubmitUserPrompt
    \/ Tick
    \/ LoadEnds \/ RunEnds

Spec == Init /\ [][Next]_vars

-----------------------------------------------------------------------------
\* A line gets in only while a dialogue is open on a loaded model, through every
\* path that opens a dialogue and every timeout that ends one.
GateOnlyInDialogue == gate => state \in Dialogue /\ worker = "Ready"

\* However often the face comes back from Grace, and whether Update or PollDeferred
\* is the one to notice that the model is ready, a session is greeted at most once.
OneGreetingPerSession == greetings <= 1

\* The gate and the greeting follow the session, on every path through it.
GateFollowsSession == GateOnlyInDialogue /\ OneGreetingPerSession
=============================================================================

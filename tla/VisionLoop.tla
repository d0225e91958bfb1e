------------------------------ MODULE VisionLoop ------------------------------
(***************************************************************************)
(* app/reference_vision_loop.cpp with platform/: the coordinator and the   *)
(* session it drives, in one loop.  A frame is finished by the inference   *)
(* thread, moves the slots (ModelCoordinator), and is then shown to the    *)
(* session (LlmGreeting) together with what the slots have become; the     *)
(* slots decide which faces later frames can show.                         *)
(***************************************************************************)
EXTENDS ModelCoordinator

CONSTANTS Trigger, FaceAbsent, GraceTimeout, IdleTimeout  \* as in LlmGreeting

VARIABLES
    phase, state, stable, gate, auto_sent, idle, grace_left, scrfd_on,
    worker, busy, queued,
    seen, greetings,
    face_absent,  \* LlmGreeting's face_absent_count_
    due           \* the frame in UpdateAfterFrame, when it has faces: {face}, or {}

Session == INSTANCE LlmGreeting WITH absent <- face_absent

ASSUME LoopAssumption == Session!Thresholds

session ==
    <<phase, state, stable, face_absent, gate, auto_sent, idle, grace_left, scrfd_on,
      worker, busy, queued, seen, greetings>>
loopVars == <<vars, session, due>>

LoopInit == Init /\ Session!Init /\ due = {}

\* OnInferenceTask enters UpdateAfterFrame with the next finished frame.
OnInferenceTask ==
    /\ phase = "update" /\ due = {}
    /\ UpdateScene
    /\ due' = {Head(posted).face}
    /\ UNCHANGED session

MoveSlot ==
    /\ \E s \in Slots : ApplySlot(s)
    /\ UNCHANGED <<session, due>>

\* Mutation: the session is shown a frame only while the face detector is on.
UpdateSessionOnDetector ==
    /\ main = "idle" /\ due # {}
    /\ IF "scrfd" \in enabled
       THEN \E face \in due : Session!Update(face, TRUE)
       ELSE UNCHANGED session
    /\ due' = {}
    /\ UNCHANGED vars

\* Mutation: the session is not told that the face detector is on.
UpdateSessionUntold ==
    /\ main = "idle" /\ due # {}
    /\ \E face \in due : Session!Update(face, FALSE)
    /\ due' = {}
    /\ UNCHANGED vars

\* The last critical section of UpdateAfterFrame.
UpdateSession ==
    /\ main = "idle" /\ due # {}
    /\ \E face \in due : Session!Update(face, "scrfd" \in enabled)
    /\ due' = {}
    /\ UNCHANGED vars

PollSession == Session!PollDeferred /\ UNCHANGED <<vars, due>>

\* ConsoleUi::Poll, between frames.
SubmitLine ==
    /\ main = "idle" /\ due = {}
    /\ Session!SubmitUserPrompt
    /\ UNCHANGED <<vars, due>>

\* The other threads.
InferStep == Infer /\ UNCHANGED <<session, due>>
TimePasses == Session!Tick /\ UNCHANGED <<vars, due>>
LoadEnds == Session!LoadEnds /\ UNCHANGED <<vars, due>>
RunEnds == Session!RunEnds /\ UNCHANGED <<vars, due>>

MainLoop == OnInferenceTask \/ MoveSlot \/ UpdateSession \/ PollSession

LoopNext == MainLoop \/ InferStep \/ SubmitLine \/ TimePasses \/ LoadEnds \/ RunEnds

\* Every thread is scheduled, frames keep coming, a load and a generation end.
LoopSpec ==
    /\ LoopInit /\ [][LoopNext]_loopVars
    /\ WF_loopVars(MainLoop) /\ WF_loopVars(InferStep) /\ WF_loopVars(TimePasses)
    /\ WF_loopVars(LoadEnds) /\ WF_loopVars(RunEnds)

-----------------------------------------------------------------------------
\* A line gets in only while a dialogue is open on a loaded model, and one session is greeted
\* at most once, while the slots move under the session (LlmGreeting).
GateFollowsSession == Session!GateFollowsSession

\* A room that stays empty ends the dialogue and releases the face detector, in
\* whatever order the slot change, the grace timeout and late frames come; somebody
\* typing does not keep it open.
EmptyRoomEndsDialogue ==
    <>[]~person => <>[](state = "Locked" /\ ~gate /\ "scrfd" \notin enabled)

\* A face that stays opens the gate: frames with faces keep the face detector on, and
\* with it the session alive.
StayingFaceOpensGate == <>[]seen => (<>[](worker = "Failed") \/ []<>gate)
=============================================================================

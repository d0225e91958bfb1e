--------------------------- MODULE ModelCoordinator ---------------------------
(***************************************************************************)
(* platform/model_coordinator.{h,cpp}: which vision models run.  The main  *)
(* thread counts the persons that the finished frames show, decides on a   *)
(* scene and moves models in and out of their slots; meanwhile the         *)
(* inference thread of the pipeline snapshots the slots for its next frame *)
(* and runs on whatever it got.                                            *)
(*                                                                         *)
(* A step is one critical section of mutex_.  Counts saturate at their     *)
(* threshold: the code only asks whether they have reached it.             *)
(***************************************************************************)
EXTENDS Naturals, Sequences

CONSTANTS PresentThreshold,  \* present_threshold_
          AbsentThreshold,   \* absent_threshold_
          Dwell,             \* scene_dwell_frames_
          YoloAlwaysOn,      \* yolo_always_on_
          PostCap            \* capacity of the pipeline's post_queue_

ASSUME CoordinatorAssumption ==
    /\ PresentThreshold \in Nat \ {0} /\ AbsentThreshold \in Nat \ {0}
    /\ Dwell \in Nat \ {0} /\ PostCap \in Nat \ {0}
    /\ YoloAlwaysOn \in BOOLEAN

VARIABLES
    enabled,   \* enabled_slots_
    runtimes,  \* the keys of slot_runtimes_
    warm,      \* the keys of warm_runtimes_
    present,   \* person_present_count_
    absent,    \* person_absent_count_
    pending,   \* pending_scene_
    dwell,     \* scene_dwell_count_
    applied,   \* applied_scene_
    main,      \* where the main thread is in UpdateAfterFrame
    plan,      \* the slots its plan wants
    infer,     \* where the inference thread is in RunEnabledSlots
    captured,  \* the slots it will run
    posted,    \* post_queue_: what the finished frames show
    loads,     \* history: per slot, how many models were loaded
    person,    \* history: the last frame showed somebody
    held       \* history: frames since the applied scene changed

slotVars == <<enabled, runtimes, warm, loads>>
sceneVars == <<present, absent, pending, dwell, applied, person, held>>
inferVars == <<infer, captured>>
vars == <<slotVars, sceneVars, main, plan, inferVars, posted>>

Slots == {"yolo", "scrfd"}
Scenes == {"idle", "person"}

\* yolo reports persons and scrfd faces, and only a slot that ran reports anything.
Signals(ran) ==
    {s \in [person : BOOLEAN, face : BOOLEAN] :
        (s.person => "yolo" \in ran) /\ (s.face => "scrfd" \in ran)}

TypeOK ==
    /\ {enabled, runtimes, warm, plan, captured} \subseteq SUBSET Slots
    /\ present \in 0 .. PresentThreshold
    /\ absent \in 0 .. AbsentThreshold
    /\ dwell \in 0 .. Dwell
    /\ pending \in Scenes /\ applied \in Scenes
    /\ main \in {"idle", "yolo", "scrfd"}
    /\ infer \in {"idle", "check", "push"}
    /\ posted \in Seq(Signals(Slots)) /\ Len(posted) <= PostCap
    /\ loads \in [Slots -> Nat]
    /\ person \in BOOLEAN
    /\ held \in 0 .. Dwell

\* main() enables yolo or exits, and warms scrfd up, which may fail.
Init ==
    /\ enabled = {"yolo"} /\ runtimes = {"yolo"}
    /\ warm \in {{}, {"scrfd"}}
    /\ loads = [s \in Slots |-> IF s \in runtimes \cup warm THEN 1 ELSE 0]
    /\ present = 0 /\ absent = 0
    /\ pending = "idle" /\ dwell = 0 /\ applied = "idle"
    /\ main = "idle" /\ plan = {}
    /\ infer = "idle" /\ captured = {}
    /\ posted = <<>>
    /\ person = FALSE /\ held = 0

UpTo(n, limit) == IF n < limit THEN n ELSE limit

-----------------------------------------------------------------------------
\* Inference thread: RunEnabledSlots

\* GetEnabledSlotAdapters; a frame that finds no slot is dropped.
Capture ==
    /\ infer = "idle"
    /\ captured' = enabled \cap runtimes
    /\ infer' = IF captured' = {} THEN "idle" ELSE "check"
    /\ UNCHANGED <<slotVars, sceneVars, main, plan, posted>>

\* ShouldRunSlotInference: yolo may sit this frame out while a reply is spoken.  The
\* slots are looked at again, and may have changed since the snapshot.
Throttle ==
    /\ infer = "check"
    /\ \/ captured' = captured
       \/ /\ applied = "person" /\ "scrfd" \in enabled
          /\ captured' = captured \ {"yolo"}
    /\ infer' = IF captured' = {} THEN "idle" ELSE "push"
    /\ UNCHANGED <<slotVars, sceneVars, main, plan, posted>>

\* The models run; when the queue stays full the frame is dropped.
Post ==
    /\ infer = "push"
    /\ infer' = "idle" /\ captured' = {}
    /\ \E s \in Signals(captured) :
           posted' = IF Len(posted) < PostCap THEN Append(posted, s) ELSE posted
    /\ UNCHANGED <<slotVars, sceneVars, main, plan>>

-----------------------------------------------------------------------------
\* Main thread: UpdateAfterFrame

\* The count of persons survives short gaps.
Count(somebody) ==
    IF somebody
    THEN present' = UpTo(present + 1, PresentThreshold) /\ absent' = 0
    ELSE /\ absent' = UpTo(absent + 1, AbsentThreshold)
         /\ present' = IF absent' >= AbsentThreshold THEN 0 ELSE present

\* Mutation: the dwell count goes on when the computed scene changes.
SettleWithoutReset(computed) ==
    /\ pending' = computed
    /\ dwell' = UpTo(dwell + 1, Dwell)
    /\ applied' = IF dwell' >= Dwell THEN computed ELSE applied

\* Mutation: the dwell count restarts whenever the applied scene differs.
SettleAgainstApplied(computed) ==
    /\ pending' = computed
    /\ dwell' = IF computed # applied THEN 0 ELSE UpTo(dwell + 1, Dwell)
    /\ applied' = IF dwell' >= Dwell THEN computed ELSE applied

\* The computed scene is applied once it has stayed the same for Dwell frames.
Settle(computed) ==
    /\ pending' = computed
    /\ dwell' = IF computed # pending THEN 0 ELSE UpTo(dwell + 1, Dwell)
    /\ applied' = IF dwell' >= Dwell THEN computed ELSE applied

\* The slots a scene wants.
BuildSlotPlan(scene) ==
    IF scene = "person" THEN Slots ELSE IF YoloAlwaysOn THEN {"yolo"} ELSE {}

\* The first critical section: count, settle, plan.
UpdateScene ==
    /\ main = "idle"
    /\ posted # <<>>
    /\ LET s == Head(posted)
           somebody == s.person \/ s.face
       IN  /\ Count(somebody)
           /\ person' = somebody
    /\ Settle(IF present' >= PresentThreshold THEN "person" ELSE "idle")
    /\ held' = IF applied' # applied THEN 0 ELSE UpTo(held + 1, Dwell)
    /\ plan' = BuildSlotPlan(applied')
    /\ posted' = Tail(posted)
    /\ main' = "yolo"
    /\ UNCHANGED <<slotVars, inferVars>>

\* EnableSlot: the warm model if there is one, else a new one, whose Init may fail.
EnableSlot(s) ==
    IF s \in enabled \cap runtimes
    THEN UNCHANGED slotVars
    ELSE \/ /\ s \in warm
            /\ warm' = warm \ {s} /\ UNCHANGED loads
            /\ runtimes' = runtimes \cup {s} /\ enabled' = enabled \cup {s}
         \/ /\ s \notin warm
            /\ loads' = [loads EXCEPT ![s] = @ + 1] /\ UNCHANGED warm
            /\ runtimes' = runtimes \cup {s} /\ enabled' = enabled \cup {s}
         \/ s \notin warm /\ UNCHANGED slotVars

\* Mutation: the model is not kept warm.
DisableSlotForgets(s) ==
    /\ enabled' = enabled \ {s} /\ runtimes' = runtimes \ {s}
    /\ UNCHANGED <<warm, loads>>

\* DisableSlot: the model moves to the warm pool.
DisableSlot(s) ==
    /\ warm' = warm \cup (runtimes \cap enabled \cap {s})
    /\ runtimes' = runtimes \ (enabled \cap {s})
    /\ enabled' = enabled \ {s}
    /\ UNCHANGED loads

\* ApplySlotPlan: yolo, then scrfd, each under a lock of its own.  The session's
\* Update and PollDeferred end the frame (module LlmGreeting).
ApplySlot(s) ==
    /\ main = s
    /\ IF s \in plan THEN EnableSlot(s) ELSE DisableSlot(s)
    /\ main' = IF s = "yolo" THEN "scrfd" ELSE "idle"
    /\ UNCHANGED <<sceneVars, plan, inferVars, posted>>

Infer == Capture \/ Throttle \/ Post
UpdateAfterFrame == UpdateScene \/ \E s \in Slots : ApplySlot(s)

Next == Infer \/ UpdateAfterFrame

Spec == Init /\ [][Next]_vars

-----------------------------------------------------------------------------
\* A slot is enabled exactly when it holds a model, a loaded model is in its slot or
\* in the warm pool and nowhere else, and no slot ever loads a second one, however
\* often the scene changes and whichever loads fail.
OneModelPerSlot ==
    /\ enabled = runtimes
    /\ runtimes \cap warm = {}
    /\ \A s \in Slots : loads[s] = IF s \in runtimes \cup warm THEN 1 ELSE 0

\* tts-melotts.md: no "mode:none".  No snapshot of the inference thread, taken
\* between any two steps of a slot change, finds the camera without yolo.
NeverBlind == YoloAlwaysOn => "yolo" \in enabled

\* Both, whatever the inference thread looks at and whichever loads fail.
SlotsInOrder == OneModelPerSlot /\ NeverBlind

\* Between frames the face detector is on only in an applied person scene: the two
\* critical sections of a frame agree on the scene.
DetectorFollowsScene ==
    main = "idle" /\ "scrfd" \in enabled => applied = "person" /\ "yolo" \in enabled

\* A scene that was applied stays for Dwell frames at least, whatever the detections:
\* models do not flap between slot and pool.
AppliedSceneHolds == [][applied' # applied => held >= Dwell]_vars

\* Persons who are there to stay bring the person scene, and stay in it.
PersonBringsScene == <>[]person => <>[](applied = "person")
=============================================================================

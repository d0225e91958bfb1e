----------------------- MODULE ModelCoordinator_proofs -----------------------
(* Proofs about ModelCoordinator, about LlmGreeting (as the Session of       *)
(* VisionLoop), and about VisionLoop, which runs them in one loop, for every *)
(* threshold, timeout and queue capacity.                                    *)
EXTENDS VisionLoop, TLAPS

\* Where the models are: the slots proper, and what may be loaded.
SlotInv ==
    /\ enabled \subseteq Slots /\ runtimes \subseteq Slots /\ warm \subseteq Slots
    /\ loads \in [Slots -> Nat]
    /\ OneModelPerSlot
    /\ "yolo" \in runtimes \cup warm

\* The plan of the frame is the one of the applied scene, and yolo is settled before
\* scrfd.
PlanInv ==
    /\ main \in {"idle", "yolo", "scrfd"}
    /\ main # "idle" => plan = BuildSlotPlan(applied)
    /\ main = "scrfd" /\ "yolo" \in plan => "yolo" \in enabled
    /\ NeverBlind
    /\ DetectorFollowsScene

\* Moving one model keeps every model in one place; an enabled slot is one that was
\* enabled before or the slot that moved.
LEMMA EnableKeepsSlots ==
    ASSUME SlotInv, NEW s \in Slots, EnableSlot(s)
    PROVE  /\ SlotInv'
           /\ enabled \subseteq enabled' /\ enabled' \subseteq enabled \cup {s}
           /\ s = "yolo" => s \in enabled'
<1>1. CASE s \in enabled \cap runtimes
  BY <1>1 DEF SlotInv, EnableSlot, slotVars, OneModelPerSlot
<1>2. CASE s \notin enabled \cap runtimes
  <2>1. CASE s \in warm /\ warm' = warm \ {s} /\ loads' = loads
             /\ runtimes' = runtimes \cup {s} /\ enabled' = enabled \cup {s}
    BY <2>1 DEF SlotInv, OneModelPerSlot
  <2>2. CASE s \notin warm /\ loads' = [loads EXCEPT ![s] = @ + 1] /\ warm' = warm
             /\ runtimes' = runtimes \cup {s} /\ enabled' = enabled \cup {s}
    <3>1. s \notin runtimes
      BY <1>2 DEF SlotInv, OneModelPerSlot
    <3>2. loads[s] = 0
      BY <3>1, <2>2 DEF SlotInv, OneModelPerSlot
    <3>3. \A t \in Slots : loads'[t] = IF t = s THEN 1 ELSE loads[t]
      BY <2>2, <3>2 DEF SlotInv
    <3>4. loads' \in [Slots -> Nat]
      BY <2>2 DEF SlotInv
    <3> QED
      BY <2>2, <3>1, <3>3, <3>4 DEF SlotInv, OneModelPerSlot
  <2>3. CASE s \notin warm /\ UNCHANGED slotVars
    BY <1>2, <2>3 DEF SlotInv, OneModelPerSlot, slotVars
  <2> QED
    BY <1>2, <2>1, <2>2, <2>3 DEF EnableSlot
<1> QED
  BY <1>1, <1>2

\* The same for a model that is put away.
LEMMA DisableKeepsSlots ==
    ASSUME SlotInv, NEW s \in Slots, DisableSlot(s)
    PROVE  SlotInv' /\ enabled' = enabled \ {s}
BY DEF SlotInv, DisableSlot, OneModelPerSlot

\* Every step keeps the models in their places.
LEMMA SlotInvNext == SlotInv /\ [Next]_vars => SlotInv'
<1> SUFFICES ASSUME SlotInv, [Next]_vars PROVE SlotInv'
  OBVIOUS
<1>1. ASSUME NEW s \in Slots, ApplySlot(s) PROVE SlotInv'
  BY <1>1, EnableKeepsSlots, DisableKeepsSlots DEF ApplySlot
<1>2. CASE UNCHANGED slotVars
  BY <1>2 DEF SlotInv, slotVars, OneModelPerSlot
<1> QED
  BY <1>1, <1>2 DEF Next, Infer, Capture, Throttle, Post, UpdateAfterFrame, UpdateScene, vars

\* Every step keeps the slots in line with the applied scene.
LEMMA PlanInvNext == SlotInv /\ PlanInv /\ [Next]_vars => PlanInv'
<1> SUFFICES ASSUME SlotInv, PlanInv, [Next]_vars PROVE PlanInv'
  OBVIOUS
<1>1. CASE UpdateScene
  BY <1>1 DEF UpdateScene, PlanInv, NeverBlind, DetectorFollowsScene, slotVars
<1>2. ASSUME NEW s \in Slots, ApplySlot(s) PROVE PlanInv'
  <2>1. /\ main = s /\ plan = BuildSlotPlan(applied)
        /\ plan' = plan /\ applied' = applied
        /\ main' = IF s = "yolo" THEN "scrfd" ELSE "idle"
    BY <1>2 DEF ApplySlot, PlanInv, sceneVars, Slots
  <2>2. YoloAlwaysOn => "yolo" \in plan
    BY <2>1 DEF BuildSlotPlan, Slots
  <2>3. CASE s = "yolo"
    <3>1. CASE "yolo" \in plan
      BY <1>2, <2>1, <2>2, <2>3, <3>1, EnableKeepsSlots
         DEF ApplySlot, PlanInv, NeverBlind, DetectorFollowsScene
    <3>2. CASE "yolo" \notin plan
      BY <1>2, <2>1, <2>2, <2>3, <3>2
         DEF ApplySlot, PlanInv, NeverBlind, DetectorFollowsScene
    <3> QED
      BY <3>1, <3>2
  <2>4. CASE s = "scrfd"
    <3>1. CASE "scrfd" \in plan
      <4>1. applied = "person" /\ plan = Slots
        BY <2>1, <3>1 DEF BuildSlotPlan
      <4>2. "yolo" \in enabled'
        BY <1>2, <2>1, <2>4, <3>1, <4>1, EnableKeepsSlots DEF ApplySlot, PlanInv, Slots
      <4> QED
        BY <2>1, <2>4, <4>1, <4>2 DEF PlanInv, NeverBlind, DetectorFollowsScene
    <3>2. CASE "scrfd" \notin plan
      <4>1. enabled' = enabled \ {"scrfd"}
        BY <1>2, <2>4, <3>2, DisableKeepsSlots DEF ApplySlot
      <4> QED
        BY <2>1, <2>4, <4>1 DEF PlanInv, NeverBlind, DetectorFollowsScene
    <3> QED
      BY <3>1, <3>2
  <2> QED
    BY <2>3, <2>4 DEF Slots
<1>3. CASE UNCHANGED <<slotVars, sceneVars, main, plan>>
  BY <1>3 DEF PlanInv, NeverBlind, DetectorFollowsScene, slotVars, sceneVars, BuildSlotPlan
<1> QED
  BY <1>1, <1>2, <1>3 DEF Next, Infer, Capture, Throttle, Post, UpdateAfterFrame, vars

\* What main() sets up before the loop.
LEMMA InitSlots == Init => SlotInv /\ PlanInv
BY DEF Init, SlotInv, PlanInv, OneModelPerSlot, NeverBlind, DetectorFollowsScene, Slots

-----------------------------------------------------------------------------
\* The types that SlotInv and PlanInv do not speak of.

CountsOK ==
    /\ present \in 0 .. PresentThreshold /\ absent \in 0 .. AbsentThreshold
    /\ dwell \in 0 .. Dwell /\ held \in 0 .. Dwell
    /\ pending \in Scenes /\ applied \in Scenes
    /\ plan \subseteq Slots

QueueOK ==
    /\ infer \in {"idle", "check", "push"} /\ captured \subseteq Slots
    /\ posted \in Seq(Signals(Slots)) /\ Len(posted) <= PostCap
    /\ person \in BOOLEAN

\* A count that saturates stays within its limit.
LEMMA UpToBounded ==
    ASSUME NEW limit \in Nat, NEW n \in 0 .. limit
    PROVE  UpTo(n + 1, limit) \in 0 .. limit
BY DEF UpTo

\* Every step keeps the counts and the scenes.
LEMMA StepCounts == CountsOK /\ [Next]_vars => CountsOK'
<1> SUFFICES ASSUME CountsOK, [Next]_vars PROVE CountsOK'
  OBVIOUS
<1>1. CASE UpdateScene
  <2>1. /\ UpTo(present + 1, PresentThreshold) \in 0 .. PresentThreshold
        /\ UpTo(absent + 1, AbsentThreshold) \in 0 .. AbsentThreshold
        /\ UpTo(dwell + 1, Dwell) \in 0 .. Dwell /\ UpTo(held + 1, Dwell) \in 0 .. Dwell
    BY UpToBounded, CoordinatorAssumption DEF CountsOK
  <2>2. 0 \in 0 .. PresentThreshold /\ 0 \in 0 .. AbsentThreshold /\ 0 \in 0 .. Dwell
    BY CoordinatorAssumption
  <2>3. present' \in 0 .. PresentThreshold /\ absent' \in 0 .. AbsentThreshold
    BY <1>1, <2>1, <2>2 DEF UpdateScene, Count, CountsOK
  <2>4. PICK computed \in Scenes : Settle(computed)
    BY <1>1 DEF UpdateScene, Scenes
  <2>5. dwell' \in 0 .. Dwell /\ pending' \in Scenes /\ applied' \in Scenes
    BY <2>1, <2>2, <2>4 DEF Settle, CountsOK
  <2>6. held' \in 0 .. Dwell
    BY <1>1, <2>1, <2>2 DEF UpdateScene
  <2>7. plan' \subseteq Slots
    BY <1>1 DEF UpdateScene, BuildSlotPlan, Slots
  <2> QED
    BY <2>3, <2>5, <2>6, <2>7 DEF CountsOK
<1>2. CASE UNCHANGED <<sceneVars, plan>>
  BY <1>2 DEF CountsOK, sceneVars
<1> QED
  BY <1>1, <1>2 DEF Next, Infer, Capture, Throttle, Post, UpdateAfterFrame, ApplySlot, vars

\* Every step keeps the snapshot and the queue, which never holds more than it may.
LEMMA StepQueue == SlotInv /\ QueueOK /\ [Next]_vars => QueueOK'
<1> SUFFICES ASSUME SlotInv, QueueOK, [Next]_vars PROVE QueueOK'
  OBVIOUS
<1>1. CASE Capture \/ Throttle
  BY <1>1 DEF Capture, Throttle, sceneVars, QueueOK, SlotInv
<1>2. CASE Post
  <2>1. PICK s \in Signals(captured) :
          posted' = IF Len(posted) < PostCap THEN Append(posted, s) ELSE posted
    BY <1>2 DEF Post
  <2>2. s \in Signals(Slots)
    BY DEF QueueOK, Signals
  <2>3. posted' \in Seq(Signals(Slots)) /\ Len(posted') <= PostCap
    BY <2>1, <2>2, CoordinatorAssumption DEF QueueOK
  <2> QED
    BY <1>2, <2>3 DEF Post, sceneVars, QueueOK
<1>3. CASE UpdateScene
  <2>1. posted # <<>> /\ posted' = Tail(posted)
    BY <1>3 DEF UpdateScene
  <2>2. posted' \in Seq(Signals(Slots)) /\ Len(posted') <= PostCap
    BY <2>1, CoordinatorAssumption DEF QueueOK
  <2>3. Head(posted) \in Signals(Slots)
    BY <2>1 DEF QueueOK
  <2>4. person' \in BOOLEAN
    BY <1>3, <2>3, Zenon DEF UpdateScene
  <2> QED
    BY <1>3, <2>2, <2>4 DEF UpdateScene, inferVars, QueueOK
<1>4. CASE UNCHANGED <<inferVars, posted, person>>
  BY <1>4 DEF QueueOK, inferVars
<1> QED
  BY <1>1, <1>2, <1>3, <1>4 DEF Next, Infer, UpdateAfterFrame, ApplySlot, sceneVars, vars

-----------------------------------------------------------------------------
\* ModelCoordinator: every count stays within its threshold, and the queue between the
\* threads within its capacity.
THEOREM CoordinatorTypes == Spec => []TypeOK
<1>1. Init => CountsOK /\ QueueOK
  <2> SUFFICES ASSUME Init PROVE CountsOK /\ QueueOK
    OBVIOUS
  <2>1. 0 \in 0 .. PresentThreshold /\ 0 \in 0 .. AbsentThreshold /\ 0 \in 0 .. Dwell
    BY CoordinatorAssumption
  <2>2. CountsOK
    BY <2>1 DEF Init, CountsOK, Scenes, Slots
  <2>3. posted \in Seq(Signals(Slots)) /\ Len(posted) <= PostCap
    BY CoordinatorAssumption DEF Init
  <2>4. person \in BOOLEAN
    BY Zenon DEF Init
  <2> QED
    BY <2>2, <2>3, <2>4 DEF Init, QueueOK
<1>2. SlotInv /\ PlanInv /\ CountsOK /\ QueueOK => TypeOK
  BY DEF SlotInv, PlanInv, CountsOK, QueueOK, TypeOK
<1> QED
  BY <1>1, <1>2, InitSlots, SlotInvNext, PlanInvNext, StepCounts, StepQueue, PTL DEF Spec

\* EnableSlot, DisableSlot and UpdateAfterFrame: however the scenes alternate and whichever
\* loads fail, no model is loaded twice, lost, or in a slot and in the warm pool at once, and
\* with yolo_always_on no snapshot of the inference thread is empty.
THEOREM SlotsAlwaysInOrder == Spec => []SlotsInOrder
<1>1. SlotInv /\ PlanInv => SlotsInOrder
  BY DEF SlotInv, PlanInv, SlotsInOrder
<1> QED
  BY <1>1, InitSlots, SlotInvNext, PlanInvNext, PTL DEF Spec

\* UpdateAfterFrame: between frames the face detector runs in a person scene only, and
\* never alone.
THEOREM DetectorAlwaysFollowsScene == Spec => []DetectorFollowsScene
<1>1. PlanInv => DetectorFollowsScene
  BY DEF PlanInv
<1> QED
  BY <1>1, InitSlots, SlotInvNext, PlanInvNext, PTL DEF Spec
-----------------------------------------------------------------------------
\* A scene that waits has waited less long than the applied one has been applied.
DwellInv == pending # applied => dwell < held /\ dwell < Dwell

\* UpdateScene: the scene changes only when the pending one has waited Dwell frames, and by
\* then the applied one has been applied for as many.
LEMMA DwellInvNext == CountsOK /\ DwellInv /\ [Next]_vars => DwellInv' /\ (applied' # applied => held >= Dwell)
<1> SUFFICES ASSUME CountsOK, DwellInv, [Next]_vars
             PROVE  DwellInv' /\ (applied' # applied => held >= Dwell)
  OBVIOUS
<1>1. CASE UpdateScene
  <2>1. PICK computed \in Scenes : Settle(computed)
    BY <1>1 DEF UpdateScene, Scenes
  <2>2. held' = IF applied' # applied THEN 0 ELSE UpTo(held + 1, Dwell)
    BY <1>1 DEF UpdateScene
  <2>3. dwell \in Nat /\ held \in Nat /\ held <= Dwell /\ Dwell \in Nat \ {0}
    BY CoordinatorAssumption DEF CountsOK
  <2>4. CASE computed # pending
    BY <2>1, <2>2, <2>3, <2>4 DEF Settle, DwellInv, UpTo
  <2>5. CASE computed = pending
    BY <2>1, <2>2, <2>3, <2>5 DEF Settle, DwellInv, UpTo
  <2> QED
    BY <2>4, <2>5
<1>2. CASE UNCHANGED sceneVars
  BY <1>2 DEF sceneVars, DwellInv
<1> QED
  BY <1>1, <1>2 DEF Next, Infer, UpdateAfterFrame, Capture, Throttle, Post, ApplySlot, vars

\* UpdateScene: a scene that has been applied stays so for Dwell frames, whatever the detections.
THEOREM AppliedSceneAlwaysHolds == Spec => AppliedSceneHolds
<1>1. Init => DwellInv
  BY DEF Init, DwellInv
<1>2. TypeOK => CountsOK
  BY DEF TypeOK, CountsOK
<1> QED
  BY <1>1, <1>2, CoordinatorTypes, DwellInvNext, PTL DEF Spec, AppliedSceneHolds

-----------------------------------------------------------------------------
\* The session alone: LlmGreeting, whose variables are those of the loop.

\* A closed session has no gate and no greeting; an open one has a model that has not
\* failed, a gate only on a model that is ready, and the greeting it has marked.
SessionInv ==
    /\ state \in {"Locked", "Arming", "Active", "Grace"}
    /\ worker \in Session!WorkerState
    /\ gate \in BOOLEAN /\ auto_sent \in BOOLEAN /\ busy \in BOOLEAN
    /\ Session!GateOnlyInDialogue
    /\ greetings \in {0, 1}
    /\ state \notin Session!Dialogue => greetings = 0
    /\ greetings = 1 => auto_sent = TRUE

\* A greeting is marked where it is counted.
LEMMA GreetCounts ==
    ASSUME greetings \in {0, 1}, NEW sent \in BOOLEAN, Session!Greet(sent),
           greetings = 1 => sent = TRUE
    PROVE  greetings' \in {0, 1} /\ auto_sent' \in BOOLEAN /\ (greetings' = 1 => auto_sent' = TRUE)
<1>1. Session!UpTo(0 + 1, 2) = 1
  BY DEF Session!UpTo
<1>2. CASE worker = "Ready" /\ ~sent /\ ~busy
  <2>1. greetings = 0
    BY <1>2
  <2> QED
    BY <1>1, <1>2, <2>1 DEF Session!Greet
<1>3. CASE ~(worker = "Ready" /\ ~sent /\ ~busy)
  BY <1>3 DEF Session!Greet
<1> QED
  BY <1>2, <1>3

\* The worker never leaves Ready, and Update does not run it.
LEMMA UpdateKeepsWorker ==
    ASSUME SessionInv, NEW face \in BOOLEAN, NEW scrfd \in BOOLEAN, Session!Update(face, scrfd)
    PROVE  /\ worker' \in Session!WorkerState /\ busy' \in BOOLEAN
           /\ worker = "Ready" => worker' = "Ready"
BY DEF SessionInv, Session!Update, Session!WorkerState

\* Locking leaves nothing open.
LEMMA LockCloses ==
    ASSUME Session!Lock, worker' \in Session!WorkerState, busy' \in BOOLEAN
    PROVE  SessionInv'
<1>1. gate' = FALSE /\ auto_sent' = FALSE /\ state' = "Locked" /\ greetings' = 0
  BY DEF Session!Lock
<1>2. Session!GateOnlyInDialogue' /\ gate' \in BOOLEAN /\ auto_sent' \in BOOLEAN
  BY <1>1, Zenon DEF Session!GateOnlyInDialogue
<1>3. greetings' \in {0, 1} /\ (greetings' = 1 => auto_sent' = TRUE)
  <2>1. greetings' = 0
    BY <1>1
  <2> QED
    BY <2>1
<1>4. state' \in {"Locked", "Arming", "Active", "Grace"} /\ greetings' = 0
  BY <1>1
<1> QED
  BY <1>2, <1>3, <1>4, Zenon DEF SessionInv

\* One frame of a session that is not idle.
LEMMA FaceStepKeeps ==
    ASSUME SessionInv, NEW face \in BOOLEAN, NEW scrfd \in BOOLEAN, NEW seenFor, NEW goneFor,
           Session!FaceStep(face, scrfd, seenFor, goneFor),
           worker' \in Session!WorkerState, busy' \in BOOLEAN, worker = "Ready" => worker' = "Ready"
    PROVE  SessionInv'
<1>1. ASSUME NEW sent \in BOOLEAN, Session!OpenDialogue(sent), greetings = 1 => sent = TRUE
      PROVE  SessionInv'
  <2>1. gate' = (worker = "Ready") /\ state' = "Active" /\ Session!Greet(sent)
    BY <1>1 DEF Session!OpenDialogue
  <2>2. greetings' \in {0, 1} /\ auto_sent' \in BOOLEAN /\ (greetings' = 1 => auto_sent' = TRUE)
    BY <1>1, <2>1, GreetCounts DEF SessionInv
  <2>3. Session!GateOnlyInDialogue' /\ gate' \in BOOLEAN
    BY <2>1, Zenon DEF Session!GateOnlyInDialogue, Session!Dialogue
  <2> QED
    BY <2>1, <2>2, <2>3 DEF SessionInv, Session!Dialogue
<1>2. CASE Session!ArmingFrame(face, scrfd, seenFor, goneFor)
  <2>1. greetings = 0 /\ ~gate
    BY <1>2 DEF Session!ArmingFrame, SessionInv, Session!GateOnlyInDialogue, Session!Dialogue
  <2>2. CASE Session!OpenDialogue(FALSE)
    <3>1. greetings # 1
      BY <2>1
    <3> QED
      BY <1>1, <2>2, <3>1, Zenon
  <2>3. CASE state' \in {"Locked", "Arming"} /\ Session!Silent
    <3>1. gate' = gate /\ auto_sent' = auto_sent /\ greetings' = greetings
      BY <2>3 DEF Session!Silent
    <3>2. Session!GateOnlyInDialogue' /\ gate' \in BOOLEAN
      BY <2>1, <3>1, Zenon DEF Session!GateOnlyInDialogue, SessionInv
    <3> QED
      BY <2>1, <2>3, <3>1, <3>2 DEF SessionInv
  <2> QED
    BY <1>2, <2>2, <2>3 DEF Session!ArmingFrame
<1>3. CASE Session!ActiveFrame(seenFor, goneFor)
  BY <1>3 DEF Session!ActiveFrame, Session!Silent, SessionInv, Session!GateOnlyInDialogue,
              Session!Dialogue
<1>4. CASE Session!GraceFrame(seenFor, goneFor)
  <2>1. CASE Session!OpenDialogue(auto_sent)
    BY <1>1, <2>1 DEF SessionInv
  <2>2. CASE Session!Lock
    BY <2>2, LockCloses
  <2>3. CASE state = "Grace" /\ Session!Silent /\ UNCHANGED state
    BY <2>3 DEF Session!Silent, SessionInv, Session!GateOnlyInDialogue, Session!Dialogue
  <2> QED
    BY <1>4, <2>1, <2>2, <2>3 DEF Session!GraceFrame
<1> QED
  BY <1>2, <1>3, <1>4 DEF Session!FaceStep

\* PollDeferred opens the gate of an open session only, and greets only a session that
\* was not greeted.
LEMMA PollKeeps ==
    ASSUME SessionInv, Session!PollDeferred
    PROVE  SessionInv'
<1>1. worker' \in Session!WorkerState /\ busy' \in BOOLEAN /\ (worker = "Ready" => worker' = "Ready")
  BY DEF Session!PollDeferred, Session!PolledWorker, Session!RunQueued, SessionInv,
         Session!WorkerState
<1>2. CASE worker' = "Ready" /\ state \in Session!Dialogue /\ stable >= Trigger
  <2>1. gate' = TRUE /\ state' = state /\ auto_sent' = (auto_sent \/ ~busy')
    BY <1>2 DEF Session!PollDeferred
  <2>2. CASE auto_sent' = auto_sent
    BY <1>1, <1>2, <2>1, <2>2 DEF Session!PollDeferred, SessionInv, Session!GateOnlyInDialogue
  <2>3. CASE auto_sent' # auto_sent
    <3>1. greetings' = Session!UpTo(greetings + 1, 2)
      BY <1>2, <2>3 DEF Session!PollDeferred
    <3>2. ~auto_sent /\ auto_sent'
      BY <2>1, <2>3, <1>1, Zenon DEF SessionInv
    <3>3. greetings = 0
      BY <3>2 DEF SessionInv
    <3>4. greetings' = 1
      BY <3>1, <3>3 DEF Session!UpTo
    <3> QED
      BY <1>1, <1>2, <2>1, <3>2, <3>4 DEF SessionInv, Session!GateOnlyInDialogue
  <2> QED
    BY <2>2, <2>3
<1>3. CASE ~(worker' = "Ready" /\ state \in Session!Dialogue /\ stable >= Trigger)
  BY <1>1, <1>3 DEF Session!PollDeferred, Session!greetingVars, SessionInv,
                    Session!GateOnlyInDialogue
<1> QED
  BY <1>2, <1>3

\* Every step keeps the invariant.
LEMMA SessionInvNext == SessionInv /\ [Session!Next]_Session!vars => SessionInv'
<1> SUFFICES ASSUME SessionInv, [Session!Next]_Session!vars PROVE SessionInv'
  OBVIOUS
<1>1. ASSUME NEW face \in BOOLEAN, NEW scrfd \in BOOLEAN, Session!Update(face, scrfd)
      PROVE  SessionInv'
  BY <1>1, UpdateKeepsWorker, LockCloses, FaceStepKeeps DEF Session!Update
<1>2. CASE Session!PollDeferred
  BY <1>2, PollKeeps
<1>3. CASE Session!SubmitUserPrompt
  BY <1>3 DEF Session!SubmitUserPrompt, Session!greetingVars, SessionInv, Session!GateOnlyInDialogue
<1>4. CASE Session!Tick
  BY <1>4 DEF Session!Tick, Session!workerVars, Session!greetingVars, SessionInv,
              Session!GateOnlyInDialogue
<1>5. CASE Session!LoadEnds
  BY <1>5 DEF Session!LoadEnds, Session!sessionVars, Session!history, SessionInv,
              Session!GateOnlyInDialogue, Session!WorkerState
<1>7. CASE Session!RunEnds
  BY <1>7 DEF Session!RunEnds, Session!sessionVars, Session!history, SessionInv,
              Session!GateOnlyInDialogue
<1>8. CASE UNCHANGED Session!vars
  BY <1>8 DEF Session!vars, Session!sessionVars, Session!workerVars, Session!history, SessionInv,
              Session!GateOnlyInDialogue
<1> QED
  BY <1>1, <1>2, <1>3, <1>4, <1>5, <1>7, <1>8 DEF Session!Next

\* A session begins locked.
LEMMA InitSession == Session!Init => SessionInv
<1> SUFFICES ASSUME Session!Init PROVE SessionInv
  OBVIOUS
<1>1. Session!GateOnlyInDialogue /\ gate \in BOOLEAN /\ auto_sent \in BOOLEAN /\ busy \in BOOLEAN
  BY Zenon DEF Session!Init, Session!GateOnlyInDialogue
<1>2. greetings \in {0, 1} /\ (greetings = 1 => auto_sent = TRUE)
  <2>1. greetings = 0
    BY DEF Session!Init
  <2> QED
    BY <2>1
<1>3. /\ worker \in Session!WorkerState
      /\ state \in {"Locked", "Arming", "Active", "Grace"} /\ greetings = 0
  BY DEF Session!Init, Session!WorkerState
<1> QED
  BY <1>1, <1>2, <1>3, Zenon DEF SessionInv

-----------------------------------------------------------------------------
\* The types that SessionInv does not speak of.

SessionCounts ==
    /\ phase \in {"update", "poll"}
    /\ stable \in 0 .. Trigger /\ face_absent \in 0 .. FaceAbsent
    /\ idle \in 0 .. IdleTimeout /\ grace_left \in 0 .. GraceTimeout

SessionFlags == queued \in BOOLEAN /\ seen \in BOOLEAN /\ scrfd_on \in BOOLEAN

\* A count that saturates stays within its limit.
LEMMA SessionUpToBounded ==
    ASSUME NEW limit \in Nat, NEW n \in 0 .. limit
    PROVE  Session!UpTo(n + 1, limit) \in 0 .. limit
BY DEF Session!UpTo

\* The counts of one frame.
LEMMA UpdateCounts ==
    ASSUME Session!Thresholds, SessionCounts, NEW face \in BOOLEAN, NEW scrfd \in BOOLEAN,
           Session!Update(face, scrfd)
    PROVE  SessionCounts'
<1>1. phase' = "poll" /\ 0 \in 0 .. Trigger /\ 0 \in 0 .. FaceAbsent /\ 0 \in 0 .. IdleTimeout
      /\ GraceTimeout \in 0 .. GraceTimeout
  BY DEF Session!Thresholds, Session!Update
<1>2. CASE Session!Lock
  BY <1>1, <1>2 DEF Session!Lock, SessionCounts
<1>3. ASSUME NEW seenFor \in 0 .. Trigger, NEW goneFor \in 0 .. FaceAbsent,
             Session!FaceStep(face, scrfd, seenFor, goneFor)
      PROVE  SessionCounts'
  <2>1. CASE Session!ArmingFrame(face, scrfd, seenFor, goneFor)
    BY <1>1, <2>1 DEF Session!ArmingFrame, Session!OpenDialogue, Session!Silent, SessionCounts
  <2>2. CASE Session!ActiveFrame(seenFor, goneFor)
    BY <1>1, <2>2 DEF Session!ActiveFrame, Session!Silent, SessionCounts
  <2>3. CASE Session!GraceFrame(seenFor, goneFor)
    BY <1>1, <1>2, <2>3 DEF Session!GraceFrame, Session!OpenDialogue, Session!Silent, SessionCounts
  <2> QED
    BY <1>3, <2>1, <2>2, <2>3 DEF Session!FaceStep
<1>4. /\ Session!UpTo(stable + 1, Trigger) \in 0 .. Trigger
      /\ Session!UpTo(face_absent + 1, FaceAbsent) \in 0 .. FaceAbsent
  BY SessionUpToBounded DEF Session!Thresholds, SessionCounts
<1> QED
  BY <1>1, <1>2, <1>3, <1>4 DEF Session!Update

\* Every step keeps the counts.
LEMMA SessionStepCounts ==
    ASSUME Session!Thresholds, SessionCounts, [Session!Next]_Session!vars
    PROVE  SessionCounts'
<1>1. CASE Session!PollDeferred
  BY <1>1 DEF Session!Thresholds, Session!PollDeferred, Session!greetingVars, SessionCounts
<1>2. CASE Session!SubmitUserPrompt
  BY <1>2 DEF Session!Thresholds, Session!SubmitUserPrompt, SessionCounts
<1>3. CASE Session!Tick
  BY <1>3, SessionUpToBounded DEF Session!Thresholds, Session!Tick, SessionCounts
<1>4. CASE Session!LoadEnds \/ Session!RunEnds \/ UNCHANGED Session!vars
  BY <1>4 DEF Session!LoadEnds, Session!RunEnds, Session!vars, Session!sessionVars, SessionCounts
<1> QED
  BY <1>1, <1>2, <1>3, <1>4, UpdateCounts DEF Session!Next

\* Every step keeps the flags.
LEMMA StepFlags == SessionInv /\ SessionFlags /\ [Session!Next]_Session!vars => SessionFlags'
<1> SUFFICES ASSUME SessionInv, SessionFlags, [Session!Next]_Session!vars PROVE SessionFlags'
  OBVIOUS
<1>1. ASSUME NEW face \in BOOLEAN, NEW scrfd \in BOOLEAN, Session!Update(face, scrfd)
      PROVE  SessionFlags'
  <2>1. seen' = face /\ scrfd_on' = scrfd
    BY <1>1 DEF Session!Update
  <2>2. queued' = queued \/ queued' \in {FALSE, queued /\ busy}
    BY <1>1, Zenon DEF Session!Update, Session!Lock, Session!FaceStep, Session!ArmingFrame,
                       Session!ActiveFrame, Session!GraceFrame, Session!Silent
  <2>3. queued' \in BOOLEAN
    <3>1. CASE queued' = queued
      BY <3>1, Zenon DEF SessionFlags
    <3>2. CASE queued' \in {FALSE, queued /\ busy}
      BY <3>2, Zenon
    <3> QED
      BY <2>2, <3>1, <3>2
  <2> QED
    BY <2>1, <2>3, Zenon DEF SessionFlags
<1>2. CASE Session!PollDeferred
  BY <1>2, Zenon DEF Session!PollDeferred, Session!RunQueued, SessionFlags
<1>3. CASE Session!SubmitUserPrompt
  BY <1>3, Zenon DEF Session!SubmitUserPrompt, SessionFlags
<1>4. CASE Session!RunEnds
  BY <1>4, Zenon DEF Session!RunEnds, Session!sessionVars, Session!history, SessionFlags
<1>5. CASE Session!Tick \/ Session!LoadEnds \/ UNCHANGED Session!vars
  BY <1>5 DEF Session!Tick, Session!LoadEnds, Session!vars, Session!sessionVars, Session!workerVars,
              Session!history, SessionFlags
<1> QED
  BY <1>1, <1>2, <1>3, <1>4, <1>5 DEF Session!Next

-----------------------------------------------------------------------------
\* LlmGreeting: every count stays within its threshold and every clock within its
\* timeout.
THEOREM SessionTypes ==
    ASSUME Session!Thresholds
    PROVE  Session!Spec => []Session!TypeOK
<1>0. SessionCounts /\ [Session!Next]_Session!vars => SessionCounts'
  BY SessionStepCounts
<1>1. Session!Init => SessionCounts
  BY DEF Session!Thresholds, Session!Init, SessionCounts
<1>2. Session!Init => SessionFlags
  BY Zenon DEF Session!Init, SessionFlags
<1>3. SessionInv /\ SessionCounts /\ SessionFlags => Session!TypeOK
  <2> SUFFICES ASSUME SessionInv, SessionCounts, SessionFlags PROVE Session!TypeOK
    OBVIOUS
  <2>1. greetings \in 0 .. 2
    BY DEF SessionInv
  <2> QED
    BY <2>1, Zenon DEF SessionInv, SessionCounts, SessionFlags, Session!TypeOK
<1> QED
  BY <1>0, <1>1, <1>2, <1>3, InitSession, SessionInvNext, StepFlags, PTL DEF Session!Spec

\* LlmGreeting: the gate lets a line through only in an open dialogue, on a model that
\* is loaded, whichever of Update and PollDeferred opened it; and one session is greeted at
\* most once, however often its face is lost and found again.
THEOREM GateAlwaysFollowsSession == Session!Spec => []Session!GateFollowsSession
<1>1. SessionInv => Session!GateFollowsSession
  BY DEF SessionInv, Session!GateFollowsSession, Session!OneGreetingPerSession
<1> QED
  BY <1>1, InitSession, SessionInvNext, PTL DEF Session!Spec

-----------------------------------------------------------------------------
\* The coordinator and the session in one loop.

\* Whatever the main loop, the inference thread or the worker does is a step of the
\* coordinator or leaves it alone.
LEMMA LoopStepIsCoordinatorStep ==
    ASSUME [LoopNext]_loopVars
    PROVE  [Next]_vars
<1>1. CASE UNCHANGED loopVars
  BY <1>1 DEF loopVars
<1>2. CASE OnInferenceTask \/ MoveSlot
  BY <1>2 DEF OnInferenceTask, MoveSlot, Next, UpdateAfterFrame
<1>3. CASE InferStep
  BY <1>3 DEF InferStep, Next
<1>4. CASE UpdateSession \/ PollSession \/ SubmitLine \/ TimePasses \/ LoadEnds \/ RunEnds
  BY <1>4 DEF UpdateSession, PollSession, SubmitLine, TimePasses, LoadEnds, RunEnds
<1> QED
  BY <1>1, <1>2, <1>3, <1>4 DEF LoopNext, MainLoop

\* The main loop of the program uses UpdateAfterFrame as ModelCoordinator describes it: what
\* is proved of the coordinator alone holds of it in the loop.
THEOREM LoopRunsCoordinator == LoopSpec => Spec
<1>1. LoopInit => Init
  BY DEF LoopInit
<1>2. [LoopNext]_loopVars => [Next]_vars
  BY LoopStepIsCoordinatorStep
<1> QED
  BY <1>1, <1>2, PTL DEF LoopSpec, Spec

\* The faces OnInferenceTask passes on to the session: each frame shows one or none.
DueOK == due \subseteq BOOLEAN

\* A frame the inference thread has posted says of the face that it is there or not.
LEMMA LoopKeepsDue == TypeOK /\ DueOK /\ [LoopNext]_loopVars => DueOK'
<1> SUFFICES ASSUME TypeOK, DueOK, [LoopNext]_loopVars PROVE DueOK'
  OBVIOUS
<1>1. CASE OnInferenceTask
  <2>1. Head(posted) \in Signals(Slots)
    BY <1>1 DEF OnInferenceTask, UpdateScene, TypeOK
  <2>2. Head(posted).face \in BOOLEAN
    BY <2>1, Zenon DEF Signals
  <2> QED
    BY <1>1, <2>2 DEF OnInferenceTask, DueOK
<1>2. CASE due' = {} \/ due' = due
  BY <1>2 DEF DueOK
<1> QED
  BY <1>1, <1>2 DEF LoopNext, MainLoop, MoveSlot, UpdateSession, PollSession, InferStep,
                    SubmitLine, TimePasses, LoadEnds, RunEnds, loopVars

\* Whatever the main loop or the worker does is a step of the session or leaves it alone.
LEMMA LoopStepIsSessionStep ==
    ASSUME DueOK, [LoopNext]_loopVars
    PROVE  [Session!Next]_Session!vars
<1>1. CASE UNCHANGED loopVars \/ OnInferenceTask \/ MoveSlot \/ InferStep
  <2>1. UNCHANGED session
    BY <1>1 DEF loopVars, OnInferenceTask, MoveSlot, InferStep
  <2> QED
    BY <2>1 DEF session, Session!vars, Session!sessionVars, Session!workerVars, Session!history
<1>2. CASE UpdateSession
  <2>1. PICK face \in due : Session!Update(face, "scrfd" \in enabled)
    BY <1>2 DEF UpdateSession
  <2>2. face \in BOOLEAN /\ ("scrfd" \in enabled) \in BOOLEAN
    BY DEF DueOK
  <2> QED
    BY <2>1, <2>2 DEF Session!Next
<1>3. CASE PollSession \/ SubmitLine \/ TimePasses \/ LoadEnds \/ RunEnds
  BY <1>3 DEF PollSession, SubmitLine, TimePasses, LoadEnds, RunEnds, Session!Next
<1> QED
  BY <1>1, <1>2, <1>3 DEF LoopNext, MainLoop

\* The main loop uses Update, PollDeferred and SubmitUserPrompt as LlmGreeting describes them:
\* what is proved of the session alone holds of it in the loop.
THEOREM LoopRunsSession == LoopSpec => Session!Spec
<1>1. LoopInit => DueOK /\ Session!Init
  BY DEF LoopInit, DueOK
<1>2. LoopSpec => []TypeOK
  BY LoopRunsCoordinator, CoordinatorTypes, PTL
<1>3. LoopSpec => [](DueOK /\ TypeOK)
  BY <1>1, <1>2, LoopKeepsDue, PTL DEF LoopSpec
<1> QED
  BY <1>1, <1>3, LoopStepIsSessionStep, PTL DEF LoopSpec, Session!Spec

\* LlmGreeting::Update in the main loop: whatever the models see and whenever they are switched,
\* the gate is open only during a dialogue, and a session is greeted at most once.
THEOREM LoopGateFollowsSession == LoopSpec => []GateFollowsSession
<1>1. Session!GateFollowsSession => GateFollowsSession
  BY DEF GateFollowsSession
<1> QED
  BY <1>1, LoopRunsSession, GateAlwaysFollowsSession, PTL
=============================================================================

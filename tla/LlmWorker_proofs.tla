--------------------------- MODULE LlmWorker_proofs ---------------------------
(***************************************************************************)
(* What LlmWorker promises for every set of lines and every length of an   *)
(* answer: which thread may be where, and that a line is in one place.     *)
(*                                                                         *)
(* MainNeverWaitsForGeneration is not inductive: it holds because          *)
(* infer_busy_ covers the whole life of the inference thread except its    *)
(* last instruction (BusyCoversRun), and DownIsQuiet because Shutdown has  *)
(* waited for the init thread and joined the inference thread first        *)
(* (InitJoined, QueuedIsLocal).  The calls of the bridge are those of      *)
(* VoiceReply (CallerInv), whose theorems hold here therefore; OneAnswer   *)
(* follows a line's words through the bridge.                              *)
(***************************************************************************)
EXTENDS LlmWorker, FiniteSetTheorems, TLAPS

WorkerTypeOK ==
    /\ init_state \in InitState
    /\ init_future \in {"none", "running", "ok", "failed"}
    /\ handle \in BOOLEAN
    /\ infer_busy \in BOOLEAN
    /\ main \in MainAt
    /\ caller \in {"submit", "poll"}
    /\ infer \in InferAt

BusyCoversRun ==
    /\ infer \notin {"none", "exited"} => infer_busy
    /\ main = "join" => infer_busy
    /\ infer_busy => main = "join" \/ infer \notin {"none", "exited"}

InitJoined == main \in {"wait_infer", "down"} => init_future # "running"

QueuedIsLocal == queued # NoPrompt => infer = "defer"

ControlInv ==
    /\ WorkerTypeOK
    /\ BusyCoversRun
    /\ InitJoined
    /\ QueuedIsLocal
    /\ MainNeverWaitsForGeneration
    /\ RunHasHandle
    /\ DownIsQuiet

\* The worker starts idle, with nothing loaded and nothing running.
LEMMA InitControl == Init => ControlInv
BY DEF Init, BridgeInit, ControlInv, WorkerTypeOK, InitState, MainAt, InferAt, InRun,
       BusyCoversRun, InitJoined, QueuedIsLocal, MainNeverWaitsForGeneration, RunHasHandle,
       DownIsQuiet

\* PollInitState consumes a result but never starts the init thread.
LEMMA PollInit ==
    ASSUME WorkerTypeOK, PollInitState
    PROVE  /\ init_state' \in InitState
           /\ init_future' \in {"none", "running", "ok", "failed"}
           /\ init_future' = "running" => init_future = "running"
BY DEF WorkerTypeOK, PollInitState, PolledInitState, InitState

\* RequestInitializeAsync keeps the types of the init state.
LEMMA RequestInit ==
    ASSUME WorkerTypeOK, NEW state \in InitState, RequestInitializeFrom(state)
    PROVE  /\ init_state' \in InitState
           /\ init_future' \in {"none", "running", "ok", "failed"}
BY DEF WorkerTypeOK, RequestInitializeFrom, InitState

\* Every action of the three threads preserves the control invariant.
LEMMA StepControl == ControlInv /\ [Next]_vars => ControlInv'
<1> SUFFICES ASSUME ControlInv, [Next]_vars
             PROVE  ControlInv'
    OBVIOUS
<1> USE DEF ControlInv, WorkerTypeOK, MainAt, InferAt, InRun, BusyCoversRun, InitJoined,
            QueuedIsLocal, MainNeverWaitsForGeneration, RunHasHandle, DownIsQuiet
<1>1. CASE InitDone
  BY <1>1 DEF InitDone, bridgeVars, queueVars, mainVars, inferVars
<1>2. CASE RequestInitializeAsync
  BY <1>2, RequestInit
     DEF RequestInitializeAsync, bridgeVars, queueVars, mainVars, inferVars
<1>3. ASSUME NEW p \in Prompts, Submit(p)
      PROVE  ControlInv'
  BY <1>3 DEF Submit, initVars, queueVars, inferVars
<1>4. CASE DropQueuedPrompts
  BY <1>4 DEF DropQueuedPrompts, bridgeVars, initVars, mainVars, inferVars
<1>5. CASE BeginShutdown
  BY <1>5 DEF BeginShutdown, bridgeVars, initVars, queueVars, inferVars
<1>6. CASE RequestAbortGeneration
  BY <1>6 DEF RequestAbortGeneration, Cancel, ClearReply, initVars, queueVars, mainVars, inferVars
<1>7. CASE MainStep
  <2>1. CASE RunPromptNow
    <3>1. init_state' \in InitState /\ init_future' \in {"none", "running", "ok", "failed"}
      BY <2>1, PollInit, RequestInit DEF RunPromptNow, InitState
    <3>2. /\ UNCHANGED <<handle, infer, queued>>
          /\ \/ main' \in {"queue", "idle"} /\ UNCHANGED infer_busy
             \/ ~infer_busy /\ infer_busy' = TRUE /\ main' = "join"
      BY <2>1 DEF RunPromptNow, RunRefused, inferVars
    <3>3. caller' = caller /\ main = "run"
      BY <2>1 DEF RunPromptNow
    <3>4. CASE main' \in {"queue", "idle"} /\ UNCHANGED infer_busy
      BY <3>1, <3>2, <3>3, <3>4
    <3>5. CASE ~infer_busy /\ infer_busy' = TRUE /\ main' = "join"
      BY <3>1, <3>2, <3>3, <3>5
    <3>6. QED
      BY <3>2, <3>4, <3>5
  <2>2. CASE SpawnInfer
    BY <2>2 DEF SpawnInfer, bridgeVars, initVars, queueVars
  <2>3. CASE QueuePrompt
    BY <2>3 DEF QueuePrompt, bridgeVars, initVars, inferVars
  <2>4. CASE PollVoice
    BY <2>4, PollInit DEF PollVoice, queueVars, inferVars
  <2>5. CASE TakeQueued
    BY <2>5 DEF TakeQueued, bridgeVars, initVars, inferVars, queueVars
  <2>6. CASE ShutdownAbort
    BY <2>6 DEF ShutdownAbort, bridgeVars, queueVars, inferVars
  <2>7. CASE ShutdownDestroy
    BY <2>7 DEF ShutdownDestroy, Reset, ClearReply, InitState
  <2>8. QED
    BY <1>7, <2>1, <2>2, <2>3, <2>4, <2>5, <2>6, <2>7 DEF MainStep
<1>8. CASE Infer
  <2>1. CASE StartRun
    BY <2>1 DEF StartRun, initVars, queueVars, mainVars
  <2>2. CASE EnterRun
    BY <2>2 DEF EnterRun, bridgeVars, initVars, queueVars, mainVars
  <2>3. CASE Generate
    BY <2>3 DEF Generate, initVars, queueVars, mainVars
  <2>4. CASE EndOfAnswer
    BY <2>4 DEF EndOfAnswer, initVars, queueVars, mainVars
  <2>5. CASE TakePending
    BY <2>5 DEF TakePending, bridgeVars, initVars, mainVars
  <2>6. CASE DeferQueued
    BY <2>6 DEF DeferQueued, bridgeVars, initVars, mainVars
  <2>7. CASE DropOnError
    BY <2>7 DEF DropOnError, bridgeVars, initVars, mainVars
  <2>8. CASE RunReturns
    BY <2>8 DEF RunReturns, bridgeVars, initVars, queueVars, mainVars
  <2>9. CASE ExitInfer
    BY <2>9 DEF ExitInfer, bridgeVars, initVars, queueVars, mainVars
  <2>10. QED
    BY <1>8, <2>1, <2>2, <2>3, <2>4, <2>5, <2>6, <2>7, <2>8, <2>9 DEF Infer
<1>9. CASE UNCHANGED vars
  BY <1>9 DEF vars, bridgeVars, initVars, queueVars, mainVars, inferVars
<1>10. QED
  BY <1>1, <1>2, <1>3, <1>4, <1>5, <1>6, <1>7, <1>8, <1>9 DEF Next

\* The control invariant holds of every behaviour.
LEMMA AlwaysControl == Spec => []ControlInv
BY InitControl, StepControl, PTL DEF Spec

\* Whatever the order of the threads, RunPromptNow never blocks the frame loop on a
\* running generation: the thread it joins has left its last critical section.
THEOREM FrameLoopNeverBlocks == Spec => []MainNeverWaitsForGeneration
<1>1. ControlInv => MainNeverWaitsForGeneration
  BY DEF ControlInv
<1>2. QED
  BY <1>1, AlwaysControl, PTL

\* rkllm_run is never inside a session that was destroyed or never loaded.
THEOREM RunAlwaysHasHandle == Spec => []RunHasHandle
<1>1. ControlInv => RunHasHandle
  BY DEF ControlInv
<1>2. QED
  BY <1>1, AlwaysControl, PTL

\* After Shutdown the worker stays quiet: no thread, no line and no event is left.
THEOREM ShutdownLeavesQuiet == Spec => []DownIsQuiet
<1>1. ControlInv => DownIsQuiet
  BY DEF ControlInv
<1>2. QED
  BY <1>1, AlwaysControl, PTL
-----------------------------------------------------------------------------
\* PromptInOnePlace is inductive together with the fact that a line not yet typed is
\* in none of the places; the pairs of Places are spelled out for the provers.
Apart(a, b) == a = b => a = NoPrompt

PairwiseApart ==
    /\ Apart(prompt, pending) /\ Apart(prompt, deferred)
    /\ Apart(prompt, queued) /\ Apart(prompt, running)
    /\ Apart(pending, deferred) /\ Apart(pending, queued) /\ Apart(pending, running)
    /\ Apart(deferred, queued) /\ Apart(deferred, running)
    /\ Apart(queued, running)

FreshIsNowhere ==
    /\ fresh \subseteq Prompts
    /\ \A p \in fresh : p \notin {prompt, pending, deferred, queued, running}

PlaceInv == PairwiseApart /\ FreshIsNowhere

\* Five places, ten pairs.
LEMMA PairsOfPlaces == PairwiseApart => PromptInOnePlace
<1> SUFFICES ASSUME PairwiseApart, NEW i \in 1 .. 5, NEW j \in 1 .. 5,
                    Places[i] = Places[j], Places[i] # NoPrompt
             PROVE  i = j
  BY DEF PromptInOnePlace, Places
<1>1. /\ Places[1] = prompt /\ Places[2] = pending /\ Places[3] = deferred
      /\ Places[4] = queued /\ Places[5] = running
  BY DEF Places
<1>2. i \in {1, 2, 3, 4, 5} /\ j \in {1, 2, 3, 4, 5}
  OBVIOUS
<1>3. QED
  BY <1>1, <1>2 DEF PairwiseApart, Apart

\* At the start every place is empty.
LEMMA InitPlace == Init => PlaceInv
BY WorkerAssumption DEF Init, PlaceInv, PairwiseApart, Apart, FreshIsNowhere

\* A step moves a line from one place to another, takes a new one, or empties places.
LEMMA StepPlace == PlaceInv /\ [Next]_vars => PlaceInv'
<1> SUFFICES ASSUME PlaceInv, [Next]_vars
             PROVE  PlaceInv'
    OBVIOUS
<1> USE WorkerAssumption DEF PlaceInv, PairwiseApart, Apart, FreshIsNowhere
<1>1. CASE InitDone
  BY <1>1 DEF InitDone, queueVars, mainVars, inferVars, history
<1>2. CASE RequestInitializeAsync
  BY <1>2 DEF RequestInitializeAsync, queueVars, mainVars, inferVars, history
<1>3. ASSUME NEW p \in Prompts, Submit(p)
      PROVE  PlaceInv'
  BY <1>3 DEF Submit, queueVars, inferVars
<1>4. CASE DropQueuedPrompts
  BY <1>4 DEF DropQueuedPrompts, mainVars, inferVars, history
<1>5. CASE BeginShutdown
  BY <1>5 DEF BeginShutdown, queueVars, inferVars, history
<1>6. CASE RequestAbortGeneration
  BY <1>6 DEF RequestAbortGeneration, queueVars, mainVars, inferVars, history
<1>7. CASE MainStep
  <2>1. CASE RunPromptNow
    <3>1. prompt' \in {prompt, NoPrompt} /\ UNCHANGED <<queueVars, inferVars, fresh>>
      BY <2>1 DEF RunPromptNow, RunRefused
    <3>2. QED
      BY <3>1 DEF queueVars, inferVars
  <2>2. CASE SpawnInfer
    BY <2>2 DEF SpawnInfer, queueVars, history
  <2>3. CASE QueuePrompt
    BY <2>3 DEF QueuePrompt, inferVars, history
  <2>4. CASE PollVoice
    BY <2>4 DEF PollVoice, queueVars, inferVars, history
  <2>5. CASE TakeQueued
    BY <2>5 DEF TakeQueued, inferVars, queueVars, history
  <2>6. CASE ShutdownAbort
    BY <2>6 DEF ShutdownAbort, queueVars, inferVars, history
  <2>7. CASE ShutdownDestroy
    BY <2>7 DEF ShutdownDestroy, history
  <2>8. QED
    BY <1>7, <2>1, <2>2, <2>3, <2>4, <2>5, <2>6, <2>7 DEF MainStep
<1>8. CASE Infer
  <2>1. CASE StartRun
    BY <2>1 DEF StartRun, queueVars, mainVars, history
  <2>2. CASE EnterRun
    BY <2>2 DEF EnterRun, queueVars, mainVars, history
  <2>3. CASE Generate
    BY <2>3 DEF Generate, queueVars, mainVars, history
  <2>4. CASE EndOfAnswer
    BY <2>4 DEF EndOfAnswer, queueVars, mainVars, history
  <2>5. CASE TakePending
    BY <2>5 DEF TakePending, mainVars, history
  <2>6. CASE DeferQueued
    BY <2>6 DEF DeferQueued, mainVars, history
  <2>7. CASE DropOnError
    BY <2>7 DEF DropOnError, mainVars, history
  <2>8. CASE RunReturns
    BY <2>8 DEF RunReturns, queueVars, mainVars, history
  <2>9. CASE ExitInfer
    BY <2>9 DEF ExitInfer, queueVars, mainVars, history
  <2>10. QED
    BY <1>8, <2>1, <2>2, <2>3, <2>4, <2>5, <2>6, <2>7, <2>8, <2>9 DEF Infer
<1>9. CASE UNCHANGED vars
  BY <1>9 DEF vars, queueVars, mainVars, inferVars, history
<1>10. QED
  BY <1>1, <1>2, <1>3, <1>4, <1>5, <1>6, <1>7, <1>8, <1>9 DEF Next

\* A line the user typed once is never in two places of the worker, so it is never
\* answered twice, whatever SubmitPrompt, PollDeferred and OnLlmChunk interleave to.
THEOREM EveryPromptInOnePlace == Spec => []PromptInOnePlace
<1>1. PlaceInv => PromptInOnePlace
  BY PairsOfPlaces DEF PlaceInv
<1>2. QED
  BY <1>1, InitPlace, StepPlace, PTL DEF Spec
-----------------------------------------------------------------------------
\* A call that runs a line holds one, and so does a generation.
LinesOK ==
    /\ {prompt, pending, deferred, queued, running} \subseteq Slot
    /\ main \in {"run", "queue", "join"} => prompt # NoPrompt
    /\ infer \notin {"none", "exited"} => running # NoPrompt
    /\ produced \in Nat

\* Every step keeps it so.
LEMMA StepLines == LinesOK /\ [Next]_vars => LinesOK'
<1> SUFFICES ASSUME LinesOK, [Next]_vars
             PROVE  LinesOK'
    OBVIOUS
<1> USE WorkerAssumption DEF LinesOK, Slot
<1>1. CASE InitDone \/ RequestInitializeAsync \/ DropQueuedPrompts \/ BeginShutdown
  BY <1>1 DEF InitDone, RequestInitializeAsync, DropQueuedPrompts, BeginShutdown, queueVars,
              mainVars, inferVars
<1>2. ASSUME NEW p \in Prompts, Submit(p)
      PROVE  LinesOK'
  BY <1>2 DEF Submit, queueVars, inferVars
<1>3. CASE RequestAbortGeneration
  BY <1>3 DEF RequestAbortGeneration, queueVars, mainVars, inferVars
<1>4. CASE RunPromptNow
  <2>1. /\ prompt' = prompt \/ (prompt' = NoPrompt /\ main' = "idle")
        /\ main = "run" /\ UNCHANGED <<queueVars, inferVars>>
    BY <1>4 DEF RunPromptNow, RunRefused
  <2> QED BY <2>1 DEF queueVars, inferVars
<1>5. CASE SpawnInfer \/ QueuePrompt \/ PollVoice \/ TakeQueued \/ ShutdownAbort \/ ShutdownDestroy
  BY <1>5 DEF SpawnInfer, QueuePrompt, PollVoice, TakeQueued, ShutdownAbort, ShutdownDestroy,
              queueVars, mainVars, inferVars
<1>6. CASE StartRun \/ EnterRun \/ EndOfAnswer \/ TakePending \/ DeferQueued
  BY <1>6 DEF StartRun, EnterRun, EndOfAnswer, TakePending, DeferQueued, queueVars, mainVars
<1>7. CASE Generate \/ DropOnError \/ RunReturns \/ ExitInfer
  BY <1>7 DEF Generate, DropOnError, RunReturns, ExitInfer, queueVars, mainVars
<1>8. CASE UNCHANGED vars
  BY <1>8 DEF vars, queueVars, mainVars, inferVars
<1> QED
  BY <1>1, <1>2, <1>3, <1>4, <1>5, <1>6, <1>7, <1>8 DEF Next, MainStep, Infer

\* A chunk is of the line being answered.
LEMMA AnsweredLine ==
    ASSUME LinesOK, infer = "running", produced < MaxChunks
    PROVE  running \in Prompts /\ <<running, produced + 1>> \in Chunk
<1>1. running \in Prompts
  BY DEF LinesOK, Slot
<1>2. produced + 1 \in 1 .. MaxChunks
  BY WorkerAssumption DEF LinesOK
<1> QED
  BY <1>1, <1>2, WorkerAssumption

-----------------------------------------------------------------------------
(* The bridge as VoiceReply sees it: one generation at a time, Reset in between *)

Bridge == INSTANCE VoiceReply_proofs WITH MaxSession <- Cardinality(Prompts) + 1

\* Every line is one turn.
LEMMA BridgeBounds == Cardinality(Prompts) + 1 \in Nat \ {0} /\ MaxChunks \in Nat
BY WorkerAssumption, FS_CardinalityType

\* The generation is open from its OnRunStarted to its last callback.
RunFollowsThread == run = "open" <=> infer \in {"entering", "running"}

\* A line not yet typed is a session to come.
TurnsAreLines ==
    /\ fresh \subseteq Prompts
    /\ desired_session_id + Cardinality(fresh) = Cardinality(Prompts) + 1

\* What was taken in of an open generation was produced by it.
TakenWasProduced == produced \in Nat /\ (run = "open" => Len(accepted) <= produced)

CallerInv ==
    /\ run \in Bridge!RunStatus
    /\ RunFollowsThread
    /\ TurnsAreLines
    /\ TakenWasProduced

BridgeInv == Bridge!SessionInv /\ Bridge!AnswerInv

\* A step of the bridge takes VoiceReply with it.
LEMMA BridgeGoesOn ==
    ASSUME BridgeInv, [Bridge!Next]_(Bridge!vars)
    PROVE  BridgeInv'
<1>1. Bridge!SessionInv /\ Bridge!AnswerInv
  BY DEF BridgeInv
<1>2. Bridge!SessionInv'
  BY <1>1, ChunkAssumption, BridgeBounds, Bridge!StepSession, Zenon
<1>3. Bridge!AnswerInv'
  BY <1>1, ChunkAssumption, BridgeBounds, Bridge!StepAnswer, Zenon
<1> QED
  BY <1>2, <1>3 DEF BridgeInv

\* The operations of the bridge are the same in both.
LEMMA SameBridge ==
    /\ Poll => Bridge!Poll
    /\ \A state, chunk : OnLlmChunk(state, chunk) => Bridge!OnLlmChunk(state, chunk)
    /\ ClearReply => Bridge!ClearReply
    /\ bridgeVars = Bridge!bridgeVars
    /\ IsCurrentRunLive <=> Bridge!IsCurrentRunLive
    /\ \A state : Ended(state) <=> Bridge!Ended(state)
<1>1. bridgeVars = Bridge!bridgeVars /\ sessions = Bridge!sessions /\ formal = Bridge!formal
  BY DEF bridgeVars, Bridge!bridgeVars, sessions, Bridge!sessions, formal, Bridge!formal
<1>2. LiveText = Bridge!LiveText
  BY DEF LiveText, Bridge!LiveText, IsLive, Bridge!IsLive
<1>3. \A state : Ended(state) <=> Bridge!Ended(state)
  BY DEF Ended, Bridge!Ended, IsLive, Bridge!IsLive
<1>4. \A batch, prefetch : Accumulate(batch, prefetch) => Bridge!Accumulate(batch, prefetch)
  BY <1>3 DEF Accumulate, Bridge!Accumulate
<1>5. Poll => Bridge!Poll
  <2>1. ASSUME Poll, events = <<>> PROVE Bridge!Poll
    BY <2>1 DEF Poll, Bridge!Poll, bridgeVars, Bridge!bridgeVars, sessions, Bridge!sessions,
                formal, Bridge!formal
  <2>2. ASSUME Poll, events # <<>> PROVE Bridge!Poll
    <3>1. PICK text : text = unplanned \o LiveText
      OBVIOUS
    <3>2. PICK cut \in 0 .. Len(text), prefetch \in BOOLEAN :
            /\ Ended("FINISH") => cut = Len(text)
            /\ unplanned' = IF Ended("ERROR") THEN <<>> ELSE SubSeq(text, cut + 1, Len(text))
            /\ Accumulate(SubSeq(text, 1, cut), prefetch)
      BY <2>2, <3>1 DEF Poll
    <3>3. Bridge!Accumulate(SubSeq(text, 1, cut), prefetch)
      BY <1>4, <3>2
    <3>4. \E c \in 0 .. Len(text), p \in BOOLEAN :
            /\ Bridge!Ended("FINISH") => c = Len(text)
            /\ unplanned' = IF Bridge!Ended("ERROR") THEN <<>> ELSE SubSeq(text, c + 1, Len(text))
            /\ Bridge!Accumulate(SubSeq(text, 1, c), p)
      BY <1>3, <3>2, <3>3
    <3>5. /\ events' = <<>> /\ accepted' = IF Bridge!Ended("ERROR") THEN handed' ELSE accepted
          /\ UNCHANGED Bridge!sessions
      BY <1>3, <2>2 DEF Poll, sessions, Bridge!sessions
    <3>6. text = unplanned \o Bridge!LiveText
      BY <1>2, <3>1
    <3> QED BY <2>2, <3>4, <3>5, <3>6 DEF Bridge!Poll
  <2> QED BY <2>1, <2>2
<1>6. IsCurrentRunLive <=> Bridge!IsCurrentRunLive
  BY DEF IsCurrentRunLive, Bridge!IsCurrentRunLive
<1>7. \A state, chunk : OnLlmChunk(state, chunk) => Bridge!OnLlmChunk(state, chunk)
  BY <1>6 DEF OnLlmChunk, Bridge!OnLlmChunk, sessions, Bridge!sessions, formal, Bridge!formal
<1>8. ClearReply => Bridge!ClearReply
  BY DEF ClearReply, Bridge!ClearReply
<1> QED
  BY <1>1, <1>3, <1>5, <1>6, <1>7, <1>8

\* The other steps say nothing to the bridge.
LEMMA OtherSteps ==
    ASSUME [Next]_vars,
           \A p \in Prompts : ~Submit(p),
           ~(\/ PollVoice \/ StartRun \/ EnterRun \/ Generate \/ EndOfAnswer
             \/ ShutdownDestroy \/ RequestAbortGeneration)
    PROVE  UNCHANGED <<bridgeVars, run>>
<1>1. CASE InitDone \/ RequestInitializeAsync \/ DropQueuedPrompts \/ BeginShutdown
  BY <1>1 DEF InitDone, RequestInitializeAsync, DropQueuedPrompts, BeginShutdown, history
<1>2. CASE RunPromptNow \/ SpawnInfer \/ QueuePrompt \/ TakeQueued \/ ShutdownAbort
  BY <1>2 DEF RunPromptNow, SpawnInfer, QueuePrompt, TakeQueued, ShutdownAbort, history
<1>3. CASE TakePending \/ DeferQueued \/ DropOnError \/ RunReturns \/ ExitInfer
  BY <1>3 DEF TakePending, DeferQueued, DropOnError, RunReturns, ExitInfer, history
<1>4. CASE UNCHANGED vars
  BY <1>4 DEF vars, history
<1> QED
  BY <1>1, <1>2, <1>3, <1>4 DEF Next, MainStep, Infer

\* The worker calls the bridge as VoiceReply does, or leaves it alone.
LEMMA WorkerCallsBridge ==
    ASSUME CallerInv, BridgeInv, LinesOK, [Next]_vars
    PROVE  [Bridge!Next]_(Bridge!vars)
<1>1. CASE UNCHANGED <<bridgeVars, run>>
  BY <1>1 DEF Bridge!vars, bridgeVars, Bridge!bridgeVars, sessions, Bridge!sessions, formal, Bridge!formal
<1>2. ASSUME NEW p \in Prompts, Submit(p)
      PROVE  Bridge!UserTurn
  <2>1. p \in fresh /\ IsFiniteSet(fresh)
    BY <1>2, WorkerAssumption, FS_Subset DEF Submit, CallerInv, TurnsAreLines
  <2>2. Cardinality(fresh) \in Nat /\ Cardinality(fresh) # 0
    BY <2>1, FS_CardinalityType, FS_EmptySet
  <2>3. desired_session_id \in Nat
    BY DEF BridgeInv, Bridge!SessionInv, Bridge!SessionTypeOK
  <2>4. desired_session_id < Cardinality(Prompts) + 1
    BY <2>2, <2>3, BridgeBounds DEF CallerInv, TurnsAreLines
  <2>5. UNCHANGED run /\ BeginTurn
    BY <1>2 DEF Submit
  <2> QED
    BY <2>4, <2>5 DEF Bridge!UserTurn, Bridge!BeginTurn, BeginTurn, Bridge!ClearReply, ClearReply
<1>3. CASE PollVoice
  <2>1. Poll /\ UNCHANGED run
    BY <1>3 DEF PollVoice, history
  <2> QED
    BY <2>1, SameBridge DEF Bridge!Next, Bridge!PollEvents
<1>4. CASE StartRun
  <2>1. run # "open" /\ run' = "open" /\ OnRunStarted
    BY <1>4 DEF StartRun, CallerInv, RunFollowsThread
  <2>2. Bridge!StartRun
    BY <2>1 DEF OnRunStarted, ClearReply, Bridge!StartRun, Bridge!OnRunStarted, Bridge!ClearReply
  <2> QED
    BY <2>2 DEF Bridge!Next
<1>5. CASE EnterRun
  <2>1. run = "open" /\ UNCHANGED bridgeVars /\ run' \in {run, "stopped"}
    BY <1>5 DEF EnterRun, CallerInv, RunFollowsThread
  <2>2. UNCHANGED <<bridgeVars, run>> \/ Bridge!StopRun
    BY <2>1 DEF Bridge!StopRun, bridgeVars, Bridge!bridgeVars, sessions, Bridge!sessions,
                formal, Bridge!formal
  <2> QED
    BY <1>1, <2>2 DEF Bridge!Next
<1>6. CASE Generate
  <2>1. /\ infer = "running" /\ run = "open" /\ UNCHANGED run
        /\ produced < MaxChunks /\ OnLlmChunk("NORMAL", <<running, produced + 1>>)
    BY <1>6 DEF Generate, CallerInv, RunFollowsThread, history
  <2>2. Len(accepted) < MaxChunks
    <3>1. Len(accepted) \in Nat
      BY DEF BridgeInv, Bridge!AnswerInv, Bridge!ChunksAreOf
    <3> QED BY <2>1, <3>1, BridgeBounds DEF CallerInv, TakenWasProduced
  <2>3. <<running, produced + 1>> \in Chunk
    BY <2>1, AnsweredLine
  <2>4. Bridge!Generate(<<running, produced + 1>>)
    BY <2>1, <2>2, SameBridge DEF Bridge!Generate
  <2> QED
    BY <2>3, <2>4 DEF Bridge!Next
<1>7. CASE EndOfAnswer
  <2>1. infer = "running" /\ run = "open"
    BY <1>7 DEF EndOfAnswer, CallerInv, RunFollowsThread
  <2>2. CASE run' = "finished" /\ OnLlmChunk("FINISH", NoChunk)
    BY <2>1, <2>2, SameBridge DEF Bridge!Next, Bridge!FinishRun
  <2>3. CASE run' = "failed" /\ OnLlmChunk("ERROR", NoChunk)
    BY <2>1, <2>3, SameBridge DEF Bridge!Next, Bridge!FailRun
  <2>4. CASE run' = "stopped" /\ UNCHANGED bridgeVars
    BY <2>1, <2>4 DEF Bridge!Next, Bridge!StopRun, bridgeVars, Bridge!bridgeVars, sessions,
                      Bridge!sessions, formal, Bridge!formal
  <2> QED
    BY <1>7, <2>2, <2>3, <2>4 DEF EndOfAnswer
<1>8. CASE ShutdownDestroy
  <2>1. run # "open" /\ UNCHANGED run /\ Reset
    BY <1>8 DEF ShutdownDestroy, CallerInv, RunFollowsThread, history
  <2>2. Bridge!ResetReply
    BY <2>1 DEF Reset, ClearReply, Bridge!ResetReply, Bridge!Reset, Bridge!ClearReply
  <2> QED
    BY <2>2 DEF Bridge!Next
<1>9. CASE RequestAbortGeneration
  <2>1. UNCHANGED run /\ Cancel
    BY <1>9 DEF RequestAbortGeneration, history
  <2>2. Bridge!CancelReply
    BY <2>1 DEF Cancel, ClearReply, sessions, Bridge!CancelReply, Bridge!Cancel, Bridge!ClearReply,
                Bridge!sessions
  <2> QED
    BY <2>2 DEF Bridge!Next
<1> QED
  BY <1>1, <1>2, <1>3, <1>4, <1>5, <1>6, <1>7, <1>8, <1>9, OtherSteps DEF Bridge!Next

\* A line becomes a turn, a chunk produced may be taken in, and the rest stays as it is.
LEMMA StepCaller ==
    ASSUME CallerInv, BridgeInv, [Next]_vars
    PROVE  CallerInv'
<1> USE DEF CallerInv, Bridge!RunStatus
<1>1. ASSUME UNCHANGED <<bridgeVars, run, fresh, produced>>,
             infer' \in {"entering", "running"} <=> infer \in {"entering", "running"}
      PROVE  CallerInv'
  BY <1>1 DEF bridgeVars, sessions, RunFollowsThread, TurnsAreLines, TakenWasProduced
<1>2. ASSUME NEW p \in Prompts, Submit(p)
      PROVE  CallerInv'
  <2>1. /\ p \in fresh /\ fresh' = fresh \ {p} /\ desired_session_id' = desired_session_id + 1
        /\ accepted' = <<>> /\ UNCHANGED <<run, infer, produced>>
    BY <1>2 DEF Submit, BeginTurn, ClearReply, inferVars
  <2>2. IsFiniteSet(fresh)
    BY WorkerAssumption, FS_Subset DEF TurnsAreLines
  <2>3. Cardinality(fresh') = Cardinality(fresh) - 1 /\ Cardinality(fresh) \in Nat
    BY <2>1, <2>2, FS_RemoveElement, FS_CardinalityType
  <2>4. desired_session_id \in Nat
    BY DEF BridgeInv, Bridge!SessionInv, Bridge!SessionTypeOK
  <2>5. TurnsAreLines'
    BY <2>1, <2>3, <2>4, BridgeBounds DEF TurnsAreLines
  <2> QED
    BY <2>1, <2>5 DEF RunFollowsThread, TakenWasProduced
<1>3. CASE PollVoice
  <2>1. run = "open" => accepted' = accepted
    <3>1. run = "open" => ~Ended("ERROR")
      BY SameBridge DEF BridgeInv, Bridge!AnswerInv, Bridge!EndIsLast
    <3> QED
      BY <1>3, <3>1 DEF PollVoice, Poll, bridgeVars
  <2>2. UNCHANGED <<run, infer, produced, fresh, desired_session_id>>
    BY <1>3 DEF PollVoice, Poll, bridgeVars, sessions, history, inferVars
  <2> QED
    BY <2>1, <2>2 DEF RunFollowsThread, TurnsAreLines, TakenWasProduced
<1>4. CASE SpawnInfer
  BY <1>4 DEF SpawnInfer, bridgeVars, sessions, history, RunFollowsThread, TurnsAreLines, TakenWasProduced
<1>5. CASE StartRun
  <2>1. /\ accepted' = <<>> /\ run' = "open" /\ infer' = "entering"
        /\ UNCHANGED <<produced, fresh, desired_session_id>>
    BY <1>5 DEF StartRun, OnRunStarted, ClearReply
  <2>2. Len(accepted') = 0
    BY <2>1
  <2> QED
    BY <2>1, <2>2 DEF RunFollowsThread, TurnsAreLines, TakenWasProduced
<1>6. CASE EnterRun
  BY <1>6 DEF EnterRun, bridgeVars, sessions, RunFollowsThread, TurnsAreLines, TakenWasProduced
<1>7. CASE Generate
  <2>1. /\ produced' = produced + 1 /\ UNCHANGED <<run, infer, fresh, desired_session_id>>
        /\ accepted' \in {accepted, Append(accepted, <<running, produced + 1>>)}
    BY <1>7 DEF Generate, OnLlmChunk, sessions, history
  <2>2. accepted \in Seq(Chunk)
    BY DEF BridgeInv, Bridge!AnswerInv, Bridge!ChunksAreOf
  <2>3. Len(accepted') <= Len(accepted) + 1 /\ Len(accepted) \in Nat /\ Len(accepted') \in Nat
    BY <2>1, <2>2
  <2> QED
    BY <2>1, <2>3 DEF RunFollowsThread, TurnsAreLines, TakenWasProduced
<1>8. CASE EndOfAnswer
  <2>1. /\ UNCHANGED <<fresh, produced, desired_session_id>> /\ infer' \in {"finish", "error", "ending"}
        /\ run' \in {"finished", "failed", "stopped"}
    BY <1>8 DEF EndOfAnswer, OnLlmChunk, bridgeVars, sessions
  <2> QED
    BY <2>1 DEF RunFollowsThread, TurnsAreLines, TakenWasProduced
<1>9. CASE ShutdownDestroy
  <2>1. /\ UNCHANGED <<fresh, produced, desired_session_id, run>> /\ infer' = "none"
        /\ infer \in {"none", "exited"} /\ accepted' = <<>>
    BY <1>9 DEF ShutdownDestroy, Reset, ClearReply, history
  <2> QED
    BY <2>1 DEF RunFollowsThread, TurnsAreLines, TakenWasProduced
<1>10. CASE RequestAbortGeneration
  <2>1. UNCHANGED <<fresh, produced, desired_session_id, run, infer>> /\ accepted' = <<>>
    BY <1>10 DEF RequestAbortGeneration, Cancel, ClearReply, history, inferVars, sessions
  <2> QED
    BY <2>1 DEF RunFollowsThread, TurnsAreLines, TakenWasProduced
<1>11. CASE RunPromptNow
  BY <1>1, <1>11 DEF RunPromptNow, inferVars
<1>12. CASE InitDone \/ RequestInitializeAsync \/ DropQueuedPrompts \/ BeginShutdown
  BY <1>1, <1>12 DEF InitDone, RequestInitializeAsync, DropQueuedPrompts, BeginShutdown, history,
                     inferVars
<1>13. CASE QueuePrompt \/ TakeQueued \/ ShutdownAbort
  BY <1>1, <1>13 DEF QueuePrompt, TakeQueued, ShutdownAbort, history, inferVars
<1>14. CASE TakePending \/ DeferQueued \/ DropOnError \/ RunReturns \/ ExitInfer
  BY <1>1, <1>14 DEF TakePending, DeferQueued, DropOnError, RunReturns, ExitInfer, history
<1>15. CASE UNCHANGED vars
  BY <1>1, <1>15 DEF vars, history, inferVars
<1> QED
  BY <1>2, <1>3, <1>4, <1>5, <1>6, <1>7, <1>8, <1>9, <1>10, <1>11, <1>12, <1>13, <1>14, <1>15
     DEF Next, MainStep, Infer

\* The worker starts with nothing said.
LEMMA InitBridge == Init => Bridge!Init /\ BridgeInv /\ CallerInv /\ LinesOK
<1> SUFFICES ASSUME Init PROVE Bridge!Init /\ BridgeInv /\ CallerInv /\ LinesOK
  OBVIOUS
<1>1. Bridge!Init
  BY DEF Init, BridgeInit, Bridge!Init, Bridge!BridgeInit
<1>2. BridgeInv
  BY <1>1, ChunkAssumption, BridgeBounds, Bridge!InitSession, Bridge!InitAnswer, Zenon DEF BridgeInv
<1>3. TurnsAreLines
  <2>1. Cardinality(Prompts) \in Nat
    BY WorkerAssumption, FS_CardinalityType
  <2> QED BY <2>1 DEF Init, BridgeInit, TurnsAreLines
<1>4. CallerInv
  BY <1>3 DEF Init, CallerInv, Bridge!RunStatus, RunFollowsThread, TakenWasProduced
<1>5. LinesOK
  BY DEF Init, LinesOK, Slot
<1> QED
  BY <1>1, <1>2, <1>4, <1>5

\* All of it holds of every behaviour.
LEMMA AlwaysBridge == Spec => [](CallerInv /\ BridgeInv /\ LinesOK)
<1>1. CallerInv /\ BridgeInv /\ LinesOK /\ [Next]_vars => (CallerInv /\ BridgeInv /\ LinesOK)'
  BY StepCaller, StepLines, WorkerCallsBridge, BridgeGoesOn
<1> QED
  BY <1>1, InitBridge, PTL DEF Spec

\* However its three threads interleave, the worker calls the bridge as VoiceReply has it: one
\* generation is open at a time, its chunks come before its end, and Reset between two.  What is
\* proved of VoiceReply holds of the worker.
THEOREM WorkerRunsBridge == Spec => Bridge!Spec
<1>1. CallerInv /\ BridgeInv /\ LinesOK /\ [Next]_vars => [Bridge!Next]_(Bridge!vars)
  BY WorkerCallsBridge
<1>2. Init => Bridge!Init
  BY InitBridge
<1> QED
  BY <1>1, <1>2, AlwaysBridge, PTL DEF Spec, Bridge!Spec

\* So in the worker too an answer is said in order and in full, and a preempted one is silent,
\* whichever thread gets on first.
THEOREM WorkerSaysAnswerInFull == Spec => [](AnswerInFull /\ PreemptedIsSilent)
<1>1. Bridge!SessionInv => PreemptedIsSilent
  BY DEF Bridge!SessionInv, Bridge!EventsLive, Bridge!SilentUntilNextRun, PreemptedIsSilent,
         EventsLive, SilentUntilNextRun
<1>2. BridgeInv => Bridge!AnswerInFull
  BY ChunkAssumption, BridgeBounds, Bridge!WholeIsDelivered, Zenon DEF BridgeInv
<1>3. LiveText = Bridge!LiveText
  BY DEF LiveText, Bridge!LiveText, IsLive, Bridge!IsLive
<1>4. Bridge!AnswerInFull => AnswerInFull
  BY <1>3 DEF AnswerInFull, NothingLostOrReordered, DeliveredInFull, Bridge!AnswerInFull,
              Bridge!NothingLostOrReordered, Bridge!DeliveredInFull
<1>5. CallerInv /\ BridgeInv /\ LinesOK => AnswerInFull /\ PreemptedIsSilent
  BY <1>1, <1>2, <1>4 DEF BridgeInv
<1> QED
  BY <1>5, AlwaysBridge, PTL
-----------------------------------------------------------------------------
\* The chunks an answer to p is made of.
WordsOf(p) == {p} \X (1 .. MaxChunks)

\* What the bridge holds is of one line; in a generation the bridge has been told of, of that one.
OneAnswer ==
    \E p \in Slot :
        /\ Bridge!ChunksAreOf(WordsOf(p))
        /\ infer \notin {"none", "spawned", "exited"} => p = running

\* An emptied bridge is ready for any line.
LEMMA EmptyIsOneAnswer ==
    ASSUME LinesOK, running' = running, ClearReply
    PROVE  OneAnswer'
<1>1. PICK p \in Slot : p = running
  BY DEF LinesOK
<1>2. Bridge!ChunksAreOf(WordsOf(p))'
  <2>1. Bridge!ClearReply
    BY SameBridge
  <2> QED
    BY <2>1, ChunkAssumption, BridgeBounds, Bridge!ClearedAnswer, Zenon
<1> QED
  BY <1>1, <1>2 DEF OneAnswer

\* A callback brings a word of the line being answered; a poll moves words within the bridge.
LEMMA StepOneAnswer ==
    ASSUME OneAnswer, LinesOK, CallerInv, BridgeInv, [Next]_vars
    PROVE  OneAnswer'
<1>0. PICK p \in Slot : /\ Bridge!ChunksAreOf(WordsOf(p))
                        /\ infer \notin {"none", "spawned", "exited"} => p = running
  BY DEF OneAnswer
<1>a. /\ Bridge!SessionTypeOK /\ Bridge!HeldBehindFirst /\ Bridge!NothingLostOrReordered
  BY DEF BridgeInv, Bridge!SessionInv, Bridge!AnswerInv
<1>1. ASSUME UNCHANGED bridgeVars,
             infer' \notin {"none", "spawned", "exited"} =>
                 infer \notin {"none", "spawned", "exited"} /\ running' = running
      PROVE  OneAnswer'
  <2>1. Bridge!ChunksAreOf(WordsOf(p))'
    BY <1>0, <1>1 DEF Bridge!ChunksAreOf, bridgeVars, formal
  <2> QED
    BY <1>0, <1>1, <2>1 DEF OneAnswer
<1>2. ASSUME NEW q \in Prompts, Submit(q)
      PROVE  OneAnswer'
  BY <1>2, EmptyIsOneAnswer DEF Submit, BeginTurn, inferVars
<1>3. CASE StartRun \/ ShutdownDestroy \/ RequestAbortGeneration
  BY <1>3, EmptyIsOneAnswer DEF StartRun, OnRunStarted, ShutdownDestroy, Reset,
                                RequestAbortGeneration, Cancel, inferVars
<1>4. CASE PollVoice
  <2>1. Poll /\ UNCHANGED <<infer, running>>
    BY <1>4 DEF PollVoice, inferVars
  <2>2. CASE events = <<>>
    BY <1>1, <2>1, <2>2 DEF Poll
  <2>3. CASE events # <<>>
    <3>1. Bridge!ChunksAreOf(WordsOf(p))'
      BY <1>0, <1>a, <2>1, <2>3, SameBridge, ChunkAssumption, BridgeBounds, Bridge!PollTakesAll, Zenon
    <3> QED
      BY <1>0, <2>1, <3>1 DEF OneAnswer
  <2> QED BY <2>2, <2>3
<1>5. ASSUME NEW state \in Bridge!RunState, NEW chunk \in Chunk \cup {NoChunk},
             state = "NORMAL" => chunk \in WordsOf(p), OnLlmChunk(state, chunk),
             infer' \notin {"none", "spawned", "exited"} => p = running'
      PROVE  OneAnswer'
  <2>1. CASE Bridge!IsCurrentRunLive
    <3>1. Bridge!ChunksAreOf(WordsOf(p))'
      BY <1>0, <1>a, <1>5, <2>1, SameBridge, ChunkAssumption, BridgeBounds, Bridge!ChunkTaken, Zenon
    <3> QED
      BY <1>0, <1>5, <3>1 DEF OneAnswer
  <2>2. CASE ~Bridge!IsCurrentRunLive
    <3>1. UNCHANGED bridgeVars
      BY <1>5, <2>2, SameBridge DEF OnLlmChunk, bridgeVars
    <3>2. Bridge!ChunksAreOf(WordsOf(p))'
      BY <1>0, <3>1 DEF Bridge!ChunksAreOf, bridgeVars, formal
    <3> QED
      BY <1>0, <1>5, <3>2 DEF OneAnswer
  <2> QED BY <2>1, <2>2
<1>6. CASE Generate
  <2>1. /\ infer = "running" /\ produced < MaxChunks /\ UNCHANGED <<infer, running>>
        /\ OnLlmChunk("NORMAL", <<running, produced + 1>>)
    BY <1>6 DEF Generate
  <2>2. <<running, produced + 1>> \in WordsOf(p) /\ <<running, produced + 1>> \in Chunk
    <3>1. p = running
      BY <1>0, <2>1
    <3>2. produced + 1 \in 1 .. MaxChunks
      BY <2>1, WorkerAssumption DEF LinesOK
    <3> QED
      BY <2>1, <3>1, <3>2, AnsweredLine DEF WordsOf
  <2> QED
    BY <1>0, <1>5, <2>1, <2>2 DEF Bridge!RunState
<1>7. CASE EndOfAnswer
  <2>1. infer = "running" /\ running' = running /\ p = running
    BY <1>0, <1>7 DEF EndOfAnswer
  <2>2. CASE OnLlmChunk("FINISH", NoChunk) \/ OnLlmChunk("ERROR", NoChunk)
    BY <1>5, <2>1, <2>2 DEF Bridge!RunState
  <2>3. CASE UNCHANGED bridgeVars
    BY <1>1, <2>1, <2>3
  <2> QED
    BY <1>7, <2>2, <2>3 DEF EndOfAnswer
<1>8. CASE RunPromptNow \/ SpawnInfer \/ QueuePrompt \/ TakeQueued \/ ShutdownAbort
  BY <1>1, <1>8 DEF RunPromptNow, SpawnInfer, QueuePrompt, TakeQueued, ShutdownAbort, inferVars
<1>9. CASE InitDone \/ RequestInitializeAsync \/ DropQueuedPrompts \/ BeginShutdown
  BY <1>1, <1>9 DEF InitDone, RequestInitializeAsync, DropQueuedPrompts, BeginShutdown, inferVars
<1>10. CASE EnterRun \/ TakePending \/ DeferQueued \/ DropOnError \/ RunReturns \/ ExitInfer
  BY <1>1, <1>10 DEF EnterRun, TakePending, DeferQueued, DropOnError, RunReturns, ExitInfer
<1>11. CASE UNCHANGED vars
  BY <1>1, <1>11 DEF vars, inferVars
<1> QED
  BY <1>2, <1>3, <1>4, <1>6, <1>7, <1>8, <1>9, <1>10, <1>11 DEF Next, MainStep, Infer

\* VoiceReplyBridge under LlmWorker: the words handed to the speech worker since a generation
\* began are words of one answer, although the last generation's words wait in the queue until
\* OnRunStarted, and SpawnInfer has put the next line in their place by then.
THEOREM WordsAreOfOneAnswer == Spec => []OneAnswerAtATime
<1>1. OneAnswer => OneAnswerAtATime
  <2> SUFFICES ASSUME OneAnswer, NEW i \in DOMAIN handed, NEW j \in DOMAIN handed
               PROVE  handed[i][1] = handed[j][1]
    BY DEF OneAnswerAtATime
  <2>1. PICK p \in Slot : handed \in Seq(WordsOf(p))
    BY DEF OneAnswer, Bridge!ChunksAreOf
  <2>2. handed[i] \in WordsOf(p) /\ handed[j] \in WordsOf(p)
    BY <2>1
  <2> QED
    BY <2>2 DEF WordsOf
<1>2. Init => OneAnswer
  <2> SUFFICES ASSUME Init PROVE OneAnswer
    OBVIOUS
  <2>1. <<>> \in Seq(WordsOf(NoPrompt)) /\ Len(<<>>) = 0
    OBVIOUS
  <2>2. \A n \in 1 .. Len(events) : FALSE
    BY <2>1 DEF Init, BridgeInit
  <2>3. Bridge!ChunksAreOf(WordsOf(NoPrompt))
    BY <2>1, <2>2 DEF Init, BridgeInit, Bridge!ChunksAreOf
  <2> QED
    BY <2>3 DEF Init, OneAnswer, Slot
<1>3. OneAnswer /\ CallerInv /\ BridgeInv /\ LinesOK /\ [Next]_vars => OneAnswer'
  BY StepOneAnswer
<1> QED
  BY <1>1, <1>2, <1>3, AlwaysBridge, PTL DEF Spec
=============================================================================

------------------------------ MODULE LlmWorker ------------------------------
(***************************************************************************)
(* adapters/llm/llm_worker.{h,cpp} and rkllm_session.cpp, with the voice   *)
(* bridge they drive: how a user's line becomes a generation.              *)
(*                                                                         *)
(* Three threads meet here: the main thread submits, polls, drops and      *)
(* shuts down; the inference thread (one per generation) runs rkllm_run    *)
(* and is called back from inside it; an init thread loads the model once. *)
(* A step is one critical section of mutex_ together with the work of its  *)
(* thread no other thread can see.  What happens between two critical      *)
(* sections of one call is therefore interleaved.                          *)
(***************************************************************************)
EXTENDS VoiceReplyBridge, FiniteSets

CONSTANTS Prompts,     \* bound: the lines the user types, each once
          NoPrompt,    \* an empty slot
          MaxChunks,   \* bound: chunks of one answer (max_new_tokens)
          GateStates   \* the init states in which the gate lets a line through

InitState == {"Uninitialized", "Initializing", "Ready", "Failed"}

ASSUME WorkerAssumption ==
    /\ NoPrompt \notin Prompts /\ IsFiniteSet(Prompts)
    /\ MaxChunks \in Nat
    /\ Chunk = Prompts \X (1 .. MaxChunks)
    /\ GateStates \subseteq InitState \ {"Failed"}

VARIABLES
    init_state,   \* init_state_
    init_future,  \* init_future_: none, running, or the result it holds
    handle,       \* RkllmSession::handle_ is live
    infer_busy,   \* infer_busy_
    pending,      \* pending_prompt_ while has_pending_, else NoPrompt
    deferred,     \* deferred_prompt_ while deferred_run_, else NoPrompt
    main,         \* where the main thread is
    prompt,       \* the line the main thread holds
    caller,       \* which call RunPromptNow returns to
    infer,        \* where the inference thread is
    running,      \* the line it answers
    queued,       \* queued_prompt: a local of OnLlmChunk
    produced,     \* chunks generated so far
    fresh,        \* history: lines not yet typed
    lost          \* history: lines that PollDeferred took and could not run

initVars == <<init_state, init_future>>
queueVars == <<pending, deferred>>
mainVars == <<main, prompt, caller>>
inferVars == <<infer, running, queued, produced>>
history == <<fresh, lost, run>>  \* run: see VoiceReplyBridge
vars == <<bridgeVars, initVars, handle, infer_busy, queueVars, mainVars, inferVars, history>>

Slot == Prompts \cup {NoPrompt}

MainAt == {"idle", "run", "queue", "take", "join", "wait_init", "wait_infer", "down"}
InferAt == {"none", "spawned", "entering", "running", "finish", "defer", "error",
            "ending", "returned", "exited"}
InRun == {"running", "finish", "defer", "error", "ending"}  \* inside rkllm_run

TypeOK ==
    /\ BridgeTypeOK
    /\ init_state \in InitState
    /\ init_future \in {"none", "running", "ok", "failed"}
    /\ {handle, infer_busy} \subseteq BOOLEAN
    /\ {pending, deferred, prompt, running, queued} \subseteq Slot
    /\ main \in MainAt
    /\ caller \in {"submit", "poll"}
    /\ infer \in InferAt
    /\ produced \in 0 .. MaxChunks
    /\ fresh \subseteq Prompts
    /\ lost \subseteq Prompts
    /\ run \in RunStatus

Init ==
    /\ BridgeInit
    /\ init_state = "Uninitialized" /\ init_future = "none"
    /\ handle = FALSE /\ infer_busy = FALSE
    /\ pending = NoPrompt /\ deferred = NoPrompt
    /\ main = "idle" /\ prompt = NoPrompt /\ caller = "poll"
    /\ infer = "none" /\ running = NoPrompt /\ queued = NoPrompt
    /\ produced = 0
    /\ fresh = Prompts /\ lost = {} /\ run = "none"

-----------------------------------------------------------------------------
\* Initialisation

\* RequestInitializeAsync: a missing model file is found before any thread starts;
\* Failed is final.
RequestInitializeFrom(state) ==
    IF state # "Uninitialized"
    THEN init_state' = state /\ UNCHANGED init_future
    ELSE \/ init_state' = "Initializing" /\ init_future' = "running"
         \/ init_state' = "Failed" /\ UNCHANGED init_future

\* The init state PollInitState leaves behind.
PolledInitState ==
    IF init_state = "Initializing" /\ init_future = "ok" THEN "Ready"
    ELSE IF init_state = "Initializing" /\ init_future = "failed" THEN "Failed"
    ELSE init_state

PollInitState ==
    /\ init_state' = PolledInitState
    /\ init_future' = IF PolledInitState # init_state THEN "none" ELSE init_future

\* The init thread: RkllmSession::Init.
InitDone ==
    /\ init_future = "running"
    /\ \/ init_future' = "ok" /\ handle' = TRUE
       \/ init_future' = "failed" /\ UNCHANGED handle
    /\ UNCHANGED <<bridgeVars, init_state, infer_busy, queueVars, mainVars, inferVars, history>>

\* Called at startup (preload) and while the face slot is on.
RequestInitializeAsync ==
    /\ main = "idle"
    /\ RequestInitializeFrom(init_state)
    /\ UNCHANGED <<bridgeVars, handle, infer_busy, queueVars, mainVars, inferVars, history>>

-----------------------------------------------------------------------------
\* Main thread: submitting a line

\* SubmitPrompt up to RunPromptNow: the old answer is preempted first.
Submit(p) ==
    /\ main = "idle"
    /\ p \in fresh
    /\ init_state \in GateStates
    /\ BeginTurn
    /\ main' = "run" /\ prompt' = p /\ caller' = "submit"
    /\ fresh' = fresh \ {p}
    /\ UNCHANGED <<initVars, handle, infer_busy, queueVars, inferVars, lost, run>>

\* RunPromptNow returned false: SubmitPrompt goes on to the queue, PollDeferred
\* ignores the result and the line is gone.
RunRefused ==
    IF caller = "submit"
    THEN main' = "queue" /\ UNCHANGED <<prompt, lost>>
    ELSE main' = "idle" /\ prompt' = NoPrompt /\ lost' = lost \cup {prompt}

\* Mutation: the busy check is missing.
RunPromptNowUnchecked ==
    /\ main = "run"
    /\ PolledInitState = "Ready" /\ PollInitState
    /\ infer_busy' = TRUE /\ main' = "join"
    /\ UNCHANGED <<bridgeVars, handle, queueVars, prompt, caller, inferVars, history>>

\* RunPromptNow up to the busy check.
RunPromptNow ==
    /\ main = "run"
    /\ IF PolledInitState # "Ready"
       THEN /\ \/ PolledInitState = "Uninitialized" /\ RequestInitializeFrom("Uninitialized")
               \/ PolledInitState # "Uninitialized" /\ PollInitState
            /\ RunRefused
            /\ UNCHANGED infer_busy
       ELSE /\ PollInitState
            /\ IF infer_busy
               THEN RunRefused /\ UNCHANGED infer_busy
               ELSE infer_busy' = TRUE /\ main' = "join" /\ UNCHANGED <<prompt, lost>>
    /\ UNCHANGED <<bridgeVars, handle, queueVars, caller, inferVars, fresh, run>>

\* The rest of RunPromptNow: join the thread of the last generation, start this one.
SpawnInfer ==
    /\ main = "join"
    /\ infer \in {"none", "exited"}
    /\ infer' = "spawned" /\ running' = prompt /\ produced' = 0
    /\ main' = "idle" /\ prompt' = NoPrompt
    /\ UNCHANGED <<bridgeVars, initVars, handle, infer_busy, queueVars, caller, queued, history>>

\* The last critical section of SubmitPrompt: a second look at infer_busy_.  When the
\* generation ended between the two looks the line is neither run nor queued.
QueuePrompt ==
    /\ main = "queue"
    /\ IF infer_busy \/ init_state # "Ready"
       THEN pending' = prompt
       ELSE UNCHANGED pending
    /\ main' = "idle" /\ prompt' = NoPrompt
    /\ UNCHANGED <<bridgeVars, initVars, handle, infer_busy, deferred, caller, inferVars,
                   history>>

-----------------------------------------------------------------------------
\* Main thread: once per frame, and when the gate locks

\* PollDeferred up to its critical section.
PollVoice ==
    /\ main = "idle"
    /\ PollInitState
    /\ Poll
    /\ main' = "take"
    /\ UNCHANGED <<handle, infer_busy, queueVars, prompt, caller, inferVars, history>>

\* Mutation: the line stays in the queue it was taken from.
TakeQueuedKeepsPending ==
    /\ main = "take"
    /\ IF deferred # NoPrompt
       THEN prompt' = deferred /\ deferred' = NoPrompt /\ main' = "run" /\ caller' = "poll"
       ELSE IF pending # NoPrompt /\ init_state = "Ready" /\ ~infer_busy
       THEN prompt' = pending /\ main' = "run" /\ caller' = "poll" /\ UNCHANGED deferred
       ELSE main' = "idle" /\ UNCHANGED <<deferred, prompt, caller>>
    /\ UNCHANGED <<bridgeVars, initVars, handle, infer_busy, pending, inferVars, history>>

\* Mutation: only a deferred line is ever taken.
TakeQueuedOnlyDeferred ==
    /\ main = "take"
    /\ IF deferred # NoPrompt
       THEN prompt' = deferred /\ deferred' = NoPrompt /\ main' = "run" /\ caller' = "poll"
       ELSE main' = "idle" /\ UNCHANGED <<deferred, prompt, caller>>
    /\ UNCHANGED <<bridgeVars, initVars, handle, infer_busy, pending, inferVars, history>>

\* The critical section of PollDeferred: a deferred line is taken whether or not a
\* generation is running, a pending one only when none is.
TakeQueued ==
    /\ main = "take"
    /\ IF deferred # NoPrompt
       THEN /\ prompt' = deferred /\ deferred' = NoPrompt
            /\ main' = "run" /\ caller' = "poll"
            /\ UNCHANGED pending
       ELSE IF pending # NoPrompt /\ init_state = "Ready" /\ ~infer_busy
       THEN /\ prompt' = pending /\ pending' = NoPrompt
            /\ main' = "run" /\ caller' = "poll"
            /\ UNCHANGED deferred
       ELSE /\ main' = "idle"
            /\ UNCHANGED <<queueVars, prompt, caller>>
    /\ UNCHANGED <<bridgeVars, initVars, handle, infer_busy, inferVars, history>>

\* DropQueuedPrompts, when LlmGreeting locks; a line that OnLlmChunk is just handing
\* over is not seen.
DropQueuedPrompts ==
    /\ main = "idle"
    /\ pending' = NoPrompt /\ deferred' = NoPrompt
    /\ UNCHANGED <<bridgeVars, initVars, handle, infer_busy, mainVars, inferVars, history>>

-----------------------------------------------------------------------------
\* Inference thread

\* The first critical section of the thread: the bridge adopts the desired session.
StartRun ==
    /\ infer = "spawned"
    /\ infer' = "entering" /\ run' = "open"
    /\ OnRunStarted
    /\ UNCHANGED <<initVars, handle, infer_busy, queueVars, mainVars, running, queued,
                   produced, fresh, lost>>

\* RunPromptSync: without a handle it fails at once, otherwise rkllm_run begins.
EnterRun ==
    /\ infer = "entering"
    /\ infer' = IF handle THEN "running" ELSE "returned"
    /\ run' = IF handle THEN run ELSE "stopped"
    /\ UNCHANGED <<bridgeVars, initVars, handle, infer_busy, queueVars, mainVars, running,
                   queued, produced, fresh, lost>>

\* A NORMAL callback.
Generate ==
    /\ infer = "running"
    /\ produced < MaxChunks
    /\ produced' = produced + 1
    /\ OnLlmChunk("NORMAL", <<running, produced + 1>>)
    /\ UNCHANGED <<initVars, handle, infer_busy, queueVars, mainVars, infer, running, queued, history>>

\* The FINISH or ERROR callback, or none at all: rkllm_run may fail before or between the
\* callbacks, and a generation that Shutdown or RequestAbortGeneration has aborted just returns.
EndOfAnswer ==
    /\ infer = "running"
    /\ \/ infer' = "finish" /\ run' = "finished" /\ OnLlmChunk("FINISH", NoChunk)
       \/ infer' = "error" /\ run' = "failed" /\ OnLlmChunk("ERROR", NoChunk)
       \/ infer' = "ending" /\ run' = "stopped" /\ UNCHANGED bridgeVars
    /\ UNCHANGED <<initVars, handle, infer_busy, queueVars, mainVars, running, queued,
                   produced, fresh, lost>>

\* OnLlmChunk(FINISH), first critical section: take the pending line.
TakePending ==
    /\ infer = "finish"
    /\ infer' = IF pending = NoPrompt THEN "ending" ELSE "defer"
    /\ queued' = pending /\ pending' = NoPrompt
    /\ UNCHANGED <<bridgeVars, initVars, handle, infer_busy, deferred, mainVars, running,
                   produced, history>>

\* OnLlmChunk(FINISH), second critical section: hand it to the main thread.
DeferQueued ==
    /\ infer = "defer"
    /\ infer' = "ending"
    /\ deferred' = queued /\ queued' = NoPrompt
    /\ UNCHANGED <<bridgeVars, initVars, handle, infer_busy, pending, mainVars, running,
                   produced, history>>

\* OnLlmChunk(ERROR): the pending line is dropped with the failed answer.
DropOnError ==
    /\ infer = "error"
    /\ infer' = "ending"
    /\ pending' = NoPrompt
    /\ UNCHANGED <<bridgeVars, initVars, handle, infer_busy, deferred, mainVars, running,
                   queued, produced, history>>

\* rkllm_run returns.
RunReturns ==
    /\ infer = "ending"
    /\ infer' = "returned"
    /\ UNCHANGED <<bridgeVars, initVars, handle, infer_busy, queueVars, mainVars, running,
                   queued, produced, history>>

\* The last critical section of the thread.
ExitInfer ==
    /\ infer = "returned"
    /\ infer' = "exited"
    /\ infer_busy' = FALSE
    /\ running' = NoPrompt
    /\ UNCHANGED <<bridgeVars, initVars, handle, queueVars, mainVars, queued, produced, history>>

-----------------------------------------------------------------------------
\* Main thread: shutdown

\* Shutdown is called once the pipeline has returned.
BeginShutdown ==
    /\ main = "idle"
    /\ main' = "wait_init"
    /\ UNCHANGED <<bridgeVars, initVars, handle, infer_busy, queueVars, prompt, caller,
                   inferVars, history>>

\* Mutation: only a successful load ends the wait.
ShutdownAbortWaitsForOk ==
    /\ main = "wait_init"
    /\ init_future \in {"none", "ok"}
    /\ main' = "wait_infer" /\ init_future' = "none"
    /\ UNCHANGED <<bridgeVars, init_state, handle, infer_busy, queueVars, prompt, caller,
                   inferVars, history>>

\* It waits for the init thread, then asks the generation to return (rkllm_abort), which it may do
\* at any time as it is (EndOfAnswer).
ShutdownAbort ==
    /\ main = "wait_init"
    /\ init_future # "running"
    /\ main' = "wait_infer" /\ init_future' = "none"
    /\ UNCHANGED <<bridgeVars, init_state, handle, infer_busy, queueVars, prompt, caller,
                   inferVars, history>>

\* Mutation: the session is destroyed without joining the inference thread.
ShutdownUnjoined ==
    /\ main = "wait_infer"
    /\ main' = "down" /\ handle' = FALSE
    /\ init_state' = "Uninitialized" /\ infer_busy' = FALSE
    /\ pending' = NoPrompt /\ deferred' = NoPrompt
    /\ Reset
    /\ UNCHANGED <<init_future, prompt, caller, inferVars, history>>

\* JoinInferThread, RkllmSession::Shutdown, and the reset of every field.
ShutdownDestroy ==
    /\ main = "wait_infer"
    /\ infer \in {"none", "exited"}
    /\ main' = "down" /\ infer' = "none" /\ handle' = FALSE
    /\ init_state' = "Uninitialized" /\ infer_busy' = FALSE
    /\ pending' = NoPrompt /\ deferred' = NoPrompt
    /\ Reset
    /\ UNCHANGED <<init_future, prompt, caller, running, queued, produced, history>>

\* RequestAbortGeneration: ~Pipeline calls it after Shutdown; no handle is left to abort.
RequestAbortGeneration ==
    /\ main = "down"
    /\ Cancel
    /\ UNCHANGED <<initVars, handle, infer_busy, queueVars, mainVars, inferVars, history>>

-----------------------------------------------------------------------------
Infer ==
    \/ StartRun \/ EnterRun \/ Generate \/ EndOfAnswer \/ TakePending \/ DeferQueued
    \/ DropOnError \/ RunReturns \/ ExitInfer

\* What the main thread does on its own: a call it is in goes on, a frame polls.
MainStep ==
    \/ RunPromptNow \/ SpawnInfer \/ QueuePrompt \/ PollVoice \/ TakeQueued
    \/ ShutdownAbort \/ ShutdownDestroy

Next ==
    \/ InitDone
    \/ RequestInitializeAsync
    \/ \E p \in Prompts : Submit(p)
    \/ DropQueuedPrompts
    \/ BeginShutdown
    \/ RequestAbortGeneration
    \/ MainStep
    \/ Infer

Spec == Init /\ [][Next]_vars

\* The threads are scheduled, a model load and a generation end (the latter after
\* at most max_new_tokens chunks), and the main loop polls on every frame.
FairSpec == Spec /\ WF_vars(Infer) /\ WF_vars(InitDone) /\ WF_vars(MainStep)

-----------------------------------------------------------------------------
\* A line waits, travels or runs in one place only, so it is never answered twice.
Places == <<prompt, pending, deferred, queued, running>>

PromptInOnePlace ==
    \A i, j \in DOMAIN Places : Places[i] = Places[j] => i = j \/ Places[i] = NoPrompt

\* RunPromptNow joins a thread that has already left its last critical section: the
\* frame loop never waits for a generation.
MainNeverWaitsForGeneration == main = "join" => infer \in {"none", "exited"}

\* The session is destroyed only when no thread is inside rkllm_run, and a
\* generation runs only on a loaded model.
RunHasHandle == infer \in InRun => handle

\* The words handed to the speech worker since a generation began are all words of
\* one answer.
OneAnswerAtATime ==
    \A i, j \in DOMAIN handed : handed[i][1] = handed[j][1]

\* After Shutdown no late callback has put a line or an event back.
DownIsQuiet ==
    main = "down" =>
        /\ ~infer_busy /\ ~handle
        /\ infer = "none"
        /\ pending = NoPrompt /\ deferred = NoPrompt /\ queued = NoPrompt
        /\ events = <<>>

\* A line queued on a loaded model does not wait forever.
QueuedPromptLeaves == (pending # NoPrompt /\ init_state = "Ready") ~> (pending = NoPrompt)

\* Shutdown returns, wherever the init and the inference thread are when it starts.
ShutdownReturns == (main = "wait_init") ~> (main = "down")

-----------------------------------------------------------------------------
\* What a comment says, and the code does not keep.

\* llm_worker.h: PollDeferred sends the line queued behind a finished answer.
DeferredLineSent == lost = {}
=============================================================================

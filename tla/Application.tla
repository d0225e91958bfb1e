------------------------------ MODULE Application ------------------------------
(***************************************************************************)
(* app/main.cc around the pipeline: the objects main() builds and the      *)
(* order in which it destroys them on each way out, the threads of the     *)
(* workers that use them, and the signals that end the program.            *)
(*                                                                         *)
(* The workers are told here by their threads only (see LlmWorker,         *)
(* TtsWorker and VoiceReply); the destructor of an object runs when it is  *)
(* the last one alive.  An exception out of the try block is not modelled. *)
(***************************************************************************)
EXTENDS Pipeline

VARIABLES
    up,          \* where main() is
    options,     \* model.llm.enabled and model.llm.tts_enabled
    alive,       \* the objects of main() that exist
    loading,     \* the workers whose async init runs
    loaded,      \* the workers that have a model
    generating,  \* the inference thread of LlmWorker is in RunPromptSync
    speaking,    \* the threads of TtsWorker run
    interrupts,  \* g_sigint_count
    used         \* history: objects that were used after their end

mainVars == <<up, options, alive, used>>
workerVars == <<loading, loaded, generating, speaking>>
appVars == <<mainVars, workerVars, interrupts>>
allVars == <<vars, appVars>>

\* The order of declaration.
Objects == <<"coordinator", "llm", "tts", "bridge", "camera", "display", "vision_loop", "pipeline", "console">>
Last == CHOOSE o \in alive : \A p \in alive :
            \E i, j \in DOMAIN Objects : Objects[i] = p /\ Objects[j] = o /\ i <= j

Workers == {"llm", "tts"}
HasTts == "tts" \in options

\* What an action of main() uses; the destroyed ones among them are remembered.
Uses(objects) == used' = used \cup (objects \ alive)

AppInit ==
    /\ Init
    /\ up = "objects" /\ alive = {} /\ used = {}
    /\ options \in {{}, {"llm"}, {"llm", "tts"}}
    /\ loading = {} /\ loaded = {} /\ generating = FALSE /\ speaking = FALSE
    /\ interrupts = 0

-----------------------------------------------------------------------------
(* Startup *)

\* The coordinator, the workers and the bridge; each worker may be told to load at once.
CreateObjects ==
    /\ up = "objects"
    /\ up' = "camera"
    /\ alive' = {"coordinator", "bridge"} \cup options
    /\ loading' \in SUBSET options
    /\ UNCHANGED <<vars, options, used, loaded, generating, speaking, interrupts>>

\* camera.Open and coordinator.Init: main() returns when one of them fails.
OpenCamera ==
    /\ up = "camera"
    /\ alive' = alive \cup {"camera"}
    /\ up' \in {"display", "unwind"}
    /\ UNCHANGED <<vars, options, used, workerVars, interrupts>>

InitCoordinator ==
    /\ up = "display"
    /\ \/ up' = "run" /\ alive' = alive \cup {"display", "vision_loop", "pipeline", "console"}
       \/ up' = "unwind" /\ alive' = alive \cup {"display"}
    /\ UNCHANGED <<vars, options, used, workerVars, interrupts>>

-----------------------------------------------------------------------------
(* pipeline.Run *)

\* A step of the pipeline, up to the end of Run.
Running(step) == up = "run" /\ step /\ UNCHANGED appVars

\* What the main thread does between frames: it asks for a model, sees that the voice is loaded
\* and starts its threads, and gives LlmWorker a prompt.
CallWorkers ==
    /\ up = "run" /\ main \in {"single", "look", "take"}
    /\ \/ \E w \in options \ (loading \cup loaded) : loading' = loading \cup {w} /\ UNCHANGED <<generating, speaking>>
       \/ "tts" \in loaded /\ ~speaking /\ speaking' = TRUE /\ UNCHANGED <<loading, generating>>
       \/ /\ "llm" \in loaded /\ ~generating /\ generating' = TRUE
          /\ UNCHANGED <<loading, speaking>>
    /\ UNCHANGED <<vars, mainVars, loaded, interrupts>>

\* ESC in the window, or what it leads to.
PressEscape ==
    /\ up = "run" /\ main \in {"single", "look", "take"}
    /\ RequestStop
    /\ UNCHANGED appVars

-----------------------------------------------------------------------------
(* The threads of the workers *)

\* An async init ends, with a model or without.
LoadEnds(w) ==
    /\ w \in loading
    /\ loading' = loading \ {w}
    /\ loaded' \in {loaded, loaded \cup {w}}
    /\ UNCHANGED <<vars, mainVars, generating, speaking, interrupts>>

\* RunPromptSync returns: all is said, or it was aborted.
GenerationEnds ==
    /\ generating
    /\ generating' = FALSE
    /\ UNCHANGED <<vars, mainVars, loading, loaded, speaking, interrupts>>

-----------------------------------------------------------------------------
(* Shutdown *)

\* vision_loop.Shutdown and camera.Release.
ShutdownCamera ==
    /\ up = "run" /\ main = "returned"
    /\ up' = "shut_tts"
    /\ UNCHANGED <<vars, options, alive, used, workerVars, interrupts>>

\* TtsWorker::Shutdown: its threads are joined and a load is waited for.
StopTts ==
    /\ "tts" \notin loading
    /\ speaking' = FALSE /\ loaded' = loaded \ {"tts"}
    /\ UNCHANGED <<loading, generating>>

\* LlmWorker::Shutdown: a load is waited for, the generation aborted and joined, the bridge reset.
StopLlm ==
    /\ "llm" \notin loading /\ ~generating
    /\ loaded' = loaded \ {"llm"}
    /\ UNCHANGED <<loading, generating, speaking>>

BridgeOfLlm == IF HasTts THEN {"bridge"} ELSE {}

ShutdownTts ==
    /\ up = "shut_tts"
    /\ up' = "shut_llm"
    /\ IF HasTts THEN StopTts ELSE UNCHANGED workerVars
    /\ UNCHANGED <<vars, options, alive, used, interrupts>>

\* Mutation: main() does not shut LlmWorker down.
ShutdownLlmSkipped ==
    /\ up = "shut_llm"
    /\ up' = "unwind"
    /\ ShutdownWorkers
    /\ UNCHANGED <<options, alive, used, workerVars, interrupts>>

ShutdownLlm ==
    /\ up = "shut_llm"
    /\ up' = "unwind"
    /\ ShutdownWorkers
    /\ IF "llm" \in options THEN StopLlm /\ Uses(BridgeOfLlm) ELSE UNCHANGED <<workerVars, used>>
    /\ UNCHANGED <<options, alive, interrupts>>

\* ~Pipeline: Stop calls on_stop_, which aborts a generation and cancels what is spoken.
StopPipeline ==
    /\ up = "unwind" /\ Stop
    /\ Uses({"coordinator"} \cup options \cup BridgeOfLlm)
    /\ UNCHANGED <<up, options, alive, loading, loaded, generating, speaking, interrupts>>

\* The destructor of the last object.  Those of the workers call Shutdown again.
Destructor(o) ==
    \/ o = "pipeline" /\ PushQuitTasks /\ UNCHANGED <<used, workerVars>>
    \/ o = "tts" /\ StopTts /\ UNCHANGED <<vars, used>>
    \/ o = "llm" /\ StopLlm /\ Uses(BridgeOfLlm) /\ UNCHANGED vars
    \/ o \notin {"pipeline"} \cup Workers /\ UNCHANGED <<vars, used, workerVars>>

DestroyLast ==
    /\ up = "unwind" /\ alive # {}
    /\ Destructor(Last)
    /\ alive' = alive \ {Last}
    /\ UNCHANGED <<up, options, interrupts>>

Exit ==
    /\ up = "unwind" /\ alive = {}
    /\ up' = "exited"
    /\ UNCHANGED <<vars, options, alive, used, workerVars, interrupts>>

\* stop_handler: the second signal ends the process on the spot.
Interrupt ==
    /\ up # "exited" /\ interrupts < 2
    /\ interrupts' = interrupts + 1
    /\ up' = IF interrupts = 1 THEN "forced" ELSE up
    /\ \/ RequestStop
       \/ stop_requested /\ UNCHANGED vars
    /\ UNCHANGED <<options, alive, used, workerVars>>

-----------------------------------------------------------------------------
RunPreprocess == Running(Preprocess)
RunInference(i) == Running(Inference(i))
RunMain == Running(Run \/ RunSingleThreaded \/ SingleFrame \/ MainLooksForStop
                   \/ ShowFrame \/ JoinWorkerThreads)

MainEnds ==
    \/ CreateObjects \/ OpenCamera \/ InitCoordinator \/ RunMain
    \/ ShutdownCamera \/ ShutdownTts \/ ShutdownLlm \/ StopPipeline \/ DestroyLast \/ Exit

WorkerEnds == (\E w \in Workers : LoadEnds(w)) \/ GenerationEnds

AppNext ==
    /\ up # "forced"
    /\ \/ RunPreprocess \/ (\E i \in Threads : RunInference(i)) \/ MainEnds
       \/ CallWorkers \/ PressEscape \/ WorkerEnds \/ Interrupt

AppSpec == AppInit /\ [][AppNext]_allVars

\* Every thread is scheduled; a load ends, and so does a generation, by itself or aborted.
FairAppSpec ==
    /\ AppSpec
    /\ WF_allVars(up # "forced" /\ RunPreprocess) /\ WF_allVars(up # "forced" /\ MainEnds)
    /\ \A i \in 0 .. N - 1 : WF_allVars(up # "forced" /\ RunInference(i))
    /\ \A w \in Workers : WF_allVars(up # "forced" /\ LoadEnds(w))
    /\ WF_allVars(up # "forced" /\ GenerationEnds)

-----------------------------------------------------------------------------
\* Whichever way main() takes out, a thread that runs has the objects it works on: the camera
\* and the slots for the pipeline, the bridge for a generation, the worker for a load and for
\* the voice.
ThreadsHaveTheirObjects ==
    /\ pre \in {"read", "push"} => {"camera", "pipeline"} \subseteq alive
    /\ \A i \in Threads : infer[i] \notin {"none", "exited"} => {"coordinator", "pipeline"} \subseteq alive
    /\ generating => {"llm"} \cup BridgeOfLlm \subseteq alive
    /\ loading \subseteq alive
    /\ speaking => "tts" \in alive

\* troubleshooting.md, "Ctrl+C does not exit": whatever is full, empty, loading, generating or
\* speaking at that moment, and in whichever mode, a stop request ends the program.
StopEndsProgram == stop_requested ~> up \in {"exited", "forced"}

\* troubleshooting.md, "Safe teardown order for GUI, camera, and workers".
SafeTeardownOrder == used = {}
=============================================================================

------------------------------- MODULE Pipeline -------------------------------
(***************************************************************************)
(* engine/pipeline.cpp with bounded_queue.h and thread_pool.{h,cpp}: a     *)
(* frame goes from the preprocess thread through the queue of one of the   *)
(* inference threads to the main thread.  A full queue drops the frame; a  *)
(* stop request is noticed by polling only.  After Run returns, main()     *)
(* shuts the workers down and ~Pipeline stops what is left.  With          *)
(* single_thread_ set the main thread does all of it alone.                *)
(*                                                                         *)
(* A step is one queue operation or one look at the stop flags.  A TryPop  *)
(* waits up to 200 ms after the look, and gives up on an empty queue only; *)
(* a frame the camera fails to give changes nothing.                       *)
(***************************************************************************)
EXTENDS Integers, Sequences, FiniteSets

CONSTANTS N,         \* num_infer_threads_
          InferCap,  \* capacity of an infer queue
          PostCap,   \* capacity of the post queue
          Frames     \* bound: the camera gives frames 0 .. Frames - 1

ASSUME PipelineAssumption ==
    /\ N \in Nat \ {0}
    /\ InferCap \in Nat \ {0} /\ PostCap \in Nat \ {0}
    /\ Frames \in Nat

VARIABLES
    stop_requested,  \* g_stop_requested, the external stop flag
    stop,            \* stop_
    next_id,         \* frame_id of PreprocessLoop
    pre,             \* where the preprocess thread is
    pre_task,        \* the frame it holds
    infer_queues,    \* infer_queues_
    infer,           \* where each inference thread is
    task,            \* the frame each holds
    post_queue,      \* post_queue_
    main,            \* where the main thread is
    shown            \* history: the frames given to post_task_, in order

preVars == <<next_id, pre, pre_task>>
inferVars == <<infer, task>>
vars == <<stop_requested, stop, preVars, infer_queues, inferVars, post_queue, main, shown>>

Threads == 0 .. N - 1
Quit == -1     \* the sentinel frame_id
NoFrame == -2
Id == Quit .. Frames - 1

TypeOK ==
    /\ {stop_requested, stop} \subseteq BOOLEAN
    /\ next_id \in 0 .. Frames
    /\ pre \in {"none", "read", "push", "exited"}
    /\ pre_task \in Id \cup {NoFrame}
    /\ infer_queues \in [Threads -> Seq(Id)]
    /\ \A i \in Threads : Len(infer_queues[i]) <= InferCap
    /\ infer \in [Threads -> {"none", "pooled", "look", "pop", "run", "push", "exited"}]
    /\ task \in [Threads -> Id \cup {NoFrame}]
    /\ post_queue \in Seq(Id) /\ Len(post_queue) <= PostCap
    /\ main \in {"begin", "single", "look", "take", "join", "returned", "shut", "stopping", "done"}
    /\ shown \in Seq(Id)

Init ==
    /\ stop_requested = FALSE /\ stop = FALSE
    /\ next_id = 0 /\ pre = "none" /\ pre_task = NoFrame
    /\ infer_queues = [i \in Threads |-> <<>>]
    /\ infer = [i \in Threads |-> "none"] /\ task = [i \in Threads |-> NoFrame]
    /\ post_queue = <<>>
    /\ main = "begin"
    /\ shown = <<>>

ShouldStop == stop \/ stop_requested

\* A signal, or ESC in the window.
RequestStop ==
    /\ ~stop_requested
    /\ stop_requested' = TRUE
    /\ UNCHANGED <<stop, preVars, infer_queues, inferVars, post_queue, main, shown>>

-----------------------------------------------------------------------------
\* Preprocess thread: PreprocessLoop

ReadFrame ==
    /\ pre = "read"
    /\ \/ ShouldStop /\ pre' = "exited" /\ UNCHANGED <<next_id, pre_task>>
       \/ /\ ~ShouldStop /\ next_id < Frames
          /\ pre' = "push" /\ pre_task' = next_id /\ next_id' = next_id + 1
    /\ UNCHANGED <<stop_requested, stop, infer_queues, inferVars, post_queue, main, shown>>

\* Mutation: Push without a timeout, which blocks on a full queue.
PushToInferBlocking ==
    LET i == pre_task % N IN
    /\ pre = "push"
    /\ Len(infer_queues[i]) < InferCap
    /\ infer_queues' = [infer_queues EXCEPT ![i] = Append(@, pre_task)]
    /\ pre' = "read" /\ pre_task' = NoFrame
    /\ UNCHANGED <<stop_requested, stop, next_id, inferVars, post_queue, main, shown>>

\* TryPush to the queue of the frame's thread; a full queue drops the frame.
PushToInfer ==
    LET i == pre_task % N
        fits == Len(infer_queues[i]) < InferCap
    IN  /\ pre = "push"
        /\ infer_queues' = IF fits
                           THEN [infer_queues EXCEPT ![i] = Append(@, pre_task)]
                           ELSE infer_queues
        /\ pre' = IF ~fits /\ ShouldStop THEN "exited" ELSE "read"
        /\ pre_task' = NoFrame
        /\ UNCHANGED <<stop_requested, stop, next_id, inferVars, post_queue, main, shown>>

-----------------------------------------------------------------------------
\* Inference threads: InferenceLoop on the pool

\* Thread i goes to `at` holding the frame f.
Move(i, at, f) == infer' = [infer EXCEPT ![i] = at] /\ task' = [task EXCEPT ![i] = f]

\* A pool thread takes the loop it was given.
TakeLoop(i) ==
    /\ infer[i] = "pooled"
    /\ Move(i, "look", NoFrame)
    /\ UNCHANGED <<stop_requested, stop, preVars, infer_queues, post_queue, main, shown>>

LookForStop(i) ==
    /\ infer[i] = "look"
    /\ Move(i, IF ShouldStop THEN "exited" ELSE "pop", NoFrame)
    /\ UNCHANGED <<stop_requested, stop, preVars, infer_queues, post_queue, main, shown>>

\* Mutation: the last frame of a queue is left in it.
PopFrameLeavesLast(i) ==
    /\ infer[i] = "pop"
    /\ IF Len(infer_queues[i]) <= 1
       THEN Move(i, "look", NoFrame) /\ UNCHANGED infer_queues
       ELSE /\ infer_queues' = [infer_queues EXCEPT ![i] = Tail(@)]
            /\ Move(i, "run", Head(infer_queues[i]))
    /\ UNCHANGED <<stop_requested, stop, preVars, post_queue, main, shown>>

\* TryPop: a frame, the sentinel, or a timeout.
PopFrame(i) ==
    /\ infer[i] = "pop"
    /\ IF infer_queues[i] = <<>>
       THEN Move(i, "look", NoFrame) /\ UNCHANGED infer_queues
       ELSE /\ infer_queues' = [infer_queues EXCEPT ![i] = Tail(@)]
            /\ LET f == Head(infer_queues[i])
               IN  IF f = Quit THEN Move(i, "exited", NoFrame) ELSE Move(i, "run", f)
    /\ UNCHANGED <<stop_requested, stop, preVars, post_queue, main, shown>>

\* RunEnabledSlots: without a result the frame is dropped.
RunSlots(i) ==
    /\ infer[i] = "run"
    /\ \/ Move(i, "push", task[i])
       \/ Move(i, "look", NoFrame)
    /\ UNCHANGED <<stop_requested, stop, preVars, infer_queues, post_queue, main, shown>>

\* TryPush to the main thread; a full queue drops the frame.
PushToPost(i) ==
    LET fits == Len(post_queue) < PostCap IN
    /\ infer[i] = "push"
    /\ post_queue' = IF fits THEN Append(post_queue, task[i]) ELSE post_queue
    /\ Move(i, IF ~fits /\ ShouldStop THEN "exited" ELSE "look", NoFrame)
    /\ UNCHANGED <<stop_requested, stop, preVars, infer_queues, main, shown>>

-----------------------------------------------------------------------------
\* Main thread

\* Run starts the preprocess thread and gives a loop to every pool thread.
Run ==
    /\ main = "begin"
    /\ main' = "look"
    /\ pre' = "read"
    /\ infer' = [i \in Threads |-> "pooled"]
    /\ UNCHANGED <<stop_requested, stop, next_id, pre_task, infer_queues, task,
                   post_queue, shown>>

\* Run with single_thread_ set: RunSingleThreaded starts no thread.
RunSingleThreaded ==
    /\ main = "begin"
    /\ main' = "single"
    /\ UNCHANGED <<stop_requested, stop, preVars, infer_queues, inferVars, post_queue, shown>>

\* A frame of RunSingleThreaded, from the camera to post_task_; without a result it is dropped.
SingleFrame ==
    /\ main = "single"
    /\ IF ShouldStop
       THEN main' = "returned" /\ UNCHANGED <<next_id, shown>>
       ELSE /\ next_id < Frames /\ next_id' = next_id + 1
            /\ shown' \in {shown, Append(shown, next_id)}
            /\ UNCHANGED main
    /\ UNCHANGED <<stop_requested, stop, pre, pre_task, infer_queues, inferVars, post_queue>>

\* RunPostprocessOnMainThread: the look, and then the TryPop.
MainLooksForStop ==
    /\ main = "look"
    /\ main' = IF ShouldStop THEN "join" ELSE "take"
    /\ UNCHANGED <<stop_requested, stop, preVars, infer_queues, inferVars, post_queue, shown>>

\* Mutation: the newest frame is shown first.
ShowNewestFrame ==
    /\ main = "take"
    /\ main' = "look"
    /\ IF post_queue = <<>>
       THEN UNCHANGED <<post_queue, shown>>
       ELSE /\ post_queue' = SubSeq(post_queue, 1, Len(post_queue) - 1)
            /\ shown' = Append(shown, post_queue[Len(post_queue)])
    /\ UNCHANGED <<stop_requested, stop, preVars, infer_queues, inferVars>>

\* A frame for post_task_, which ends the loop at the sentinel, or a timeout.
ShowFrame ==
    /\ main = "take"
    /\ IF post_queue = <<>>
       THEN main' = "look" /\ UNCHANGED <<post_queue, shown>>
       ELSE /\ post_queue' = Tail(post_queue)
            /\ IF Head(post_queue) = Quit
               THEN main' = "join" /\ UNCHANGED shown
               ELSE main' = "look" /\ shown' = Append(shown, Head(post_queue))
    /\ UNCHANGED <<stop_requested, stop, preVars, infer_queues, inferVars>>

\* Mutation: the inference threads are not waited for.
JoinPreprocessOnly ==
    /\ main = "join"
    /\ pre = "exited"
    /\ main' = "returned"
    /\ UNCHANGED <<stop_requested, stop, preVars, infer_queues, inferVars, post_queue, shown>>

\* JoinWorkerThreads, the end of Run.
JoinWorkerThreads ==
    /\ main = "join"
    /\ pre = "exited" /\ \A i \in Threads : infer[i] = "exited"
    /\ main' = "returned"
    /\ UNCHANGED <<stop_requested, stop, preVars, infer_queues, inferVars, post_queue, shown>>

\* main() shuts down the display, the camera, TtsWorker and LlmWorker.
ShutdownWorkers ==
    /\ main = "returned"
    /\ main' = "shut"
    /\ UNCHANGED <<stop_requested, stop, preVars, infer_queues, inferVars, post_queue, shown>>

\* ~Pipeline: Stop up to on_stop_, which aborts the active generation.
Stop ==
    /\ main = "shut"
    /\ main' = "stopping"
    /\ stop' = TRUE
    /\ UNCHANGED <<stop_requested, preVars, infer_queues, inferVars, post_queue, shown>>

\* PushQuitTasksBestEffort, and the join of the pool.
PushQuitTasks ==
    /\ main = "stopping"
    /\ main' = "done"
    /\ infer_queues' = [i \in Threads |-> <<Quit>>]
    /\ post_queue' = <<Quit>>
    /\ UNCHANGED <<stop_requested, stop, preVars, inferVars, shown>>

-----------------------------------------------------------------------------
Preprocess == ReadFrame \/ PushToInfer
Inference(i) == TakeLoop(i) \/ LookForStop(i) \/ PopFrame(i) \/ RunSlots(i) \/ PushToPost(i)
Main ==
    \/ Run \/ RunSingleThreaded \/ SingleFrame \/ MainLooksForStop \/ ShowFrame
    \/ JoinWorkerThreads \/ ShutdownWorkers \/ Stop \/ PushQuitTasks

Next == RequestStop \/ Preprocess \/ (\E i \in Threads : Inference(i)) \/ Main

Spec == Init /\ [][Next]_vars

-----------------------------------------------------------------------------
InFlight(f) ==
    Cardinality({i \in Threads : task[i] = f})
    + Cardinality({ik \in Threads \X (1 .. InferCap) :
                      /\ ik[2] \in DOMAIN infer_queues[ik[1]]
                      /\ infer_queues[ik[1]][ik[2]] = f})
    + Cardinality({k \in DOMAIN post_queue : post_queue[k] = f})
    + Cardinality({k \in DOMAIN shown : shown[k] = f})
    + (IF pre_task = f THEN 1 ELSE 0)

FrameInOnePlace == \A f \in 0 .. Frames - 1 : InFlight(f) <= 1

ShownInOrder ==
    \A j, k \in DOMAIN shown : j < k /\ shown[j] % N = shown[k] % N => shown[j] < shown[k]

\* No frame is ever in two hands, nor shown twice: the session never counts one frame as two.
\* Whatever was dropped on the way, the frames that one inference thread let through are shown
\* in the order they were taken; with one thread, all of them.
FramesKeepPlaceAndOrder == FrameInOnePlace /\ ShownInOrder

\* When main() tears the rest down no thread of the pipeline is left that could still
\* read the camera, run a model or touch the display.
TeardownIsAlone ==
    main \in {"returned", "shut", "stopping", "done"} =>
        pre \in {"none", "exited"} /\ \A i \in Threads : infer[i] \in {"none", "exited"}

\* A frame does not get stuck: when the camera gives no more, the pipeline empties.
PipelineDrains == [](next_id = Frames => <>(\A f \in 0 .. Frames - 1 :
                      \/ ShouldStop
                      \/ InFlight(f) = 0
                      \/ \E k \in DOMAIN shown : shown[k] = f))
=============================================================================

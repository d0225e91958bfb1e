--------------------------- MODULE Pipeline_proofs ---------------------------
(* Proofs about Pipeline, for every number of threads and queue capacity,    *)
(* and about the program around it.                                          *)
EXTENDS Application, FiniteSetTheorems, TLAPS

After == {"returned", "shut", "stopping", "done"}

\* Without threads of its own, Run has not started any.
Lone == main \in {"begin", "single"} => pre = "none" /\ \A i \in Threads : infer[i] = "none"

LEMMA LoneStays ==
    ASSUME Lone, [Next]_vars
    PROVE  Lone'
<1>1. ASSUME Preprocess PROVE Lone'
  BY <1>1 DEF Lone, Preprocess, ReadFrame, PushToInfer, inferVars
<1>2. ASSUME NEW i \in Threads, Inference(i) PROVE Lone'
  BY <1>2 DEF Lone, Inference, TakeLoop, LookForStop, PopFrame, RunSlots, PushToPost, preVars
<1>3. ASSUME Main PROVE Lone'
  BY <1>3 DEF Lone, Main, Run, RunSingleThreaded, SingleFrame, MainLooksForStop, ShowFrame, JoinWorkerThreads,
     ShutdownWorkers, Stop, PushQuitTasks, preVars, inferVars
<1>4. ASSUME RequestStop \/ UNCHANGED vars PROVE Lone'
  BY <1>4 DEF Lone, RequestStop, preVars, inferVars, vars
<1> QED
  BY <1>1, <1>2, <1>3, <1>4 DEF Next

\* A thread that has left its loop stays out, and Run returns only when all have.
LEMMA ExitedStays ==
    ASSUME Lone, TeardownIsAlone, [Next]_vars
    PROVE  TeardownIsAlone'
<1>1. CASE main \in After
  <2>1. pre \in {"none", "exited"} /\ \A i \in Threads : infer[i] \in {"none", "exited"}
    BY <1>1 DEF TeardownIsAlone, After
  <2>2. ~Preprocess
    BY <2>1 DEF Preprocess, ReadFrame, PushToInfer
  <2>3. \A i \in Threads : ~Inference(i)
    BY <2>1 DEF Inference, TakeLoop, LookForStop, PopFrame, RunSlots, PushToPost
  <2>4. pre' = pre /\ infer' = infer
    BY <1>1, <2>2, <2>3 DEF After, Next, RequestStop, Main, Run, RunSingleThreaded, SingleFrame, MainLooksForStop, ShowFrame,
       JoinWorkerThreads, ShutdownWorkers, Stop, PushQuitTasks, preVars, inferVars, vars
  <2> QED
    BY <2>1, <2>4 DEF TeardownIsAlone
<1>2. CASE main \notin After /\ main' \in After
  <2>1. JoinWorkerThreads \/ SingleFrame
    <3>1. CASE Preprocess
      BY <1>2, <3>1 DEF Preprocess, ReadFrame, PushToInfer
    <3>2. ASSUME NEW i \in Threads, Inference(i) PROVE FALSE
      BY <1>2, <3>2 DEF Inference, TakeLoop, LookForStop, PopFrame, RunSlots, PushToPost
    <3>3. CASE Main
      BY <1>2, <3>3 DEF After, Main, Run, RunSingleThreaded, MainLooksForStop, ShowFrame, ShutdownWorkers, Stop, PushQuitTasks
    <3>4. CASE RequestStop \/ UNCHANGED vars
      BY <1>2, <3>4 DEF RequestStop, vars
    <3> QED
      BY <3>1, <3>2, <3>3, <3>4 DEF Next
  <2> QED
    BY <2>1 DEF JoinWorkerThreads, SingleFrame, Lone, preVars, inferVars, TeardownIsAlone
<1>3. CASE main' \notin After
  BY <1>3 DEF TeardownIsAlone, After
<1> QED
  BY <1>1, <1>2, <1>3

-----------------------------------------------------------------------------
\* The types of what the threads hold.

PlacesOK ==
    /\ next_id \in 0 .. Frames
    /\ pre \in {"none", "read", "push", "exited"}
    /\ pre_task \in Id \cup {NoFrame}
    /\ pre = "push" => pre_task \in Id
    /\ infer \in [Threads -> {"none", "pooled", "look", "pop", "run", "push", "exited"}]
    /\ task \in [Threads -> Id \cup {NoFrame}]
    /\ \A i \in Threads : infer[i] \in {"run", "push"} => task[i] \in Id
    /\ main \in {"begin", "single", "look", "take", "join", "returned", "shut", "stopping", "done"}

QueuesOK ==
    /\ infer_queues \in [Threads -> Seq(Id)]
    /\ \A i \in Threads : Len(infer_queues[i]) <= InferCap
    /\ post_queue \in Seq(Id) /\ Len(post_queue) <= PostCap
    /\ shown \in Seq(Id)

StopOK == stop_requested \in BOOLEAN /\ stop \in BOOLEAN

TypeInv == PlacesOK /\ QueuesOK /\ StopOK

\* Thread i goes on with a frame, or with none where it needs none.
LEMMA MoveKeeps ==
    ASSUME PlacesOK, NEW i \in Threads,
           NEW at \in {"none", "pooled", "look", "pop", "run", "push", "exited"},
           NEW f \in Id \cup {NoFrame},
           at \in {"run", "push"} => f \in Id,
           Move(i, at, f), UNCHANGED preVars, UNCHANGED main
    PROVE  PlacesOK'
BY DEF PlacesOK, Move, preVars

\* Taking and adding a frame, within the capacity.
LEMMA TakeFrame ==
    ASSUME NEW q \in Seq(Id), q # <<>>
    PROVE  Head(q) \in Id /\ Tail(q) \in Seq(Id) /\ Len(Tail(q)) = Len(q) - 1
OBVIOUS

LEMMA AddFrame ==
    ASSUME NEW q \in Seq(Id), NEW cap \in Nat, Len(q) < cap, NEW f \in Id
    PROVE  Append(q, f) \in Seq(Id) /\ Len(Append(q, f)) <= cap
OBVIOUS

\* The preprocess thread.
LEMMA PreprocessTypes ==
    ASSUME TypeInv, Preprocess
    PROVE  TypeInv'
<1>1. CASE ReadFrame
  <2>1. CASE ShouldStop /\ pre' = "exited" /\ UNCHANGED <<next_id, pre_task>>
    BY <1>1, <2>1 DEF ReadFrame, TypeInv, PlacesOK, QueuesOK, StopOK, inferVars
  <2>2. CASE ~ShouldStop /\ next_id < Frames /\ pre' = "push" /\ pre_task' = next_id
             /\ next_id' = next_id + 1
    <3>1. next_id \in Id /\ next_id' \in 0 .. Frames
      BY <2>2, PipelineAssumption DEF TypeInv, PlacesOK, Id, Quit
    <3> QED
      BY <1>1, <2>2, <3>1 DEF ReadFrame, TypeInv, PlacesOK, QueuesOK, StopOK, inferVars
  <2> QED
    BY <1>1, <2>1, <2>2 DEF ReadFrame
<1>2. CASE PushToInfer
  <2> DEFINE i == pre_task % N
  <2>1. pre_task \in Id
    BY <1>2 DEF PushToInfer, TypeInv, PlacesOK
  <2>2. i \in Threads
    BY <2>1, PipelineAssumption DEF Id, Quit, Threads
  <2>3. infer_queues' \in [Threads -> Seq(Id)] /\ \A j \in Threads : Len(infer_queues'[j]) <= InferCap
    <3>1. CASE Len(infer_queues[i]) < InferCap
      <4> DEFINE q == Append(infer_queues[i], pre_task)
      <4>1. q \in Seq(Id) /\ Len(q) <= InferCap
        BY <2>1, <2>2, <3>1, AddFrame, PipelineAssumption DEF TypeInv, QueuesOK
      <4>2. infer_queues' = [infer_queues EXCEPT ![i] = q]
        BY <1>2, <3>1 DEF PushToInfer
      <4> HIDE DEF q, i
      <4> QED
        BY <2>2, <4>1, <4>2 DEF TypeInv, QueuesOK
    <3>2. CASE ~(Len(infer_queues[i]) < InferCap)
      BY <1>2, <3>2 DEF PushToInfer, TypeInv, QueuesOK
    <3> QED
      BY <3>1, <3>2
  <2>4. pre' \in {"read", "exited"} /\ pre_task' = NoFrame
    BY <1>2 DEF PushToInfer
  <2> QED
    BY <1>2, <2>3, <2>4 DEF PushToInfer, TypeInv, PlacesOK, QueuesOK, StopOK, inferVars
<1> QED
  BY <1>1, <1>2 DEF Preprocess

\* An inference thread.
LEMMA InferenceTypes ==
    ASSUME TypeInv, NEW i \in Threads, Inference(i)
    PROVE  TypeInv'
<1>1. CASE TakeLoop(i) \/ LookForStop(i)
  BY <1>1, MoveKeeps DEF TakeLoop, LookForStop, TypeInv, QueuesOK, StopOK
<1>2. CASE PopFrame(i)
  <2>1. CASE Move(i, "look", NoFrame) /\ UNCHANGED infer_queues
    BY <1>2, <2>1, MoveKeeps DEF PopFrame, TypeInv, QueuesOK, StopOK, preVars
  <2>2. CASE infer_queues[i] # <<>> /\ infer_queues' = [infer_queues EXCEPT ![i] = Tail(@)]
             /\ \E f \in {Head(infer_queues[i])} :
                    IF f = Quit THEN Move(i, "exited", NoFrame) ELSE Move(i, "run", f)
    <3> DEFINE q == Tail(infer_queues[i])
    <3>1. Head(infer_queues[i]) \in Id /\ q \in Seq(Id) /\ Len(q) <= InferCap
      BY <2>2, TakeFrame, PipelineAssumption DEF TypeInv, QueuesOK
    <3>2. infer_queues' = [infer_queues EXCEPT ![i] = q]
      BY <2>2
    <3> HIDE DEF q
    <3>3. infer_queues' \in [Threads -> Seq(Id)] /\ \A j \in Threads : Len(infer_queues'[j]) <= InferCap
      BY <3>1, <3>2 DEF TypeInv, QueuesOK
    <3>4. PlacesOK'
      BY <1>2, <2>2, <3>1, MoveKeeps DEF PopFrame, TypeInv
    <3> QED
      BY <1>2, <3>3, <3>4 DEF PopFrame, TypeInv, QueuesOK, StopOK
  <2> QED
    BY <1>2, <2>1, <2>2 DEF PopFrame
<1>3. CASE RunSlots(i)
  <2>1. task[i] \in Id
    BY <1>3 DEF RunSlots, TypeInv, PlacesOK
  <2> QED
    BY <1>3, <2>1, MoveKeeps DEF RunSlots, TypeInv, QueuesOK, StopOK
<1>4. CASE PushToPost(i)
  <2>1. task[i] \in Id
    BY <1>4 DEF PushToPost, TypeInv, PlacesOK
  <2>2. post_queue' \in Seq(Id) /\ Len(post_queue') <= PostCap
    BY <1>4, <2>1, AddFrame, PipelineAssumption DEF PushToPost, TypeInv, QueuesOK
  <2>3. PlacesOK'
    BY <1>4, MoveKeeps DEF PushToPost, TypeInv
  <2> QED
    BY <1>4, <2>2, <2>3 DEF PushToPost, TypeInv, QueuesOK, StopOK
<1> QED
  BY <1>1, <1>2, <1>3, <1>4 DEF Inference

\* The main thread.
LEMMA MainTypes ==
    ASSUME TypeInv, Main
    PROVE  TypeInv'
<1>1. CASE Run \/ RunSingleThreaded
  BY <1>1 DEF Run, RunSingleThreaded, TypeInv, PlacesOK, QueuesOK, StopOK, preVars, inferVars
<1>5. CASE SingleFrame
  <2>1. next_id' \in 0 .. Frames
    BY <1>5, PipelineAssumption DEF SingleFrame, TypeInv, PlacesOK
  <2>2. shown' = shown \/ (next_id \in Id /\ shown' = Append(shown, next_id))
    BY <1>5, PipelineAssumption DEF SingleFrame, TypeInv, PlacesOK, Id, Quit
  <2>3. shown' \in Seq(Id)
    <3>1. shown \in Seq(Id)
      BY DEF TypeInv, QueuesOK
    <3> QED BY <2>2, <3>1
  <2>4. main' \in {"single", "returned"}
    BY <1>5 DEF SingleFrame
  <2> QED
    BY <1>5, <2>1, <2>3, <2>4 DEF SingleFrame, TypeInv, PlacesOK, QueuesOK, StopOK, inferVars
<1>2. CASE ShowFrame
  <2>1. CASE main' = "look" /\ UNCHANGED <<post_queue, shown>>
    BY <1>2, <2>1 DEF ShowFrame, TypeInv, PlacesOK, QueuesOK, StopOK, preVars, inferVars
  <2>2. CASE post_queue # <<>> /\ post_queue' = Tail(post_queue)
             /\ IF Head(post_queue) = Quit
                THEN main' = "join" /\ UNCHANGED shown
                ELSE main' = "look" /\ shown' = Append(shown, Head(post_queue))
    <3>1. Head(post_queue) \in Id /\ post_queue' \in Seq(Id) /\ Len(post_queue') <= PostCap
      BY <2>2, TakeFrame, PipelineAssumption DEF TypeInv, QueuesOK
    <3>2. shown \in Seq(Id) /\ Append(shown, Head(post_queue)) \in Seq(Id)
      BY <3>1 DEF TypeInv, QueuesOK
    <3>3. shown' = shown \/ shown' = Append(shown, Head(post_queue))
      BY <2>2
    <3>4. shown' \in Seq(Id)
      BY <3>2, <3>3
    <3> QED
      BY <1>2, <2>2, <3>1, <3>4
         DEF ShowFrame, TypeInv, PlacesOK, QueuesOK, StopOK, preVars, inferVars
  <2> QED
    BY <1>2, <2>1, <2>2 DEF ShowFrame
<1>3. CASE MainLooksForStop \/ JoinWorkerThreads \/ ShutdownWorkers \/ Stop
  BY <1>3 DEF MainLooksForStop, JoinWorkerThreads, ShutdownWorkers, Stop, TypeInv, PlacesOK, QueuesOK, StopOK,
              preVars, inferVars
<1>4. CASE PushQuitTasks
  <2>1. <<Quit>> \in Seq(Id) /\ Len(<<Quit>>) = 1
    BY PipelineAssumption DEF Id, Quit
  <2> QED
    BY <1>4, <2>1, PipelineAssumption
       DEF PushQuitTasks, TypeInv, PlacesOK, QueuesOK, StopOK, preVars, inferVars
<1> QED
  BY <1>1, <1>2, <1>3, <1>4, <1>5 DEF Main

\* Every step keeps the types.
LEMMA StepTypes == TypeInv /\ [Next]_vars => TypeInv'
<1>1. TypeInv /\ RequestStop => TypeInv'
  BY DEF RequestStop, TypeInv, PlacesOK, QueuesOK, StopOK, preVars, inferVars
<1>2. TypeInv /\ UNCHANGED vars => TypeInv'
  BY DEF vars, TypeInv, PlacesOK, QueuesOK, StopOK, preVars, inferVars
<1> QED
  BY <1>1, <1>2, PreprocessTypes, InferenceTypes, MainTypes DEF Next

\* Run has nothing on its way yet.
LEMMA InitTypes == Init => TypeInv
<1> SUFFICES ASSUME Init PROVE TypeInv
  OBVIOUS
<1>1. StopOK
  BY Zenon DEF Init, StopOK
<1>2. PlacesOK
  BY PipelineAssumption DEF Init, PlacesOK
<1>3. QueuesOK
  BY PipelineAssumption DEF Init, QueuesOK
<1> QED
  BY <1>1, <1>2, <1>3 DEF TypeInv

\* Pipeline: no queue grows beyond its capacity, and only frames and sentinels pass
\* through it, for every number of threads and every capacity.
THEOREM PipelineTypes == Spec => []TypeOK
<1>1. TypeInv => TypeOK
  BY Zenon DEF TypeInv, PlacesOK, QueuesOK, StopOK, TypeOK
<1> QED
  BY <1>1, InitTypes, StepTypes, PTL DEF Spec

\* JoinWorkerThreads: when main() tears down the display, the camera and the workers,
\* no thread of the pipeline is left, for every number of inference threads.
THEOREM TeardownAlwaysAlone == Spec => []TeardownIsAlone
<1>1. Init => Lone /\ TeardownIsAlone
  BY DEF Init, Lone, TeardownIsAlone
<1>2. Lone /\ TeardownIsAlone /\ [Next]_vars => (Lone /\ TeardownIsAlone)'
  BY LoneStays, ExitedStays
<1> QED
  BY <1>1, <1>2, PTL DEF Spec

-----------------------------------------------------------------------------
\* The way of a frame.  Frames of one inference thread come in the order of their numbers,
\* and whatever lies further on the way carries the smaller one.

Ahead(a, b) == a >= 0 /\ b >= 0 /\ a % N = b % N => a < b

AllAhead(S, T) == \A a \in S, b \in T : Ahead(a, b)

Sorted(q) == \A j, k \in DOMAIN q : j < k => Ahead(q[j], q[k])

Elems(q) == {q[k] : k \in DOMAIN q}

InRun == {task[i] : i \in Threads}
InQueues == UNION {Elems(infer_queues[i]) : i \in Threads}

\* The frames of the places, from the oldest frame to the newest.
Order ==
    /\ Sorted(shown) /\ Sorted(post_queue) /\ \A i \in Threads : Sorted(infer_queues[i])
    /\ AllAhead(Elems(shown), Elems(post_queue) \cup InRun \cup InQueues \cup {pre_task})
    /\ AllAhead(Elems(post_queue), InRun \cup InQueues \cup {pre_task})
    /\ AllAhead(InRun, InQueues \cup {pre_task})
    /\ AllAhead(InQueues, {pre_task})

\* A thread has the frames whose number leaves its own.
Home ==
    /\ \A i \in Threads : task[i] >= 0 => task[i] % N = i
    /\ \A i \in Threads : \A f \in Elems(infer_queues[i]) : f >= 0 => f % N = i

Read ==
    /\ \A f \in Elems(shown) \cup Elems(post_queue) \cup InRun \cup InQueues \cup {pre_task} : f < next_id
    /\ \A f \in Elems(shown) : f >= 0

\* Without threads nothing is on its way.
LoneEmpty ==
    main \in {"begin", "single"} =>
        /\ post_queue = <<>> /\ pre_task = NoFrame
        /\ \A i \in Threads : infer_queues[i] = <<>> /\ task[i] = NoFrame

FlowInv == Order /\ Home /\ Read /\ LoneEmpty

\* What is enough for two frames, or a frame and a sentinel, to be in order.
LEMMA AheadFacts ==
    /\ \A a, b \in Int : a < b => Ahead(a, b)
    /\ \A a, b \in Int : a < 0 \/ b < 0 => Ahead(a, b)
    /\ \A a, b \in Int : a % N # b % N => Ahead(a, b)
    /\ \A a \in Int : a >= 0 => ~Ahead(a, a)
BY DEF Ahead

\* Push of a queue: a frame that all others are ahead of keeps them in order.
LEMMA ElemsAppend ==
    ASSUME NEW q \in Seq(Id), NEW f \in Id, Sorted(q), \A a \in Elems(q) : Ahead(a, f)
    PROVE  Elems(Append(q, f)) = Elems(q) \cup {f} /\ Sorted(Append(q, f))
<1>1. /\ DOMAIN q = 1 .. Len(q) /\ DOMAIN Append(q, f) = 1 .. Len(q) + 1 /\ Len(q) \in Nat
      /\ \A k \in 1 .. Len(q) : Append(q, f)[k] = q[k]
      /\ Append(q, f)[Len(q) + 1] = f
  OBVIOUS
<1>2. Elems(Append(q, f)) = Elems(q) \cup {f}
  BY <1>1 DEF Elems
<1>3. Sorted(Append(q, f))
  <2> SUFFICES ASSUME NEW j \in 1 .. Len(q) + 1, NEW k \in 1 .. Len(q) + 1, j < k
               PROVE  Ahead(Append(q, f)[j], Append(q, f)[k])
    BY <1>1 DEF Sorted
  <2>1. CASE k = Len(q) + 1
    <3>1. j \in 1 .. Len(q) /\ q[j] \in Elems(q)
      BY <1>1, <2>1 DEF Elems
    <3> QED
      BY <1>1, <2>1, <3>1
  <2>2. CASE k # Len(q) + 1
    BY <1>1, <2>2 DEF Sorted
  <2> QED
    BY <2>1, <2>2
<1> QED
  BY <1>2, <1>3

\* Pop of a queue: the front frame is ahead of what stays.
LEMMA ElemsTail ==
    ASSUME NEW q \in Seq(Id), q # <<>>, Sorted(q)
    PROVE  /\ Head(q) \in Elems(q) /\ Elems(Tail(q)) \subseteq Elems(q)
           /\ Sorted(Tail(q)) /\ \A a \in Elems(Tail(q)) : Ahead(Head(q), a)
<1>1. /\ DOMAIN q = 1 .. Len(q) /\ Len(q) \in Nat \ {0} /\ Head(q) = q[1]
      /\ DOMAIN Tail(q) = 1 .. Len(q) - 1
      /\ \A k \in 1 .. Len(q) - 1 : Tail(q)[k] = q[k + 1] /\ k + 1 \in 1 .. Len(q)
  OBVIOUS
<1>2. Head(q) \in Elems(q) /\ Elems(Tail(q)) \subseteq Elems(q)
  BY <1>1 DEF Elems
<1>3. Sorted(Tail(q))
  BY <1>1 DEF Sorted
<1>4. \A k \in 1 .. Len(q) - 1 : Ahead(q[1], q[k + 1])
  BY <1>1 DEF Sorted
<1>5. \A a \in Elems(Tail(q)) : Ahead(Head(q), a)
  BY <1>1, <1>4 DEF Elems
<1> QED
  BY <1>2, <1>3, <1>5

\* In every place there are frames, sentinels, or nothing.
LEMMA ElemsTyped ==
    ASSUME TypeInv
    PROVE  /\ Elems(shown) \subseteq Id /\ Elems(post_queue) \subseteq Id /\ InQueues \subseteq Id
           /\ InRun \subseteq Id \cup {NoFrame} /\ pre_task \in Id \cup {NoFrame}
           /\ Id \subseteq Int /\ NoFrame \in Int /\ NoFrame < 0 /\ next_id \in Nat
<1>1. \A q \in Seq(Id) : Elems(q) \subseteq Id
  BY DEF Elems
<1>2. InQueues \subseteq Id
  BY <1>1 DEF InQueues, TypeInv, QueuesOK
<1>3. InRun \subseteq Id \cup {NoFrame}
  BY DEF InRun, TypeInv, PlacesOK
<1>4. Id \subseteq Int /\ NoFrame \in Int /\ NoFrame < 0 /\ next_id \in Nat
  BY PipelineAssumption DEF Id, Quit, NoFrame, TypeInv, PlacesOK
<1> QED
  BY <1>1, <1>2, <1>3, <1>4 DEF TypeInv, QueuesOK, PlacesOK

\* The preprocess thread: the frame it reads is newer than all.
LEMMA ReadFrameFlow ==
    ASSUME TypeInv, FlowInv, Lone, ReadFrame
    PROVE  FlowInv'
<1>1. /\ UNCHANGED <<shown, post_queue, infer_queues, task, main>>
      /\ main \notin {"begin", "single"}
      /\ \/ UNCHANGED <<pre_task, next_id>>
         \/ pre_task' = next_id /\ next_id' = next_id + 1
  BY DEF ReadFrame, Lone, inferVars
<1>2. UNCHANGED <<InRun, InQueues>>
  BY <1>1 DEF InRun, InQueues
<1>3. Home' /\ LoneEmpty'
  BY <1>1 DEF FlowInv, Home, LoneEmpty
<1>4. CASE UNCHANGED <<pre_task, next_id>>
  BY <1>1, <1>2, <1>3, <1>4 DEF FlowInv, Order, Read
<1>5. CASE pre_task' = next_id /\ next_id' = next_id + 1
  <2>1. AllAhead(Elems(shown) \cup Elems(post_queue) \cup InRun \cup InQueues, {next_id})
    BY ElemsTyped, AheadFacts DEF AllAhead, FlowInv, Read
  <2>2. Order'
    BY <1>1, <1>2, <1>5, <2>1 DEF FlowInv, Order, AllAhead
  <2>3. Read'
    BY <1>1, <1>2, <1>5, ElemsTyped DEF FlowInv, Read
  <2> QED
    BY <1>3, <2>2, <2>3 DEF FlowInv
<1> QED
  BY <1>1, <1>4, <1>5

\* The frame is put behind those of its thread, or dropped.
LEMMA PushToInferFlow ==
    ASSUME TypeInv, FlowInv, Lone, PushToInfer
    PROVE  FlowInv'
<1> DEFINE i == pre_task % N
           q == Append(infer_queues[i], pre_task)
<1>1. /\ UNCHANGED <<shown, post_queue, task, main, next_id>>
      /\ main \notin {"begin", "single"} /\ pre_task' = NoFrame
      /\ UNCHANGED infer_queues \/ infer_queues' = [infer_queues EXCEPT ![i] = q]
  BY DEF PushToInfer, Lone, inferVars
<1>2. pre_task \in Id /\ i \in Threads
  <2>1. pre_task \in Id
    BY DEF PushToInfer, TypeInv, PlacesOK
  <2> QED
    BY <2>1, PipelineAssumption DEF Id, Quit, Threads
<1>3. /\ infer_queues[i] \in Seq(Id) /\ Elems(infer_queues[i]) \subseteq InQueues
      /\ infer_queues \in [Threads -> Seq(Id)]
  BY <1>2 DEF InQueues, TypeInv, QueuesOK
<1>4. Elems(q) = Elems(infer_queues[i]) \cup {pre_task} /\ Sorted(q)
  <2>1. \A a \in Elems(infer_queues[i]) : Ahead(a, pre_task)
    BY <1>3 DEF FlowInv, Order, AllAhead
  <2> QED
    BY <1>2, <1>3, <2>1, ElemsAppend DEF FlowInv, Order
<1>5. pre_task >= 0 => pre_task % N = i
  OBVIOUS
<1> HIDE DEF i, q
<1>6. InRun' = InRun /\ InQueues' \subseteq InQueues \cup {pre_task}
  <2>1. InRun' = InRun
    BY <1>1 DEF InRun
  <2>2. CASE infer_queues' = [infer_queues EXCEPT ![i] = q]
    <3>1. \A j \in Threads : infer_queues'[j] = IF j = i THEN q ELSE infer_queues[j]
      BY <1>3, <2>2
    <3> QED
      BY <1>3, <1>4, <2>1, <3>1 DEF InQueues
  <2> QED
    BY <1>1, <2>1, <2>2 DEF InQueues
<1>7. \A j \in Threads : Sorted(infer_queues'[j])
  BY <1>1, <1>3, <1>4 DEF FlowInv, Order
<1>8. Home'
  <2>1. \A j \in Threads :
           \/ Elems(infer_queues'[j]) = Elems(infer_queues[j])
           \/ j = i /\ Elems(infer_queues'[j]) = Elems(infer_queues[j]) \cup {pre_task}
    BY <1>1, <1>3, <1>4
  <2> QED
    BY <1>1, <1>5, <2>1 DEF FlowInv, Home
<1>9. AllAhead(Elems(shown) \cup Elems(post_queue) \cup InRun \cup InQueues', {NoFrame})
  BY <1>2, <1>6, ElemsTyped, AheadFacts DEF AllAhead
<1>10. Order'
  BY <1>1, <1>6, <1>7, <1>9 DEF FlowInv, Order, AllAhead
<1>11. Read'
  BY <1>1, <1>6, ElemsTyped DEF FlowInv, Read
<1> QED
  BY <1>1, <1>8, <1>10, <1>11 DEF FlowInv, LoneEmpty

\* What an inference thread holds after it has moved.
LEMMA MoveInRun ==
    ASSUME TypeInv, NEW i \in Threads, NEW at, NEW f, Move(i, at, f)
    PROVE  /\ task'[i] = f /\ \A j \in Threads \ {i} : task'[j] = task[j]
           /\ InRun' \subseteq InRun \cup {f}
<1>1. /\ task' = [task EXCEPT ![i] = f] /\ task \in [Threads -> Id \cup {NoFrame}]
  BY DEF Move, TypeInv, PlacesOK
<1>2. task'[i] = f /\ \A j \in Threads \ {i} : task'[j] = task[j]
  BY <1>1
<1> QED
  BY <1>2 DEF InRun

\* A thread that lets go of its frame, whatever becomes of it.
LEMMA LetGoFlow ==
    ASSUME TypeInv, FlowInv, NEW i \in Threads, NEW at, Move(i, at, NoFrame),
           UNCHANGED <<shown, post_queue, infer_queues, pre_task, next_id, main>>
    PROVE  FlowInv'
<1>1. InRun' \subseteq InRun \cup {NoFrame} /\ InQueues' = InQueues
  BY MoveInRun DEF InQueues
<1>2. /\ \A a \in Elems(shown) \cup Elems(post_queue) : Ahead(a, NoFrame)
      /\ \A b \in InQueues \cup {pre_task} : Ahead(NoFrame, b)
  BY ElemsTyped, AheadFacts
<1>3. Order'
  BY <1>1, <1>2 DEF FlowInv, Order, AllAhead
<1>4. Home' /\ LoneEmpty'
  BY MoveInRun, ElemsTyped DEF FlowInv, Home, LoneEmpty
<1>5. Read'
  BY <1>1, ElemsTyped DEF FlowInv, Read
<1> QED
  BY <1>3, <1>4, <1>5 DEF FlowInv

\* The front frame of a queue goes into the thread, behind what it has let go of.
LEMMA PopFrameFlow ==
    ASSUME TypeInv, FlowInv, Lone, NEW i \in Threads, PopFrame(i)
    PROVE  FlowInv'
<1> DEFINE h == Head(infer_queues[i])
           q == Tail(infer_queues[i])
<1>1. /\ UNCHANGED <<shown, post_queue, pre_task, next_id, main>>
      /\ main \notin {"begin", "single"}
  BY DEF PopFrame, Lone, preVars
<1>2. CASE UNCHANGED infer_queues /\ Move(i, "look", NoFrame)
  BY <1>1, <1>2, LetGoFlow
<1>3. CASE /\ infer_queues[i] # <<>> /\ infer_queues' = [infer_queues EXCEPT ![i] = q]
           /\ \/ h = Quit /\ Move(i, "exited", NoFrame)
              \/ Move(i, "run", h)
  <2>1. /\ infer_queues \in [Threads -> Seq(Id)] /\ infer_queues[i] \in Seq(Id)
        /\ Elems(infer_queues[i]) \subseteq InQueues /\ h \in InQueues /\ h \in Elems(infer_queues[i])
        /\ Elems(q) \subseteq Elems(infer_queues[i]) /\ Sorted(q) /\ \A a \in Elems(q) : Ahead(h, a)
    <3>1. infer_queues \in [Threads -> Seq(Id)] /\ infer_queues[i] \in Seq(Id)
      BY DEF TypeInv, QueuesOK
    <3>2. Elems(infer_queues[i]) \subseteq InQueues
      BY DEF InQueues
    <3>3. Sorted(infer_queues[i])
      BY DEF FlowInv, Order
    <3> QED
      BY <1>3, <3>1, <3>2, <3>3, ElemsTail
  <2> HIDE DEF h, q
  <2>2. \A j \in Threads : infer_queues'[j] = IF j = i THEN q ELSE infer_queues[j]
    BY <1>3, <2>1
  <2>3. \A j \in Threads : Elems(infer_queues'[j]) \subseteq Elems(infer_queues[j])
    BY <2>1, <2>2
  <2>4. InQueues' \subseteq InQueues
    BY <2>3 DEF InQueues
  <2>5. \A j \in Threads : Sorted(infer_queues'[j])
    BY <2>1, <2>2 DEF FlowInv, Order
  <2>6. \A b \in InQueues' : Ahead(h, b)
    <3> SUFFICES ASSUME NEW j \in Threads, NEW b \in Elems(infer_queues'[j]) PROVE Ahead(h, b)
      BY DEF InQueues
    <3>1. CASE j = i
      BY <2>1, <2>2, <3>1
    <3>2. CASE j # i
      <4>1. b \in Elems(infer_queues[j]) /\ b \in InQueues /\ b \in Int /\ h \in Int
        BY <2>1, <2>3, ElemsTyped DEF InQueues
      <4>2. b >= 0 /\ h >= 0 => b % N = j /\ h % N = i
        BY <2>1, <4>1 DEF FlowInv, Home
      <4> QED
        BY <3>2, <4>1, <4>2, AheadFacts
    <3> QED
      BY <3>1, <3>2
  <2>7. PICK f \in {h, NoFrame} : task'[i] = f /\ (\A j \in Threads \ {i} : task'[j] = task[j])
                                 /\ InRun' \subseteq InRun \cup {f}
    BY <1>3, MoveInRun
  <2>8. /\ \A a \in Elems(shown) \cup Elems(post_queue) : Ahead(a, f)
        /\ \A b \in InQueues' \cup {pre_task} : Ahead(f, b)
    <3>1. CASE f = h
      BY <2>1, <2>6, <3>1 DEF FlowInv, Order, AllAhead
    <3>2. CASE f = NoFrame
      BY <2>4, <3>2, ElemsTyped, AheadFacts
    <3> QED
      BY <3>1, <3>2
  <2>9. Order'
    BY <1>1, <2>4, <2>5, <2>7, <2>8 DEF FlowInv, Order, AllAhead
  <2>10. Home'
    <3>1. f >= 0 => f % N = i
      <4>1. NoFrame < 0 /\ NoFrame \in Int
        BY ElemsTyped
      <4>2. h >= 0 => h % N = i
        BY <2>1 DEF FlowInv, Home
      <4>3. CASE f = NoFrame
        BY <4>1, <4>3
      <4> QED
        BY <4>2, <4>3
    <3>2. \A j \in Threads : task'[j] >= 0 => task'[j] % N = j
      BY <2>7, <3>1 DEF FlowInv, Home
    <3> QED
      BY <2>3, <3>2 DEF FlowInv, Home
  <2>11. Read'
    BY <1>1, <2>1, <2>4, <2>7, ElemsTyped DEF FlowInv, Read
  <2> QED
    BY <1>1, <2>9, <2>10, <2>11 DEF FlowInv, LoneEmpty
<1> QED
  BY <1>2, <1>3 DEF PopFrame

\* The frame of a thread goes to the main thread, or is dropped.
LEMMA PushToPostFlow ==
    ASSUME TypeInv, FlowInv, Lone, NEW i \in Threads, PushToPost(i)
    PROVE  FlowInv'
<1>1. /\ UNCHANGED <<shown, infer_queues, pre_task, next_id, main>>
      /\ main \notin {"begin", "single"}
      /\ task[i] \in Id /\ task[i] \in InRun
  BY DEF PushToPost, Lone, preVars, TypeInv, PlacesOK, InRun
<1>2. PICK at : Move(i, at, NoFrame)
  BY DEF PushToPost
<1>3. CASE UNCHANGED post_queue
  BY <1>1, <1>2, <1>3, LetGoFlow
<1>4. CASE post_queue' = Append(post_queue, task[i])
  <2>1. Elems(post_queue') = Elems(post_queue) \cup {task[i]} /\ Sorted(post_queue')
    <3>1. \A a \in Elems(post_queue) : Ahead(a, task[i])
      BY <1>1 DEF FlowInv, Order, AllAhead
    <3> QED
      BY <1>1, <1>4, <3>1, ElemsAppend DEF FlowInv, Order, TypeInv, QueuesOK
  <2>2. /\ task'[i] = NoFrame /\ \A j \in Threads \ {i} : task'[j] = task[j]
        /\ InRun' \subseteq InRun \cup {NoFrame} /\ InQueues' = InQueues
    BY <1>1, <1>2, MoveInRun DEF InQueues
  <2>3. \A b \in InRun' : Ahead(task[i], b)
    <3> SUFFICES ASSUME NEW j \in Threads PROVE Ahead(task[i], task'[j])
      BY DEF InRun
    <3>1. CASE j = i
      BY <1>1, <2>2, <3>1, ElemsTyped, AheadFacts
    <3>2. CASE j # i
      <4>1. task[j] \in Int /\ task[i] \in Int
        BY <1>1, ElemsTyped DEF InRun
      <4>2. task[j] >= 0 /\ task[i] >= 0 => task[j] % N = j /\ task[i] % N = i
        BY DEF FlowInv, Home
      <4> QED
        BY <2>2, <3>2, <4>1, <4>2, AheadFacts
    <3> QED
      BY <3>1, <3>2
  <2>4. /\ \A a \in Elems(shown) \cup Elems(post_queue) : Ahead(a, NoFrame)
        /\ \A b \in InQueues \cup {pre_task} : Ahead(NoFrame, b)
    BY ElemsTyped, AheadFacts
  <2>5. Order'
    BY <1>1, <2>1, <2>2, <2>3, <2>4 DEF FlowInv, Order, AllAhead
  <2>6. Home'
    BY <1>1, <2>2, ElemsTyped DEF FlowInv, Home
  <2>7. Read'
    BY <1>1, <2>1, <2>2, ElemsTyped DEF FlowInv, Read
  <2> QED
    BY <1>1, <2>5, <2>6, <2>7 DEF FlowInv, LoneEmpty
<1> QED
  BY <1>3, <1>4 DEF PushToPost

\* The front frame of the main thread's queue is shown, behind those that were before.
LEMMA ShowFrameFlow ==
    ASSUME TypeInv, FlowInv, ShowFrame
    PROVE  FlowInv'
<1>1. /\ UNCHANGED <<infer_queues, task, pre_task, next_id>> /\ main' \notin {"begin", "single"}
      /\ InRun' = InRun /\ InQueues' = InQueues
  BY DEF ShowFrame, preVars, inferVars, InRun, InQueues
<1>2. Home' /\ LoneEmpty'
  BY <1>1 DEF FlowInv, Home, LoneEmpty
<1>3. CASE UNCHANGED <<post_queue, shown>>
  BY <1>1, <1>2, <1>3 DEF FlowInv, Order, Read
<1>4. CASE post_queue # <<>> /\ post_queue' = Tail(post_queue)
           /\ \/ UNCHANGED shown
              \/ Head(post_queue) # Quit /\ shown' = Append(shown, Head(post_queue))
  <2> DEFINE h == Head(post_queue)
  <2>1. /\ h \in Elems(post_queue) /\ Elems(post_queue') \subseteq Elems(post_queue)
        /\ Sorted(post_queue') /\ \A a \in Elems(post_queue') : Ahead(h, a)
    BY <1>4, ElemsTail DEF FlowInv, Order, TypeInv, QueuesOK
  <2>2. h \in Id /\ (h # Quit => h >= 0)
    BY <2>1, ElemsTyped DEF Id, Quit
  <2> HIDE DEF h
  <2>3. CASE UNCHANGED shown
    <3>1. Order'
      BY <1>1, <2>1, <2>3 DEF FlowInv, Order, AllAhead
    <3>2. Read'
      BY <1>1, <2>1, <2>3 DEF FlowInv, Read
    <3> QED
      BY <1>2, <3>1, <3>2 DEF FlowInv
  <2>4. CASE h # Quit /\ shown' = Append(shown, h)
    <3>1. \A a \in Elems(shown) : Ahead(a, h)
      BY <2>1 DEF FlowInv, Order, AllAhead
    <3>2. Elems(shown') = Elems(shown) \cup {h} /\ Sorted(shown')
      BY <2>2, <2>4, <3>1, ElemsAppend DEF FlowInv, Order, TypeInv, QueuesOK
    <3>3. Order'
      BY <1>1, <2>1, <3>2 DEF FlowInv, Order, AllAhead
    <3>4. Read'
      BY <1>1, <2>1, <2>2, <2>4, <3>2 DEF FlowInv, Read
    <3> QED
      BY <1>2, <3>3, <3>4 DEF FlowInv
  <2> QED
    BY <1>4, <2>3, <2>4 DEF h
<1> QED
  BY <1>3, <1>4 DEF ShowFrame

\* Without threads, a frame is shown as soon as it is read.
LEMMA SingleFrameFlow ==
    ASSUME TypeInv, FlowInv, SingleFrame
    PROVE  FlowInv'
<1>1. /\ UNCHANGED <<infer_queues, task, pre_task, post_queue>> /\ main = "single"
      /\ InRun' = InRun /\ InQueues' = InQueues
      /\ \/ UNCHANGED <<next_id, shown>>
         \/ /\ next_id < Frames /\ next_id' = next_id + 1
            /\ (UNCHANGED shown \/ shown' = Append(shown, next_id))
  BY DEF SingleFrame, inferVars, InRun, InQueues
<1>2. /\ Elems(post_queue) = {} /\ InQueues = {} /\ InRun \subseteq {NoFrame} /\ pre_task = NoFrame
  <2>1. Elems(<<>>) = {}
    BY DEF Elems
  <2> QED
    BY <1>1, <2>1 DEF FlowInv, LoneEmpty, InQueues, InRun
<1>3. Home' /\ LoneEmpty'
  BY <1>1 DEF FlowInv, Home, LoneEmpty
<1>4. CASE UNCHANGED shown
  BY <1>1, <1>3, <1>4, ElemsTyped DEF FlowInv, Order, Read
<1>5. CASE next_id < Frames /\ next_id' = next_id + 1 /\ shown' = Append(shown, next_id)
  <2>1. next_id \in Id /\ next_id \in Nat
    BY <1>5, PipelineAssumption, ElemsTyped DEF Id, Quit
  <2>2. \A a \in Elems(shown) : Ahead(a, next_id)
    BY <2>1, ElemsTyped, AheadFacts DEF FlowInv, Read
  <2>3. Elems(shown') = Elems(shown) \cup {next_id} /\ Sorted(shown')
    BY <1>5, <2>1, <2>2, ElemsAppend DEF FlowInv, Order, TypeInv, QueuesOK
  <2>4. Ahead(next_id, NoFrame)
    BY <2>1, ElemsTyped, AheadFacts
  <2>5. Order'
    BY <1>1, <1>2, <2>3, <2>4 DEF FlowInv, Order, AllAhead
  <2>6. Read'
    <3>1. \A f \in Elems(shown') : f < next_id' /\ f >= 0
      <4>1. \A f \in Elems(shown) : f \in Int /\ f < next_id /\ f >= 0
        BY ElemsTyped DEF FlowInv, Read
      <4> QED
        BY <1>5, <2>1, <2>3, <4>1
    <3>2. NoFrame < next_id'
      BY <1>5, <2>1, ElemsTyped
    <3> QED
      BY <1>1, <1>2, <3>1, <3>2 DEF Read
  <2> QED
    BY <1>3, <2>5, <2>6 DEF FlowInv
<1> QED
  BY <1>1, <1>4, <1>5

\* The sentinels are no frames.
LEMMA PushQuitTasksFlow ==
    ASSUME TypeInv, FlowInv, PushQuitTasks
    PROVE  FlowInv'
<1>1. /\ UNCHANGED <<task, pre_task, next_id, shown>> /\ main' = "done" /\ InRun' = InRun
      /\ infer_queues' = [i \in Threads |-> <<Quit>>] /\ post_queue' = <<Quit>>
  BY DEF PushQuitTasks, preVars, inferVars, InRun
<1>2. Elems(<<Quit>>) = {Quit} /\ Sorted(<<Quit>>)
  BY DEF Elems, Sorted
<1>3. InQueues' \subseteq {Quit} /\ \A i \in Threads : infer_queues'[i] = <<Quit>>
  BY <1>1, <1>2 DEF InQueues
<1>4. Quit \in Int /\ Quit < 0
  BY DEF Quit
<1>5. \A a \in Elems(shown) \cup InRun \cup {pre_task, Quit} : Ahead(a, Quit) /\ Ahead(Quit, a)
  BY <1>4, ElemsTyped, AheadFacts
<1>6. Order'
  BY <1>1, <1>2, <1>3, <1>5 DEF FlowInv, Order, AllAhead
<1>7. Home'
  BY <1>1, <1>2, <1>3, <1>4 DEF FlowInv, Home
<1>8. Read'
  <2>1. Elems(post_queue') = {Quit} /\ Quit < next_id'
    BY <1>1, <1>2, <1>4, ElemsTyped
  <2> QED
    BY <1>1, <1>3, <2>1 DEF FlowInv, Read
<1> QED
  BY <1>1, <1>6, <1>7, <1>8 DEF FlowInv, LoneEmpty

\* Every step keeps the frames on their way.
LEMMA StepFlow == TypeInv /\ Lone /\ FlowInv /\ [Next]_vars => FlowInv'
<1> SUFFICES ASSUME TypeInv, Lone, FlowInv, [Next]_vars PROVE FlowInv'
  OBVIOUS
<1>1. CASE Preprocess
  BY <1>1, ReadFrameFlow, PushToInferFlow DEF Preprocess
<1>2. ASSUME NEW i \in Threads, Inference(i) PROVE FlowInv'
  <2>1. CASE TakeLoop(i) \/ LookForStop(i)
    BY <2>1, LetGoFlow DEF TakeLoop, LookForStop, preVars
  <2>2. CASE RunSlots(i)
    <3>1. CASE Move(i, "look", NoFrame)
      BY <2>2, <3>1, LetGoFlow DEF RunSlots, preVars
    <3>2. CASE Move(i, "push", task[i])
      <4>1. UNCHANGED <<task, shown, post_queue, infer_queues, pre_task, next_id, main>>
        BY <2>2, <3>2 DEF RunSlots, preVars, Move, TypeInv, PlacesOK
      <4>2. InRun' = InRun /\ InQueues' = InQueues
        BY <4>1 DEF InRun, InQueues
      <4> QED
        BY <4>1, <4>2 DEF FlowInv, Order, Home, Read, LoneEmpty
    <3> QED
      BY <2>2, <3>1, <3>2 DEF RunSlots
  <2> QED
    BY <1>2, <2>1, <2>2, PopFrameFlow, PushToPostFlow DEF Inference
<1>3. CASE RequestStop \/ Run \/ RunSingleThreaded \/ MainLooksForStop \/ JoinWorkerThreads
           \/ ShutdownWorkers \/ Stop \/ UNCHANGED vars
  <2>1. /\ UNCHANGED <<task, shown, post_queue, infer_queues, pre_task, next_id>>
        /\ main' \in {"begin", "single"} => main \in {"begin", "single"}
    BY <1>3 DEF RequestStop, Run, RunSingleThreaded, MainLooksForStop, JoinWorkerThreads, ShutdownWorkers, Stop, vars,
                preVars, inferVars
  <2>2. InRun' = InRun /\ InQueues' = InQueues
    BY <2>1 DEF InRun, InQueues
  <2> QED
    BY <2>1, <2>2 DEF FlowInv, Order, Home, Read, LoneEmpty
<1> QED
  BY <1>1, <1>2, <1>3, ShowFrameFlow, SingleFrameFlow, PushQuitTasksFlow DEF Next, Main

\* A set whose elements are all the same has one at most.
LEMMA AtMostOne ==
    ASSUME NEW S, \A x, y \in S : x = y
    PROVE  Cardinality(S) \in {0, 1} /\ (S = {} => Cardinality(S) = 0)
<1>1. CASE S = {}
  BY <1>1, FS_EmptySet
<1>2. ASSUME NEW x \in S PROVE Cardinality(S) = 1
  <2>1. S = {x}
    OBVIOUS
  <2> QED
    BY <2>1, FS_Singleton
<1> QED
  BY <1>1, <1>2

\* A sequence in order holds a frame once.
LEMMA HeldOnce ==
    ASSUME NEW q \in Seq(Id), Sorted(q), NEW f \in Nat, NEW j \in DOMAIN q, NEW k \in DOMAIN q,
           q[j] = f, q[k] = f
    PROVE  j = k
<1>1. j \in Int /\ k \in Int /\ ~Ahead(f, f)
  BY AheadFacts
<1> QED
  BY <1>1 DEF Sorted

\* Frames in order are in one place each: none is ahead of itself.
LEMMA FlowIsInOnePlace == TypeInv /\ FlowInv => FrameInOnePlace
<1> SUFFICES ASSUME TypeInv, FlowInv, NEW f \in 0 .. Frames - 1 PROVE InFlight(f) <= 1
  BY DEF FrameInOnePlace
<1> DEFINE R == {i \in Threads : task[i] = f}
           Q == {ik \in Threads \X (1 .. InferCap) :
                      /\ ik[2] \in DOMAIN infer_queues[ik[1]]
                      /\ infer_queues[ik[1]][ik[2]] = f}
           P == {k \in DOMAIN post_queue : post_queue[k] = f}
           S == {k \in DOMAIN shown : shown[k] = f}
           one == IF pre_task = f THEN 1 ELSE 0
<1>1. f \in Nat /\ ~Ahead(f, f)
  BY PipelineAssumption, AheadFacts
<1>2. (\A x, y \in P : x = y) /\ (\A x, y \in S : x = y)
  BY <1>1, HeldOnce DEF FlowInv, Order, TypeInv, QueuesOK
<1>3. \A x, y \in R : x = y
  BY <1>1 DEF FlowInv, Home
<1>4. \A x, y \in Q : x = y
  <2> SUFFICES ASSUME NEW x \in Q, NEW y \in Q PROVE x = y
    OBVIOUS
  <2>1. /\ x[1] \in Threads /\ y[1] \in Threads
        /\ f \in Elems(infer_queues[x[1]]) /\ f \in Elems(infer_queues[y[1]])
    BY DEF Elems
  <2>2. x[1] = f % N /\ y[1] = f % N
    BY <1>1, <2>1 DEF FlowInv, Home
  <2>3. infer_queues[x[1]] \in Seq(Id) /\ Sorted(infer_queues[x[1]])
    BY <2>1 DEF FlowInv, Order, TypeInv, QueuesOK
  <2>4. x[2] = y[2]
    BY <1>1, <2>2, <2>3, HeldOnce
  <2> QED
    BY <2>2, <2>4
<1>5. /\ R # {} => f \in InRun
      /\ Q # {} => f \in InQueues
      /\ P # {} => f \in Elems(post_queue)
      /\ S # {} => f \in Elems(shown)
  <2>1. Q # {} => f \in InQueues
    BY DEF InQueues, Elems
  <2> QED
    BY <2>1 DEF InRun, Elems
<1>6. /\ f \in Elems(shown) => f \notin Elems(post_queue) \cup InRun \cup InQueues \cup {pre_task}
      /\ f \in Elems(post_queue) => f \notin InRun \cup InQueues \cup {pre_task}
      /\ f \in InRun => f \notin InQueues \cup {pre_task}
      /\ f \in InQueues => f # pre_task
  BY <1>1 DEF FlowInv, Order, AllAhead
<1>7. /\ Cardinality(R) \in {0, 1} /\ (R = {} => Cardinality(R) = 0)
      /\ Cardinality(Q) \in {0, 1} /\ (Q = {} => Cardinality(Q) = 0)
      /\ Cardinality(P) \in {0, 1} /\ (P = {} => Cardinality(P) = 0)
      /\ Cardinality(S) \in {0, 1} /\ (S = {} => Cardinality(S) = 0)
  <2> HIDE DEF R, Q, P, S
  <2> QED
    BY <1>2, <1>3, <1>4, AtMostOne
<1>8. InFlight(f) = Cardinality(R) + Cardinality(Q) + Cardinality(P) + Cardinality(S) + one
  BY DEF InFlight
<1> HIDE DEF R, Q, P, S
<1> QED
  BY <1>5, <1>6, <1>7, <1>8

\* PreprocessLoop, InferenceLoop and RunPostprocessOnMainThread: however the threads are
\* scheduled, whichever queues are full and whenever the program is stopped, no frame is in two
\* hands or shown twice, and those of one inference thread are shown in their order.
THEOREM FramesAlwaysKeepPlaceAndOrder == Spec => []FramesKeepPlaceAndOrder
<1>1. Init => TypeInv /\ Lone /\ FlowInv
  <2> SUFFICES ASSUME Init PROVE TypeInv /\ Lone /\ FlowInv
    OBVIOUS
  <2>1. TypeInv /\ Lone
    BY InitTypes DEF Init, Lone
  <2>2. Elems(<<>>) = {} /\ Sorted(<<>>)
    BY DEF Elems, Sorted
  <2>3. InQueues = {} /\ InRun \subseteq {NoFrame}
    BY <2>2 DEF Init, InQueues, InRun
  <2>4. NoFrame < 0 /\ NoFrame \in Int /\ NoFrame < next_id
    BY DEF Init, NoFrame
  <2>5. Ahead(NoFrame, NoFrame)
    BY <2>4, AheadFacts
  <2>6. Order
    BY <2>2, <2>3, <2>5 DEF Init, Order, AllAhead
  <2>7. /\ \A i \in Threads : infer_queues[i] = <<>> /\ task[i] = NoFrame
        /\ shown = <<>> /\ post_queue = <<>> /\ pre_task = NoFrame
    BY DEF Init
  <2>8. Home
    BY <2>2, <2>4, <2>7 DEF Home
  <2>9. Read
    BY <2>2, <2>3, <2>4, <2>7 DEF Read
  <2>10. LoneEmpty
    BY <2>7 DEF LoneEmpty
  <2> QED
    BY <2>1, <2>6, <2>8, <2>9, <2>10 DEF FlowInv
<1>2. TypeInv /\ FlowInv => ShownInOrder
  <2> SUFFICES ASSUME TypeInv, FlowInv, NEW j \in DOMAIN shown, NEW k \in DOMAIN shown,
                      j < k, shown[j] % N = shown[k] % N
               PROVE  shown[j] < shown[k]
    BY DEF ShownInOrder
  <2>1. shown[j] >= 0 /\ shown[k] >= 0 /\ Ahead(shown[j], shown[k])
    BY DEF FlowInv, Order, Sorted, Read, Elems
  <2> QED
    BY <2>1 DEF Ahead
<1>3. TypeInv /\ Lone /\ FlowInv /\ [Next]_vars => (TypeInv /\ Lone /\ FlowInv)'
  BY StepTypes, LoneStays, StepFlow
<1> QED
  BY <1>1, <1>2, <1>3, FlowIsInOnePlace, PTL DEF Spec, FramesKeepPlaceAndOrder

-----------------------------------------------------------------------------
\* The program around the pipeline.

\* Whatever main() does, the pipeline makes a step of its own or none.
LEMMA AppStepIsPipelineStep ==
    ASSUME [AppNext]_allVars
    PROVE  [Next]_vars
<1>1. CASE UNCHANGED allVars
  BY <1>1 DEF allVars
<1>2. CASE RunPreprocess \/ RunMain
  BY <1>2 DEF RunPreprocess, RunMain, Running, Next, Main
<1>3. ASSUME NEW i \in Threads, RunInference(i) PROVE [Next]_vars
  BY <1>3 DEF RunInference, Running, Next
<1>4. CASE CreateObjects \/ OpenCamera \/ InitCoordinator \/ ShutdownCamera \/ ShutdownTts \/ Exit \/ CallWorkers
  BY <1>4 DEF CreateObjects, OpenCamera, InitCoordinator, ShutdownCamera, ShutdownTts, Exit, CallWorkers
<1>5. CASE ShutdownLlm \/ StopPipeline
  BY <1>5 DEF ShutdownLlm, StopPipeline, Next, Main
<1>6. CASE DestroyLast
  BY <1>6 DEF DestroyLast, Destructor, Next, Main
<1>7. CASE PressEscape \/ Interrupt
  BY <1>7 DEF PressEscape, Interrupt, Next
<1>8. CASE WorkerEnds
  BY <1>8 DEF WorkerEnds, LoadEnds, GenerationEnds
<1> QED
  BY <1>1, <1>2, <1>3, <1>4, <1>5, <1>6, <1>7, <1>8 DEF AppNext, MainEnds

\* main.cc: with the objects, the workers and the signals around it, the pipeline still behaves
\* as module Pipeline says, so what is proved of it holds in the program.
THEOREM ApplicationRunsPipeline == AppSpec => Spec
<1>1. AppInit => Init
  BY DEF AppInit
<1>2. [AppNext]_allVars => [Next]_vars
  BY AppStepIsPipelineStep
<1> QED
  BY <1>1, <1>2, PTL DEF AppSpec, Spec

\* What there is at each place of main(), and which threads may run there.
Built == {"coordinator", "bridge", "camera", "pipeline"} \cup options \subseteq alive

PlaceOfMain ==
    /\ up \in {"objects", "camera", "display", "run", "shut_tts", "shut_llm", "unwind", "exited", "forced"}
    /\ options \subseteq Workers
    /\ loading \subseteq options /\ loaded \subseteq options
    /\ up = "objects" => loading = {}
    /\ up \in {"camera", "display"} => {"coordinator", "bridge"} \cup options \subseteq alive
    /\ up = "display" => "camera" \in alive
    /\ up \in {"objects", "camera", "display"} => main = "begin" /\ ~generating /\ ~speaking
    /\ up = "run" => Built
    /\ up \in {"shut_tts", "shut_llm"} => Built /\ main = "returned"
    /\ up \in {"unwind", "exited"} => main \in {"begin", "shut", "stopping", "done"} /\ ~generating
    /\ generating => "llm" \in options
    /\ speaking => "tts" \in options

AppInv == Lone /\ TeardownIsAlone /\ PlaceOfMain /\ ThreadsHaveTheirObjects

\* Outside of Run no thread of the pipeline runs.
LEMMA IdleOutsideRun ==
    ASSUME AppInv, up \notin {"run", "forced"}
    PROVE  pre \in {"none", "exited"} /\ \A i \in Threads : infer[i] \in {"none", "exited"}
<1>1. main \in {"begin", "returned", "shut", "stopping", "done"}
  BY DEF AppInv, PlaceOfMain
<1> QED
  BY <1>1 DEF AppInv, Lone, TeardownIsAlone

\* While the pipeline runs, all that its threads need is there.
LEMMA RunningKeeps ==
    ASSUME AppInv, RunPreprocess \/ RunMain \/ (\E i \in Threads : RunInference(i)) \/ PressEscape
    PROVE  PlaceOfMain' /\ ThreadsHaveTheirObjects'
<1>1. up = "run" /\ UNCHANGED appVars
  BY DEF RunPreprocess, RunMain, RunInference, Running, PressEscape
<1>2. PlaceOfMain'
  BY <1>1 DEF AppInv, PlaceOfMain, Built, appVars, mainVars, workerVars
<1>3. Built
  BY <1>1 DEF AppInv, PlaceOfMain
<1>4. generating' => {"llm"} \cup BridgeOfLlm' \subseteq alive'
  BY <1>1, <1>3 DEF AppInv, ThreadsHaveTheirObjects, BridgeOfLlm, HasTts, appVars, mainVars, workerVars
<1>5. {"camera", "pipeline", "coordinator"} \subseteq alive' /\ loading' \subseteq alive' /\ (speaking' => "tts" \in alive')
  BY <1>1, <1>3 DEF AppInv, Built, ThreadsHaveTheirObjects, appVars, mainVars, workerVars
<1> QED
  BY <1>2, <1>4, <1>5 DEF ThreadsHaveTheirObjects

\* Building: nothing goes away.
LEMMA StartupKeeps ==
    ASSUME AppInv, CreateObjects \/ OpenCamera \/ InitCoordinator
    PROVE  PlaceOfMain' /\ ThreadsHaveTheirObjects'
<1>1. pre \in {"none", "exited"} /\ \A i \in Threads : infer[i] \in {"none", "exited"}
  BY IdleOutsideRun DEF CreateObjects, OpenCamera, InitCoordinator
<1>2. ~generating /\ ~speaking /\ main = "begin" /\ loading \subseteq alive
  BY DEF AppInv, PlaceOfMain, ThreadsHaveTheirObjects, CreateObjects, OpenCamera, InitCoordinator
<1>3. CASE CreateObjects
  BY <1>1, <1>2, <1>3 DEF CreateObjects, AppInv, PlaceOfMain, ThreadsHaveTheirObjects, vars, preVars, inferVars
<1>4. CASE OpenCamera
  BY <1>1, <1>2, <1>4 DEF OpenCamera, AppInv, PlaceOfMain, ThreadsHaveTheirObjects, vars, preVars, inferVars, workerVars
<1>5. CASE InitCoordinator
  <2>1. {"coordinator", "bridge"} \cup options \subseteq alive
    BY <1>5 DEF InitCoordinator, AppInv, PlaceOfMain
  <2>2. alive \subseteq alive' /\ UNCHANGED workerVars /\ UNCHANGED <<pre, infer, main, options>>
    BY <1>5 DEF InitCoordinator, vars, preVars, inferVars
  <2>3. CASE up' = "run" /\ alive' = alive \cup {"display", "vision_loop", "pipeline", "console"}
    BY <1>1, <1>2, <2>1, <2>2, <2>3, <1>5
       DEF InitCoordinator, AppInv, PlaceOfMain, Built, ThreadsHaveTheirObjects, workerVars
  <2>4. CASE up' = "unwind"
    BY <1>1, <1>2, <2>2, <2>4 DEF AppInv, PlaceOfMain, ThreadsHaveTheirObjects, workerVars
  <2> QED
    BY <1>5, <2>3, <2>4 DEF InitCoordinator
<1> QED
  BY <1>3, <1>4, <1>5

\* The threads of the workers come and go with the workers there.
LEMMA WorkersKeep ==
    ASSUME AppInv, CallWorkers \/ WorkerEnds
    PROVE  PlaceOfMain' /\ ThreadsHaveTheirObjects'
<1>1. UNCHANGED <<pre, infer, main, up, options, alive>>
  BY DEF CallWorkers, WorkerEnds, LoadEnds, GenerationEnds, vars, preVars, inferVars, mainVars
<1>2. CASE CallWorkers
  <2>1. up = "run" /\ Built
    BY <1>2 DEF CallWorkers, AppInv, PlaceOfMain
  <2>2. loading' \subseteq options /\ loaded' = loaded
    BY <1>2 DEF CallWorkers, AppInv, PlaceOfMain
  <2>3. (generating' => "llm" \in options) /\ (speaking' => "tts" \in options)
    BY <1>2 DEF CallWorkers, AppInv, PlaceOfMain
  <2>4. PlaceOfMain'
    BY <1>1, <2>1, <2>2, <2>3 DEF AppInv, PlaceOfMain, Built
  <2>5. {"llm"} \cup BridgeOfLlm' \subseteq alive' \/ ~generating'
    BY <1>1, <2>1, <2>3 DEF Built, BridgeOfLlm, HasTts
  <2> QED
    BY <1>1, <2>1, <2>2, <2>3, <2>4, <2>5 DEF Built, AppInv, ThreadsHaveTheirObjects
<1>3. CASE WorkerEnds
  <2>1. loading' \subseteq loading /\ loaded' \subseteq options /\ (generating' => generating) /\ speaking' = speaking
    BY <1>3 DEF WorkerEnds, LoadEnds, GenerationEnds, AppInv, PlaceOfMain
  <2>2. PlaceOfMain'
    BY <1>1, <2>1 DEF AppInv, PlaceOfMain, Built
  <2>3. BridgeOfLlm' = BridgeOfLlm
    BY <1>1 DEF BridgeOfLlm, HasTts
  <2> QED
    BY <1>1, <2>1, <2>2, <2>3 DEF AppInv, ThreadsHaveTheirObjects
<1> QED
  BY <1>2, <1>3

\* After Run the workers are stopped while everything is still there.
LEMMA ShutdownKeeps ==
    ASSUME AppInv, ShutdownCamera \/ ShutdownTts \/ ShutdownLlm
    PROVE  PlaceOfMain' /\ ThreadsHaveTheirObjects'
<1>1. UNCHANGED <<pre, infer, options, alive, loading>> /\ (generating' => generating) /\ (speaking' => speaking)
      /\ loaded' \subseteq loaded
  BY Zenon DEF ShutdownCamera, ShutdownTts, ShutdownLlm, ShutdownWorkers, StopTts, StopLlm, workerVars, vars,
     preVars, inferVars
<1>2. BridgeOfLlm' = BridgeOfLlm
  BY <1>1 DEF BridgeOfLlm, HasTts
<1>3. ThreadsHaveTheirObjects'
  BY <1>1, <1>2 DEF AppInv, ThreadsHaveTheirObjects
<1>4. CASE ShutdownCamera \/ ShutdownTts
  <2>1. up' \in {"shut_tts", "shut_llm"} /\ main' = "returned" /\ Built /\ up \in {"run", "shut_tts"}
    BY <1>4 DEF ShutdownCamera, ShutdownTts, vars, AppInv, PlaceOfMain
  <2> QED
    BY <1>1, <1>3, <2>1 DEF AppInv, PlaceOfMain, Built
<1>5. CASE ShutdownLlm
  <2>1. up' = "unwind" /\ main' = "shut"
    BY <1>5 DEF ShutdownLlm, ShutdownWorkers
  <2>2. ~generating'
    BY <1>5 DEF ShutdownLlm, StopLlm, workerVars, AppInv, PlaceOfMain
  <2> QED
    BY <1>1, <1>3, <2>1, <2>2 DEF AppInv, PlaceOfMain
<1> QED
  BY <1>3, <1>4, <1>5

\* On the way out an object goes when no thread needs it any more.
LEMMA UnwindKeeps ==
    ASSUME AppInv, StopPipeline \/ DestroyLast \/ Exit
    PROVE  PlaceOfMain' /\ ThreadsHaveTheirObjects'
<1>1. up = "unwind" /\ up' \in {"unwind", "exited"} /\ ~generating
      /\ main \in {"begin", "shut", "stopping", "done"}
  BY DEF StopPipeline, DestroyLast, Exit, AppInv, PlaceOfMain
<1>2. pre \in {"none", "exited"} /\ \A i \in Threads : infer[i] \in {"none", "exited"}
  BY <1>1, IdleOutsideRun
<1>3. UNCHANGED <<pre, infer>> /\ main' \in {main, "stopping", "done"}
  BY DEF StopPipeline, DestroyLast, Destructor, Exit, Stop, PushQuitTasks, vars, preVars, inferVars
<1>4. UNCHANGED options /\ loading' = loading /\ loaded' \subseteq loaded /\ generating' = generating
      /\ (speaking' => speaking)
  <2>1. CASE StopPipeline
    BY Zenon, <2>1 DEF StopPipeline
  <2>3. CASE Exit
    BY Zenon, <2>3 DEF Exit, workerVars
  <2>2. CASE DestroyLast
    <3>1. options' = options /\ Destructor(Last)
      BY <2>2 DEF DestroyLast
    <3>2. CASE UNCHANGED workerVars
      BY Zenon, <3>1, <3>2 DEF workerVars
    <3>3. CASE StopTts
      BY Zenon, <3>1, <3>3 DEF StopTts
    <3>4. CASE StopLlm
      BY Zenon, <3>1, <3>4 DEF StopLlm
    <3> QED
      BY Zenon, <3>1, <3>2, <3>3, <3>4 DEF Destructor
  <2> QED
    BY <2>1, <2>2, <2>3
<1>5. PlaceOfMain'
  BY <1>1, <1>3, <1>4 DEF AppInv, PlaceOfMain
<1>6. loading \subseteq alive' /\ (speaking' => "tts" \in alive')
  <2>1. CASE StopPipeline \/ Exit
    BY <1>4, <2>1 DEF StopPipeline, Exit, AppInv, ThreadsHaveTheirObjects
  <2>2. CASE DestroyLast
    <3>1. alive' = alive \ {Last} /\ Destructor(Last)
      BY <2>2 DEF DestroyLast
    <3>2. CASE Last = "tts"
      <4>1. "tts" \notin loading /\ speaking' = FALSE
        BY Zenon, <3>1, <3>2 DEF Destructor, StopTts, Workers
      <4> QED
        BY <3>1, <3>2, <4>1 DEF AppInv, ThreadsHaveTheirObjects
    <3>3. CASE Last = "llm"
      <4>1. "llm" \notin loading
        BY Zenon, <3>1, <3>3 DEF Destructor, StopLlm, Workers
      <4> QED
        BY <1>4, <3>1, <3>3, <4>1 DEF AppInv, ThreadsHaveTheirObjects
    <3>4. CASE Last \notin Workers
      BY <1>4, <3>1, <3>4 DEF Workers, AppInv, PlaceOfMain, ThreadsHaveTheirObjects
    <3> QED
      BY <3>2, <3>3, <3>4 DEF Workers
  <2> QED
    BY <2>1, <2>2
<1> QED
  BY <1>1, <1>2, <1>3, <1>4, <1>5, <1>6 DEF ThreadsHaveTheirObjects

LEMMA InterruptKeeps ==
    ASSUME AppInv, Interrupt
    PROVE  PlaceOfMain' /\ ThreadsHaveTheirObjects'
<1>1. UNCHANGED <<pre, infer, main>> /\ UNCHANGED <<options, alive>> /\ UNCHANGED workerVars
      /\ up' \in {up, "forced"}
  BY DEF Interrupt, RequestStop, vars, preVars, inferVars
<1> QED
  BY <1>1 DEF AppInv, PlaceOfMain, Built, ThreadsHaveTheirObjects, BridgeOfLlm, HasTts, workerVars

LEMMA AppStepKeeps == AppInv /\ [AppNext]_allVars => AppInv'
<1> SUFFICES ASSUME AppInv, [AppNext]_allVars PROVE AppInv'
  OBVIOUS
<1>1. Lone' /\ TeardownIsAlone'
  BY AppStepIsPipelineStep, LoneStays, ExitedStays DEF AppInv
<1>2. CASE UNCHANGED allVars
  BY <1>1, <1>2 DEF allVars, vars, preVars, inferVars, appVars, mainVars, workerVars, AppInv, PlaceOfMain, Built,
     ThreadsHaveTheirObjects, BridgeOfLlm, HasTts
<1>3. CASE AppNext
  <2>1. PlaceOfMain' /\ ThreadsHaveTheirObjects'
    BY <1>3, RunningKeeps, StartupKeeps, WorkersKeep, ShutdownKeeps, UnwindKeeps, InterruptKeeps
       DEF AppNext, MainEnds
  <2> QED
    BY <1>1, <2>1 DEF AppInv
<1> QED
  BY <1>2, <1>3

\* main.cc: whichever way main() takes out, with whatever options and at whatever moment, no
\* thread of the pipeline or of a worker runs without the objects it works on.
THEOREM ThreadsAlwaysHaveTheirObjects == AppSpec => []ThreadsHaveTheirObjects
<1>1. AppInit => AppInv
  <2> SUFFICES ASSUME AppInit PROVE AppInv
    OBVIOUS
  <2>1. Lone /\ TeardownIsAlone /\ main = "begin" /\ pre = "none" /\ \A i \in Threads : infer[i] = "none"
    BY DEF AppInit, Init, Lone, TeardownIsAlone
  <2>2. up = "objects" /\ options \subseteq Workers /\ loading = {} /\ loaded = {} /\ ~generating /\ ~speaking
    BY Zenon DEF AppInit, Workers
  <2> QED
    BY <2>1, <2>2 DEF AppInv, PlaceOfMain, ThreadsHaveTheirObjects
<1>2. AppInv => ThreadsHaveTheirObjects
  BY DEF AppInv
<1> QED
  BY <1>1, <1>2, AppStepKeeps, PTL DEF AppSpec
=============================================================================

------------------------------ MODULE SlotAdapters ------------------------------
(***************************************************************************)
(* adapters/yolo/yolo_adapter.cpp and adapters/scrfd/scrfd_adapter.cpp,    *)
(* the model of a slot, as platform/model_coordinator.cpp loads it and the *)
(* inference threads of engine/pipeline.cpp run it: preprocess, set, run,  *)
(* get, postprocess, each of which may fail, while the main thread moves   *)
(* models in and out of their slots.                                       *)
(*                                                                         *)
(* What is computed of frame f is called f.  An adapter keeps its input,   *)
(* its letterbox and what it found from one frame to the next.             *)
(***************************************************************************)
EXTENDS Rknn, Sequences, FiniteSets

CONSTANTS InferThreads,    \* num_infer_threads_
          LastFrame,       \* bound: frames 1 .. LastFrame
          MaxFailedLoads   \* bound: how often loading scrfd fails

\* Pipeline and ModelCoordinator::Init take 1 for what is not positive.
ASSUME ThreadsAssumption == InferThreads \in Nat \ {0}

VARIABLES
    enabled,     \* enabled_slots_; their models are in slot_runtimes_
    warm,        \* the keys of warm_runtimes_
    failed,      \* how often loading a slot's model has failed
    adapter,     \* per slot: [input, box, found]: input_buf_, letter_box_, od_results_ or last_faces_
    next_frame,  \* the frame the next thread to ask gets
    thread,      \* per inference thread: [at, frame, todo, output, text, results]
    given        \* history: the results given on last, [frame, results]

slotVars == <<enabled, warm, failed>>
slotAdapterVars == <<slotVars, adapter, next_frame, thread, given>>

Slots == {"yolo", "scrfd"}
Threads == 1 .. InferThreads

Loaded(s) == s \in enabled \cup warm

\* The enabled slots, in the order of OrderedSlotNames.
OrderedSlots ==
    (IF "yolo" \in enabled THEN <<"yolo">> ELSE <<>>) \o (IF "scrfd" \in enabled THEN <<"scrfd">> ELSE <<>>)

IdleThread == [at |-> "take", frame |-> 0, todo |-> <<>>, output |-> 0, text |-> [found |-> 0, box |-> 0], results |-> {}]

SlotAdaptersInit ==
    /\ enabled = {} /\ warm = {} /\ failed = [s \in Slots |-> 0]
    /\ adapter = [s \in Slots |-> [input |-> 0, box |-> 0, found |-> 0]]
    /\ next_frame = 1
    /\ thread = [i \in Threads |-> IdleThread]
    /\ given = [frame |-> 0, results |-> {}]

-----------------------------------------------------------------------------
(* Main thread *)

\* How an Init ends: without a context, with one that then could not be queried, or well.
Endings == {"no_context", "not_queried", "loaded"}
Only(m, n) == [k \in Models |-> IF k = m THEN n ELSE 0]

\* Mutation: the context that could not be queried stays open.
InitModelForgets(s, ending) == Reopen(Only(s, IF ending = "no_context" THEN 0 ELSE 1))

\* init_yolov5_model, InitScrfdModel: what cannot be queried is destroyed again.
InitModel(s, ending) == Reopen(Only(s, IF ending = "loaded" THEN 1 ELSE 0))

\* EnableSlot: out of the warm pool, or a clone that is loaded now.  main() enables yolo first
\* and ends when it cannot; a plan that wants scrfd tries again with every frame.
EnableSlot(s) ==
    /\ s \notin enabled
    /\ s = "scrfd" => Loaded("yolo")
    /\ \/ /\ s \in warm
          /\ warm' = warm \ {s} /\ enabled' = enabled \cup {s}
          /\ UNCHANGED <<failed, adapter, rknnVars>>
       \/ /\ ~Loaded(s) /\ failed[s] < IF s = "yolo" THEN 1 ELSE MaxFailedLoads
          /\ \E ending \in Endings :
                /\ InitModel(s, ending)
                /\ IF ending = "loaded"
                   THEN /\ enabled' = enabled \cup {s} /\ UNCHANGED failed
                        /\ adapter' = [adapter EXCEPT ![s] = [input |-> 0, box |-> 0, found |-> 0]]
                   ELSE /\ failed' = [failed EXCEPT ![s] = @ + 1] /\ UNCHANGED <<enabled, adapter>>
          /\ UNCHANGED warm
    /\ UNCHANGED <<next_frame, thread, given>>

\* DisableSlot: the adapter stays as it is, in the warm pool.
DisableSlot(s) ==
    /\ s \in enabled
    /\ enabled' = enabled \ {s} /\ warm' = warm \cup {s}
    /\ UNCHANGED <<failed, adapter, next_frame, thread, given, rknnVars>>

-----------------------------------------------------------------------------
(* Inference thread i: RunEnabledSlots *)

\* The thread goes to `at` with the fields of t changed.
Goes(i, at, t) == thread' = [thread EXCEPT ![i] = [t EXCEPT !.at = at]]
SlotOf(i) == Head(thread[i].todo)
After(t) == IF Len(t.todo) = 1 THEN "publish" ELSE "preprocess"
Rest(t) == [t EXCEPT !.todo = Tail(@), !.output = 0, !.text = IdleThread.text]

\* GetEnabledSlotAdapters; a frame without a slot is dropped.
TakeFrame(i) ==
    /\ thread[i].at = "take" /\ Loaded("yolo") /\ next_frame <= LastFrame
    /\ Goes(i, IF OrderedSlots = <<>> THEN "take" ELSE "preprocess",
            [IdleThread EXCEPT !.frame = IF OrderedSlots = <<>> THEN 0 ELSE next_frame,
                               !.todo = OrderedSlots])
    /\ next_frame' = next_frame + 1
    /\ UNCHANGED <<slotVars, adapter, given, rknnVars>>

\* ShouldRunSlotInference: yolo may sit a frame out next to scrfd.
SitOut(i) ==
    /\ thread[i].at = "preprocess" /\ SlotOf(i) = "yolo" /\ "scrfd" \in enabled
    /\ Goes(i, After(thread[i]), Rest(thread[i]))
    /\ UNCHANGED <<slotVars, adapter, next_frame, given, rknnVars>>

\* Preprocess; a frame it cannot use gives the slot no result at all.
Preprocess(i) ==
    /\ thread[i].at = "preprocess"
    /\ \/ /\ Goes(i, "set", thread[i])
          /\ adapter' = [adapter EXCEPT ![SlotOf(i)].input = thread[i].frame,
                                        ![SlotOf(i)].box = thread[i].frame]
       \/ Goes(i, After(thread[i]), Rest(thread[i])) /\ UNCHANGED adapter
    /\ UNCHANGED <<slotVars, next_frame, given, rknnVars>>

\* Inference, one call of the runtime after the other; the first that fails ends it without
\* an output.
InferSet(i) ==
    /\ thread[i].at = "set"
    /\ \/ Goes(i, "run", thread[i]) /\ SetInputs(SlotOf(i), adapter[SlotOf(i)].input)
       \/ Goes(i, "postprocess", thread[i]) /\ UNCHANGED rknnVars
    /\ UNCHANGED <<slotVars, adapter, next_frame, given>>

InferRun(i) ==
    /\ thread[i].at = "run"
    /\ \/ Goes(i, "get", thread[i]) /\ RunContext(SlotOf(i))
       \/ Goes(i, "postprocess", thread[i]) /\ UNCHANGED rknnVars
    /\ UNCHANGED <<slotVars, adapter, next_frame, given>>

InferGet(i) ==
    /\ thread[i].at = "get"
    /\ \/ /\ Goes(i, "postprocess", [thread[i] EXCEPT !.output = context[SlotOf(i)].out])
          /\ Lend(SlotOf(i))
       \/ Goes(i, "postprocess", thread[i]) /\ UNCHANGED rknnVars
    /\ UNCHANGED <<slotVars, adapter, next_frame, given>>

\* Mutation: without an output the adapter is left as it is.
FoundKeepsLast(s, output) == IF output = 0 THEN {adapter[s].found} ELSE {0, output}

\* What Postprocess leaves in the adapter: nothing without an output, else nothing or what the
\* output shows.
Found(s, output) == {0, output}

\* Postprocess: the list is cleared, the boxes are brought back with the letterbox kept by the
\* adapter, and the outputs are released.
Postprocess(i) ==
    LET s == SlotOf(i)
        output == thread[i].output
    IN /\ thread[i].at = "postprocess"
       /\ \E found \in Found(s, output) :
             /\ adapter' = [adapter EXCEPT ![s].found = found]
             /\ Goes(i, "signals", [thread[i] EXCEPT !.output = 0, !.text =
                      [found |-> IF output = 0 THEN 0 ELSE found,
                       box |-> IF output = 0 \/ found = 0 THEN 0 ELSE adapter[s].box]])
       /\ TakeBack(s, IF output = 0 THEN 0 ELSE 1)
       /\ UNCHANGED <<slotVars, next_frame, given>>

\* GetAdapterSignals looks at what the adapter has kept.
GetSignals(i) ==
    /\ thread[i].at = "signals"
    /\ Goes(i, After(thread[i]),
            [Rest(thread[i]) EXCEPT !.results = @ \cup
                {[slot |-> SlotOf(i), text |-> thread[i].text, signal |-> adapter[SlotOf(i)].found]}])
    /\ UNCHANGED <<slotVars, adapter, next_frame, given, rknnVars>>

\* The results go on to the main thread; a frame without any is dropped.
Publish(i) ==
    /\ thread[i].at = "publish"
    /\ given' = IF thread[i].results = {} THEN given
                ELSE [frame |-> thread[i].frame, results |-> thread[i].results]
    /\ Goes(i, "take", IdleThread)
    /\ UNCHANGED <<slotVars, adapter, next_frame, rknnVars>>

RunEnabledSlots(i) ==
    \/ TakeFrame(i) \/ SitOut(i) \/ Preprocess(i)
    \/ InferSet(i) \/ InferRun(i) \/ InferGet(i)
    \/ Postprocess(i) \/ GetSignals(i) \/ Publish(i)

SlotAdaptersNext ==
    \/ \E s \in Slots : EnableSlot(s) \/ DisableSlot(s)
    \/ \E i \in Threads : RunEnabledSlots(i)
=============================================================================

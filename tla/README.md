# A formal model of the dialogue runtime

The program in `src/runtime` watches a camera, decides from what it sees whether
somebody wants to talk, lets a local language model answer, and speaks the answer.
Four to six threads share one NPU and a handful of mutexes. The modules here model
the control of that machinery: who may talk, which model runs, what happens to a
typed line, and what becomes of a sentence between the language model and the
loudspeaker.

Paths below are relative to `src/runtime` unless they start with `docs/`, which is
`src/docs`.

## 1. Inventory

| Component | State it keeps | Operations | Talks to | What is hard |
|---|---|---|---|---|
| Voice reply bridge (`voice/voice_reply_bridge.cpp`) | two session numbers, an event queue, planned and held-back text | `BeginTurn`, `OnRunStarted`, `OnLlmChunk`, `Poll`, `Cancel`, `Reset` | called by the LLM worker on two threads; calls the TTS worker | late callbacks of a preempted answer; text buffered in three places |
| LLM worker (`adapters/llm/llm_worker.cpp`, `rkllm_session.cpp`) | init state and future, `infer_busy_`, one pending and one deferred line | `RequestInitializeAsync`, `SubmitPrompt`, `PollDeferred`, `DropQueuedPrompts`, `RequestAbortGeneration`, `Shutdown`, the inference thread and its callbacks | bridge, session gate | calls made of several critical sections; a join on the frame loop; abort against a generation that has not begun |
| TTS worker (`voice/tts_worker.cpp`, `adapters/melotts/melotts_session.cpp`) | text and PCM queue, generation number, protection latch | `EnqueueCleaned`, `Cancel`, `PollInitState`, `Shutdown`, synthesis and playback threads | audio player; the coordinator reads the latch | invalidation of everything in flight; a wait that releases the lock; merging of texts |
| Session and input gate (`platform/llm_greeting.cpp`) | session state, two counters, gate, greeting flag, two clocks | `Update`, `PollDeferred`, `SubmitUserPrompt` | LLM worker; called by the coordinator | timeouts against returning faces; model readiness against a stable face |
| Model coordinator (`platform/model_coordinator.cpp`) | enabled slots, live and warm models, scene counters | `UpdateAfterFrame`, `EnableSlot`, `DisableSlot`, `GetEnabledSlotAdapters`, `ShouldRunSlotInference` | pipeline (inference thread), session | slots change while a frame runs on an old snapshot; debouncing; a feedback loop through what the models can see |
| Pipeline (`engine/pipeline.cpp`, `bounded_queue.h`, `thread_pool.cpp`) | infer queues, one post queue, stop flags | `Run`, `PreprocessLoop`, `InferenceLoop`, post-processing on the main thread, `Stop` | coordinator, vision loop | full queues, stop while waiting, order of teardown |
| Application loop (`app/main.cc`, `app/reference_vision_loop.cpp`, `app/console_ui`) | lifetimes of the above, the stop flag, the count of interrupts | startup, one frame, signal handler, shutdown, destructors | all | three ways out, each with other objects alive; destructors that call on |
| Audio player (`voice/audio_player.cpp`) | child process, pipe, keepalive thread | `PlayPcm`, `Stop`, `BeginIdleKeepalive`, `EndIdleKeepalive` | TTS worker | child process that dies, a thread that ends by itself |
| Answer text to sentences (`voice/tts_ingress.cpp`, `tts_planner.cpp`, `tts_text_sanitizer.cpp`) | the unfinished sentence | `Feed`, `Flush`, `Sanitize` | bridge | where a sentence ends |
| MeloTTS session and engine (`adapters/melotts/melotts_session.cpp`, `melotts_engine.cc`) | two contexts of the NPU, `ready_` | `Init`, `Shutdown`, `SynthesizeTextStreaming` | TTS worker, the NPU runtime | fifteen calls in a row, each of which may fail and has something to give back |
| MeloTTS text (`split.hpp`, `lexicon.hpp`, `melotts_process.cc`) | none | `split_sentence`, `convert`, `Intersperse`, `middle_process` | the engine | what is cut, padded or stretched must still be the whole sentence |
| Yolo (`adapters/yolo`) | a context, the input, the letterbox, the last result | `Preprocess`, `Inference`, `Postprocess`, `Clone` | pipeline, coordinator, overlay | results of an earlier frame left in the adapter; sorting and suppression |
| Scrfd (`adapters/scrfd`) | the same | the same | the same | which of nine outputs is which |
| Result overlay (`display/result_overlay.cpp`) | none | `Apply` | reads what the adapters print | a line is read back from text |
| Image utilities (`utils/image_utils.c`) | none | `convert_image_with_letterbox` | yolo | alignment and padding against the size of the frame |
| Configuration (`app/config_parser.h`) | a tree of nodes | `LoadFromFile`, `GetString`, `GetInt`, `GetBool`, `GetArray` | `main()` | depth by indentation; quotes, comments and commas in a value |
| Camera, frame transform, display (`vision`, `display`) | handles of OpenCV | open, read, show | pipeline | pure input and output |
| Logging, drawing, audio and file utilities (`utils`) | none | | | |

What makes each correct, in one sentence:

* **bridge** - every word of an answer is handed over once and in order, and no word
  of a preempted one after the new turn;
* **LLM worker** - a line is answered at most once, is not lost, the frame loop never
  waits for a generation, nothing runs on a destroyed session;
* **TTS worker** - sentences are spoken in the order they were said, a preemption
  silences everything but the chunk being played, the latch follows the queue;
* **audio player** - one child plays and none is forgotten, the keepalive is never
  left paused, nothing is left at the end;
* **session** - lines get in during a dialogue only, a session is greeted once, an
  empty room locks it;
* **coordinator** - one model per slot, never blind, no flapping, scenes neither
  stuck nor missed;
* **pipeline** - no frame is seen twice or out of order, a stop ends everything;
* **application loop** - no thread outlives an object it works on, whichever way out;
* **adapters and engine** - what is given on belongs to this frame or this sentence,
  whichever call has failed, and every context and output is given back;
* **post-processing** - what is reported stands where it is in the frame, best first;
* **MeloTTS text** - a sentence is spoken whole, in order, each sound for its time;
* **configuration** - a value is found where it was written and as it was written.

## 2. Modules

    SpeechChannel         abstract: one line of sentences
      ^ refined by
    TtsWorker             text queue -> synthesis -> PCM queue -> playback

    VoiceReplyBridge      the bridge's operations, no threads
      ^ extended by
      |- VoiceReply       the bridge between its two callers
      |   ^ refined by (LlmWorker_proofs)
      |- LlmWorker        the worker, rkllm and the bridge

    LlmGreeting           session, gate and greeting
    ModelCoordinator      scenes and slots
      ^ extended by
    VisionLoop            ModelCoordinator + an instance of LlmGreeting

    Pipeline              threads and queues of a frame
      ^ extended by
    Application           main() around it: objects, signals, shutdown

    AudioPlayer           child process, pipe, keepalive and playback thread

    AnswerText            chunks of an answer -> visible text -> segments

    Rknn                  the runtime of the NPU, external
      ^ extended by
      |- SlotAdapters     yolo and scrfd in their slots, call by call
      |- MeloEngine       the two models of the voice, call by call
           both extended by
           Models         all models on the NPU at once

    Lists                                      lists filled by a loop over another list
      ^ extended by
    Detections  Faces  Overlay,  Letterbox     an image -> lines -> shapes
    DurationAlign  MeloText                    a text -> phones, sounds -> frames
    ConfigFile                                 lines -> values
      all extended by
    Kernels               one call of one of them, its input chosen freely

`X_proofs` holds the theorems about `X` (`ModelCoordinator_proofs` also those about
`LlmGreeting` and `VisionLoop`, `TtsWorker_proofs` those about `SpeechChannel` and `Models`,
`AnswerText_proofs` those about `AudioPlayer`; `Texts_proofs` holds the laws of the loops of
`MeloText` and `ConfigFile` on which `Kernels_proofs` builds); `MCX` is the instance TLC checks, with
`MCX*.cfg` giving the constants their values. A definition called "Mutation" is a
wrong version of the definition after it; substituting it must break a property.

**What a step is.** Each module takes one critical section of the component's mutex,
together with the work of its thread that no other thread can see, as one step.
Operations made of several critical sections are several actions connected by a
program counter (`main`, `infer`, `synth`, `play`); everything in between is
interleaved.

### VoiceReplyBridge, VoiceReply

The operators carry the names of the C++ functions. A chunk is the speakable text of
one NORMAL callback. Three buffers hold it: `events` (filled by callbacks),
`unplanned` (inside `ingress_` and `planner_`) and `deferred_formal` (prefetch).
Where a sentence ends is data, so `Poll` may release any prefix of the text
it holds and any choice of prefetching; `FINISH` releases all. `accepted` and
`handed` are histories. `VoiceReply` adds an inference thread that runs one
generation after another and a main thread that does anything at any time.
It is the abstract caller of the proofs: no run checks it, its two properties are stated
in `VoiceReplyBridge` and checked where the real callers are, in `LlmWorker`.

### LlmWorker

Main thread: `Submit` -> `RunPromptNow` -> `SpawnInfer` or `QueuePrompt` is
`SubmitPrompt`; `PollVoice` -> `TakeQueued` -> `RunPromptNow` ... is `PollDeferred`;
`BeginShutdown` -> `ShutdownAbort` -> `ShutdownDestroy` is `Shutdown`. Inference
thread: `StartRun`, `EnterRun`, then `Generate` and `EndOfAnswer` are the callbacks
inside `rkllm_run`, `TakePending` and `DeferQueued` the two critical sections of
`OnLlmChunk(FINISH)`, `ExitInfer` the last one of the thread. `rkllm` itself is
external: it calls back with NORMAL any number of times up to `MaxChunks`, then with
FINISH or ERROR, or returns without either, after an abort or because `rkllm_run` has
failed; what such an answer has left in the planner waits there for the next turn. The history `run` keeps how the
generation ended, which is what `VoiceReply` calls by that name: the two callers
`VoiceReply` makes up are what the worker's three threads come to.

### TtsWorker, SpeechChannel

A text is the sequence of its sentence numbers. The synthesis thread takes the front
text (merging what the code merges), cuts any prefix off it, and pushes it or loses
it; the playback thread pops, checks the generation, and plays. `SpeechChannel` is
what the rest of the program relies on: `Say`, `Lose`, `Preempt`, `Start`, `Finish`
on one line. The refinement reads the four places a sentence can wait in - the chunk
just popped, the PCM queue, the rest of the job, the text queue - as that one line,
skipping what belongs to an old generation.

### LlmGreeting

`Update` and `PollDeferred` alternate, one pair per frame; `SubmitUserPrompt` comes
between frames. Counters saturate at their thresholds, clocks are ticks that may
pass at any moment. Of the LLM worker only what the session asks is kept: init
state, busy, a line waiting. Startup (preload or not, load failed or not) is the
choice in `Init`.

### ModelCoordinator, VisionLoop

`UpdateScene` and one `ApplySlot` per slot are the critical sections of
`UpdateAfterFrame`; `Capture`, `Throttle` and `Post` those of the inference thread,
which works on the snapshot it took. A frame shows a person only if yolo ran and a
face only if scrfd ran (`Signals`), which is the feedback loop of the system: what is
switched on decides what can be seen. `VisionLoop` puts the session into that loop
with the faces that the same frames show.

### Pipeline

`ReadFrame`/`PushToInfer`, `LookForStop`/`PopFrame`/`RunSlots`/`PushToPost` and
`MainLooksForStop`/`ShowFrame` are one look at the stop flags or one queue operation
each. Between the look and the end of its `TryPop` a thread may wait 200 ms, in which
the stop may come and a frame still be taken; on an empty queue it gives up and looks
again. `Run` starts
either the threads or the single-threaded loop (`RunSingleThreaded`, `SingleFrame`).
`main` goes on through join, the shutdown of the workers, and `~Pipeline`.

`Application` puts `main()` around it. `alive` holds the objects of `main()` that
exist; `DestroyLast` destroys them in the reverse of their declaration, from whichever
of the three ways out (camera, coordinator, end of `Run`) was taken. Of the workers only
their threads are told - a load, a generation, the voice - because those are what a
destructor waits for or pulls something away from. `used` remembers objects that were
used after their end. A signal may come at any step; the second one ends the process.

### Rknn, SlotAdapters, MeloEngine, Models

`Rknn` is the external runtime: a context keeps the inputs set last and the outcome of
the last run, outputs are lent and have to be released, and any call may fail. What a
model computes of frame f is called f, so that a result left over from another frame is
seen as such. `SlotAdapters` runs the calls of one frame through the snapshot of an
inference thread (`Preprocess`, `InferSet`, `InferRun`, `InferGet`, `Postprocess`) while the main
thread moves models between slots and the warm pool; `MeloEngine` takes a sentence
through encoder, `middle_process` and decoder, and `Init` through its loads. `Models`
lets both run at once.

### Kernels and what it is made of

Algorithms without state. A behaviour of `Kernels` is one call: `Init` chooses an input,
one action computes what the code makes of it, and the properties compare the result
with what the input stands for, not with a second algorithm. `Detections` is
`post_process` of yolo with its four decoders; `Letterbox` the way of a frame into a
model and back; `Faces` the choice of outputs and the way of a face back; `Overlay` the
text in between and the shapes drawn; `DurationAlign` `middle_process`; `MeloText` the
cutting of a segment, the lexicon and the padding; `ConfigFile` the parser. Numbers are
quanta or tenths, characters a few kinds, words of a line tokens; a number of the
configuration is its digits before and behind the point.

Two of the kinds of characters of `MeloText` are there because the code works on bytes: "u^" and "zz"
are a letter of two bytes and one of three that hold a byte of a guillemet, which is
erased from them; "u-" and "zz-" are what is left, which takes the first byte of the next
character along when the text is split by characters (`SplitEachChar`). What scrfd reads
of outputs that are not what it takes them for (`HeadsHold`) may be anything: `PointsRead`
has nothing, and a face in the corner. A value of a configuration file is written with or
without quotes (`Writable`), alone or in a list.

Loops that fill a list
from another are `Taken` and `Only` of `Lists`, which `AnswerText` uses too; loops in
general are recursive functions with a step of their own (`CutAt`, `Gather`, `Merge`,
`AddTo`), so that their laws can be proved. A face is asked to come back to its place less at most `slack`, which is
what a pixel of the model covers of the frame, because three casts cut it off.

### AudioPlayer

A child process and its pipe are one number. What runs under `g_pipe_mutex` is cut at
each write, because that is where a child that has just died makes a difference:
`PlayEnsure` -> `PlayPrime` -> `PlayWrite` (with `PlayReprime` and `PlayRewrite` after a
restart) is `PlayPcm`, `KeepLoop` -> `KeepEnsure` -> `KeepFeed` the keepalive thread,
`BeginStop` -> `JoinKeeper` -> `StopStream` is `Stop`, which `TtsWorker` calls twice, in
`Shutdown` and in its destructor. Whether SIGPIPE is ignored is inherited from whatever
started the program, so it is a constant: a service manager ignores it, a shell does not.

### AnswerText

What `DrainDeferredTtsEventsUnlocked` does with the text it takes from its queue, which
`VoiceReplyBridge` leaves open. A text is a sequence of kinds of characters: a letter, an
ideograph, a stop of either width, a space, brackets, an emoji, and the characters of the
thinking tags. What has been spoken is one text, segment behind segment. `Feed` is
`TtsIngress::Feed` (`ProcessInput`, a recursive function, with `Tag` for the tag looked
for and `Held` for the tail that may become one) followed by the append of `TtsPlanner::Feed`;
`EmitSentence`, `EmitLong`, `EmitLate` and `Keep` are the iterations of the loop in
`TryEmitSegments`; `Finish` and `FlushPending` are FINISH, `Reset` is what `BeginTurn`,
`OnRunStarted` and an error do. `EmitLate` needs `fallback_timeout_ms` to pass between two
statements of `TtsPlanner::Feed`, because that sets `last_feed_tp_` itself; the model lets
it happen whenever the code would act on it.

Two assumptions about data: a chunk ends between characters (the planner counts the first
byte of an unfinished one as a character and would cut there), and `max_speak_chars` is 0,
as configured, so nothing is truncated.

## 3. What TLC checks

Eight runs pass; together they fire every action. Every property has a mutant that
breaks it under the same configuration.

| Run | Specification | Bounds | Distinct states |
|---|---|---|---|
| `llm_worker` | `FairSpec` | 3 lines, 3 chunks each | 105 k |
| `tts_worker` | `FairSpec` | 4 sentences, 2 cancels, watermarks 1 and 2 | 116 k |
| `audio_player` | `FairSpec` | 4 children, 3 calls of `PlayPcm`, SIGPIPE ignored | 16 k |
| `vision_loop` | `LoopSpec` | counters, dwell and trigger 2, clocks 1, queue 1 | 420 k |
| `answer_text` | `FairTextSpec` | answers of 6 characters in 6 styles, minima 2, maxima 3 | 176 k |
| `application` | `FairAppSpec` | 2 inference threads, queues 1 and 2, 3 frames | 534 k |
| `kernels` | `Spec` | a model of 32 by 32 with 2 classes, up to 3 cells, 8 frames of sound, 16 phones, 4 characters, 4 lines | 51 k |
| `models` | `Spec` | 1 inference thread, 2 frames, 1 failed load, 2 sentences, 2 calls of `Init` | 3.6 M |

Why these bounds are enough to see the interesting cases: the LLM worker has two slots
and one thread, so three lines fill every place at once and a fourth could only be
refused; three chunks of each answer allow mixing of answers, and one handed over, one held back
and one waiting at once. Two
cancels with four sentences give three generations in the TTS worker - a stale job, a
stale chunk and a live text at the same time - and one chunk below, between and above
the watermarks. Three lines give the bridge a preempted, a current
and a next generation. Thresholds of 2 separate "reached", "one short" and
"reset", and a clock of 1 "running" from "run out". Three calls of `PlayPcm` and four
children let a call fail in each of its ways after another has succeeded, and `fork`
fail at last. Six characters hold a whole thinking block (its tags have two and three
characters, begin alike and end alike) with text before, in or after it, and three
words, which is the limit; each answer comes in every division into chunks. Two
inference threads on queues of one and two make both kinds of queue overflow and let
frames overtake each other. Two frames and two sentences are what a result left over
from the one before needs; one failed load brings a slot back through the warm pool.
The lists of cells hold boxes that overlap, nearly overlap and do not, of one class and
of two, below, at and above the thresholds; the frames are wider than the model, higher,
square, smaller, and of odd size; the files nest, close two sections at once and repeat
a path, and their values are those of `config/default.yaml` in small: plain text, a path
with a colon, true and false, whole numbers and ones with a point, one of more digits than
are printed, lists of numbers and of texts, and quotations that hold a `#`, a comma, an
apostrophe or a number. Sixteen phones hold some sentences of the texts and cut others.

**llm_worker.** Of the bridge: `PreemptedIsSilent`: the filter against stale events in `Poll` never has
anything to filter, and after a turn the old answer says nothing until the next run
begins. `AnswerInFull`: what was handed over, held, unplanned and queued is at each
moment exactly what was accepted, in its order, and after FINISH nothing is held. Of the worker:
`PromptInOnePlace`, `MainNeverWaitsForGeneration`,
`OneAnswerAtATime`, `DownIsQuiet`; live: `QueuedPromptLeaves`, `ShutdownReturns`. That the
worker's calls of the bridge are a behaviour of `VoiceReply` is proved (`WorkerRunsBridge`),
and so is that the two properties of the bridge hold of any callers `VoiceReply` allows.

**tts_worker.** `QueuesInStep`: what is queued is of the current generation and the latch
of the NPU follows the number of chunks. `AtMostOneLateChunk`, `DownIsQuiet`,
`ImplementsChannel` (refinement; that sentences are spoken in order and none twice is
then `ChannelSpeaksInOrder`, both proved in section 5); live: `SpeechDrains`, `ShutdownReturns`. The
live properties except the undefined step described in section 4, after which nothing
can be said.

**audio_player.** `StreamsInOrder`: one child plays, none is forgotten, and the keepalive
is paused by `PlayPcm` only. `NothingLeft`; live: `StopReturns`.

**vision_loop.** The session and the coordinator in one loop, because which faces a frame
can show depends on the slots and the slots depend on the faces. `SlotsInOrder`: no model
twice, lost, or in two places, and never blind. `GateFollowsSession`: lines get in during
a dialogue only, one greeting per session. The action property `AppliedSceneHolds`; live:
`PersonBringsScene`, `EmptyRoomEndsDialogue`, `StayingFaceOpensGate`.

**answer_text.** `SpokenIsVisible`: in every state what has been spoken, what waits and
what is held back have the sounds of the answer without its thinking, which `Shown` defines
on the whole answer at once; live: `PlannerReturns`, no loop of the planner goes on for ever.

**application.** `FramesKeepPlaceAndOrder`: no frame is in two places or shown after a
later one of its thread. `TeardownIsAlone`: no thread of the pipeline runs once `Run` has
returned. `ThreadsHaveTheirObjects`: neither does any thread of a worker run without what
it works on. Live: `StopEndsProgram`, whatever is full, loading, generating or speaking;
`PipelineDrains`.

**kernels.** `BestBoxesReported` (of two boxes that cover each other the class decides:
two of one class are never both reported), `SureCellsAreCandidates`, `FrameFitsModel`,
`FaceFoundWhereItIs`, `FramesFollowDurations`, `SpeechCarriesText`, `ConfigAsWritten`: what
each algorithm has to achieve, over bounded inputs. `SpeechCarriesText` asks for a sound for
every word, a run of latin letters or one wide letter, not for every letter: that a listed
word sounds as often as it has letters is a matter of the word list. It asks so of what
the encoder is given, after the cut at `MAX_LENGTH`, when that has room for all and no
letter has been broken; a longer sentence is given as far as there is room.
`FaceFoundWhereItIs` is about outputs that are all named or come grouped; the third order
has a run of its own in section 4. `ConfigAsWritten` asks the functions `main()` calls: text
as written, a number as an int, as a switch and, up to six digits, as a text of the same
number, `true` and `false` whatever the default, a list element by element.

**models.** `ResultsOfThisFrame`: whichever call fails, nothing of an earlier frame is
given on. `SoundOfThisSentence`: the same of sentences, and they are heard in order.
`NothingLeaked`: the contexts and outputs that exist are the ones in use, except the one
context a failed `Init` of the voice leaves behind.

### Fairness

Weak fairness only, per thread. The operating system schedules every thread (`Infer`,
`Synth`, `Play`, `RunPreprocess`, `RunInference(i)`, `InferStep`, `Playback`, `Keepalive`,
`Plan`, `FlushPending`); a model load ends (`InitDone`, `LoadEnds`); `rkllm_run` ends because the number
of new tokens is capped by the configuration (`RunEnds`, `GenerationEnds`); `PlayPcm` and
a vision inference return (the child reads on or dies; it is not assumed to live); the
main loop goes on and polls on every frame (`MainStep`, `PollInitState`, `MainLoop`,
`MainEnds`), which assumes a camera that keeps giving frames - without frames the program
indeed polls nothing. Clocks run (`TimePasses`), and timed waits (`TryPop`, `TryPush`,
`wait_for`) end by themselves. Nothing is assumed of the user, of signals, of what the
camera sees, nor of whether a load or a call of the NPU succeeds. `kernels`
and `models` state nothing live and assume no fairness.

### Deadlock

Deadlock is checked where the system never stops. `tts_worker` stops after shutdown
with the bound on cancels used up, and after the undefined step; `application` and
`audio_player` stop when the program has ended; `kernels` after its one call; `models`
when the bounds on frames, sentences and loads are used up.

## 4. Where the code and its own words disagree

Four runs are expected to find a violation; each checks one sentence of a comment or a
document.

| Run | What the trace shows |
|---|---|
| `llm_deferred_line` | FINISH hands the waiting line to `PollDeferred` while `infer_busy_` is still set. When the main thread polls before the inference thread has left, it takes the line out of its slot, `RunPromptNow` refuses it, and the line is gone. |
| `teardown` | `main()` declares the LLM worker, the TTS worker and the bridge in this order (`app/main.cc:196`), so the bridge is destroyed first. `~LlmWorker` then calls `Shutdown` a second time, which locks the mutex of the bridge and clears its queue (`llm_worker.cpp:404`). `docs/troubleshooting.md:100` asks for a safe teardown order. |
| `seen_is_drawn` | Two causes. `nms` looks at the class of a candidate by its place before sorting (`yolo_postprocess.cpp:133`, `:141`), so a box suppresses boxes of other classes where the comment says by class. And a line of results is read as one word and four numbers (`result_overlay.cpp:103`), while 15 of the 80 class names have two words: a traffic light is never drawn. |
| `interleaved_is_read` | `ResolveScrfdHeadOutputs` says it takes grouped and interleaved outputs (`scrfd_postprocess.cpp:81`, `:109`), but whatever has nine outputs or more and no names is taken for grouped (`:102`): boxes and landmarks are read as scores. With fewer than nine the third scale is out of range (`:113`) and no face is found. |

Further disagreements that the models contain as behaviours, without a run of their
own:

* `split_sentences_latin` removes guillemets byte by byte, and with them the bytes C2, AB
  and BB of any other character (`split.hpp:113-116`; `MeloText!SplitLatin`). What is left
  of such a letter asks for a byte too many, and the letter behind it is swallowed
  (`lexicon.hpp:93-107`; `SplitEachChar`), where `split.hpp:98` names French and Spanish.
  `SpeechCarriesText` says what is kept of a text that has such letters.
* The child of the audio player dies after `EnsureStreamProcessLocked` has looked at it:
  the write to its pipe raises SIGPIPE, which nothing in the program ignores or handles
  (`audio_player.cpp:139`); unless it was inherited as ignored, the program ends instead
  of restarting the child.
* The loop that looks for the end of the `en_max_words`-th word stops when that word has
  begun (`tts_planner.cpp:267`): a long English answer is cut after the first letter of
  every eighth word, where `docs/tts-melotts.md:44` speaks of words.
* With more than one inference thread all of them share the one adapter of a slot
  (`pipeline.cpp:28-59`), and one may read what another has just overwritten;
  `yolo_adapter.h:36` has a `Clone` "用于多线程推理" (for inference in several threads),
  but `EnableSlot` calls it once for a slot, not for each thread (`model_coordinator.cpp:180`). `infer_threads` is 1 by default, and so in the run `models`.
* `Init` of a MeloTTS model that fails after `rknn_init` - at a query or a shape - does
  not destroy the context (`melotts_engine.cc:74-127`); `NothingLeaked` counts it.
* The phones given to the encoder are cut at `MAX_LENGTH`, their number is not
  (`melotts_session.cpp:228`).
* An exception out of `Run` leaves the `try` block of `main()` and destroys the bridge
  while the workers are still alive (`app/main.cc:336`).
* The decoder for RV1106 compares the product of the two probabilities with the
  threshold, its three siblings each by itself.
* The deferred log line of a console that has left its panel stays unprinted
  (`logging.h:121-131`).
* During the 80 ms wait for a second text the lock is released; a cancel empties the
  queue; `front()` and `pop_front()` are then called on an empty deque
  (`tts_worker.cpp:452`; `EndLinger` goes to "undefined", and nothing is said of what
  follows).
* A second line typed before the first generation has called `OnRunStarted` makes that
  generation adopt the session of the second turn, and its answer is spoken
  (`voice_reply_bridge.cpp:111`).
* `fallback_timeout_ms` is measured from `last_feed_tp_`, which `TtsPlanner::Feed` sets
  right before it is looked at (`tts_planner.cpp:327`), so a pause of the model never
  makes the planner speak. `docs/tts-melotts.md` lists the timeout as a rule, and a
  deferral of short answers (`short_answer_max_chars`) that the code does not have.
* `SubmitPrompt` looks at `infer_busy_` twice (`llm_worker.cpp:305` and `:365`); when
  the generation ends in between, the line is neither run nor queued
  (`QueuePrompt`).
* `OnLlmChunk(FINISH)` holds the waiting line in a local variable between two critical
  sections; `DropQueuedPrompts` does not see it, and the line is answered after the
  gate has closed. In the same way a deferred and a pending line can exist together,
  where the comment says only one is kept.
* Only a line that runs at once counts as activity (`llm_greeting.cpp:330`). A long
  reply, or a line queued behind it, does not, and the session locks while the reply is
  put out; `llm_greeting.h:32` says it locks without input *or output*.
* With `yolo_always_on: false` the first idle scene switches every slot off. No frame is
  inferred any more, so `UpdateAfterFrame` is not called again and nothing switches a
  slot back on; `config/default.yaml:113` says the scene switches it on and off.
* The keepalive thread ends by itself after two minutes and leaves `g_keepalive_stop`
  false; `BeginIdleKeepalive` then takes it for running and starts no other
  (`audio_player.cpp:178`, `:217`).
* `~Pipeline` cancels the speech after `TtsWorker::Shutdown`, which starts the keepalive,
  and with it a child, once more; the destructor of `TtsWorker` ends both.
* Going to Grace leaves the gate open (`llm_greeting.cpp:397`); `docs/tts-melotts.md`
  says Grace rejects input.
* After an idle timeout a face that never left is greeted again.
* `person_present_count_` survives gaps shorter than `absent_threshold_`, although the
  configuration file speaks of consecutive frames.
* `Pipeline::Stop` runs from `~Pipeline`, after the workers have been shut down;
  `docs/troubleshooting.md` lists it first.

## 5. What TLAPS proves

For every value of the constants that meets the named assumptions. Every invariant is
proved by a strengthening that is inductive; the parts are defined with names.

| Module | Theorem | Inductive invariant, and why it is needed |
|---|---|---|
| `VoiceReply_proofs` | `PreemptedStaysSilent` | `SessionInv`: the two halves need each other. A chunk is appended with the active session, which is the desired one only because a differing pair means an empty queue. |
| | `AnswerIsSaidInFull` | `AnswerInv`: besides the equation of `NothingLostOrReordered` `HeldBehindFirst` (nothing is held back before the first sentence is out) and `EndIsLast` (a FINISH waits in the queue exactly while a finished generation has not been polled to its end; nothing is planned or held back after it). The text in the queue is a recursive function of it; its laws (`TextOfAppend`, `TextOfType`) are induced over the numbers. |
| `LlmWorker_proofs` | `FrameLoopNeverBlocks`, `RunAlwaysHasHandle`, `ShutdownLeavesQuiet` | `ControlInv`: `BusyCoversRun` (the flag is set from before the thread starts to its last critical section), `InitJoined` (nobody loads once the shutdown has waited), `QueuedIsLocal` (the local of `OnLlmChunk` is empty outside it). |
| | `EveryPromptInOnePlace` | `PlaceInv`: the five places are pairwise apart and a line not yet typed is in none of them. |
| | `WorkerRunsBridge`, `WorkerSaysAnswerInFull` | `CallerInv`: a generation is open between its `OnRunStarted` and its last callback (`RunFollowsThread`), every turn is a line that was fresh (`TurnsAreLines`), and no more is taken in than was produced. With it each step is one of `VoiceReply` or leaves the bridge alone. |
| | `WordsAreOfOneAnswer` | `OneAnswer`: one line accounts for everything in the bridge, and from `OnRunStarted` on it is the line being answered; before, while the thread is only spawned, it may still be the one of the last answer. |
| `TtsWorker_proofs` | `QueuesAlwaysInStep`, `TtsShutdownLeavesQuiet` | `TtsInv`: `JobIsOlder` (a job in synthesis is never from a generation to come), `EmptyWhenStopping` (nothing is queued from the first critical section of `Shutdown` on). |
| | `LateChunkIsAlone` | `LineInv`: every text in a queue was said after the last preemption, and a chunk in the player's hand either was too or is the first to be late. The texts come out of `FlattenSeq`; its laws are induced over the numbers by the least counterexample (`NatSet`, which takes a set where the library's theorem takes an operator). |
| | `TtsImplementsChannel` | The chunk popped, the PCM queue, the job and the text queue are one `Line`. A step moves texts within it (`LineFacts`) or is one of the channel: a text queued is `Say`, a piece that cannot be synthesised `Lose`, a preemption `Preempt`, the second look at the generation `Start`. |
| | `ChannelSpeaksInOrder`, `TtsSpeaksInOrder` | `ChannelInv`, of `SpeechChannel`: what is waiting has been said, and is in order after what was heard. The refinement carries it over to the worker: sentences are heard in order and none twice, however many there are. |
| | `NothingIsEverLeaked` | `SlotInv` and `VoiceInv`: `AtWork` says of every inference thread, `Holding` of each slot, whether an output is in its hands at the place where it stands; the outputs lent by a model are as many as the threads that hold one, which is what a thread that takes or gives one back changes by one, whatever the others do. |
| | `SoundIsOfItsSentence` | `OnItsWay`: between the encoder and the decoder, the contexts and the buffers hold the sentence being synthesised; `Heard`: the sounds so far are those of the sentences before. |
| | `ResultsAreOfTheirFrame` | `FrameInv`: from the place where a frame was put into a context on, context, buffer and adapter hold that frame or nothing. Hypothesis: `InferThreads = 1`, the one case in which the adapters are not shared. |
| `ModelCoordinator_proofs` | `SlotsAlwaysInOrder`, `DetectorAlwaysFollowsScene` | `SlotInv`: one model per slot, and yolo is loaded somewhere. `PlanInv`: the plan in progress is the one of the applied scene, and yolo is settled before scrfd. |
| | `CoordinatorTypes` | `CountsOK`, `QueueOK`: the saturating counters, and a queue that is only appended to below its capacity. |
| | `AppliedSceneAlwaysHolds` | `DwellInv`: a scene that waits has waited less long than the applied one has been applied. |
| | `GateAlwaysFollowsSession` | `SessionInv`, of `LlmGreeting`: a closed session has counted no greeting, and a counted greeting is marked in `auto_prompt_sent_for_visit_`. |
| | `SessionTypes` | `SessionCounts`, `SessionFlags`: saturating counters and clocks. |
| | `LoopRunsCoordinator`, `LoopRunsSession`, `LoopGateFollowsSession` | Every step of `VisionLoop` is a step of the coordinator, and - as `DueOK` says, each frame shows a face or none - of the session, so the theorems about each hold of the loop. |
| `Pipeline_proofs` | `PipelineTypes` | `TypeInv`: a thread that is to run or push a frame holds one. |
| | `TeardownAlwaysAlone` | `TeardownIsAlone` itself is inductive: a thread that has left its loop stays out of it, and `Run` returns only when all have. |
| | `ApplicationRunsPipeline` | Every step of `main()` around the pipeline is one of the pipeline or leaves it alone. |
| | `ThreadsAlwaysHaveTheirObjects` | `PlaceOfMain`: where `main()` is tells which objects exist, and which threads may still run at each destructor. |
| | `FramesAlwaysKeepPlaceAndOrder` | `FlowInv`: with `FramesKeepPlaceAndOrder` itself `Order` (along the way shown, post queue, thread, infer queue, just read, the frames of one thread are in the order of their numbers), `Home` (a thread holds only the residues that are dealt to it), `Read` (no number on the way has not been read yet) and `LoneEmpty` (single-threaded, the queues are empty). |
| `AnswerText_proofs` | `AnswerIsSpokenWithoutThinking` | `OpenOK`: while the answer may go on, then whatever follows, what will be shown of it all has the sounds of what is spoken and pending and of what will be shown of the held tail with what follows. Only with every continuation is this inductive, for a chunk may complete a tag. `ReadAs`, the law of `ProcessInput`, takes it over a chunk; `HeldIsEnd` and `NoneBeforeHeld` (no tag can begin before the held tail) are its base, `ReadsOverTag` its step. `ClosedOK`: after FINISH everything is in the planner's hands, and every cut of the planner is inside what is pending (`SentenceEndInside`, `WordSplitInside`, `ForceSplitInside`). That `ProcessInput`, `Shown` and `Only` are functions is shown too (`BodyHasFunction`, `KeptExists`); their laws are induced over the length of the text. |
| | `StreamsAlwaysInOrder` | `StreamInv`, of `AudioPlayer`: pipe and process number change together, and whatever is started is started when nothing plays. `PauseInv`: the keepalive is let go of after the first restart of `PlayPcm` already. |
| | `NothingLeftAtTheEnd` | `ShutInv`: the playback thread is gone before the second `Stop`, the keepalive thread within it. |
| | `PlayerTypes` | the above and `ControlTypeOK`. |
| `Kernels_proofs` | `FrameAlwaysFitsModel` | `FitInv`: the answer is the letterbox of the frame that was asked for. That the frame lies inside the model's input, is mixed of its own pixels only, and that a place comes back to where it was taken from up to the alignment is then arithmetic of whole quotients (`BackWhereTaken`, `AlignedQuotient`). |
| | `FramesAlwaysFollowDurations` | `AlignInv`: the answer is the alignment of the list and speed asked for. The ends of the sounds are a recursive sum of the durations; its laws are induced over the numbers (`EndsGrow`: they never fall, `SomebodyOwns`: every frame before the last end lies between two of them). |
| | `SureCellsAlwaysCandidates` | `DetectInv`: the answer is what one of the four decoders made of the cells that were given. `TakenIs` says that a filter keeps the elements that pass, each once and in order (by an increasing list of places); `BestClassIsFirst` that the class is the first of the surest; `QuantisedThreshold` and `SureByBestProb` that the rounding of the threshold never crosses a whole quantum, in either integer form. |
| | `BestBoxesAlwaysReported` | `DetectInv` again. The sort: `Turning` is the invariant of the loop of `quick_sort_indice_inverse` around its gap (left of it nothing is less than the pivot, right of it nothing more, and what is there is a mixture of what was), `PartitionParts` what it leaves, `SortStepSorts` one call under the assumption that those on shorter parts sort, `QuickSortSorts` the induction over the length. The suppression: `Settled` (what has been passed over covers none of those that stay, and whoever was struck out is covered by one at least as good) is kept by every step of `nms` for every class (`SettledStays`, `SuppressSettles`), though a class strikes out boxes of others. |
| | `FaceAlwaysFoundWhereItIs` | `FaceInv`: the answer is what `scrfd_postprocess` made of one of the readings of the layout, face and size given. Hypothesis: the outputs are all named, or grouped. `HeadsFound`: by name or by place, every head resolves to the outputs it is taken for. `SideBack`: a corner that is scaled, cut and padded comes back less at most what a pixel of the model covers, and the corner across, a sum of two cut quotients, less at most one more. The two faces are equal but for their score, so they overlap (`OverlapsItself`) and the better one is taken (`BetterFaceTaken`). |
| | `SpeechAlwaysCarriesText` | `SpeakInv`: the answer is what was made of the text given. Every loop over a text is a fold (`Folds`), and what is claimed of it is kept by one element more (`SeqSet`, an induction over the beginnings of a sequence). So what is spoken of a text is shown to pass every station unchanged: blanks and marks (`SqueezeSays`, `MarkAfterSays`), cutting (`CutUpKeeps`, with the piece that is open as part of what is kept), gathering and merging (`GatherStepKeeps`, `MergeAllCarries`); and `MergeAllLong` says that while sentences are merged all but the last are long. `Counted`, the invariant of `merge_english`, says that as many words sound as there are `WordStarts`, and that the last word is of latin letters exactly when the text ends with one; `ConvertHeard` and `EncoderVoices` bring it to the phones that are left when they are cut. Erasing bytes takes nothing but what `Spoken` leaves out of a latin text (`NotSpokenLatin`, `SplitLatinCarries`), and a text without a broken letter is split into its characters (`EachCharType`, `WholeIsRead`). |
| | `ConfigAlwaysAsWritten` | `ConfigInv`: the answer is the tree of the file given. One line: a text that is `Whole` is read over without leaving a quotation open, and what is quoted is (`QuotationIsWhole`, `ElementsWhole`), so the comment goes and nothing else (`CommentRead`), a list falls into the elements it was made of (`ElementsRead`, `ListRead`), and `LineIsRead` puts indent, key and value together. All lines: `Stacked`, the invariant of the loop (`FileRead`), says that the stack holds exactly the sections that are still open, in the order of their lines, each under its path; so what is left when the deeper ones are closed is what `SectionOf` finds by looking at all lines (`LeftIsAround`), and the entry of a path is that of the last line with it (`EntryRead`, `FileIsRead`). |

Assumptions: only the `ASSUME`s of the modules (thresholds and capacities are positive
naturals, the watermarks are ordered, empty slots differ from what fills them, there is
at least one inference thread, neither thinking tag is empty, every slot and both halves
of the voice have a model, no frame has a side of one pixel or is so narrow that its
aligned size is nothing, durations and speeds are natural numbers, a confidence is at most
one and the threshold of the boxes is a value of both integer forms of the tensors, only
the first class is called a person, an output of scrfd that has a name is what the name
says and its middle scale can be read, a face is a pixel of the frame larger than a pixel of
the model, the word list knows the blank and every letter and gives every word of letters a
sound that is not the blank's, what is spoken comes in whole characters, and in a
configuration file a key is no sign of the syntax, a quoted text holds neither a double
quote nor a backslash, and an unquoted one is not empty, has no blank at its ends, no quote
or `#`, in a list no comma, and does not begin like a list). TLC evaluates them in every run. The type invariants of
`AudioPlayer`, `LlmGreeting`, `ModelCoordinator` and `Pipeline` are proved, and so not
repeated in the runs; those of `LlmWorker` and `TtsWorker` state the shapes of the state
and are in no run.

Only model-checked, not proved: everything live, for fairness and ENABLED are beyond the
prover. Every safety invariant of a passing run is stated by a theorem.

## 6. What is not modelled

* The **truncation** of `TtsTextSanitizer` (`max_speak_chars`, off in the configuration)
  and chunks that end inside a UTF-8 character.
* The **arithmetic** that makes a box of four numbers and an anchor, or a landmark of an
  anchor point, and the mixture of pixels in a resize: floating point, without control.
  `Detections`, `Faces` and `Letterbox` start from the box or the place.
* In the **configuration**: a number with a sign, an exponent, in hexadecimal, `inf` or
  `nan`, or beyond an int; a list in a list; a value written in single quotes (the parser
  is modelled, `ConfigAsWritten` does not write it). A number of more than six digits is
  printed as one stand-in for what it is rounded to.
* **Tones and languages**, which run alongside the phones, and the file format of the
  lexicon; the quantisation of the decoder's inputs.
* **Camera, frame transform, display, logging, drawing, font, audio and file utilities**:
  pure input and output, or without a caller.
* An **exception** out of the `try` block of `main()`, and the editing of a line in the
  **console**; a line enters the models as a whole.
* The **sample rate** of the audio player, of which there is one.
* Statistics, banners, repeated-log suppression: no decision depends on them.

## 7. Plan

Done, in this order, the most important behaviour first: the bridge and the LLM
worker (what becomes of a line), the TTS worker and its abstract channel (what
becomes of a sentence), the session and the coordinator and their composition (who may
talk), the pipeline (frames and shutdown), the audio player (what becomes of a chunk), the
text of an answer (what is said of it), the application around the pipeline (who outlives
whom), the models on the NPU (what a failed call leaves behind), and the algorithms on
frames, text and configuration.

To come:

1. `Dialogue`: LLM worker, bridge, answer text, TTS worker and audio player composed, so
   that preemption can be checked from a typed line to the loudspeaker.
2. The exception path of `main()`, as a fourth way out of `Application`.

The number of runs is kept to one per composition plus one per disagreement worth a
trace; a component that a composition contains has no run of its own.

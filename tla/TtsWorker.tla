------------------------------ MODULE TtsWorker ------------------------------
(***************************************************************************)
(* voice/tts_worker.{h,cpp} with the sentence loop of                      *)
(* adapters/melotts/melotts_session.cpp: text is queued by the main        *)
(* thread, synthesised sentence by sentence by the synthesis thread and    *)
(* played by the playback thread.  Cancel invalidates everything in flight *)
(* by advancing generation_.                                               *)
(*                                                                         *)
(* A step is one critical section of mutex_ with the thread-local work     *)
(* around it.  A text is the sequence of its sentences, numbered in the    *)
(* order they were said.  The statistics, read by the log only, are left   *)
(* out; so is the empty text, which the sanitizer has already refused.     *)
(***************************************************************************)
EXTENDS Naturals, Sequences, SequencesExt

CONSTANTS MaxUnits,    \* bound: sentences said
          MaxCancels,  \* bound: calls of Cancel
          Low, High    \* protect_low_chunks_, protect_high_chunks_

ASSUME TtsAssumption ==
    /\ MaxUnits \in Nat /\ MaxCancels \in Nat
    /\ Low \in Nat /\ High \in Nat
    /\ 1 <= Low /\ Low < High  \* SetPlaybackProtectionThresholds

VARIABLES
    init_state,       \* init_state_
    init_future,      \* init_future_: none, running, or the result it holds
    stop,             \* stop_
    generation,       \* generation_
    text_queue,       \* text_queue_
    pcm_queue,        \* pcm_queue_
    synth_busy,       \* synth_busy_
    protect_latched,  \* protect_latched_
    main,             \* where the main thread is in Shutdown
    synth,            \* where the synthesis thread is
    job,              \* what is left of the text it synthesises
    play,             \* where the playback thread is
    chunk,            \* the chunk it holds
    said,             \* history: sentences said so far
    heard,            \* history: sentences given to PlayPcm
    preempted,        \* history: the last sentence said before the last Cancel
    late              \* history: chunks from before that Cancel given to PlayPcm after it

initVars == <<init_state, init_future>>
queueVars == <<text_queue, pcm_queue, synth_busy, protect_latched>>
synthVars == <<synth, job>>
playVars == <<play, chunk>>
history == <<said, heard, preempted, late>>
vars == <<initVars, stop, generation, queueVars, main, synthVars, playVars, history>>

Kind == {"Static", "FormalAnswer"}
Unit == 1 .. MaxUnits
TextJob == [units : Seq(Unit), kind : Kind, generation : Nat]
PcmJob == [units : Seq(Unit), generation : Nat]

TypeOK ==
    /\ init_state \in {"Uninitialized", "Initializing", "Ready", "Failed"}
    /\ init_future \in {"none", "running", "ok", "failed"}
    /\ {stop, synth_busy, protect_latched} \subseteq BOOLEAN
    /\ generation \in Nat
    /\ text_queue \in Seq(TextJob)
    /\ pcm_queue \in Seq(PcmJob)
    /\ main \in {"idle", "stopping", "joining", "down"}
    /\ synth \in {"off", "wait", "linger", "synth", "exited", "undefined"}
    /\ job \in TextJob
    /\ play \in {"off", "wait", "popped", "checked", "playing", "exited"}
    /\ chunk \in PcmJob
    /\ said \in 0 .. MaxUnits /\ preempted \in 0 .. MaxUnits
    /\ heard \in Seq(Unit)
    /\ late \in Nat

NoJob == [units |-> <<>>, kind |-> "Static", generation |-> 0]
NoChunk == [units |-> <<>>, generation |-> 0]

Init ==
    /\ init_state = "Uninitialized" /\ init_future = "none"
    /\ stop = FALSE /\ generation = 0
    /\ text_queue = <<>> /\ pcm_queue = <<>>
    /\ synth_busy = FALSE /\ protect_latched = FALSE
    /\ main = "idle"
    /\ synth = "off" /\ job = NoJob
    /\ play = "off" /\ chunk = NoChunk
    /\ said = 0 /\ heard = <<>> /\ preempted = 0 /\ late = 0

\* RefreshProtectionLatchUnlocked: latched when the loudspeaker is about to run dry
\* while there is more to say, until the queue has filled up again.
RefreshProtectionLatch ==
    LET active == synth_busy' \/ text_queue' # <<>> \/ pcm_queue' # <<>>
        depth  == Len(pcm_queue')
    IN  protect_latched' = (active /\ (depth <= Low \/ (depth < High /\ protect_latched)))

-----------------------------------------------------------------------------
\* Initialisation

\* RequestInitializeAsync: at startup, and from EnqueueCleaned.
RequestInitializeAsync ==
    /\ main = "idle"
    /\ init_state \in {"Uninitialized", "Failed"}
    /\ init_state' = "Initializing" /\ init_future' = "running"
    /\ UNCHANGED <<stop, generation, queueVars, main, synthVars, playVars, history>>

\* The init thread: MeloTtsSession::Init.
InitDone ==
    /\ init_future = "running"
    /\ init_future' \in {"ok", "failed"}
    /\ UNCHANGED <<init_state, stop, generation, queueVars, main, synthVars, playVars, history>>

\* Mutation: the playback thread is not started.
PollInitStateWithoutPlayer ==
    /\ main = "idle"
    /\ init_state = "Initializing" /\ init_future = "ok"
    /\ init_future' = "none" /\ init_state' = "Ready"
    /\ synth' = "wait" /\ stop' = FALSE
    /\ UNCHANGED <<play, queueVars, generation, main, job, chunk, history>>

\* PollInitState, called on every frame: a loaded model starts the two threads, a
\* failed load empties the queues.
PollInitState ==
    /\ main = "idle"
    /\ init_state = "Initializing" /\ init_future \in {"ok", "failed"}
    /\ init_future' = "none"
    /\ IF init_future = "ok"
       THEN /\ init_state' = "Ready"
            /\ IF synth = "off" THEN synth' = "wait" /\ stop' = FALSE
                                ELSE UNCHANGED <<synth, stop>>
            /\ play' = IF play = "off" THEN "wait" ELSE play
            /\ UNCHANGED queueVars
       ELSE /\ init_state' = "Failed"
            /\ text_queue' = <<>> /\ pcm_queue' = <<>>
            /\ synth_busy' = FALSE /\ protect_latched' = FALSE
            /\ UNCHANGED <<synth, play, stop>>
    /\ UNCHANGED <<generation, main, job, chunk, history>>

-----------------------------------------------------------------------------
\* Main thread

\* EnqueueCleaned: a greeting or a short answer is Static, a longer answer Formal.
\* After a failed load the text is ignored.
EnqueueCleaned(n, kind) ==
    /\ main = "idle"
    /\ init_state # "Failed"
    /\ said + n <= MaxUnits
    /\ said' = said + n
    /\ text_queue' = Append(text_queue, [units |-> [i \in 1 .. n |-> said + i], kind |-> kind,
                                         generation |-> generation])
    /\ IF init_state = "Uninitialized"
       THEN init_state' = "Initializing" /\ init_future' = "running"
       ELSE UNCHANGED initVars
    /\ UNCHANGED <<stop, generation, pcm_queue, synth_busy, protect_latched, main, synthVars,
                   playVars, heard, preempted, late>>

\* The part Cancel and Shutdown share.
AdvanceGeneration ==
    /\ generation' = generation + 1
    /\ text_queue' = <<>> /\ pcm_queue' = <<>>
    /\ synth_busy' = FALSE /\ protect_latched' = FALSE
    /\ preempted' = said /\ late' = 0

\* Mutation: the generation stays, only the queues are emptied.
CancelSameGeneration ==
    /\ main \in {"idle", "down"}
    /\ generation < MaxCancels
    /\ text_queue' = <<>> /\ pcm_queue' = <<>>
    /\ synth_busy' = FALSE /\ protect_latched' = FALSE
    /\ preempted' = said /\ late' = 0
    /\ UNCHANGED <<initVars, stop, generation, main, synthVars, playVars, said, heard>>

\* Cancel: BeginTurn and Cancel of the voice bridge, AbortActiveGeneration.
Cancel ==
    /\ main \in {"idle", "down"}
    /\ generation < MaxCancels
    /\ AdvanceGeneration
    /\ UNCHANGED <<initVars, stop, main, synthVars, playVars, said, heard>>

\* Mutation: the generation is not advanced at shutdown.
BeginShutdownSameGeneration ==
    /\ main = "idle"
    /\ main' = "stopping"
    /\ text_queue' = <<>> /\ pcm_queue' = <<>>
    /\ synth_busy' = FALSE /\ protect_latched' = FALSE
    /\ preempted' = said /\ late' = 0
    /\ UNCHANGED <<initVars, stop, generation, synthVars, playVars, said, heard>>

\* Shutdown, first critical section.
BeginShutdown ==
    /\ main = "idle"
    /\ main' = "stopping"
    /\ AdvanceGeneration
    /\ UNCHANGED <<initVars, stop, synthVars, playVars, said, heard>>

\* Shutdown, second critical section, after AudioPlayer::Stop.
SetStop ==
    /\ main = "stopping"
    /\ main' = "joining" /\ stop' = TRUE
    /\ UNCHANGED <<initVars, generation, queueVars, synthVars, playVars, history>>

\* Shutdown: JoinWorkerThreads, the wait for the init thread, the end of the session.
JoinWorkers ==
    /\ main = "joining"
    /\ synth \in {"off", "exited"} /\ play \in {"off", "exited"}
    /\ init_future # "running"
    /\ main' = "down" /\ synth' = "off" /\ play' = "off"
    /\ init_state' = "Uninitialized"
    /\ UNCHANGED <<init_future, stop, generation, queueVars, job, chunk, history>>

-----------------------------------------------------------------------------
\* Synthesis thread

SynthStops ==
    /\ synth = "wait" /\ stop
    /\ synth' = "exited"
    /\ UNCHANGED <<initVars, stop, generation, queueVars, main, job, playVars, history>>

\* A Formal text takes along every Formal text of its generation right behind it.
FormalRuns ==
    {n \in DOMAIN text_queue :
        /\ \A i \in 1 .. n : /\ text_queue[i].kind = "FormalAnswer"
                             /\ text_queue[i].generation = text_queue[1].generation
        /\ n < Len(text_queue) =>
            \/ text_queue[n + 1].kind # "FormalAnswer"
            \/ text_queue[n + 1].generation # text_queue[1].generation}

\* A Static text shorter than four bytes takes along what fits (CoalescePendingText).
StaticRuns ==
    {n \in DOMAIN text_queue :
        \A i \in 1 .. n : text_queue[i].generation = text_queue[1].generation}

WithUnits(text, units) ==
    [units |-> units, kind |-> text.kind, generation |-> text.generation]

\* The front of the queue, and what is merged into it, becomes the job.
Take ==
    /\ \E n \in IF Head(text_queue).kind = "FormalAnswer" THEN FormalRuns ELSE StaticRuns :
        /\ job' = WithUnits(Head(text_queue),
                            FlattenSeq([i \in 1 .. n |-> text_queue[i].units]))
        /\ text_queue' = SubSeq(text_queue, n + 1, Len(text_queue))
    /\ synth' = "synth" /\ synth_busy' = TRUE
    /\ UNCHANGED pcm_queue
    /\ RefreshProtectionLatch

TakeText ==
    /\ synth = "wait" /\ ~stop
    /\ init_state = "Ready" /\ text_queue # <<>>
    /\ Head(text_queue).kind = "Static" \/ Len(text_queue) > 1
    /\ Take
    /\ UNCHANGED <<initVars, stop, generation, main, playVars, history>>

\* A Formal text alone in the queue: wait up to 80 ms for another.
BeginLinger ==
    /\ synth = "wait" /\ ~stop
    /\ init_state = "Ready" /\ text_queue # <<>>
    /\ Head(text_queue).kind = "FormalAnswer" /\ Len(text_queue) = 1
    /\ synth' = "linger"
    /\ UNCHANGED <<initVars, stop, generation, queueVars, main, job, playVars, history>>

\* The wait ends: by the clock, a second text, or stop_.  The front is taken without
\* a second look; when Cancel or Shutdown has emptied the queue, this is undefined.
EndLinger ==
    /\ synth = "linger"
    /\ IF text_queue = <<>>
       THEN synth' = "undefined" /\ UNCHANGED <<queueVars, job>>
       ELSE Take
    /\ UNCHANGED <<initVars, stop, generation, main, playVars, history>>

\* Mutation: stale chunks are accepted.
PushPcmChunkUnchecked(units) ==
    /\ pcm_queue' = Append(pcm_queue, [units |-> units, generation |-> job.generation])
    /\ job' = WithUnits(job, SubSeq(job.units, Len(units) + 1, Len(job.units)))
    /\ UNCHANGED <<text_queue, synth_busy>>
    /\ RefreshProtectionLatch

\* PushPcmChunk: a stale chunk is refused and ends the job.
PushPcmChunk(units) ==
    IF stop \/ job.generation # generation
    THEN job' = WithUnits(job, <<>>) /\ UNCHANGED queueVars
    ELSE /\ pcm_queue' = Append(pcm_queue, [units |-> units, generation |-> job.generation])
         /\ job' = WithUnits(job, SubSeq(job.units, Len(units) + 1, Len(job.units)))
         /\ UNCHANGED <<text_queue, synth_busy>>
         /\ RefreshProtectionLatch

\* The next piece MeloTtsSession cuts off the text is synthesised and pushed, or
\* yields no sound and is skipped.
Synthesize ==
    /\ synth = "synth" /\ job.units # <<>>
    /\ \E n \in DOMAIN job.units :
        \/ PushPcmChunk(SubSeq(job.units, 1, n))
        \/ /\ job' = WithUnits(job, SubSeq(job.units, n + 1, Len(job.units)))
           /\ UNCHANGED queueVars
    /\ UNCHANGED <<initVars, stop, generation, main, synth, playVars, history>>

FinishJob ==
    /\ synth = "synth" /\ job.units = <<>>
    /\ synth' = "wait" /\ synth_busy' = FALSE
    /\ UNCHANGED <<text_queue, pcm_queue>>
    /\ RefreshProtectionLatch
    /\ UNCHANGED <<initVars, stop, generation, main, job, playVars, history>>

-----------------------------------------------------------------------------
\* Playback thread

\* Mutation: stop_ is noticed only with something to play.
PlayStopsWithPcm ==
    /\ play = "wait" /\ stop /\ pcm_queue # <<>>
    /\ play' = "exited"
    /\ UNCHANGED <<initVars, stop, generation, queueVars, main, synthVars, chunk, history>>

PlayStops ==
    /\ play = "wait" /\ stop
    /\ play' = "exited"
    /\ UNCHANGED <<initVars, stop, generation, queueVars, main, synthVars, chunk, history>>

PopPcm ==
    /\ play = "wait" /\ ~stop
    /\ pcm_queue # <<>>
    /\ play' = "popped" /\ chunk' = Head(pcm_queue)
    /\ pcm_queue' = Tail(pcm_queue)
    /\ UNCHANGED <<text_queue, synth_busy>>
    /\ RefreshProtectionLatch
    /\ UNCHANGED <<initVars, stop, generation, main, synthVars, history>>

\* Mutation: the generation is not looked at again.
CheckNothing ==
    /\ play = "popped"
    /\ play' = "checked"
    /\ UNCHANGED <<initVars, stop, generation, queueVars, main, synthVars, chunk, history>>

\* The second critical section of the loop.
CheckGeneration ==
    /\ play = "popped"
    /\ play' = IF chunk.generation = generation THEN "checked" ELSE "wait"
    /\ UNCHANGED <<initVars, stop, generation, queueVars, main, synthVars, chunk, history>>

\* PlayPcm is called outside the lock; it blocks for the length of the chunk.
StartPlay ==
    /\ play = "checked"
    /\ play' = "playing"
    /\ heard' = heard \o chunk.units
    /\ late' = IF \E i \in DOMAIN chunk.units : chunk.units[i] <= preempted
               THEN late + 1 ELSE late
    /\ UNCHANGED <<initVars, stop, generation, queueVars, main, synthVars, chunk, said, preempted>>

FinishPlay ==
    /\ play = "playing"
    /\ play' = "wait"
    /\ UNCHANGED <<initVars, stop, generation, queueVars, main, synthVars, chunk, history>>

-----------------------------------------------------------------------------
Synth == SynthStops \/ TakeText \/ BeginLinger \/ EndLinger \/ Synthesize \/ FinishJob
Play == PlayStops \/ PopPcm \/ CheckGeneration \/ StartPlay \/ FinishPlay
Shutdown == SetStop \/ JoinWorkers

Enqueue == \E n \in Unit, kind \in Kind : EnqueueCleaned(n, kind)

\* What follows an undefined step is not modelled.
Next ==
    /\ synth # "undefined"
    /\ \/ RequestInitializeAsync \/ InitDone \/ PollInitState
       \/ Enqueue \/ Cancel \/ BeginShutdown \/ Shutdown
       \/ Synth \/ Play

Spec == Init /\ [][Next]_vars

\* The threads are scheduled, the model load and PlayPcm return, the frame loop polls.
FairSpec ==
    /\ Spec
    /\ WF_vars(InitDone) /\ WF_vars(PollInitState) /\ WF_vars(Shutdown)
    /\ WF_vars(synth # "undefined" /\ Synth) /\ WF_vars(synth # "undefined" /\ Play)

-----------------------------------------------------------------------------
\* Whatever waits in a queue was said after the last Cancel: one generation at a time.
QueuesAreCurrent ==
    /\ \A i \in DOMAIN text_queue : text_queue[i].generation = generation
    /\ \A i \in DOMAIN pcm_queue : pcm_queue[i].generation = generation

\* After a Cancel at most one older chunk still reaches the loudspeaker: the one whose
\* generation was checked just before.
AtMostOneLateChunk == late <= 1

\* While a current text is being synthesised the latch that throttles the vision
\* models is set whenever the queue is low, and never when it is full.
ProtectionFollowsDepth ==
    /\ synth_busy /\ Len(pcm_queue) <= Low => protect_latched
    /\ Len(pcm_queue) >= High => ~protect_latched

\* Both queues hold what the user is to hear now, and the vision models yield to them only.
QueuesInStep == QueuesAreCurrent /\ ProtectionFollowsDepth

\* After Shutdown no thread is left and none has put anything back.
DownIsQuiet ==
    main = "down" =>
        /\ synth = "off" /\ play = "off" /\ ~synth_busy
        /\ text_queue = <<>> /\ pcm_queue = <<>>

\* What is said is eventually on its way to the loudspeaker, lost or preempted.
SpeechDrains ==
    (text_queue # <<>> \/ pcm_queue # <<>>)
        ~> ((text_queue = <<>> /\ pcm_queue = <<>>) \/ synth = "undefined")

\* Shutdown returns, whatever the two threads are doing when it starts.
ShutdownReturns == (main = "stopping") ~> (main = "down" \/ synth = "undefined")

-----------------------------------------------------------------------------
\* The four places a sentence can wait in are one line: refinement of SpeechChannel.

Current(place) == IF place.generation = generation THEN place.units ELSE <<>>

UnitsOf(queue) == FlattenSeq([i \in DOMAIN queue |-> queue[i].units])

Waiting ==
    (IF play = "popped" THEN Current(chunk) ELSE <<>>)
        \o UnitsOf(pcm_queue)
        \o (IF synth = "synth" THEN Current(job) ELSE <<>>)
        \o UnitsOf(text_queue)

Speaking == IF play \in {"checked", "playing"} THEN chunk.units ELSE <<>>

Channel == INSTANCE SpeechChannel WITH
    waiting <- Waiting,
    speaking <- Speaking,
    heard <- heard \o (IF play = "checked" THEN chunk.units ELSE <<>>)

\* TtsWorker implements the line of sentences SpeechChannel promises.
ImplementsChannel == Channel!Spec
=============================================================================

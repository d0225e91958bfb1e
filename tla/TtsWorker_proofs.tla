--------------------------- MODULE TtsWorker_proofs ---------------------------
(***************************************************************************)
(* What TtsWorker promises for every number of sentences and preemptions   *)
(* and every pair of watermarks: the queues hold one generation, Shutdown  *)
(* leaves nothing behind, the protection latch follows the queue, at most  *)
(* one chunk is late, and the worker is the line of SpeechChannel.         *)
(*                                                                         *)
(* DownIsQuiet rests on EmptyWhenStopping: Shutdown advances the           *)
(* generation before stop_ is set, so a sentence finished in between is    *)
(* refused as stale (JobIsOlder).  The late chunk and the refinement rest  *)
(* on LineInv: what waits was said since the last preemption.  Its texts   *)
(* come out of FlattenSeq, whose laws are induced over the numbers with    *)
(* NatSet, a set instead of a predicate.  SpeechChannel, whose own order   *)
(* of speech is proved after that, passes it on to the worker.             *)
(*                                                                         *)
(* At the end what Models promises: the sound of a sentence is its own.    *)
(***************************************************************************)
EXTENDS TtsWorker, Models, FiniteSetTheorems, SequenceTheorems, WellFoundedInduction, TLAPS

IsQueue(q) == \E S : q \in Seq(S)

QueueTypeOK ==
    /\ generation \in Nat
    /\ synth_busy \in BOOLEAN
    /\ IsQueue(text_queue)
    /\ IsQueue(pcm_queue)

JobIsOlder ==
    synth = "synth" =>
        /\ job.generation \in Nat
        /\ job.generation <= generation
        /\ main # "idle" => job.generation < generation

EmptyWhenStopping ==
    main # "idle" => text_queue = <<>> /\ pcm_queue = <<>> /\ ~synth_busy

TtsInv ==
    /\ QueueTypeOK
    /\ QueuesAreCurrent
    /\ JobIsOlder
    /\ EmptyWhenStopping
    /\ ProtectionFollowsDepth
    /\ DownIsQuiet

\* Before anything is said the queues are empty.
LEMMA InitTts == Init => TtsInv
<1>1. IsQueue(<<>>)
  BY EmptySeq DEF IsQueue
<1>2. ASSUME Init
      PROVE  ProtectionFollowsDepth
  BY <1>2, TtsAssumption DEF Init, ProtectionFollowsDepth
<1>3. ASSUME Init
      PROVE  QueuesAreCurrent
  BY <1>3 DEF Init, QueuesAreCurrent
<1>4. ASSUME Init
      PROVE  QueueTypeOK
  <2>1. generation \in Nat /\ synth_busy \in BOOLEAN /\ text_queue = <<>> /\ pcm_queue = <<>>
    BY <1>4 DEF Init
  <2>2. QED
    BY <1>1, <2>1 DEF QueueTypeOK
<1>5. ASSUME Init
      PROVE  JobIsOlder /\ EmptyWhenStopping /\ DownIsQuiet
  BY <1>5 DEF Init, JobIsOlder, EmptyWhenStopping, DownIsQuiet
<1>6. QED
  BY <1>2, <1>3, <1>4, <1>5 DEF TtsInv

-----------------------------------------------------------------------------
Current1(q, g) == \A i \in DOMAIN q : q[i].generation = g

\* What follows the first n elements of a queue was in it.
LEMMA RestOfQueue ==
    ASSUME NEW q, IsQueue(q), NEW n \in DOMAIN q, NEW g, Current1(q, g)
    PROVE  IsQueue(SubSeq(q, n + 1, Len(q))) /\ Current1(SubSeq(q, n + 1, Len(q)), g)
<1>1. PICK S : q \in Seq(S)
  BY DEF IsQueue
<1>2. Len(q) \in Nat /\ DOMAIN q = 1 .. Len(q) /\ n + 1 \in Int /\ n \in 1 .. Len(q)
  BY <1>1, LenProperties
<1>3. \A i \in n + 1 .. Len(q) : q[i] \in S
  BY <1>1, <1>2, ElementOfSeq
<1> DEFINE r == SubSeq(q, n + 1, Len(q))
<1>4. /\ r \in Seq(S)
      /\ Len(r) = IF n + 1 <= Len(q) THEN Len(q) - (n + 1) + 1 ELSE 0
      /\ \A i \in 1 .. Len(q) - (n + 1) + 1 : r[i] = q[n + 1 + i - 1]
  BY <1>2, <1>3, SubSeqProperties
<1>5. ASSUME NEW i \in DOMAIN r
      PROVE  r[i].generation = g
  <2>1. i \in 1 .. Len(r)
    BY <1>4, LenProperties
  <2>2. n + 1 + i - 1 \in DOMAIN q /\ i \in 1 .. Len(q) - (n + 1) + 1
    BY <1>2, <1>4, <2>1
  <2>3. QED
    BY <1>4, <2>2 DEF Current1
<1>6. QED
  BY <1>4, <1>5 DEF IsQueue, Current1

\* Head and Tail are the case n = 1.
LEMMA TailOfQueue ==
    ASSUME NEW q, IsQueue(q), q # <<>>, NEW g, Current1(q, g)
    PROVE  IsQueue(Tail(q)) /\ Current1(Tail(q), g) /\ Head(q).generation = g
<1>1. PICK S : q \in Seq(S)
  BY DEF IsQueue
<1>2. Len(q) \in Nat \ {0} /\ DOMAIN q = 1 .. Len(q)
  BY <1>1, EmptySeq, LenProperties
<1>3. 1 \in DOMAIN q
  BY <1>2
<1>4. Tail(q) = SubSeq(q, 1 + 1, Len(q))
  BY <1>1, TailIsSubSeq
<1>5. Head(q) = q[1]
  BY <1>1, <1>2
<1>6. QED
  BY <1>3, <1>4, <1>5, RestOfQueue DEF Current1

\* A current element at the end of a current queue.
LEMMA AppendToQueue ==
    ASSUME NEW q, IsQueue(q), NEW e, NEW g, Current1(q, g), e.generation = g
    PROVE  IsQueue(Append(q, e)) /\ Current1(Append(q, e), g)
<1>1. PICK S : q \in Seq(S)
  BY DEF IsQueue
<1>2. q \in Seq(S \cup {e}) /\ e \in S \cup {e}
  BY <1>1, SeqMonotonic
<1>3. /\ Append(q, e) \in Seq(S \cup {e})
      /\ Len(Append(q, e)) = Len(q) + 1
      /\ \A i \in 1 .. Len(q) : Append(q, e)[i] = q[i]
      /\ Append(q, e)[Len(q) + 1] = e
  BY <1>2, AppendProperties
<1>4. Len(q) \in Nat /\ DOMAIN q = 1 .. Len(q) /\ DOMAIN Append(q, e) = 1 .. Len(q) + 1
  BY <1>1, <1>3, LenProperties
<1>5. ASSUME NEW i \in DOMAIN Append(q, e)
      PROVE  Append(q, e)[i].generation = g
  BY <1>3, <1>4 DEF Current1
<1>6. QED
  BY <1>3, <1>5 DEF IsQueue, Current1

\* An empty queue is a queue of any generation.
LEMMA EmptyQueue == IsQueue(<<>>) /\ \A g : Current1(<<>>, g)
BY EmptySeq DEF IsQueue, Current1

\* A refresh makes the latch follow the depth, whatever changed before it.
LEMMA RefreshFollowsDepth ==
    ASSUME RefreshProtectionLatch, IsQueue(pcm_queue')
    PROVE  ProtectionFollowsDepth'
<1>1. Len(pcm_queue') \in Nat
  <2>1. PICK S : pcm_queue' \in Seq(S)
    BY DEF IsQueue
  <2>2. QED
    BY <2>1, LenProperties
<1>2. protect_latched' = (   (synth_busy' \/ text_queue' # <<>> \/ pcm_queue' # <<>>)
                          /\ (Len(pcm_queue') <= Low
                                \/ (Len(pcm_queue') < High /\ protect_latched)))
  BY DEF RefreshProtectionLatch
<1>3. ~(Len(pcm_queue') >= High /\ (Len(pcm_queue') <= Low \/ Len(pcm_queue') < High))
  BY <1>1, TtsAssumption
<1>4. QED
  BY <1>2, <1>3, Zenon DEF ProtectionFollowsDepth

-----------------------------------------------------------------------------
\* QueuesAreCurrent, in the terms of the lemmas.
LEMMA CurrentQueues ==
    QueuesAreCurrent <=> Current1(text_queue, generation) /\ Current1(pcm_queue, generation)
BY DEF QueuesAreCurrent, Current1

\* The same of the next state.
LEMMA CurrentQueuesNext ==
    QueuesAreCurrent' <=>
        Current1(text_queue', generation') /\ Current1(pcm_queue', generation')
BY DEF QueuesAreCurrent, Current1

\* Taking a job: it comes from the queue, so it is of the current generation.
LEMMA TakeKeepsInv ==
    ASSUME TtsInv, Take, text_queue # <<>>, UNCHANGED <<generation, main, play>>
    PROVE  TtsInv'
<1> USE DEF TtsInv, QueueTypeOK
<1>1. PICK n \in DOMAIN text_queue :
          /\ job' = WithUnits(Head(text_queue),
                              FlattenSeq([i \in 1 .. n |-> text_queue[i].units]))
          /\ text_queue' = SubSeq(text_queue, n + 1, Len(text_queue))
  BY DEF Take, FormalRuns, StaticRuns
<1>2. main = "idle"
  BY DEF EmptyWhenStopping
<1>3. IsQueue(text_queue') /\ Current1(text_queue', generation)
  BY <1>1, RestOfQueue, CurrentQueues
<1>4. job'.generation = generation
  BY <1>1, TailOfQueue, CurrentQueues DEF WithUnits
<1>5. synth' = "synth" /\ synth_busy' = TRUE /\ pcm_queue' = pcm_queue
  BY DEF Take
<1>6. ProtectionFollowsDepth'
  BY <1>5, RefreshFollowsDepth DEF Take
<1>7. QED
  BY <1>2, <1>3, <1>4, <1>5, <1>6, CurrentQueues, CurrentQueuesNext
     DEF JobIsOlder, EmptyWhenStopping, DownIsQuiet

\* Pushing a chunk: a stale one is refused, so nothing arrives once Shutdown has begun.
LEMMA PushKeepsInv ==
    ASSUME TtsInv, synth = "synth", NEW units, PushPcmChunk(units),
           UNCHANGED <<generation, main, synth, play>>
    PROVE  TtsInv'
<1> USE DEF TtsInv, QueueTypeOK
<1>1. job'.generation = job.generation
  BY DEF PushPcmChunk, WithUnits
<1>2. CASE stop \/ job.generation # generation
  BY <1>1, <1>2, CurrentQueues, CurrentQueuesNext
     DEF PushPcmChunk, queueVars, JobIsOlder, EmptyWhenStopping, DownIsQuiet,
         ProtectionFollowsDepth
<1>3. CASE ~(stop \/ job.generation # generation)
  <2>1. main = "idle"
    BY <1>3 DEF JobIsOlder
  <2>2. /\ pcm_queue' = Append(pcm_queue, [units |-> units, generation |-> job.generation])
        /\ UNCHANGED <<text_queue, synth_busy>>
        /\ RefreshProtectionLatch
    BY <1>3 DEF PushPcmChunk
  <2>3. IsQueue(pcm_queue') /\ Current1(pcm_queue', generation)
    BY <1>3, <2>2, AppendToQueue, CurrentQueues
  <2>4. ProtectionFollowsDepth'
    BY <2>2, <2>3, RefreshFollowsDepth
  <2>5. QED
    BY <1>1, <2>1, <2>2, <2>3, <2>4, CurrentQueues, CurrentQueuesNext
       DEF JobIsOlder, EmptyWhenStopping, DownIsQuiet
<1>4. QED
  BY <1>2, <1>3

\* Emptying the queues and advancing the generation makes every job in flight older.
LEMMA AdvanceKeepsInv ==
    ASSUME TtsInv, AdvanceGeneration, UNCHANGED <<synthVars, play>>,
           main' \in {"idle", "stopping"} \/ main' = main
    PROVE  TtsInv'
<1> USE DEF TtsInv, QueueTypeOK
<1>1. /\ generation' = generation + 1 /\ text_queue' = <<>> /\ pcm_queue' = <<>>
      /\ synth_busy' = FALSE /\ protect_latched' = FALSE
  BY DEF AdvanceGeneration
<1>2. ProtectionFollowsDepth'
  BY <1>1, TtsAssumption DEF ProtectionFollowsDepth
<1>3. JobIsOlder'
  BY <1>1 DEF JobIsOlder, synthVars
<1>4. DownIsQuiet'
  BY <1>1 DEF DownIsQuiet, synthVars
<1>5. QueuesAreCurrent'
  BY <1>1, EmptyQueue, CurrentQueuesNext
<1>6. QueueTypeOK' /\ EmptyWhenStopping'
  <2>1. generation' \in Nat
    BY <1>1
  <2>2. synth_busy' \in BOOLEAN /\ EmptyWhenStopping'
    BY <1>1, Zenon DEF EmptyWhenStopping
  <2>3. IsQueue(text_queue') /\ IsQueue(pcm_queue')
    BY <1>1, EmptyQueue
  <2>4. QED
    BY <2>1, <2>2, <2>3
<1>7. QED
  BY <1>2, <1>3, <1>4, <1>5, <1>6

-----------------------------------------------------------------------------
\* Every action of the four threads preserves the invariant.
LEMMA StepTts == TtsInv /\ [Next]_vars => TtsInv'
<1> SUFFICES ASSUME TtsInv, [Next]_vars
             PROVE  TtsInv'
    OBVIOUS
<1> USE DEF TtsInv, QueueTypeOK
<1>0. ASSUME UNCHANGED <<generation, queueVars, job>>,
             synth' = synth \/ synth' # "synth",
             EmptyWhenStopping', DownIsQuiet', JobIsOlder'
      PROVE  TtsInv'
  BY <1>0, CurrentQueues, CurrentQueuesNext DEF queueVars, ProtectionFollowsDepth
<1>1. CASE RequestInitializeAsync
  BY <1>0, <1>1 DEF RequestInitializeAsync, queueVars, synthVars, playVars, JobIsOlder,
                    EmptyWhenStopping, DownIsQuiet
<1>2. CASE InitDone
  BY <1>0, <1>2 DEF InitDone, queueVars, synthVars, playVars, JobIsOlder,
                    EmptyWhenStopping, DownIsQuiet
<1>3. CASE PollInitState
  <2>1. main = "idle" /\ main' = "idle" /\ UNCHANGED <<generation, job>>
    BY <1>3 DEF PollInitState
  <2>2. synth' = synth \/ synth' = "wait"
    BY <1>3 DEF PollInitState
  <2>3. CASE UNCHANGED queueVars
    BY <1>0, <2>1, <2>2, <2>3 DEF queueVars, JobIsOlder, EmptyWhenStopping, DownIsQuiet
  <2>4. CASE ~UNCHANGED queueVars
    <3>1. text_queue' = <<>> /\ pcm_queue' = <<>> /\ synth_busy' = FALSE
             /\ protect_latched' = FALSE
      BY <1>3, <2>4 DEF PollInitState
    <3>2. ProtectionFollowsDepth'
      BY <3>1, TtsAssumption DEF ProtectionFollowsDepth
    <3>3. QED
      BY <2>1, <2>2, <3>1, <3>2, EmptyQueue, CurrentQueuesNext
         DEF JobIsOlder, EmptyWhenStopping, DownIsQuiet
  <2>5. QED
    BY <2>3, <2>4
<1>4. ASSUME NEW n \in Unit, NEW kind \in Kind, EnqueueCleaned(n, kind)
      PROVE  TtsInv'
  <2> DEFINE text == [units |-> [i \in 1 .. n |-> said + i], kind |-> kind,
                      generation |-> generation]
  <2>1. /\ text_queue' = Append(text_queue, text)
        /\ UNCHANGED <<generation, pcm_queue, synth_busy, protect_latched, main, synthVars, play>>
        /\ main = "idle"
    BY <1>4 DEF EnqueueCleaned, playVars
  <2>2. IsQueue(text_queue') /\ Current1(text_queue', generation)
    BY <2>1, AppendToQueue, CurrentQueues
  <2>3. QED
    BY <2>1, <2>2, CurrentQueues, CurrentQueuesNext
       DEF synthVars, JobIsOlder, EmptyWhenStopping, DownIsQuiet, ProtectionFollowsDepth
<1>5. CASE Cancel
  BY <1>5, AdvanceKeepsInv DEF Cancel, playVars
<1>6. CASE BeginShutdown
  BY <1>6, AdvanceKeepsInv DEF BeginShutdown, playVars
<1>7. CASE SetStop
  BY <1>0, <1>7 DEF SetStop, queueVars, synthVars, playVars, JobIsOlder,
                    EmptyWhenStopping, DownIsQuiet
<1>8. CASE JoinWorkers
  BY <1>0, <1>8 DEF JoinWorkers, queueVars, JobIsOlder, EmptyWhenStopping, DownIsQuiet
<1>9. CASE Synth
  <2>1. CASE SynthStops
    BY <1>0, <2>1 DEF SynthStops, queueVars, playVars, JobIsOlder, EmptyWhenStopping, DownIsQuiet
  <2>2. CASE TakeText
    BY <2>2, TakeKeepsInv DEF TakeText, playVars
  <2>3. CASE BeginLinger
    BY <1>0, <2>3 DEF BeginLinger, queueVars, playVars, JobIsOlder, EmptyWhenStopping,
                      DownIsQuiet
  <2>4. CASE EndLinger
    <3>1. CASE text_queue = <<>>
      BY <1>0, <2>4, <3>1 DEF EndLinger, queueVars, playVars, JobIsOlder, EmptyWhenStopping,
                              DownIsQuiet
    <3>2. CASE text_queue # <<>>
      BY <2>4, <3>2, TakeKeepsInv DEF EndLinger, playVars
    <3>3. QED
      BY <3>1, <3>2
  <2>5. CASE Synthesize
    <3>1. synth = "synth" /\ UNCHANGED <<generation, main, synth, play>>
      BY <2>5 DEF Synthesize, playVars
    <3>2. ASSUME NEW units, PushPcmChunk(units)
          PROVE  TtsInv'
      BY <3>1, <3>2, PushKeepsInv
    <3>3. ASSUME NEW units, job' = WithUnits(job, units), UNCHANGED queueVars
          PROVE  TtsInv'
      BY <3>1, <3>3, CurrentQueues, CurrentQueuesNext
         DEF WithUnits, queueVars, JobIsOlder, EmptyWhenStopping, DownIsQuiet,
             ProtectionFollowsDepth
    <3>4. QED
      BY <2>5, <3>2, <3>3 DEF Synthesize
  <2>6. CASE FinishJob
    <3>1. /\ synth' = "wait" /\ synth_busy' = FALSE /\ synth = "synth"
          /\ UNCHANGED <<text_queue, pcm_queue, generation, main, play>>
          /\ RefreshProtectionLatch
      BY <2>6 DEF FinishJob, playVars
    <3>2. ProtectionFollowsDepth'
      BY <3>1, RefreshFollowsDepth
    <3>3. QED
      BY <3>1, <3>2, CurrentQueues, CurrentQueuesNext
         DEF JobIsOlder, EmptyWhenStopping, DownIsQuiet
  <2>7. QED
    BY <1>9, <2>1, <2>2, <2>3, <2>4, <2>5, <2>6 DEF Synth
<1>10. CASE Play
  <2>1. CASE PlayStops
    BY <1>0, <2>1 DEF PlayStops, queueVars, synthVars, JobIsOlder, EmptyWhenStopping, DownIsQuiet
  <2>2. CASE PopPcm
    <3>1. /\ pcm_queue # <<>> /\ pcm_queue' = Tail(pcm_queue) /\ play = "wait"
          /\ UNCHANGED <<text_queue, synth_busy, generation, main, synthVars>>
          /\ RefreshProtectionLatch
      BY <2>2 DEF PopPcm
    <3>2. IsQueue(pcm_queue') /\ Current1(pcm_queue', generation)
      BY <3>1, TailOfQueue, CurrentQueues
    <3>3. ProtectionFollowsDepth'
      BY <3>1, <3>2, RefreshFollowsDepth
    <3>4. QED
      BY <3>1, <3>2, <3>3, CurrentQueues, CurrentQueuesNext
         DEF synthVars, JobIsOlder, EmptyWhenStopping, DownIsQuiet
  <2>3. CASE CheckGeneration
    BY <1>0, <2>3 DEF CheckGeneration, queueVars, synthVars, JobIsOlder, EmptyWhenStopping,
                      DownIsQuiet
  <2>4. CASE StartPlay
    BY <1>0, <2>4 DEF StartPlay, queueVars, synthVars, JobIsOlder, EmptyWhenStopping, DownIsQuiet
  <2>5. CASE FinishPlay
    BY <1>0, <2>5 DEF FinishPlay, queueVars, synthVars, JobIsOlder, EmptyWhenStopping,
                      DownIsQuiet
  <2>6. QED
    BY <1>10, <2>1, <2>2, <2>3, <2>4, <2>5 DEF Play
<1>11. CASE UNCHANGED vars
  BY <1>0, <1>11 DEF vars, queueVars, synthVars, playVars, JobIsOlder, EmptyWhenStopping,
                     DownIsQuiet
<1>12. QED
  BY <1>1, <1>2, <1>3, <1>4, <1>5, <1>6, <1>7, <1>8, <1>9, <1>10, <1>11
     DEF Next, Enqueue, Shutdown

\* The invariant holds of every behaviour.
LEMMA AlwaysTts == Spec => []TtsInv
BY InitTts, StepTts, PTL DEF Spec

\* Cancel really separates two answers: nothing said before it is in a queue after it; and the
\* latch that throttles the vision models follows the PCM queue, for every pair of watermarks
\* SetPlaybackProtectionThresholds can set.
THEOREM QueuesAlwaysInStep == Spec => []QueuesInStep
<1>1. TtsInv => QueuesInStep
  BY DEF TtsInv, QueuesInStep
<1>2. QED
  BY <1>1, AlwaysTts, PTL

\* After Shutdown nothing is queued, although a sentence may have been synthesised
\* between the emptying of the queues and stop_.
THEOREM TtsShutdownLeavesQuiet == Spec => []DownIsQuiet
<1>1. TtsInv => DownIsQuiet
  BY DEF TtsInv
<1>2. QED
  BY <1>1, AlwaysTts, PTL
-----------------------------------------------------------------------------
(* The texts of many places made one: FlattenSeq, by induction over its parts *)

\* Induction over a set of numbers: there is no least one outside.
LEMMA NatSet ==
    ASSUME NEW T, 0 \in T, \A n \in Nat : n \in T => n + 1 \in T
    PROVE  Nat \subseteq T
<1> DEFINE Out == Nat \ T
<1> SUFFICES ASSUME Out # {} PROVE FALSE
  OBVIOUS
<1>1. PICK x \in Out : \A y \in Out : ~ (<<y, x>> \in OpToRel(<, Nat))
  <2>1. Out \subseteq Nat
    OBVIOUS
  <2> HIDE DEF Out
  <2>2. QED
    BY <2>1, NatLessThanWellFounded, WFMin
<1>2. x \in Nat /\ x # 0 /\ x - 1 \in Nat /\ x - 1 < x
  OBVIOUS
<1>3. <<x - 1, x>> \in OpToRel(<, Nat)
  BY <1>2 DEF OpToRel
<1>4. x - 1 \in T
  BY <1>1, <1>2, <1>3
<1>5. x - 1 + 1 = x
  BY <1>2
<1>6. QED
  BY <1>2, <1>4, <1>5

\* One text behind the other; the operator keeps the prover from looking inside.
Behind(s, r) == s \o r

\* It does not matter which two are put together first.
LEMMA BehindAssociates ==
    \A S : \A s, r, v \in Seq(S) : Behind(Behind(s, r), v) = Behind(s, Behind(r, v))
<1>1. \A S : \A s, r, v \in Seq(S) : (s \o r) \o v = s \o (r \o v)
  BY ConcatAssociative
<1> QED BY <1>1, Zenon DEF Behind

\* The texts before each place, made one.
Partial(f, q) == f = [i \in 1 .. Len(q) |-> IF i = 1 THEN q[i] ELSE f[i - 1] \o q[i]]

\* The recursive function in FlattenSeq exists.
LEMMA PartialExists ==
    ASSUME NEW q, Len(q) \in Nat
    PROVE  \E f : Partial(f, q)
<1> DEFINE Upto(f, n) == f = [i \in 1 .. n |-> IF i = 1 THEN q[i] ELSE f[i - 1] \o q[i]]
           T == {n \in Nat : \E f : Upto(f, n)}
<1>1. 0 \in T
  <2>1. Upto([i \in 1 .. 0 |-> 0], 0)
    OBVIOUS
  <2> QED BY <2>1
<1>2. ASSUME NEW n \in Nat, n \in T PROVE n + 1 \in T
  <2>1. PICK f : Upto(f, n)
    BY <1>2
  <2> DEFINE g == [i \in 1 .. n + 1 |->
                     IF i = n + 1 THEN (IF i = 1 THEN q[i] ELSE f[n] \o q[i]) ELSE f[i]]
  <2>2. \A i \in 1 .. n : f[i] = IF i = 1 THEN q[i] ELSE f[i - 1] \o q[i]
    BY <2>1
  <2>3. ASSUME NEW i \in 1 .. n + 1
        PROVE  g[i] = IF i = 1 THEN q[i] ELSE g[i - 1] \o q[i]
    <3>1. CASE i = n + 1
      <4>1. i = 1 \/ (i - 1 = n /\ n \in 1 .. n + 1 /\ n # n + 1)
        BY <3>1
      <4> QED BY <3>1, <4>1
    <3>2. CASE i # n + 1
      <4>1. i \in 1 .. n /\ (i = 1 \/ (i - 1 \in 1 .. n + 1 /\ i - 1 # n + 1))
        BY <3>2
      <4>2. g[i] = f[i] /\ (i = 1 \/ g[i - 1] = f[i - 1])
        BY <3>2, <4>1
      <4> QED BY <2>2, <4>1, <4>2
    <3> QED BY <3>1, <3>2
  <2>4. Upto(g, n + 1)
    <3>1. g = [i \in 1 .. n + 1 |-> g[i]]
      OBVIOUS
    <3> HIDE DEF g
    <3> QED BY <2>3, <3>1
  <2> HIDE DEF Upto, g
  <2> QED BY <2>4
<1>3. Nat \subseteq T
  <2> HIDE DEF T
  <2> QED BY <1>1, <1>2, NatSet
<1>4. QED
  BY <1>3 DEF Partial

\* What FlattenSeq computes of a queue that is not empty.
LEMMA FlattenIsPartial ==
    ASSUME NEW q, Len(q) \in Nat, Len(q) # 0
    PROVE  \E f : Partial(f, q) /\ FlattenSeq(q) = f[Len(q)]
<1> DEFINE fl == CHOOSE f : Partial(f, q)
<1>1. Partial(fl, q)
  BY PartialExists
<1>2. FlattenSeq(q) = fl[Len(q)]
  BY DEF FlattenSeq, Partial
<1> QED BY <1>1, <1>2

\* How it goes from one part to the next.
LEMMA PartialStep ==
    ASSUME NEW q, NEW f, Partial(f, q), NEW n \in Nat, n + 1 \in 1 .. Len(q)
    PROVE  f[n + 1] = IF n = 0 THEN q[n + 1] ELSE f[n] \o q[n + 1]
<1>1. f[n + 1] = IF n + 1 = 1 THEN q[n + 1] ELSE f[n + 1 - 1] \o q[n + 1]
  <2> DEFINE k == n + 1
  <2>1. k \in 1 .. Len(q)
    OBVIOUS
  <2> HIDE DEF k
  <2>2. f[k] = IF k = 1 THEN q[k] ELSE f[k - 1] \o q[k]
    BY <2>1 DEF Partial
  <2> QED BY <2>2 DEF k
<1>2. n + 1 - 1 = n /\ (n + 1 = 1 <=> n = 0)
  OBVIOUS
<1> QED BY <1>1, <1>2, Zenon

\* r is q with one more behind it.
OneMore(q, r) == Len(q) \in Nat /\ Len(r) = Len(q) + 1 /\ \A i \in 1 .. Len(q) : r[i] = q[i]

\* Its parts begin alike.
LEMMA PartialPrefix ==
    ASSUME NEW q, NEW r, OneMore(q, r), NEW f, NEW g, Partial(f, q), Partial(g, r), Len(q) # 0
    PROVE  f[Len(q)] = g[Len(q)]
<1>0. Len(q) \in Nat /\ Len(r) = Len(q) + 1 /\ \A i \in 1 .. Len(q) : r[i] = q[i]
  BY DEF OneMore
<1> DEFINE T == {n \in Nat : n \in 1 .. Len(q) => f[n] = g[n]}
<1>1. 0 \in T
  OBVIOUS
<1>2. ASSUME NEW n \in Nat, n \in T PROVE n + 1 \in T
  <2>1. SUFFICES ASSUME n + 1 \in 1 .. Len(q) PROVE f[n + 1] = g[n + 1]
    OBVIOUS
  <2>2. /\ f[n + 1] = IF n = 0 THEN q[n + 1] ELSE f[n] \o q[n + 1]
        /\ g[n + 1] = IF n = 0 THEN r[n + 1] ELSE g[n] \o r[n + 1]
    <3>1. n + 1 \in 1 .. Len(r)
      BY <1>0, <2>1
    <3> QED BY <2>1, <3>1, PartialStep
  <2>3. n = 0 \/ f[n] = g[n]
    BY <1>0, <1>2, <2>1
  <2>4. r[n + 1] = q[n + 1]
    BY <1>0, <2>1
  <2> QED BY <2>2, <2>3, <2>4
<1>3. Nat \subseteq T
  <2> HIDE DEF T
  <2> QED BY <1>1, <1>2, NatSet
<1> QED BY <1>0, <1>3

\* Every part is a text.
LEMMA PartialType ==
    ASSUME NEW S, NEW q \in Seq(Seq(S)), NEW f, Partial(f, q)
    PROVE  \A i \in 1 .. Len(q) : f[i] \in Seq(S)
<1> DEFINE T == {n \in Nat : n \in 1 .. Len(q) => f[n] \in Seq(S)}
<1>0. Len(q) \in Nat
  BY LenProperties
<1>1. 0 \in T
  OBVIOUS
<1>2. ASSUME NEW n \in Nat, n \in T PROVE n + 1 \in T
  <2>1. SUFFICES ASSUME n + 1 \in 1 .. Len(q) PROVE f[n + 1] \in Seq(S)
    OBVIOUS
  <2>2. f[n + 1] = IF n = 0 THEN q[n + 1] ELSE f[n] \o q[n + 1]
    BY <2>1, PartialStep
  <2>3. q[n + 1] \in Seq(S)
    BY <2>1, ElementOfSeq
  <2>4. n = 0 \/ f[n] \in Seq(S)
    BY <1>0, <1>2, <2>1
  <2> QED BY <2>2, <2>3, <2>4, ConcatProperties
<1>3. Nat \subseteq T
  <2> HIDE DEF T
  <2> QED BY <1>1, <1>2, NatSet
<1> QED BY <1>3

\* FlattenSeq makes one text of many.
LEMMA FlattenType ==
    ASSUME NEW S, NEW q \in Seq(Seq(S))
    PROVE  FlattenSeq(q) \in Seq(S)
<1>1. Len(q) \in Nat
  BY LenProperties
<1>2. CASE Len(q) = 0
  <2>1. q = <<>>
    BY <1>2, EmptySeq
  <2> QED BY <1>2, <2>1, EmptySeq DEF FlattenSeq
<1>3. CASE Len(q) # 0
  <2>1. PICK f : Partial(f, q) /\ FlattenSeq(q) = f[Len(q)]
    BY <1>1, <1>3, FlattenIsPartial
  <2> QED BY <1>1, <1>3, <2>1, PartialType
<1> QED BY <1>2, <1>3

\* A text behind the others.
LEMMA FlattenAppend ==
    ASSUME NEW S, NEW q \in Seq(Seq(S)), NEW x \in Seq(S)
    PROVE  FlattenSeq(Append(q, x)) = FlattenSeq(q) \o x
<1>0. PICK r : r = Append(q, x)
  OBVIOUS
<1>1. /\ Len(q) \in Nat /\ Len(r) = Len(q) + 1
      /\ r \in Seq(Seq(S))
      /\ \A i \in 1 .. Len(q) : r[i] = q[i]
      /\ r[Len(q) + 1] = x
  BY <1>0, LenProperties, AppendProperties
<1>2. PICK g : Partial(g, r) /\ FlattenSeq(r) = g[Len(r)]
  BY <1>1, FlattenIsPartial, SMTT(30)
<1>3. CASE Len(q) = 0
  <2>1. q = <<>>
    BY <1>3, EmptySeq
  <2>2. FlattenSeq(q) \o x = x
    BY <1>3, <2>1, ConcatEmptySeq DEF FlattenSeq
  <2>3. g[1] = r[1] /\ r[1] = x /\ Len(r) = 1
    <3>1. Len(r) = 1 /\ r[1] = x /\ 0 + 1 \in 1 .. Len(r)
      BY <1>1, <1>3
    <3>2. g[0 + 1] = r[0 + 1]
      BY <1>2, <3>1, PartialStep
    <3> QED BY <3>1, <3>2
  <2> QED BY <1>2, <2>2, <2>3, <1>0
<1>4. CASE Len(q) # 0
  <2>1. PICK f : Partial(f, q) /\ FlattenSeq(q) = f[Len(q)]
    BY <1>1, <1>4, FlattenIsPartial
  <2>2. f[Len(q)] = g[Len(q)]
    <3>1. OneMore(q, r) /\ Partial(f, q) /\ Partial(g, r)
      BY <1>1, <1>2, <2>1 DEF OneMore
    <3> QED BY <1>4, <3>1, PartialPrefix
  <2>3. g[Len(q) + 1] = g[Len(q)] \o x
    <3>1. Len(q) + 1 \in 1 .. Len(r)
      BY <1>1
    <3>2. g[Len(q) + 1] = IF Len(q) = 0 THEN r[Len(q) + 1] ELSE g[Len(q)] \o r[Len(q) + 1]
      BY <1>1, <1>2, <3>1, PartialStep
    <3> QED BY <1>1, <1>4, <3>2
  <2>4. FlattenSeq(r) = g[Len(q) + 1]
    BY <1>1, <1>2
  <2> QED BY <2>1, <2>2, <2>3, <2>4, <1>0
<1> QED BY <1>3, <1>4

\* Queues one behind the other.
LEMMA FlattenConcat ==
    ASSUME NEW S, NEW p \in Seq(Seq(S)), NEW q \in Seq(Seq(S))
    PROVE  FlattenSeq(p \o q) = FlattenSeq(p) \o FlattenSeq(q)
<1> DEFINE Splits(r) == FlattenSeq(p \o r) = FlattenSeq(p) \o FlattenSeq(r)
           T == {n \in Nat : \A r \in Seq(Seq(S)) : Len(r) = n => Splits(r)}
<1>0. FlattenSeq(p) \in Seq(S)
  BY FlattenType
<1>1. 0 \in T
  <2>1. ASSUME NEW r \in Seq(Seq(S)), Len(r) = 0 PROVE Splits(r)
    <3>1. r = <<>>
      BY <2>1, EmptySeq
    <3>2. p \o r = p /\ FlattenSeq(r) = <<>>
      BY <2>1, <3>1, ConcatEmptySeq DEF FlattenSeq
    <3> QED BY <1>0, <3>2, ConcatEmptySeq
  <2> HIDE DEF Splits
  <2> QED BY <2>1
<1>2. ASSUME NEW n \in Nat, n \in T PROVE n + 1 \in T
  <2>1. ASSUME NEW r \in Seq(Seq(S)), Len(r) = n + 1 PROVE Splits(r)
    <3>1. r # <<>>
      BY <2>1
    <3>2. PICK s \in Seq(Seq(S)), x \in Seq(S) : r = Append(s, x)
      BY <3>1, SequenceEmptyOrAppend
    <3>3. Len(s) = n
      BY <2>1, <3>2, AppendProperties, LenProperties
    <3>4. Splits(s)
      BY <1>2, <3>3
    <3>5. p \o r = Append(p \o s, x) /\ p \o s \in Seq(Seq(S))
      <4>1. <<x>> \in Seq(Seq(S))
        OBVIOUS
      <4>2. p \o s \in Seq(Seq(S)) /\ r = s \o <<x>> /\ Append(p \o s, x) = (p \o s) \o <<x>>
        BY <3>2, AppendIsConcat, ConcatProperties
      <4>3. PICK y \in Seq(Seq(S)) : y = <<x>>
        BY <4>1
      <4>4. Behind(Behind(p, s), y) = Behind(p, Behind(s, y))
        BY BehindAssociates
      <4> QED BY <4>2, <4>3, <4>4, Zenon DEF Behind
    <3>6. FlattenSeq(p \o r) = (FlattenSeq(p) \o FlattenSeq(s)) \o x
      BY <3>4, <3>5, FlattenAppend
    <3>7. FlattenSeq(r) = FlattenSeq(s) \o x /\ FlattenSeq(s) \in Seq(S)
      BY <3>2, FlattenAppend, FlattenType
    <3>8. (FlattenSeq(p) \o FlattenSeq(s)) \o x = FlattenSeq(p) \o (FlattenSeq(s) \o x)
      <4>1. PICK a \in Seq(S), b \in Seq(S) : a = FlattenSeq(p) /\ b = FlattenSeq(s)
        BY <1>0, <3>7
      <4>2. Behind(Behind(a, b), x) = Behind(a, Behind(b, x))
        BY BehindAssociates
      <4> QED BY <4>1, <4>2, Zenon DEF Behind
    <3> QED BY <3>6, <3>7, <3>8, Zenon
  <2> HIDE DEF Splits
  <2> QED BY <2>1
<1>3. Nat \subseteq T
  <2> HIDE DEF T
  <2> QED BY <1>1, <1>2, NatSet
<1> QED BY <1>3, LenProperties
-----------------------------------------------------------------------------
(* The texts of a queue, made one *)

Texts(q) == [i \in DOMAIN q |-> q[i].units]
HasTexts(q, S) == \A i \in DOMAIN q : q[i].units \in Seq(S)

\* A sequence is a function on its places.
LEMMA FunSeq ==
    ASSUME NEW n \in Nat, NEW R, NEW f \in [1 .. n -> R]
    PROVE  f \in Seq(R) /\ Len(f) = n /\ DOMAIN f = 1 .. n
OBVIOUS

\* They are a sequence of texts.
LEMMA TextsAreTexts ==
    ASSUME NEW q, IsQueue(q), NEW S, HasTexts(q, S)
    PROVE  /\ Texts(q) \in Seq(Seq(S)) /\ Len(Texts(q)) = Len(q) /\ Len(q) \in Nat
           /\ \A i \in 1 .. Len(q) : Texts(q)[i] = q[i].units /\ q[i].units \in Seq(S)
           /\ DOMAIN q = 1 .. Len(q)
           /\ UnitsOf(q) = FlattenSeq(Texts(q)) /\ UnitsOf(q) \in Seq(S)
<1>1. DOMAIN q = 1 .. Len(q) /\ Len(q) \in Nat
  <2>1. PICK R : q \in Seq(R)
    BY DEF IsQueue
  <2> QED BY <2>1, LenProperties
<1>2. \A i \in 1 .. Len(q) : q[i].units \in Seq(S)
  BY <1>1 DEF HasTexts
<1>3. Texts(q) = [i \in 1 .. Len(q) |-> q[i].units]
  BY <1>1 DEF Texts
<1>4. Texts(q) \in [1 .. Len(q) -> Seq(S)]
  BY <1>2, <1>3
<1>5. Texts(q) \in Seq(Seq(S)) /\ Len(Texts(q)) = Len(q)
  BY <1>1, <1>4
<1>6. UnitsOf(q) = FlattenSeq(Texts(q))
  BY DEF UnitsOf, Texts
<1> QED BY <1>1, <1>2, <1>3, <1>5, <1>6, FlattenType

\* No queue, no text.
LEMMA UnitsEmpty == UnitsOf(<<>>) = <<>> /\ Texts(<<>>) = <<>> /\ \A S : HasTexts(<<>>, S)
<1>1. Texts(<<>>) = <<>> /\ Len(<<>>) = 0
  BY EmptySeq DEF Texts
<1>2. FlattenSeq(<<>>) = <<>>
  BY <1>1 DEF FlattenSeq
<1> QED BY <1>1, <1>2 DEF UnitsOf, Texts, HasTexts

\* What is queued is said after what was queued before.
LEMMA UnitsAppend ==
    ASSUME NEW q, IsQueue(q), NEW S, HasTexts(q, S), NEW e, e.units \in Seq(S)
    PROVE  HasTexts(Append(q, e), S) /\ UnitsOf(Append(q, e)) = UnitsOf(q) \o e.units
<1>0. PICK r : r = Append(q, e)
  OBVIOUS
<1>1. /\ IsQueue(r) /\ DOMAIN r = 1 .. Len(q) + 1 /\ Len(r) = Len(q) + 1
      /\ \A i \in 1 .. Len(q) : r[i] = q[i]
      /\ r[Len(q) + 1] = e
  <2>1. PICK R : q \in Seq(R)
    BY DEF IsQueue
  <2>2. q \in Seq(R \cup {e}) /\ e \in R \cup {e}
    BY <2>1, SeqMonotonic
  <2>3. /\ r \in Seq(R \cup {e}) /\ Len(r) = Len(q) + 1
        /\ \A i \in 1 .. Len(q) : r[i] = q[i]
        /\ r[Len(q) + 1] = e
    BY <1>0, <2>2, AppendProperties
  <2> QED BY <2>3, LenProperties DEF IsQueue
<1>2. /\ Texts(q) \in Seq(Seq(S)) /\ Len(Texts(q)) = Len(q) /\ Len(q) \in Nat
      /\ \A i \in 1 .. Len(q) : Texts(q)[i] = q[i].units /\ q[i].units \in Seq(S)
  BY TextsAreTexts
<1>3. HasTexts(r, S)
  BY <1>1, <1>2 DEF HasTexts
<1>4. /\ Texts(r) \in Seq(Seq(S)) /\ Len(Texts(r)) = Len(q) + 1
      /\ \A i \in 1 .. Len(q) + 1 : Texts(r)[i] = r[i].units
  BY <1>1, <1>3, TextsAreTexts
<1>5. Texts(r) = Append(Texts(q), e.units)
  <2>1. PICK t : t = Append(Texts(q), e.units)
    OBVIOUS
  <2>2. /\ t \in Seq(Seq(S)) /\ Len(t) = Len(q) + 1
        /\ \A i \in 1 .. Len(q) : t[i] = q[i].units
        /\ t[Len(q) + 1] = e.units
    BY <1>2, <2>1, AppendProperties
  <2>3. ASSUME NEW i \in 1 .. Len(q) + 1 PROVE Texts(r)[i] = t[i]
    <3>1. Texts(r)[i] = r[i].units
      BY <1>4
    <3>2. i \in 1 .. Len(q) \/ i = Len(q) + 1
      BY <1>2
    <3> QED BY <1>1, <2>2, <3>1, <3>2
  <2>4. Texts(r) = t
    BY <1>4, <2>2, <2>3, SeqEqual
  <2> QED BY <2>1, <2>4
<1>6. FlattenSeq(Texts(r)) = FlattenSeq(Texts(q)) \o e.units
  BY <1>2, <1>5, FlattenAppend
<1> QED BY <1>0, <1>3, <1>6 DEF UnitsOf, Texts

\* The first n texts, and the rest of the queue.
LEMMA UnitsSplit ==
    ASSUME NEW q, IsQueue(q), NEW S, HasTexts(q, S), NEW n \in DOMAIN q
    PROVE  /\ HasTexts(SubSeq(q, n + 1, Len(q)), S)
           /\ FlattenSeq([i \in 1 .. n |-> q[i].units]) \in Seq(S)
           /\ UnitsOf(q) = FlattenSeq([i \in 1 .. n |-> q[i].units])
                               \o UnitsOf(SubSeq(q, n + 1, Len(q)))
<1>0. PICK r : r = SubSeq(q, n + 1, Len(q))
  OBVIOUS
<1>1. /\ Texts(q) \in Seq(Seq(S)) /\ Len(Texts(q)) = Len(q) /\ Len(q) \in Nat
      /\ \A i \in 1 .. Len(q) : Texts(q)[i] = q[i].units /\ q[i].units \in Seq(S)
      /\ n \in 1 .. Len(q) /\ n + 1 \in Int /\ n \in Nat
  BY TextsAreTexts
<1>2. /\ IsQueue(r) /\ DOMAIN r = 1 .. Len(q) - n /\ Len(r) = Len(q) - n
      /\ \A i \in 1 .. Len(q) - n : r[i] = q[n + i]
  <2>1. PICK R : q \in Seq(R)
    BY DEF IsQueue
  <2>2. \A i \in n + 1 .. Len(q) : q[i] \in R
    BY <1>1, <2>1, ElementOfSeq
  <2>3. /\ r \in Seq(R)
        /\ Len(r) = IF n + 1 <= Len(q) THEN Len(q) - (n + 1) + 1 ELSE 0
        /\ \A i \in 1 .. Len(q) - (n + 1) + 1 : r[i] = q[n + 1 + i - 1]
    <3>1. n + 1 \in Int /\ Len(q) \in Int
      BY <1>1
    <3> DEFINE m == n + 1
    <3>2. m \in Int /\ r = SubSeq(q, m, Len(q)) /\ \A i \in m .. Len(q) : q[i] \in R
      BY <1>0, <2>2, <3>1
    <3> HIDE DEF m
    <3>3. /\ r \in Seq(R)
          /\ Len(r) = IF m <= Len(q) THEN Len(q) - m + 1 ELSE 0
          /\ \A i \in 1 .. Len(q) - m + 1 : r[i] = q[m + i - 1]
      BY <2>1, <3>1, <3>2, SubSeqProperties
    <3> QED BY <3>3 DEF m
  <2>4. Len(r) = Len(q) - n /\ Len(q) - (n + 1) + 1 = Len(q) - n
    <3>1. Len(q) - (n + 1) + 1 = Len(q) - n /\ (n + 1 <= Len(q) \/ Len(q) - n = 0)
      BY <1>1
    <3>2. Len(r) = IF n + 1 <= Len(q) THEN Len(q) - (n + 1) + 1 ELSE 0
      BY <2>3
    <3> QED BY <3>1, <3>2
  <2>5. \A i \in 1 .. Len(q) - n : n + 1 + i - 1 = n + i
    BY <1>1
  <2> QED BY <2>3, <2>4, <2>5, LenProperties DEF IsQueue
<1>3. HasTexts(r, S)
  <2>1. ASSUME NEW i \in 1 .. Len(q) - n PROVE r[i].units \in Seq(S)
    <3>1. r[i] = q[n + i] /\ n + i \in 1 .. Len(q)
      BY <1>1, <1>2, SMTT(30)
    <3> QED BY <1>1, <3>1
  <2> QED BY <1>2, <2>1 DEF HasTexts
<1>4. PICK f : f = [i \in 1 .. n |-> q[i].units]
  OBVIOUS
<1>5. f \in Seq(Seq(S)) /\ Len(f) = n
  <2>1. \A i \in 1 .. n : q[i].units \in Seq(S)
    BY <1>1
  <2>2. f \in [1 .. n -> Seq(S)] /\ n \in Nat
    BY <1>1, <1>4, <2>1
  <2> QED BY <2>2, FunSeq
<1>6. /\ Texts(r) \in Seq(Seq(S)) /\ Len(Texts(r)) = Len(q) - n
      /\ \A i \in 1 .. Len(q) - n : Texts(r)[i] = r[i].units
  BY <1>2, <1>3, TextsAreTexts
<1>7. Texts(q) = f \o Texts(r)
  <2>1. PICK t : t = f \o Texts(r)
    OBVIOUS
  <2>2. /\ t \in Seq(Seq(S)) /\ Len(t) = n + (Len(q) - n)
        /\ \A i \in 1 .. n + (Len(q) - n) : t[i] = IF i <= n THEN f[i] ELSE Texts(r)[i - n]
    <3>1. /\ t \in Seq(Seq(S)) /\ Len(t) = Len(f) + Len(Texts(r))
          /\ \A i \in 1 .. Len(f) + Len(Texts(r)) :
                t[i] = IF i <= Len(f) THEN f[i] ELSE Texts(r)[i - Len(f)]
      BY <1>5, <1>6, <2>1, ConcatProperties
    <3> QED BY <1>5, <1>6, <3>1
  <2>3. ASSUME NEW i \in 1 .. Len(q) PROVE Texts(q)[i] = t[i]
    <3>1. CASE i <= n
      <4>1. i \in 1 .. n /\ i \in 1 .. n + (Len(q) - n)
        BY <1>1, <3>1
      <4>2. t[i] = f[i] /\ f[i] = q[i].units /\ Texts(q)[i] = q[i].units
        BY <1>1, <1>4, <2>2, <3>1, <4>1
      <4> QED BY <4>2
    <3>2. CASE ~(i <= n)
      <4>1. i - n \in 1 .. Len(q) - n /\ n + (i - n) = i /\ i \in 1 .. n + (Len(q) - n)
        BY <1>1, <3>2
      <4>2. t[i] = Texts(r)[i - n]
        BY <2>2, <3>2, <4>1
      <4>3. Texts(r)[i - n] = r[i - n].units /\ r[i - n] = q[n + (i - n)]
        BY <1>2, <1>6, <4>1
      <4> QED BY <1>1, <4>1, <4>2, <4>3
    <3> QED BY <3>1, <3>2
  <2>4. Len(t) = Len(q)
    BY <1>1, <2>2
  <2>5. Texts(q) = t
    BY <1>1, <2>2, <2>3, <2>4, SeqEqual, SMTT(30)
  <2> QED BY <2>1, <2>5
<1>8. FlattenSeq(Texts(q)) = FlattenSeq(f) \o FlattenSeq(Texts(r))
  BY <1>5, <1>6, <1>7, FlattenConcat
<1>9. FlattenSeq(f) \in Seq(S)
  BY <1>5, FlattenType
<1> QED BY <1>0, <1>3, <1>4, <1>8, <1>9 DEF UnitsOf, Texts

\* The first text, and the rest of the queue.
LEMMA UnitsTail ==
    ASSUME NEW q, IsQueue(q), q # <<>>, NEW S, HasTexts(q, S)
    PROVE  /\ HasTexts(Tail(q), S) /\ Head(q).units \in Seq(S)
           /\ UnitsOf(q) = Head(q).units \o UnitsOf(Tail(q))
           /\ \A i \in DOMAIN Tail(q) : i + 1 \in DOMAIN q /\ Tail(q)[i] = q[i + 1]
           /\ Head(q) = q[1] /\ 1 \in DOMAIN q
<1>1. PICK R : q \in Seq(R)
  BY DEF IsQueue
<1>2. Len(q) \in Nat \ {0} /\ DOMAIN q = 1 .. Len(q)
  BY <1>1, EmptySeq, LenProperties
<1>3. 1 \in DOMAIN q /\ Head(q) = q[1]
  BY <1>1, <1>2
<1>4. Tail(q) = SubSeq(q, 1 + 1, Len(q))
  BY <1>1, TailIsSubSeq
<1>5. q[1].units \in Seq(S)
  BY <1>3 DEF HasTexts
<1>6. FlattenSeq([i \in 1 .. 1 |-> q[i].units]) = q[1].units
  <2>1. [i \in 1 .. 1 |-> q[i].units] = Append(<<>>, q[1].units)
    OBVIOUS
  <2>2. FlattenSeq(Append(<<>>, q[1].units)) = FlattenSeq(<<>>) \o q[1].units
    <3>1. <<>> \in Seq(Seq(S))
      BY EmptySeq
    <3> QED BY <1>5, <3>1, FlattenAppend
  <2>3. FlattenSeq(<<>>) = <<>>
    BY UnitsEmpty DEF UnitsOf, Texts
  <2> QED BY <1>5, <2>1, <2>2, <2>3, ConcatEmptySeq
<1>7. HasTexts(Tail(q), S) /\ UnitsOf(q) = q[1].units \o UnitsOf(Tail(q))
  BY <1>3, <1>4, <1>6, UnitsSplit
<1>8. \A i \in DOMAIN Tail(q) : i + 1 \in DOMAIN q /\ Tail(q)[i] = q[i + 1]
  <2>1. /\ Tail(q) \in Seq(R) /\ Len(Tail(q)) = Len(q) - 1
        /\ \A i \in 1 .. Len(Tail(q)) : Tail(q)[i] = q[i + 1]
    BY <1>1, HeadTailProperties
  <2>2. DOMAIN Tail(q) = 1 .. Len(Tail(q))
    BY <2>1, LenProperties
  <2> QED BY <1>2, <2>1, <2>2
<1> QED BY <1>3, <1>5, <1>7, <1>8
-----------------------------------------------------------------------------
(* What the texts on their way are *)

\* The sentences said since the last preemption.
Later == {u \in Nat : u > preempted}

CountsOK ==
    /\ said \in Nat /\ preempted \in Nat /\ preempted <= said
    /\ heard \in Seq(Nat)
    /\ late \in {0, 1}

QueuesAreLater ==
    /\ HasTexts(text_queue, Later) /\ HasTexts(pcm_queue, Later)
    /\ \A i \in DOMAIN pcm_queue : pcm_queue[i].units # <<>>

JobIsLater ==
    synth = "synth" =>
        /\ job.units \in Seq(Nat)
        /\ job.generation = generation => job.units \in Seq(Later)

\* A chunk that was found current may have become late, but then it is the first.
ChunkIsLater ==
    /\ play \in {"popped", "checked"} => chunk.units \in Seq(Nat) /\ chunk.units # <<>>
    /\ play = "popped" =>
        /\ chunk.generation \in Nat /\ chunk.generation <= generation
        /\ chunk.generation = generation => chunk.units \in Seq(Later)
    /\ play = "checked" /\ late = 1 => chunk.units \in Seq(Later)

\* Before the model is loaded there are no threads, and stop_ is for Shutdown only.
StartedWhenReady ==
    /\ stop => main # "idle"
    /\ main = "idle" /\ init_state # "Ready" => synth = "off" /\ play = "off"

LineInv == CountsOK /\ QueuesAreLater /\ JobIsLater /\ ChunkIsLater /\ StartedWhenReady

\* A text of later sentences is a text.
LEMMA LaterIsNat ==
    /\ Later \subseteq Nat
    /\ Seq(Later) \subseteq Seq(Nat)
    /\ preempted' = preempted => Later' = Later
<1>1. Later \subseteq Nat
  BY DEF Later
<1>2. ASSUME preempted' = preempted PROVE Later' = Later
  BY <1>2 DEF Later
<1> QED BY <1>1, <1>2, SeqMonotonic

\* Nothing has been said yet.
LEMMA InitLine == Init => LineInv
<1> SUFFICES ASSUME Init PROVE LineInv
  OBVIOUS
<1>1. CountsOK
  <2>1. <<>> \in Seq(Nat)
    BY EmptySeq
  <2> QED BY <2>1 DEF Init, CountsOK
<1>2. QueuesAreLater
  <2>1. text_queue = <<>> /\ pcm_queue = <<>>
    BY DEF Init
  <2> QED BY <2>1, UnitsEmpty DEF QueuesAreLater
<1>3. JobIsLater /\ ChunkIsLater /\ StartedWhenReady
  BY DEF Init, JobIsLater, ChunkIsLater, StartedWhenReady
<1> QED BY <1>1, <1>2, <1>3 DEF LineInv

\* Taking a job: its text is what the first texts of the queue are.
LEMMA TakeKeepsLine ==
    ASSUME TtsInv, LineInv, Take, text_queue # <<>>, StartedWhenReady',
           UNCHANGED <<generation, play, chunk, said, heard, preempted, late>>
    PROVE  LineInv'
<1>1. PICK n \in DOMAIN text_queue :
          /\ job' = WithUnits(Head(text_queue),
                              FlattenSeq([i \in 1 .. n |-> text_queue[i].units]))
          /\ text_queue' = SubSeq(text_queue, n + 1, Len(text_queue))
  BY DEF Take, FormalRuns, StaticRuns
<1>2. IsQueue(text_queue) /\ HasTexts(text_queue, Later)
  BY DEF TtsInv, QueueTypeOK, LineInv, QueuesAreLater
<1>3. HasTexts(text_queue', Later) /\ job'.units \in Seq(Later)
  <2>1. /\ HasTexts(SubSeq(text_queue, n + 1, Len(text_queue)), Later)
        /\ FlattenSeq([i \in 1 .. n |-> text_queue[i].units]) \in Seq(Later)
    BY <1>2, UnitsSplit
  <2> QED BY <1>1, <2>1 DEF WithUnits
<1>4. pcm_queue' = pcm_queue /\ Later' = Later /\ job'.units \in Seq(Nat)
  BY <1>3, LaterIsNat DEF Take
<1>5. CountsOK' /\ ChunkIsLater'
  BY <1>4 DEF LineInv, CountsOK, ChunkIsLater
<1>6. QueuesAreLater' /\ JobIsLater'
  BY <1>3, <1>4 DEF LineInv, QueuesAreLater, JobIsLater
<1> QED BY <1>5, <1>6 DEF LineInv

\* A piece of a text is a text.
LEMMA PieceOfText ==
    ASSUME NEW S, NEW s \in Seq(S), NEW n \in DOMAIN s
    PROVE  /\ SubSeq(s, 1, n) \in Seq(S) /\ SubSeq(s, n + 1, Len(s)) \in Seq(S)
           /\ Len(SubSeq(s, 1, n)) = n /\ SubSeq(s, 1, n) # <<>>
           /\ Len(SubSeq(s, n + 1, Len(s))) = Len(s) - n
           /\ s = SubSeq(s, 1, n) \o SubSeq(s, n + 1, Len(s))
           /\ n \in 1 .. Len(s) /\ Len(s) \in Nat
<1>1. /\ Len(s) \in Nat /\ n \in 1 .. Len(s)
      /\ 1 \in Int /\ n \in Int /\ n + 1 \in Int /\ Len(s) \in Int
  BY LenProperties
<1>2. \A i \in 1 .. Len(s) : s[i] \in S
  BY ElementOfSeq
<1>3. SubSeq(s, 1, n) \in Seq(S) /\ Len(SubSeq(s, 1, n)) = n
  <2>1. \A i \in 1 .. n : s[i] \in S
    BY <1>1, <1>2
  <2>2. /\ SubSeq(s, 1, n) \in Seq(S)
        /\ Len(SubSeq(s, 1, n)) = IF 1 <= n THEN n - 1 + 1 ELSE 0
    BY <1>1, <2>1, SubSeqProperties
  <2> QED BY <1>1, <2>2
<1>4. SubSeq(s, n + 1, Len(s)) \in Seq(S) /\ Len(SubSeq(s, n + 1, Len(s))) = Len(s) - n
  <2>1. \A i \in n + 1 .. Len(s) : s[i] \in S
    BY <1>1, <1>2
  <2>2. /\ SubSeq(s, n + 1, Len(s)) \in Seq(S)
        /\ Len(SubSeq(s, n + 1, Len(s))) =
              IF n + 1 <= Len(s) THEN Len(s) - (n + 1) + 1 ELSE 0
    BY <1>1, <2>1, SubSeqProperties
  <2> QED BY <1>1, <2>2
<1>5. s = SubSeq(s, 1, n) \o SubSeq(s, n + 1, Len(s))
  <2>1. SubSeq(s, 1, n) \o SubSeq(s, n + 1, Len(s)) = SubSeq(s, 1, Len(s))
    <3>1. 1 \in 1 .. Len(s) + 1 /\ n \in 1 - 1 .. Len(s) /\ Len(s) \in n .. Len(s)
      BY <1>1
    <3> QED BY <3>1, ConcatAdjacentSubSeq
  <2> QED BY <2>1, SubSeqFull
<1>6. SubSeq(s, 1, n) # <<>>
  BY <1>1, <1>3, EmptySeq
<1> QED BY <1>1, <1>3, <1>4, <1>5, <1>6

\* Cutting a piece off the job: it is pushed, refused with the rest, or lost.
LEMMA SynthesizeKeepsLine ==
    ASSUME TtsInv, LineInv, Synthesize
    PROVE  LineInv'
<1>1. /\ synth = "synth" /\ synth' = "synth"
      /\ UNCHANGED <<init_state, stop, main, generation, play, chunk, said, heard, preempted, late>>
  BY DEF Synthesize, initVars, playVars, history
<1>2. Later' = Later
  BY <1>1, LaterIsNat
<1>3. CountsOK' /\ ChunkIsLater' /\ StartedWhenReady'
  BY <1>1, <1>2 DEF LineInv, CountsOK, ChunkIsLater, StartedWhenReady
<1>4. job.units \in Seq(Nat) /\ (job.generation = generation => job.units \in Seq(Later))
  BY <1>1 DEF LineInv, JobIsLater
<1>5. PICK n \in DOMAIN job.units :
        \/ PushPcmChunk(SubSeq(job.units, 1, n))
        \/ /\ job' = WithUnits(job, SubSeq(job.units, n + 1, Len(job.units)))
           /\ UNCHANGED queueVars
  BY DEF Synthesize
<1>6. SubSeq(job.units, n + 1, Len(job.units)) \in Seq(Nat)
  BY <1>4, PieceOfText
<1>7. ASSUME job.generation = generation
      PROVE  /\ SubSeq(job.units, n + 1, Len(job.units)) \in Seq(Later)
             /\ SubSeq(job.units, 1, n) \in Seq(Later)
             /\ SubSeq(job.units, 1, n) # <<>>
  <2>1. PICK s \in Seq(Later) : s = job.units
    BY <1>4, <1>7
  <2>2. n \in DOMAIN s
    BY <2>1
  <2>3. SubSeq(s, n + 1, Len(s)) \in Seq(Later)
    BY <2>2, PieceOfText, Zenon
  <2>4. SubSeq(s, 1, n) \in Seq(Later)
    BY <2>2, PieceOfText, Zenon
  <2>5. SubSeq(s, 1, n) # <<>>
    BY <2>2, PieceOfText
  <2> QED BY <2>1, <2>3, <2>4, <2>5
<1>8. ASSUME UNCHANGED queueVars,
             \/ job' = WithUnits(job, <<>>)
             \/ job' = WithUnits(job, SubSeq(job.units, n + 1, Len(job.units)))
      PROVE  LineInv'
  <2>1. QueuesAreLater'
    BY <1>2, <1>8 DEF LineInv, QueuesAreLater, queueVars
  <2>2. job'.generation = job.generation
    BY <1>8 DEF WithUnits
  <2>3. job'.units \in Seq(Nat) /\ (job.generation = generation => job'.units \in Seq(Later))
    <3>1. <<>> \in Seq(Nat) /\ <<>> \in Seq(Later)
      BY EmptySeq
    <3>2. job'.units = <<>> \/ job'.units = SubSeq(job.units, n + 1, Len(job.units))
      BY <1>8 DEF WithUnits
    <3> QED BY <1>6, <1>7, <3>1, <3>2
  <2>4. JobIsLater'
    BY <1>1, <1>2, <2>2, <2>3 DEF JobIsLater
  <2> QED BY <1>3, <2>1, <2>4 DEF LineInv
<1>9. ASSUME PushPcmChunk(SubSeq(job.units, 1, n)), ~(stop \/ job.generation # generation)
      PROVE  LineInv'
  <2> DEFINE e == [units |-> SubSeq(job.units, 1, n), generation |-> job.generation]
  <2>1. /\ pcm_queue' = Append(pcm_queue, e)
        /\ job' = WithUnits(job, SubSeq(job.units, n + 1, Len(job.units)))
        /\ text_queue' = text_queue
    BY <1>9 DEF PushPcmChunk
  <2>2. e.units \in Seq(Later) /\ e.units # <<>>
    BY <1>7, <1>9
  <2>3. IsQueue(pcm_queue) /\ HasTexts(pcm_queue, Later)
    BY DEF TtsInv, QueueTypeOK, LineInv, QueuesAreLater
  <2>4. HasTexts(pcm_queue', Later)
    BY <2>1, <2>2, <2>3, UnitsAppend
  <2>5. \A i \in DOMAIN pcm_queue' : pcm_queue'[i].units # <<>>
    <3>1. PICK R : pcm_queue \in Seq(R)
      BY <2>3 DEF IsQueue
    <3> HIDE DEF e
    <3>2. pcm_queue \in Seq(R \cup {e}) /\ e \in R \cup {e}
      BY <3>1, SeqMonotonic
    <3>3. /\ pcm_queue' \in Seq(R \cup {e}) /\ Len(pcm_queue') = Len(pcm_queue) + 1
          /\ \A i \in 1 .. Len(pcm_queue) : pcm_queue'[i] = pcm_queue[i]
          /\ pcm_queue'[Len(pcm_queue) + 1] = e
      BY <2>1, <3>2, AppendProperties
    <3>4. /\ DOMAIN pcm_queue' = 1 .. Len(pcm_queue) + 1
          /\ DOMAIN pcm_queue = 1 .. Len(pcm_queue) /\ Len(pcm_queue) \in Nat
      BY <3>1, <3>3, LenProperties
    <3> QED BY <2>2, <3>3, <3>4 DEF LineInv, QueuesAreLater
  <2>6. QueuesAreLater'
    BY <1>2, <2>1, <2>4, <2>5 DEF LineInv, QueuesAreLater
  <2>7. job'.units = SubSeq(job.units, n + 1, Len(job.units))
    BY <2>1 DEF WithUnits
  <2>8. JobIsLater'
    BY <1>2, <1>6, <1>7, <1>9, <2>7 DEF JobIsLater
  <2> QED BY <1>3, <2>6, <2>8 DEF LineInv
<1> QED BY <1>5, <1>8, <1>9 DEF PushPcmChunk

\* A step that moves no text keeps all of them where they belong.
LEMMA QuietKeepsLine ==
    ASSUME LineInv, UNCHANGED <<generation, text_queue, pcm_queue, job, chunk, history>>,
           synth' = synth \/ synth' # "synth",
           play' = play \/ play' \notin {"popped", "checked"},
           StartedWhenReady'
    PROVE  LineInv'
<1>1. Later' = Later
  BY LaterIsNat DEF history
<1>2. CountsOK' /\ QueuesAreLater'
  BY <1>1 DEF LineInv, CountsOK, QueuesAreLater, history
<1>3. JobIsLater' /\ ChunkIsLater'
  BY <1>1 DEF LineInv, JobIsLater, ChunkIsLater, history
<1> QED BY <1>2, <1>3 DEF LineInv

\* A preemption: what is still on its way is of an older generation.
LEMMA AdvanceKeepsLine ==
    ASSUME TtsInv, LineInv, AdvanceGeneration, StartedWhenReady',
           UNCHANGED <<synthVars, playVars, said, heard>>
    PROVE  LineInv'
<1>1. /\ generation' = generation + 1 /\ text_queue' = <<>> /\ pcm_queue' = <<>>
      /\ preempted' = said /\ late' = 0
  BY DEF AdvanceGeneration
<1>2. CountsOK'
  BY <1>1 DEF LineInv, CountsOK
<1>3. QueuesAreLater'
  BY <1>1, UnitsEmpty DEF QueuesAreLater
<1>4. JobIsLater'
  BY <1>1 DEF LineInv, JobIsLater, TtsInv, QueueTypeOK, JobIsOlder, synthVars
<1>5. ChunkIsLater'
  BY <1>1 DEF LineInv, ChunkIsLater, TtsInv, QueueTypeOK, playVars
<1> QED BY <1>2, <1>3, <1>4, <1>5 DEF LineInv

\* New sentences come after all that were preempted.
LEMMA EnqueueKeepsLine ==
    ASSUME TtsInv, LineInv, NEW n \in Unit, NEW kind \in Kind, EnqueueCleaned(n, kind)
    PROVE  LineInv'
<1> DEFINE e == [units |-> [i \in 1 .. n |-> said + i], kind |-> kind, generation |-> generation]
<1>1. /\ text_queue' = Append(text_queue, e) /\ said' = said + n /\ main = "idle"
      /\ UNCHANGED <<stop, generation, pcm_queue, main, synthVars, playVars, heard, preempted, late>>
  BY DEF EnqueueCleaned
<1>2. Later' = Later
  BY <1>1, LaterIsNat
<1>3. n \in Nat /\ said \in Nat /\ preempted \in Nat /\ preempted <= said
  BY TtsAssumption DEF Unit, LineInv, CountsOK
<1>4. e.units \in Seq(Later)
  <2>1. \A i \in 1 .. n : said + i \in Later
    BY <1>3 DEF Later
  <2>2. [i \in 1 .. n |-> said + i] \in [1 .. n -> Later]
    BY <2>1
  <2> QED BY <1>3, <2>2, FunSeq
<1>5. HasTexts(text_queue', Later)
  <2>1. IsQueue(text_queue) /\ HasTexts(text_queue, Later)
    BY DEF TtsInv, QueueTypeOK, LineInv, QueuesAreLater
  <2> HIDE DEF e
  <2> QED BY <1>1, <1>4, <2>1, UnitsAppend
<1>6. CountsOK'
  BY <1>1, <1>3 DEF LineInv, CountsOK
<1>7. QueuesAreLater'
  BY <1>1, <1>2, <1>5 DEF LineInv, QueuesAreLater
<1>8. JobIsLater' /\ ChunkIsLater'
  BY <1>1, <1>2 DEF LineInv, JobIsLater, ChunkIsLater, synthVars, playVars
<1>9. StartedWhenReady'
  <2>1. init_state' = init_state \/ (init_state = "Uninitialized" /\ init_state' = "Initializing")
    BY DEF EnqueueCleaned, initVars
  <2> QED BY <1>1, <2>1 DEF LineInv, StartedWhenReady, synthVars, playVars
<1> QED BY <1>6, <1>7, <1>8, <1>9 DEF LineInv

\* The playback thread pops a chunk: it is of this generation.
LEMMA PopKeepsLine == TtsInv /\ LineInv /\ PopPcm => LineInv'
<1> SUFFICES ASSUME TtsInv, LineInv, PopPcm PROVE LineInv'
  OBVIOUS
<1>1. /\ play = "wait" /\ play' = "popped" /\ pcm_queue # <<>>
      /\ chunk' = Head(pcm_queue) /\ pcm_queue' = Tail(pcm_queue)
      /\ UNCHANGED <<init_state, text_queue, stop, generation, main, synth, job, history>>
  BY DEF PopPcm, initVars, synthVars
<1>2. Later' = Later
  BY <1>1, LaterIsNat DEF history
<1>3. IsQueue(pcm_queue) /\ HasTexts(pcm_queue, Later) /\ Current1(pcm_queue, generation)
  BY CurrentQueues DEF TtsInv, QueueTypeOK, LineInv, QueuesAreLater
<1>4. /\ HasTexts(Tail(pcm_queue), Later) /\ Head(pcm_queue).units \in Seq(Later)
      /\ \A i \in DOMAIN Tail(pcm_queue) :
            i + 1 \in DOMAIN pcm_queue /\ Tail(pcm_queue)[i] = pcm_queue[i + 1]
      /\ Head(pcm_queue) = pcm_queue[1] /\ 1 \in DOMAIN pcm_queue
  BY <1>1, <1>3, UnitsTail
<1>5. QueuesAreLater'
  BY <1>1, <1>2, <1>4 DEF LineInv, QueuesAreLater
<1>6. ChunkIsLater'
  <2>1. chunk'.units \in Seq(Later) /\ chunk'.units \in Seq(Nat) /\ chunk'.units # <<>>
    BY <1>1, <1>4, LaterIsNat DEF LineInv, QueuesAreLater
  <2>2. chunk'.generation = generation /\ generation \in Nat
    BY <1>1, <1>3, TailOfQueue DEF TtsInv, QueueTypeOK
  <2> QED BY <1>1, <1>2, <2>1, <2>2 DEF ChunkIsLater
<1>7. CountsOK' /\ JobIsLater'
  BY <1>1, <1>2 DEF LineInv, CountsOK, JobIsLater, history
<1>8. StartedWhenReady'
  BY <1>1 DEF LineInv, StartedWhenReady
<1> QED BY <1>5, <1>6, <1>7, <1>8 DEF LineInv

\* Only a chunk that was preempted since its second look is late, and then it is the first.
LEMMA StartPlayKeepsLine == LineInv /\ StartPlay => LineInv'
<1> SUFFICES ASSUME LineInv, StartPlay PROVE LineInv'
  OBVIOUS
<1>1. /\ play = "checked" /\ play' = "playing" /\ heard' = heard \o chunk.units
      /\ late' = IF \E i \in DOMAIN chunk.units : chunk.units[i] <= preempted
                 THEN late + 1 ELSE late
      /\ UNCHANGED <<init_state, text_queue, pcm_queue, stop, generation, main, synth, job, chunk,
                     said, preempted>>
  BY DEF StartPlay, initVars, synthVars, queueVars
<1>2. Later' = Later
  BY <1>1, LaterIsNat
<1>3. late' \in {0, 1}
  <2>1. late \in {0, 1}
    BY DEF LineInv, CountsOK
  <2>2. CASE late = 0
    BY <1>1, <2>2
  <2>3. CASE late = 1
    <3>1. chunk.units \in Seq(Later) /\ preempted \in Nat
      BY <1>1, <2>3 DEF LineInv, ChunkIsLater, CountsOK
    <3>2. \A i \in DOMAIN chunk.units : chunk.units[i] \in Later
      BY <3>1, LenProperties, ElementOfSeq
    <3>3. \A i \in DOMAIN chunk.units : ~(chunk.units[i] <= preempted)
      BY <3>1, <3>2 DEF Later
    <3> QED BY <1>1, <2>3, <3>3
  <2> QED BY <2>1, <2>2, <2>3
<1>4. heard' \in Seq(Nat)
  BY <1>1, ConcatProperties DEF LineInv, CountsOK, ChunkIsLater
<1>5. CountsOK'
  BY <1>1, <1>3, <1>4 DEF LineInv, CountsOK
<1>6. QueuesAreLater' /\ JobIsLater' /\ ChunkIsLater' /\ StartedWhenReady'
  BY <1>1, <1>2 DEF LineInv, QueuesAreLater, JobIsLater, ChunkIsLater, StartedWhenReady
<1> QED BY <1>5, <1>6 DEF LineInv

\* Every step keeps the texts where they belong.
LEMMA StepLine == TtsInv /\ LineInv /\ [Next]_vars => LineInv'
<1> SUFFICES ASSUME TtsInv, LineInv, [Next]_vars PROVE LineInv'
  OBVIOUS
<1>1. CASE RequestInitializeAsync
  BY <1>1, QuietKeepsLine
     DEF RequestInitializeAsync, queueVars, synthVars, playVars, LineInv, StartedWhenReady
<1>2. CASE InitDone
  BY <1>2, QuietKeepsLine
     DEF InitDone, queueVars, synthVars, playVars, LineInv, StartedWhenReady
<1>3. CASE PollInitState
  <2>1. /\ main = "idle" /\ main' = "idle" /\ init_state = "Initializing"
        /\ synth = "off" /\ play = "off" /\ ~stop
        /\ UNCHANGED <<generation, job, chunk, history>>
    BY <1>3 DEF PollInitState, LineInv, StartedWhenReady
  <2>2. CASE init_future = "ok"
    <3>1. /\ init_state' = "Ready" /\ synth' = "wait" /\ stop' = FALSE /\ play' = "wait"
          /\ UNCHANGED queueVars
      BY <1>3, <2>1, <2>2 DEF PollInitState
    <3>2. StartedWhenReady'
      BY <2>1, <3>1 DEF StartedWhenReady
    <3> QED BY <2>1, <3>1, <3>2, QuietKeepsLine DEF queueVars
  <2>3. CASE init_future # "ok"
    <3>1. /\ init_state' = "Failed" /\ text_queue' = <<>> /\ pcm_queue' = <<>>
          /\ UNCHANGED <<synth, play, stop>>
      BY <1>3, <2>3 DEF PollInitState
    <3>2. QueuesAreLater'
      BY <3>1, UnitsEmpty DEF QueuesAreLater
    <3>3. CountsOK' /\ JobIsLater' /\ ChunkIsLater' /\ StartedWhenReady'
      BY <2>1, <3>1 DEF LineInv, CountsOK, JobIsLater, ChunkIsLater, StartedWhenReady, history
    <3> QED BY <3>2, <3>3 DEF LineInv
  <2> QED BY <2>2, <2>3
<1>4. CASE Enqueue
  BY <1>4, EnqueueKeepsLine DEF Enqueue
<1>5. CASE Cancel
  <2>1. StartedWhenReady'
    BY <1>5 DEF Cancel, LineInv, StartedWhenReady, initVars, synthVars, playVars
  <2> QED BY <1>5, <2>1, AdvanceKeepsLine DEF Cancel
<1>6. CASE BeginShutdown
  <2>1. StartedWhenReady'
    BY <1>6 DEF BeginShutdown, LineInv, StartedWhenReady, initVars, synthVars, playVars
  <2> QED BY <1>6, <2>1, AdvanceKeepsLine DEF BeginShutdown
<1>7. CASE SetStop
  BY <1>7, QuietKeepsLine
     DEF SetStop, queueVars, synthVars, playVars, initVars, LineInv, StartedWhenReady
<1>8. CASE JoinWorkers
  BY <1>8, QuietKeepsLine
     DEF JoinWorkers, queueVars, synthVars, playVars, initVars, LineInv, StartedWhenReady
<1>9. CASE Synth
  <2>1. CASE SynthStops
    BY <2>1, QuietKeepsLine
       DEF SynthStops, queueVars, synthVars, playVars, initVars, LineInv, StartedWhenReady
  <2>2. CASE TakeText
    <3>1. text_queue # <<>> /\ Take /\ synth' = "synth" /\ init_state = "Ready"
          /\ UNCHANGED <<init_state, main, stop, generation, play, chunk, said, heard, preempted, late>>
      BY <2>2 DEF TakeText, Take, playVars, history, initVars
    <3>2. StartedWhenReady'
      BY <3>1 DEF LineInv, StartedWhenReady
    <3> QED BY <3>1, <3>2, TakeKeepsLine
  <2>3. CASE BeginLinger
    BY <2>3, QuietKeepsLine
       DEF BeginLinger, queueVars, synthVars, playVars, initVars, LineInv, StartedWhenReady
  <2>4. CASE EndLinger
    <3>1. /\ synth = "linger"
          /\ UNCHANGED <<init_state, main, stop, generation, play, chunk, history>>
      BY <2>4 DEF EndLinger, playVars, initVars
    <3>2. StartedWhenReady'
      BY <3>1 DEF LineInv, StartedWhenReady
    <3>3. CASE text_queue = <<>>
      BY <2>4, <3>1, <3>2, <3>3, QuietKeepsLine DEF EndLinger, queueVars
    <3>4. CASE text_queue # <<>>
      BY <2>4, <3>1, <3>2, <3>4, TakeKeepsLine DEF EndLinger, history
    <3> QED BY <3>3, <3>4
  <2>5. CASE Synthesize
    BY <2>5, SynthesizeKeepsLine
  <2>6. CASE FinishJob
    BY <2>6, QuietKeepsLine
       DEF FinishJob, synthVars, playVars, initVars, LineInv, StartedWhenReady
  <2> QED BY <1>9, <2>1, <2>2, <2>3, <2>4, <2>5, <2>6 DEF Synth
<1>10. CASE Play
  <2>1. CASE PlayStops
    BY <2>1, QuietKeepsLine
       DEF PlayStops, queueVars, synthVars, playVars, initVars, LineInv, StartedWhenReady
  <2>2. CASE PopPcm
    BY <2>2, PopKeepsLine
  <2>3. CASE CheckGeneration
    <3>1. /\ play = "popped"
          /\ play' = IF chunk.generation = generation THEN "checked" ELSE "wait"
          /\ UNCHANGED <<init_state, stop, generation, text_queue, pcm_queue, main, synth, job,
                         chunk, history>>
      BY <2>3 DEF CheckGeneration, queueVars, synthVars, initVars
    <3>2. Later' = Later
      BY <3>1, LaterIsNat DEF history
    <3>3. ChunkIsLater'
      BY <3>1, <3>2 DEF LineInv, ChunkIsLater, history
    <3>4. CountsOK' /\ QueuesAreLater' /\ JobIsLater' /\ StartedWhenReady'
      BY <3>1, <3>2 DEF LineInv, CountsOK, QueuesAreLater, JobIsLater, StartedWhenReady, history
    <3> QED BY <3>3, <3>4 DEF LineInv
  <2>4. CASE StartPlay
    BY <2>4, StartPlayKeepsLine
  <2>5. CASE FinishPlay
    BY <2>5, QuietKeepsLine
       DEF FinishPlay, queueVars, synthVars, playVars, initVars, LineInv, StartedWhenReady
  <2> QED BY <1>10, <2>1, <2>2, <2>3, <2>4, <2>5 DEF Play
<1>11. CASE UNCHANGED vars
  BY <1>11, QuietKeepsLine
     DEF vars, queueVars, synthVars, playVars, initVars, LineInv, StartedWhenReady
<1> QED BY <1>1, <1>2, <1>3, <1>4, <1>5, <1>6, <1>7, <1>8, <1>9, <1>10, <1>11
        DEF Next, Shutdown

\* Both invariants hold of every behaviour.
LEMMA AlwaysLine == Spec => [](TtsInv /\ LineInv)
<1>1. Init => TtsInv /\ LineInv
  BY InitTts, InitLine
<1>2. TtsInv /\ LineInv /\ [Next]_vars => (TtsInv /\ LineInv)'
  BY StepTts, StepLine
<1> QED BY <1>1, <1>2, PTL DEF Spec

\* However many sentences and preemptions there are: Cancel cuts the voice off, all but the one
\* chunk whose generation the playback thread looked at just before.
THEOREM LateChunkIsAlone == Spec => []AtMostOneLateChunk
<1>1. LineInv => AtMostOneLateChunk
  BY DEF LineInv, CountsOK, AtMostOneLateChunk
<1> QED BY <1>1, AlwaysLine, PTL
-----------------------------------------------------------------------------
(* TtsWorker implements SpeechChannel *)

IsText(s) == s \in Seq(Nat)
Nothing == <<>>

\* What the lemmas on lines need of them.
LEMMA BehindLaws ==
    /\ IsText(Nothing)
    /\ \A s : IsText(s) => Behind(s, Nothing) = s /\ Behind(Nothing, s) = s
    /\ \A s, r : IsText(s) /\ IsText(r) => IsText(Behind(s, r))
    /\ \A s, r, v : IsText(s) /\ IsText(r) /\ IsText(v) =>
          Behind(Behind(s, r), v) = Behind(s, Behind(r, v))
<1>1. IsText(Nothing)
  BY EmptySeq DEF IsText, Nothing
<1>2. ASSUME NEW s, IsText(s) PROVE Behind(s, Nothing) = s /\ Behind(Nothing, s) = s
  BY <1>2, ConcatEmptySeq DEF IsText, Behind, Nothing
<1>3. ASSUME NEW s, NEW r, IsText(s), IsText(r) PROVE IsText(Behind(s, r))
  BY <1>3, ConcatProperties DEF IsText, Behind
<1>4. ASSUME NEW s, NEW r, NEW v, IsText(s), IsText(r), IsText(v)
      PROVE  Behind(Behind(s, r), v) = Behind(s, Behind(r, v))
  <2>1. s \in Seq(Nat) /\ r \in Seq(Nat) /\ v \in Seq(Nat)
    BY <1>4 DEF IsText
  <2> QED BY <2>1, BehindAssociates
<1> QED BY <1>1, <1>2, <1>3, <1>4

\* The four places a sentence can wait in, one behind the other.
Line(a, p, j, t) == Behind(Behind(Behind(a, p), j), t)

\* What moves from one place to the next stays where it is in the line.
LEMMA LineFacts ==
    ASSUME NEW a, NEW p, NEW j, NEW t, NEW u,
           IsText(a), IsText(p), IsText(j), IsText(t), IsText(u)
    PROVE  /\ IsText(Line(a, p, j, t))
           /\ Line(a, p, j, t) = Behind(a, Line(Nothing, p, j, t))
           /\ Line(a, p, j, Behind(t, u)) = Behind(Line(a, p, j, t), u)
           /\ Line(a, Behind(p, u), j, t) = Line(a, p, Behind(u, j), t)
           /\ Line(Nothing, Behind(u, p), j, t) = Line(u, p, j, t)
           /\ Line(a, p, Nothing, Behind(u, t)) = Line(a, p, u, t)
           /\ Line(a, p, j, t) = Behind(Behind(a, p), Behind(j, t))
           /\ Line(Nothing, Nothing, Nothing, Nothing) = Nothing
<1>1. IsText(Line(a, p, j, t)) /\ Line(a, p, j, t) = Behind(Behind(a, p), Behind(j, t))
  BY BehindLaws DEF Line
<1>2. Line(a, p, j, t) = Behind(a, Line(Nothing, p, j, t))
  BY BehindLaws DEF Line
<1>3. Line(a, p, j, Behind(t, u)) = Behind(Line(a, p, j, t), u)
  BY BehindLaws DEF Line
<1>4. Line(a, Behind(p, u), j, t) = Line(a, p, Behind(u, j), t)
  BY BehindLaws DEF Line
<1>5. Line(Nothing, Behind(u, p), j, t) = Line(u, p, j, t)
  BY BehindLaws DEF Line
<1>6. Line(a, p, Nothing, Behind(u, t)) = Line(a, p, u, t)
  BY BehindLaws DEF Line
<1>7. Line(Nothing, Nothing, Nothing, Nothing) = Nothing
  BY BehindLaws DEF Line
<1> QED BY <1>1, <1>2, <1>3, <1>4, <1>5, <1>6, <1>7

\* The two halves of a concatenation.
LEMMA Halves ==
    ASSUME NEW S, NEW s \in Seq(S), NEW t \in Seq(S)
    PROVE  /\ SubSeq(s \o t, 1, Len(s)) = s
           /\ SubSeq(s \o t, Len(s) + 1, Len(s \o t)) = t
           /\ Len(s \o t) = Len(s) + Len(t) /\ Len(s) \in Nat /\ Len(t) \in Nat
           /\ DOMAIN (s \o t) = 1 .. Len(s) + Len(t)
<1>0. PICK r : r = s \o t
  OBVIOUS
<1>1. /\ r \in Seq(S) /\ Len(r) = Len(s) + Len(t) /\ Len(s) \in Nat /\ Len(t) \in Nat
      /\ \A i \in 1 .. Len(s) + Len(t) : r[i] = IF i <= Len(s) THEN s[i] ELSE t[i - Len(s)]
  BY <1>0, ConcatProperties, LenProperties
<1>2. \A i \in 1 .. Len(s) + Len(t) : r[i] \in S
  BY <1>1, ElementOfSeq
<1>3. SubSeq(r, 1, Len(s)) = s
  <2>1. PICK f : f = SubSeq(r, 1, Len(s))
    OBVIOUS
  <2>2. \A i \in 1 .. Len(s) : r[i] \in S
    BY <1>1, <1>2
  <2>3. /\ f \in Seq(S) /\ Len(f) = IF 1 <= Len(s) THEN Len(s) - 1 + 1 ELSE 0
        /\ \A i \in 1 .. Len(s) - 1 + 1 : f[i] = r[1 + i - 1]
    BY <1>1, <2>1, <2>2, SubSeqProperties
  <2>4. Len(f) = Len(s) /\ Len(s) - 1 + 1 = Len(s)
    BY <1>1, <2>3
  <2>5. ASSUME NEW i \in 1 .. Len(f) PROVE f[i] = s[i]
    <3>1. 1 + i - 1 = i /\ i <= Len(s) /\ i \in 1 .. Len(s) + Len(t)
      BY <1>1, <2>4
    <3>2. f[i] = r[i]
      BY <2>3, <2>4, <3>1
    <3> QED BY <1>1, <3>1, <3>2
  <2>6. f = s
    BY <2>3, <2>4, <2>5, SeqEqual
  <2> QED BY <2>1, <2>6
<1>4. SubSeq(r, Len(s) + 1, Len(r)) = t
  <2>1. PICK f : f = SubSeq(r, Len(s) + 1, Len(r))
    OBVIOUS
  <2>2. \A i \in Len(s) + 1 .. Len(r) : r[i] \in S
    BY <1>1, <1>2
  <2>3. Len(s) + 1 \in Int /\ Len(r) \in Int
    BY <1>1
  <2>4. /\ f \in Seq(S)
        /\ Len(f) = IF Len(s) + 1 <= Len(r) THEN Len(r) - (Len(s) + 1) + 1 ELSE 0
        /\ \A i \in 1 .. Len(r) - (Len(s) + 1) + 1 : f[i] = r[Len(s) + 1 + i - 1]
    BY <2>1, <2>2, <2>3, SubSeqProperties
  <2>5. Len(f) = Len(t) /\ Len(r) - (Len(s) + 1) + 1 = Len(t)
    BY <1>1, <2>4
  <2>6. ASSUME NEW i \in 1 .. Len(f) PROVE f[i] = t[i]
    <3>1. /\ Len(s) + 1 + i - 1 = Len(s) + i /\ ~(Len(s) + i <= Len(s))
          /\ Len(s) + i \in 1 .. Len(s) + Len(t) /\ Len(s) + i - Len(s) = i
      BY <1>1, <2>5
    <3>2. f[i] = r[Len(s) + i]
      BY <2>4, <2>5, <3>1
    <3>3. r[Len(s) + i] = t[Len(s) + i - Len(s)]
      BY <1>1, <3>1
    <3> QED BY <3>1, <3>2, <3>3
  <2>7. f = t
    BY <2>4, <2>5, <2>6, SeqEqual
  <2> QED BY <2>1, <2>7
<1>5. DOMAIN r = 1 .. Len(s) + Len(t)
  BY <1>1, LenProperties
<1> QED BY <1>0, <1>1, <1>3, <1>4, <1>5

\* The chunk just popped, and what is left of the job, if they are of this generation.
Popped == IF play = "popped" THEN Current(chunk) ELSE <<>>
InWork == IF synth = "synth" THEN Current(job) ELSE <<>>
Loudspeaker == heard \o (IF play = "checked" THEN chunk.units ELSE <<>>)

\* The line is made of texts.
LEMMA WaitingIsLine ==
    ASSUME TtsInv, LineInv
    PROVE  /\ IsText(Popped) /\ IsText(UnitsOf(pcm_queue))
           /\ IsText(InWork) /\ IsText(UnitsOf(text_queue))
           /\ Waiting = Line(Popped, UnitsOf(pcm_queue), InWork, UnitsOf(text_queue))
<1>1. <<>> \in Seq(Nat)
  BY EmptySeq
<1>2. Popped \in Seq(Nat)
  BY <1>1 DEF Popped, Current, LineInv, ChunkIsLater
<1>3. InWork \in Seq(Nat)
  BY <1>1 DEF InWork, Current, LineInv, JobIsLater
<1>4. UnitsOf(pcm_queue) \in Seq(Later) /\ UnitsOf(text_queue) \in Seq(Later)
  BY TextsAreTexts DEF TtsInv, QueueTypeOK, LineInv, QueuesAreLater
<1>5. Waiting = Line(Popped, UnitsOf(pcm_queue), InWork, UnitsOf(text_queue))
  BY DEF Waiting, Line, Behind, Popped, InWork
<1> QED BY <1>2, <1>3, <1>4, <1>5, LaterIsNat DEF IsText

\* The same of the next state, of whose invariants nothing is needed here.
LEMMA WaitingNext ==
    Waiting' = Line(Popped', UnitsOf(pcm_queue'), InWork', UnitsOf(text_queue'))
BY DEF Waiting, Line, Behind, Popped, InWork, UnitsOf

\* The channel sees no step when its line, its piece and what was heard stay.
LEMMA Stutters ==
    ASSUME said' = said, Waiting' = Waiting, Speaking' = Speaking, Loudspeaker' = Loudspeaker
    PROVE  [Channel!Next]_(Channel!channelVars)
BY DEF Channel!channelVars, Loudspeaker

\* A step that moves no text.
LEMMA QuietRefines ==
    ASSUME TtsInv, LineInv,
           UNCHANGED <<generation, text_queue, pcm_queue, said, heard, chunk>>,
           play' = play \/ (play \in {"off", "wait"} /\ play' \in {"off", "wait", "exited"})
                        \/ (play = "exited" /\ play' = "off"),
           (job' = job /\ synth' = synth) \/ (synth # "synth" /\ synth' # "synth")
    PROVE  [Channel!Next]_(Channel!channelVars)
<1>1. Popped' = Popped /\ Speaking' = Speaking /\ Loudspeaker' = Loudspeaker
  BY DEF Popped, Current, Speaking, Loudspeaker
<1>2. InWork' = InWork
  BY DEF InWork, Current
<1>3. Waiting' = Waiting
  BY <1>1, <1>2, WaitingNext, WaitingIsLine
<1> QED BY <1>1, <1>3, Stutters

\* Nothing is waiting, speaking or heard at first.
LEMMA RefinesInit == Init => Channel!Init
<1> SUFFICES ASSUME Init PROVE Channel!Init
  OBVIOUS
<1>1. /\ text_queue = <<>> /\ pcm_queue = <<>> /\ synth = "off" /\ play = "off"
      /\ said = 0 /\ heard = <<>>
  BY DEF Init
<1>2. UnitsOf(text_queue) = Nothing /\ UnitsOf(pcm_queue) = Nothing
  BY <1>1, UnitsEmpty DEF Nothing
<1>3. Popped = Nothing /\ InWork = Nothing
  BY <1>1 DEF Popped, InWork, Nothing
<1>4. Waiting = Line(Popped, UnitsOf(pcm_queue), InWork, UnitsOf(text_queue))
  BY DEF Waiting, Line, Behind, Popped, InWork
<1>5. Waiting = <<>>
  BY <1>2, <1>3, <1>4, BehindLaws, LineFacts DEF Nothing
<1>6. heard \o (IF play = "checked" THEN chunk.units ELSE <<>>) = <<>>
  BY <1>1, EmptySeq, ConcatEmptySeq
<1>7. Speaking = <<>>
  BY <1>1 DEF Speaking
<1> QED BY <1>1, <1>5, <1>6, <1>7 DEF Channel!Init

\* EnqueueCleaned is Say.
LEMMA EnqueueRefines ==
    ASSUME TtsInv, LineInv, NEW n \in Unit, NEW kind \in Kind, EnqueueCleaned(n, kind)
    PROVE  Channel!Say
<1>1. PICK e : e = [units |-> [i \in 1 .. n |-> said + i], kind |-> kind, generation |-> generation]
  OBVIOUS
<1>2. /\ text_queue' = Append(text_queue, e) /\ said' = said + n
      /\ UNCHANGED <<generation, pcm_queue, synth, job, play, chunk, heard>>
  BY <1>1 DEF EnqueueCleaned, synthVars, playVars
<1>3. n \in Nat /\ n > 0 /\ said \in Nat
  BY TtsAssumption DEF Unit, LineInv, CountsOK
<1>4. said' \in Nat /\ said' > said /\ said' - said = n
  BY <1>2, <1>3
<1>5. e.units = [i \in 1 .. n |-> said + i] /\ e.units \in Seq(Nat)
  <2>1. [i \in 1 .. n |-> said + i] \in [1 .. n -> Nat]
    BY <1>3
  <2> QED BY <1>1, <1>3, <2>1, FunSeq
<1>6. UnitsOf(text_queue') = Behind(UnitsOf(text_queue), e.units)
  <2>1. IsQueue(text_queue) /\ HasTexts(text_queue, Nat)
    BY LaterIsNat DEF TtsInv, QueueTypeOK, LineInv, QueuesAreLater, HasTexts
  <2> QED BY <1>2, <1>5, <2>1, UnitsAppend DEF Behind
<1>7. Popped' = Popped /\ InWork' = InWork /\ Speaking' = Speaking
  BY <1>2 DEF Popped, InWork, Current, Speaking
<1>8. Waiting' = Waiting \o e.units
  <2>1. IsText(e.units)
    BY <1>5 DEF IsText
  <2>2. Waiting' = Behind(Waiting, e.units)
    BY <1>2, <1>6, <1>7, <2>1, WaitingIsLine, WaitingNext, LineFacts
  <2> QED BY <2>2 DEF Behind
<1>9. (heard \o (IF play = "checked" THEN chunk.units ELSE <<>>))'
        = heard \o (IF play = "checked" THEN chunk.units ELSE <<>>)
  BY <1>2
<1> QED BY <1>4, <1>5, <1>7, <1>8, <1>9 DEF Channel!Say

\* Cancel, Shutdown and a load that fails are Preempt.
LEMMA EmptyRefines ==
    ASSUME TtsInv, LineInv, text_queue' = <<>>, pcm_queue' = <<>>,
           UNCHANGED <<said, heard, play, synth, job, chunk>>,
           generation' = generation + 1 \/ (play = "off" /\ synth = "off")
    PROVE  Channel!Preempt
<1>1. UnitsOf(text_queue') = Nothing /\ UnitsOf(pcm_queue') = Nothing
  BY UnitsEmpty DEF Nothing
<1>2. Popped' = Nothing
  BY DEF Popped, Current, Nothing, TtsInv, QueueTypeOK, LineInv, ChunkIsLater
<1>3. InWork' = Nothing
  BY DEF InWork, Current, Nothing, TtsInv, QueueTypeOK, JobIsOlder
<1>4. Waiting' = <<>>
  BY <1>1, <1>2, <1>3, WaitingNext, BehindLaws, LineFacts DEF Nothing
<1> QED BY <1>4 DEF Channel!Preempt, Speaking

\* Taking a job moves texts within the line.
LEMMA TakeRefines ==
    ASSUME TtsInv, LineInv, Take, text_queue # <<>>, synth # "synth",
           UNCHANGED <<generation, play, chunk, said, heard>>
    PROVE  [Channel!Next]_(Channel!channelVars)
<1>1. PICK n \in DOMAIN text_queue :
          /\ job' = WithUnits(Head(text_queue),
                              FlattenSeq([i \in 1 .. n |-> text_queue[i].units]))
          /\ text_queue' = SubSeq(text_queue, n + 1, Len(text_queue))
  BY DEF Take, FormalRuns, StaticRuns
<1>2. IsQueue(text_queue) /\ HasTexts(text_queue, Later) /\ Current1(text_queue, generation)
  BY CurrentQueues DEF TtsInv, QueueTypeOK, LineInv, QueuesAreLater
<1>3. PICK u : u = FlattenSeq([i \in 1 .. n |-> text_queue[i].units])
  OBVIOUS
<1>4. /\ u \in Seq(Later)
      /\ UnitsOf(text_queue) = u \o UnitsOf(SubSeq(text_queue, n + 1, Len(text_queue)))
      /\ HasTexts(SubSeq(text_queue, n + 1, Len(text_queue)), Later)
      /\ IsQueue(SubSeq(text_queue, n + 1, Len(text_queue)))
  BY <1>2, <1>3, UnitsSplit, RestOfQueue
<1>5. UnitsOf(text_queue) = Behind(u, UnitsOf(text_queue')) /\ IsText(u)
  BY <1>1, <1>4, LaterIsNat DEF Behind, IsText
<1>6. IsText(UnitsOf(text_queue'))
  <2>1. UnitsOf(text_queue') \in Seq(Later)
    BY <1>1, <1>4, TextsAreTexts
  <2> QED BY <2>1, LaterIsNat DEF IsText
<1>7. InWork = Nothing
  BY DEF InWork, Nothing
<1>8. InWork' = u
  <2>1. job'.units = u /\ job'.generation = generation
    BY <1>1, <1>2, <1>3, TailOfQueue DEF WithUnits
  <2> QED BY <2>1 DEF Take, InWork, Current
<1>9. /\ Popped' = Popped /\ pcm_queue' = pcm_queue
      /\ Speaking' = Speaking /\ Loudspeaker' = Loudspeaker
  BY DEF Take, Popped, Current, Speaking, Loudspeaker
<1>10. Waiting' = Waiting
  BY <1>5, <1>6, <1>7, <1>8, <1>9, WaitingIsLine, WaitingNext, LineFacts
<1> QED BY <1>9, <1>10, Stutters

\* v is w without one piece of it.
Shorter(w, v) ==
    \E i, j \in DOMAIN w : i <= j /\ v = SubSeq(w, 1, i - 1) \o SubSeq(w, j + 1, Len(w))

\* A piece cut out of the line leaves what was before it and what was behind it.
LEMMA CutOut ==
    ASSUME NEW b \in Seq(Nat), NEW u \in Seq(Nat), NEW c \in Seq(Nat), u # <<>>,
           NEW w, w = b \o (u \o c)
    PROVE  Shorter(w, b \o c)
<1>1. w = (b \o u) \o c
  <2>1. IsText(b) /\ IsText(u) /\ IsText(c)
    BY DEF IsText
  <2>2. Behind(b, Behind(u, c)) = Behind(Behind(b, u), c)
    BY <2>1, BehindLaws
  <2> QED BY <2>2, Zenon DEF Behind
<1>2. u \o c \in Seq(Nat) /\ b \o u \in Seq(Nat)
  BY ConcatProperties
<1>3. PICK x \in Seq(Nat) : x = u \o c
  BY <1>2
<1>4. /\ SubSeq(w, 1, Len(b)) = b /\ Len(b) \in Nat /\ Len(x) \in Nat
      /\ DOMAIN w = 1 .. Len(b) + Len(x)
  BY <1>3, Halves
<1>5. Len(x) = Len(u) + Len(c) /\ Len(u) \in Nat \ {0} /\ Len(c) \in Nat
  <2>1. Len(u) # 0
    BY EmptySeq
  <2> QED BY <1>3, <2>1, Halves, LenProperties
<1>6. PICK y \in Seq(Nat) : y = b \o u
  BY <1>2
<1>7. SubSeq(w, Len(y) + 1, Len(w)) = c /\ Len(y) = Len(b) + Len(u)
  <2>1. w = y \o c
    BY <1>1, <1>6
  <2> QED BY <1>6, <2>1, Halves
<1>8. /\ Len(b) + 1 \in DOMAIN w /\ Len(b) + Len(u) \in DOMAIN w
      /\ Len(b) + 1 <= Len(b) + Len(u) /\ Len(b) + 1 - 1 = Len(b)
  BY <1>4, <1>5
<1>9. b \o c = SubSeq(w, 1, Len(b) + 1 - 1) \o SubSeq(w, Len(b) + Len(u) + 1, Len(w))
  <2>1. SubSeq(w, 1, Len(b) + 1 - 1) = b
    BY <1>4, <1>8
  <2>2. SubSeq(w, Len(b) + Len(u) + 1, Len(w)) = c
    BY <1>7
  <2> QED BY <2>1, <2>2
<1>10. PICK i \in DOMAIN w, j \in DOMAIN w : i = Len(b) + 1 /\ j = Len(b) + Len(u)
  BY <1>8
<1>11. i <= j /\ b \o c = SubSeq(w, 1, i - 1) \o SubSeq(w, j + 1, Len(w))
  BY <1>8, <1>9, <1>10
<1> QED BY <1>11 DEF Shorter

\* A piece of the job pushed stays in the line, refused or lost it is out of it.
LEMMA SynthesizeRefines ==
    ASSUME TtsInv, LineInv, Synthesize
    PROVE  [Channel!Next]_(Channel!channelVars)
<1>1. /\ synth = "synth" /\ synth' = "synth"
      /\ UNCHANGED <<stop, main, generation, play, chunk, said, heard>>
  BY DEF Synthesize, playVars, history
<1>2. job.units \in Seq(Nat) /\ (job.generation = generation => job.units \in Seq(Later))
  BY <1>1 DEF LineInv, JobIsLater
<1>3. PICK n \in DOMAIN job.units :
        \/ PushPcmChunk(SubSeq(job.units, 1, n))
        \/ /\ job' = WithUnits(job, SubSeq(job.units, n + 1, Len(job.units)))
           /\ UNCHANGED queueVars
  BY DEF Synthesize
<1>4. PICK u, r : u = SubSeq(job.units, 1, n) /\ r = SubSeq(job.units, n + 1, Len(job.units))
  OBVIOUS
<1>5. /\ u \in Seq(Nat) /\ u # <<>> /\ r \in Seq(Nat) /\ job.units = u \o r
      /\ Len(u) = n
      /\ job.generation = generation => u \in Seq(Later)
  <2>1. /\ u \in Seq(Nat) /\ u # <<>> /\ r \in Seq(Nat) /\ job.units = u \o r
        /\ Len(u) = n
    <3>1. job.units \in Seq(Nat)
      BY <1>2
    <3>2. /\ SubSeq(job.units, 1, n) \in Seq(Nat)
          /\ SubSeq(job.units, n + 1, Len(job.units)) \in Seq(Nat)
          /\ Len(SubSeq(job.units, 1, n)) = n /\ SubSeq(job.units, 1, n) # <<>>
          /\ job.units = SubSeq(job.units, 1, n) \o SubSeq(job.units, n + 1, Len(job.units))
      <4>1. PICK s \in Seq(Nat) : s = job.units
        BY <3>1
      <4>2. n \in DOMAIN s
        BY <4>1
      <4>3. SubSeq(s, 1, n) \in Seq(Nat)
        BY <4>2, PieceOfText, Zenon
      <4>4. SubSeq(s, n + 1, Len(s)) \in Seq(Nat)
        BY <4>2, PieceOfText, Zenon
      <4>5. Len(SubSeq(s, 1, n)) = n
        BY <4>2, PieceOfText
      <4>6. SubSeq(s, 1, n) # <<>>
        BY <4>2, PieceOfText
      <4>7. s = SubSeq(s, 1, n) \o SubSeq(s, n + 1, Len(s))
        BY <4>2, PieceOfText, Zenon
      <4> QED BY <4>1, <4>3, <4>4, <4>5, <4>6, <4>7, Zenon
    <3> QED BY <1>4, <3>2, Zenon
  <2>2. ASSUME job.generation = generation PROVE u \in Seq(Later)
    <3>1. job.units \in Seq(Later)
      BY <1>2, <2>2
    <3> QED BY <1>4, <3>1, PieceOfText
  <2> QED BY <2>1, <2>2
<1>6. Popped' = Popped /\ Speaking' = Speaking /\ Loudspeaker' = Loudspeaker /\ said' = said
  BY <1>1 DEF Popped, Current, Speaking, Loudspeaker
<1>7. ASSUME job.generation # generation, UNCHANGED queueVars, job'.generation = job.generation
      PROVE  [Channel!Next]_(Channel!channelVars)
  <2>1. InWork' = InWork
    BY <1>1, <1>7 DEF InWork, Current
  <2>2. Waiting' = Waiting
    BY <1>6, <1>7, <2>1, WaitingIsLine, WaitingNext DEF queueVars
  <2> QED BY <1>6, <2>2, Stutters
<1>8. CASE job' = WithUnits(job, r) /\ UNCHANGED queueVars
  <2>1. job'.generation = job.generation /\ job'.units = r
    BY <1>8 DEF WithUnits
  <2>2. CASE job.generation = generation
    <3>1. InWork = Behind(u, r) /\ InWork' = r
      BY <1>1, <1>5, <2>1, <2>2 DEF InWork, Current, Behind
    <3>2. PICK b, c : b = Behind(Popped, UnitsOf(pcm_queue)) /\ c = Behind(r, UnitsOf(text_queue))
      OBVIOUS
    <3>3. IsText(u) /\ IsText(r) /\ IsText(b) /\ IsText(c)
      BY <1>5, <3>2, WaitingIsLine, BehindLaws DEF IsText
    <3>4. Waiting = Behind(b, Behind(u, c))
      <4>1. Waiting = Line(Popped, UnitsOf(pcm_queue), Behind(u, r), UnitsOf(text_queue))
        BY <3>1, WaitingIsLine
      <4>2. Waiting = Behind(b, Behind(Behind(u, r), UnitsOf(text_queue)))
        BY <3>2, <3>3, <4>1, WaitingIsLine, BehindLaws, LineFacts
      <4> QED BY <3>2, <3>3, <4>2, WaitingIsLine, BehindLaws
    <3>5. Waiting' = Behind(b, c)
      <4>1. Waiting' = Line(Popped, UnitsOf(pcm_queue), r, UnitsOf(text_queue))
        BY <1>6, <1>8, <3>1, WaitingNext DEF queueVars
      <4>2. Line(Popped, UnitsOf(pcm_queue), r, UnitsOf(text_queue)) = Behind(b, c)
        <5>1. /\ IsText(Popped) /\ IsText(UnitsOf(pcm_queue)) /\ IsText(UnitsOf(text_queue))
              /\ IsText(r)
          BY <3>3, WaitingIsLine
        <5>2. Line(Popped, UnitsOf(pcm_queue), r, UnitsOf(text_queue))
                = Behind(Behind(Popped, UnitsOf(pcm_queue)), Behind(r, UnitsOf(text_queue)))
          BY <5>1, BehindLaws DEF Line
        <5> QED BY <3>2, <5>2, Zenon
      <4> QED BY <4>1, <4>2, Zenon
    <3>6. Shorter(Waiting, Waiting')
      <4>1. PICK w : w = Waiting
        OBVIOUS
      <4>2. w = b \o (u \o c) /\ Waiting' = b \o c
        BY <3>4, <3>5, <4>1 DEF Behind
      <4>3. b \in Seq(Nat) /\ u \in Seq(Nat) /\ c \in Seq(Nat) /\ u # <<>>
        BY <1>5, <3>3 DEF IsText
      <4>4. Shorter(w, b \o c)
        BY <4>2, <4>3, CutOut
      <4> QED BY <4>1, <4>2, <4>4, Zenon
    <3>7. Channel!Lose
      BY <1>6, <3>6 DEF Channel!Lose, Loudspeaker, Shorter
    <3> QED BY <3>7 DEF Channel!Next
  <2> QED BY <1>7, <1>8, <2>1, <2>2
<1>9. CASE PushPcmChunk(u) /\ (stop \/ job.generation # generation)
  <2>1. job.generation # generation
    BY <1>1, <1>9 DEF LineInv, StartedWhenReady, TtsInv, QueueTypeOK, JobIsOlder
  <2>2. UNCHANGED queueVars /\ job'.generation = job.generation
    BY <1>9 DEF PushPcmChunk, WithUnits
  <2> QED BY <1>7, <2>1, <2>2
<1>10. CASE PushPcmChunk(u) /\ ~(stop \/ job.generation # generation)
  <2>1. PICK e : e = [units |-> u, generation |-> job.generation]
    OBVIOUS
  <2>2. e.units = u
    BY <2>1
  <2>3. Len(u) = n
    BY <1>5
  <2>4. /\ pcm_queue' = Append(pcm_queue, e) /\ text_queue' = text_queue
        /\ job' = WithUnits(job, r)
    BY <1>4, <1>10, <2>1, <2>3 DEF PushPcmChunk
  <2>5. job'.generation = job.generation /\ job'.units = r /\ job.generation = generation
    BY <1>10, <2>4 DEF WithUnits
  <2>6. InWork = Behind(u, r) /\ InWork' = r
    BY <1>1, <1>5, <2>5 DEF InWork, Current, Behind
  <2>7. UnitsOf(pcm_queue') = Behind(UnitsOf(pcm_queue), u)
    <3>1. IsQueue(pcm_queue) /\ HasTexts(pcm_queue, Later) /\ e.units \in Seq(Later)
      BY <1>5, <2>2, <2>5 DEF TtsInv, QueueTypeOK, LineInv, QueuesAreLater
    <3> QED BY <2>2, <2>4, <3>1, UnitsAppend DEF Behind
  <2>8. Waiting' = Waiting
    <3>1. IsText(u) /\ IsText(r)
      BY <1>5 DEF IsText
    <3>2. Waiting' = Line(Popped, Behind(UnitsOf(pcm_queue), u), r, UnitsOf(text_queue))
      BY <1>6, <2>4, <2>6, <2>7, WaitingNext
    <3>3. Waiting = Line(Popped, UnitsOf(pcm_queue), Behind(u, r), UnitsOf(text_queue))
      BY <2>6, WaitingIsLine
    <3> QED BY <3>1, <3>2, <3>3, WaitingIsLine, LineFacts
  <2> QED BY <1>6, <2>8, Stutters
<1> QED BY <1>3, <1>4, <1>8, <1>9, <1>10

\* A finished job has nothing in it.
LEMMA FinishJobRefines ==
    ASSUME TtsInv, LineInv, FinishJob
    PROVE  [Channel!Next]_(Channel!channelVars)
<1>1. /\ job.units = <<>> /\ synth' = "wait" /\ synth = "synth"
      /\ UNCHANGED <<generation, text_queue, pcm_queue, play, chunk, said, heard, job>>
  BY DEF FinishJob, playVars, history
<1>2. Popped' = Popped /\ Speaking' = Speaking /\ Loudspeaker' = Loudspeaker /\ said' = said
  BY <1>1 DEF Popped, Current, Speaking, Loudspeaker
<1>3. InWork' = InWork
  BY <1>1 DEF InWork, Current
<1>4. Waiting' = Waiting
  BY <1>1, <1>2, <1>3, WaitingIsLine, WaitingNext
<1> QED BY <1>2, <1>4, Stutters

\* The chunk popped was the first of its queue and stays the first of the line.
LEMMA PopRefines ==
    ASSUME TtsInv, LineInv, PopPcm
    PROVE  [Channel!Next]_(Channel!channelVars)
<1>1. /\ play = "wait" /\ play' = "popped" /\ pcm_queue # <<>>
      /\ chunk' = Head(pcm_queue) /\ pcm_queue' = Tail(pcm_queue)
      /\ UNCHANGED <<text_queue, generation, synth, job, said, heard>>
  BY DEF PopPcm, synthVars, history
<1>2. IsQueue(pcm_queue) /\ HasTexts(pcm_queue, Later) /\ Current1(pcm_queue, generation)
  BY CurrentQueues DEF TtsInv, QueueTypeOK, LineInv, QueuesAreLater
<1>3. PICK u : u = chunk'.units
  OBVIOUS
<1>4. /\ u \in Seq(Later) /\ UnitsOf(pcm_queue) = Behind(u, UnitsOf(pcm_queue'))
      /\ UnitsOf(pcm_queue') \in Seq(Later)
  <2>1. /\ HasTexts(Tail(pcm_queue), Later) /\ Head(pcm_queue).units \in Seq(Later)
        /\ UnitsOf(pcm_queue) = Head(pcm_queue).units \o UnitsOf(Tail(pcm_queue))
    BY <1>1, <1>2, UnitsTail
  <2>2. IsQueue(Tail(pcm_queue))
    BY <1>1, <1>2, TailOfQueue
  <2> QED BY <1>1, <1>3, <2>1, <2>2, TextsAreTexts DEF Behind
<1>5. Popped = Nothing /\ Popped' = u
  <2>1. chunk'.generation = generation
    BY <1>1, <1>2, TailOfQueue
  <2> QED BY <1>1, <1>3, <2>1 DEF Popped, Current, Nothing
<1>6. Speaking' = Speaking /\ Loudspeaker' = Loudspeaker /\ said' = said /\ InWork' = InWork
  BY <1>1 DEF Speaking, Loudspeaker, InWork, Current
<1>7. Waiting' = Waiting
  <2>1. IsText(u) /\ IsText(UnitsOf(pcm_queue'))
    BY <1>4, LaterIsNat DEF IsText
  <2>2. Waiting' = Line(u, UnitsOf(pcm_queue'), InWork, UnitsOf(text_queue))
    BY <1>1, <1>5, <1>6, WaitingNext
  <2>3. Waiting = Line(Nothing, Behind(u, UnitsOf(pcm_queue')), InWork, UnitsOf(text_queue))
    BY <1>4, <1>5, WaitingIsLine
  <2>4. Line(Nothing, Behind(u, UnitsOf(pcm_queue')), InWork, UnitsOf(text_queue))
          = Line(u, UnitsOf(pcm_queue'), InWork, UnitsOf(text_queue))
    <3>1. PICK p : p = UnitsOf(pcm_queue')
      OBVIOUS
    <3> QED BY <2>1, <3>1, WaitingIsLine, LineFacts, BehindLaws
  <2> QED BY <2>2, <2>3, <2>4, Zenon
<1> QED BY <1>6, <1>7, Stutters

\* The second look at the generation is where a piece starts, or is dropped.
LEMMA CheckRefines ==
    ASSUME TtsInv, LineInv, CheckGeneration
    PROVE  [Channel!Next]_(Channel!channelVars)
<1>1. /\ play = "popped"
      /\ play' = IF chunk.generation = generation THEN "checked" ELSE "wait"
      /\ UNCHANGED <<generation, text_queue, pcm_queue, synth, job, chunk, said, heard>>
  BY DEF CheckGeneration, queueVars, synthVars, history
<1>2. chunk.units \in Seq(Nat) /\ chunk.units # <<>> /\ heard \in Seq(Nat)
  BY <1>1 DEF LineInv, ChunkIsLater, CountsOK
<1>3. InWork' = InWork /\ Popped' = Nothing
  BY <1>1 DEF InWork, Current, Popped, Nothing
<1>4. CASE chunk.generation # generation
  <2>1. Popped = Nothing /\ play' = "wait"
    BY <1>1, <1>4 DEF Popped, Current, Nothing
  <2>2. Waiting' = Waiting
    BY <1>1, <1>3, <2>1, WaitingIsLine, WaitingNext
  <2>3. Speaking' = Speaking /\ Loudspeaker' = Loudspeaker /\ said' = said
    BY <1>1, <2>1 DEF Speaking, Loudspeaker
  <2> QED BY <2>2, <2>3, Stutters
<1>5. CASE chunk.generation = generation
  <2>1. Popped = chunk.units /\ play' = "checked"
    BY <1>1, <1>5 DEF Popped, Current
  <2>2. Speaking = <<>> /\ Speaking' = chunk.units
    BY <1>1, <2>1 DEF Speaking
  <2>3. PICK u, r : /\ u = chunk.units
                    /\ r = Line(Nothing, UnitsOf(pcm_queue), InWork, UnitsOf(text_queue))
    OBVIOUS
  <2>4. Waiting = u \o r /\ Waiting' = r /\ r \in Seq(Nat) /\ u \in Seq(Nat)
    <3>1. Waiting = Behind(u, r) /\ IsText(r)
      BY <1>2, <2>1, <2>3, WaitingIsLine, LineFacts, BehindLaws
    <3>2. Waiting' = r
      BY <1>1, <1>3, <2>3, WaitingNext
    <3> QED BY <1>2, <2>3, <3>1, <3>2 DEF Behind, IsText
  <2>5. /\ Len(u) \in DOMAIN Waiting
        /\ u = SubSeq(Waiting, 1, Len(u))
        /\ Waiting' = SubSeq(Waiting, Len(u) + 1, Len(Waiting))
    <3>1. PICK w : w = Waiting
      OBVIOUS
    <3>2. w = u \o r
      BY <2>4, <3>1
    <3>3. /\ SubSeq(w, 1, Len(u)) = u /\ SubSeq(w, Len(u) + 1, Len(w)) = r
          /\ DOMAIN w = 1 .. Len(u) + Len(r) /\ Len(u) \in Nat /\ Len(r) \in Nat
      BY <2>4, <3>2, Halves
    <3>4. Len(u) # 0
      BY <1>2, <2>3, EmptySeq
    <3>5. Len(u) \in DOMAIN w
      BY <3>3, <3>4
    <3> QED BY <2>4, <3>1, <3>3, <3>5
  <2>6. Loudspeaker = heard /\ Loudspeaker' = heard \o u
    <3>1. Loudspeaker = heard \o <<>>
      BY <1>1 DEF Loudspeaker
    <3>2. Loudspeaker' = heard \o u
      BY <1>1, <2>1, <2>3 DEF Loudspeaker
    <3> QED BY <1>2, <3>1, <3>2, ConcatEmptySeq
  <2>7. Loudspeaker' = Loudspeaker \o SubSeq(Waiting, 1, Len(u))
    BY <2>5, <2>6
  <2>8. Speaking' = SubSeq(Waiting, 1, Len(u))
    BY <2>2, <2>3, <2>5
  <2>9. Channel!Start
    <3>1. \E i \in DOMAIN Waiting :
             /\ Speaking' = SubSeq(Waiting, 1, i)
             /\ Loudspeaker' = Loudspeaker \o SubSeq(Waiting, 1, i)
             /\ Waiting' = SubSeq(Waiting, i + 1, Len(Waiting))
      BY <2>5, <2>7, <2>8, Zenon
    <3> QED BY <1>1, <2>2, <3>1 DEF Channel!Start, Loudspeaker
  <2> QED BY <2>9 DEF Channel!Next
<1> QED BY <1>4, <1>5

\* PlayPcm is called with the piece that has started.
LEMMA StartPlayRefines ==
    ASSUME TtsInv, LineInv, StartPlay
    PROVE  [Channel!Next]_(Channel!channelVars)
<1>1. /\ play = "checked" /\ play' = "playing" /\ heard' = heard \o chunk.units
      /\ UNCHANGED <<generation, text_queue, pcm_queue, synth, job, chunk, said>>
  BY DEF StartPlay, queueVars, synthVars
<1>2. Speaking' = Speaking /\ InWork' = InWork /\ Popped = Nothing /\ Popped' = Nothing
  BY <1>1 DEF Speaking, InWork, Current, Popped, Nothing
<1>3. Waiting' = Waiting
  BY <1>1, <1>2, WaitingIsLine, WaitingNext
<1>4. Loudspeaker' = Loudspeaker
  <2>1. heard \o chunk.units \in Seq(Nat)
    BY <1>1, ConcatProperties DEF LineInv, CountsOK, ChunkIsLater
  <2>2. Loudspeaker = heard \o chunk.units /\ Loudspeaker' = heard' \o <<>>
    BY <1>1 DEF Loudspeaker
  <2> QED BY <1>1, <2>1, <2>2, ConcatEmptySeq
<1> QED BY <1>1, <1>2, <1>3, <1>4, Stutters

\* PlayPcm returns.
LEMMA FinishPlayRefines ==
    ASSUME TtsInv, LineInv, FinishPlay
    PROVE  [Channel!Next]_(Channel!channelVars)
<1>1. /\ play = "playing" /\ play' = "wait"
      /\ UNCHANGED <<generation, text_queue, pcm_queue, synth, job, chunk, said, heard>>
  BY DEF FinishPlay, queueVars, synthVars, history
<1>2. Speaking' = <<>> /\ InWork' = InWork /\ Popped = Nothing /\ Popped' = Nothing
  BY <1>1 DEF Speaking, InWork, Current, Popped, Nothing
<1>3. Waiting' = Waiting
  BY <1>1, <1>2, WaitingIsLine, WaitingNext
<1>4. Loudspeaker' = Loudspeaker
  BY <1>1 DEF Loudspeaker
<1>5. Channel!Finish
  BY <1>1, <1>2, <1>3, <1>4 DEF Channel!Finish, Loudspeaker
<1> QED BY <1>5 DEF Channel!Next

\* Every step is one of the line, or moves a text within it.
LEMMA RefinesStep ==
    ASSUME TtsInv, LineInv, [Next]_vars
    PROVE  [Channel!Next]_(Channel!channelVars)
<1>1. CASE RequestInitializeAsync
  <2>1. /\ UNCHANGED <<generation, text_queue, pcm_queue, said, heard, chunk>>
        /\ UNCHANGED <<play, synth, job>>
    BY <1>1 DEF RequestInitializeAsync, queueVars, synthVars, playVars, history
  <2> QED BY <2>1, QuietRefines
<1>2. CASE InitDone
  <2>1. /\ UNCHANGED <<generation, text_queue, pcm_queue, said, heard, chunk>>
        /\ UNCHANGED <<play, synth, job>>
    BY <1>2 DEF InitDone, queueVars, synthVars, playVars, history
  <2> QED BY <2>1, QuietRefines
<1>3. CASE PollInitState
  <2>1. /\ synth = "off" /\ play = "off"
        /\ UNCHANGED <<generation, job, chunk, said, heard>>
    BY <1>3 DEF PollInitState, LineInv, StartedWhenReady, history
  <2>2. CASE init_future = "ok"
    <3>1. synth' = "wait" /\ play' = "wait" /\ UNCHANGED queueVars
      BY <1>3, <2>1, <2>2 DEF PollInitState
    <3> QED BY <2>1, <3>1, QuietRefines DEF queueVars
  <2>3. CASE init_future # "ok"
    <3>1. text_queue' = <<>> /\ pcm_queue' = <<>> /\ UNCHANGED <<synth, play>>
      BY <1>3, <2>3 DEF PollInitState
    <3>2. Channel!Preempt
      BY <2>1, <3>1, EmptyRefines
    <3> QED BY <3>2 DEF Channel!Next
  <2> QED BY <2>2, <2>3
<1>4. CASE Enqueue
  <2>1. Channel!Say
    BY <1>4, EnqueueRefines DEF Enqueue
  <2> QED BY <2>1 DEF Channel!Next
<1>5. CASE Cancel \/ BeginShutdown
  <2>1. /\ generation' = generation + 1 /\ text_queue' = <<>> /\ pcm_queue' = <<>>
        /\ UNCHANGED <<said, heard, play, synth, job, chunk>>
    BY <1>5 DEF Cancel, BeginShutdown, AdvanceGeneration, synthVars, playVars
  <2>2. Channel!Preempt
    BY <2>1, EmptyRefines
  <2> QED BY <2>2 DEF Channel!Next
<1>6. CASE SetStop
  <2>1. /\ UNCHANGED <<generation, text_queue, pcm_queue, said, heard, chunk>>
        /\ UNCHANGED <<play, synth, job>>
    BY <1>6 DEF SetStop, queueVars, synthVars, playVars, history
  <2> QED BY <2>1, QuietRefines
<1>7. CASE JoinWorkers
  BY <1>7, QuietRefines DEF JoinWorkers, queueVars, history
<1>8. CASE Synth
  <2>1. CASE SynthStops \/ BeginLinger
    BY <2>1, QuietRefines DEF SynthStops, BeginLinger, queueVars, playVars, history
  <2>2. CASE TakeText
    BY <2>2, TakeRefines DEF TakeText, playVars, history
  <2>3. CASE EndLinger
    <3>1. synth = "linger" /\ UNCHANGED <<generation, play, chunk, said, heard>>
      BY <2>3 DEF EndLinger, playVars, history
    <3>2. CASE text_queue = <<>>
      BY <2>3, <3>1, <3>2, QuietRefines DEF EndLinger, queueVars
    <3>3. CASE text_queue # <<>>
      BY <2>3, <3>1, <3>3, TakeRefines DEF EndLinger
    <3> QED BY <3>2, <3>3
  <2> QED BY <1>8, <2>1, <2>2, <2>3, SynthesizeRefines, FinishJobRefines DEF Synth
<1>9. CASE Play
  <2>1. CASE PlayStops
    <3>1. /\ UNCHANGED <<generation, text_queue, pcm_queue, said, heard, chunk>>
          /\ UNCHANGED <<synth, job>> /\ play = "wait" /\ play' = "exited"
      BY <2>1 DEF PlayStops, queueVars, synthVars, history
    <3> QED BY <3>1, QuietRefines
  <2> QED BY <1>9, <2>1, PopRefines, CheckRefines, StartPlayRefines, FinishPlayRefines DEF Play
<1>10. CASE UNCHANGED vars
  <2>1. /\ UNCHANGED <<generation, text_queue, pcm_queue, said, heard, chunk>>
        /\ UNCHANGED <<play, synth, job>>
    BY <1>10 DEF vars, queueVars, synthVars, playVars, history
  <2> QED BY <2>1, QuietRefines
<1> QED BY <1>1, <1>2, <1>3, <1>4, <1>5, <1>6, <1>7, <1>8, <1>9, <1>10 DEF Next, Shutdown

\* However much is said and preempted, the worker is the line of sentences its callers expect:
\* nothing moves against the order between the queues, the job and the chunk in hand.
THEOREM TtsImplementsChannel == Spec => ImplementsChannel
<1>1. TtsInv /\ LineInv /\ [Next]_vars => [Channel!Next]_(Channel!channelVars)
  BY RefinesStep
<1> QED BY <1>1, RefinesInit, AlwaysLine, PTL DEF Spec, ImplementsChannel, Channel!Spec

-----------------------------------------------------------------------------
\* Sequences of numbers: what is below a bound, and what is in order.
Below(s, t) == \A i \in 1 .. Len(s), j \in 1 .. Len(t) : s[i] < t[j]

\* A piece of a sequence is made of elements of it.
LEMMA Piece ==
    ASSUME NEW s \in Seq(Nat), NEW m \in Nat \ {0}, NEW n \in 0 .. Len(s)
    PROVE  /\ SubSeq(s, m, n) \in Seq(Nat)
           /\ Len(SubSeq(s, m, n)) = IF m <= n THEN n - m + 1 ELSE 0
           /\ \A i \in 1 .. Len(SubSeq(s, m, n)) :
                  /\ m + i - 1 \in 1 .. Len(s)
                  /\ SubSeq(s, m, n)[i] = s[m + i - 1]
<1>1. \A i \in m .. n : s[i] \in Nat
  BY ElementOfSeq
<1>2. m \in Int /\ n \in Int /\ m \in Nat /\ m >= 1 /\ n <= Len(s) /\ Len(s) \in Nat
  OBVIOUS
<1>3. PICK p : p = SubSeq(s, m, n)
  OBVIOUS
<1>4. /\ p \in Seq(Nat)
      /\ Len(p) = IF m <= n THEN n - m + 1 ELSE 0
      /\ \A i \in 1 .. n - m + 1 : p[i] = s[m + i - 1]
  <2>1. m \in Int /\ n \in Int
    BY <1>2
  <2>2. /\ SubSeq(s, m, n) \in Seq(Nat)
        /\ Len(SubSeq(s, m, n)) = IF m <= n THEN n - m + 1 ELSE 0
        /\ \A i \in 1 .. n - m + 1 : SubSeq(s, m, n)[i] = s[m + i - 1]
    BY <1>1, <2>1, SubSeqProperties
  <2> QED BY <1>3, <2>2
<1>5. ASSUME NEW i \in 1 .. Len(p)
      PROVE  m + i - 1 \in 1 .. Len(s) /\ p[i] = s[m + i - 1]
  <2>1. m <= n /\ i \in 1 .. n - m + 1
    BY <1>2, <1>4
  <2>2. m + i - 1 \in 1 .. Len(s)
    BY <1>2, <2>1
  <2> QED BY <1>4, <2>1, <2>2
<1>6. QED
  BY <1>3, <1>4, <1>5

\* A piece of a sequence in order is in order.
LEMMA PieceInOrder ==
    ASSUME NEW s \in Seq(Nat), NEW m \in Nat \ {0}, NEW n \in 0 .. Len(s), Channel!Increasing(s)
    PROVE  Channel!Increasing(SubSeq(s, m, n))
<1> DEFINE p == SubSeq(s, m, n)
<1>1. DOMAIN p = 1 .. Len(p) /\ DOMAIN s = 1 .. Len(s)
  BY Piece, LenProperties
<1>2. SUFFICES ASSUME NEW i \in 1 .. Len(p), NEW j \in 1 .. Len(p), i < j
               PROVE  p[i] < p[j]
  BY <1>1 DEF Channel!Increasing
<1>3. /\ p[i] = s[m + i - 1] /\ p[j] = s[m + j - 1]
      /\ m + i - 1 \in DOMAIN s /\ m + j - 1 \in DOMAIN s
  BY <1>1, Piece
<1>4. m + i - 1 < m + j - 1
  <2>1. i \in Nat /\ j \in Nat /\ m \in Nat
    BY Piece
  <2>2. QED
    BY <1>2, <2>1
<1>5. s[m + i - 1] < s[m + j - 1]
  BY <1>3, <1>4 DEF Channel!Increasing
<1>6. QED
  BY <1>3, <1>5

\* Two sequences in order, one below the other, make one in order.
LEMMA JoinInOrder ==
    ASSUME NEW s \in Seq(Nat), NEW t \in Seq(Nat), Channel!Increasing(s), Channel!Increasing(t), Below(s, t)
    PROVE  Channel!Increasing(s \o t)
<1> DEFINE u == s \o t
<1>1. /\ u \in Seq(Nat) /\ Len(u) = Len(s) + Len(t)
      /\ \A i \in 1 .. Len(u) : u[i] = IF i <= Len(s) THEN s[i] ELSE t[i - Len(s)]
  BY ConcatProperties
<1>2. DOMAIN u = 1 .. Len(u) /\ DOMAIN s = 1 .. Len(s) /\ DOMAIN t = 1 .. Len(t)
  BY <1>1, LenProperties
<1>3. Len(s) \in Nat /\ Len(t) \in Nat
  OBVIOUS
<1>4. SUFFICES ASSUME NEW i \in 1 .. Len(u), NEW j \in 1 .. Len(u), i < j
               PROVE  u[i] < u[j]
  BY <1>2 DEF Channel!Increasing
<1>5. CASE j <= Len(s)
  <2>1. i \in DOMAIN s /\ j \in DOMAIN s
    BY <1>1, <1>2, <1>3, <1>4, <1>5
  <2>2. u[i] = s[i] /\ u[j] = s[j]
    BY <1>1, <1>3, <1>4, <1>5
  <2>3. QED
    BY <1>4, <2>1, <2>2 DEF Channel!Increasing
<1>6. CASE i <= Len(s) /\ j > Len(s)
  <2>1. j - Len(s) \in 1 .. Len(t) /\ i \in 1 .. Len(s)
    BY <1>1, <1>3, <1>6
  <2>2. u[i] = s[i] /\ u[j] = t[j - Len(s)]
    BY <1>1, <1>3, <1>6
  <2>3. QED
    BY <2>1, <2>2 DEF Below
<1>7. CASE i > Len(s)
  <2>1. i - Len(s) \in DOMAIN t /\ j - Len(s) \in DOMAIN t /\ i - Len(s) < j - Len(s)
    BY <1>1, <1>2, <1>3, <1>4, <1>7
  <2>2. u[i] = t[i - Len(s)] /\ u[j] = t[j - Len(s)]
    BY <1>1, <1>3, <1>4, <1>7
  <2>3. QED
    BY <2>1, <2>2 DEF Channel!Increasing
<1>8. i \in Int /\ j \in Int /\ Len(s) \in Int
  BY <1>1, <1>3
<1>9. QED
  BY <1>5, <1>6, <1>7, <1>8

\* The elements of a joined sequence are those of its parts.
LEMMA JoinElements ==
    ASSUME NEW s \in Seq(Nat), NEW t \in Seq(Nat)
    PROVE  /\ s \o t \in Seq(Nat)
           /\ \A i \in 1 .. Len(s \o t) :
                 \/ i \in 1 .. Len(s) /\ (s \o t)[i] = s[i]
                 \/ i - Len(s) \in 1 .. Len(t) /\ (s \o t)[i] = t[i - Len(s)]
<1>1. Len(s) \in Nat /\ Len(t) \in Nat
  OBVIOUS
<1>2. QED
  BY <1>1, ConcatProperties

-----------------------------------------------------------------------------
\* InOrder with the domains spelled out.
Ordered(h, w, n) ==
    /\ h \in Seq(Nat) /\ w \in Seq(Nat) /\ n \in Nat
    /\ Channel!Increasing(h) /\ Channel!Increasing(w) /\ Below(h, w)
    /\ \A i \in 1 .. Len(h) : h[i] <= n
    /\ \A i \in 1 .. Len(w) : w[i] <= n

\* Saying appends numbers above all those said.
LEMMA SayInOrder ==
    ASSUME NEW h, NEW w, NEW n, NEW m \in Nat, Ordered(h, w, n), m > n
    PROVE  Ordered(h, w \o [i \in 1 .. (m - n) |-> n + i], m)
<1> DEFINE new == [i \in 1 .. (m - n) |-> n + i]
<1>1. n \in Nat /\ h \in Seq(Nat) /\ w \in Seq(Nat)
  BY DEF Ordered
<1>2. /\ new \in Seq(Nat) /\ Len(new) = m - n /\ DOMAIN new = 1 .. Len(new)
      /\ \A i \in 1 .. Len(new) : new[i] = n + i /\ new[i] > n /\ new[i] <= m
  BY <1>1
<1>3. Channel!Increasing(new)
  BY <1>1, <1>2 DEF Channel!Increasing
<1>4. (\A i \in 1 .. Len(w) : w[i] \in Nat) /\ (\A i \in 1 .. Len(h) : h[i] \in Nat)
  BY <1>1, ElementOfSeq
<1>5. Below(w, new) /\ Below(h, new)
  <2> HIDE DEF new
  <2>1. ASSUME NEW a \in Nat, a <= n, NEW j \in 1 .. Len(new)
        PROVE  a < new[j]
    BY <1>1, <1>2, <2>1
  <2>2. QED
    BY <1>4, <2>1 DEF Below, Ordered
<1>6. Channel!Increasing(w \o new)
  BY <1>1, <1>2, <1>3, <1>5, JoinInOrder DEF Ordered
<1>7. /\ w \o new \in Seq(Nat)
      /\ \A i \in 1 .. Len(w \o new) :
            \/ i \in 1 .. Len(w) /\ (w \o new)[i] = w[i]
            \/ i - Len(w) \in 1 .. Len(new) /\ (w \o new)[i] = new[i - Len(w)]
  BY <1>1, <1>2, JoinElements
<1> HIDE DEF new
<1>8. Below(h, w \o new)
  BY <1>5, <1>7 DEF Below, Ordered
<1>9. \A i \in 1 .. Len(w \o new) : (w \o new)[i] <= m
  BY <1>1, <1>2, <1>4, <1>7 DEF Ordered
<1>10. \A i \in 1 .. Len(h) : h[i] <= m
  BY <1>1, <1>4 DEF Ordered
<1>11. QED
  BY <1>1, <1>6, <1>7, <1>8, <1>9, <1>10 DEF Ordered, new

\* Losing cuts a piece out of the line.
LEMMA LoseInOrder ==
    ASSUME NEW h, NEW w, NEW n, Ordered(h, w, n),
           NEW i \in 1 .. Len(w), NEW j \in 1 .. Len(w), i <= j
    PROVE  Ordered(h, SubSeq(w, 1, i - 1) \o SubSeq(w, j + 1, Len(w)), n)
<1> DEFINE left  == SubSeq(w, 1, i - 1)
           right == SubSeq(w, j + 1, Len(w))
<1>1. n \in Nat /\ h \in Seq(Nat) /\ w \in Seq(Nat) /\ Len(w) \in Nat
  BY DEF Ordered
<1>2. /\ left \in Seq(Nat) /\ Len(left) = i - 1 /\ Channel!Increasing(left)
      /\ \A k \in 1 .. Len(left) : k \in 1 .. Len(w) /\ left[k] = w[k]
  <2>1. 1 \in Nat \ {0} /\ i - 1 \in 0 .. Len(w)
    BY <1>1
  <2>2. QED
    BY <1>1, <2>1, Piece, PieceInOrder DEF Ordered
<1>3. /\ right \in Seq(Nat) /\ Len(right) = Len(w) - j /\ Channel!Increasing(right)
      /\ \A k \in 1 .. Len(right) : k + j \in 1 .. Len(w) /\ right[k] = w[k + j]
  <2>1. j + 1 \in Nat \ {0} /\ Len(w) \in 0 .. Len(w)
    BY <1>1
  <2>2. QED
    BY <1>1, <2>1, Piece, PieceInOrder DEF Ordered
<1> HIDE DEF left, right
<1>4. Below(left, right)
  <2>1. SUFFICES ASSUME NEW k \in 1 .. Len(left), NEW l \in 1 .. Len(right)
                 PROVE  left[k] < right[l]
    BY DEF Below
  <2>2. k \in DOMAIN w /\ l + j \in DOMAIN w
    BY <1>1, <1>2, <1>3, LenProperties
  <2>3. k < l + j
    BY <1>1, <1>2, <1>3
  <2>4. QED
    BY <1>2, <1>3, <2>2, <2>3 DEF Ordered, Channel!Increasing
<1>5. Channel!Increasing(left \o right)
  BY <1>2, <1>3, <1>4, JoinInOrder
<1>6. /\ left \o right \in Seq(Nat)
      /\ \A k \in 1 .. Len(left \o right) :
            \E l \in 1 .. Len(w) : (left \o right)[k] = w[l]
  <2>1. /\ left \o right \in Seq(Nat)
        /\ \A k \in 1 .. Len(left \o right) :
              \/ k \in 1 .. Len(left) /\ (left \o right)[k] = left[k]
              \/ k - Len(left) \in 1 .. Len(right)
                    /\ (left \o right)[k] = right[k - Len(left)]
    BY <1>2, <1>3, JoinElements
  <2>2. QED
    BY <1>2, <1>3, <2>1
<1>7. QED
  BY <1>5, <1>6 DEF Ordered, Below, left, right

\* Starting moves the head of the line to what is heard.
LEMMA StartInOrder ==
    ASSUME NEW h, NEW w, NEW n, Ordered(h, w, n), NEW i \in 1 .. Len(w)
    PROVE  Ordered(h \o SubSeq(w, 1, i), SubSeq(w, i + 1, Len(w)), n)
<1> DEFINE left  == SubSeq(w, 1, i)
           right == SubSeq(w, i + 1, Len(w))
<1>1. n \in Nat /\ h \in Seq(Nat) /\ w \in Seq(Nat) /\ Len(w) \in Nat
  BY DEF Ordered
<1>2. /\ left \in Seq(Nat) /\ Len(left) = i /\ Channel!Increasing(left)
      /\ \A k \in 1 .. Len(left) : k \in 1 .. Len(w) /\ left[k] = w[k]
  <2>1. 1 \in Nat \ {0} /\ i \in 0 .. Len(w)
    BY <1>1
  <2>2. QED
    BY <1>1, <2>1, Piece, PieceInOrder DEF Ordered
<1>3. /\ right \in Seq(Nat) /\ Channel!Increasing(right)
      /\ \A k \in 1 .. Len(right) : k + i \in 1 .. Len(w) /\ right[k] = w[k + i]
  <2>1. i + 1 \in Nat \ {0} /\ Len(w) \in 0 .. Len(w)
    BY <1>1
  <2>2. QED
    BY <1>1, <2>1, Piece, PieceInOrder DEF Ordered
<1> HIDE DEF left, right
<1>4. Below(h, left) /\ Below(h, right)
  BY <1>2, <1>3 DEF Below, Ordered
<1>5. Below(left, right)
  <2>1. SUFFICES ASSUME NEW k \in 1 .. Len(left), NEW l \in 1 .. Len(right)
                 PROVE  left[k] < right[l]
    BY DEF Below
  <2>2. k \in DOMAIN w /\ l + i \in DOMAIN w
    BY <1>1, <1>2, <1>3, LenProperties
  <2>3. k < l + i
    BY <1>1, <1>2, <1>3
  <2>4. QED
    BY <1>2, <1>3, <2>2, <2>3 DEF Ordered, Channel!Increasing
<1>6. Channel!Increasing(h \o left)
  BY <1>1, <1>2, <1>4, JoinInOrder DEF Ordered
<1>7. /\ h \o left \in Seq(Nat)
      /\ \A k \in 1 .. Len(h \o left) :
            \/ k \in 1 .. Len(h) /\ (h \o left)[k] = h[k]
            \/ k - Len(h) \in 1 .. Len(left) /\ (h \o left)[k] = left[k - Len(h)]
  BY <1>1, <1>2, JoinElements
<1>8. Below(h \o left, right)
  BY <1>4, <1>5, <1>7 DEF Below
<1>9. /\ \A k \in 1 .. Len(h \o left) : (h \o left)[k] <= n
      /\ \A k \in 1 .. Len(right) : right[k] <= n
  BY <1>2, <1>3, <1>7 DEF Ordered
<1>10. QED
  BY <1>1, <1>3, <1>6, <1>7, <1>8, <1>9 DEF Ordered, left, right

\* What a step of the channel may do with what was heard, what waits and what was said.
LineStep(h, w, n, h1, w1, n1) ==
    \/ h1 = h /\ n1 \in Nat /\ n1 > n /\ w1 = w \o [i \in 1 .. (n1 - n) |-> n + i]
    \/ /\ h1 = h /\ n1 = n
       /\ \E i, j \in DOMAIN w : i <= j /\ w1 = SubSeq(w, 1, i - 1) \o SubSeq(w, j + 1, Len(w))
    \/ h1 = h /\ n1 = n /\ w1 \in {<<>>, w}
    \/ /\ n1 = n
       /\ \E i \in DOMAIN w : h1 = h \o SubSeq(w, 1, i) /\ w1 = SubSeq(w, i + 1, Len(w))

\* An empty sequence is in order, and behind any other.
LEMMA NothingIsInOrder ==
    /\ <<>> \in Seq(Nat) /\ Len(<<>>) = 0 /\ Channel!Increasing(<<>>)
    /\ \A h : Below(h, <<>>)
    /\ \A n : \A i \in 1 .. Len(<<>>) : <<>>[i] <= n
<1>1. <<>> \in Seq(Nat) /\ Len(<<>>) = 0 /\ DOMAIN <<>> = {} /\ 1 .. Len(<<>>) = {}
  BY EmptySeq
<1> QED
  BY <1>1 DEF Channel!Increasing, Below

\* Each of them keeps the line in order.
LEMMA LineStepInOrder ==
    ASSUME NEW h, NEW w, NEW n, NEW h1, NEW w1, NEW n1,
           Ordered(h, w, n), LineStep(h, w, n, h1, w1, n1)
    PROVE  Ordered(h1, w1, n1)
<1>1. DOMAIN w = 1 .. Len(w)
  BY LenProperties DEF Ordered
<1>2. CASE h1 = h /\ n1 \in Nat /\ n1 > n /\ w1 = w \o [i \in 1 .. (n1 - n) |-> n + i]
  BY <1>2, SayInOrder
<1>3. CASE /\ h1 = h /\ n1 = n
           /\ \E i, j \in DOMAIN w : i <= j /\ w1 = SubSeq(w, 1, i - 1) \o SubSeq(w, j + 1, Len(w))
  BY <1>1, <1>3, LoseInOrder
<1>4. CASE h1 = h /\ n1 = n /\ w1 \in {<<>>, w}
  <2>1. CASE w1 = w
    BY <1>4, <2>1
  <2>2. CASE w1 = <<>>
    BY <1>4, <2>2, NothingIsInOrder DEF Ordered
  <2> QED
    BY <1>4, <2>1, <2>2
<1>5. CASE /\ n1 = n
           /\ \E i \in DOMAIN w : h1 = h \o SubSeq(w, 1, i) /\ w1 = SubSeq(w, i + 1, Len(w))
  BY <1>1, <1>5, StartInOrder
<1> QED
  BY <1>2, <1>3, <1>4, <1>5 DEF LineStep

\* The steps of SpeechChannel are such steps.
LEMMA ChannelStep ==
    ASSUME [Channel!Next]_(Channel!channelVars)
    PROVE  LineStep(Loudspeaker, Waiting, said, Loudspeaker', Waiting', said')
<1>1. CASE Channel!Say
  BY <1>1 DEF Channel!Say, LineStep, Loudspeaker
<1>2. CASE Channel!Lose
  BY <1>2 DEF Channel!Lose, LineStep, Loudspeaker
<1>3. CASE Channel!Preempt
  BY <1>3 DEF Channel!Preempt, LineStep, Loudspeaker
<1>4. CASE Channel!Start
  BY <1>4 DEF Channel!Start, LineStep, Loudspeaker
<1>5. CASE Channel!Finish
  BY <1>5 DEF Channel!Finish, LineStep, Loudspeaker
<1>6. CASE UNCHANGED Channel!channelVars
  BY <1>6 DEF Channel!channelVars, LineStep, Loudspeaker
<1> QED
  BY <1>1, <1>2, <1>3, <1>4, <1>5, <1>6 DEF Channel!Next

\* An empty line is in order.
LEMMA ChannelBegins == Channel!Init => Ordered(Loudspeaker, Waiting, said)
<1> SUFFICES ASSUME Channel!Init PROVE Ordered(Loudspeaker, Waiting, said)
  OBVIOUS
<1>1. said = 0 /\ Waiting = <<>> /\ Loudspeaker = <<>>
  BY DEF Channel!Init, Loudspeaker
<1> QED
  BY <1>1, NothingIsInOrder DEF Ordered

\* What is in order is what SpeechChannel calls so.
LEMMA OrderedIsInOrder == Ordered(Loudspeaker, Waiting, said) => Channel!InOrder
<1>1. ASSUME NEW s \in Seq(Nat) PROVE DOMAIN s = 1 .. Len(s)
  BY LenProperties
<1> QED
  BY <1>1 DEF Ordered, Below, Channel!InOrder, Loudspeaker

\* Whatever implements SpeechChannel speaks the sentences in the order they were said and none
\* of them twice.
THEOREM ChannelSpeaksInOrder == Channel!Spec => []Channel!InOrder
<1>1. /\ Ordered(Loudspeaker, Waiting, said)
      /\ [Channel!Next]_(Channel!channelVars)
      => Ordered(Loudspeaker, Waiting, said)'
  BY ChannelStep, LineStepInOrder
<1> QED
  BY <1>1, ChannelBegins, OrderedIsInOrder, PTL DEF Channel!Spec

\* TtsWorker is heard in order: through both queues, both threads, every preemption and every
\* failure, no sentence overtakes another and none is heard a second time.
THEOREM TtsSpeaksInOrder == Spec => []Channel!InOrder
BY TtsImplementsChannel, ChannelSpeaksInOrder, PTL DEF ImplementsChannel

-----------------------------------------------------------------------------
(* The models: the two that synthesise the sentences of this worker, and, on *)
(* the same processor, those of the vision slots, for any number of inference *)
(* threads, frames, sentences and failures.                                  *)

VoiceModels == {"encoder", "decoder"}

NpuTypes ==
    /\ opened \in [Models -> Int]
    /\ context \in [Models -> [in : Nat, out : Nat]]
    /\ lent \in [Models -> Int]

\* The slots and the voice have models of their own.
LEMMA OwnModels ==
    /\ Slots \subseteq Models /\ VoiceModels \subseteq Models
    /\ Slots \cap VoiceModels = {}
    /\ "encoder" \in Models /\ "decoder" \in Models
BY ModelsAssumption DEF Slots, VoiceModels

\* A call of the runtime keeps the types and touches one model.
LEMMA CallsOfOneModel ==
    ASSUME NpuTypes, NEW m \in Models, NEW x \in Nat, NEW n \in Int,
           \/ SetInputs(m, x) \/ RunContext(m) \/ Lend(m) \/ TakeBack(m, n)
    PROVE  /\ NpuTypes'
           /\ opened' = opened
           /\ \A k \in Models \ {m} : context'[k] = context[k] /\ lent'[k] = lent[k]
<1>1. CASE SetInputs(m, x)
  BY <1>1 DEF SetInputs, NpuTypes
<1>2. CASE RunContext(m)
  BY <1>2 DEF RunContext, NpuTypes
<1>3. CASE Lend(m)
  BY <1>3 DEF Lend, NpuTypes
<1>4. CASE TakeBack(m, n)
  BY <1>4 DEF TakeBack, NpuTypes
<1> QED
  BY <1>1, <1>2, <1>3, <1>4

\* What each call does to its model.
LEMMA CallDoes ==
    ASSUME NpuTypes, NEW m \in Models, NEW x \in Nat, NEW n \in Int
    PROVE  /\ SetInputs(m, x) => context'[m].in = x /\ context'[m].out = context[m].out /\ lent' = lent
           /\ RunContext(m) => /\ context'[m].in = context[m].in /\ context'[m].out = context[m].in
                               /\ lent' = lent
           /\ Lend(m) => context' = context /\ lent'[m] = lent[m] + 1
           /\ TakeBack(m, n) => context' = context /\ lent'[m] = lent[m] - n
BY DEF SetInputs, RunContext, Lend, TakeBack, NpuTypes

-----------------------------------------------------------------------------
(* The voice *)

VoicePlaces == {"idle", "encoder_set", "encoder_run", "encoder_get", "encoder_out", "shapes",
                "decoder_set", "decoder_run", "decoder_get", "decoder_out"}

VoiceTypes ==
    /\ ready \in BOOLEAN /\ inits \in Nat
    /\ voice \in VoicePlaces
    /\ sentence \in Nat /\ hidden \in Nat /\ output_data \in Nat
    /\ sounds \in Seq([of : Nat, made : Nat])

\* What is open and what is lent of the two models.
VoiceCounts ==
    /\ opened["encoder"] >= 0 /\ opened["decoder"] >= 0
    /\ opened["encoder"] + opened["decoder"] <= inits + (IF ready THEN 1 ELSE 0)
    /\ ready => opened["encoder"] > 0 /\ opened["decoder"] > 0
    /\ voice # "idle" => ready
    /\ lent["encoder"] = IF voice = "encoder_out" THEN 1 ELSE 0
    /\ lent["decoder"] = IF voice = "decoder_out" THEN 1 ELSE 0

\* Where the sentence is, in the form it has there.
OnItsWay ==
    /\ voice = "encoder_run" => context["encoder"].in = sentence
    /\ voice = "encoder_get" => context["encoder"].out = sentence
    /\ voice \in {"encoder_out", "shapes", "decoder_set"} => hidden = sentence
    /\ voice = "decoder_run" => context["decoder"].in = sentence
    /\ voice = "decoder_get" => context["decoder"].out = sentence
    /\ voice = "decoder_out" => output_data = sentence

\* The sentence in work was not heard yet.
Heard ==
    \A k \in 1 .. Len(sounds) :
        /\ sounds[k].made = sounds[k].of
        /\ sounds[k].of <= sentence
        /\ voice # "idle" => sounds[k].of < sentence
        /\ k > 1 => sounds[k - 1].of < sounds[k].of

VoiceInv == VoiceTypes /\ VoiceCounts /\ OnItsWay /\ Heard

\* A call that fails, whatever the stage.
LEMMA FailsKeeps ==
    ASSUME NpuTypes, VoiceInv, voice \notin {"encoder_out", "decoder_out"},
           Fails, UNCHANGED <<ready, inits, sentence, sounds>>
    PROVE  NpuTypes' /\ VoiceInv'
<1>1. /\ voice' = "idle" /\ hidden' = 0 /\ output_data' = 0
      /\ opened' = opened /\ context' = context /\ lent' = lent
      /\ ready' = ready /\ inits' = inits /\ sentence' = sentence /\ sounds' = sounds
  BY DEF Fails, Ends, rknnVars
<1>2. NpuTypes'
  BY <1>1 DEF NpuTypes
<1>3. VoiceTypes' /\ OnItsWay'
  BY <1>1 DEF VoiceInv, VoiceTypes, VoicePlaces, OnItsWay
<1>4. VoiceCounts'
  BY <1>1 DEF VoiceInv, VoiceCounts
<1>5. Heard'
  BY <1>1 DEF VoiceInv, Heard
<1> QED
  BY <1>2, <1>3, <1>4, <1>5 DEF VoiceInv

\* A stage that leaves the sounds and the contexts' number alone.
LEMMA StageKeeps ==
    ASSUME NpuTypes, VoiceInv, voice # "idle", voice' # "idle",
           voice' \in VoicePlaces, hidden' \in Nat, output_data' \in Nat,
           NpuTypes', opened' = opened, OnItsWay',
           UNCHANGED <<ready, inits, sentence, sounds>>,
           lent'["encoder"] = IF voice' = "encoder_out" THEN 1 ELSE 0,
           lent'["decoder"] = IF voice' = "decoder_out" THEN 1 ELSE 0
    PROVE  VoiceInv'
<1>1. VoiceTypes' /\ Heard'
  BY DEF VoiceInv, VoiceTypes, Heard
<1>2. VoiceCounts'
  BY DEF VoiceInv, VoiceCounts
<1> QED
  BY <1>1, <1>2 DEF VoiceInv

\* Every stage of a sentence.
LEMMA StagesKeep ==
    ASSUME NpuTypes, VoiceInv,
           \/ EncoderSet \/ EncoderRun \/ EncoderGet \/ EncoderOut
           \/ DecoderShapes \/ DecoderSet \/ DecoderRun \/ DecoderGet
    PROVE  NpuTypes' /\ VoiceInv'
<1> DEFINE Stays == UNCHANGED <<ready, inits, sentence, sounds>>
<1>0. /\ sentence \in Nat /\ hidden \in Nat /\ output_data \in Nat
      /\ 1 \in Int /\ "encoder" \in Models /\ "decoder" \in Models
      /\ context["encoder"].out \in Nat /\ context["decoder"].out \in Nat
      /\ lent["encoder"] = (IF voice = "encoder_out" THEN 1 ELSE 0)
      /\ lent["decoder"] = (IF voice = "decoder_out" THEN 1 ELSE 0)
  BY OwnModels DEF VoiceInv, VoiceTypes, VoiceCounts, NpuTypes
<1>1. CASE EncoderSet
  <2>1. CASE Fails
    BY <1>1, <2>1, FailsKeeps DEF EncoderSet
  <2>2. CASE Continues("encoder_run") /\ SetInputs("encoder", sentence)
    <3>1. NpuTypes' /\ opened' = opened /\ lent' = lent /\ context'["encoder"].in = sentence
      BY <1>0, <2>2, CallsOfOneModel, CallDoes
    <3>2. OnItsWay'
      BY <1>1, <2>2, <3>1 DEF EncoderSet, Continues, OnItsWay
    <3> QED
      BY <1>0, <1>1, <2>2, <3>1, <3>2, StageKeeps DEF EncoderSet, Continues, VoicePlaces
  <2> QED
    BY <1>1, <2>1, <2>2 DEF EncoderSet
<1>2. CASE EncoderRun
  <2>1. CASE Fails
    BY <1>2, <2>1, FailsKeeps DEF EncoderRun
  <2>2. CASE Continues("encoder_get") /\ RunContext("encoder")
    <3>1. NpuTypes' /\ opened' = opened /\ lent' = lent /\ context'["encoder"].out = context["encoder"].in
      BY <1>0, <2>2, CallsOfOneModel, CallDoes
    <3>2. OnItsWay'
      BY <1>2, <2>2, <3>1 DEF EncoderRun, Continues, VoiceInv, OnItsWay
    <3> QED
      BY <1>0, <1>2, <2>2, <3>1, <3>2, StageKeeps DEF EncoderRun, Continues, VoicePlaces
  <2> QED
    BY <1>2, <2>1, <2>2 DEF EncoderRun
<1>3. CASE EncoderGet
  <2>1. CASE Fails
    BY <1>3, <2>1, FailsKeeps DEF EncoderGet
  <2>2. CASE /\ voice' = "encoder_out" /\ Lend("encoder")
             /\ hidden' = context["encoder"].out /\ UNCHANGED output_data
    <3>1. /\ NpuTypes' /\ opened' = opened /\ lent'["encoder"] = lent["encoder"] + 1
          /\ lent'["decoder"] = lent["decoder"]
      BY <1>0, <2>2, CallsOfOneModel, CallDoes
    <3>2. OnItsWay'
      BY <1>3, <2>2, <3>1 DEF EncoderGet, VoiceInv, OnItsWay
    <3> QED
      BY <1>0, <1>3, <2>2, <3>1, <3>2, StageKeeps DEF EncoderGet, VoicePlaces
  <2> QED
    BY <1>3, <2>1, <2>2 DEF EncoderGet
<1>4. CASE EncoderOut
  <2>1. /\ NpuTypes' /\ opened' = opened /\ lent'["encoder"] = lent["encoder"] - 1
        /\ lent'["decoder"] = lent["decoder"]
    BY <1>0, <1>4, CallsOfOneModel, CallDoes DEF EncoderOut
  <2>2. OnItsWay'
    BY <1>4 DEF EncoderOut, Continues, VoiceInv, OnItsWay
  <2> QED
    BY <1>0, <1>4, <2>1, <2>2, StageKeeps DEF EncoderOut, Continues, VoicePlaces
<1>5. CASE DecoderShapes
  <2>1. CASE Fails
    BY <1>5, <2>1, FailsKeeps DEF DecoderShapes
  <2>2. CASE Continues("decoder_set") /\ UNCHANGED rknnVars
    <3>1. NpuTypes' /\ opened' = opened /\ lent' = lent
      BY <2>2 DEF NpuTypes, rknnVars
    <3>2. OnItsWay'
      BY <1>5, <2>2 DEF DecoderShapes, Continues, VoiceInv, OnItsWay
    <3> QED
      BY <1>0, <1>5, <2>2, <3>1, <3>2, StageKeeps DEF DecoderShapes, Continues, VoicePlaces
  <2> QED
    BY <1>5, <2>1, <2>2 DEF DecoderShapes
<1>6. CASE DecoderSet
  <2>1. CASE Fails
    BY <1>6, <2>1, FailsKeeps DEF DecoderSet
  <2>2. CASE Continues("decoder_run") /\ SetInputs("decoder", hidden)
    <3>1. NpuTypes' /\ opened' = opened /\ lent' = lent /\ context'["decoder"].in = hidden
      BY <1>0, <2>2, CallsOfOneModel, CallDoes
    <3>2. OnItsWay'
      BY <1>6, <2>2, <3>1 DEF DecoderSet, Continues, VoiceInv, OnItsWay
    <3> QED
      BY <1>0, <1>6, <2>2, <3>1, <3>2, StageKeeps DEF DecoderSet, Continues, VoicePlaces
  <2> QED
    BY <1>6, <2>1, <2>2 DEF DecoderSet
<1>7. CASE DecoderRun
  <2>1. CASE Fails
    BY <1>7, <2>1, FailsKeeps DEF DecoderRun
  <2>2. CASE Continues("decoder_get") /\ RunContext("decoder")
    <3>1. NpuTypes' /\ opened' = opened /\ lent' = lent /\ context'["decoder"].out = context["decoder"].in
      BY <1>0, <2>2, CallsOfOneModel, CallDoes
    <3>2. OnItsWay'
      BY <1>7, <2>2, <3>1 DEF DecoderRun, Continues, VoiceInv, OnItsWay
    <3> QED
      BY <1>0, <1>7, <2>2, <3>1, <3>2, StageKeeps DEF DecoderRun, Continues, VoicePlaces
  <2> QED
    BY <1>7, <2>1, <2>2 DEF DecoderRun
<1>8. CASE DecoderGet
  <2>1. CASE Fails
    BY <1>8, <2>1, FailsKeeps DEF DecoderGet
  <2>2. CASE /\ voice' = "decoder_out" /\ Lend("decoder")
             /\ output_data' = context["decoder"].out /\ UNCHANGED hidden
    <3>1. /\ NpuTypes' /\ opened' = opened /\ lent'["decoder"] = lent["decoder"] + 1
          /\ lent'["encoder"] = lent["encoder"]
      BY <1>0, <2>2, CallsOfOneModel, CallDoes
    <3>2. OnItsWay'
      BY <1>8, <2>2, <3>1 DEF DecoderGet, VoiceInv, OnItsWay
    <3> QED
      BY <1>0, <1>8, <2>2, <3>1, <3>2, StageKeeps DEF DecoderGet, VoicePlaces
  <2> QED
    BY <1>8, <2>1, <2>2 DEF DecoderGet
<1> QED
  BY <1>1, <1>2, <1>3, <1>4, <1>5, <1>6, <1>7, <1>8

\* The sound is the sentence's own, and it is the last.
LEMMA EmitKeeps ==
    ASSUME NpuTypes, VoiceInv, EmitSound
    PROVE  NpuTypes' /\ VoiceInv'
<1>1. /\ NpuTypes' /\ opened' = opened /\ lent'["decoder"] = lent["decoder"] - 1
      /\ lent'["encoder"] = lent["encoder"]
  BY OwnModels, CallsOfOneModel, CallDoes DEF EmitSound
<1>2. /\ voice = "decoder_out" /\ voice' = "idle" /\ hidden' = 0 /\ output_data' = 0
      /\ ready' = ready /\ inits' = inits /\ sentence' = sentence
  BY DEF EmitSound, Ends
<1>3. VoiceCounts'
  BY <1>1, <1>2 DEF VoiceInv, VoiceCounts
<1>4. OnItsWay'
  BY <1>2 DEF OnItsWay
<1>5. sounds' \in Seq([of : Nat, made : Nat]) /\ Heard'
  <2>1. CASE sounds' = sounds
    BY <1>2, <2>1 DEF VoiceInv, VoiceTypes, Heard
  <2>2. CASE sounds' = Append(sounds, [of |-> sentence, made |-> output_data])
    <3> DEFINE new == [of |-> sentence, made |-> output_data]
    <3>1. new \in [of : Nat, made : Nat] /\ new.of = sentence /\ new.made = sentence
      BY <1>2 DEF VoiceInv, VoiceTypes, OnItsWay
    <3>2. sounds \in Seq([of : Nat, made : Nat]) /\ sentence \in Nat
      BY DEF VoiceInv, VoiceTypes
    <3> HIDE DEF new
    <3>3. /\ sounds' \in Seq([of : Nat, made : Nat]) /\ Len(sounds') = Len(sounds) + 1
          /\ \A k \in 1 .. Len(sounds) : sounds'[k] = sounds[k]
          /\ sounds'[Len(sounds) + 1] = new
      BY <2>2, <3>1, <3>2, AppendProperties DEF new
    <3>4. ASSUME NEW k \in 1 .. Len(sounds')
          PROVE  /\ sounds'[k].made = sounds'[k].of
                 /\ sounds'[k].of <= sentence
                 /\ k > 1 => sounds'[k - 1].of < sounds'[k].of
      <4>1. Len(sounds) \in Nat /\ \A j \in 1 .. Len(sounds) : sounds[j].of < sentence
        BY <1>2, <3>2 DEF VoiceInv, Heard
      <4>2. CASE k \in 1 .. Len(sounds)
        <5>1. k > 1 => k - 1 \in 1 .. Len(sounds)
          BY <4>1, <4>2
        <5> QED
          BY <3>3, <4>2, <5>1 DEF VoiceInv, Heard
      <4>3. CASE k = Len(sounds) + 1
        <5>1. k > 1 => k - 1 \in 1 .. Len(sounds)
          BY <4>1, <4>3
        <5>2. k > 1 => sounds'[k - 1].of < sentence
          BY <3>3, <4>1, <5>1
        <5> QED
          BY <3>1, <3>2, <3>3, <4>3, <5>2
      <4> QED
        BY <3>3, <4>1, <4>2, <4>3
    <3> QED
      BY <1>2, <3>3, <3>4 DEF Heard
  <2> QED
    BY <2>1, <2>2 DEF EmitSound
<1>6. VoiceTypes'
  BY <1>2, <1>5 DEF VoiceInv, VoiceTypes, VoicePlaces
<1> QED
  BY <1>1, <1>3, <1>4, <1>5, <1>6 DEF VoiceInv

\* What an Init of the voice may open.
LEMMA InitVoiceOpens ==
    ASSUME NEW encoder \in InitMelottsModel, NEW decoder \in InitMelottsModel, NEW m \in Models
    PROVE  LET n == InitVoice(encoder, decoder)
           IN  /\ n[m] \in {0, 1}
               /\ m \notin VoiceModels => n[m] = 0
               /\ IF encoder = "loaded" /\ decoder = "loaded"
                  THEN n["encoder"] = 1 /\ n["decoder"] = 1
                  ELSE n["encoder"] + n["decoder"] <= 1
BY OwnModels DEF InitVoice, LeavesOpen, InitMelottsModel, VoiceModels

\* Loading and unloading.
LEMMA SessionKeeps ==
    ASSUME NpuTypes, VoiceInv, InitSession \/ ShutdownSession
    PROVE  NpuTypes' /\ VoiceInv' /\ \A m \in Models \ VoiceModels : opened'[m] = opened[m]
<1>1. /\ UNCHANGED <<voice, sentence, hidden, output_data, sounds, context, lent>>
      /\ voice = "idle"
  BY DEF InitSession, ShutdownSession, Reopen, rknnVars, VoiceInv, VoiceCounts
<1>2. OnItsWay' /\ Heard'
  BY <1>1 DEF VoiceInv, OnItsWay, Heard
<1> DEFINE Opens ==
      /\ NpuTypes' /\ ready' \in BOOLEAN /\ inits' \in Nat
      /\ opened'["encoder"] >= 0 /\ opened'["decoder"] >= 0
      /\ opened'["encoder"] + opened'["decoder"] <= inits' + (IF ready' THEN 1 ELSE 0)
      /\ ready' => opened'["encoder"] > 0 /\ opened'["decoder"] > 0
      /\ \A m \in Models \ VoiceModels : opened'[m] = opened[m]
<1>3. Opens
  <2>1. /\ opened["encoder"] \in Int /\ opened["decoder"] \in Int /\ inits \in Nat
        /\ opened["encoder"] >= 0 /\ opened["decoder"] >= 0
    BY OwnModels DEF NpuTypes, VoiceInv, VoiceTypes, VoiceCounts
  <2>2. CASE ShutdownSession
    <3>1. /\ opened' = [m \in Models |-> IF m \in VoiceModels THEN opened[m] - 1 ELSE opened[m]]
          /\ context' = context /\ lent' = lent /\ inits' = inits
      BY <2>2 DEF ShutdownSession, VoiceModels
    <3>2. /\ NpuTypes' /\ \A m \in Models \ VoiceModels : opened'[m] = opened[m]
          /\ opened'["encoder"] = opened["encoder"] - 1
          /\ opened'["decoder"] = opened["decoder"] - 1
      BY <3>1, OwnModels DEF NpuTypes, VoiceModels
    <3>3. ready /\ ready' = FALSE
      BY <2>2 DEF ShutdownSession
    <3>4. /\ opened["encoder"] + opened["decoder"] <= inits + 1
          /\ opened["encoder"] > 0 /\ opened["decoder"] > 0
      BY <3>3 DEF VoiceInv, VoiceCounts
    <3>5. /\ opened'["encoder"] >= 0 /\ opened'["decoder"] >= 0
          /\ opened'["encoder"] + opened'["decoder"] <= inits' + 0
      BY <2>1, <3>1, <3>2, <3>4
    <3> QED
      BY <2>1, <3>1, <3>2, <3>3, <3>5
  <2>3. CASE InitSession
    <3>1. inits' = inits + 1 /\ ready = FALSE
      BY <2>3, Zenon DEF InitSession, VoiceInv, VoiceTypes
    <3>2. opened["encoder"] + opened["decoder"] <= inits
      BY <2>1, <3>1 DEF VoiceInv, VoiceCounts
    <3>3. CASE UNCHANGED <<ready, rknnVars>>
      <4>1. opened' = opened /\ NpuTypes' /\ ready' = FALSE
        BY <3>1, <3>3 DEF NpuTypes, rknnVars
      <4>2. opened'["encoder"] + opened'["decoder"] <= inits' + 0 /\ inits' \in Nat
        BY <2>1, <3>1, <3>2, <4>1
      <4> QED
        BY <2>1, <4>1, <4>2
    <3>4. ASSUME NEW encoder \in InitMelottsModel, NEW decoder \in InitMelottsModel,
                 Reopen(InitVoice(encoder, decoder)),
                 ready' = (encoder = "loaded" /\ decoder = "loaded")
          PROVE  Opens
      <4> DEFINE n == InitVoice(encoder, decoder)
      <4>1. /\ \A m \in Models : n[m] \in {0, 1} /\ (m \notin VoiceModels => n[m] = 0)
            /\ IF encoder = "loaded" /\ decoder = "loaded"
               THEN n["encoder"] = 1 /\ n["decoder"] = 1
               ELSE n["encoder"] + n["decoder"] <= 1
        BY InitVoiceOpens, OwnModels
      <4>2. opened' = [m \in Models |-> opened[m] + n[m]] /\ context' = context /\ lent' = lent
        BY <3>4 DEF Reopen
      <4> HIDE DEF n
      <4>3. NpuTypes' /\ \A m \in Models \ VoiceModels : opened'[m] = opened[m]
        <5>1. \A m \in Models : opened[m] \in Int
          BY DEF NpuTypes
        <5>2. ASSUME NEW m \in Models PROVE n[m] \in Int
          <6>1. n[m] \in {0, 1}
            BY <4>1, Zenon
          <6> QED
            BY <6>1
        <5>3. opened' \in [Models -> Int] /\ \A m \in Models \ VoiceModels : opened'[m] = opened[m]
          BY <4>1, <4>2, <5>1, <5>2
        <5> QED
          BY <4>2, <5>3 DEF NpuTypes
      <4>4. /\ opened'["encoder"] = opened["encoder"] + n["encoder"]
            /\ opened'["decoder"] = opened["decoder"] + n["decoder"]
            /\ n["encoder"] \in {0, 1} /\ n["decoder"] \in {0, 1}
        BY <4>1, <4>2, OwnModels
      <4>5. CASE encoder = "loaded" /\ decoder = "loaded"
        <5>1. ready' = TRUE /\ n["encoder"] = 1 /\ n["decoder"] = 1
          BY <3>4, <4>1, <4>5
        <5>2. /\ opened'["encoder"] > 0 /\ opened'["decoder"] > 0 /\ inits' \in Nat
              /\ opened'["encoder"] >= 0 /\ opened'["decoder"] >= 0
              /\ opened'["encoder"] + opened'["decoder"] <= inits' + 1
          BY <2>1, <3>1, <3>2, <4>4, <5>1
        <5> QED
          BY <4>3, <5>1, <5>2
      <4>6. CASE ~(encoder = "loaded" /\ decoder = "loaded")
        <5>1. ready' = FALSE /\ n["encoder"] + n["decoder"] <= 1
          BY <3>4, <4>1, <4>6
        <5>2. /\ opened'["encoder"] >= 0 /\ opened'["decoder"] >= 0 /\ inits' \in Nat
              /\ opened'["encoder"] + opened'["decoder"] <= inits' + 0
          BY <2>1, <3>1, <3>2, <4>4, <5>1
        <5> QED
          BY <4>3, <5>1, <5>2
      <4> QED
        BY <4>5, <4>6
    <3> QED
      BY <2>3, <3>3, <3>4 DEF InitSession
  <2> QED
    BY <2>2, <2>3
<1>4. VoiceTypes' /\ VoiceCounts'
  BY <1>1, <1>3 DEF VoiceInv, VoiceTypes, VoiceCounts
<1> QED
  BY <1>2, <1>3, <1>4 DEF VoiceInv

\* The next sentence has a number of its own.
LEMMA NextSentenceKeeps ==
    ASSUME NpuTypes, VoiceInv, NextSentence
    PROVE  NpuTypes' /\ VoiceInv'
<1>1. /\ UNCHANGED <<ready, inits, hidden, output_data, sounds, opened, context, lent>>
      /\ voice = "idle" /\ voice' \in {"idle", "encoder_set"} /\ sentence' = sentence + 1 /\ ready
  BY DEF NextSentence, rknnVars
<1>2. NpuTypes' /\ VoiceTypes' /\ VoiceCounts' /\ OnItsWay'
  BY <1>1 DEF NpuTypes, VoiceInv, VoiceTypes, VoiceCounts, OnItsWay, VoicePlaces
<1>3. Heard'
  <2>1. sentence \in Nat /\ sounds' = sounds
        /\ \A k \in 1 .. Len(sounds) : sounds[k] \in [of : Nat, made : Nat]
    BY <1>1, ElementOfSeq DEF VoiceInv, VoiceTypes
  <2>2. \A k \in 1 .. Len(sounds) : sounds[k].of \in Nat
    BY <2>1
  <2> QED
    BY <1>1, <2>1, <2>2 DEF VoiceInv, Heard
<1> QED
  BY <1>2, <1>3 DEF VoiceInv

\* Every step of the voice, which leaves the slots' models alone.
LEMMA VoiceStep ==
    ASSUME NpuTypes, VoiceInv, MeloEngineNext
    PROVE  NpuTypes' /\ VoiceInv'
BY SessionKeeps, NextSentenceKeeps, StagesKeep, EmitKeeps DEF MeloEngineNext

\* The voice leaves the models of the slots alone.
LEMMA VoiceSparesSlots ==
    ASSUME NpuTypes, VoiceInv, MeloEngineNext
    PROVE  \A s \in Slots : opened'[s] = opened[s] /\ context'[s] = context[s] /\ lent'[s] = lent[s]
<1>1. CASE InitSession \/ ShutdownSession
  <2>1. context' = context /\ lent' = lent
    BY <1>1 DEF InitSession, ShutdownSession, Reopen, rknnVars
  <2> QED
    BY <1>1, <2>1, SessionKeeps, OwnModels
<1>2. ASSUME \/ UNCHANGED rknnVars
             \/ \E m \in VoiceModels, x \in Nat, n \in Int :
                   SetInputs(m, x) \/ RunContext(m) \/ Lend(m) \/ TakeBack(m, n)
      PROVE  \A s \in Slots : opened'[s] = opened[s] /\ context'[s] = context[s] /\ lent'[s] = lent[s]
  BY <1>2, CallsOfOneModel, OwnModels DEF rknnVars
<1>3. sentence \in Nat /\ hidden \in Nat /\ 1 \in Int /\ "encoder" \in VoiceModels /\ "decoder" \in VoiceModels
  BY DEF VoiceInv, VoiceTypes, VoiceModels
<1>4. CASE NextSentence \/ EncoderSet \/ EncoderRun \/ EncoderGet \/ EncoderOut
  BY <1>2, <1>3, <1>4 DEF NextSentence, EncoderSet, EncoderRun, EncoderGet, EncoderOut, Fails
<1>5. CASE DecoderShapes \/ DecoderSet \/ DecoderRun \/ DecoderGet \/ EmitSound
  BY <1>2, <1>3, <1>5 DEF DecoderShapes, DecoderSet, DecoderRun, DecoderGet, EmitSound, Fails
<1> QED
  BY <1>1, <1>4, <1>5 DEF MeloEngineNext

-----------------------------------------------------------------------------
(* The slots *)

Places == {"take", "preprocess", "set", "run", "get", "postprocess", "signals", "publish"}
Todos == {<<>>, <<"yolo">>, <<"scrfd">>, <<"yolo", "scrfd">>}
Text == [found : Nat, box : Nat]
Result == [slot : Slots, text : Text, signal : Nat]
ThreadState == [at : Places, frame : Nat, todo : Todos, output : Nat, text : Text, results : SUBSET Result]

SlotTypes ==
    /\ enabled \subseteq Slots /\ warm \subseteq Slots
    /\ adapter \in [Slots -> [input : Nat, box : Nat, found : Nat]]
    /\ next_frame \in Nat \ {0}
    /\ thread \in [Threads -> ThreadState]

Left(todo) == {todo[k] : k \in 1 .. Len(todo)}

\* A thread at work has a frame, slots to go whose models are loaded, and an output only where
\* it is read; what the next call is to work on is there, whoever of the threads has put it there.
AtWork(t) ==
    /\ t.at \in {"take", "publish"} <=> t.todo = <<>>
    /\ t.at # "take" => t.frame # 0
    /\ t.at # "postprocess" => t.output = 0
    /\ \A s \in Left(t.todo) : Loaded(s)
    /\ t.at = "set" => adapter[Head(t.todo)].input # 0
    /\ t.at = "run" => context[Head(t.todo)].in # 0
    /\ t.at = "get" => context[Head(t.todo)].out # 0

\* The threads that hold an output of s.
Holding(s) == {i \in Threads : thread[i].output # 0 /\ SlotOf(i) = s}

SlotCounts ==
    \A s \in Slots :
        /\ opened[s] = IF Loaded(s) THEN 1 ELSE 0
        /\ lent[s] = Cardinality(Holding(s))

SlotInv ==
    /\ SlotTypes
    /\ \A i \in Threads : AtWork(thread[i])
    /\ SlotCounts

\* The slots still to go, and those after the first.
LEMMA TodoRest ==
    ASSUME NEW todo \in Todos, todo # <<>>
    PROVE  /\ Head(todo) \in Slots /\ Tail(todo) \in Todos
           /\ Head(todo) \in Left(todo) /\ Left(Tail(todo)) \subseteq Left(todo)
           /\ Len(todo) = 1 <=> Tail(todo) = <<>>
<1> DEFINE one == <<"scrfd">>
<1>1. Left(<<>>) = {} /\ <<>> \in Todos /\ one \in Todos
  BY DEF Left, Todos
<1>2. one # <<>> /\ Left(one) = {"scrfd"}
  <2>1. Len(one) = 1 /\ one[1] = "scrfd"
    OBVIOUS
  <2> QED
    BY <2>1 DEF Left
<1>3. CASE todo = <<"yolo">>
  <2>1. Len(todo) = 1 /\ todo[1] = "yolo" /\ Head(todo) = "yolo" /\ Tail(todo) = <<>>
    BY <1>3
  <2>2. Left(todo) = {"yolo"}
    BY <2>1 DEF Left
  <2> QED
    BY <1>1, <2>1, <2>2, Zenon DEF Slots
<1>4. CASE todo = <<"scrfd">>
  <2>1. Len(todo) = 1 /\ todo[1] = "scrfd" /\ Head(todo) = "scrfd" /\ Tail(todo) = <<>>
    BY <1>4
  <2>2. Left(todo) = {"scrfd"}
    BY <2>1 DEF Left
  <2> QED
    BY <1>1, <2>1, <2>2, Zenon DEF Slots
<1>5. CASE todo = <<"yolo", "scrfd">>
  <2>1. /\ Len(todo) = 2 /\ todo[1] = "yolo" /\ todo[2] = "scrfd" /\ Head(todo) = "yolo"
        /\ Tail(todo) = one
    BY <1>5
  <2>2. Left(todo) = {"yolo", "scrfd"}
    BY <2>1 DEF Left
  <2>3. Len(todo) # 1
    BY <2>1
  <2> QED
    BY <1>1, <1>2, <2>1, <2>2, <2>3, Zenon DEF Slots
<1> QED
  BY <1>3, <1>4, <1>5 DEF Todos

\* What a move changes of the threads.
LEMMA Moves ==
    ASSUME SlotTypes, NEW i \in Threads, NEW t \in ThreadState, NEW at \in Places, Goes(i, at, t)
    PROVE  /\ thread' \in [Threads -> ThreadState]
           /\ thread'[i].at = at /\ thread'[i].frame = t.frame /\ thread'[i].todo = t.todo
           /\ thread'[i].output = t.output /\ thread'[i].text = t.text
           /\ thread'[i].results = t.results
           /\ \A j \in Threads \ {i} : thread'[j] = thread[j]
<1>1. [t EXCEPT !.at = at] \in ThreadState
  BY DEF ThreadState
<1>2. thread' = [thread EXCEPT ![i] = [t EXCEPT !.at = at]] /\ thread \in [Threads -> ThreadState]
  BY DEF Goes, SlotTypes
<1>3. thread'[i] = [t EXCEPT !.at = at] /\ \A j \in Threads \ {i} : thread'[j] = thread[j]
  BY <1>2
<1>4. thread' \in [Threads -> ThreadState]
  BY <1>1, <1>2
<1> QED
  BY <1>3, <1>4 DEF ThreadState

\* What a thread takes along to the next slot.
LEMMA RestOf ==
    ASSUME NEW t \in ThreadState, t.todo # <<>>
    PROVE  /\ Rest(t) \in ThreadState
           /\ Rest(t).frame = t.frame /\ Rest(t).todo = Tail(t.todo) /\ Rest(t).output = 0
           /\ Rest(t).results = t.results /\ Rest(t).text = [found |-> 0, box |-> 0]
           /\ After(t) \in Places
           /\ After(t) = IF Tail(t.todo) = <<>> THEN "publish" ELSE "preprocess"
<1>1. t.todo \in Todos
  BY DEF ThreadState
<1>2. Tail(t.todo) \in Todos /\ (Len(t.todo) = 1 <=> Tail(t.todo) = <<>>)
  BY <1>1, TodoRest
<1> DEFINE none == IdleThread.text
<1>3. none = [found |-> 0, box |-> 0] /\ none \in Text
  BY DEF IdleThread, Text
<1>4. Rest(t) = [t EXCEPT !.todo = Tail(t.todo), !.output = 0, !.text = none]
  BY DEF Rest
<1> HIDE DEF none
<1>5. Rest(t) \in ThreadState
  <2> DEFINE todo == Tail(t.todo)
  <2>1. todo \in Todos /\ none \in Text /\ 0 \in Nat
    BY <1>2, <1>3
  <2> HIDE DEF todo
  <2>2. [t EXCEPT !.todo = todo] \in ThreadState
    BY <2>1 DEF ThreadState
  <2>3. [t EXCEPT !.todo = todo, !.output = 0] \in ThreadState
    BY <2>1, <2>2 DEF ThreadState
  <2>4. [t EXCEPT !.todo = todo, !.output = 0, !.text = none] \in ThreadState
    BY <2>1, <2>3 DEF ThreadState
  <2> QED
    BY <1>4, <2>4 DEF todo
<1>6. /\ Rest(t).frame = t.frame /\ Rest(t).todo = Tail(t.todo) /\ Rest(t).output = 0
      /\ Rest(t).results = t.results /\ Rest(t).text = none
  BY <1>4 DEF ThreadState
<1> QED
  BY <1>2, <1>3, <1>5, <1>6 DEF After, Places

-----------------------------------------------------------------------------
\* Whatever one thread, the main thread or the voice does, no other thread loses what it is
\* going to work on.
NothingForgotten ==
    \A s \in Slots :
        /\ Loaded(s) => Loaded(s)'
        /\ Loaded(s) /\ adapter[s].input # 0 => adapter'[s].input # 0
        /\ context[s].in # 0 => context'[s].in # 0
        /\ context[s].out # 0 => context'[s].out # 0

\* The threads that do not move.
LEMMA OthersKeep ==
    ASSUME SlotTypes, NothingForgotten, NEW j \in Threads, AtWork(thread[j]), thread'[j] = thread[j]
    PROVE  AtWork(thread[j])'
<1> DEFINE t == thread[j]
<1>1. t \in ThreadState /\ t.todo \in Todos
  BY DEF SlotTypes, ThreadState
<1>2. \A s \in Left(t.todo) : s \in Slots
  BY <1>1 DEF Todos, Left, Slots
<1>3. t.todo # <<>> => Head(t.todo) \in Left(t.todo)
  BY <1>1, TodoRest
<1>4. t.at \in {"set", "run", "get"} => t.todo # <<>>
  BY DEF AtWork
<1> HIDE DEF t
<1> QED
  BY <1>2, <1>3, <1>4 DEF AtWork, NothingForgotten, t

\* A step that moves no thread.
LEMMA StillKeeps ==
    ASSUME SlotInv, SlotTypes', NothingForgotten, thread' = thread,
           \A s \in Slots : lent'[s] = lent[s] /\ opened'[s] = IF Loaded(s)' THEN 1 ELSE 0
    PROVE  SlotInv'
<1>1. \A i \in Threads : AtWork(thread[i])'
  BY OthersKeep DEF SlotInv
<1>2. \A s \in Slots : Holding(s)' = Holding(s)
  BY DEF Holding, SlotOf
<1> QED
  BY <1>1, <1>2 DEF SlotInv, SlotCounts

\* A step of thread i that neither takes nor gives back an output.
LEMMA QuietKeeps ==
    ASSUME SlotInv, SlotTypes', NothingForgotten, NEW i \in Threads, AtWork(thread[i])',
           thread[i].output = 0, thread'[i].output = 0,
           \A j \in Threads \ {i} : thread'[j] = thread[j],
           opened' = opened, lent' = lent, enabled' = enabled, warm' = warm
    PROVE  SlotInv'
<1>1. \A j \in Threads : AtWork(thread[j])'
  BY OthersKeep DEF SlotInv
<1>2. \A s \in Slots : Holding(s)' = Holding(s)
  BY DEF Holding, SlotOf
<1> QED
  BY <1>1, <1>2 DEF SlotInv, SlotCounts, Loaded

\* The voice moves no thread.
LEMMA VoiceKeepsSlots ==
    ASSUME NpuTypes, VoiceInv, SlotInv, MeloEngineNext, UNCHANGED slotAdapterVars
    PROVE  SlotInv'
<1>1. thread' = thread /\ enabled' = enabled /\ warm' = warm /\ adapter' = adapter /\ next_frame' = next_frame
  BY DEF slotAdapterVars, slotVars
<1>2. SlotTypes'
  BY <1>1 DEF SlotInv, SlotTypes
<1>3. NothingForgotten
  BY <1>1, VoiceSparesSlots DEF NothingForgotten, Loaded
<1> QED
  BY <1>1, <1>2, <1>3, StillKeeps, VoiceSparesSlots DEF SlotInv, SlotCounts, Loaded

\* A slot whose model is loaded has one context, whether it is enabled or put away; one that
\* could not be loaded has none.
LEMMA MainKeeps ==
    ASSUME NpuTypes, SlotInv, NEW s \in Slots, EnableSlot(s) \/ DisableSlot(s)
    PROVE  NpuTypes' /\ SlotInv'
<1>1. thread' = thread /\ next_frame' = next_frame /\ context' = context /\ lent' = lent
  BY DEF EnableSlot, DisableSlot, rknnVars, InitModel, Reopen
<1>2. CASE opened' = opened /\ adapter' = adapter /\ enabled' \cup warm' = enabled \cup warm
  <2>1. \A k \in Slots : Loaded(k)' <=> Loaded(k)
    BY <1>2 DEF Loaded
  <2>2. SlotTypes' /\ NpuTypes'
    BY <1>1, <1>2 DEF SlotInv, SlotTypes, NpuTypes
  <2>3. NothingForgotten
    BY <1>1, <1>2, <2>1 DEF NothingForgotten
  <2> QED
    BY <1>1, <1>2, <2>1, <2>2, <2>3, StillKeeps DEF SlotInv, SlotCounts
<1>3. ASSUME NEW ending \in Endings, ~Loaded(s), InitModel(s, ending), ending = "loaded",
             enabled' = enabled \cup {s}, warm' = warm,
             adapter' = [adapter EXCEPT ![s] = [input |-> 0, box |-> 0, found |-> 0]]
      PROVE  NpuTypes' /\ SlotInv'
  <2>1. opened' = [m \in Models |-> opened[m] + (IF m = s THEN 1 ELSE 0)]
    BY <1>3, OwnModels DEF InitModel, Reopen, Only
  <2>2. NpuTypes' /\ opened'[s] = opened[s] + 1 /\ \A k \in Slots \ {s} : opened'[k] = opened[k]
    BY <1>1, <2>1, OwnModels DEF NpuTypes
  <2>3. SlotTypes'
    BY <1>1, <1>3 DEF SlotInv, SlotTypes
  <2>4. Loaded(s)' /\ \A k \in Slots \ {s} : (Loaded(k)' <=> Loaded(k)) /\ adapter'[k] = adapter[k]
    BY <1>3 DEF Loaded, SlotInv, SlotTypes
  <2>5. NothingForgotten
    BY <1>1, <1>3, <2>4 DEF NothingForgotten
  <2>6. opened[s] = 0
    BY <1>3 DEF SlotInv, SlotCounts
  <2>7. opened'[s] = 1
    BY <2>2, <2>6
  <2>8. \A k \in Slots : opened'[k] = IF Loaded(k)' THEN 1 ELSE 0
    BY <2>2, <2>4, <2>7 DEF SlotInv, SlotCounts
  <2> QED
    BY <1>1, <2>2, <2>3, <2>5, <2>8, StillKeeps
<1>4. ASSUME NEW ending \in Endings, InitModel(s, ending), ending # "loaded"
      PROVE  opened' = opened
  <2>1. opened' = [m \in Models |-> opened[m] + 0]
    BY <1>4 DEF InitModel, Reopen, Only
  <2> QED
    BY <2>1 DEF NpuTypes
<1>5. CASE DisableSlot(s)
  BY <1>2, <1>5 DEF DisableSlot, rknnVars
<1>6. CASE EnableSlot(s)
  <2>1. CASE s \in warm /\ warm' = warm \ {s} /\ enabled' = enabled \cup {s}
             /\ UNCHANGED <<failed, adapter, rknnVars>>
    BY <1>2, <2>1 DEF rknnVars
  <2>2. ASSUME ~Loaded(s), warm' = warm, NEW ending \in Endings, InitModel(s, ending),
               IF ending = "loaded"
               THEN /\ enabled' = enabled \cup {s} /\ UNCHANGED failed
                    /\ adapter' = [adapter EXCEPT ![s] = [input |-> 0, box |-> 0, found |-> 0]]
               ELSE failed' = [failed EXCEPT ![s] = @ + 1] /\ UNCHANGED <<enabled, adapter>>
        PROVE  NpuTypes' /\ SlotInv'
    <3>1. CASE ending = "loaded"
      BY <1>3, <2>2, <3>1
    <3>2. CASE ending # "loaded"
      BY <1>2, <1>4, <2>2, <3>2
    <3> QED
      BY <3>1, <3>2
  <2> QED
    BY <1>6, <2>1, <2>2 DEF EnableSlot
<1> QED
  BY <1>5, <1>6

-----------------------------------------------------------------------------
\* The slots a thread is given are enabled.
LEMMA GivenSlots ==
    ASSUME enabled \subseteq Slots
    PROVE  OrderedSlots \in Todos /\ Left(OrderedSlots) \subseteq enabled
<1> DEFINE first == IF "yolo" \in enabled THEN <<"yolo">> ELSE <<>>
           second == IF "scrfd" \in enabled THEN <<"scrfd">> ELSE <<>>
<1>1. OrderedSlots = first \o second
  BY DEF OrderedSlots
<1>2. CASE "yolo" \in enabled /\ "scrfd" \in enabled
  <2>1. OrderedSlots = <<"yolo", "scrfd">>
    <3> DEFINE s == <<"yolo">>
               t == <<"scrfd">>
               two == <<"yolo", "scrfd">>
    <3>1. s \in Seq(Slots) /\ t \in Seq(Slots) /\ Len(s) = 1 /\ Len(t) = 1
      BY DEF Slots
    <3>2. two \in Seq(Slots) /\ Len(two) = 2
      BY DEF Slots
    <3>3. two[1] = s[1] /\ two[2] = t[1]
      OBVIOUS
    <3> HIDE DEF s, t, two
    <3>4. /\ s \o t \in Seq(Slots) /\ Len(s \o t) = 2
          /\ (s \o t)[1] = s[1] /\ (s \o t)[2] = t[1]
      BY <3>1, ConcatProperties
    <3>5. \A k \in 1 .. 2 : (s \o t)[k] = two[k]
      BY <3>3, <3>4
    <3>6. s \o t = two
      BY <3>2, <3>4, <3>5, SeqEqual
    <3> QED
      BY <1>1, <1>2, <3>6 DEF s, t, two
  <2>2. Left(<<"yolo", "scrfd">>) = {"yolo", "scrfd"}
    <3>1. Len(<<"yolo", "scrfd">>) = 2 /\ <<"yolo", "scrfd">>[1] = "yolo" /\ <<"yolo", "scrfd">>[2] = "scrfd"
      OBVIOUS
    <3> QED
      BY <3>1 DEF Left
  <2> QED
    BY <1>2, <2>1, <2>2, Zenon DEF Todos
<1>3. CASE "yolo" \in enabled /\ "scrfd" \notin enabled
  <2>1. OrderedSlots = <<"yolo">>
    BY <1>1, <1>3
  <2>2. Left(<<"yolo">>) = {"yolo"}
    BY DEF Left
  <2> QED
    BY <1>3, <2>1, <2>2, Zenon DEF Todos
<1>4. CASE "yolo" \notin enabled /\ "scrfd" \in enabled
  <2>1. OrderedSlots = <<"scrfd">>
    BY <1>1, <1>4
  <2>2. Left(<<"scrfd">>) = {"scrfd"}
    BY DEF Left
  <2> QED
    BY <1>4, <2>1, <2>2, Zenon DEF Todos
<1>5. CASE "yolo" \notin enabled /\ "scrfd" \notin enabled
  <2>1. OrderedSlots = <<>>
    BY <1>1, <1>5
  <2>2. Left(<<>>) = {}
    BY DEF Left
  <2> QED
    BY <2>1, <2>2, Zenon DEF Todos
<1> QED
  BY <1>2, <1>3, <1>4, <1>5

\* A thread that is done with a slot.
LEMMA GoesOn ==
    ASSUME SlotInv, NEW i \in Threads, thread[i].todo # <<>>, thread[i].output = 0,
           NEW t \in ThreadState, t.frame = thread[i].frame, t.todo = Tail(thread[i].todo), t.output = 0,
           Goes(i, After(thread[i]), t), UNCHANGED <<slotVars, adapter, next_frame, rknnVars>>
    PROVE  SlotInv'
<1>1. SlotTypes /\ thread[i] \in ThreadState /\ AtWork(thread[i]) /\ thread[i].todo \in Todos
  BY DEF SlotInv, SlotTypes, ThreadState
<1>2. /\ After(thread[i]) \in Places
      /\ After(thread[i]) = IF Tail(thread[i].todo) = <<>> THEN "publish" ELSE "preprocess"
  BY <1>1, RestOf
<1>3. /\ thread' \in [Threads -> ThreadState]
      /\ thread'[i].at = After(thread[i]) /\ thread'[i].frame = thread[i].frame
      /\ thread'[i].todo = Tail(thread[i].todo) /\ thread'[i].output = 0
      /\ \A j \in Threads \ {i} : thread'[j] = thread[j]
  BY <1>1, <1>2, Moves
<1>4. /\ enabled' = enabled /\ warm' = warm /\ adapter' = adapter /\ next_frame' = next_frame
      /\ opened' = opened /\ context' = context /\ lent' = lent
  BY DEF slotVars, rknnVars
<1>5. SlotTypes' /\ NothingForgotten
  BY <1>1, <1>3, <1>4 DEF SlotTypes, NothingForgotten, Loaded
<1>6. \A s \in Left(Tail(thread[i].todo)) : Loaded(s)
  BY <1>1, TodoRest DEF AtWork
<1>7. thread[i].at # "take"
  BY <1>1 DEF AtWork
<1>8. AtWork(thread[i])'
  BY <1>1, <1>2, <1>3, <1>4, <1>6, <1>7 DEF AtWork, Loaded
<1> QED
  BY <1>3, <1>4, <1>5, <1>8, QuietKeeps

\* A frame is taken, published or given up.
LEMMA FrameKeeps ==
    ASSUME SlotInv, NEW i \in Threads, TakeFrame(i) \/ Publish(i)
    PROVE  SlotInv'
<1>1. SlotTypes /\ thread[i] \in ThreadState /\ AtWork(thread[i]) /\ next_frame \in Nat \ {0}
  BY DEF SlotInv, SlotTypes
<1>2. thread[i].output = 0
  BY <1>1 DEF AtWork, TakeFrame, Publish
<1>3. /\ IdleThread \in ThreadState /\ IdleThread.todo = <<>> /\ IdleThread.output = 0
      /\ IdleThread.at = "take" /\ IdleThread.frame = 0 /\ IdleThread.results = {}
      /\ {"take", "preprocess"} \subseteq Places
  BY DEF IdleThread, ThreadState, Places, Todos, Text
<1>4. UNCHANGED <<enabled, warm, adapter, opened, context, lent>> /\ next_frame' \in Nat \ {0}
  BY <1>1 DEF TakeFrame, Publish, slotVars, rknnVars
<1>5. \E t \in ThreadState, at \in {"take", "preprocess"} :
         /\ Goes(i, at, t) /\ t.output = 0
         /\ at = "take" <=> t.todo = <<>>
         /\ at # "take" => t.frame # 0
         /\ \A s \in Left(t.todo) : Loaded(s)
  <2>1. CASE Publish(i)
    <3>1. Goes(i, "take", IdleThread)
      BY <2>1 DEF Publish
    <3>2. \A s \in Left(<<>>) : Loaded(s)
      BY DEF Left
    <3> QED
      BY <1>3, <3>1, <3>2, Zenon
  <2>2. CASE TakeFrame(i)
    <3> DEFINE frame == IF OrderedSlots = <<>> THEN 0 ELSE next_frame
               todo == OrderedSlots
               t == [IdleThread EXCEPT !.frame = frame, !.todo = todo]
    <3>1. todo \in Todos /\ frame \in Nat /\ \A s \in Left(todo) : Loaded(s)
      BY <1>1, GivenSlots DEF SlotTypes, Loaded
    <3>2. Goes(i, IF todo = <<>> THEN "take" ELSE "preprocess", t)
      BY <2>2 DEF TakeFrame
    <3>3. todo # <<>> => frame # 0
      BY <1>1
    <3> HIDE DEF frame, todo
    <3>4. t \in ThreadState /\ t.output = 0 /\ t.frame = frame /\ t.todo = todo
      BY <1>3, <3>1 DEF ThreadState
    <3> HIDE DEF t
    <3> QED
      BY <3>1, <3>2, <3>3, <3>4
  <2> QED
    BY <2>1, <2>2
<1>6. PICK t \in ThreadState, at \in {"take", "preprocess"} :
         /\ Goes(i, at, t) /\ t.output = 0
         /\ at = "take" <=> t.todo = <<>>
         /\ at # "take" => t.frame # 0
         /\ \A s \in Left(t.todo) : Loaded(s)
  BY <1>5
<1>7. /\ thread' \in [Threads -> ThreadState]
      /\ thread'[i].at = at /\ thread'[i].frame = t.frame /\ thread'[i].todo = t.todo
      /\ thread'[i].output = 0
      /\ \A j \in Threads \ {i} : thread'[j] = thread[j]
  BY <1>1, <1>3, <1>6, Moves
<1>8. SlotTypes' /\ NothingForgotten
  BY <1>1, <1>4, <1>7 DEF SlotTypes, NothingForgotten, Loaded
<1>9. AtWork(thread[i])'
  BY <1>4, <1>6, <1>7 DEF AtWork, Loaded
<1> QED
  BY <1>2, <1>4, <1>7, <1>8, <1>9, QuietKeeps

\* What a thread at work has.
LEMMA WorkingThread ==
    ASSUME SlotInv, NEW i \in Threads, thread[i].at \notin {"take", "publish"}
    PROVE  /\ thread[i] \in ThreadState /\ thread[i].todo \in Todos /\ thread[i].todo # <<>>
           /\ SlotOf(i) \in Slots /\ SlotOf(i) \in Models /\ Loaded(SlotOf(i))
           /\ thread[i].frame \in Nat \ {0} /\ thread[i].output \in Nat /\ thread[i].text \in Text
           /\ thread[i].results \subseteq Result
           /\ AtWork(thread[i])
<1>1. SlotTypes /\ thread[i] \in ThreadState /\ AtWork(thread[i])
  BY DEF SlotInv, SlotTypes
<1>2. thread[i].todo \in Todos /\ thread[i].todo # <<>>
  BY <1>1 DEF ThreadState, AtWork
<1>3. SlotOf(i) \in Slots /\ SlotOf(i) \in Left(thread[i].todo)
  BY <1>2, TodoRest DEF SlotOf
<1> QED
  BY <1>1, <1>2, <1>3, OwnModels DEF ThreadState, AtWork

\* A slot that is passed over or done.
LEMMA SlotDoneKeeps ==
    ASSUME SlotInv, NEW i \in Threads,
           \/ SitOut(i)
           \/ GetSignals(i)
           \/ /\ thread[i].at = "preprocess" /\ Goes(i, After(thread[i]), Rest(thread[i]))
              /\ UNCHANGED <<slotVars, adapter, next_frame, rknnVars>>
    PROVE  SlotInv'
<1>1. thread[i].at \in {"preprocess", "signals"}
  BY DEF SitOut, GetSignals
<1>2. /\ thread[i] \in ThreadState /\ thread[i].todo # <<>> /\ thread[i].output = 0
      /\ SlotOf(i) \in Slots /\ thread[i].text \in Text /\ thread[i].results \subseteq Result
  BY <1>1, WorkingThread DEF AtWork
<1>3. /\ Rest(thread[i]) \in ThreadState /\ Rest(thread[i]).frame = thread[i].frame
      /\ Rest(thread[i]).todo = Tail(thread[i].todo) /\ Rest(thread[i]).output = 0
      /\ Rest(thread[i]).results = thread[i].results
  BY <1>2, RestOf
<1>4. CASE SitOut(i) \/ (thread[i].at = "preprocess" /\ Goes(i, After(thread[i]), Rest(thread[i]))
                            /\ UNCHANGED <<slotVars, adapter, next_frame, rknnVars>>)
  BY <1>2, <1>3, <1>4, GoesOn DEF SitOut
<1>5. CASE GetSignals(i)
  <2> DEFINE r == [slot |-> SlotOf(i), text |-> thread[i].text, signal |-> adapter[SlotOf(i)].found]
             t == [Rest(thread[i]) EXCEPT !.results = @ \cup {r}]
  <2>1. r \in Result
    BY <1>2 DEF Result, SlotInv, SlotTypes
  <2> HIDE DEF r
  <2>2. /\ t \in ThreadState /\ t.frame = thread[i].frame
        /\ t.todo = Tail(thread[i].todo) /\ t.output = 0
    BY <1>2, <1>3, <2>1 DEF ThreadState
  <2>3. Goes(i, After(thread[i]), t) /\ UNCHANGED <<slotVars, adapter, next_frame, rknnVars>>
    BY <1>5 DEF GetSignals, r
  <2> HIDE DEF t
  <2> QED
    BY <1>2, <2>2, <2>3, GoesOn
<1> QED
  BY <1>4, <1>5

\* A thread that goes on with its slot without an output.
LEMMA StageOfSlotKeeps ==
    ASSUME NpuTypes, SlotInv, NEW i \in Threads, thread[i].at \in {"preprocess", "set", "run", "get"},
           NEW at \in {"set", "run", "get", "postprocess"}, Goes(i, at, thread[i]),
           adapter' \in [Slots -> [input : Nat, box : Nat, found : Nat]],
           NothingForgotten, UNCHANGED <<slotVars, next_frame, opened, lent>>,
           at = "set" => adapter'[SlotOf(i)].input # 0,
           at = "run" => context'[SlotOf(i)].in # 0,
           at = "get" => context'[SlotOf(i)].out # 0
    PROVE  SlotInv'
<1>1. /\ thread[i] \in ThreadState /\ thread[i].todo # <<>> /\ thread[i].output = 0
      /\ AtWork(thread[i]) /\ at \in Places /\ SlotTypes
  BY WorkingThread DEF AtWork, Places, SlotInv
<1>2. /\ thread' \in [Threads -> ThreadState]
      /\ thread'[i].at = at /\ thread'[i].frame = thread[i].frame
      /\ thread'[i].todo = thread[i].todo /\ thread'[i].output = 0
      /\ \A j \in Threads \ {i} : thread'[j] = thread[j]
  BY <1>1, Moves
<1>3. enabled' = enabled /\ warm' = warm /\ opened' = opened /\ lent' = lent /\ next_frame' = next_frame
  BY DEF slotVars
<1>4. SlotTypes'
  BY <1>1, <1>2, <1>3 DEF SlotTypes
<1>5. AtWork(thread[i])'
  BY <1>1, <1>2, <1>3 DEF AtWork, Loaded, SlotOf
<1> QED
  BY <1>1, <1>2, <1>3, <1>4, <1>5, QuietKeeps

\* Preprocess, set and run.
LEMMA UpToRunKeeps ==
    ASSUME NpuTypes, SlotInv, NEW i \in Threads, Preprocess(i) \/ InferSet(i) \/ InferRun(i)
    PROVE  NpuTypes' /\ SlotInv'
<1> DEFINE s == SlotOf(i)
<1>0. thread[i].at \in {"preprocess", "set", "run"}
  BY DEF Preprocess, InferSet, InferRun
<1>1. /\ s \in Slots /\ s \in Models /\ thread[i].frame \in Nat \ {0} /\ AtWork(thread[i])
      /\ SlotTypes /\ thread[i] \in ThreadState /\ adapter[s].input \in Nat
  BY <1>0, WorkingThread DEF SlotInv, SlotTypes
<1>2. UNCHANGED <<slotVars, next_frame>>
  BY DEF Preprocess, InferSet, InferRun
<1>3. CASE UNCHANGED <<adapter, rknnVars>> /\ Goes(i, "postprocess", thread[i]) /\ thread[i].at # "preprocess"
  <2>1. NothingForgotten /\ NpuTypes'
    BY <1>2, <1>3 DEF NothingForgotten, Loaded, rknnVars, slotVars, NpuTypes
  <2> QED
    BY <1>0, <1>1, <1>2, <1>3, <2>1, StageOfSlotKeeps DEF SlotTypes, rknnVars
<1>4. CASE Preprocess(i)
  <2>1. CASE Goes(i, After(thread[i]), Rest(thread[i])) /\ UNCHANGED adapter
    BY <1>2, <1>4, <2>1, SlotDoneKeeps DEF Preprocess, NpuTypes, rknnVars
  <2>2. CASE /\ Goes(i, "set", thread[i])
             /\ adapter' = [adapter EXCEPT ![s].input = thread[i].frame, ![s].box = thread[i].frame]
    <3>1. /\ adapter' \in [Slots -> [input : Nat, box : Nat, found : Nat]]
          /\ adapter'[s].input = thread[i].frame
          /\ \A k \in Slots \ {s} : adapter'[k] = adapter[k]
      BY <1>1, <2>2 DEF SlotTypes
    <3>2. opened' = opened /\ context' = context /\ lent' = lent /\ NpuTypes'
      BY <1>4 DEF Preprocess, rknnVars, NpuTypes
    <3>3. NothingForgotten
      BY <1>1, <1>2, <3>1, <3>2 DEF NothingForgotten, Loaded, slotVars
    <3> QED
      BY <1>0, <1>1, <1>2, <2>2, <3>1, <3>2, <3>3, StageOfSlotKeeps
  <2> QED
    BY <1>4, <2>1, <2>2 DEF Preprocess
<1>5. CASE InferSet(i)
  <2>1. CASE Goes(i, "run", thread[i]) /\ SetInputs(s, adapter[s].input)
    <3>1. /\ NpuTypes' /\ opened' = opened /\ lent' = lent /\ adapter' = adapter
          /\ context'[s].in = adapter[s].input /\ context'[s].out = context[s].out
          /\ \A k \in Slots \ {s} : context'[k] = context[k]
      BY <1>1, <1>5, <2>1, CallsOfOneModel, CallDoes, OwnModels DEF InferSet
    <3>2. adapter[s].input # 0
      BY <1>1, <1>5 DEF InferSet, AtWork, SlotOf
    <3>3. NothingForgotten
      BY <1>1, <1>2, <3>1, <3>2 DEF NothingForgotten, Loaded, slotVars
    <3> QED
      BY <1>0, <1>1, <1>2, <2>1, <3>1, <3>2, <3>3, StageOfSlotKeeps DEF SlotTypes
  <2> QED
    BY <1>3, <1>5, <2>1 DEF InferSet
<1>6. CASE InferRun(i)
  <2>1. CASE Goes(i, "get", thread[i]) /\ RunContext(s)
    <3>1. /\ NpuTypes' /\ opened' = opened /\ lent' = lent /\ adapter' = adapter
          /\ context'[s].in = context[s].in /\ context'[s].out = context[s].in
          /\ \A k \in Slots \ {s} : context'[k] = context[k]
      BY <1>1, <1>6, <2>1, CallsOfOneModel, CallDoes, OwnModels DEF InferRun
    <3>2. context[s].in # 0
      BY <1>1, <1>6 DEF InferRun, AtWork, SlotOf
    <3>3. NothingForgotten
      BY <1>1, <1>2, <3>1, <3>2 DEF NothingForgotten, Loaded, slotVars
    <3> QED
      BY <1>0, <1>1, <1>2, <2>1, <3>1, <3>2, <3>3, StageOfSlotKeeps DEF SlotTypes
  <2> QED
    BY <1>3, <1>6, <2>1 DEF InferRun
<1> QED
  BY <1>4, <1>5, <1>6

\* The threads that hold an output can be counted.
LEMMA HoldingIsFinite == \A s \in Slots : IsFiniteSet(Holding(s))
<1>1. IsFiniteSet(Threads)
  BY ThreadsAssumption, FS_Interval DEF Threads
<1> QED
  BY <1>1, FS_Subset DEF Holding

\* An output that is handed out is held by the thread that asked for it, and nobody else's.
LEMMA GetKeeps ==
    ASSUME NpuTypes, SlotInv, NEW i \in Threads, InferGet(i)
    PROVE  NpuTypes' /\ SlotInv'
<1> DEFINE s == SlotOf(i)
<1>0. thread[i].at = "get" /\ UNCHANGED <<slotVars, adapter, next_frame>>
  BY DEF InferGet
<1>1. /\ s \in Slots /\ s \in Models /\ thread[i].frame \in Nat \ {0} /\ AtWork(thread[i])
      /\ SlotTypes /\ thread[i] \in ThreadState /\ thread[i].output = 0
  BY <1>0, WorkingThread DEF SlotInv, AtWork
<1>2. CASE UNCHANGED rknnVars /\ Goes(i, "postprocess", thread[i])
  <2>1. NothingForgotten /\ NpuTypes'
    BY <1>0, <1>2 DEF NothingForgotten, Loaded, rknnVars, slotVars, NpuTypes
  <2> QED
    BY <1>0, <1>1, <1>2, <2>1, StageOfSlotKeeps DEF SlotTypes, rknnVars
<1>3. CASE Goes(i, "postprocess", [thread[i] EXCEPT !.output = context[s].out]) /\ Lend(s)
  <2> DEFINE t == [thread[i] EXCEPT !.output = context[s].out]
  <2>1. context[s].out # 0 /\ context[s].out \in Nat
    BY <1>0, <1>1 DEF AtWork, SlotOf, NpuTypes
  <2>2. t \in ThreadState /\ t.output = context[s].out /\ t.frame = thread[i].frame /\ t.todo = thread[i].todo
    BY <1>1, <2>1 DEF ThreadState
  <2>3. Goes(i, "postprocess", t) /\ "postprocess" \in Places
    BY <1>3 DEF Places
  <2> HIDE DEF t
  <2>4. /\ thread' \in [Threads -> ThreadState]
        /\ thread'[i].at = "postprocess" /\ thread'[i].frame = thread[i].frame
        /\ thread'[i].todo = thread[i].todo /\ thread'[i].output # 0
        /\ \A j \in Threads \ {i} : thread'[j] = thread[j]
    BY <1>1, <2>1, <2>2, <2>3, Moves
  <2>5. /\ NpuTypes' /\ opened' = opened /\ context' = context /\ lent'[s] = lent[s] + 1
        /\ \A k \in Slots \ {s} : lent'[k] = lent[k]
    BY <1>1, <1>3, CallsOfOneModel, CallDoes, OwnModels
  <2>6. enabled' = enabled /\ warm' = warm /\ adapter' = adapter /\ next_frame' = next_frame
    BY <1>0 DEF slotVars
  <2>7. SlotTypes' /\ NothingForgotten
    BY <1>1, <2>4, <2>5, <2>6 DEF SlotTypes, NothingForgotten, Loaded
  <2>8. AtWork(thread[i])'
    BY <1>0, <1>1, <2>4, <2>6 DEF AtWork, Loaded
  <2>9. \A j \in Threads : AtWork(thread[j])'
    BY <1>1, <2>4, <2>7, <2>8, OthersKeep DEF SlotInv
  <2>10. PICK m \in Slots : m = s
    BY <1>1
  <2>11. /\ Holding(m)' = Holding(m) \cup {i} /\ i \notin Holding(m)
         /\ \A k \in Slots \ {m} : Holding(k)' = Holding(k)
    BY <1>1, <2>4, <2>10 DEF Holding, SlotOf
  <2>12. Cardinality(Holding(m)') = Cardinality(Holding(m)) + 1
    BY <2>11, HoldingIsFinite, FS_AddElement
  <2>13. SlotCounts'
    <3>1. \A k \in Slots : opened'[k] = IF Loaded(k)' THEN 1 ELSE 0
      BY <2>5, <2>6 DEF SlotInv, SlotCounts, Loaded
    <3>2. lent'[m] = Cardinality(Holding(m)')
      BY <2>5, <2>10, <2>12 DEF SlotInv, SlotCounts
    <3>3. \A k \in Slots \ {m} : lent'[k] = Cardinality(Holding(k)')
      BY <2>5, <2>10, <2>11 DEF SlotInv, SlotCounts
    <3> QED
      BY <3>1, <3>2, <3>3 DEF SlotCounts
  <2> QED
    BY <2>5, <2>7, <2>9, <2>13 DEF SlotInv
<1> QED
  BY <1>2, <1>3 DEF InferGet

\* It is given back where it was read.
LEMMA PostprocessKeeps ==
    ASSUME NpuTypes, SlotInv, NEW i \in Threads, Postprocess(i)
    PROVE  NpuTypes' /\ SlotInv'
<1> DEFINE s == SlotOf(i)
           output == thread[i].output
           n == IF output = 0 THEN 0 ELSE 1
<1>1. thread[i].at = "postprocess" /\ TakeBack(s, n) /\ UNCHANGED <<slotVars, next_frame>>
  BY DEF Postprocess
<1>2. /\ s \in Slots /\ s \in Models /\ thread[i].frame \in Nat \ {0} /\ AtWork(thread[i])
      /\ SlotTypes /\ thread[i] \in ThreadState /\ output \in Nat
  BY <1>1, WorkingThread DEF SlotInv
<1>3. PICK found \in Found(s, output) :
         /\ adapter' = [adapter EXCEPT ![s].found = found]
         /\ Goes(i, "signals", [thread[i] EXCEPT !.output = 0, !.text =
                  [found |-> IF output = 0 THEN 0 ELSE found,
                   box |-> IF output = 0 \/ found = 0 THEN 0 ELSE adapter[s].box]])
  BY DEF Postprocess
<1>4. found \in Nat /\ adapter[s].box \in Nat
  BY <1>2, <1>3 DEF Found, SlotTypes
<1> DEFINE text == [found |-> IF output = 0 THEN 0 ELSE found,
                    box |-> IF output = 0 \/ found = 0 THEN 0 ELSE adapter[s].box]
           t == [thread[i] EXCEPT !.output = 0, !.text = text]
<1>5. text \in Text
  BY <1>4 DEF Text
<1>6. Goes(i, "signals", t) /\ "signals" \in Places
  BY <1>3 DEF Places
<1> HIDE DEF text
<1>7. t \in ThreadState /\ t.output = 0 /\ t.frame = thread[i].frame /\ t.todo = thread[i].todo
  <2>1. [thread[i] EXCEPT !.output = 0] \in ThreadState
    BY <1>2 DEF ThreadState
  <2> QED
    BY <1>2, <1>5, <2>1 DEF ThreadState
<1> HIDE DEF t
<1>8. /\ thread' \in [Threads -> ThreadState]
      /\ thread'[i].at = "signals" /\ thread'[i].frame = thread[i].frame
      /\ thread'[i].todo = thread[i].todo /\ thread'[i].output = 0
      /\ \A j \in Threads \ {i} : thread'[j] = thread[j]
  BY <1>2, <1>6, <1>7, Moves
<1>9. /\ NpuTypes' /\ opened' = opened /\ context' = context /\ lent'[s] = lent[s] - n
      /\ \A k \in Slots \ {s} : lent'[k] = lent[k]
  <2>1. n \in Int /\ 0 \in Nat
    OBVIOUS
  <2> HIDE DEF n
  <2>2. NpuTypes' /\ opened' = opened /\ \A k \in Models \ {s} : lent'[k] = lent[k]
    BY <1>1, <1>2, <2>1, CallsOfOneModel
  <2>3. context' = context /\ lent'[s] = lent[s] - n
    BY <1>1, <1>2, <2>1, CallDoes
  <2> QED
    BY <2>2, <2>3, OwnModels
<1>10. /\ adapter' \in [Slots -> [input : Nat, box : Nat, found : Nat]]
       /\ \A k \in Slots : adapter'[k].input = adapter[k].input
  BY <1>2, <1>3, <1>4 DEF SlotTypes
<1>11. enabled' = enabled /\ warm' = warm /\ next_frame' = next_frame
  BY <1>1 DEF slotVars
<1>12. SlotTypes' /\ NothingForgotten
  BY <1>2, <1>8, <1>9, <1>10, <1>11 DEF SlotTypes, NothingForgotten, Loaded
<1>13. AtWork(thread[i])'
  BY <1>1, <1>2, <1>8, <1>11 DEF AtWork, Loaded
<1>14. \A j \in Threads : AtWork(thread[j])'
  BY <1>2, <1>8, <1>12, <1>13, OthersKeep DEF SlotInv
<1>15. PICK m \in Slots : m = s
  BY <1>2
<1>16. /\ Holding(m)' = Holding(m) \ {i} /\ (i \in Holding(m) <=> output # 0)
       /\ \A k \in Slots \ {m} : Holding(k)' = Holding(k)
  BY <1>2, <1>8, <1>15 DEF Holding, SlotOf
<1>17. Cardinality(Holding(m)') = Cardinality(Holding(m)) - n
  <2>1. /\ Cardinality(Holding(m)') = IF output # 0 THEN Cardinality(Holding(m)) - 1 ELSE Cardinality(Holding(m))
        /\ Cardinality(Holding(m)) \in Nat
    BY <1>16, HoldingIsFinite, FS_RemoveElement, FS_CardinalityType
  <2> QED
    BY <2>1
<1>18. SlotCounts'
  <2>1. \A k \in Slots : opened'[k] = IF Loaded(k)' THEN 1 ELSE 0
    BY <1>9, <1>11 DEF SlotInv, SlotCounts, Loaded
  <2>2. lent'[m] = Cardinality(Holding(m)')
    BY <1>9, <1>15, <1>17 DEF SlotInv, SlotCounts
  <2>3. \A k \in Slots \ {m} : lent'[k] = Cardinality(Holding(k)')
    BY <1>9, <1>15, <1>16 DEF SlotInv, SlotCounts
  <2> QED
    BY <2>1, <2>2, <2>3 DEF SlotCounts
<1> QED
  BY <1>9, <1>12, <1>14, <1>18 DEF SlotInv

\* Every step of the slots.
LEMMA SlotStep ==
    ASSUME NpuTypes, SlotInv, SlotAdaptersNext
    PROVE  NpuTypes' /\ SlotInv'
<1>1. ASSUME NEW i \in Threads, RunEnabledSlots(i)
      PROVE  NpuTypes' /\ SlotInv'
  <2>1. CASE TakeFrame(i) \/ SitOut(i) \/ GetSignals(i) \/ Publish(i)
    BY <2>1, FrameKeeps, SlotDoneKeeps DEF TakeFrame, SitOut, GetSignals, Publish, rknnVars, NpuTypes
  <2> QED
    BY <1>1, <2>1, UpToRunKeeps, GetKeeps, PostprocessKeeps DEF RunEnabledSlots
<1> QED
  BY <1>1, MainKeeps DEF SlotAdaptersNext

\* The slots leave the models of the voice alone.
LEMMA SlotsSpareVoice ==
    ASSUME NpuTypes, VoiceInv, SlotInv, SlotAdaptersNext, UNCHANGED meloVars
    PROVE  VoiceInv'
<1> DEFINE Spared ==
      \A m \in VoiceModels : opened'[m] = opened[m] /\ context'[m] = context[m] /\ lent'[m] = lent[m]
<1>1. ASSUME \/ UNCHANGED rknnVars
             \/ \E s \in Slots, x \in Nat, n \in Int :
                   SetInputs(s, x) \/ RunContext(s) \/ Lend(s) \/ TakeBack(s, n)
      PROVE  Spared
  BY <1>1, CallsOfOneModel, OwnModels DEF rknnVars
<1>2. ASSUME NEW s \in Slots, EnableSlot(s) \/ DisableSlot(s)
      PROVE  Spared
  <2>1. ASSUME NEW ending \in Endings, InitModel(s, ending)
        PROVE  Spared
    <3>1. context' = context /\ lent' = lent
      BY <2>1 DEF InitModel, Reopen
    <3>2. \A m \in VoiceModels : opened'[m] = opened[m] + 0
      BY <2>1, OwnModels DEF InitModel, Reopen, Only
    <3>3. \A m \in VoiceModels : opened[m] \in Int
      BY OwnModels DEF NpuTypes
    <3> QED
      BY <3>1, <3>2, <3>3
  <2> QED
    BY <1>1, <1>2, <2>1 DEF EnableSlot, DisableSlot
<1>3. ASSUME NEW i \in Threads, RunEnabledSlots(i)
      PROVE  Spared
  <2>1. CASE UNCHANGED rknnVars
    BY <1>1, <2>1
  <2>2. CASE InferSet(i) \/ InferRun(i) \/ InferGet(i) \/ Postprocess(i)
    <3>1. SlotOf(i) \in Slots /\ adapter[SlotOf(i)].input \in Nat
      BY <2>2, WorkingThread DEF InferSet, InferRun, InferGet, Postprocess, SlotInv, SlotTypes
    <3>2. (IF thread[i].output = 0 THEN 0 ELSE 1) \in Int
      OBVIOUS
    <3>3. \/ UNCHANGED rknnVars
          \/ SetInputs(SlotOf(i), adapter[SlotOf(i)].input) \/ RunContext(SlotOf(i)) \/ Lend(SlotOf(i))
          \/ TakeBack(SlotOf(i), IF thread[i].output = 0 THEN 0 ELSE 1)
      BY <2>2 DEF InferSet, InferRun, InferGet, Postprocess
    <3> QED
      BY <1>1, <3>1, <3>2, <3>3, Zenon
  <2> QED
    BY <1>3, <2>1, <2>2 DEF RunEnabledSlots, TakeFrame, SitOut, Preprocess, GetSignals, Publish
<1>4. Spared
  BY <1>2, <1>3 DEF SlotAdaptersNext
<1>5. /\ opened'["encoder"] = opened["encoder"] /\ opened'["decoder"] = opened["decoder"]
      /\ context'["encoder"] = context["encoder"] /\ context'["decoder"] = context["decoder"]
      /\ lent'["encoder"] = lent["encoder"] /\ lent'["decoder"] = lent["decoder"]
  BY <1>4 DEF VoiceModels
<1>6. UNCHANGED <<ready, inits, voice, sentence, hidden, output_data, sounds>>
  BY DEF meloVars
<1> HIDE DEF Spared
<1> QED
  BY <1>5, <1>6 DEF VoiceInv, VoiceTypes, VoiceCounts, OnItsWay, Heard

-----------------------------------------------------------------------------
ModelsInv == NpuTypes /\ VoiceInv /\ SlotInv

\* Nothing is loaded, nothing is lent, nothing was heard.
LEMMA InitModels == ModelsInit => ModelsInv
<1> SUFFICES ASSUME ModelsInit PROVE ModelsInv
  OBVIOUS
<1>1. NpuTypes
  BY DEF ModelsInit, RknnInit, NpuTypes
<1>2. VoiceInv
  <2>1. /\ ready = FALSE /\ inits = 0 /\ voice = "idle" /\ sentence = 0 /\ hidden = 0
        /\ output_data = 0 /\ sounds = <<>>
    BY DEF ModelsInit, MeloEngineInit
  <2>2. opened["encoder"] = 0 /\ opened["decoder"] = 0 /\ lent["encoder"] = 0 /\ lent["decoder"] = 0
    BY OwnModels DEF ModelsInit, RknnInit
  <2>3. VoiceTypes
    <3>1. sounds \in Seq([of : Nat, made : Nat])
      BY <2>1, EmptySeq
    <3> QED
      BY <2>1, <3>1 DEF VoiceTypes, VoicePlaces
  <2>4. opened["encoder"] + opened["decoder"] <= inits + 0
    BY <2>1, <2>2
  <2>5. VoiceCounts
    BY <2>1, <2>2, <2>4 DEF VoiceCounts
  <2>6. OnItsWay
    BY <2>1 DEF OnItsWay
  <2>7. Heard
    BY <2>1 DEF Heard
  <2> QED
    BY <2>3, <2>5, <2>6, <2>7 DEF VoiceInv
<1>3. SlotInv
  <2>1. /\ enabled = {} /\ warm = {} /\ next_frame = 1
        /\ thread = [i \in Threads |-> IdleThread]
        /\ adapter = [s \in Slots |-> [input |-> 0, box |-> 0, found |-> 0]]
    BY DEF ModelsInit, SlotAdaptersInit
  <2>2. \A s \in Slots : opened[s] = 0 /\ lent[s] = 0
    BY OwnModels DEF ModelsInit, RknnInit
  <2>3. /\ IdleThread \in ThreadState /\ IdleThread.todo = <<>> /\ IdleThread.output = 0
        /\ IdleThread.at = "take"
    BY DEF IdleThread, ThreadState, Places, Todos, Text
  <2>4. SlotTypes
    BY <2>1, <2>3 DEF SlotTypes
  <2>5. \A i \in Threads : AtWork(thread[i])
    <3>1. Left(<<>>) = {}
      BY DEF Left
    <3> QED
      BY <2>1, <2>3, <3>1 DEF AtWork
  <2>6. \A s \in Slots : Holding(s) = {}
    BY <2>1, <2>3 DEF Holding
  <2>7. SlotCounts
    BY <2>1, <2>2, <2>6, FS_EmptySet DEF SlotCounts, Loaded
  <2> QED
    BY <2>4, <2>5, <2>7 DEF SlotInv
<1> QED
  BY <1>1, <1>2, <1>3 DEF ModelsInv

\* Every step of the slots, of the voice and of the main thread keeps the invariant.
LEMMA NextModels == ModelsInv /\ [ModelsNext]_modelsVars => ModelsInv'
<1> SUFFICES ASSUME NpuTypes, VoiceInv, SlotInv, [ModelsNext]_modelsVars PROVE ModelsInv'
  BY DEF ModelsInv
<1>1. CASE SlotAdaptersNext /\ UNCHANGED meloVars
  BY <1>1, SlotStep, SlotsSpareVoice DEF ModelsInv
<1>2. CASE MeloEngineNext /\ UNCHANGED slotAdapterVars
  BY <1>2, VoiceStep, VoiceKeepsSlots DEF ModelsInv
<1>3. CASE UNCHANGED modelsVars
  <2>1. NpuTypes'
    BY <1>3 DEF modelsVars, rknnVars, NpuTypes
  <2>2. VoiceInv'
    BY <1>3 DEF modelsVars, rknnVars, meloVars, VoiceInv, VoiceTypes, VoiceCounts, OnItsWay, Heard
  <2>3. SlotInv'
    <3>1. /\ opened' = opened /\ context' = context /\ lent' = lent /\ thread' = thread
          /\ enabled' = enabled /\ warm' = warm /\ adapter' = adapter /\ next_frame' = next_frame
      BY <1>3 DEF modelsVars, rknnVars, slotAdapterVars, slotVars
    <3>2. SlotTypes' /\ NothingForgotten
      BY <3>1 DEF SlotInv, SlotTypes, NothingForgotten, Loaded
    <3> QED
      BY <3>1, <3>2, StillKeeps DEF SlotInv, SlotCounts, Loaded
  <2> QED
    BY <2>1, <2>2, <2>3 DEF ModelsInv
<1> QED
  BY <1>1, <1>2, <1>3 DEF ModelsNext

\* Rknn, SlotAdapters, MeloEngine: however many threads share an adapter and whichever call
\* fails, a slot's model has one context while it is loaded and none otherwise, each output is
\* released by who has read it, and no failed Init of the voice leaves more than one context.
THEOREM NothingIsEverLeaked == ModelsSpec => []NothingLeaked
<1>1. ModelsInv => NothingLeaked
  BY DEF ModelsInv, VoiceInv, VoiceCounts, SlotInv, SlotCounts, Holding, NothingLeaked
<1> QED
  BY <1>1, InitModels, NextModels, PTL DEF ModelsSpec

\* MeloEngine: what is heard of a sentence is what both models computed of that sentence, and
\* sentences are heard in their order, none of them twice.
THEOREM SoundIsOfItsSentence == ModelsSpec => []SoundOfThisSentence
<1>1. ModelsInv => SoundOfThisSentence
  BY LenProperties DEF ModelsInv, VoiceInv, VoiceTypes, Heard, SoundOfThisSentence
<1> QED
  BY <1>1, InitModels, NextModels, PTL DEF ModelsSpec

-----------------------------------------------------------------------------
(* One inference thread *)

\* What the thread and its adapter hold is of the thread's frame.
OfFrame(i) ==
    LET t == thread[i]
        a == adapter[SlotOf(i)]
        c == context[SlotOf(i)]
    IN  /\ t.at = "set" => a.input = t.frame
        /\ t.at \in {"set", "run", "get", "postprocess"} => a.box = t.frame
        /\ t.at = "run" => c.in = t.frame
        /\ t.at = "get" => c.out = t.frame
        /\ t.at = "postprocess" => t.output \in {0, t.frame}
        /\ t.at = "signals" => {t.text.found, t.text.box, a.found} \subseteq {0, t.frame}
        /\ \A r \in t.results : {r.text.found, r.text.box, r.signal} \subseteq {0, t.frame}

FrameInv == OfFrame(1) /\ ResultsOfThisFrame

\* Nobody else moves a single thread, its adapter or its context.
LEMMA FrameStill ==
    ASSUME ModelsInv, FrameInv, 1 \in Threads, thread' = thread, given' = given,
           \A s \in Slots : Loaded(s) => adapter'[s] = adapter[s] /\ context'[s] = context[s]
    PROVE  FrameInv'
<1>1. ResultsOfThisFrame'
  BY DEF FrameInv, ResultsOfThisFrame
<1>2. CASE thread[1].at \in {"take", "publish"}
  BY <1>1, <1>2 DEF FrameInv, OfFrame
<1>3. CASE thread[1].at \notin {"take", "publish"}
  <2>1. SlotOf(1) \in Slots /\ Loaded(SlotOf(1)) /\ SlotOf(1)' = SlotOf(1)
    BY <1>3, WorkingThread DEF ModelsInv, SlotOf
  <2>2. adapter'[SlotOf(1)] = adapter[SlotOf(1)] /\ context'[SlotOf(1)] = context[SlotOf(1)]
    BY <2>1
  <2> QED
    BY <1>1, <2>1, <2>2 DEF FrameInv, OfFrame
<1> QED
  BY <1>1, <1>2, <1>3 DEF FrameInv

\* A thread that goes on to the next slot, or away, takes results of its frame along.
LEMMA FrameGoesOn ==
    ASSUME FrameInv, given' = given, thread'[1].at \in {"preprocess", "publish"},
           \A r \in thread'[1].results :
               {r.text.found, r.text.box, r.signal} \subseteq {0, thread'[1].frame}
    PROVE  FrameInv'
BY DEF FrameInv, OfFrame, ResultsOfThisFrame

\* Taking a frame, passing a slot over and publishing.
LEMMA FrameMoves ==
    ASSUME ModelsInv, FrameInv, 1 \in Threads,
           TakeFrame(1) \/ SitOut(1) \/ Publish(1)
    PROVE  FrameInv'
<1>1. SlotTypes /\ thread[1] \in ThreadState /\ AtWork(thread[1])
  BY DEF ModelsInv, SlotInv, SlotTypes
<1>2. /\ IdleThread \in ThreadState /\ IdleThread.results = {}
      /\ {"take", "preprocess"} \subseteq Places
  BY DEF IdleThread, ThreadState, Places, Todos, Text
<1>3. CASE TakeFrame(1)
  <2> DEFINE frame == IF OrderedSlots = <<>> THEN 0 ELSE next_frame
             todo == OrderedSlots
             t == [IdleThread EXCEPT !.frame = frame, !.todo = todo]
             at == IF todo = <<>> THEN "take" ELSE "preprocess"
  <2>1. todo \in Todos /\ frame \in Nat /\ at \in Places /\ at \in {"take", "preprocess"}
    BY <1>1, <1>2, GivenSlots DEF SlotTypes
  <2>2. Goes(1, at, t) /\ given' = given
    BY <1>3 DEF TakeFrame
  <2> HIDE DEF frame, todo, at
  <2>3. t \in ThreadState /\ t.results = {}
    BY <1>2, <2>1 DEF ThreadState
  <2> HIDE DEF t
  <2>4. thread'[1].at = at /\ thread'[1].results = {}
    BY <1>1, <2>1, <2>2, <2>3, Moves
  <2> QED
    BY <2>1, <2>2, <2>4 DEF FrameInv, OfFrame, ResultsOfThisFrame
<1>4. CASE SitOut(1)
  <2>1. Goes(1, After(thread[1]), Rest(thread[1])) /\ given' = given /\ thread[1].todo # <<>>
    BY <1>1, <1>4 DEF SitOut, AtWork
  <2>2. /\ Rest(thread[1]) \in ThreadState /\ Rest(thread[1]).frame = thread[1].frame
        /\ Rest(thread[1]).results = thread[1].results
        /\ After(thread[1]) \in Places /\ After(thread[1]) \in {"preprocess", "publish"}
    BY <1>1, <2>1, RestOf
  <2>3. /\ thread'[1].at = After(thread[1]) /\ thread'[1].frame = thread[1].frame
        /\ thread'[1].results = thread[1].results
    BY <1>1, <2>1, <2>2, Moves
  <2> QED
    BY <2>1, <2>2, <2>3, FrameGoesOn DEF FrameInv, OfFrame
<1>5. CASE Publish(1)
  <2>1. thread'[1].at = "take" /\ thread'[1].results = {}
    BY <1>1, <1>2, <1>5, Moves DEF Publish
  <2>2. ResultsOfThisFrame'
    BY <1>5 DEF Publish, ResultsOfThisFrame, FrameInv, OfFrame
  <2> QED
    BY <2>1, <2>2 DEF FrameInv, OfFrame
<1> QED
  BY <1>3, <1>4, <1>5

\* The calls of one slot.
LEMMA FrameComputes ==
    ASSUME ModelsInv, FrameInv, 1 \in Threads,
           Preprocess(1) \/ InferSet(1) \/ InferRun(1) \/ InferGet(1)
    PROVE  FrameInv'
<1> DEFINE s == SlotOf(1)
           t == thread[1]
<1>0. t.at \in {"preprocess", "set", "run", "get"} /\ given' = given
  BY DEF Preprocess, InferSet, InferRun, InferGet
<1>1. /\ s \in Slots /\ s \in Models /\ t \in ThreadState /\ t.todo # <<>> /\ t.output = 0
      /\ SlotTypes /\ NpuTypes /\ adapter[s].input \in Nat
      /\ {"set", "run", "get", "postprocess"} \subseteq Places
  BY <1>0, WorkingThread DEF ModelsInv, SlotInv, SlotTypes, AtWork, Places
<1>2. \A r \in t.results : {r.text.found, r.text.box, r.signal} \subseteq {0, t.frame}
  BY DEF FrameInv, OfFrame
<1>3. ASSUME NEW at \in {"set", "run", "get", "postprocess"}, Goes(1, at, t)
      PROVE  /\ thread'[1].at = at /\ thread'[1].frame = t.frame /\ thread'[1].output = 0
             /\ thread'[1].results = t.results /\ SlotOf(1)' = s
  BY <1>1, <1>3, Moves DEF SlotOf
<1>4. CASE Goes(1, "postprocess", t) /\ adapter' = adapter /\ t.at # "preprocess"
  BY <1>0, <1>2, <1>3, <1>4 DEF FrameInv, OfFrame, ResultsOfThisFrame
<1>5. CASE Preprocess(1)
  <2>1. CASE Goes(1, After(t), Rest(t))
    <3>1. /\ Rest(t) \in ThreadState /\ Rest(t).frame = t.frame /\ Rest(t).results = t.results
          /\ After(t) \in Places /\ After(t) \in {"preprocess", "publish"}
      BY <1>1, RestOf
    <3>2. thread'[1].at = After(t) /\ thread'[1].frame = t.frame /\ thread'[1].results = t.results
      BY <1>1, <2>1, <3>1, Moves
    <3> QED
      BY <1>0, <1>2, <3>1, <3>2, FrameGoesOn
  <2>2. CASE Goes(1, "set", t) /\ adapter' = [adapter EXCEPT ![s].input = t.frame, ![s].box = t.frame]
    <3>1. adapter'[s].input = t.frame /\ adapter'[s].box = t.frame
      BY <1>1, <2>2 DEF SlotTypes
    <3> QED
      BY <1>0, <1>2, <1>3, <2>2, <3>1 DEF FrameInv, OfFrame, ResultsOfThisFrame
  <2> QED
    BY <1>5, <2>1, <2>2 DEF Preprocess
<1>6. CASE InferSet(1)
  <2>1. CASE Goes(1, "run", t) /\ SetInputs(s, adapter[s].input)
    <3>1. context'[s].in = adapter[s].input /\ adapter' = adapter
      BY <1>1, <1>6, <2>1, CallDoes DEF InferSet
    <3> QED
      BY <1>0, <1>2, <1>3, <1>6, <2>1, <3>1 DEF InferSet, FrameInv, OfFrame, ResultsOfThisFrame
  <2> QED
    BY <1>4, <1>6, <2>1 DEF InferSet
<1>7. CASE InferRun(1)
  <2>1. CASE Goes(1, "get", t) /\ RunContext(s)
    <3>1. context'[s].out = context[s].in /\ adapter' = adapter
      BY <1>1, <1>7, <2>1, CallDoes DEF InferRun
    <3> QED
      BY <1>0, <1>2, <1>3, <1>7, <2>1, <3>1 DEF InferRun, FrameInv, OfFrame, ResultsOfThisFrame
  <2> QED
    BY <1>4, <1>7, <2>1 DEF InferRun
<1>8. CASE InferGet(1)
  <2>1. CASE Goes(1, "postprocess", [t EXCEPT !.output = context[s].out])
    <3> DEFINE u == [t EXCEPT !.output = context[s].out]
    <3>1. /\ u \in ThreadState /\ u.output = context[s].out /\ u.frame = t.frame
          /\ u.todo = t.todo /\ u.results = t.results
      BY <1>1 DEF ThreadState, NpuTypes
    <3> HIDE DEF u
    <3>2. /\ thread'[1].at = "postprocess" /\ thread'[1].frame = t.frame
          /\ thread'[1].output = context[s].out /\ thread'[1].results = t.results /\ SlotOf(1)' = s
      BY <1>1, <2>1, <3>1, Moves DEF u, SlotOf
    <3>3. adapter' = adapter /\ t.at = "get"
      BY <1>8 DEF InferGet
    <3>4. context[s].out = t.frame /\ adapter[s].box = t.frame
      BY <3>3 DEF FrameInv, OfFrame
    <3> QED
      BY <1>0, <1>2, <3>2, <3>3, <3>4 DEF FrameInv, OfFrame, ResultsOfThisFrame
  <2> QED
    BY <1>4, <1>8, <2>1 DEF InferGet
<1> QED
  BY <1>5, <1>6, <1>7, <1>8

\* What Postprocess finds is of the output, and so of the frame, or nothing.
LEMMA FrameFinds ==
    ASSUME ModelsInv, FrameInv, 1 \in Threads, Postprocess(1)
    PROVE  FrameInv'
<1> DEFINE s == SlotOf(1)
           t == thread[1]
<1>1. t.at = "postprocess" /\ given' = given
  BY DEF Postprocess
<1>2. /\ s \in Slots /\ t \in ThreadState /\ SlotTypes
      /\ t.frame \in Nat /\ t.output \in Nat
  BY <1>1, WorkingThread DEF ModelsInv, SlotInv
<1>3. /\ t.output \in {0, t.frame} /\ adapter[s].box = t.frame
      /\ \A r \in t.results : {r.text.found, r.text.box, r.signal} \subseteq {0, t.frame}
  BY <1>1 DEF FrameInv, OfFrame
<1>4. PICK found \in Found(s, t.output) :
         /\ adapter' = [adapter EXCEPT ![s].found = found]
         /\ Goes(1, "signals", [t EXCEPT !.output = 0, !.text =
                  [found |-> IF t.output = 0 THEN 0 ELSE found,
                   box |-> IF t.output = 0 \/ found = 0 THEN 0 ELSE adapter[s].box]])
  BY DEF Postprocess
<1>5. found \in {0, t.frame} /\ found \in Nat /\ adapter[s].box \in Nat
  BY <1>2, <1>3, <1>4 DEF Found
<1> DEFINE text == [found |-> IF t.output = 0 THEN 0 ELSE found,
                    box |-> IF t.output = 0 \/ found = 0 THEN 0 ELSE adapter[s].box]
           u == [t EXCEPT !.output = 0, !.text = text]
<1>6. text \in Text /\ text.found \in {0, t.frame} /\ text.box \in {0, t.frame}
  BY <1>3, <1>5 DEF Text
<1>7. Goes(1, "signals", u) /\ "signals" \in Places
  BY <1>4 DEF Places
<1> HIDE DEF text
<1>8. /\ u \in ThreadState /\ u.text = text /\ u.frame = t.frame /\ u.todo = t.todo
      /\ u.results = t.results
  <2>1. [t EXCEPT !.output = 0] \in ThreadState
    BY <1>2 DEF ThreadState
  <2> QED
    BY <1>2, <1>6, <2>1 DEF ThreadState
<1> HIDE DEF u
<1>9. /\ thread'[1].at = "signals" /\ thread'[1].frame = t.frame /\ thread'[1].text = text
      /\ thread'[1].results = t.results /\ SlotOf(1)' = s
  BY <1>2, <1>7, <1>8, Moves DEF SlotOf
<1>10. adapter'[s].found = found
  BY <1>2, <1>4 DEF SlotTypes
<1> QED
  BY <1>1, <1>3, <1>5, <1>6, <1>9, <1>10 DEF FrameInv, OfFrame, ResultsOfThisFrame

\* The signal read is the one of this frame.
LEMMA FrameSignals ==
    ASSUME ModelsInv, FrameInv, 1 \in Threads, GetSignals(1)
    PROVE  FrameInv'
<1> DEFINE s == SlotOf(1)
           t == thread[1]
           r == [slot |-> s, text |-> t.text, signal |-> adapter[s].found]
           u == [Rest(t) EXCEPT !.results = @ \cup {r}]
<1>1. t.at = "signals" /\ given' = given /\ Goes(1, After(t), u)
  BY DEF GetSignals
<1>2. /\ s \in Slots /\ t \in ThreadState /\ t.todo # <<>> /\ SlotTypes /\ t.text \in Text
      /\ t.results \subseteq Result
  BY <1>1, WorkingThread DEF ModelsInv, SlotInv
<1>3. /\ Rest(t) \in ThreadState /\ Rest(t).frame = t.frame /\ Rest(t).results = t.results
      /\ After(t) \in Places /\ After(t) \in {"preprocess", "publish"}
  BY <1>2, RestOf
<1>4. /\ {t.text.found, t.text.box, adapter[s].found} \subseteq {0, t.frame}
      /\ \A q \in t.results : {q.text.found, q.text.box, q.signal} \subseteq {0, t.frame}
  BY <1>1 DEF FrameInv, OfFrame
<1>5. r \in Result /\ r.text = t.text /\ r.signal = adapter[s].found
  BY <1>2 DEF Result, SlotTypes
<1> HIDE DEF r
<1>6. u \in ThreadState /\ u.frame = t.frame /\ u.results = t.results \cup {r}
  BY <1>2, <1>3, <1>5 DEF ThreadState
<1> HIDE DEF u
<1>7. /\ thread'[1].at = After(t) /\ thread'[1].frame = t.frame
      /\ thread'[1].results = t.results \cup {r}
  BY <1>1, <1>2, <1>3, <1>6, Moves
<1>8. {r.text.found, r.text.box, r.signal} \subseteq {0, t.frame}
  BY <1>4, <1>5
<1> QED
  BY <1>1, <1>3, <1>4, <1>7, <1>8, FrameGoesOn

\* Every step of a pipeline with one inference thread.
LEMMA FrameStep ==
    ASSUME InferThreads = 1, ModelsInv, FrameInv, [ModelsNext]_modelsVars
    PROVE  FrameInv'
<1>1. Threads = {1} /\ 1 \in Threads
  BY DEF Threads
<1>2. CASE UNCHANGED modelsVars
  BY <1>1, <1>2, FrameStill DEF modelsVars, rknnVars, slotAdapterVars, slotVars
<1>3. CASE MeloEngineNext /\ UNCHANGED slotAdapterVars
  BY <1>1, <1>3, FrameStill, VoiceSparesSlots DEF slotAdapterVars, slotVars, ModelsInv
<1>4. ASSUME NEW s \in Slots, EnableSlot(s) \/ DisableSlot(s)
      PROVE  FrameInv'
  <2>1. thread' = thread /\ given' = given /\ context' = context
    BY <1>4 DEF EnableSlot, DisableSlot, rknnVars, InitModel, Reopen
  <2>2. \A k \in Slots : Loaded(k) => adapter'[k] = adapter[k]
    BY <1>4 DEF EnableSlot, DisableSlot, ModelsInv, SlotInv, SlotTypes
  <2> QED
    BY <1>1, <2>1, <2>2, FrameStill
<1>5. CASE RunEnabledSlots(1)
  BY <1>1, <1>5, FrameMoves, FrameComputes, FrameFinds, FrameSignals DEF RunEnabledSlots
<1> QED
  BY <1>1, <1>2, <1>3, <1>4, <1>5 DEF ModelsNext, SlotAdaptersNext

\* SlotAdapters: with one inference thread, whichever calls fail on a frame and whenever its
\* models are put away and taken back, what is given on with the frame is of that frame or
\* empty, although adapter and context keep what they had from one frame to the next.
THEOREM ResultsAreOfTheirFrame ==
    ASSUME InferThreads = 1
    PROVE  ModelsSpec => []ResultsOfThisFrame
<1>1. ModelsInit => FrameInv
  <2> SUFFICES ASSUME ModelsInit PROVE FrameInv
    OBVIOUS
  <2>1. 1 \in Threads /\ thread = [i \in Threads |-> IdleThread] /\ given = [frame |-> 0, results |-> {}]
    BY DEF ModelsInit, SlotAdaptersInit, Threads
  <2>2. thread[1].at = "take" /\ thread[1].results = {} /\ given.results = {}
    BY <2>1 DEF IdleThread
  <2> QED
    BY <2>2 DEF FrameInv, OfFrame, ResultsOfThisFrame
<1>2. ModelsInv /\ FrameInv /\ [ModelsNext]_modelsVars => FrameInv'
  BY FrameStep
<1>3. FrameInv => ResultsOfThisFrame
  BY DEF FrameInv
<1> QED
  BY <1>1, <1>2, <1>3, InitModels, NextModels, PTL DEF ModelsSpec
=============================================================================

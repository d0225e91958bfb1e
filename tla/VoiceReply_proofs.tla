-------------------------- MODULE VoiceReply_proofs --------------------------
(***************************************************************************)
(* What VoiceReply promises for every set of chunks and every bound: the   *)
(* sessions of the waiting events, the silence after a preemption, and the *)
(* answer that is said in order and in full.                               *)
(*                                                                         *)
(* The text in the queue is what a recursive function computes of it; its  *)
(* laws are induced over the numbers with NatSet, which takes a set where  *)
(* the theorem of the library takes an operator.                           *)
(***************************************************************************)
EXTENDS VoiceReply, SequenceTheorems, WellFoundedInduction, TLAPS

\* The inductive invariant: both properties, and the types they speak about.
SessionInv == SessionTypeOK /\ run \in RunStatus /\ EventsLive /\ SilentUntilNextRun

\* The bridge starts empty, in session 1.
LEMMA InitSession == Init => SessionInv
BY DEF Init, BridgeInit, SessionInv, SessionTypeOK, EventsLive, SilentUntilNextRun, RunStatus, Event

\* Emptying the reply establishes everything but the types of the session numbers.
LEMMA ClearedReply ==
    ASSUME ClearReply
    PROVE  events' \in Seq(Event) /\ EventsLive' /\ SilentUntilNextRun'
BY DEF ClearReply, EventsLive, SilentUntilNextRun

\* A callback appends an event of the desired session or does nothing.
LEMMA ChunkKeepsSession ==
    ASSUME SessionTypeOK, EventsLive, SilentUntilNextRun,
           NEW state \in RunState, NEW chunk \in Chunk \cup {NoChunk},
           OnLlmChunk(state, chunk)
    PROVE  SessionTypeOK' /\ EventsLive' /\ SilentUntilNextRun'
<1> DEFINE e == [session_id |-> active_run_session_id, state |-> state, chunk |-> chunk]
<1>1. CASE IsCurrentRunLive
  <2>1. events' = Append(events, e) /\ UNCHANGED sessions
    BY <1>1 DEF OnLlmChunk
  <2>2. e \in Event
    BY DEF Event, SessionTypeOK
  <2>3. SessionTypeOK'
    BY <2>1, <2>2 DEF SessionTypeOK, sessions
  <2>4. EventsLive'
    BY <1>1, <2>1, <2>2 DEF EventsLive, SessionTypeOK, sessions, IsCurrentRunLive
  <2>5. SilentUntilNextRun'
    BY <1>1, <2>1 DEF SilentUntilNextRun, sessions, IsCurrentRunLive
  <2>6. QED
    BY <2>3, <2>4, <2>5
<1>2. CASE ~IsCurrentRunLive
  BY <1>2 DEF OnLlmChunk, SessionTypeOK, EventsLive, SilentUntilNextRun, sessions, formal
<1>3. QED
  BY <1>1, <1>2

\* Poll empties the queue; while a preempted generation is active it has nothing to do.
LEMMA PollKeepsSession ==
    ASSUME SessionTypeOK, EventsLive, SilentUntilNextRun, Poll
    PROVE  SessionTypeOK' /\ EventsLive' /\ SilentUntilNextRun'
<1>1. CASE events = <<>>
  BY <1>1 DEF Poll, bridgeVars, sessions, formal, SessionTypeOK, EventsLive, SilentUntilNextRun
<1>2. CASE events # <<>>
  <2>1. events' = <<>> /\ UNCHANGED sessions
    BY <1>2 DEF Poll
  <2>2. IsCurrentRunLive
    BY <1>2 DEF SilentUntilNextRun, IsCurrentRunLive
  <2>3. QED
    BY <2>1, <2>2 DEF SessionTypeOK, EventsLive, SilentUntilNextRun, sessions, IsCurrentRunLive
<1>3. QED
  BY <1>1, <1>2

\* Every step of the two threads keeps the session invariant.
LEMMA StepSession == SessionInv /\ [Next]_vars => SessionInv'
<1> SUFFICES ASSUME SessionInv, [Next]_vars
             PROVE  SessionInv'
    OBVIOUS
<1> USE DEF SessionInv
<1>1. CASE StartRun
  BY <1>1, ClearedReply DEF StartRun, OnRunStarted, SessionTypeOK, RunStatus
<1>2. ASSUME NEW chunk \in Chunk, Generate(chunk)
      PROVE  SessionInv'
  BY <1>2, ChunkKeepsSession DEF Generate, RunState
<1>3. CASE FinishRun
  BY <1>3, ChunkKeepsSession DEF FinishRun, RunState, RunStatus
<1>4. CASE FailRun
  BY <1>4, ChunkKeepsSession DEF FailRun, RunState, RunStatus
<1>5. CASE StopRun
  BY <1>5 DEF StopRun, RunStatus, bridgeVars, sessions, formal, SessionTypeOK, EventsLive,
              SilentUntilNextRun
<1>6. CASE UserTurn
  BY <1>6, ClearedReply DEF UserTurn, BeginTurn, SessionTypeOK
<1>7. CASE PollEvents
  BY <1>7, PollKeepsSession DEF PollEvents
<1>8. CASE CancelReply
  BY <1>8, ClearedReply DEF CancelReply, Cancel, SessionTypeOK, sessions
<1>9. CASE ResetReply
  BY <1>9, ClearedReply DEF ResetReply, Reset, SessionTypeOK
<1>10. CASE UNCHANGED vars
  BY <1>10 DEF vars, bridgeVars, sessions, formal, SessionTypeOK, EventsLive, SilentUntilNextRun
<1>11. QED
  BY <1>1, <1>2, <1>3, <1>4, <1>5, <1>6, <1>7, <1>8, <1>9, <1>10 DEF Next

\* For every behaviour of the two threads, the events waiting for Poll are events of
\* the session the user wants (the queue is cleared with every change of session), and a
\* preempted generation says nothing more: OnLlmChunk drops its callbacks until the next
\* OnRunStarted.
THEOREM PreemptedStaysSilent == Spec => []PreemptedIsSilent
<1>1. SessionInv => PreemptedIsSilent
  BY DEF SessionInv, PreemptedIsSilent
<1>2. QED
  BY <1>1, InitSession, StepSession, PTL DEF Spec
-----------------------------------------------------------------------------
(* The text of a queue *)

\* Induction over a set of numbers: there is no least one outside.
LEMMA NatSet ==
    ASSUME NEW T, 0 \in T, \A n \in Nat : n \in T => n + 1 \in T
    PROVE  Nat \subseteq T
<1> DEFINE Missing == Nat \ T
<1> SUFFICES ASSUME Missing # {} PROVE FALSE
  OBVIOUS
<1>1. PICK least \in Missing : \A n \in Missing : ~ (<<n, least>> \in OpToRel(<, Nat))
  <2>1. Missing \subseteq Nat
    OBVIOUS
  <2> HIDE DEF Missing
  <2>2. QED
    BY <2>1, NatLessThanWellFounded, WFMin
<1>2. least - 1 \in Nat /\ <<least - 1, least>> \in OpToRel(<, Nat)
  BY DEF OpToRel
<1>3. least - 1 \in T
  BY <1>1, <1>2
<1>4. least - 1 + 1 = least
  OBVIOUS
<1>5. QED
  BY <1>2, <1>3, <1>4

Speaks(event, session) == event.session_id = session /\ event.state = "NORMAL"

\* f is what has been fed to the planner after each event of the queue.
Fed(f, queue, session) ==
    f = [n \in 0 .. Len(queue) |->
            IF n = 0 THEN <<>>
            ELSE IF Speaks(queue[n], session) THEN Append(f[n - 1], queue[n].chunk)
            ELSE f[n - 1]]

TextOf(queue, session) == (CHOOSE f : Fed(f, queue, session))[Len(queue)]

\* The text the model speaks of.
LEMMA LiveTextIsText == LiveText = TextOf(events, desired_session_id)
BY DEF LiveText, TextOf, Fed, Speaks, IsLive

\* The recursive function exists.
LEMMA FedExists ==
    ASSUME NEW queue, Len(queue) \in Nat, NEW session
    PROVE  \E f : Fed(f, queue, session)
<1> DEFINE Next1(x, n) == IF Speaks(queue[n], session) THEN Append(x, queue[n].chunk) ELSE x
           Upto(f, m) == f = [n \in 0 .. m |-> IF n = 0 THEN <<>> ELSE Next1(f[n - 1], n)]
           T == {m \in Nat : \E f : Upto(f, m)}
<1>1. 0 \in T
  <2>1. Upto([n \in 0 .. 0 |-> <<>>], 0)
    OBVIOUS
  <2> QED BY <2>1
<1>2. ASSUME NEW m \in Nat, m \in T PROVE m + 1 \in T
  <2>1. PICK f : Upto(f, m)
    BY <1>2
  <2> HIDE DEF Next1
  <2> DEFINE g == [n \in 0 .. m + 1 |-> IF n = m + 1 THEN Next1(f[m], n) ELSE f[n]]
  <2>2. \A n \in 0 .. m : f[n] = IF n = 0 THEN <<>> ELSE Next1(f[n - 1], n)
    BY <2>1
  <2>3. ASSUME NEW n \in 0 .. m + 1
        PROVE  g[n] = IF n = 0 THEN <<>> ELSE Next1(g[n - 1], n)
    <3>1. CASE n = m + 1
      <4>1. n # 0 /\ n - 1 = m /\ n - 1 \in 0 .. m + 1 /\ n - 1 # m + 1
        BY <3>1
      <4> QED BY <3>1, <4>1
    <3>2. CASE n = 0
      <4>1. n # m + 1 /\ n \in 0 .. m
        BY <3>2
      <4> QED BY <2>2, <3>2, <4>1
    <3>3. CASE n # m + 1 /\ n # 0
      <4>1. n \in 0 .. m /\ n - 1 \in 0 .. m + 1 /\ n - 1 # m + 1
        BY <3>3
      <4>2. g[n] = f[n] /\ g[n - 1] = f[n - 1]
        BY <3>3, <4>1
      <4> QED BY <2>2, <3>3, <4>1, <4>2
    <3> QED BY <3>1, <3>2, <3>3
  <2>4. Upto(g, m + 1)
    <3>1. g = [n \in 0 .. m + 1 |-> g[n]]
      OBVIOUS
    <3> HIDE DEF g
    <3> QED BY <2>3, <3>1
  <2> HIDE DEF Upto, g
  <2> QED BY <2>4
<1>3. Nat \subseteq T
  <2> HIDE DEF T
  <2> QED BY <1>1, <1>2, NatSet
<1>4. QED
  BY <1>3 DEF Fed

\* How it goes on from event to event.
LEMMA FedSteps ==
    ASSUME NEW queue, Len(queue) \in Nat, NEW session, NEW f, Fed(f, queue, session)
    PROVE  /\ f[0] = <<>>
           /\ \A n \in 1 .. Len(queue) :
                f[n] = IF Speaks(queue[n], session) THEN Append(f[n - 1], queue[n].chunk)
                       ELSE f[n - 1]
<1>1. \A n \in 0 .. Len(queue) :
        f[n] = IF n = 0 THEN <<>>
               ELSE IF Speaks(queue[n], session) THEN Append(f[n - 1], queue[n].chunk)
               ELSE f[n - 1]
  BY DEF Fed
<1> QED BY <1>1

\* The text of a queue is where some such function ends.
LEMMA TextIsFed ==
    ASSUME NEW queue, Len(queue) \in Nat, NEW session
    PROVE  \E f : Fed(f, queue, session) /\ TextOf(queue, session) = f[Len(queue)]
BY FedExists DEF TextOf

\* No events, no text.
LEMMA TextOfNothing == \A session : TextOf(<<>>, session) = <<>>
<1> TAKE session
<1>1. PICK queue : queue = <<>>
  OBVIOUS
<1>2. Len(queue) = 0
  BY <1>1
<1>3. PICK f : Fed(f, queue, session) /\ TextOf(queue, session) = f[Len(queue)]
  BY <1>2, TextIsFed
<1> QED BY <1>1, <1>2, <1>3, FedSteps

\* One event more is one chunk more, or none.
LEMMA TextOfAppend ==
    ASSUME NEW R, NEW queue \in Seq(R), NEW event \in R, NEW session
    PROVE  TextOf(Append(queue, event), session) =
             IF Speaks(event, session) THEN Append(TextOf(queue, session), event.chunk)
             ELSE TextOf(queue, session)
<1>1. PICK longer : longer = Append(queue, event)
  OBVIOUS
<1> DEFINE last == Len(queue) + 1
<1>2. /\ Len(queue) \in Nat /\ Len(longer) = last /\ longer[last] = event
      /\ \A n \in 1 .. Len(queue) : longer[n] = queue[n]
  BY <1>1
<1>3. PICK f : Fed(f, queue, session) /\ TextOf(queue, session) = f[Len(queue)]
  BY <1>2, TextIsFed
<1>4. PICK g : Fed(g, longer, session) /\ TextOf(longer, session) = g[Len(longer)]
  <2>1. Len(longer) \in Nat
    BY <1>2
  <2> QED BY <2>1, TextIsFed
<1>5. /\ f[0] = <<>>
      /\ \A n \in 1 .. Len(queue) :
           f[n] = IF Speaks(queue[n], session) THEN Append(f[n - 1], queue[n].chunk) ELSE f[n - 1]
  BY <1>2, <1>3, FedSteps
<1>6. /\ g[0] = <<>>
      /\ \A n \in 1 .. last :
           g[n] = IF Speaks(longer[n], session) THEN Append(g[n - 1], longer[n].chunk) ELSE g[n - 1]
  <2>1. Len(longer) \in Nat
    BY <1>2
  <2>2. /\ g[0] = <<>>
        /\ \A n \in 1 .. Len(longer) :
             g[n] = IF Speaks(longer[n], session) THEN Append(g[n - 1], longer[n].chunk) ELSE g[n - 1]
    BY <1>4, <2>1, FedSteps
  <2> QED BY <1>2, <2>2
<1>7. f[Len(queue)] = g[Len(queue)]
  <2> DEFINE T == {n \in Nat : n <= Len(queue) => f[n] = g[n]}
  <2>1. 0 \in T
    BY <1>5, <1>6
  <2>2. ASSUME NEW n \in Nat, n \in T PROVE n + 1 \in T
    <3> SUFFICES ASSUME n + 1 <= Len(queue) PROVE f[n + 1] = g[n + 1]
      OBVIOUS
    <3>1. n + 1 \in 1 .. Len(queue) /\ n + 1 \in 1 .. last /\ n <= Len(queue) /\ n + 1 - 1 = n
      BY <1>2
    <3>2. f[n] = g[n] /\ longer[n + 1] = queue[n + 1]
      BY <1>2, <2>2, <3>1
    <3>3. f[n + 1] = IF Speaks(queue[n + 1], session) THEN Append(f[n], queue[n + 1].chunk) ELSE f[n]
      BY <1>5, <3>1
    <3>4. g[n + 1] = IF Speaks(longer[n + 1], session) THEN Append(g[n], longer[n + 1].chunk) ELSE g[n]
      BY <1>6, <3>1
    <3> QED BY <3>2, <3>3, <3>4
  <2>3. Nat \subseteq T
    <3> HIDE DEF T
    <3> QED BY <2>1, <2>2, NatSet
  <2> QED BY <1>2, <2>3
<1>8. g[last] = IF Speaks(event, session) THEN Append(g[Len(queue)], event.chunk) ELSE g[Len(queue)]
  <2>1. last \in 1 .. last /\ last - 1 = Len(queue)
    BY <1>2
  <2> QED BY <1>2, <1>6, <2>1
<1> QED BY <1>1, <1>2, <1>3, <1>4, <1>7, <1>8

\* It is made of the chunks of the events.
LEMMA TextOfType ==
    ASSUME NEW queue, Len(queue) \in Nat, NEW session, NEW C,
           \A n \in 1 .. Len(queue) : Speaks(queue[n], session) => queue[n].chunk \in C
    PROVE  TextOf(queue, session) \in Seq(C)
<1>1. PICK f : Fed(f, queue, session) /\ TextOf(queue, session) = f[Len(queue)]
  BY TextIsFed
<1> DEFINE T == {n \in Nat : n <= Len(queue) => f[n] \in Seq(C)}
<1>2. 0 \in T
  <2>1. <<>> \in Seq(C)
    OBVIOUS
  <2> QED BY <1>1, <2>1, FedSteps
<1>3. ASSUME NEW n \in Nat, n \in T PROVE n + 1 \in T
  <2> SUFFICES ASSUME n + 1 <= Len(queue) PROVE f[n + 1] \in Seq(C)
    OBVIOUS
  <2>1. n + 1 \in 1 .. Len(queue) /\ n <= Len(queue) /\ n + 1 - 1 = n
    OBVIOUS
  <2>2. f[n + 1] = IF Speaks(queue[n + 1], session) THEN Append(f[n], queue[n + 1].chunk) ELSE f[n]
    BY <1>1, <2>1, FedSteps
  <2>3. f[n] \in Seq(C)
    BY <1>3, <2>1
  <2> QED BY <2>1, <2>2, <2>3
<1>4. Nat \subseteq T
  <2> HIDE DEF T
  <2> QED BY <1>2, <1>3, NatSet
<1> QED BY <1>1, <1>4
-----------------------------------------------------------------------------
(* The answer *)

\* One text behind the other; the operator keeps the provers from looking inside.
Behind(s, r) == s \o r

\* It does not matter which two are put together first.
LEMMA BehindAssociates ==
    \A C : \A s, r, v \in Seq(C) : Behind(Behind(s, r), v) = Behind(s, Behind(r, v))
<1>1. \A C : \A s, r, v \in Seq(C) : (s \o r) \o v = s \o (r \o v)
  BY ConcatAssociative
<1> QED BY <1>1, Zenon DEF Behind

\* The chunks of an answer are in the queue, in the planner, in the prefetch buffer or handed over.
ChunksAreOf(C) ==
    /\ accepted \in Seq(C) /\ handed \in Seq(C)
    /\ unplanned \in Seq(C) /\ deferred_formal \in Seq(C)
    /\ formal_pipeline_started \in BOOLEAN
    /\ \A n \in 1 .. Len(events) : events[n].state = "NORMAL" => events[n].chunk \in C

\* The prefetch buffer is in use only behind a first sentence.
HeldBehindFirst == ~formal_pipeline_started => deferred_formal = <<>>

\* The last event tells how the generation ended, and once it was polled nothing is left.
EndIsLast ==
    /\ Ended("FINISH") => run = "finished"
    /\ Ended("ERROR") => run = "failed"
    /\ run = "finished" =>
        IF events = <<>> THEN unplanned = <<>> /\ deferred_formal = <<>> ELSE Ended("FINISH")

AnswerInv ==
    /\ ChunksAreOf(Chunk)
    /\ HeldBehindFirst
    /\ EndIsLast
    /\ NothingLostOrReordered

\* The text of the queue is made of such chunks too.
LEMMA LiveTextType ==
    ASSUME SessionTypeOK, NEW C, ChunksAreOf(C)
    PROVE  LiveText \in Seq(C)
<1>1. Len(events) \in Nat
  BY DEF SessionTypeOK
<1> QED
  BY <1>1, LiveTextIsText, TextOfType DEF ChunksAreOf, Speaks

\* An empty queue has none.
LEMMA NoLiveText ==
    /\ events = <<>> => LiveText = <<>> /\ \A state : ~Ended(state)
    /\ events' = <<>> => LiveText' = <<>> /\ \A state : ~Ended(state)'
<1>1. events = <<>> => LiveText = <<>>
  BY LiveTextIsText, TextOfNothing
<1>2. LiveText' = TextOf(events', desired_session_id')
  BY DEF LiveText, TextOf, Fed, Speaks, IsLive
<1>3. events' = <<>> => LiveText' = <<>>
  BY <1>2, TextOfNothing
<1> QED
  BY <1>1, <1>3 DEF Ended

\* Emptying the reply is where every answer begins.
LEMMA ClearedAnswer ==
    ASSUME ClearReply, NEW C
    PROVE  ChunksAreOf(C)' /\ HeldBehindFirst' /\ NothingLostOrReordered' /\ EndIsLast'
<1>1. LiveText' = <<>> /\ ~Ended("FINISH")' /\ ~Ended("ERROR")'
  BY NoLiveText DEF ClearReply
<1>2. <<>> \in Seq(C) /\ Len(<<>>) = 0 /\ <<>> \o <<>> \o <<>> \o <<>> = <<>>
  OBVIOUS
<1>3. ChunksAreOf(C)' /\ HeldBehindFirst'
  <2>1. \A n \in 1 .. Len(events') : FALSE
    BY <1>2 DEF ClearReply
  <2> QED BY <1>2, <2>1 DEF ClearReply, ChunksAreOf, HeldBehindFirst
<1>4. NothingLostOrReordered' /\ EndIsLast'
  BY <1>1, <1>2 DEF ClearReply, NothingLostOrReordered, EndIsLast
<1> QED
  BY <1>3, <1>4

\* An accepted callback is the last event, and its chunk the end of the text.
LEMMA ChunkTaken ==
    ASSUME SessionTypeOK, NEW C, ChunksAreOf(C),
           NEW state \in RunState, NEW chunk \in Chunk \cup {NoChunk},
           state = "NORMAL" => chunk \in C,
           OnLlmChunk(state, chunk), IsCurrentRunLive
    PROVE  /\ ChunksAreOf(C)'
           /\ LiveText' = IF state = "NORMAL" THEN Append(LiveText, chunk) ELSE LiveText
           /\ \A s : Ended(s)' <=> Ended(s) \/ s = state
           /\ events' # <<>>
<1>1. PICK e : e = [session_id |-> active_run_session_id, state |-> state, chunk |-> chunk]
  OBVIOUS
<1>2. /\ events' = Append(events, e) /\ e \in Event /\ events \in Seq(Event)
      /\ e.session_id = desired_session_id /\ e.state = state /\ e.chunk = chunk
      /\ UNCHANGED <<sessions, formal, handed>>
      /\ accepted' = IF state = "NORMAL" THEN Append(accepted, chunk) ELSE accepted
  BY <1>1 DEF OnLlmChunk, IsCurrentRunLive, Event, SessionTypeOK
<1>3. LiveText' = TextOf(Append(events, e), desired_session_id)
  <2>1. LiveText' = TextOf(events', desired_session_id')
    BY DEF LiveText, TextOf, Fed, Speaks, IsLive
  <2> QED BY <1>2, <2>1 DEF sessions
<1>4. LiveText' = IF state = "NORMAL" THEN Append(LiveText, chunk) ELSE LiveText
  BY <1>2, <1>3, LiveTextIsText, TextOfAppend DEF Speaks
<1>5. /\ Len(events') = Len(events) + 1 /\ events'[Len(events) + 1] = e /\ Len(events) \in Nat
      /\ \A n \in 1 .. Len(events) : events'[n] = events[n]
      /\ DOMAIN events = 1 .. Len(events) /\ DOMAIN events' = 1 .. Len(events')
  BY <1>2
<1>6. ASSUME NEW s PROVE Ended(s)' <=> Ended(s) \/ s = state
  BY <1>2, <1>5 DEF Ended, IsLive, sessions
<1>7. ChunksAreOf(C)'
  <2>1. accepted' \in Seq(C) /\ handed' \in Seq(C) /\ unplanned' \in Seq(C)
        /\ deferred_formal' \in Seq(C) /\ formal_pipeline_started' \in BOOLEAN
    BY <1>2 DEF ChunksAreOf, formal
  <2>2. \A n \in 1 .. Len(events') : events'[n].state = "NORMAL" => events'[n].chunk \in C
    BY <1>2, <1>5 DEF ChunksAreOf
  <2> QED BY <2>1, <2>2 DEF ChunksAreOf
<1>8. events' # <<>>
  BY <1>5
<1> QED
  BY <1>4, <1>6, <1>7, <1>8

\* A text cut in two is the text.
LEMMA CutInTwo ==
    ASSUME NEW C, NEW text \in Seq(C), NEW cut \in 0 .. Len(text)
    PROVE  SubSeq(text, 1, cut) \o SubSeq(text, cut + 1, Len(text)) = text
<1>1. /\ Len(text) \in Nat /\ 1 \in 1 .. Len(text) + 1 /\ cut \in 1 - 1 .. Len(text)
      /\ Len(text) \in cut .. Len(text)
  OBVIOUS
<1>2. SubSeq(text, 1, cut) \o SubSeq(text, cut + 1, Len(text)) = SubSeq(text, 1, Len(text))
  BY <1>1, ConcatAdjacentSubSeq
<1> QED
  BY <1>2, SubSeqFull

\* Poll takes the text out of the queue and puts the same text, cut into what is handed over,
\* what is held back and what the planner keeps, in the same order; after a FINISH nothing of
\* it is kept, after an ERROR the rest is forgotten.
LEMMA PollTakesAll ==
    ASSUME SessionTypeOK, NEW C, ChunksAreOf(C), HeldBehindFirst, NothingLostOrReordered,
           Poll, events # <<>>
    PROVE  /\ ChunksAreOf(C)' /\ HeldBehindFirst' /\ NothingLostOrReordered'
           /\ events' = <<>>
           /\ Ended("FINISH") \/ Ended("ERROR") => unplanned' = <<>> /\ deferred_formal' = <<>>
<1>1. PICK live \in Seq(C) : live = LiveText
  BY LiveTextType
<1>2. PICK text \in Seq(C) : text = unplanned \o live
  <2>1. unplanned \in Seq(C)
    BY DEF ChunksAreOf
  <2>2. unplanned \o live \in Seq(C)
    BY <2>1
  <2> QED BY <2>2
<1>3. PICK cut \in 0 .. Len(text), prefetch \in BOOLEAN :
        /\ Ended("FINISH") => cut = Len(text)
        /\ unplanned' = IF Ended("ERROR") THEN <<>> ELSE SubSeq(text, cut + 1, Len(text))
        /\ Accumulate(SubSeq(text, 1, cut), prefetch)
  BY <1>1, <1>2 DEF Poll
<1>4. events' = <<>> /\ accepted' = IF Ended("ERROR") THEN handed' ELSE accepted
  BY DEF Poll
<1>5. PICK batch \in Seq(C), rest \in Seq(C) :
        /\ batch = SubSeq(text, 1, cut) /\ rest = SubSeq(text, cut + 1, Len(text))
        /\ Behind(batch, rest) = text
        /\ cut = Len(text) => rest = <<>>
  <2>1. /\ SubSeq(text, 1, cut) \in Seq(C) /\ SubSeq(text, cut + 1, Len(text)) \in Seq(C)
        /\ cut = Len(text) => SubSeq(text, cut + 1, Len(text)) = <<>>
    OBVIOUS
  <2>2. SubSeq(text, 1, cut) \o SubSeq(text, cut + 1, Len(text)) = text
    BY CutInTwo
  <2> QED BY <2>1, <2>2 DEF Behind
<1> DEFINE finished == Ended("FINISH") \/ Ended("ERROR")
           started == formal_pipeline_started /\ ~Ended("ERROR")
           both == Behind(deferred_formal, batch)
           release == finished \/ (prefetch /\ batch # <<>>)
<1>6. /\ handed' = Behind(handed, IF ~started THEN batch
                                  ELSE IF release THEN both ELSE <<>>)
      /\ deferred_formal' = IF release THEN <<>> ELSE IF started THEN both ELSE <<>>
      /\ formal_pipeline_started' = (~finished /\ (started \/ batch # <<>>))
  <2>1. Accumulate(batch, prefetch)
    BY <1>3, <1>5
  <2> QED BY <2>1 DEF Accumulate, Behind
<1>7. unplanned' = IF Ended("ERROR") THEN <<>> ELSE rest
  BY <1>3, <1>5
<1>8. /\ handed \in Seq(C) /\ unplanned \in Seq(C) /\ deferred_formal \in Seq(C)
      /\ accepted \in Seq(C) /\ <<>> \in Seq(C)
      /\ \A s, r \in Seq(C) : Behind(s, r) \in Seq(C)
      /\ \A s \in Seq(C) : Behind(s, <<>>) = s /\ Behind(<<>>, s) = s
  <2>1. \A s, r \in Seq(C) : s \o r \in Seq(C)
    OBVIOUS
  <2>2. \A s \in Seq(C) : s \o <<>> = s /\ <<>> \o s = s
    OBVIOUS
  <2>3. <<>> \in Seq(C)
    OBVIOUS
  <2> QED BY <2>1, <2>2, <2>3 DEF ChunksAreOf, Behind
<1>9. accepted = Behind(Behind(handed, deferred_formal), text)
  <2>1. accepted = Behind(Behind(Behind(handed, deferred_formal), unplanned), live)
    BY <1>1 DEF NothingLostOrReordered, Behind
  <2>2. text = Behind(unplanned, live)
    BY <1>2 DEF Behind
  <2>3. PICK first \in Seq(C) : first = Behind(handed, deferred_formal)
    BY <1>8
  <2>4. Behind(Behind(first, unplanned), live) = Behind(first, Behind(unplanned, live))
    BY <1>8, BehindAssociates
  <2> QED BY <2>1, <2>2, <2>3, <2>4
<1>10. /\ handed' \in Seq(C) /\ deferred_formal' \in Seq(C) /\ unplanned' \in Seq(C)
  BY <1>6, <1>7, <1>8
<1>11. ChunksAreOf(C)'
  <2>1. \A n \in 1 .. Len(events') : FALSE
    BY <1>4
  <2> QED BY <1>4, <1>6, <1>8, <1>10, <2>1 DEF ChunksAreOf
<1>12. HeldBehindFirst'
  BY <1>6 DEF HeldBehindFirst
<1>13. NothingLostOrReordered'
  <2>1. Behind(Behind(handed', deferred_formal'), unplanned') = accepted'
    <3>1. CASE Ended("ERROR")
      BY <1>4, <1>6, <1>7, <1>8, <1>10, <3>1
    <3>2. CASE ~Ended("ERROR") /\ ~formal_pipeline_started
      <4>1. accepted = Behind(Behind(handed, batch), rest)
        <5>1. accepted = Behind(handed, Behind(batch, rest))
          BY <1>5, <1>8, <1>9, <3>2 DEF HeldBehindFirst
        <5> QED BY <1>8, <5>1, BehindAssociates
      <4>2. handed' = Behind(handed, batch) /\ deferred_formal' = <<>> /\ unplanned' = rest
        BY <1>6, <1>7, <3>2
      <4> QED BY <1>4, <1>8, <1>10, <3>2, <4>1, <4>2
    <3>3. CASE ~Ended("ERROR") /\ formal_pipeline_started
      <4>1. accepted = Behind(Behind(handed, both), rest)
        <5>1. accepted = Behind(Behind(handed, deferred_formal), Behind(batch, rest))
          BY <1>5, <1>9
        <5>2. PICK first \in Seq(C) : first = Behind(handed, deferred_formal)
          BY <1>8
        <5>3. accepted = Behind(Behind(first, batch), rest)
          <6>1. Behind(Behind(first, batch), rest) = Behind(first, Behind(batch, rest))
            BY BehindAssociates
          <6> QED BY <5>1, <5>2, <6>1
        <5>4. Behind(first, batch) = Behind(handed, both)
          BY <1>8, <5>2, BehindAssociates
        <5> QED BY <5>3, <5>4
      <4>2. CASE release
        <5>1. handed' = Behind(handed, both) /\ deferred_formal' = <<>> /\ unplanned' = rest
          BY <1>6, <1>7, <3>3, <4>2
        <5> QED BY <1>4, <1>8, <1>10, <3>3, <4>1, <5>1
      <4>3. CASE ~release
        <5>1. handed' = handed /\ deferred_formal' = both /\ unplanned' = rest
          BY <1>6, <1>7, <1>8, <3>3, <4>3
        <5> QED BY <1>4, <3>3, <4>1, <5>1
      <4> QED BY <4>2, <4>3
    <3> QED BY <3>1, <3>2, <3>3
  <2>2. LiveText' = <<>>
    BY <1>4, NoLiveText
  <2>3. Behind(Behind(Behind(handed', deferred_formal'), unplanned'), <<>>) = accepted'
    BY <1>8, <1>10, <2>1
  <2> QED BY <2>2, <2>3 DEF NothingLostOrReordered, Behind
<1>14. Ended("FINISH") \/ Ended("ERROR") => unplanned' = <<>> /\ deferred_formal' = <<>>
  BY <1>3, <1>5, <1>6, <1>7
<1> QED
  BY <1>4, <1>11, <1>12, <1>13, <1>14

\* An accepted callback lengthens the answer and its text in the queue alike.
LEMMA ChunkInOrder ==
    ASSUME SessionTypeOK, NEW C, ChunksAreOf(C), HeldBehindFirst, NothingLostOrReordered,
           NEW state \in RunState, NEW chunk \in Chunk \cup {NoChunk},
           state = "NORMAL" => chunk \in C,
           OnLlmChunk(state, chunk), IsCurrentRunLive
    PROVE  HeldBehindFirst' /\ NothingLostOrReordered'
<1>1. /\ LiveText' = IF state = "NORMAL" THEN Append(LiveText, chunk) ELSE LiveText
      /\ accepted' = IF state = "NORMAL" THEN Append(accepted, chunk) ELSE accepted
      /\ UNCHANGED <<unplanned, deferred_formal, formal_pipeline_started, handed>>
  BY ChunkTaken DEF OnLlmChunk, formal
<1>2. PICK said \in Seq(C) : said = handed \o deferred_formal \o unplanned
  <2>1. handed \in Seq(C) /\ deferred_formal \in Seq(C) /\ unplanned \in Seq(C)
    BY DEF ChunksAreOf
  <2>2. handed \o deferred_formal \in Seq(C)
    BY <2>1
  <2>3. handed \o deferred_formal \o unplanned \in Seq(C)
    BY <2>1, <2>2, ConcatProperties
  <2> QED BY <2>3
<1>3. PICK live \in Seq(C) : live = LiveText
  BY LiveTextType
<1>4. accepted = said \o live
  BY <1>2, <1>3 DEF NothingLostOrReordered
<1>5. handed' \o deferred_formal' \o unplanned' = said
  BY <1>1, <1>2
<1>6. CASE state = "NORMAL"
  <2>1. said \o Append(live, chunk) = Append(said \o live, chunk)
    BY <1>6
  <2>2. said \o LiveText' = accepted'
    BY <1>1, <1>3, <1>4, <1>6, <2>1
  <2> QED BY <1>1, <1>5, <2>2 DEF HeldBehindFirst, NothingLostOrReordered
<1>7. CASE state # "NORMAL"
  <2>1. said \o LiveText' = accepted'
    BY <1>1, <1>3, <1>4, <1>7
  <2> QED BY <1>1, <1>5, <2>1 DEF HeldBehindFirst, NothingLostOrReordered
<1> QED
  BY <1>6, <1>7

\* A callback of a preempted generation is dropped.
LEMMA ChunkDropped ==
    ASSUME NEW state, NEW chunk, OnLlmChunk(state, chunk), ~IsCurrentRunLive
    PROVE  UNCHANGED bridgeVars
BY DEF OnLlmChunk, bridgeVars

\* Nothing of it changes while the bridge does not.
LEMMA StillAnswer ==
    ASSUME UNCHANGED bridgeVars, NEW C, ChunksAreOf(C), HeldBehindFirst, NothingLostOrReordered
    PROVE  ChunksAreOf(C)' /\ HeldBehindFirst' /\ NothingLostOrReordered'
<1>1. UNCHANGED <<events, accepted, handed>> /\ UNCHANGED formal /\ UNCHANGED sessions
  BY DEF bridgeVars
<1>2. LiveText' = LiveText
  BY <1>1 DEF LiveText, IsLive, sessions
<1> QED
  BY <1>1, <1>2 DEF ChunksAreOf, HeldBehindFirst, NothingLostOrReordered, formal

\* An answer begins with nothing.
LEMMA InitAnswer == Init => AnswerInv
<1> SUFFICES ASSUME Init PROVE AnswerInv
  OBVIOUS
<1>1. events = <<>> /\ LiveText = <<>> /\ ~Ended("FINISH") /\ ~Ended("ERROR")
  BY NoLiveText DEF Init, BridgeInit
<1>2. <<>> \in Seq(Chunk) /\ <<>> \o <<>> \o <<>> \o <<>> = <<>>
  OBVIOUS
<1>3. \A n \in 1 .. Len(events) : FALSE
  BY <1>1
<1>4. ChunksAreOf(Chunk) /\ HeldBehindFirst
  BY <1>2, <1>3 DEF Init, BridgeInit, ChunksAreOf, HeldBehindFirst
<1>5. EndIsLast /\ NothingLostOrReordered
  BY <1>1, <1>2 DEF Init, BridgeInit, EndIsLast, NothingLostOrReordered
<1> QED BY <1>4, <1>5 DEF AnswerInv

\* Every step of the two threads keeps the answer whole.
LEMMA StepAnswer ==
    ASSUME SessionInv, AnswerInv, [Next]_vars
    PROVE  AnswerInv'
<1>0. SessionTypeOK /\ SilentUntilNextRun
  BY DEF SessionInv
<1> USE DEF AnswerInv
<1>1. CASE StartRun \/ UserTurn \/ CancelReply \/ ResetReply
  <2>1. ClearReply
    BY <1>1 DEF StartRun, OnRunStarted, UserTurn, BeginTurn, CancelReply, Cancel, ResetReply, Reset
  <2> QED
    BY <2>1, ClearedAnswer
<1>2. ASSUME NEW state \in RunState, NEW chunk \in Chunk \cup {NoChunk}, run = "open",
             OnLlmChunk(state, chunk), state = "NORMAL" => chunk \in Chunk,
             run' = IF state = "NORMAL" THEN "open" ELSE IF state = "FINISH" THEN "finished" ELSE "failed"
      PROVE  AnswerInv'
  <2>1. ~Ended("FINISH") /\ ~Ended("ERROR")
    BY <1>2 DEF EndIsLast
  <2>2. CASE IsCurrentRunLive
    <3>1. ChunksAreOf(Chunk)' /\ (\A s : Ended(s)' <=> Ended(s) \/ s = state) /\ events' # <<>>
      BY <1>0, <1>2, <2>2, ChunkTaken
    <3>2. HeldBehindFirst' /\ NothingLostOrReordered'
      BY <1>0, <1>2, <2>2, ChunkInOrder
    <3>3. EndIsLast'
      BY <1>2, <2>1, <3>1 DEF EndIsLast, RunState
    <3> QED BY <3>1, <3>2, <3>3
  <2>3. CASE ~IsCurrentRunLive
    <3>1. UNCHANGED bridgeVars
      BY <1>2, <2>3, ChunkDropped
    <3>2. events = <<>> /\ unplanned = <<>> /\ deferred_formal = <<>>
      BY <1>0, <2>3 DEF SilentUntilNextRun, IsCurrentRunLive
    <3>3. events' = <<>> /\ ~Ended("FINISH")' /\ ~Ended("ERROR")'
      BY <3>1, <3>2, NoLiveText DEF bridgeVars
    <3>4. EndIsLast'
      BY <3>1, <3>2, <3>3 DEF EndIsLast, bridgeVars, formal
    <3> QED
      BY <3>1, <3>4, StillAnswer
  <2> QED BY <2>2, <2>3
<1>3. ASSUME NEW chunk \in Chunk, Generate(chunk) PROVE AnswerInv'
  BY <1>2, <1>3 DEF Generate, RunState
<1>4. CASE FinishRun
  BY <1>2, <1>4, ChunkAssumption DEF FinishRun, RunState
<1>5. CASE FailRun
  BY <1>2, <1>5, ChunkAssumption DEF FailRun, RunState
<1>6. CASE StopRun \/ UNCHANGED vars
  <2>1. UNCHANGED bridgeVars /\ (run' = run \/ (run = "open" /\ run' = "stopped"))
    BY <1>6 DEF StopRun, vars
  <2>2. (\A s : Ended(s)' <=> Ended(s)) /\ events' = events /\ UNCHANGED formal
    BY <2>1 DEF bridgeVars, sessions, Ended, IsLive
  <2>3. EndIsLast'
    BY <2>1, <2>2 DEF EndIsLast, formal
  <2> QED BY <2>1, <2>3, StillAnswer
<1>7. CASE PollEvents
  <2>1. CASE events = <<>>
    <3>1. UNCHANGED <<bridgeVars, run>>
      BY <1>7, <2>1 DEF PollEvents, Poll
    <3>2. (\A s : Ended(s)' <=> Ended(s)) /\ events' = events /\ UNCHANGED formal
      BY <3>1 DEF bridgeVars, sessions, Ended, IsLive
    <3>3. EndIsLast'
      BY <3>1, <3>2 DEF EndIsLast, formal
    <3> QED BY <3>1, <3>3, StillAnswer
  <2>2. CASE events # <<>>
    <3>1. /\ ChunksAreOf(Chunk)' /\ HeldBehindFirst' /\ NothingLostOrReordered'
          /\ events' = <<>>
          /\ Ended("FINISH") \/ Ended("ERROR") => unplanned' = <<>> /\ deferred_formal' = <<>>
      BY <1>0, <1>7, <2>2, PollTakesAll DEF PollEvents
    <3>2. run' = run
      BY <1>7 DEF PollEvents
    <3>3. ~Ended("FINISH")' /\ ~Ended("ERROR")'
      BY <3>1, NoLiveText
    <3>4. EndIsLast'
      BY <2>2, <3>1, <3>2, <3>3 DEF EndIsLast
    <3> QED BY <3>1, <3>4
  <2> QED BY <2>1, <2>2
<1> QED
  BY <1>1, <1>3, <1>4, <1>5, <1>6, <1>7 DEF Next

\* A whole answer that is waited for by nobody has been handed over.
LEMMA WholeIsDelivered == AnswerInv /\ SessionInv => AnswerInFull
<1> SUFFICES ASSUME AnswerInv, run = "finished", events = <<>>
             PROVE  handed = accepted
  BY DEF AnswerInv, AnswerInFull, DeliveredInFull
<1>1. unplanned = <<>> /\ deferred_formal = <<>> /\ LiveText = <<>> /\ handed \in Seq(Chunk)
  BY NoLiveText DEF AnswerInv, EndIsLast, ChunksAreOf
<1>2. handed \o <<>> \o <<>> \o <<>> = handed
  BY <1>1
<1> QED
  BY <1>1, <1>2 DEF AnswerInv, NothingLostOrReordered

\* Whatever callbacks, turns, polls and cancellations interleave to, what has been handed to
\* the speech worker, is held back, is planned and still waits is the answer, in its order; and
\* once the end of a generation has been polled, all of it has been handed over.
THEOREM AnswerIsSaidInFull == Spec => []AnswerInFull
<1>1. SessionInv /\ AnswerInv /\ [Next]_vars => AnswerInv'
  BY StepAnswer
<1> QED
  BY <1>1, InitSession, InitAnswer, StepSession, WholeIsDelivered, PTL DEF Spec
=============================================================================

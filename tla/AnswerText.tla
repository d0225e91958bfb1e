----------------------------- MODULE AnswerText -----------------------------
(***************************************************************************)
(* voice/tts_ingress.cpp, voice/tts_planner.cpp and the filter of          *)
(* voice/tts_text_sanitizer.cpp, called one after the other by             *)
(* voice_reply_bridge.cpp: the answer of the language model comes in       *)
(* chunks of any length, what stands between the thinking tags is taken    *)
(* out, and the rest is cut into segments to be spoken.                    *)
(*                                                                         *)
(* A text is a sequence of characters, a character one of a few kinds.     *)
(* Chunks consist of whole characters.  One iteration of the loop of       *)
(* TryEmitSegments is one step; the fallback timeout may have passed or    *)
(* not whenever it is looked at.  max_speak_chars is 0, as configured.     *)
(***************************************************************************)
EXTENDS Integers, FiniteSets, SequencesExt, FiniteSetsExt, Lists

CONSTANTS Styles,             \* sets of characters an answer may be written in
          MaxAnswer,          \* bound: characters of an answer
          OpenTag, CloseTag,
          ZhMin, ZhMax, EnMin, EnMax

\* What Configure makes of the configuration.
ASSUME PlannerAssumption ==
    /\ ZhMin \in Nat \ {0} /\ ZhMax \in Nat /\ ZhMin <= ZhMax
    /\ EnMin \in Nat \ {0} /\ EnMax \in Nat /\ EnMin <= EnMax

Letter == {"e"}
Space == {" "}
Stop == {".", "zstop"}
Opening == {"("}
Closing == {")"}
Emoji == {"emoji"}
\* Three or four bytes long: ideographs, their punctuation, emoji.
Wide == {"z", "zstop"} \cup Emoji
Character == Letter \cup Space \cup Stop \cup Opening \cup Closing \cup Wide \cup {"<", "/", ">"}
Text == Seq(Character)

ASSUME TextAssumption ==
    /\ {OpenTag, CloseTag} \subseteq Text \ {<<>>}
    /\ Styles \subseteq SUBSET Character

VARIABLES
    fed,          \* the answer so far
    in_thinking,  \* TtsIngress::in_thinking_
    tag_tail,     \* TtsIngress::tag_tail_
    pending,      \* TtsPlanner::pending_
    spoken,       \* what has been handed over to be spoken, one segment behind the other
    at            \* where the caller is

textVars == <<fed, in_thinking, tag_tail, pending, spoken, at>>

TextInit ==
    /\ fed = <<>> /\ in_thinking = FALSE /\ tag_tail = <<>>
    /\ pending = <<>> /\ spoken = <<>>
    /\ at = "idle"

Upto(s, n) == SubSeq(s, 1, n)
After(s, n) == SubSeq(s, n + 1, Len(s))
Count(s, kind) == Cardinality({i \in DOMAIN s : s[i] \in kind})

-----------------------------------------------------------------------------
(* TtsIngress *)

\* FindTagInsensitive: how many characters stand before each occurrence of tag.
Occurrences(s, tag) ==
    {n \in 0 .. Len(s) - Len(tag) : SubSeq(s, n + 1, n + Len(tag)) = tag}

\* Mutation: only the first character of a tag is recognised.
HeldFirstOnly(s, tag) ==
    IF IsSuffix(Upto(tag, 1), s) THEN Upto(tag, 1) ELSE <<>>

\* HoldPartialTagSuffix: the longest beginning of tag that s ends with.
Held(s, tag) ==
    Upto(tag, Max({n \in 0 .. Len(tag) - 1 : IsSuffix(Upto(tag, n), s)}))

\* What the ingress looks for.
Tag(thinking) == IF thinking THEN CloseTag ELSE OpenTag

\* ProcessInput: what is visible of s, and the state it leaves behind.
ProcessInput[s \in Text] == [thinking \in BOOLEAN |->
    LET tag == Tag(thinking)
        shown(n) == IF thinking THEN <<>> ELSE Upto(s, n)
    IN IF Occurrences(s, tag) = {}
       THEN LET tail == Held(s, tag)
            IN [visible |-> shown(Len(s) - Len(tail)), thinking |-> thinking, tail |-> tail]
       ELSE LET n == Min(Occurrences(s, tag))
                next == ProcessInput[After(s, n + Len(tag))][~thinking]
            IN [next EXCEPT !.visible = shown(n) \o @]]

-----------------------------------------------------------------------------
(* TtsPlanner *)

IsMostlyEnglish(s) == Count(s, Letter) > Count(s, Wide)

\* Letters that begin a word; only a space ends one.
WordStarts(s) ==
    {i \in DOMAIN s :
        /\ s[i] \in Letter
        /\ \A j \in 1 .. i - 1 : s[j] \in Letter => \E k \in j .. i : s[k] \in Space}

CountEnglishWords(s) == Cardinality(WordStarts(s))

\* Open brackets after each number of characters; one that was never opened closes nothing.
BracketDepth(s) ==
    LET depth[i \in 0 .. Len(s)] ==
            IF i = 0 THEN 0
            ELSE IF s[i] \in Opening THEN depth[i - 1] + 1
            ELSE IF s[i] \in Closing THEN Max({0, depth[i - 1] - 1})
            ELSE depth[i - 1]
    IN depth

SentenceEnds(s) == {i \in DOMAIN s : s[i] \in Stop /\ BracketDepth(s)[i] = 0}

\* Mutation: the space stays behind.
ForceSplitBeforeSpace(s, n) ==
    LET end == Min({n, Len(s)})
        spaces == {i \in 1 .. end : s[i] \in Space /\ BracketDepth(s)[i] = 0}
    IN IF BracketDepth(s)[end] = 0 /\ spaces # {} THEN Max(spaces) - 1 ELSE end

\* The last space outside brackets among the first n characters, or all of them.
ForceSplitByChars(s, n) ==
    LET end == Min({n, Len(s)})
        spaces == {i \in 1 .. end : s[i] \in Space /\ BracketDepth(s)[i] = 0}
    IN IF BracketDepth(s)[end] = 0 /\ spaces # {} THEN Max(spaces) ELSE end

\* The loop that counts en_max_words stops at the first letter of the last of them.
WordSplit(s) ==
    CHOOSE i \in WordStarts(s) : Cardinality({j \in WordStarts(s) : j <= i}) = EnMax

HasSpeakableContent(s) == Count(s, Letter \cup Wide) > 0

\* StripNonSpeakable in TtsTextSanitizer.
Sanitize(s) == Only(s, Character \ Emoji)

SentenceReady(s) ==
    /\ SentenceEnds(s) # {}
    /\ IF IsMostlyEnglish(s) THEN CountEnglishWords(s) >= EnMin
                             ELSE Min(SentenceEnds(s)) >= ZhMin

TooLong(s) == IF IsMostlyEnglish(s) THEN CountEnglishWords(s) >= EnMax ELSE Len(s) >= ZhMax

LongEnough(s) == IF IsMostlyEnglish(s) THEN CountEnglishWords(s) >= EnMin ELSE Len(s) >= ZhMin

\* emit_candidate and EnqueueFormalAnswer: the first n characters, if they can be spoken.
Emit(n) ==
    LET candidate == Upto(pending, n)
    IN /\ pending' = After(pending, n)
       /\ spoken' = IF HasSpeakableContent(candidate)
                    THEN spoken \o Sanitize(candidate) ELSE spoken

-----------------------------------------------------------------------------
(* One chunk, RKLLM_RUN_NORMAL *)

Feed(chunk) ==
    LET read == ProcessInput[tag_tail \o chunk][in_thinking]
    IN /\ at = "idle"
       /\ fed' = fed \o chunk
       /\ in_thinking' = read.thinking
       /\ tag_tail' = read.tail
       /\ pending' = pending \o read.visible
       /\ at' = IF read.visible = <<>> THEN "idle" ELSE "planning"
       /\ UNCHANGED spoken

\* TryEmitSegments, one iteration at a time, for a chunk and for what Finish adds.
Planning == at \in {"planning", "finishing"}

EmitSentence ==
    /\ Planning
    /\ SentenceReady(pending)
    /\ Emit(Min(SentenceEnds(pending)))
    /\ UNCHANGED <<fed, in_thinking, tag_tail, at>>

EmitLong ==
    /\ Planning
    /\ ~SentenceReady(pending) /\ TooLong(pending)
    /\ Emit(IF IsMostlyEnglish(pending) THEN WordSplit(pending)
                                        ELSE ForceSplitByChars(pending, ZhMax))
    /\ UNCHANGED <<fed, in_thinking, tag_tail, at>>

\* fallback_timeout_ms has passed since the chunk came in.
EmitLate ==
    /\ Planning
    /\ ~SentenceReady(pending) /\ ~TooLong(pending) /\ LongEnough(pending)
    /\ Emit(ForceSplitByChars(pending, IF IsMostlyEnglish(pending) THEN 2 * ZhMax ELSE ZhMin))
    /\ UNCHANGED <<fed, in_thinking, tag_tail, at>>

\* What is left is kept.
Keep ==
    /\ Planning
    /\ ~SentenceReady(pending) /\ ~TooLong(pending)
    /\ at' = IF at = "planning" THEN "idle" ELSE "flushing"
    /\ UNCHANGED <<fed, in_thinking, tag_tail, pending, spoken>>

-----------------------------------------------------------------------------
(* RKLLM_RUN_FINISH, and the end of a turn *)

\* TtsIngress::Flush; what it gives goes through the planner once more.
Finish ==
    LET delta == IF in_thinking THEN <<>> ELSE tag_tail
    IN /\ at = "idle"
       /\ in_thinking' = FALSE /\ tag_tail' = <<>>
       /\ pending' = pending \o delta
       /\ at' = IF delta = <<>> THEN "flushing" ELSE "finishing"
       /\ UNCHANGED <<fed, spoken>>

FlushPending ==
    /\ at = "flushing"
    /\ Emit(Len(pending))
    /\ at' = "done"
    /\ UNCHANGED <<fed, in_thinking, tag_tail>>

\* Reset of both, before the next run, on an error and on a turn that preempts.
Reset ==
    /\ at \in {"idle", "done"}
    /\ fed' = <<>> /\ in_thinking' = FALSE /\ tag_tail' = <<>>
    /\ pending' = <<>> /\ spoken' = <<>>
    /\ at' = "idle"

FeedAny ==
    \E style \in Styles :
        /\ Range(fed) \subseteq style
        /\ \E chunk \in BoundedSeq(style, MaxAnswer - Len(fed)) \ {<<>>} : Feed(chunk)

Plan == EmitSentence \/ EmitLong \/ EmitLate \/ Keep

TextNext == FeedAny \/ Plan \/ Finish \/ FlushPending \/ Reset

TextSpec == TextInit /\ [][TextNext]_textVars

\* The planner returns from what it is called for; nothing is assumed of the model.
FairTextSpec == TextSpec /\ WF_textVars(Plan) /\ WF_textVars(FlushPending)

-----------------------------------------------------------------------------
(* Properties *)

Sounds(s) == Only(s, {"e", "z"})

\* What a reader of the whole answer sees: everything but the thinking.
Shown[s \in Text] ==
    IF Occurrences(s, OpenTag) = {} THEN s
    ELSE LET open == Min(Occurrences(s, OpenTag))
             inside == After(s, open + Len(OpenTag))
         IN Upto(s, open) \o
            (IF Occurrences(inside, CloseTag) = {} THEN <<>>
             ELSE Shown[After(inside, Min(Occurrences(inside, CloseTag)) + Len(CloseTag))])

\* However the answer is cut into chunks, even inside a tag, and wherever it is cut into
\* segments: what has been spoken, what waits in the planner and what the ingress holds
\* back are together the answer without its thinking - no sound lost, doubled or out of
\* order, none of the thinking, and none of the answer before (ProcessInput, Emit, Reset).
SpokenIsVisible ==
    Sounds(spoken \o pending \o (IF in_thinking THEN <<>> ELSE tag_tail))
        = Sounds(Shown[fed])

\* The loop of TryEmitSegments ends for every text and every mixture of brackets, spaces
\* and stops: no cut of it is empty, so the main thread comes back (tts_planner.cpp:231).
PlannerReturns == Planning ~> ~Planning
=============================================================================

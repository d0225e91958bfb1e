------------------------------- MODULE MeloText -------------------------------
(***************************************************************************)
(* adapters/melotts/split.hpp, lexicon.hpp and the text half of            *)
(* melotts_session.cpp: a segment of the answer becomes sentences, and a   *)
(* sentence the phones the encoder is given.                               *)
(*                                                                         *)
(* A text is a sequence of characters, a character one of a few kinds;     *)
(* "zstop" and "zcomma" are the wide punctuation the code replaces by the  *)
(* narrow one, "cut" is the mark $#! it puts where it will cut.  "u^" and  *)
(* "zz" are a letter of two bytes (C3 BB) and a wide one (E4 BB 8A) that   *)
(* are written with a byte of a bracket, "u-" and "zz-" what is left of    *)
(* them when that byte is erased, "byte" is a later byte without a first.  *)
(***************************************************************************)
EXTENDS Integers, FiniteSets, SequencesExt, FiniteSetsExt, Functions, Lists

CONSTANTS
    SplitMinChars,      \* split_min_chars
    SingleShotMax,      \* single_shot_max_chars
    LatinForceChars,    \* 48 in ShouldForceSplitForDecoderLimit
    WideForceChars,     \* 36 in ShouldSplitForOutputFrameLimit
    Lexicon,            \* the word list: a function from words to their phones
    MaxPhones           \* MAX_LENGTH

Space == " "
Comma == ","
LatinLetters == {"a", "b", "A"}
WideLetters == {"z", "zz"}
Punctuation == {".", Comma, "!"}
Bracket == {"<"}
Fragile == {"u^", "zz"}
Broken == {"u-", "zz-"}
Chars == LatinLetters \cup WideLetters \cup Punctuation \cup Bracket \cup Fragile \cup Broken
            \cup {Space, "zstop", "zcomma", "cut", "byte"}
\* A sound is a number.  The blank has one, every letter and every listed word of letters one of
\* its own.
ASSUME LexiconAssumption ==
    /\ \A word \in DOMAIN Lexicon : Lexicon[word] \in Seq(Nat)
    /\ \A word \in DOMAIN Lexicon : Broken \cap Range(word) = {}
    /\ <<Space>> \in DOMAIN Lexicon /\ Len(Lexicon[<<Space>>]) = 1
    /\ \A c \in {"a", "b"} \cup WideLetters : <<c>> \in DOMAIN Lexicon
    /\ \A word \in DOMAIN Lexicon :
          word # <<>> /\ Range(word) \subseteq LatinLetters \cup WideLetters =>
              \E sound \in Range(Lexicon[word]) : sound # Lexicon[<<Space>>][1]

ASSUME MeloAssumption ==
    {SplitMinChars, SingleShotMax, LatinForceChars, WideForceChars, MaxPhones} \subseteq Nat

-----------------------------------------------------------------------------
(* split.hpp *)

\* Of two blanks one stays; what has been put in is not looked at again, so that of a run of
\* blanks every second one goes.
Squeeze(s) ==
    LET run[n \in 0 .. Len(s)] == IF n = 0 THEN 0 ELSE IF s[n] = Space THEN run[n - 1] + 1 ELSE 0
    IN Taken(s, {n \in DOMAIN s : s[n] # Space \/ run[n] % 2 = 1})

\* The first calls of replace_all; a wide exclamation mark or semicolon is a wide stop.
NarrowOne(c) == CASE c = "zstop" -> "." [] c = "zcomma" -> Comma [] OTHER -> c

Narrow(s) == [i \in DOMAIN s |-> NarrowOne(s[i])]

\* Without the blanks at either end.
Trimmed(s) ==
    Taken(s, {n \in DOMAIN s : \E a, b \in DOMAIN s : a <= n /\ n <= b /\ s[a] # Space /\ s[b] # Space})

\* The piece that is open is closed, unless there is nothing in it.
Closed(state) ==
    IF Trimmed(state.open) = <<>> THEN state.done ELSE Append(state.done, Trimmed(state.open))

CutAt(state, c, mark) ==
    IF c = mark THEN [done |-> Closed(state), open |-> <<>>]
    ELSE [done |-> state.done, open |-> Append(state.open, c)]

\* The pieces that are closed, and the one that is open when the text ends.
CutUp(s, mark) ==
    LET cut[n \in 0 .. Len(s)] ==
            IF n = 0 THEN [done |-> <<>>, open |-> <<>>] ELSE CutAt(cut[n - 1], s[n], mark)
    IN cut[Len(s)]

\* What stands before, between and after the marks, without blanks at its ends; no empty piece.
Pieces(s, mark) == Closed(CutUp(s, mark))

\* The mark behind a punctuation character ends with an exclamation mark itself.
Marked(char, c) ==
    IF char = c THEN <<c, Space, "cut">>
    ELSE IF c = "!" /\ char = "cut" THEN <<"cut", Space, "cut">>
    ELSE <<char>>

MarkAfter(s, c) == FlattenSeq([i \in DOMAIN s |-> Marked(s[i], c)])

\* Two sentences with a blank between them.
Join(a, b) == a \o <<Space>> \o b

\* One more piece: when they are longer than min_len together they are a sentence.
Gather(state, piece) ==
    LET sum == state.length + Len(piece)
        open == IF state.open = <<>> THEN piece ELSE Join(state.open, piece)
    IN IF sum > SplitMinChars
       THEN [out |-> Append(state.out, open), open |-> <<>>, length |-> 0]
       ELSE [out |-> state.out, open |-> open, length |-> sum]

GatherAll(pieces) ==
    LET gathered[n \in 0 .. Len(pieces)] ==
            IF n = 0 THEN [out |-> <<>>, open |-> <<>>, length |-> 0]
            ELSE Gather(gathered[n - 1], pieces[n])
    IN gathered[Len(pieces)]

\* Mutation: what is left when the text ends is dropped.
GatheredFull(pieces) == GatherAll(pieces).out

\* What is left when the text ends is a sentence, however short.
Gathered(pieces) ==
    LET all == GatherAll(pieces)
    IN IF all.open = <<>> THEN all.out ELSE Append(all.out, all.open)

\* A sentence of up to two words, or of two wide characters.
Short(s, latin) == (IF latin THEN Len(Pieces(s, Space)) ELSE Len(s)) <= 2

\* The last sentence takes s.
Takes(out, s) == Append(Front(out), Join(Last(out), s))

\* A short sentence takes the next one.
Merge(out, s, latin) ==
    IF out # <<>> /\ Short(Last(out), latin) THEN Takes(out, s) ELSE Append(out, s)

MergeAll(sentences, latin) ==
    LET merged[n \in 0 .. Len(sentences)] ==
            IF n = 0 THEN <<>> ELSE Merge(merged[n - 1], sentences[n], latin)
    IN merged[Len(sentences)]

\* merge_short_sentences: at the end the last one, when it is short, joins the one before.
MergeShort(sentences, latin) ==
    LET merged == MergeAll(sentences, latin)
    IN IF Len(merged) > 1 /\ Short(Last(merged), latin)
       THEN Takes(Front(merged), Last(merged)) ELSE merged

\* The bytes of chars_to_remove go one by one, those of a letter too.
EraseIn(c) == CASE c = "u^" -> "u-" [] c = "zz" -> "zz-" [] OTHER -> c

Erased(s) == LET kept == Only(s, Chars \ Bracket) IN [i \in DOMAIN kept |-> EraseIn(kept[i])]

\* split_sentences_latin: the stops are where it is cut, and go.
SplitLatin(text) == MergeShort(Pieces(Erased(Narrow(text)), "."), TRUE)

\* split_sentences_zh.
SplitZh(text) ==
    LET marked == MarkAfter(MarkAfter(MarkAfter(Squeeze(Narrow(text)), "."), Comma), "!")
    IN MergeShort(Gathered(Pieces(marked, "cut")), FALSE)

\* split_sentence; latin stands for the languages EN, FR, ES and SP.
SplitSentence(text, latin) == IF latin THEN SplitLatin(text) ELSE SplitZh(text)

-----------------------------------------------------------------------------
(* melotts_session.cpp, before a sentence is spoken *)

MostlyLatin(text) ==
    Len(Only(text, LatinLetters)) > Len(Only(text, WideLetters \cup {"zstop", "zcomma"}))

ForceSplit(text) ==
    Len(text) > (IF MostlyLatin(text) THEN LatinForceChars ELSE WideForceChars)

\* SynthesizeTextStreaming: a short text is not split at all.
SentencesOf(text, latin) ==
    IF ~ForceSplit(text) /\ SingleShotMax > 0 /\ Len(text) <= SingleShotMax
    THEN <<text>> ELSE SplitSentence(text, latin)

-----------------------------------------------------------------------------
(* lexicon.hpp *)

\* What is left of a character whose first byte was taken for one of the character before.
Rest(c) == IF c \in WideLetters \cup {"zstop", "zcomma"} THEN <<"byte", "byte">>
           ELSE IF c \in {"u^", "zz-"} THEN <<"byte">> ELSE <<>>

\* splitEachChar: a character takes as many bytes as its first one asks for, so that a broken one
\* takes the first byte of the next; of a run of broken ones every second is taken.  With what it
\* took it is no word of the list, nor is it without.
SplitEachChar(s) ==
    LET run[n \in 0 .. Len(s)] == IF n = 0 THEN 0 ELSE IF s[n] \in Broken THEN run[n - 1] + 1 ELSE 0
        eaten(n) == n > 1 /\ s[n - 1] \in Broken /\ run[n - 1] % 2 = 1
    IN FlattenSeq([n \in DOMAIN s |-> IF eaten(n) THEN Rest(s[n]) ELSE <<s[n]>>])

Lower(c) == IF c = "A" THEN "a" ELSE c

\* merge_english: a run of letters is a word in small letters, anything else stands alone.
AddTo(words, c) ==
    IF words # <<>> /\ {c, Last(words)[1]} \subseteq LatinLetters
    THEN Append(Front(words), Append(Last(words), Lower(c)))
    ELSE Append(words, <<Lower(c)>>)

MergeEnglish(s) ==
    LET words[n \in 0 .. Len(s)] == IF n = 0 THEN <<>> ELSE AddTo(words[n - 1], s[n])
    IN words[Len(s)]

Blank == Lexicon[<<Space>>]

\* appendLexiconToken: a word that is not listed is spelled, anything else is a blank.
PhonesOf(word) ==
    LET listed(w) == IF w \in DOMAIN Lexicon THEN Lexicon[w] ELSE Blank
    IN IF Narrow(word) \in DOMAIN Lexicon \/ Len(word) = 1 THEN listed(Narrow(word))
       ELSE FlattenSeq([i \in DOMAIN word |-> listed(<<word[i]>>)])

\* convert.
Convert(text) ==
    LET words == MergeEnglish(SplitEachChar(text)) IN FlattenSeq([i \in DOMAIN words |-> PhonesOf(words[i])])

\* Intersperse: a blank before, between and after.
Intersperse(phones) ==
    [i \in 1 .. 2 * Len(phones) + 1 |-> IF i % 2 = 0 THEN phones[i \div 2] ELSE 0]

\* PadOrTrim to MAX_LENGTH.
PadOrTrim(list) == [i \in 1 .. MaxPhones |-> IF i <= Len(list) THEN list[i] ELSE 0]

\* SynthesizeOneSentenceUnlocked: what the encoder is given; the length is not trimmed.
\* The underscore put at either end is not listed, so that it sounds as a blank does.
EncoderInput(sentence) ==
    LET phones == Intersperse(Convert(<<Space>> \o sentence \o <<Space>>))
    IN [phones |-> PadOrTrim(phones), phone_len |-> Len(phones)]
=============================================================================

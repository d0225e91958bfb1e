-------------------------- MODULE AnswerText_proofs --------------------------
(***************************************************************************)
(* What AnswerText promises for answers of any length, any two tags and    *)
(* any limits of the planner: nothing that is shown of an answer is lost,  *)
(* doubled or said out of order on its way to be spoken.                   *)
(*                                                                         *)
(* The invariant speaks about every way the answer may go on.  ReadAs is   *)
(* the law of ProcessInput it rests on: what is shown of a text, whatever  *)
(* follows it, is what ProcessInput made visible and what is shown of the  *)
(* held tail with what follows.  ProcessInput, Shown and Only call         *)
(* themselves on shorter texts; that such functions exist is shown here,   *)
(* and their laws are induced over the length with NatSet, a set instead   *)
(* of a predicate.                                                         *)
(*                                                                         *)
(* At the other end of the speech, what AudioPlayer promises for every     *)
(* number of children and calls, and whatever SIGPIPE does.                *)
(***************************************************************************)
EXTENDS AnswerText, AudioPlayer, SequenceTheorems, FiniteSetTheorems, WellFoundedInduction, TLAPS

-----------------------------------------------------------------------------
(* Two functions on texts that call themselves on shorter ones *)

\* Induction over a set of numbers: there is no least one outside.
LEMMA NatSet ==
    ASSUME NEW T, 0 \in T, \A n \in Nat : n \in T => n + 1 \in T
    PROVE  Nat \subseteq T
<1> DEFINE Missing == Nat \ T
<1> SUFFICES ASSUME Missing # {} PROVE FALSE
  OBVIOUS
<1>1. PICK least \in Missing : \A n \in Missing : ~ (<<n, least>> \in OpToRel(<, Nat))
  <2>1. Missing \subseteq Nat
    OBVIOUS
  <2> HIDE DEF Missing
  <2>2. QED
    BY <2>1, NatLessThanWellFounded, WFMin
<1>2. least - 1 \in Nat /\ <<least - 1, least>> \in OpToRel(<, Nat)
  BY DEF OpToRel
<1>3. least - 1 \in T
  BY <1>1, <1>2
<1>4. least - 1 + 1 = least
  OBVIOUS
<1>5. QED
  BY <1>2, <1>3, <1>4

\* What ProcessInput does with s when f does what it does with shorter texts.
ReadingIn(thinking, f, s) ==
    LET tag == Tag(thinking)
        shown(n) == IF thinking THEN <<>> ELSE Upto(s, n)
    IN IF Occurrences(s, tag) = {}
       THEN LET tail == Held(s, tag)
            IN [visible |-> shown(Len(s) - Len(tail)), thinking |-> thinking, tail |-> tail]
       ELSE LET n == Min(Occurrences(s, tag))
                next == f[After(s, n + Len(tag))][~thinking]
            IN [next EXCEPT !.visible = shown(n) \o @]

Reading(f, s) == [thinking \in BOOLEAN |-> ReadingIn(thinking, f, s)]

\* And what Shown does.
Showing(f, s) ==
    IF Occurrences(s, OpenTag) = {} THEN s
    ELSE LET open == Min(Occurrences(s, OpenTag))
             inside == After(s, open + Len(OpenTag))
         IN Upto(s, open) \o
            (IF Occurrences(inside, CloseTag) = {} THEN <<>>
             ELSE f[After(inside, Min(Occurrences(inside, CloseTag)) + Len(CloseTag))])

\* Either of them.
Body(reads, f, s) == IF reads THEN Reading(f, s) ELSE Showing(f, s)

\* f and g do the same with the texts shorter than s.
AlikeBelow(f, g, s) == \A t \in Text : Len(t) < Len(s) => f[t] = g[t]

\* The least of a set of numbers.
LEMMA MinOfNats ==
    ASSUME NEW S, S \subseteq Nat, S # {}
    PROVE  Min(S) \in S /\ \A n \in S : Min(S) <= n
<1>1. PICK least \in S : \A n \in S : ~ (<<n, least>> \in OpToRel(<, Nat))
  BY NatLessThanWellFounded, WFMin
<1>2. ASSUME NEW n \in S PROVE least <= n
  <2>1. ~ (n < least)
    BY <1>1 DEF OpToRel
  <2> QED
    BY <2>1
<1> QED
  BY <1>2 DEF Min

\* The greatest of a set of numbers that has a bound.
LEMMA MaxOfNats ==
    ASSUME NEW S, S \subseteq Nat, S # {}, NEW b \in Nat, \A n \in S : n <= b
    PROVE  Max(S) \in S /\ \A n \in S : n <= Max(S)
<1> DEFINE Distances == {d \in Nat : b - d \in S}
<1>1. Distances # {} /\ Distances \subseteq Nat
  <2>1. PICK n \in S : TRUE
    OBVIOUS
  <2>2. b - n \in Nat /\ b - (b - n) = n
    OBVIOUS
  <2> QED
    BY <2>1, <2>2
<1>2. PICK d : d = Min(Distances)
  OBVIOUS
<1>3. d \in Nat /\ b - d \in S /\ \A e \in Distances : d <= e
  <2> HIDE DEF Distances
  <2>1. d \in Distances /\ \A e \in Distances : d <= e
    BY <1>1, <1>2, MinOfNats
  <2> QED
    BY <2>1 DEF Distances
<1>4. ASSUME NEW n \in S PROVE n <= b - d
  <2>1. b - n \in Nat /\ b - (b - n) = n
    OBVIOUS
  <2>2. d <= b - n
    BY <1>3, <2>1
  <2> QED
    BY <1>3, <2>1, <2>2
<1> QED
  BY <1>3, <1>4 DEF Max

\* The tags are texts, and not empty.
LEMMA Tags ==
    ASSUME NEW thinking \in BOOLEAN
    PROVE  Tag(thinking) \in Text /\ Len(Tag(thinking)) \in Nat \ {0}
<1>1. \A tag \in Text \ {<<>>} : Len(tag) \in Nat \ {0}
  BY EmptySeq, LenProperties DEF Text
<1> QED
  BY <1>1, TextAssumption DEF Tag

\* What an occurrence is, place by place.
LEMMA OccursAt ==
    ASSUME NEW s \in Text, NEW tag \in Text, NEW n \in Nat
    PROVE  n \in Occurrences(s, tag) <=>
               n + Len(tag) <= Len(s) /\ \A i \in 1 .. Len(tag) : s[n + i] = tag[i]
<1>0. Len(s) \in Nat /\ Len(tag) \in Nat
  BY LenProperties DEF Text
<1>1. n \in 0 .. Len(s) - Len(tag) <=> n + Len(tag) <= Len(s)
  BY <1>0
<1>2. ASSUME n + Len(tag) <= Len(s)
      PROVE  SubSeq(s, n + 1, n + Len(tag)) = tag <=> \A i \in 1 .. Len(tag) : s[n + i] = tag[i]
  <2> DEFINE sub == SubSeq(s, n + 1, n + Len(tag))
  <2>1. sub \in Seq(Character) /\ Len(sub) = Len(tag) /\ \A i \in 1 .. Len(tag) : sub[i] = s[n + i]
    <3>1. \A i \in n + 1 .. n + Len(tag) : s[i] \in Character
      BY <1>0, <1>2 DEF Text
    <3>2. /\ sub \in Seq(Character)
          /\ Len(sub) = IF n + 1 <= n + Len(tag) THEN n + Len(tag) - (n + 1) + 1 ELSE 0
          /\ \A i \in 1 .. n + Len(tag) - (n + 1) + 1 : sub[i] = s[n + 1 + i - 1]
      <4>1. n + 1 \in Int /\ n + Len(tag) \in Int
        BY <1>0
      <4> QED
        BY <3>1, <4>1, SubSeqProperties
    <3>3. Len(sub) = Len(tag)
      BY <1>0, <3>2
    <3>4. ASSUME NEW i \in 1 .. Len(tag) PROVE sub[i] = s[n + i]
      <4>1. i \in 1 .. n + Len(tag) - (n + 1) + 1 /\ n + 1 + i - 1 = n + i
        BY <1>0
      <4> QED
        BY <3>2, <4>1
    <3> QED
      BY <3>2, <3>3, <3>4
  <2>2. tag \in Seq(Character)
    BY DEF Text
  <2> HIDE DEF sub
  <2>3. sub = tag <=> \A i \in 1 .. Len(tag) : sub[i] = tag[i]
    BY <2>1, <2>2, SeqEqual
  <2> QED
    BY <2>1, <2>3 DEF sub
<1> QED
  BY <1>1, <1>2 DEF Occurrences

\* The first occurrence, if there is one.
LEMMA FirstOccurrence ==
    ASSUME NEW s \in Text, NEW tag \in Text, Occurrences(s, tag) # {}
    PROVE  /\ Min(Occurrences(s, tag)) \in Nat
           /\ Min(Occurrences(s, tag)) + Len(tag) <= Len(s)
           /\ Min(Occurrences(s, tag)) \in Occurrences(s, tag)
           /\ \A n \in Occurrences(s, tag) : Min(Occurrences(s, tag)) <= n
<1>1. Len(s) \in Nat /\ Len(tag) \in Nat
  BY LenProperties DEF Text
<1>2. Occurrences(s, tag) \subseteq Nat
  BY <1>1 DEF Occurrences
<1> QED
  BY <1>1, <1>2, MinOfNats, OccursAt

\* Beginning and end of a text.
LEMMA Cut ==
    ASSUME NEW s \in Text, NEW n \in Nat, n <= Len(s)
    PROVE  /\ Upto(s, n) \in Text /\ Len(Upto(s, n)) = n
           /\ \A i \in 1 .. n : Upto(s, n)[i] = s[i]
           /\ After(s, n) \in Text /\ Len(After(s, n)) = Len(s) - n
           /\ \A i \in 1 .. Len(s) - n : After(s, n)[i] = s[n + i]
<1>0. Len(s) \in Nat
  BY LenProperties DEF Text
<1>1. Upto(s, n) = [i \in 1 .. n |-> s[i]]
  BY <1>0 DEF Upto, Text
<1>2. After(s, n) = [i \in 1 .. Len(s) - n |-> s[n + i]]
  BY <1>0 DEF After, Text
<1>3. \A i \in 1 .. Len(s) : s[i] \in Character
  BY DEF Text
<1>4. \A i \in 1 .. Len(s) - n : n + i \in 1 .. Len(s)
  BY <1>0
<1>5. Upto(s, n) \in Text /\ Len(Upto(s, n)) = n
  BY <1>0, <1>1, <1>3 DEF Text
<1>6. After(s, n) \in Text /\ Len(After(s, n)) = Len(s) - n
  <2>1. Len(s) - n \in Nat
    BY <1>0
  <2> QED
    BY <1>0, <1>2, <1>3, <1>4, <2>1 DEF Text
<1> QED
  BY <1>1, <1>2, <1>5, <1>6

\* What follows the first occurrence of a tag is shorter.
LEMMA BehindTag ==
    ASSUME NEW s \in Text, NEW thinking \in BOOLEAN, Occurrences(s, Tag(thinking)) # {}
    PROVE  LET rest == After(s, Min(Occurrences(s, Tag(thinking))) + Len(Tag(thinking)))
           IN rest \in Text /\ Len(rest) \in Nat /\ Len(rest) < Len(s)
<1> DEFINE L == Len(Tag(thinking))
           first == Min(Occurrences(s, Tag(thinking)))
<1>1. Tag(thinking) \in Text /\ L \in Nat \ {0}
  BY Tags
<1>2. first \in Nat /\ first + L <= Len(s) /\ Len(s) \in Nat
  BY <1>1, FirstOccurrence, LenProperties DEF Text
<1> HIDE DEF L, first
<1>3. first + L \in Nat
  BY <1>1, <1>2
<1>4. After(s, first + L) \in Text /\ Len(After(s, first + L)) = Len(s) - (first + L)
  BY <1>2, <1>3, Cut
<1> QED
  BY <1>1, <1>2, <1>4 DEF L, first

\* Each asks for shorter texts only.
LEMMA BodyAlike ==
    ASSUME NEW reads \in BOOLEAN, NEW f, NEW g, NEW s \in Text, AlikeBelow(f, g, s)
    PROVE  Body(reads, f, s) = Body(reads, g, s)
<1>1. ASSUME NEW thinking \in BOOLEAN
      PROVE  ReadingIn(thinking, f, s) = ReadingIn(thinking, g, s)
  <2>1. CASE Occurrences(s, Tag(thinking)) = {}
    BY <2>1 DEF ReadingIn
  <2>2. CASE Occurrences(s, Tag(thinking)) # {}
    <3>1. PICK rest : rest = After(s, Min(Occurrences(s, Tag(thinking))) + Len(Tag(thinking)))
      OBVIOUS
    <3>2. rest \in Text /\ Len(rest) < Len(s)
      BY <2>2, <3>1, BehindTag
    <3>3. f[rest] = g[rest]
      BY <3>2 DEF AlikeBelow
    <3> QED
      BY <2>2, <3>1, <3>3 DEF ReadingIn
  <2> QED
    BY <2>1, <2>2
<1>2. Reading(f, s) = Reading(g, s)
  BY <1>1, Zenon DEF Reading
<1>3. Showing(f, s) = Showing(g, s)
  <2>0. Tag(FALSE) = OpenTag /\ Tag(TRUE) = CloseTag
    BY DEF Tag
  <2>1. CASE Occurrences(s, OpenTag) = {}
    BY <2>1 DEF Showing
  <2>2. CASE Occurrences(s, OpenTag) # {}
    <3>1. PICK inside : inside = After(s, Min(Occurrences(s, OpenTag)) + Len(OpenTag))
      OBVIOUS
    <3>2. inside \in Text /\ Len(inside) \in Nat /\ Len(inside) < Len(s)
      BY <2>0, <2>2, <3>1, BehindTag
    <3>3. CASE Occurrences(inside, CloseTag) = {}
      BY <2>2, <3>1, <3>3 DEF Showing
    <3>4. CASE Occurrences(inside, CloseTag) # {}
      <4>1. PICK rest : rest = After(inside, Min(Occurrences(inside, CloseTag)) + Len(CloseTag))
        OBVIOUS
      <4>2. rest \in Text /\ Len(rest) \in Nat /\ Len(rest) < Len(inside)
        BY <2>0, <3>2, <3>4, <4>1, BehindTag
      <4>3. Len(s) \in Nat
        BY LenProperties DEF Text
      <4>4. f[rest] = g[rest]
        BY <3>2, <4>2, <4>3 DEF AlikeBelow
      <4> QED
        BY <2>2, <3>1, <3>4, <4>1, <4>4 DEF Showing
    <3> QED
      BY <3>3, <3>4
  <2> QED
    BY <2>1, <2>2
<1> QED
  BY <1>2, <1>3 DEF Body

\* g is the function up to texts of n characters.
PartUpto(reads, g, n) == \A s \in Text : Len(s) < n => g[s] = Body(reads, g, s)

\* Two such parts agree where both are defined.
LEMMA PartsAgree ==
    ASSUME NEW reads \in BOOLEAN, NEW m \in Nat, NEW n \in Nat, NEW f, NEW g,
           PartUpto(reads, f, m), PartUpto(reads, g, n)
    PROVE  \A s \in Text : Len(s) < m /\ Len(s) < n => f[s] = g[s]
<1> DEFINE T == {k \in Nat : \A s \in Text :
                                Len(s) < k /\ Len(s) < m /\ Len(s) < n => f[s] = g[s]}
<1>0. \A s \in Text : Len(s) \in Nat
  BY LenProperties DEF Text
<1>1. 0 \in T
  BY <1>0
<1>2. ASSUME NEW k \in Nat, k \in T PROVE k + 1 \in T
  <2>1. ASSUME NEW s \in Text, Len(s) < k + 1, Len(s) < m, Len(s) < n PROVE f[s] = g[s]
    <3>1. AlikeBelow(f, g, s)
      <4>1. ASSUME NEW t \in Text, Len(t) < Len(s) PROVE f[t] = g[t]
        <5>1. Len(t) < k /\ Len(t) < m /\ Len(t) < n
          BY <1>0, <2>1, <4>1
        <5> QED
          BY <1>2, <5>1
      <4> QED
        BY <4>1 DEF AlikeBelow
    <3>2. Body(reads, f, s) = Body(reads, g, s)
      BY <3>1, BodyAlike
    <3> QED
      BY <2>1, <3>2 DEF PartUpto
  <2> QED
    BY <2>1
<1>3. Nat \subseteq T
  <2> HIDE DEF T
  <2> QED BY <1>1, <1>2, NatSet
<1>4. ASSUME NEW s \in Text, Len(s) < m, Len(s) < n PROVE f[s] = g[s]
  <2>1. Len(s) + 1 \in T /\ Len(s) < Len(s) + 1
    BY <1>0, <1>3
  <2> QED
    BY <1>4, <2>1
<1> QED
  BY <1>4

\* There is a part of any size.
LEMMA PartsExist ==
    ASSUME NEW reads \in BOOLEAN
    PROVE  \A n \in Nat : \E g : PartUpto(reads, g, n)
<1> DEFINE T == {n \in Nat : \E g : PartUpto(reads, g, n)}
<1>0. \A s \in Text : Len(s) \in Nat
  BY LenProperties DEF Text
<1>1. 0 \in T
  BY <1>0 DEF PartUpto
<1>2. ASSUME NEW n \in Nat, n \in T PROVE n + 1 \in T
  <2>1. PICK g : PartUpto(reads, g, n)
    BY <1>2
  <2>2. PICK h : h = [s \in Text |-> Body(reads, g, s)]
    OBVIOUS
  <2>3. ASSUME NEW s \in Text, Len(s) < n + 1 PROVE h[s] = Body(reads, h, s)
    <3>1. AlikeBelow(g, h, s)
      <4>1. ASSUME NEW t \in Text, Len(t) < Len(s) PROVE g[t] = h[t]
        <5>1. Len(t) < n
          BY <1>0, <2>3, <4>1
        <5> QED
          BY <2>1, <2>2, <5>1 DEF PartUpto
      <4> QED
        BY <4>1 DEF AlikeBelow
    <3> QED
      BY <2>2, <3>1, BodyAlike
  <2> QED
    BY <2>3 DEF PartUpto
<1>3. Nat \subseteq T
  <2> HIDE DEF T
  <2> QED BY <1>1, <1>2, NatSet
<1> QED
  BY <1>3

\* So the whole function exists.
LEMMA BodyHasFunction ==
    ASSUME NEW reads \in BOOLEAN
    PROVE  \E f : f = [s \in Text |-> Body(reads, f, s)]
<1>0. \A s \in Text : Len(s) \in Nat
  BY LenProperties DEF Text
<1> DEFINE part(n) == CHOOSE g : PartUpto(reads, g, n)
           f == [s \in Text |-> part(Len(s) + 1)[s]]
<1>1. \A n \in Nat : PartUpto(reads, part(n), n)
  BY PartsExist
<1> HIDE DEF part
<1>2. ASSUME NEW s \in Text PROVE f[s] = Body(reads, f, s)
  <2>1. PICK g : g = part(Len(s) + 1)
    OBVIOUS
  <2>2. PartUpto(reads, g, Len(s) + 1)
    BY <1>0, <1>1, <2>1
  <2>3. AlikeBelow(g, f, s)
    <3>1. ASSUME NEW t \in Text, Len(t) < Len(s) PROVE g[t] = f[t]
      <4>1. PartUpto(reads, part(Len(t) + 1), Len(t) + 1)
        BY <1>0, <1>1
      <4>2. Len(t) < Len(t) + 1 /\ Len(t) < Len(s) + 1
        BY <1>0, <3>1
      <4>3. Len(t) + 1 \in Nat /\ Len(s) + 1 \in Nat
        BY <1>0
      <4>4. g[t] = part(Len(t) + 1)[t]
        BY <2>2, <4>1, <4>2, <4>3, PartsAgree
      <4> QED
        BY <4>4
    <3> HIDE DEF f
    <3> QED
      BY <3>1 DEF AlikeBelow
  <2>4. g[s] = Body(reads, g, s)
    <3>1. Len(s) < Len(s) + 1
      BY <1>0
    <3> QED
      BY <2>2, <3>1 DEF PartUpto
  <2>5. f[s] = g[s]
    BY <2>1
  <2> HIDE DEF f
  <2> QED
    BY <2>3, <2>4, <2>5, BodyAlike
<1>3. f = [s \in Text |-> f[s]]
  OBVIOUS
<1> HIDE DEF f
<1> QED
  BY <1>2, <1>3

\* ProcessInput, one turn of its loop.
LEMMA ProcessInputTurns ==
    \A s \in Text : \A thinking \in BOOLEAN :
        ProcessInput[s][thinking] = ReadingIn(thinking, ProcessInput, s)
<1>1. \E f : f = [s \in Text |-> Reading(f, s)]
  <2>1. PICK f : f = [s \in Text |-> Body(TRUE, f, s)]
    BY BodyHasFunction
  <2>2. f = [s \in Text |-> Reading(f, s)]
    BY <2>1, Zenon DEF Body
  <2> QED
    BY <2>2
<1>2. ProcessInput = CHOOSE f : f = [s \in Text |-> Reading(f, s)]
  BY DEF ProcessInput, Reading, ReadingIn
<1>3. ProcessInput = [s \in Text |-> Reading(ProcessInput, s)]
  BY <1>1, <1>2
<1>4. \A s \in Text : ProcessInput[s] = Reading(ProcessInput, s)
  BY <1>3
<1> QED
  BY <1>4 DEF Reading

\* Shown, from one piece of thinking to the next.
LEMMA ShownTurns == \A s \in Text : Shown[s] = Showing(Shown, s)
<1>1. \E f : f = [s \in Text |-> Showing(f, s)]
  <2>1. PICK f : f = [s \in Text |-> Body(FALSE, f, s)]
    BY BodyHasFunction
  <2>2. f = [s \in Text |-> Showing(f, s)]
    BY <2>1, Zenon DEF Body
  <2> QED
    BY <2>2
<1>2. Shown = CHOOSE f : f = [s \in Text |-> Showing(f, s)]
  BY DEF Shown, Showing
<1>3. Shown = [s \in Text |-> Showing(Shown, s)]
  BY <1>1, <1>2
<1> QED
  BY <1>3

\* What is shown of a text is a text.
LEMMA ShownIsText == \A s \in Text : Shown[s] \in Text
<1> DEFINE T == {k \in Nat : \A s \in Text : Len(s) < k => Shown[s] \in Text}
<1>0. \A s \in Text : Len(s) \in Nat
  BY LenProperties DEF Text
<1>1. 0 \in T
  BY <1>0
<1>2. ASSUME NEW k \in Nat, k \in T PROVE k + 1 \in T
  <2>1. ASSUME NEW s \in Text, Len(s) < k + 1 PROVE Shown[s] \in Text
    <3>0. Tag(FALSE) = OpenTag /\ Tag(TRUE) = CloseTag
      BY DEF Tag
    <3>1. Shown[s] = Showing(Shown, s)
      BY ShownTurns
    <3>2. CASE Occurrences(s, OpenTag) = {}
      BY <3>1, <3>2 DEF Showing
    <3>3. CASE Occurrences(s, OpenTag) # {}
      <4>1. PICK open : open = Min(Occurrences(s, OpenTag))
        OBVIOUS
      <4>2. PICK inside : inside = After(s, open + Len(OpenTag))
        OBVIOUS
      <4>3. inside \in Text /\ Len(inside) < Len(s)
        BY <3>0, <3>3, <4>1, <4>2, BehindTag
      <4>4. open \in Nat /\ open <= Len(s)
        <5>1. OpenTag \in Text /\ Len(OpenTag) \in Nat
          BY <3>0, Tags
        <5>2. open \in Nat /\ open + Len(OpenTag) <= Len(s)
          BY <3>3, <4>1, <5>1, FirstOccurrence
        <5> QED
          BY <1>0, <5>1, <5>2
      <4>5. Upto(s, open) \in Text
        BY <4>4, Cut
      <4>6. CASE Occurrences(inside, CloseTag) = {}
        <5>1. Shown[s] = Upto(s, open) \o <<>>
          BY <3>1, <3>3, <4>1, <4>2, <4>6, Zenon DEF Showing
        <5> QED
          BY <4>5, <5>1, ConcatEmptySeq DEF Text
      <4>7. CASE Occurrences(inside, CloseTag) # {}
        <5>1. PICK rest : rest = After(inside, Min(Occurrences(inside, CloseTag)) + Len(CloseTag))
          OBVIOUS
        <5>2. rest \in Text /\ Len(rest) < Len(inside)
          BY <3>0, <4>3, <4>7, <5>1, BehindTag
        <5>3. Shown[s] = Upto(s, open) \o Shown[rest]
          BY <3>1, <3>3, <4>1, <4>2, <4>7, <5>1, Zenon DEF Showing
        <5>4. Len(rest) < k
          BY <1>0, <2>1, <4>3, <5>2
        <5>5. Shown[rest] \in Text
          BY <1>2, <5>2, <5>4
        <5> QED
          BY <4>5, <5>3, <5>5, ConcatProperties DEF Text
      <4> QED
        BY <4>6, <4>7
    <3> QED
      BY <3>2, <3>3
  <2> QED
    BY <2>1
<1>3. Nat \subseteq T
  <2> HIDE DEF T
  <2> QED BY <1>1, <1>2, NatSet
<1>4. ASSUME NEW s \in Text PROVE Shown[s] \in Text
  <2>1. Len(s) + 1 \in T /\ Len(s) < Len(s) + 1
    BY <1>0, <1>3
  <2> QED
    BY <2>1
<1> QED
  BY <1>4

-----------------------------------------------------------------------------
(* Where the tags are in a text that goes on *)

\* Two texts one behind the other.
LEMMA TwoJoined ==
    ASSUME NEW s \in Text, NEW t \in Text
    PROVE  /\ s \o t \in Text /\ Len(s) \in Nat /\ Len(t) \in Nat
           /\ Len(s \o t) = Len(s) + Len(t)
           /\ \A i \in 1 .. Len(s) : (s \o t)[i] = s[i]
           /\ \A i \in 1 .. Len(t) : (s \o t)[Len(s) + i] = t[i]
<1>1. Len(s) \in Nat /\ Len(t) \in Nat
  BY LenProperties DEF Text
<1>2. /\ s \o t \in Text /\ Len(s \o t) = Len(s) + Len(t)
      /\ \A i \in 1 .. Len(s) + Len(t) :
            (s \o t)[i] = IF i <= Len(s) THEN s[i] ELSE t[i - Len(s)]
  BY ConcatProperties DEF Text
<1>3. ASSUME NEW i \in 1 .. Len(s) PROVE (s \o t)[i] = s[i]
  <2>1. i \in 1 .. Len(s) + Len(t) /\ i <= Len(s)
    BY <1>1
  <2> QED
    BY <1>2, <2>1
<1>4. ASSUME NEW i \in 1 .. Len(t) PROVE (s \o t)[Len(s) + i] = t[i]
  <2>1. /\ Len(s) + i \in 1 .. Len(s) + Len(t) /\ ~ (Len(s) + i <= Len(s))
        /\ (Len(s) + i) - Len(s) = i
    BY <1>1
  <2> QED
    BY <1>2, <2>1
<1> QED
  BY <1>1, <1>2, <1>3, <1>4

\* Three pieces that may be joined in either order.
JoinsEitherWay(a, b, c) == (a \o b) \o c = a \o (b \o c)

\* Texts are.
LEMMA JoinedThree ==
    ASSUME NEW a \in Text, NEW b \in Text, NEW c \in Text
    PROVE  JoinsEitherWay(a, b, c)
BY ConcatAssociative DEF Text, JoinsEitherWay

\* Two texts are the same when their characters are.
LEMMA SameText ==
    ASSUME NEW s \in Text, NEW t \in Text, Len(s) = Len(t), \A i \in 1 .. Len(s) : s[i] = t[i]
    PROVE  s = t
BY SeqEqual DEF Text

\* A beginning of s is cut off the same way when more follows.
LEMMA CutsStay ==
    ASSUME NEW s \in Text, NEW c \in Text, NEW n \in Nat, n <= Len(s)
    PROVE  Upto(s \o c, n) = Upto(s, n) /\ After(s \o c, n) = After(s, n) \o c
<1>1. PICK w : w = s \o c
  OBVIOUS
<1>2. /\ w \in Text /\ Len(s) \in Nat /\ Len(c) \in Nat /\ Len(w) = Len(s) + Len(c)
      /\ \A i \in 1 .. Len(s) : w[i] = s[i]
      /\ \A i \in 1 .. Len(c) : w[Len(s) + i] = c[i]
  BY <1>1, TwoJoined
<1>3. n <= Len(w)
  BY <1>2
<1>4. Upto(w, n) = Upto(s, n)
  <2>1. /\ Upto(w, n) \in Text /\ Len(Upto(w, n)) = n /\ \A i \in 1 .. n : Upto(w, n)[i] = w[i]
        /\ Upto(s, n) \in Text /\ Len(Upto(s, n)) = n /\ \A i \in 1 .. n : Upto(s, n)[i] = s[i]
    BY <1>2, <1>3, Cut
  <2>2. \A i \in 1 .. n : w[i] = s[i]
    BY <1>2
  <2> QED
    BY <2>1, <2>2, SameText
<1>5. After(w, n) = After(s, n) \o c
  <2>1. PICK a : a = After(s, n)
    OBVIOUS
  <2>2. PICK b : b = After(w, n)
    OBVIOUS
  <2>3. /\ a \in Text /\ Len(a) = Len(s) - n /\ \A i \in 1 .. Len(s) - n : a[i] = s[n + i]
        /\ b \in Text /\ Len(b) = Len(w) - n /\ \A i \in 1 .. Len(w) - n : b[i] = w[n + i]
    BY <1>2, <1>3, <2>1, <2>2, Cut
  <2>4. PICK d : d = a \o c
    OBVIOUS
  <2>5. /\ d \in Text /\ Len(d) = Len(a) + Len(c)
        /\ \A i \in 1 .. Len(a) : d[i] = a[i]
        /\ \A i \in 1 .. Len(c) : d[Len(a) + i] = c[i]
    <3>1. a \in Text
      BY <2>3
    <3> QED
      BY <2>4, <3>1, TwoJoined
  <2>6. Len(b) = Len(d)
    BY <1>2, <2>3, <2>5
  <2>7. ASSUME NEW i \in 1 .. Len(b) PROVE b[i] = d[i]
    <3>1. CASE i <= Len(a)
      <4>1. i \in 1 .. Len(a) /\ n + i \in 1 .. Len(s) /\ i \in 1 .. Len(w) - n
        BY <1>2, <2>3, <3>1
      <4> QED
        BY <1>2, <2>3, <2>5, <4>1
    <3>2. CASE i > Len(a)
      <4>1. PICK k : k = i - Len(a)
        OBVIOUS
      <4>2. /\ k \in 1 .. Len(c) /\ n + i = Len(s) + k /\ i = Len(a) + k
            /\ i \in 1 .. Len(w) - n
        BY <1>2, <2>3, <3>2, <4>1
      <4> QED
        BY <1>2, <2>3, <2>5, <4>2
    <3> QED
      BY <1>2, <2>3, <3>1, <3>2
  <2>8. b = d
    BY <2>3, <2>5, <2>6, <2>7, SameText
  <2> QED
    BY <2>1, <2>2, <2>4, <2>8
<1> QED
  BY <1>1, <1>4, <1>5

\* What is cut behind u is cut off w.
LEMMA CutsShift ==
    ASSUME NEW u \in Text, NEW w \in Text, NEW n \in Nat, n <= Len(w)
    PROVE  /\ Upto(u \o w, Len(u) + n) = u \o Upto(w, n)
           /\ After(u \o w, Len(u) + n) = After(w, n)
<1>1. PICK s : s = u \o w
  OBVIOUS
<1>2. /\ s \in Text /\ Len(u) \in Nat /\ Len(w) \in Nat /\ Len(s) = Len(u) + Len(w)
      /\ \A i \in 1 .. Len(u) : s[i] = u[i]
      /\ \A i \in 1 .. Len(w) : s[Len(u) + i] = w[i]
  BY <1>1, TwoJoined
<1>3. PICK k : k = Len(u) + n
  OBVIOUS
<1>4. k \in Nat /\ k <= Len(s)
  BY <1>2, <1>3
<1>5. /\ Upto(s, k) \in Text /\ Len(Upto(s, k)) = k /\ \A i \in 1 .. k : Upto(s, k)[i] = s[i]
      /\ After(s, k) \in Text /\ Len(After(s, k)) = Len(s) - k
      /\ \A i \in 1 .. Len(s) - k : After(s, k)[i] = s[k + i]
  BY <1>2, <1>4, Cut
<1>6. /\ Upto(w, n) \in Text /\ Len(Upto(w, n)) = n /\ \A i \in 1 .. n : Upto(w, n)[i] = w[i]
      /\ After(w, n) \in Text /\ Len(After(w, n)) = Len(w) - n
      /\ \A i \in 1 .. Len(w) - n : After(w, n)[i] = w[n + i]
  BY Cut
<1>7. After(s, k) = After(w, n)
  <2>1. Len(s) - k = Len(w) - n
    BY <1>2, <1>3
  <2>2. ASSUME NEW i \in 1 .. Len(w) - n PROVE s[k + i] = w[n + i]
    <3>1. n + i \in 1 .. Len(w) /\ k + i = Len(u) + (n + i)
      BY <1>2, <1>3
    <3> QED
      BY <1>2, <3>1
  <2>3. PICK a, b : a = After(s, k) /\ b = After(w, n)
    OBVIOUS
  <2>4. a \in Text /\ b \in Text /\ Len(a) = Len(b) /\ Len(a) = Len(w) - n
    BY <1>5, <1>6, <2>1, <2>3
  <2>5. \A i \in 1 .. Len(a) : a[i] = b[i]
    BY <1>5, <1>6, <2>1, <2>2, <2>3, <2>4
  <2>6. a = b
    BY <2>4, <2>5, SameText
  <2> QED
    BY <2>3, <2>6
<1>8. Upto(s, k) = u \o Upto(w, n)
  <2>1. PICK b : b = Upto(w, n)
    OBVIOUS
  <2>2. PICK d : d = u \o b
    OBVIOUS
  <2>3. /\ d \in Text /\ Len(d) = Len(u) + n
        /\ \A i \in 1 .. Len(u) : d[i] = u[i]
        /\ \A i \in 1 .. n : d[Len(u) + i] = b[i]
    <3>1. b \in Text /\ Len(b) = n
      BY <1>6, <2>1
    <3>2. /\ d \in Text /\ Len(d) = Len(u) + Len(b)
          /\ \A i \in 1 .. Len(u) : d[i] = u[i]
          /\ \A i \in 1 .. Len(b) : d[Len(u) + i] = b[i]
      BY <2>2, <3>1, TwoJoined
    <3> QED
      BY <3>1, <3>2
  <2>4. ASSUME NEW i \in 1 .. k PROVE Upto(s, k)[i] = d[i]
    <3>1. CASE i <= Len(u)
      BY <1>2, <1>5, <2>3, <3>1
    <3>2. CASE i > Len(u)
      <4>1. PICK j : j = i - Len(u)
        OBVIOUS
      <4>2. j \in 1 .. n /\ j \in 1 .. Len(w) /\ i = Len(u) + j
        BY <1>2, <1>3, <3>2, <4>1
      <4> QED
        BY <1>2, <1>5, <1>6, <2>1, <2>3, <4>2
    <3> QED
      BY <1>2, <3>1, <3>2
  <2>5. Upto(s, k) = d
    BY <1>3, <1>5, <2>3, <2>4, SameText
  <2> QED
    BY <2>1, <2>2, <2>5
<1> QED
  BY <1>1, <1>3, <1>7, <1>8

\* The first tag of s is the first one when more follows.
LEMMA FirstStays ==
    ASSUME NEW s \in Text, NEW c \in Text, NEW tag \in Text, Occurrences(s, tag) # {}
    PROVE  /\ Occurrences(s \o c, tag) # {}
           /\ Min(Occurrences(s \o c, tag)) = Min(Occurrences(s, tag))
<1>1. PICK w : w = s \o c
  OBVIOUS
<1>2. /\ w \in Text /\ Len(s) \in Nat /\ Len(c) \in Nat /\ Len(w) = Len(s) + Len(c)
      /\ \A i \in 1 .. Len(s) : w[i] = s[i]
  BY <1>1, TwoJoined
<1>3. Len(tag) \in Nat
  BY LenProperties DEF Text
<1>4. ASSUME NEW n \in Nat, n + Len(tag) <= Len(s)
      PROVE  n \in Occurrences(w, tag) <=> n \in Occurrences(s, tag)
  <2>1. n + Len(tag) <= Len(w)
    BY <1>2, <1>3, <1>4
  <2>2. \A i \in 1 .. Len(tag) : w[n + i] = s[n + i]
    BY <1>2, <1>3, <1>4
  <2>3. n \in Occurrences(s, tag) <=> \A i \in 1 .. Len(tag) : s[n + i] = tag[i]
    BY <1>4, OccursAt
  <2>4. n \in Occurrences(w, tag) <=> \A i \in 1 .. Len(tag) : w[n + i] = tag[i]
    BY <1>2, <2>1, OccursAt
  <2> QED
    BY <2>2, <2>3, <2>4
<1>5. PICK first : first = Min(Occurrences(s, tag))
  OBVIOUS
<1>6. /\ first \in Nat /\ first + Len(tag) <= Len(s) /\ first \in Occurrences(s, tag)
      /\ \A n \in Occurrences(s, tag) : first <= n
  BY <1>5, FirstOccurrence
<1>7. first \in Occurrences(w, tag)
  BY <1>4, <1>6
<1>8. PICK low : low = Min(Occurrences(w, tag))
  OBVIOUS
<1>9. /\ low \in Nat /\ low \in Occurrences(w, tag)
      /\ \A n \in Occurrences(w, tag) : low <= n
  BY <1>2, <1>7, <1>8, FirstOccurrence
<1>10. low <= first
  BY <1>7, <1>9
<1>11. low \in Occurrences(s, tag)
  <2>1. low + Len(tag) <= Len(s)
    BY <1>3, <1>6, <1>9, <1>10
  <2> QED
    BY <1>4, <1>9, <2>1
<1>12. low = first
  BY <1>6, <1>9, <1>10, <1>11
<1> QED
  BY <1>1, <1>5, <1>7, <1>8, <1>12

\* When none begins in u, the tags are those of what follows u.
LEMMA OccurrencesShift ==
    ASSUME NEW u \in Text, NEW w \in Text, NEW tag \in Text,
           \A n \in Occurrences(u \o w, tag) : Len(u) <= n
    PROVE  /\ Occurrences(u \o w, tag) = {} <=> Occurrences(w, tag) = {}
           /\ Occurrences(w, tag) # {} =>
                 Min(Occurrences(u \o w, tag)) = Len(u) + Min(Occurrences(w, tag))
<1>1. PICK s : s = u \o w
  OBVIOUS
<1>2. /\ s \in Text /\ Len(u) \in Nat /\ Len(w) \in Nat /\ Len(s) = Len(u) + Len(w)
      /\ \A i \in 1 .. Len(w) : s[Len(u) + i] = w[i]
  BY <1>1, TwoJoined
<1>3. Len(tag) \in Nat
  BY LenProperties DEF Text
<1>4. ASSUME NEW n \in Nat
      PROVE  Len(u) + n \in Occurrences(s, tag) <=> n \in Occurrences(w, tag)
  <2>1. PICK k : k = Len(u) + n
    OBVIOUS
  <2>2. k \in Nat /\ (k + Len(tag) <= Len(s) <=> n + Len(tag) <= Len(w))
    BY <1>2, <1>3, <2>1
  <2>3. ASSUME n + Len(tag) <= Len(w), NEW i \in 1 .. Len(tag) PROVE s[k + i] = w[n + i]
    <3>1. n + i \in 1 .. Len(w) /\ k + i = Len(u) + (n + i)
      BY <1>2, <1>3, <2>1, <2>3
    <3> QED
      BY <1>2, <3>1
  <2>4. k \in Occurrences(s, tag) <=>
            k + Len(tag) <= Len(s) /\ \A i \in 1 .. Len(tag) : s[k + i] = tag[i]
    <3>1. s \in Text /\ k \in Nat
      BY <1>2, <2>2
    <3> QED
      BY <3>1, OccursAt
  <2>5. n \in Occurrences(w, tag) <=>
            n + Len(tag) <= Len(w) /\ \A i \in 1 .. Len(tag) : w[n + i] = tag[i]
    BY OccursAt
  <2>6. k \in Occurrences(s, tag) <=> n \in Occurrences(w, tag)
    BY <2>2, <2>3, <2>4, <2>5
  <2> QED
    BY <2>1, <2>6
<1>5. \A n \in Occurrences(s, tag) : n - Len(u) \in Nat /\ n = Len(u) + (n - Len(u))
  <2>1. Occurrences(s, tag) \subseteq Nat
    BY <1>2, <1>3 DEF Occurrences
  <2> QED
    BY <1>1, <1>2, <2>1
<1>6. Occurrences(w, tag) \subseteq Nat
  BY <1>2, <1>3 DEF Occurrences
<1>7. Occurrences(s, tag) = {} <=> Occurrences(w, tag) = {}
  BY <1>4, <1>5, <1>6
<1>8. ASSUME Occurrences(w, tag) # {}
      PROVE  Min(Occurrences(s, tag)) = Len(u) + Min(Occurrences(w, tag))
  <2>1. PICK first, low : first = Min(Occurrences(w, tag)) /\ low = Min(Occurrences(s, tag))
    OBVIOUS
  <2>2. /\ first \in Nat /\ first \in Occurrences(w, tag)
        /\ \A n \in Occurrences(w, tag) : first <= n
    BY <1>8, <2>1, FirstOccurrence
  <2>3. /\ low \in Nat /\ low \in Occurrences(s, tag)
        /\ \A n \in Occurrences(s, tag) : low <= n
    BY <1>2, <1>7, <1>8, <2>1, FirstOccurrence
  <2>4. low <= Len(u) + first
    BY <1>4, <2>2, <2>3
  <2>5. first <= low - Len(u)
    <3>1. low - Len(u) \in Nat /\ low = Len(u) + (low - Len(u))
      BY <1>5, <2>3
    <3>2. low - Len(u) \in Occurrences(w, tag)
      BY <1>4, <2>3, <3>1
    <3> QED
      BY <2>2, <3>2
  <2>6. low = Len(u) + first
    BY <1>2, <2>2, <2>3, <2>4, <2>5
  <2> QED
    BY <2>1, <2>6
<1> QED
  BY <1>1, <1>7, <1>8

\* What it is that s ends with a.
LEMMA SuffixAt ==
    ASSUME NEW a \in Text, NEW s \in Text
    PROVE  IsSuffix(a, s) <=>
               Len(a) <= Len(s) /\ \A i \in 1 .. Len(a) : a[i] = s[(Len(s) - Len(a)) + i]
<1>0. Len(a) \in Nat /\ Len(s) \in Nat
  BY LenProperties DEF Text
<1>1. ASSUME NEW t \in Text, NEW m \in Nat, m <= Len(t)
      PROVE  /\ SubSeq(Reverse(t), 1, m) = [i \in 1 .. m |-> t[(Len(t) - i) + 1]]
             /\ Len(Reverse(t)) = Len(t)
  <2>1. Len(t) \in Nat
    BY LenProperties DEF Text
  <2>2. PICK r : r = Reverse(t)
    OBVIOUS
  <2>3. r = [i \in 1 .. Len(t) |-> t[(Len(t) - i) + 1]]
    BY <2>2 DEF Reverse
  <2>4. r \in Text /\ Len(r) = Len(t)
    <3>1. \A i \in 1 .. Len(t) : (Len(t) - i) + 1 \in 1 .. Len(t)
      BY <2>1
    <3>2. \A i \in 1 .. Len(t) : t[(Len(t) - i) + 1] \in Character
      BY <3>1 DEF Text
    <3>3. r \in [1 .. Len(t) -> Character]
      BY <2>3, <3>2
    <3> QED
      BY <2>1, <2>3, <3>3 DEF Text
  <2>5. SubSeq(r, 1, m) = [i \in 1 .. m |-> r[i]]
    BY <1>1, <2>4 DEF Text
  <2>6. \A i \in 1 .. m : r[i] = t[(Len(t) - i) + 1]
    BY <1>1, <2>1, <2>3
  <2> QED
    BY <2>2, <2>4, <2>5, <2>6
<1>2. IsSuffix(a, s) <=>
          Len(a) <= Len(s) /\ \A i \in 1 .. Len(a) : a[(Len(a) - i) + 1] = s[(Len(s) - i) + 1]
  <2>1. Len(Reverse(a)) = Len(a) /\ Len(Reverse(s)) = Len(s)
    BY <1>0, <1>1
  <2>2. IsSuffix(a, s) <=>
            Len(a) <= Len(s) /\ SubSeq(Reverse(a), 1, Len(a)) = SubSeq(Reverse(s), 1, Len(a))
    BY <2>1, Zenon DEF IsSuffix, IsPrefix
  <2>3. ASSUME Len(a) <= Len(s)
        PROVE  SubSeq(Reverse(a), 1, Len(a)) = SubSeq(Reverse(s), 1, Len(a)) <=>
                   \A i \in 1 .. Len(a) : a[(Len(a) - i) + 1] = s[(Len(s) - i) + 1]
    <3>1. /\ SubSeq(Reverse(a), 1, Len(a)) = [i \in 1 .. Len(a) |-> a[(Len(a) - i) + 1]]
          /\ SubSeq(Reverse(s), 1, Len(a)) = [i \in 1 .. Len(a) |-> s[(Len(s) - i) + 1]]
      BY <1>0, <1>1, <2>3
    <3> QED
      BY <3>1
  <2> QED
    BY <2>2, <2>3
<1>3. ASSUME Len(a) <= Len(s)
      PROVE  (\A i \in 1 .. Len(a) : a[(Len(a) - i) + 1] = s[(Len(s) - i) + 1]) <=>
                 \A i \in 1 .. Len(a) : a[i] = s[(Len(s) - Len(a)) + i]
  <2>1. ASSUME \A i \in 1 .. Len(a) : a[(Len(a) - i) + 1] = s[(Len(s) - i) + 1],
               NEW i \in 1 .. Len(a)
        PROVE  a[i] = s[(Len(s) - Len(a)) + i]
    <3>1. PICK j : j = (Len(a) - i) + 1
      OBVIOUS
    <3>2. j \in 1 .. Len(a) /\ (Len(a) - j) + 1 = i /\ (Len(s) - j) + 1 = (Len(s) - Len(a)) + i
      BY <1>0, <3>1
    <3> QED
      BY <2>1, <3>2
  <2>2. ASSUME \A i \in 1 .. Len(a) : a[i] = s[(Len(s) - Len(a)) + i], NEW i \in 1 .. Len(a)
        PROVE  a[(Len(a) - i) + 1] = s[(Len(s) - i) + 1]
    <3>1. PICK j : j = (Len(a) - i) + 1
      OBVIOUS
    <3>2. j \in 1 .. Len(a) /\ (Len(s) - i) + 1 = (Len(s) - Len(a)) + j
      BY <1>0, <3>1
    <3>3. a[j] = s[(Len(s) - Len(a)) + j]
      BY <2>2, <3>2
    <3> QED
      BY <3>1, <3>2, <3>3
  <2> QED
    BY <2>1, <2>2
<1> QED
  BY <1>2, <1>3

\* How many characters may be a tag to come: s ends with as many of the tag, and with no more.
Holds(s, tag, m) ==
    /\ m \in 0 .. Len(tag) - 1 /\ m <= Len(s)
    /\ Held(s, tag) = Upto(tag, m) /\ Held(s, tag) = After(s, Len(s) - m)
    /\ \A k \in 0 .. Len(tag) - 1 : IsSuffix(Upto(tag, k), s) => k <= m

\* HoldPartialTagSuffix finds that number.
LEMMA HeldIsEnd ==
    ASSUME NEW s \in Text, NEW tag \in Text, Len(tag) # 0
    PROVE  \E m \in Nat : Holds(s, tag, m)
<1>0. Len(s) \in Nat /\ Len(tag) \in Nat \ {0}
  BY LenProperties DEF Text
<1> DEFINE Ends == {n \in 0 .. Len(tag) - 1 : IsSuffix(Upto(tag, n), s)}
<1>1. ASSUME NEW n \in 0 .. Len(tag) - 1
      PROVE  /\ Upto(tag, n) \in Text /\ Len(Upto(tag, n)) = n
             /\ IsSuffix(Upto(tag, n), s) =>
                    n <= Len(s) /\ \A i \in 1 .. n : Upto(tag, n)[i] = s[(Len(s) - n) + i]
             /\ n = 0 => IsSuffix(Upto(tag, n), s)
  <2>1. n \in Nat /\ n <= Len(tag)
    BY <1>0
  <2>2. PICK a : a = Upto(tag, n)
    OBVIOUS
  <2>3. a \in Text /\ Len(a) = n
    BY <2>1, <2>2, Cut
  <2>4. IsSuffix(a, s) <=>
            Len(a) <= Len(s) /\ \A i \in 1 .. Len(a) : a[i] = s[(Len(s) - Len(a)) + i]
    BY <2>3, SuffixAt
  <2>5. n = 0 => IsSuffix(a, s)
    BY <1>0, <2>3, <2>4
  <2> QED
    BY <2>2, <2>3, <2>4, <2>5
<1>2. 0 \in Ends /\ Ends \subseteq Nat /\ \A n \in Ends : n <= Len(tag)
  BY <1>0, <1>1
<1>3. PICK m : m = Max(Ends)
  OBVIOUS
<1>4. m \in Ends /\ \A n \in Ends : n <= m
  <2> HIDE DEF Ends
  <2>1. Ends # {}
    BY <1>2
  <2> QED
    BY <1>0, <1>2, <1>3, <2>1, MaxOfNats
<1>5. Held(s, tag) = Upto(tag, m)
  BY <1>3 DEF Held
<1>6. m \in 0 .. Len(tag) - 1 /\ IsSuffix(Upto(tag, m), s)
  BY <1>4
<1>7. PICK a : a = Upto(tag, m)
  OBVIOUS
<1>8. a \in Text /\ Len(a) = m /\ m <= Len(s) /\ \A i \in 1 .. m : a[i] = s[(Len(s) - m) + i]
  BY <1>1, <1>6, <1>7
<1>9. PICK k : k = Len(s) - m
  OBVIOUS
<1>10. k \in Nat /\ k <= Len(s) /\ Len(s) - k = m
  BY <1>0, <1>6, <1>8, <1>9
<1>11. PICK b : b = After(s, k)
  OBVIOUS
<1>12. b \in Text /\ Len(b) = m /\ \A i \in 1 .. m : b[i] = s[k + i]
  BY <1>10, <1>11, Cut
<1>13. a = b
  BY <1>8, <1>9, <1>12, SameText
<1>14. Held(s, tag) = After(s, Len(s) - m)
  BY <1>5, <1>7, <1>9, <1>11, <1>13
<1>15. \A n \in 0 .. Len(tag) - 1 : IsSuffix(Upto(tag, n), s) => n <= m
  BY <1>4
<1>16. m \in Nat /\ m <= Len(s)
  BY <1>2, <1>4, <1>8
<1> HIDE DEF Ends
<1> QED
  BY <1>5, <1>6, <1>14, <1>15, <1>16 DEF Holds

\* No tag, even one that what follows completes, begins before what is held back.
LEMMA NoneBeforeHeld ==
    ASSUME NEW s \in Text, NEW c \in Text, NEW tag \in Text, NEW m \in Nat, Holds(s, tag, m),
           Occurrences(s, tag) = {}
    PROVE  \A n \in Occurrences(s \o c, tag) : Len(s) - m <= n
<1>1. PICK w : w = s \o c
  OBVIOUS
<1>2. /\ w \in Text /\ Len(s) \in Nat /\ Len(c) \in Nat /\ Len(w) = Len(s) + Len(c)
      /\ \A i \in 1 .. Len(s) : w[i] = s[i]
  BY <1>1, TwoJoined
<1>3. Len(tag) \in Nat
  BY LenProperties DEF Text
<1>4. ASSUME NEW n \in Occurrences(w, tag), n < Len(s) - m PROVE FALSE
  <2>1. n \in Nat
    BY <1>2, <1>3 DEF Occurrences
  <2>2. \A i \in 1 .. Len(tag) : w[n + i] = tag[i]
    BY <1>2, <2>1, OccursAt
  <2>3. CASE n + Len(tag) <= Len(s)
    <3>1. ASSUME NEW i \in 1 .. Len(tag) PROVE s[n + i] = tag[i]
      <4>1. n + i \in 1 .. Len(s)
        BY <1>2, <1>3, <2>1, <2>3
      <4>2. w[n + i] = s[n + i]
        BY <1>2, <4>1
      <4> QED
        BY <2>2, <4>2
    <3>2. n \in Occurrences(s, tag)
      BY <2>1, <2>3, <3>1, OccursAt
    <3> QED
      BY <3>2
  <2>4. CASE n + Len(tag) > Len(s)
    <3>1. PICK k : k = Len(s) - n
      OBVIOUS
    <3>2. /\ k \in 0 .. Len(tag) - 1 /\ k \in Nat /\ k > m /\ k <= Len(tag) /\ k <= Len(s)
          /\ Len(s) - k = n
      BY <1>2, <1>3, <1>4, <2>1, <2>4, <3>1
    <3>3. PICK a : a = Upto(tag, k)
      OBVIOUS
    <3>4. a \in Text /\ Len(a) = k /\ \A i \in 1 .. k : a[i] = tag[i]
      BY <3>2, <3>3, Cut
    <3>5. ASSUME NEW i \in 1 .. k PROVE a[i] = s[n + i]
      <4>1. i \in 1 .. Len(tag) /\ n + i \in 1 .. Len(s)
        BY <1>2, <1>3, <2>1, <3>2
      <4> QED
        BY <1>2, <2>2, <3>4, <4>1
    <3>6. IsSuffix(a, s)
      BY <3>2, <3>4, <3>5, SuffixAt
    <3>7. k <= m
      BY <3>2, <3>3, <3>6 DEF Holds
    <3> QED
      BY <3>2, <3>7
  <2> QED
    BY <1>2, <1>3, <2>1, <2>3, <2>4
<1>5. \A n \in Occurrences(w, tag) : n \in Nat
  BY <1>2, <1>3 DEF Occurrences
<1> QED
  BY <1>1, <1>2, <1>4, <1>5

-----------------------------------------------------------------------------
(* The chunks make no difference *)

\* What is shown of s when it is read in this state.
Remaining(thinking, s) ==
    IF ~thinking THEN Shown[s]
    ELSE IF Occurrences(s, CloseTag) = {} THEN <<>>
    ELSE Shown[After(s, Min(Occurrences(s, CloseTag)) + Len(CloseTag))]

\* What is shown of s when there is no tag in it.
Plain(thinking, s) == IF thinking THEN <<>> ELSE s

\* It is a text.
LEMMA RemainingIsText ==
    ASSUME NEW thinking \in BOOLEAN, NEW s \in Text
    PROVE  Remaining(thinking, s) \in Text /\ Plain(thinking, s) \in Text
<1>0. Tag(TRUE) = CloseTag /\ <<>> \in Text
  BY DEF Tag, Text
<1>1. CASE thinking /\ Occurrences(s, CloseTag) # {}
  <2>1. After(s, Min(Occurrences(s, CloseTag)) + Len(CloseTag)) \in Text
    BY <1>0, <1>1, BehindTag
  <2> QED
    BY <1>0, <1>1, <2>1, ShownIsText DEF Remaining, Plain
<1>2. CASE ~ (thinking /\ Occurrences(s, CloseTag) # {})
  BY <1>0, <1>2, ShownIsText DEF Remaining, Plain
<1> QED
  BY <1>1, <1>2

\* From one tag to the next, whichever is looked for.
LEMMA RemainingTurns ==
    ASSUME NEW thinking \in BOOLEAN, NEW s \in Text
    PROVE  LET tag == Tag(thinking)
               first == Min(Occurrences(s, tag))
           IN /\ Occurrences(s, tag) = {} => Remaining(thinking, s) = Plain(thinking, s)
              /\ Occurrences(s, tag) # {} =>
                    Remaining(thinking, s) =
                        Plain(thinking, Upto(s, first))
                            \o Remaining(~thinking, After(s, first + Len(tag)))
<1>0. Tag(TRUE) = CloseTag /\ Tag(FALSE) = OpenTag
  BY DEF Tag
<1>1. CASE thinking
  <2>1. CASE Occurrences(s, CloseTag) = {}
    BY <1>0, <1>1, <2>1 DEF Remaining, Plain
  <2>2. CASE Occurrences(s, CloseTag) # {}
    <3>1. PICK rest : rest = After(s, Min(Occurrences(s, CloseTag)) + Len(CloseTag))
      OBVIOUS
    <3>2. rest \in Text
      BY <1>0, <2>2, <3>1, BehindTag
    <3>3. Remaining(TRUE, s) = Shown[rest] /\ Remaining(FALSE, rest) = Shown[rest]
      BY <2>2, <3>1 DEF Remaining
    <3>4. Shown[rest] = <<>> \o Shown[rest]
      BY <3>2, ShownIsText, ConcatEmptySeq DEF Text
    <3>5. Remaining(TRUE, s) =
              Plain(TRUE, Upto(s, Min(Occurrences(s, CloseTag)))) \o Remaining(FALSE, rest)
      BY <3>3, <3>4 DEF Plain
    <3>6. thinking = TRUE /\ ~thinking = FALSE
      BY <1>1
    <3> QED
      BY <1>0, <2>2, <3>1, <3>5, <3>6
  <2> QED
    BY <2>1, <2>2
<1>2. CASE ~thinking
  <2>0. thinking = FALSE /\ ~thinking = TRUE
    BY <1>2
  <2>1. Shown[s] = Showing(Shown, s) /\ Remaining(FALSE, s) = Shown[s]
    BY ShownTurns DEF Remaining
  <2>2. CASE Occurrences(s, OpenTag) = {}
    BY <1>0, <2>0, <2>1, <2>2 DEF Showing, Plain
  <2>3. CASE Occurrences(s, OpenTag) # {}
    <3>1. PICK open : open = Min(Occurrences(s, OpenTag))
      OBVIOUS
    <3>2. PICK inside : inside = After(s, open + Len(OpenTag))
      OBVIOUS
    <3>3. Shown[s] = Upto(s, open) \o Remaining(TRUE, inside)
      BY <2>1, <2>3, <3>1, <3>2 DEF Showing, Remaining
    <3>4. Remaining(FALSE, s) = Plain(FALSE, Upto(s, open)) \o Remaining(TRUE, inside)
      BY <2>1, <3>3 DEF Plain
    <3> QED
      BY <1>0, <2>0, <2>3, <3>1, <3>2, <3>4
  <2> QED
    BY <2>2, <2>3
<1> QED
  BY <1>1, <1>2

\* What stands before a text with no tag that begins earlier is shown as it is.
LEMMA RemainingShift ==
    ASSUME NEW thinking \in BOOLEAN, NEW u \in Text, NEW w \in Text,
           \A n \in Occurrences(u \o w, Tag(thinking)) : Len(u) <= n
    PROVE  Remaining(thinking, u \o w) = Plain(thinking, u) \o Remaining(thinking, w)
<1>1. PICK tag : tag = Tag(thinking)
  OBVIOUS
<1>2. tag \in Text /\ Len(tag) \in Nat \ {0}
  BY <1>1, Tags
<1>3. PICK s : s = u \o w
  OBVIOUS
<1>4. s \in Text /\ Len(u) \in Nat /\ Len(w) \in Nat
  BY <1>3, TwoJoined
<1>5. /\ Occurrences(s, tag) = {} <=> Occurrences(w, tag) = {}
      /\ Occurrences(w, tag) # {} => Min(Occurrences(s, tag)) = Len(u) + Min(Occurrences(w, tag))
  BY <1>1, <1>2, <1>3, OccurrencesShift
<1>6. ASSUME NEW v \in Text PROVE Plain(thinking, u \o v) = Plain(thinking, u) \o Plain(thinking, v)
  <2>1. <<>> \o <<>> = <<>>
    BY ConcatEmptySeq
  <2> QED
    BY <2>1 DEF Plain
<1>7. CASE Occurrences(w, tag) = {}
  <2>1. Remaining(thinking, s) = Plain(thinking, s) /\ Remaining(thinking, w) = Plain(thinking, w)
    BY <1>1, <1>4, <1>5, <1>7, RemainingTurns
  <2> QED
    BY <1>3, <1>6, <2>1
<1>8. CASE Occurrences(w, tag) # {}
  <2>1. PICK first : first = Min(Occurrences(w, tag))
    OBVIOUS
  <2>2. first \in Nat /\ first + Len(tag) <= Len(w)
    BY <1>2, <1>8, <2>1, FirstOccurrence
  <2>3. /\ first <= Len(w) /\ first + Len(tag) \in Nat
        /\ Len(u) + first + Len(tag) = Len(u) + (first + Len(tag))
    BY <1>2, <1>4, <2>2
  <2>4. Upto(s, Len(u) + first) = u \o Upto(w, first)
    BY <1>3, <2>2, <2>3, CutsShift
  <2>5. After(s, Len(u) + first + Len(tag)) = After(w, first + Len(tag))
    BY <1>3, <2>2, <2>3, CutsShift
  <2>6. PICK a, b : a = Upto(w, first) /\ b = After(w, first + Len(tag))
    OBVIOUS
  <2>7. a \in Text /\ b \in Text
    BY <2>2, <2>3, <2>6, Cut
  <2>8. Remaining(thinking, s) = Plain(thinking, u \o a) \o Remaining(~thinking, b)
    <3>1. PICK low : low = Min(Occurrences(s, tag))
      OBVIOUS
    <3>2. low = Len(u) + first /\ Occurrences(s, tag) # {}
      BY <1>5, <1>8, <2>1, <3>1
    <3>3. Remaining(thinking, s) =
              Plain(thinking, Upto(s, low)) \o Remaining(~thinking, After(s, low + Len(tag)))
      BY <1>1, <1>4, <3>1, <3>2, RemainingTurns
    <3>4. Upto(s, low) = u \o a /\ After(s, low + Len(tag)) = b
      BY <2>4, <2>5, <2>6, <3>2
    <3> QED
      BY <3>3, <3>4
  <2>9. Remaining(thinking, w) = Plain(thinking, a) \o Remaining(~thinking, b)
    BY <1>1, <1>8, <2>1, <2>6, RemainingTurns
  <2>10. /\ Plain(thinking, u) \in Seq(Character) /\ Plain(thinking, a) \in Seq(Character)
         /\ Remaining(~thinking, b) \in Seq(Character)
    BY <2>7, RemainingIsText DEF Text
  <2>11. (Plain(thinking, u) \o Plain(thinking, a)) \o Remaining(~thinking, b)
             = Plain(thinking, u) \o (Plain(thinking, a) \o Remaining(~thinking, b))
    BY <2>10, ConcatAssociative
  <2>12. Plain(thinking, u \o a) = Plain(thinking, u) \o Plain(thinking, a)
    BY <1>6, <2>7
  <2> QED
    BY <1>3, <2>8, <2>9, <2>11, <2>12
<1> QED
  BY <1>7, <1>8

\* p is what is left when s has been read: what is shown of s and of whatever follows is what
\* p shows and what is shown of the tail with what follows.
ReadAs(p, thinking, s) ==
    /\ p \in [visible : Text, thinking : BOOLEAN, tail : Text]
    /\ Len(p.tail) < Len(Tag(p.thinking))
    /\ \A c \in Text :
          Remaining(thinking, s \o c) = p.visible \o Remaining(p.thinking, p.tail \o c)

\* ProcessInput when there is no tag left: the end that may become one is held back.
LEMMA ReadsToTheEnd ==
    ASSUME NEW thinking \in BOOLEAN, NEW s \in Text, Occurrences(s, Tag(thinking)) = {}
    PROVE  ReadAs(ProcessInput[s][thinking], thinking, s)
<1>1. PICK tag : tag = Tag(thinking)
  OBVIOUS
<1>2. tag \in Text /\ Len(tag) \in Nat \ {0} /\ Len(s) \in Nat
  BY <1>1, Tags, LenProperties DEF Text
<1>3. PICK m \in Nat : Holds(s, tag, m)
  BY <1>2, HeldIsEnd
<1>4. PICK tail : tail = Held(s, tag)
  OBVIOUS
<1>5. PICK k : k = Len(s) - m
  OBVIOUS
<1>6. m \in 0 .. Len(tag) - 1 /\ m <= Len(s) /\ tail = After(s, Len(s) - m)
  BY <1>3, <1>4 DEF Holds
<1>7. k \in Nat /\ k <= Len(s) /\ Len(s) - k = m /\ tail = After(s, k)
  BY <1>2, <1>5, <1>6
<1>8. PICK u : u = Upto(s, k)
  OBVIOUS
<1>9. u \in Text /\ Len(u) = k /\ tail \in Text /\ Len(tail) = m
  BY <1>7, <1>8, Cut
<1>10. u \o tail = s
  <2>1. /\ \A i \in 1 .. k : u[i] = s[i]
        /\ \A i \in 1 .. m : tail[i] = s[k + i]
    BY <1>7, <1>8, Cut
  <2>2. PICK w : w = u \o tail
    OBVIOUS
  <2>3. /\ w \in Text /\ Len(w) = Len(u) + Len(tail)
        /\ \A i \in 1 .. Len(u) : w[i] = u[i]
        /\ \A i \in 1 .. Len(tail) : w[Len(u) + i] = tail[i]
    BY <1>9, <2>2, TwoJoined
  <2>4. Len(w) = Len(s)
    BY <1>2, <1>7, <1>9, <2>3
  <2>5. ASSUME NEW i \in 1 .. Len(s) PROVE w[i] = s[i]
    <3>1. CASE i <= k
      <4>1. i \in 1 .. k
        BY <1>7, <3>1
      <4> QED
        BY <1>9, <2>1, <2>3, <4>1
    <3>2. CASE i > k
      <4>1. PICK j : j = i - k
        OBVIOUS
      <4>2. j \in 1 .. m /\ i = k + j
        BY <1>2, <1>7, <3>2, <4>1
      <4> QED
        BY <1>9, <2>1, <2>3, <4>2
    <3> QED
      BY <1>7, <3>1, <3>2
  <2>6. w = s
    BY <2>3, <2>4, <2>5, SameText
  <2> QED
    BY <2>2, <2>6
<1>11. PICK p : p = ProcessInput[s][thinking]
  OBVIOUS
<1>12. p = [visible |-> Plain(thinking, u), thinking |-> thinking, tail |-> tail]
  <2>1. p = ReadingIn(thinking, ProcessInput, s)
    BY <1>11, ProcessInputTurns
  <2>2. k = Len(s) - Len(tail)
    BY <1>5, <1>9
  <2> QED
    BY <1>1, <1>4, <1>8, <2>1, <2>2 DEF ReadingIn, Plain
<1>13. ASSUME NEW c \in Text
       PROVE  Remaining(thinking, s \o c) = Plain(thinking, u) \o Remaining(thinking, tail \o c)
  <2>1. PICK w : w = tail \o c
    OBVIOUS
  <2>2. w \in Text
    BY <1>9, <2>1, TwoJoined
  <2>3. s \o c = u \o w
    <3>1. JoinsEitherWay(u, tail, c)
      BY <1>9, JoinedThree
    <3> QED
      BY <1>10, <2>1, <3>1, Zenon DEF JoinsEitherWay
  <2>4. \A n \in Occurrences(s \o c, tag) : Len(s) - m <= n
    BY <1>1, <1>2, <1>3, NoneBeforeHeld
  <2>5. \A n \in Occurrences(u \o w, Tag(thinking)) : Len(u) <= n
    BY <1>1, <1>5, <1>9, <2>3, <2>4
  <2>6. Remaining(thinking, u \o w) = Plain(thinking, u) \o Remaining(thinking, w)
    BY <1>9, <2>2, <2>5, RemainingShift
  <2> QED
    BY <2>1, <2>3, <2>6
<1>14. p \in [visible : Text, thinking : BOOLEAN, tail : Text]
  BY <1>9, <1>12, RemainingIsText
<1>15. p.visible = Plain(thinking, u) /\ p.thinking = thinking /\ p.tail = tail
  BY <1>12
<1>16. Len(p.tail) < Len(Tag(p.thinking))
  BY <1>1, <1>2, <1>6, <1>9, <1>15
<1>17. ReadAs(p, thinking, s)
  BY <1>13, <1>14, <1>15, <1>16 DEF ReadAs
<1> QED
  BY <1>11, <1>17

\* ProcessInput when there is a tag: it goes on behind it, looking for the other one.
LEMMA ReadsOverTag ==
    ASSUME NEW thinking \in BOOLEAN, NEW s \in Text, Occurrences(s, Tag(thinking)) # {},
           NEW rest, rest = After(s, Min(Occurrences(s, Tag(thinking))) + Len(Tag(thinking))),
           ReadAs(ProcessInput[rest][~thinking], ~thinking, rest)
    PROVE  ReadAs(ProcessInput[s][thinking], thinking, s)
<1>1. PICK tag : tag = Tag(thinking)
  OBVIOUS
<1>2. tag \in Text /\ Len(tag) \in Nat \ {0} /\ Len(s) \in Nat
  BY <1>1, Tags, LenProperties DEF Text
<1>3. PICK first : first = Min(Occurrences(s, tag))
  OBVIOUS
<1>4. first \in Nat /\ first + Len(tag) <= Len(s)
  BY <1>1, <1>2, <1>3, FirstOccurrence
<1>5. PICK k : k = first + Len(tag)
  OBVIOUS
<1>6. k \in Nat /\ k <= Len(s) /\ first <= Len(s) /\ rest = After(s, k)
  BY <1>1, <1>2, <1>3, <1>4, <1>5
<1>7. PICK v : v = Plain(thinking, Upto(s, first))
  OBVIOUS
<1>8. v \in Text /\ rest \in Text
  <2>1. Upto(s, first) \in Text /\ rest \in Text
    BY <1>4, <1>6, Cut
  <2> QED
    BY <1>7, <2>1, RemainingIsText
<1>9. PICK next, p : next = ProcessInput[rest][~thinking] /\ p = ProcessInput[s][thinking]
  OBVIOUS
<1>10. ReadAs(next, ~thinking, rest)
  BY <1>9
<1>11. next \in [visible : Text, thinking : BOOLEAN, tail : Text]
  BY <1>10 DEF ReadAs
<1>12. p = [next EXCEPT !.visible = v \o @]
  <2>1. p = ReadingIn(thinking, ProcessInput, s)
    BY <1>9, ProcessInputTurns
  <2>2. v = IF thinking THEN <<>> ELSE Upto(s, first)
    BY <1>7 DEF Plain
  <2> QED
    BY <1>1, <1>3, <1>5, <1>6, <1>9, <2>1, <2>2 DEF ReadingIn
<1>13. p.visible = v \o next.visible /\ p.thinking = next.thinking /\ p.tail = next.tail
  BY <1>11, <1>12
<1>14. v \o next.visible \in Text
  BY <1>8, <1>11, TwoJoined
<1>15. p \in [visible : Text, thinking : BOOLEAN, tail : Text]
  BY <1>11, <1>12, <1>14
<1>16. ASSUME NEW c \in Text
       PROVE  Remaining(thinking, s \o c) = p.visible \o Remaining(p.thinking, p.tail \o c)
  <2>1. PICK w : w = s \o c
    OBVIOUS
  <2>2. w \in Text
    BY <2>1, TwoJoined
  <2>3. Occurrences(w, tag) # {} /\ Min(Occurrences(w, tag)) = first
    BY <1>1, <1>2, <1>3, <2>1, FirstStays
  <2>4. Remaining(thinking, w) = Plain(thinking, Upto(w, first)) \o Remaining(~thinking, After(w, k))
    BY <1>1, <1>5, <2>2, <2>3, RemainingTurns
  <2>5. Upto(w, first) = Upto(s, first) /\ After(w, k) = rest \o c
    BY <1>4, <1>6, <2>1, CutsStay
  <2>6. Remaining(thinking, w) = v \o Remaining(~thinking, rest \o c)
    BY <1>7, <2>4, <2>5
  <2>7. Remaining(~thinking, rest \o c) = next.visible \o Remaining(next.thinking, next.tail \o c)
    BY <1>10 DEF ReadAs
  <2>8. PICK last : last = Remaining(next.thinking, next.tail \o c)
    OBVIOUS
  <2>9. last \in Text
    <3>1. next.tail \o c \in Text /\ next.thinking \in BOOLEAN
      BY <1>11, TwoJoined
    <3> QED
      BY <2>8, <3>1, RemainingIsText
  <2>10. v \o (next.visible \o last) = (v \o next.visible) \o last
    <3>1. PICK shown : shown = next.visible
      OBVIOUS
    <3>2. JoinsEitherWay(v, shown, last)
      BY <1>8, <1>11, <2>9, <3>1, JoinedThree
    <3> QED
      BY <3>1, <3>2, Zenon DEF JoinsEitherWay
  <2> QED
    BY <1>13, <2>1, <2>6, <2>7, <2>8, <2>10
<1>17. Len(p.tail) < Len(Tag(p.thinking))
  BY <1>10, <1>13 DEF ReadAs
<1>18. ReadAs(p, thinking, s)
  BY <1>15, <1>16, <1>17 DEF ReadAs
<1> QED
  BY <1>9, <1>18

\* ProcessInput, for every text and in either state.
LEMMA Reads ==
    ASSUME NEW thinking \in BOOLEAN, NEW s \in Text
    PROVE  ReadAs(ProcessInput[s][thinking], thinking, s)
<1> DEFINE T == {k \in Nat : \A t \in Text, b \in BOOLEAN :
                                Len(t) < k => ReadAs(ProcessInput[t][b], b, t)}
<1>0. \A t \in Text : Len(t) \in Nat
  BY LenProperties DEF Text
<1>1. 0 \in T
  BY <1>0
<1>2. ASSUME NEW k \in Nat, k \in T PROVE k + 1 \in T
  <2>1. ASSUME NEW t \in Text, NEW b \in BOOLEAN, Len(t) < k + 1
        PROVE  ReadAs(ProcessInput[t][b], b, t)
    <3>1. CASE Occurrences(t, Tag(b)) = {}
      BY <3>1, ReadsToTheEnd
    <3>2. CASE Occurrences(t, Tag(b)) # {}
      <4>1. PICK rest : rest = After(t, Min(Occurrences(t, Tag(b))) + Len(Tag(b)))
        OBVIOUS
      <4>2. rest \in Text /\ Len(rest) < Len(t)
        BY <3>2, <4>1, BehindTag
      <4>3. Len(rest) < k
        BY <1>0, <2>1, <4>2
      <4>5. (~b) \in BOOLEAN
        OBVIOUS
      <4>4. ReadAs(ProcessInput[rest][~b], ~b, rest)
        <5>1. \A u \in Text, e \in BOOLEAN : Len(u) < k => ReadAs(ProcessInput[u][e], e, u)
          BY <1>2
        <5> QED
          BY <4>2, <4>3, <4>5, <5>1, Zenon
      <4> QED
        BY <3>2, <4>1, <4>4, ReadsOverTag
    <3> QED
      BY <3>1, <3>2
  <2> QED
    BY <2>1
<1>3. Nat \subseteq T
  <2> HIDE DEF T
  <2> QED BY <1>1, <1>2, NatSet
<1>4. Len(s) + 1 \in T /\ Len(s) < Len(s) + 1
  BY <1>0, <1>3
<1> QED
  BY <1>4

-----------------------------------------------------------------------------
(* The characters of one kind *)

\* How many of them are among the first of s: the recursive function in Only.
Kept(f, s, kind) ==
    f = [i \in 0 .. Len(s) |->
            IF i = 0 THEN <<>>
            ELSE IF s[i] \in kind THEN Append(f[i - 1], s[i]) ELSE f[i - 1]]

\* One more character.
KeepOne(kept, c, kind) == IF c \in kind THEN Append(kept, c) ELSE kept

\* It exists.
LEMMA KeptExists ==
    ASSUME NEW s, Len(s) \in Nat, NEW kind
    PROVE  \E f : Kept(f, s, kind)
<1> DEFINE UptoHere(f, n) ==
               f = [i \in 0 .. n |-> IF i = 0 THEN <<>> ELSE KeepOne(f[i - 1], s[i], kind)]
           T == {n \in Nat : \E f : UptoHere(f, n)}
<1>1. 0 \in T
  <2>1. UptoHere([i \in 0 .. 0 |-> <<>>], 0)
    OBVIOUS
  <2> QED BY <2>1
<1>2. ASSUME NEW n \in Nat, n \in T PROVE n + 1 \in T
  <2>1. PICK f : UptoHere(f, n)
    BY <1>2
  <2> DEFINE g == [i \in 0 .. n + 1 |-> IF i = n + 1 THEN KeepOne(f[n], s[i], kind) ELSE f[i]]
  <2>2. \A i \in 0 .. n : f[i] = IF i = 0 THEN <<>> ELSE KeepOne(f[i - 1], s[i], kind)
    BY <2>1
  <2>3. ASSUME NEW i \in 0 .. n + 1
        PROVE  g[i] = IF i = 0 THEN <<>> ELSE KeepOne(g[i - 1], s[i], kind)
    <3>1. CASE i = n + 1
      <4>1. i # 0 /\ i - 1 = n /\ i - 1 \in 0 .. n + 1 /\ i - 1 # n + 1
        BY <3>1
      <4> QED BY <3>1, <4>1
    <3>2. CASE i = 0
      <4>1. i # n + 1 /\ i \in 0 .. n
        BY <3>2
      <4> QED BY <2>2, <3>2, <4>1
    <3>3. CASE i # n + 1 /\ i # 0
      <4>1. i \in 0 .. n /\ i - 1 \in 0 .. n + 1 /\ i - 1 # n + 1
        BY <3>3
      <4>2. g[i] = f[i] /\ g[i - 1] = f[i - 1]
        BY <3>3, <4>1
      <4> QED BY <2>2, <3>3, <4>1, <4>2
    <3> QED BY <3>1, <3>2, <3>3
  <2>4. UptoHere(g, n + 1)
    <3>1. g = [i \in 0 .. n + 1 |-> g[i]]
      OBVIOUS
    <3> HIDE DEF g
    <3> QED BY <2>3, <3>1
  <2> HIDE DEF UptoHere, g
  <2> QED BY <2>4
<1>3. Nat \subseteq T
  <2> HIDE DEF T
  <2> QED BY <1>1, <1>2, NatSet
<1>4. QED
  BY <1>3 DEF Kept, KeepOne

\* Only, character by character.
LEMMA OnlyIsKept ==
    ASSUME NEW s, Len(s) \in Nat, NEW kind
    PROVE  \E f : /\ Only(s, kind) = f[Len(s)] /\ f[0] = <<>>
                 /\ \A i \in 1 .. Len(s) : f[i] = KeepOne(f[i - 1], s[i], kind)
<1>1. PICK f : f = CHOOSE g : Kept(g, s, kind)
  OBVIOUS
<1>2. Kept(f, s, kind)
  BY <1>1, KeptExists
<1>3. Only(s, kind) = f[Len(s)]
  BY <1>1 DEF Only, Kept
<1>4. f[0] = <<>> /\ \A i \in 1 .. Len(s) : f[i] = KeepOne(f[i - 1], s[i], kind)
  <2>1. \A i \in 0 .. Len(s) :
            f[i] = IF i = 0 THEN <<>>
                   ELSE IF s[i] \in kind THEN Append(f[i - 1], s[i]) ELSE f[i - 1]
    BY <1>2 DEF Kept
  <2>2. f[0] = <<>>
    BY <2>1
  <2>3. ASSUME NEW i \in 1 .. Len(s) PROVE f[i] = KeepOne(f[i - 1], s[i], kind)
    <3>1. i \in 0 .. Len(s) /\ i # 0
      OBVIOUS
    <3>2. f[i] = IF s[i] \in kind THEN Append(f[i - 1], s[i]) ELSE f[i - 1]
      BY <2>1, <3>1
    <3> QED
      BY <3>2, Zenon DEF KeepOne
  <2> QED
    BY <2>2, <2>3
<1> QED
  BY <1>3, <1>4

\* Of nothing, nothing is kept.
LEMMA OnlyOfNone == \A kind : Only(<<>>, kind) = <<>>
<1>1. Len(<<>>) = 0
  OBVIOUS
<1> QED
  BY <1>1, OnlyIsKept

\* A text with one more character.
LEMMA OneMore ==
    ASSUME NEW s \in Text, NEW c \in Character
    PROVE  /\ Append(s, c) \in Text /\ Len(s) \in Nat /\ Len(Append(s, c)) = Len(s) + 1
           /\ \A i \in 1 .. Len(s) : Append(s, c)[i] = s[i]
           /\ Append(s, c)[Len(s) + 1] = c
BY AppendProperties, LenProperties DEF Text

\* Of one more, one more is kept or none.
LEMMA OnlyOfAppend ==
    ASSUME NEW s \in Text, NEW c \in Character, NEW kind
    PROVE  Only(Append(s, c), kind) = KeepOne(Only(s, kind), c, kind)
<1>1. PICK r : r = Append(s, c)
  OBVIOUS
<1>2. PICK n : n = Len(s)
  OBVIOUS
<1>3. n \in Nat /\ Len(s) = n /\ Len(r) = n + 1 /\ r[n + 1] = c /\ \A i \in 1 .. n : r[i] = s[i]
  BY <1>1, <1>2, OneMore
<1>4. PICK f : /\ Only(s, kind) = f[n] /\ f[0] = <<>>
               /\ \A i \in 1 .. n : f[i] = KeepOne(f[i - 1], s[i], kind)
  <2>1. Len(s) \in Nat
    BY <1>3
  <2>2. PICK f : /\ Only(s, kind) = f[Len(s)] /\ f[0] = <<>>
                 /\ \A i \in 1 .. Len(s) : f[i] = KeepOne(f[i - 1], s[i], kind)
    BY <2>1, OnlyIsKept
  <2> QED
    BY <1>3, <2>2
<1>5. PICK g : /\ Only(r, kind) = g[n + 1] /\ g[0] = <<>>
               /\ \A i \in 1 .. n + 1 : g[i] = KeepOne(g[i - 1], r[i], kind)
  <2>1. Len(r) \in Nat
    BY <1>3
  <2>2. PICK g : /\ Only(r, kind) = g[Len(r)] /\ g[0] = <<>>
                 /\ \A i \in 1 .. Len(r) : g[i] = KeepOne(g[i - 1], r[i], kind)
    BY <2>1, OnlyIsKept
  <2> QED
    BY <1>3, <2>2
<1> DEFINE T == {i \in Nat : i <= n => f[i] = g[i]}
<1>6. 0 \in T
  BY <1>4, <1>5
<1>7. ASSUME NEW i \in Nat, i \in T PROVE i + 1 \in T
  <2> SUFFICES ASSUME i + 1 <= n PROVE f[i + 1] = g[i + 1]
    OBVIOUS
  <2>1. PICK k : k = i + 1
    OBVIOUS
  <2>2. k \in 1 .. n /\ k \in 1 .. n + 1 /\ k - 1 = i /\ i <= n
    BY <1>3, <2>1
  <2>3. f[k] = KeepOne(f[k - 1], s[k], kind) /\ g[k] = KeepOne(g[k - 1], r[k], kind) /\ r[k] = s[k]
    BY <1>3, <1>4, <1>5, <2>2
  <2>4. f[i] = g[i]
    BY <1>7, <2>2
  <2> QED
    BY <2>1, <2>2, <2>3, <2>4
<1>8. Nat \subseteq T
  <2> HIDE DEF T
  <2> QED BY <1>6, <1>7, NatSet
<1>9. f[n] = g[n]
  BY <1>3, <1>8
<1>10. g[n + 1] = KeepOne(g[n], c, kind)
  <2>1. PICK k : k = n + 1
    OBVIOUS
  <2>2. k \in 1 .. n + 1 /\ k - 1 = n /\ r[k] = c
    BY <1>3, <2>1
  <2> QED
    BY <1>5, <2>1, <2>2
<1> QED
  BY <1>1, <1>4, <1>5, <1>9, <1>10

\* A text is empty or has a last character.
LEMMA LastCharacter ==
    ASSUME NEW n \in Nat, NEW s \in Text, Len(s) = n + 1
    PROVE  \E t \in Text, c \in Character : s = Append(t, c) /\ Len(t) = n /\ c = s[n + 1]
<1>1. PICK t, c : t = Upto(s, n) /\ c = s[n + 1]
  OBVIOUS
<1>2. c \in Character
  BY <1>1 DEF Text
<1>3. n <= Len(s)
  OBVIOUS
<1>4. t \in Text /\ Len(t) = n /\ \A i \in 1 .. n : t[i] = s[i]
  BY <1>1, <1>3, Cut
<1>5. PICK r : r = Append(t, c)
  OBVIOUS
<1>6. r \in Text /\ Len(r) = n + 1 /\ (\A i \in 1 .. n : r[i] = t[i]) /\ r[n + 1] = c
  BY <1>2, <1>4, <1>5, OneMore
<1>7. ASSUME NEW i \in 1 .. n + 1 PROVE r[i] = s[i]
  <2>1. CASE i = n + 1
    BY <1>1, <1>6, <2>1
  <2>2. CASE i # n + 1
    <3>1. i \in 1 .. n
      BY <2>2
    <3> QED
      BY <1>4, <1>6, <3>1
  <2> QED
    BY <2>1, <2>2
<1>8. r = s
  BY <1>6, <1>7, SameText
<1> QED
  BY <1>1, <1>2, <1>4, <1>5, <1>8

\* One more character at the end of both.
LEMMA JoinedAppend ==
    ASSUME NEW s \in Text, NEW t \in Text, NEW c \in Character
    PROVE  s \o Append(t, c) = Append(s \o t, c)
<1>1. PICK last : last = <<c>>
  OBVIOUS
<1>2. s \in Seq(Character) /\ t \in Seq(Character) /\ last \in Seq(Character)
  BY <1>1 DEF Text
<1>3. (s \o t) \o last = s \o (t \o last)
  BY <1>2, ConcatAssociative
<1>4. s \o t \in Seq(Character)
  BY <1>2, ConcatProperties
<1>5. Append(t, c) = t \o last /\ Append(s \o t, c) = (s \o t) \o last
  BY <1>1, <1>2, <1>4, AppendIsConcat
<1> QED
  BY <1>3, <1>5

\* What is kept of a text is a text.
LEMMA OnlyIsText ==
    ASSUME NEW kind, NEW s \in Text
    PROVE  Only(s, kind) \in Text
<1> DEFINE T == {n \in Nat : \A t \in Text : Len(t) = n => Only(t, kind) \in Text}
<1>1. 0 \in T
  <2>1. ASSUME NEW t \in Text, Len(t) = 0 PROVE Only(t, kind) \in Text
    <3>1. t = <<>>
      BY <2>1, EmptySeq DEF Text
    <3> QED
      BY <3>1, OnlyOfNone DEF Text
  <2> QED
    BY <2>1
<1>2. ASSUME NEW n \in Nat, n \in T PROVE n + 1 \in T
  <2>1. ASSUME NEW r \in Text, Len(r) = n + 1 PROVE Only(r, kind) \in Text
    <3>1. PICK t \in Text, c \in Character : r = Append(t, c) /\ Len(t) = n /\ c = r[n + 1]
      BY <2>1, LastCharacter
    <3>2. Only(t, kind) \in Text
      BY <1>2, <3>1
    <3>3. Only(r, kind) = KeepOne(Only(t, kind), c, kind)
      BY <3>1, OnlyOfAppend
    <3> QED
      BY <3>2, <3>3, OneMore DEF KeepOne
  <2> QED
    BY <2>1
<1>3. Nat \subseteq T
  <2> HIDE DEF T
  <2> QED BY <1>1, <1>2, NatSet
<1>4. Len(s) \in T
  BY <1>3, LenProperties DEF Text
<1> QED
  BY <1>4

\* Of two texts, what is kept of either.
LEMMA OnlyOfJoined ==
    ASSUME NEW kind, NEW s \in Text, NEW u \in Text
    PROVE  Only(s \o u, kind) = Only(s, kind) \o Only(u, kind)
<1>0. s \o <<>> = s /\ Only(s, kind) \o <<>> = Only(s, kind) /\ Only(s, kind) \in Text
  BY OnlyIsText, ConcatEmptySeq DEF Text
<1> DEFINE T == {n \in Nat : \A t \in Text :
                    Len(t) = n => Only(s \o t, kind) = Only(s, kind) \o Only(t, kind)}
<1>1. 0 \in T
  <2>1. ASSUME NEW t \in Text, Len(t) = 0 PROVE Only(s \o t, kind) = Only(s, kind) \o Only(t, kind)
    <3>1. t = <<>>
      BY <2>1, EmptySeq DEF Text
    <3> QED
      BY <1>0, <3>1, OnlyOfNone
  <2> QED
    BY <2>1
<1>2. ASSUME NEW n \in Nat, n \in T PROVE n + 1 \in T
  <2>1. ASSUME NEW r \in Text, Len(r) = n + 1
        PROVE  Only(s \o r, kind) = Only(s, kind) \o Only(r, kind)
    <3>1. PICK t \in Text, c \in Character : r = Append(t, c) /\ Len(t) = n /\ c = r[n + 1]
      BY <2>1, LastCharacter
    <3>2. Only(s \o t, kind) = Only(s, kind) \o Only(t, kind)
      BY <1>2, <3>1
    <3>3. PICK w : w = s \o t
      OBVIOUS
    <3>4. PICK a, b : a = Only(s, kind) /\ b = Only(t, kind)
      OBVIOUS
    <3>5. a \in Text /\ b \in Text /\ Only(w, kind) = a \o b
      BY <3>2, <3>3, <3>4, OnlyIsText
    <3>6. Only(s \o r, kind) = KeepOne(a \o b, c, kind) /\ Only(r, kind) = KeepOne(b, c, kind)
      <4>1. w \in Text
        BY <3>3, TwoJoined
      <4>2. s \o r = Append(w, c)
        BY <3>1, <3>3, JoinedAppend
      <4>3. Only(Append(w, c), kind) = KeepOne(Only(w, kind), c, kind)
        BY <4>1, OnlyOfAppend
      <4>4. Only(Append(t, c), kind) = KeepOne(b, c, kind)
        BY <3>4, OnlyOfAppend
      <4> QED
        BY <3>1, <3>5, <4>2, <4>3, <4>4
    <3>7. a \o KeepOne(b, c, kind) = KeepOne(a \o b, c, kind)
      BY <3>5, JoinedAppend DEF KeepOne
    <3> QED
      BY <3>4, <3>6, <3>7
  <2> QED
    BY <2>1
<1>3. Nat \subseteq T
  <2> HIDE DEF T
  <2> QED BY <1>1, <1>2, NatSet
<1>4. Len(u) \in T
  BY <1>3, LenProperties DEF Text
<1> QED
  BY <1>4

\* To keep more first changes nothing.
LEMMA OnlyOfOnly ==
    ASSUME NEW kind, NEW wide, kind \subseteq wide, NEW s \in Text
    PROVE  Only(Only(s, wide), kind) = Only(s, kind)
<1> DEFINE T == {n \in Nat : \A t \in Text : Len(t) = n => Only(Only(t, wide), kind) = Only(t, kind)}
<1>1. 0 \in T
  <2>1. ASSUME NEW t \in Text, Len(t) = 0 PROVE Only(Only(t, wide), kind) = Only(t, kind)
    <3>1. t = <<>>
      BY <2>1, EmptySeq DEF Text
    <3> QED
      BY <3>1, OnlyOfNone
  <2> QED
    BY <2>1
<1>2. ASSUME NEW n \in Nat, n \in T PROVE n + 1 \in T
  <2>1. ASSUME NEW r \in Text, Len(r) = n + 1 PROVE Only(Only(r, wide), kind) = Only(r, kind)
    <3>1. PICK t \in Text, c \in Character : r = Append(t, c) /\ Len(t) = n /\ c = r[n + 1]
      BY <2>1, LastCharacter
    <3>2. Only(Only(t, wide), kind) = Only(t, kind)
      BY <1>2, <3>1
    <3>3. PICK a : a = Only(t, wide)
      OBVIOUS
    <3>4. a \in Text /\ Only(a, kind) = Only(t, kind)
      BY <3>2, <3>3, OnlyIsText
    <3>5. Only(r, wide) = KeepOne(a, c, wide) /\ Only(r, kind) = KeepOne(Only(t, kind), c, kind)
      BY <3>1, <3>3, OnlyOfAppend
    <3>6. CASE c \in wide
      <4>1. Only(Append(a, c), kind) = KeepOne(Only(a, kind), c, kind)
        BY <3>4, OnlyOfAppend
      <4> QED
        BY <3>4, <3>5, <3>6, <4>1 DEF KeepOne
    <3>7. CASE c \notin wide
      <4>1. c \notin kind
        BY <3>7
      <4> QED
        BY <3>4, <3>5, <3>7, <4>1 DEF KeepOne
    <3> QED
      BY <3>6, <3>7
  <2> QED
    BY <2>1
<1>3. Nat \subseteq T
  <2> HIDE DEF T
  <2> QED BY <1>1, <1>2, NatSet
<1>4. Len(s) \in T
  BY <1>3, LenProperties DEF Text
<1> QED
  BY <1>4

\* Of a text without such characters nothing is kept.
LEMMA OnlyOfOthers ==
    ASSUME NEW kind, NEW s \in Text, \A i \in 1 .. Len(s) : s[i] \notin kind
    PROVE  Only(s, kind) = <<>>
<1> DEFINE T == {n \in Nat : \A t \in Text :
                    Len(t) = n =>
                        ((\A i \in 1 .. Len(t) : t[i] \notin kind) => Only(t, kind) = <<>>)}
<1>1. 0 \in T
  <2>1. ASSUME NEW t \in Text, Len(t) = 0
        PROVE  (\A i \in 1 .. Len(t) : t[i] \notin kind) => Only(t, kind) = <<>>
    <3>1. t = <<>>
      BY <2>1, EmptySeq DEF Text
    <3> QED
      BY <3>1, OnlyOfNone
  <2> QED
    BY <2>1
<1>2. ASSUME NEW n \in Nat, n \in T PROVE n + 1 \in T
  <2>1. ASSUME NEW r \in Text, Len(r) = n + 1
        PROVE  (\A i \in 1 .. Len(r) : r[i] \notin kind) => Only(r, kind) = <<>>
    <3>1. PICK t \in Text, c \in Character : r = Append(t, c) /\ Len(t) = n /\ c = r[n + 1]
      BY <2>1, LastCharacter
    <3>2. ((\A i \in 1 .. Len(t) : t[i] \notin kind) => Only(t, kind) = <<>>)
      BY <1>2, <3>1
    <3>3. ASSUME \A i \in 1 .. Len(r) : r[i] \notin kind PROVE Only(r, kind) = <<>>
      <4>1. \A i \in 1 .. Len(t) : t[i] = r[i] /\ i \in 1 .. Len(r)
        BY <2>1, <3>1, OneMore
      <4>2. Only(t, kind) = <<>>
        BY <3>2, <3>3, <4>1
      <4>3. n + 1 \in 1 .. Len(r)
        BY <2>1
      <4>4. c \notin kind
        BY <3>1, <3>3, <4>3
      <4>5. Only(r, kind) = KeepOne(Only(t, kind), c, kind)
        BY <3>1, OnlyOfAppend
      <4> QED
        BY <4>2, <4>4, <4>5 DEF KeepOne
    <3> QED
      BY <3>3
  <2> QED
    BY <2>1
<1>3. Nat \subseteq T
  <2> HIDE DEF T
  <2> QED BY <1>1, <1>2, NatSet
<1>4. Len(s) \in T
  BY <1>3, LenProperties DEF Text
<1> QED
  BY <1>4

-----------------------------------------------------------------------------
(* Where the planner cuts *)

\* No sound in a text without speakable content.
LEMMA NothingToSay ==
    ASSUME NEW s \in Text, ~HasSpeakableContent(s)
    PROVE  Sounds(s) = <<>>
<1> DEFINE speakable == {i \in DOMAIN s : s[i] \in Letter \cup Wide}
<1>1. Len(s) \in Nat /\ DOMAIN s = 1 .. Len(s)
  BY LenProperties DEF Text
<1>2. IsFiniteSet(speakable)
  <2>1. speakable \subseteq 1 .. Len(s) /\ IsFiniteSet(1 .. Len(s))
    BY <1>1, FS_Interval
  <2> HIDE DEF speakable
  <2> QED
    BY <2>1, FS_Subset
<1>3. speakable = {}
  <2>1. Cardinality(speakable) \in Nat /\ ~ (Cardinality(speakable) > 0)
    BY <1>2, FS_CardinalityType DEF HasSpeakableContent, Count
  <2>2. Cardinality(speakable) = 0
    BY <2>1
  <2> QED
    BY <1>2, <2>2, FS_EmptySet
<1>4. \A i \in 1 .. Len(s) : s[i] \notin {"e", "z"}
  BY <1>1, <1>3 DEF Letter, Wide
<1> QED
  BY <1>4, OnlyOfOthers DEF Sounds

\* The sounds of two texts are those of either.
LEMMA SoundsOfJoined ==
    ASSUME NEW s \in Text, NEW t \in Text
    PROVE  Sounds(s \o t) = Sounds(s) \o Sounds(t) /\ Sounds(s) \in Text
BY OnlyOfJoined, OnlyIsText DEF Sounds

\* The filter takes no sound.
LEMMA SanitizeKeepsSounds ==
    ASSUME NEW s \in Text
    PROVE  Sanitize(s) \in Text /\ Sounds(Sanitize(s)) = Sounds(s)
<1>1. {"e", "z"} \subseteq Character \ Emoji
  BY DEF Character, Letter, Wide, Emoji, Stop, Opening, Closing, Space
<1> QED
  BY <1>1, OnlyOfOnly, OnlyIsText DEF Sounds, Sanitize

\* The places up to n.
Below(places, n) == {j \in places : j <= n}

\* Of so many places one is the k-th.
LEMMA OneIsTheKth ==
    ASSUME NEW length \in Nat, NEW places, places \subseteq 1 .. length,
           NEW k \in Nat \ {0}, Cardinality(places) >= k
    PROVE  \E i \in places : Cardinality(Below(places, i)) = k
<1>a. \A j \in places : j \in Nat /\ 1 <= j /\ j <= length
  OBVIOUS
<1>1. IsFiniteSet(places)
  <2>1. IsFiniteSet(1 .. length)
    BY FS_Interval
  <2> QED
    BY <2>1, FS_Subset
<1>2. \A n : IsFiniteSet(Below(places, n)) /\ Cardinality(Below(places, n)) \in Nat
  <2>1. \A n : Below(places, n) \subseteq places
    BY DEF Below
  <2>2. \A n : IsFiniteSet(Below(places, n))
    BY <1>1, <2>1, FS_Subset
  <2> QED
    BY <2>2, FS_CardinalityType
<1> SUFFICES ASSUME \A i \in places : Cardinality(Below(places, i)) # k PROVE FALSE
  OBVIOUS
<1> DEFINE T == {n \in Nat : Cardinality(Below(places, n)) < k}
<1>3. 0 \in T
  <2>1. Below(places, 0) = {}
    <3>1. \A j \in Below(places, 0) : j \in places /\ j <= 0
      BY DEF Below
    <3>2. ASSUME NEW j \in Below(places, 0) PROVE FALSE
      <4>1. j \in places /\ j <= 0
        BY <3>1
      <4>2. j \in Nat /\ 1 <= j
        BY <1>a, <4>1
      <4> QED
        BY <4>1, <4>2
    <3> QED
      BY <3>2
  <2>2. Cardinality(Below(places, 0)) = 0
    BY <2>1, FS_EmptySet
  <2> QED
    BY <2>2
<1>4. ASSUME NEW n \in Nat, n \in T PROVE n + 1 \in T
  <2>1. CASE n + 1 \notin places
    <3>1. Below(places, n + 1) = Below(places, n)
      <4>1. \A j \in places : j <= n + 1 <=> j <= n
        BY <1>a, <2>1
      <4> QED
        BY <4>1, Zenon DEF Below
    <3> QED
      BY <1>4, <3>1
  <2>2. CASE n + 1 \in places
    <3>1. Below(places, n + 1) = Below(places, n) \cup {n + 1} /\ n + 1 \notin Below(places, n)
      <4>1. \A j \in places : j <= n + 1 <=> j <= n \/ j = n + 1
        BY <1>a
      <4>2. ~ (n + 1 <= n)
        OBVIOUS
      <4> QED
        BY <2>2, <4>1, <4>2, Zenon DEF Below
    <3>2. Cardinality(Below(places, n + 1)) = Cardinality(Below(places, n)) + 1
      BY <1>2, <3>1, FS_AddElement
    <3>3. Cardinality(Below(places, n + 1)) # k
      BY <2>2
    <3> QED
      BY <1>2, <1>4, <3>2, <3>3
  <2> QED
    BY <2>1, <2>2
<1>5. Nat \subseteq T
  <2> HIDE DEF T
  <2> QED BY <1>3, <1>4, NatSet
<1>6. Below(places, length) = places
  BY <1>a, Zenon DEF Below
<1>7. Cardinality(places) \in Nat /\ Cardinality(places) < k
  BY <1>2, <1>5, <1>6
<1> QED
  BY <1>7

\* The place of the en_max_words-th word is in the text.
LEMMA WordSplitInside ==
    ASSUME NEW s \in Text, CountEnglishWords(s) >= EnMax
    PROVE  WordSplit(s) \in 1 .. Len(s)
<1>1. EnMax \in Nat \ {0}
  BY PlannerAssumption
<1>2. PICK starts : starts = WordStarts(s)
  OBVIOUS
<1>3. Len(s) \in Nat /\ starts \subseteq 1 .. Len(s)
  BY <1>2, LenProperties DEF WordStarts, Text
<1>4. \E i \in starts : Cardinality(Below(starts, i)) = EnMax
  BY <1>1, <1>2, <1>3, OneIsTheKth DEF CountEnglishWords
<1>5. WordSplit(s) = CHOOSE i \in starts : Cardinality(Below(starts, i)) = EnMax
  BY <1>2, Zenon DEF WordSplit, Below
<1>6. WordSplit(s) \in starts
  BY <1>4, <1>5
<1> QED
  BY <1>3, <1>6

\* A forced cut is in the text.
LEMMA ForceSplitInside ==
    ASSUME NEW s \in Text, NEW n \in Nat
    PROVE  ForceSplitByChars(s, n) \in 0 .. Len(s)
<1>1. Len(s) \in Nat
  BY LenProperties DEF Text
<1>2. PICK end : end = Min({n, Len(s)})
  OBVIOUS
<1>3. end \in Nat /\ end <= Len(s)
  <2>1. {n, Len(s)} \subseteq Nat /\ {n, Len(s)} # {}
    BY <1>1
  <2>2. end \in {n, Len(s)} /\ \A m \in {n, Len(s)} : end <= m
    BY <1>2, <2>1, MinOfNats
  <2> QED
    BY <1>1, <2>2
<1>4. PICK spaces : spaces = {i \in 1 .. end : s[i] \in Space /\ BracketDepth(s)[i] = 0}
  OBVIOUS
<1>5. ASSUME spaces # {} PROVE Max(spaces) \in 1 .. end
  <2>1. spaces \subseteq Nat /\ \A i \in spaces : i <= end
    BY <1>3, <1>4
  <2>2. Max(spaces) \in spaces
    BY <1>3, <1>5, <2>1, MaxOfNats
  <2> QED
    BY <1>4, <2>2
<1>6. ForceSplitByChars(s, n) = IF BracketDepth(s)[end] = 0 /\ spaces # {} THEN Max(spaces) ELSE end
  BY <1>2, <1>4 DEF ForceSplitByChars
<1>7. CASE BracketDepth(s)[end] = 0 /\ spaces # {}
  BY <1>1, <1>3, <1>5, <1>6, <1>7
<1>8. CASE ~ (BracketDepth(s)[end] = 0 /\ spaces # {})
  BY <1>1, <1>3, <1>6, <1>8
<1> QED
  BY <1>7, <1>8

\* The end of the first sentence is in the text.
LEMMA SentenceEndInside ==
    ASSUME NEW s \in Text, SentenceEnds(s) # {}
    PROVE  Min(SentenceEnds(s)) \in 1 .. Len(s)
<1>1. SentenceEnds(s) \subseteq 1 .. Len(s)
  BY DEF SentenceEnds, Text
<1>2. SentenceEnds(s) \subseteq Nat
  BY <1>1
<1> QED
  BY <1>1, <1>2, MinOfNats

-----------------------------------------------------------------------------
(* The answer is read, cut and spoken without losing a sound *)

\* A text is what is cut off and what stays.
LEMMA CutJoins ==
    ASSUME NEW s \in Text, NEW n \in Nat, n <= Len(s)
    PROVE  Upto(s, n) \o After(s, n) = s
<1>1. PICK u, w : u = Upto(s, n) /\ w = After(s, n)
  OBVIOUS
<1>2. Len(s) \in Nat /\ u \in Text /\ w \in Text /\ Len(u) = n /\ Len(w) = Len(s) - n
  BY <1>1, Cut, LenProperties DEF Text
<1>3. (\A i \in 1 .. n : u[i] = s[i]) /\ (\A i \in 1 .. Len(s) - n : w[i] = s[n + i])
  BY <1>1, Cut
<1>4. PICK t : t = u \o w
  OBVIOUS
<1>5. /\ t \in Text /\ Len(t) = Len(s)
      /\ \A i \in 1 .. n : t[i] = u[i]
      /\ \A i \in 1 .. Len(s) - n : t[n + i] = w[i]
  <2>1. /\ t \in Text /\ Len(t) = Len(u) + Len(w)
        /\ \A i \in 1 .. Len(u) : t[i] = u[i]
        /\ \A i \in 1 .. Len(w) : t[Len(u) + i] = w[i]
    BY <1>2, <1>4, TwoJoined
  <2> QED
    BY <1>2, <2>1
<1>6. \A i \in 1 .. Len(s) : t[i] = s[i]
  <2>1. ASSUME NEW i \in 1 .. Len(s) PROVE t[i] = s[i]
    <3>1. CASE i <= n
      BY <1>2, <1>3, <1>5, <3>1
    <3>2. CASE ~ (i <= n)
      <4>1. i - n \in 1 .. Len(s) - n /\ n + (i - n) = i
        BY <1>2, <3>2
      <4> QED
        BY <1>3, <1>5, <4>1
    <3> QED
      BY <3>1, <3>2
  <2> QED
    BY <2>1
<1> QED
  BY <1>1, <1>4, <1>5, <1>6, SameText

\* A segment handed over takes its sounds with it, and no other.
LEMMA EmitKeeps ==
    ASSUME pending \in Text, spoken \in Text, NEW n \in Nat, n <= Len(pending), Emit(n)
    PROVE  /\ pending' \in Text /\ spoken' \in Text
           /\ Sounds(spoken') \o Sounds(pending') = Sounds(spoken) \o Sounds(pending)
<1>1. PICK u, w : u = Upto(pending, n) /\ w = After(pending, n)
  OBVIOUS
<1>2. u \in Text /\ w \in Text /\ u \o w = pending
  BY <1>1, Cut, CutJoins
<1>3. pending' = w /\ spoken' = IF HasSpeakableContent(u) THEN spoken \o Sanitize(u) ELSE spoken
  BY <1>1 DEF Emit
<1>4. /\ Sounds(pending) = Sounds(u) \o Sounds(w)
      /\ Sounds(spoken) \in Text /\ Sounds(u) \in Text /\ Sounds(w) \in Text
  BY <1>2, SoundsOfJoined
<1>5. spoken' \in Text /\ Sounds(spoken') = Sounds(spoken) \o Sounds(u)
  <2>1. CASE HasSpeakableContent(u)
    <3>1. Sanitize(u) \in Text /\ Sounds(Sanitize(u)) = Sounds(u)
      BY <1>2, SanitizeKeepsSounds
    <3>2. spoken \o Sanitize(u) \in Text
      BY <3>1, TwoJoined
    <3>3. Sounds(spoken \o Sanitize(u)) = Sounds(spoken) \o Sounds(Sanitize(u))
      BY <3>1, SoundsOfJoined
    <3> QED
      BY <1>3, <2>1, <3>1, <3>2, <3>3
  <2>2. CASE ~HasSpeakableContent(u)
    <3>1. Sounds(u) = <<>>
      BY <1>2, <2>2, NothingToSay
    <3>2. Sounds(spoken) \o <<>> = Sounds(spoken)
      BY <1>4, ConcatEmptySeq DEF Text
    <3> QED
      BY <1>3, <2>2, <3>1, <3>2, Zenon
  <2> QED
    BY <2>1, <2>2
<1>6. JoinsEitherWay(Sounds(spoken), Sounds(u), Sounds(w))
  BY <1>4, JoinedThree
<1> QED
  BY <1>2, <1>3, <1>4, <1>5, <1>6, Zenon DEF JoinsEitherWay

\* What the state holds are texts, and less than a tag is held back.
TextsOK ==
    /\ fed \in Text /\ tag_tail \in Text /\ pending \in Text /\ spoken \in Text
    /\ in_thinking \in BOOLEAN
    /\ Len(tag_tail) < Len(Tag(in_thinking))
    /\ at \in {"idle", "planning", "finishing", "flushing", "done"}

\* While the answer may go on: whatever follows, what will be shown is what is in the planner's
\* hands and what is shown of the tail with what follows.
OpenOK ==
    at \in {"idle", "planning"} =>
        \A c \in Text :
            Sounds(Shown[fed \o c]) =
                (Sounds(spoken) \o Sounds(pending)) \o Sounds(Remaining(in_thinking, tag_tail \o c))

\* Once it has ended, everything is in the planner's hands.
ClosedOK ==
    at \in {"finishing", "flushing", "done"} =>
        /\ tag_tail = <<>> /\ in_thinking = FALSE
        /\ Sounds(Shown[fed]) = Sounds(spoken) \o Sounds(pending)

IInv == TextsOK /\ OpenOK /\ ClosedOK

\* Some of a tag is less than the tag.
LEMMA TagsAreSome == 0 < Len(Tag(FALSE)) /\ Len(<<>>) < Len(Tag(FALSE)) /\ <<>> \in Text
<1>1. \A thinking \in BOOLEAN : 0 < Len(Tag(thinking))
  BY Tags
<1>2. Len(<<>>) = 0 /\ <<>> \in Text
  BY EmptySeq DEF Text
<1> QED
  BY <1>1, <1>2, Zenon

\* When nothing has been fed, all that follows will be shown.
LEMMA NothingYet ==
    ASSUME NEW c \in Text
    PROVE  Sounds(Shown[<<>> \o c]) =
               (Sounds(<<>>) \o Sounds(<<>>)) \o Sounds(Remaining(FALSE, <<>> \o c))
<1>1. <<>> \in Text
  BY EmptySeq DEF Text
<1>2. Sounds(<<>>) = <<>>
  BY OnlyOfNone DEF Sounds
<1>3. <<>> \o c = c
  BY ConcatEmptySeq DEF Text
<1>4. Remaining(FALSE, c) = Shown[c]
  BY DEF Remaining
<1>5. Sounds(Shown[c]) \in Text
  BY ShownIsText, OnlyIsText DEF Sounds
<1>6. <<>> \o <<>> = <<>> /\ <<>> \o Sounds(Shown[c]) = Sounds(Shown[c])
  BY <1>1, <1>5, ConcatEmptySeq DEF Text
<1> QED
  BY <1>2, <1>3, <1>4, <1>6, Zenon

\* A cut by the planner.
LEMMA EmitPreserves ==
    ASSUME IInv, NEW n \in Nat, n <= Len(pending), Emit(n),
           fed' = fed, in_thinking' = in_thinking, tag_tail' = tag_tail,
           at' = at \/ (at = "flushing" /\ at' = "done")
    PROVE  IInv'
<1>0. TextsOK /\ OpenOK /\ ClosedOK
  BY DEF IInv
<1>1. /\ pending' \in Text /\ spoken' \in Text
      /\ Sounds(spoken') \o Sounds(pending') = Sounds(spoken) \o Sounds(pending)
  BY <1>0, EmitKeeps DEF TextsOK
<1>2. TextsOK'
  BY <1>0, <1>1 DEF TextsOK
<1>3. OpenOK'
  <2>1. SUFFICES ASSUME at' \in {"idle", "planning"}, NEW c \in Text
                 PROVE  Sounds(Shown[fed \o c]) =
                            (Sounds(spoken') \o Sounds(pending'))
                                \o Sounds(Remaining(in_thinking, tag_tail \o c))
    BY Zenon DEF OpenOK
  <2>2. at \in {"idle", "planning"}
    BY <2>1
  <2>3. Sounds(Shown[fed \o c]) =
            (Sounds(spoken) \o Sounds(pending)) \o Sounds(Remaining(in_thinking, tag_tail \o c))
    BY <1>0, <2>2, Zenon DEF OpenOK
  <2> QED
    BY <1>1, <2>3, Zenon
<1>4. ClosedOK'
  <2>1. SUFFICES ASSUME at' \in {"finishing", "flushing", "done"}
                 PROVE  /\ tag_tail = <<>> /\ in_thinking = FALSE
                        /\ Sounds(Shown[fed]) = Sounds(spoken') \o Sounds(pending')
    BY Zenon DEF ClosedOK
  <2>2. at \in {"finishing", "flushing", "done"}
    BY <2>1
  <2> QED
    BY <1>0, <1>1, <2>2, Zenon DEF ClosedOK
<1> QED
  BY <1>2, <1>3, <1>4 DEF IInv

\* A chunk is read: what follows it is read from where it ends.
LEMMA FeedPreserves ==
    ASSUME IInv, NEW chunk \in Text, Feed(chunk)
    PROVE  IInv'
<1>0. TextsOK /\ OpenOK
  BY DEF IInv
<1>1. PICK read : read = ProcessInput[tag_tail \o chunk][in_thinking]
  OBVIOUS
<1>2. /\ at = "idle" /\ fed' = fed \o chunk /\ spoken' = spoken
      /\ in_thinking' = read.thinking /\ tag_tail' = read.tail
      /\ pending' = pending \o read.visible
      /\ at' \in {"idle", "planning"}
  BY <1>1 DEF Feed
<1>3. /\ fed \in Text /\ tag_tail \in Text /\ pending \in Text /\ spoken \in Text
      /\ in_thinking \in BOOLEAN
  BY <1>0 DEF TextsOK
<1>4. tag_tail \o chunk \in Text /\ fed \o chunk \in Text
  BY <1>3, TwoJoined
<1>5. ReadAs(read, in_thinking, tag_tail \o chunk)
  BY <1>1, <1>3, <1>4, Reads
<1>6. PICK visible, thinking, tail :
          visible = read.visible /\ thinking = read.thinking /\ tail = read.tail
  OBVIOUS
<1>7. visible \in Text /\ thinking \in BOOLEAN /\ tail \in Text /\ Len(tail) < Len(Tag(thinking))
  BY <1>5, <1>6 DEF ReadAs
<1>8. /\ fed' = fed \o chunk /\ in_thinking' = thinking /\ tag_tail' = tail
      /\ pending' = pending \o visible
  BY <1>2, <1>6
<1>9. pending \o visible \in Text
  BY <1>3, <1>7, TwoJoined
<1>10. TextsOK'
  BY <1>2, <1>3, <1>4, <1>7, <1>8, <1>9 DEF TextsOK
<1>11. ASSUME NEW c \in Text
       PROVE  Sounds(Shown[(fed \o chunk) \o c]) =
                  (Sounds(spoken) \o Sounds(pending \o visible))
                      \o Sounds(Remaining(thinking, tail \o c))
  <2>1. chunk \o c \in Text /\ tail \o c \in Text
    BY <1>7, TwoJoined
  <2>2. JoinsEitherWay(fed, chunk, c)
    BY <1>3, JoinedThree
  <2>3. JoinsEitherWay(tag_tail, chunk, c)
    BY <1>3, JoinedThree
  <2>4. Sounds(Shown[fed \o (chunk \o c)]) =
            (Sounds(spoken) \o Sounds(pending))
                \o Sounds(Remaining(in_thinking, tag_tail \o (chunk \o c)))
    BY <1>0, <1>2, <2>1, Zenon DEF OpenOK
  <2>5. Remaining(in_thinking, (tag_tail \o chunk) \o c) = visible \o Remaining(thinking, tail \o c)
    BY <1>5, <1>6, Zenon DEF ReadAs
  <2>6. PICK rest : rest = Remaining(thinking, tail \o c)
    OBVIOUS
  <2>7. rest \in Text
    BY <1>7, <2>1, <2>6, RemainingIsText
  <2>8. Sounds(visible \o rest) = Sounds(visible) \o Sounds(rest)
    BY <1>7, <2>7, SoundsOfJoined
  <2>9. Sounds(pending \o visible) = Sounds(pending) \o Sounds(visible)
    BY <1>3, <1>7, SoundsOfJoined
  <2>10. PICK said, waits, now, later : /\ said = Sounds(spoken) /\ waits = Sounds(pending)
                                         /\ now = Sounds(visible) /\ later = Sounds(rest)
    OBVIOUS
  <2>11. said \in Text /\ waits \in Text /\ now \in Text /\ later \in Text
    BY <1>3, <1>7, <2>7, <2>10, SoundsOfJoined
  <2>12. (said \o (waits \o now)) \o later = (said \o waits) \o (now \o later)
    <3>1. JoinsEitherWay(said, waits, now)
      BY <2>11, JoinedThree
    <3>2. PICK both : both = said \o waits
      OBVIOUS
    <3>3. both \in Text
      BY <2>11, <3>2, TwoJoined
    <3>4. JoinsEitherWay(both, now, later)
      BY <2>11, <3>3, JoinedThree
    <3> QED
      BY <3>1, <3>2, <3>4, Zenon DEF JoinsEitherWay
  <2> QED
    BY <2>2, <2>3, <2>4, <2>5, <2>6, <2>8, <2>9, <2>10, <2>12, Zenon DEF JoinsEitherWay
<1>12. OpenOK'
  <2>1. ASSUME NEW c \in Text
        PROVE  Sounds(Shown[fed' \o c]) =
                   (Sounds(spoken') \o Sounds(pending'))
                       \o Sounds(Remaining(in_thinking', tag_tail' \o c))
    BY <1>2, <1>8, <1>11, Zenon
  <2> QED
    BY <2>1, Zenon DEF OpenOK
<1>13. ClosedOK'
  BY <1>2 DEF ClosedOK
<1> QED
  BY <1>10, <1>12, <1>13 DEF IInv

\* Less than a tag has no tag in it.
LEMMA NoTagInTail ==
    ASSUME TextsOK
    PROVE  /\ tag_tail \in Text /\ in_thinking \in BOOLEAN
           /\ Remaining(in_thinking, tag_tail) = Plain(in_thinking, tag_tail)
           /\ Plain(in_thinking, tag_tail) \in Text
<1>1. tag_tail \in Text /\ in_thinking \in BOOLEAN /\ Len(tag_tail) < Len(Tag(in_thinking))
  BY DEF TextsOK
<1>2. Len(tag_tail) \in Nat /\ Len(Tag(in_thinking)) \in Nat
  BY <1>1, Tags, LenProperties DEF Text
<1>3. Occurrences(tag_tail, Tag(in_thinking)) = {}
  BY <1>1, <1>2 DEF Occurrences
<1> QED
  BY <1>1, <1>3, RemainingTurns, RemainingIsText

\* While the answer may go on, it may also end here.
LEMMA OpenMayEnd ==
    ASSUME TextsOK, OpenOK, at \in {"idle", "planning"}
    PROVE  Sounds(Shown[fed]) =
               (Sounds(spoken) \o Sounds(pending)) \o Sounds(Plain(in_thinking, tag_tail))
<1>1. fed \in Text /\ tag_tail \in Text /\ <<>> \in Text
  BY EmptySeq DEF TextsOK, Text
<1>2. fed \o <<>> = fed /\ tag_tail \o <<>> = tag_tail
  BY <1>1, ConcatEmptySeq DEF Text
<1>3. Sounds(Shown[fed \o <<>>]) =
          (Sounds(spoken) \o Sounds(pending)) \o Sounds(Remaining(in_thinking, tag_tail \o <<>>))
  BY <1>1, Zenon DEF OpenOK
<1>4. Remaining(in_thinking, tag_tail) = Plain(in_thinking, tag_tail)
  BY NoTagInTail
<1> QED
  BY <1>2, <1>3, <1>4, Zenon

\* The answer ends: what the ingress held back goes to the planner.
LEMMA FinishPreserves ==
    ASSUME IInv, Finish
    PROVE  IInv'
<1>0. TextsOK /\ OpenOK
  BY DEF IInv
<1>1. PICK delta : delta = Plain(in_thinking, tag_tail)
  OBVIOUS
<1>2. /\ at = "idle" /\ fed' = fed /\ spoken' = spoken
      /\ in_thinking' = FALSE /\ tag_tail' = <<>> /\ pending' = pending \o delta
      /\ at' \in {"flushing", "finishing"}
  BY <1>1 DEF Finish, Plain
<1>3. /\ fed \in Text /\ pending \in Text /\ spoken \in Text /\ delta \in Text
  BY <1>0, <1>1, NoTagInTail DEF TextsOK
<1>4. pending \o delta \in Text
  BY <1>3, TwoJoined
<1>5. TextsOK'
  <2>1. Len(tag_tail') < Len(Tag(in_thinking')) /\ tag_tail' \in Text /\ in_thinking' \in BOOLEAN
    BY <1>2, TagsAreSome, Zenon
  <2> QED
    BY <1>2, <1>3, <1>4, <2>1 DEF TextsOK
<1>6. OpenOK'
  BY <1>2 DEF OpenOK
<1>7. Sounds(Shown[fed]) = Sounds(spoken) \o Sounds(pending \o delta)
  <2>1. Sounds(Shown[fed]) = (Sounds(spoken) \o Sounds(pending)) \o Sounds(delta)
    BY <1>0, <1>1, <1>2, OpenMayEnd
  <2>2. Sounds(pending \o delta) = Sounds(pending) \o Sounds(delta)
    BY <1>3, SoundsOfJoined
  <2>3. PICK a, b, d : a = Sounds(spoken) /\ b = Sounds(pending) /\ d = Sounds(delta)
    OBVIOUS
  <2>4. a \in Text /\ b \in Text /\ d \in Text
    BY <1>3, <2>3, SoundsOfJoined
  <2>5. JoinsEitherWay(a, b, d)
    BY <2>4, JoinedThree
  <2> QED
    BY <2>1, <2>2, <2>3, <2>5, Zenon DEF JoinsEitherWay
<1>8. ClosedOK'
  BY <1>2, <1>7, Zenon DEF ClosedOK
<1> QED
  BY <1>5, <1>6, <1>8 DEF IInv

\* Whatever way the planner goes, it cuts inside what is pending.
LEMMA PlanPreserves ==
    ASSUME IInv, Plan
    PROVE  IInv'
<1>0. pending \in Text /\ Len(pending) \in Nat
  BY LenProperties DEF IInv, TextsOK, Text
<1>1. CASE EmitSentence
  <2>1. PICK n : n = Min(SentenceEnds(pending))
    OBVIOUS
  <2>2. /\ Emit(n) /\ SentenceEnds(pending) # {}
        /\ fed' = fed /\ in_thinking' = in_thinking /\ tag_tail' = tag_tail /\ at' = at
    BY <1>1, <2>1 DEF EmitSentence, SentenceReady
  <2>3. n \in 1 .. Len(pending)
    BY <1>0, <2>1, <2>2, SentenceEndInside
  <2>4. n \in Nat /\ n <= Len(pending)
    BY <1>0, <2>3
  <2> QED
    BY <2>2, <2>4, EmitPreserves
<1>2. CASE EmitLong
  <2>1. PICK n : n = IF IsMostlyEnglish(pending) THEN WordSplit(pending)
                                                 ELSE ForceSplitByChars(pending, ZhMax)
    OBVIOUS
  <2>2. /\ Emit(n) /\ TooLong(pending)
        /\ fed' = fed /\ in_thinking' = in_thinking /\ tag_tail' = tag_tail /\ at' = at
    BY <1>2, <2>1 DEF EmitLong
  <2>3. CASE IsMostlyEnglish(pending)
    <3>1. CountEnglishWords(pending) >= EnMax
      BY <2>2, <2>3 DEF TooLong
    <3>2. n \in 1 .. Len(pending)
      BY <1>0, <2>1, <2>3, <3>1, WordSplitInside
    <3> QED
      BY <1>0, <2>2, <3>2, EmitPreserves
  <2>4. CASE ~IsMostlyEnglish(pending)
    <3>1. n \in 0 .. Len(pending)
      BY <1>0, <2>1, <2>4, ForceSplitInside, PlannerAssumption
    <3> QED
      BY <1>0, <2>2, <3>1, EmitPreserves
  <2> QED
    BY <2>3, <2>4
<1>3. CASE EmitLate
  <2>1. PICK most : most = IF IsMostlyEnglish(pending) THEN 2 * ZhMax ELSE ZhMin
    OBVIOUS
  <2>2. most \in Nat
    BY <2>1, PlannerAssumption
  <2>3. PICK n : n = ForceSplitByChars(pending, most)
    OBVIOUS
  <2>4. /\ Emit(n)
        /\ fed' = fed /\ in_thinking' = in_thinking /\ tag_tail' = tag_tail /\ at' = at
    BY <1>3, <2>1, <2>3 DEF EmitLate
  <2>5. n \in 0 .. Len(pending)
    BY <1>0, <2>2, <2>3, ForceSplitInside
  <2> QED
    BY <1>0, <2>4, <2>5, EmitPreserves
<1>4. CASE Keep
  <2>0. TextsOK /\ OpenOK /\ ClosedOK
    BY DEF IInv
  <2>1. /\ fed' = fed /\ in_thinking' = in_thinking /\ tag_tail' = tag_tail
        /\ pending' = pending /\ spoken' = spoken
        /\ \/ at = "planning" /\ at' = "idle"
           \/ at = "finishing" /\ at' = "flushing"
    BY <1>4 DEF Keep, Planning
  <2>2. TextsOK'
    BY <2>0, <2>1 DEF TextsOK
  <2>3. OpenOK'
    <3>1. CASE at = "planning"
      <4>1. at \in {"idle", "planning"}
        BY <3>1
      <4>2. \A c \in Text :
                Sounds(Shown[fed \o c]) =
                    (Sounds(spoken) \o Sounds(pending)) \o Sounds(Remaining(in_thinking, tag_tail \o c))
        BY <2>0, <4>1, Zenon DEF OpenOK
      <4> QED
        BY <2>1, <4>2, Zenon DEF OpenOK
    <3>2. CASE at = "finishing"
      BY <2>1, <3>2 DEF OpenOK
    <3> QED
      BY <2>1, <3>1, <3>2
  <2>4. ClosedOK'
    <3>1. CASE at = "planning"
      BY <2>1, <3>1 DEF ClosedOK
    <3>2. CASE at = "finishing"
      <4>1. at \in {"finishing", "flushing", "done"}
        BY <3>2
      <4> QED
        BY <2>0, <2>1, <4>1, Zenon DEF ClosedOK
    <3> QED
      BY <2>1, <3>1, <3>2
  <2> QED
    BY <2>2, <2>3, <2>4 DEF IInv
<1> QED
  BY <1>1, <1>2, <1>3, <1>4 DEF Plan

\* The invariant is inductive.
LEMMA NextPreserves ==
    ASSUME IInv, [TextNext]_textVars
    PROVE  IInv'
<1>1. CASE FeedAny
  <2>1. PICK style \in Styles :
            \E chunk \in BoundedSeq(style, MaxAnswer - Len(fed)) \ {<<>>} : Feed(chunk)
    BY <1>1 DEF FeedAny
  <2>2. PICK chunk \in BoundedSeq(style, MaxAnswer - Len(fed)) : Feed(chunk)
    BY <2>1
  <2>3. PICK m \in 0 .. MaxAnswer - Len(fed) : chunk \in [1 .. m -> style]
    BY DEF BoundedSeq, SeqOf
  <2>4. style \subseteq Character
    BY TextAssumption
  <2>5. m \in Nat
    OBVIOUS
  <2>6. chunk \in Text
    BY <2>3, <2>4, <2>5, IsASeq DEF Text
  <2> QED
    BY <2>2, <2>6, FeedPreserves
<1>2. CASE Plan
  BY <1>2, PlanPreserves
<1>3. CASE Finish
  BY <1>3, FinishPreserves
<1>4. CASE FlushPending
  <2>1. Len(pending) \in Nat
    BY LenProperties DEF IInv, TextsOK, Text
  <2>2. /\ Emit(Len(pending)) /\ at = "flushing" /\ at' = "done"
        /\ fed' = fed /\ in_thinking' = in_thinking /\ tag_tail' = tag_tail
    BY <1>4 DEF FlushPending
  <2> QED
    BY <2>1, <2>2, EmitPreserves
<1>5. CASE Reset
  <2>1. /\ fed' = <<>> /\ in_thinking' = FALSE /\ tag_tail' = <<>>
        /\ pending' = <<>> /\ spoken' = <<>> /\ at' = "idle"
    BY <1>5 DEF Reset
  <2>2. TextsOK'
    BY <2>1, TagsAreSome, Zenon DEF TextsOK
  <2>3. OpenOK'
    BY <2>1, NothingYet, Zenon DEF OpenOK
  <2>4. ClosedOK'
    BY <2>1 DEF ClosedOK
  <2> QED
    BY <2>2, <2>3, <2>4 DEF IInv
<1>6. CASE UNCHANGED textVars
  BY <1>6 DEF textVars, IInv, TextsOK, OpenOK, ClosedOK
<1> QED
  BY <1>1, <1>2, <1>3, <1>4, <1>5, <1>6 DEF TextNext

\* The invariant says that all that is shown is spoken or waits.
LEMMA NothingIsLost ==
    ASSUME IInv
    PROVE  SpokenIsVisible
<1>0. TextsOK /\ OpenOK /\ ClosedOK
  BY DEF IInv
<1>1. PICK delta : delta = Plain(in_thinking, tag_tail)
  OBVIOUS
<1>2. pending \in Text /\ spoken \in Text /\ delta \in Text /\ spoken \o pending \in Text
  BY <1>0, <1>1, NoTagInTail, TwoJoined DEF TextsOK
<1>3. Sounds((spoken \o pending) \o delta) = (Sounds(spoken) \o Sounds(pending)) \o Sounds(delta)
  <2>1. Sounds((spoken \o pending) \o delta) = Sounds(spoken \o pending) \o Sounds(delta)
    BY <1>2, SoundsOfJoined
  <2>2. Sounds(spoken \o pending) = Sounds(spoken) \o Sounds(pending)
    BY <1>2, SoundsOfJoined
  <2> QED
    BY <2>1, <2>2, Zenon
<1>4. Sounds(Shown[fed]) = (Sounds(spoken) \o Sounds(pending)) \o Sounds(delta)
  <2>1. CASE at \in {"idle", "planning"}
    BY <1>0, <1>1, <2>1, OpenMayEnd
  <2>2. CASE at \in {"finishing", "flushing", "done"}
    <3>1. /\ tag_tail = <<>> /\ in_thinking = FALSE
          /\ Sounds(Shown[fed]) = Sounds(spoken) \o Sounds(pending)
      BY <1>0, <2>2, Zenon DEF ClosedOK
    <3>2. delta = <<>>
      BY <1>1, <3>1 DEF Plain
    <3>3. Sounds(delta) = <<>>
      BY <3>2, OnlyOfNone DEF Sounds
    <3>4. Sounds(spoken) \o Sounds(pending) \in Text
      <4>1. Sounds(spoken) \in Text /\ Sounds(pending) \in Text
        BY <1>2, SoundsOfJoined
      <4> QED
        BY <4>1, TwoJoined
    <3>5. (Sounds(spoken) \o Sounds(pending)) \o <<>> = Sounds(spoken) \o Sounds(pending)
      BY <3>4, ConcatEmptySeq DEF Text
    <3> QED
      BY <3>1, <3>3, <3>5, Zenon
  <2> QED
    BY <1>0, <2>1, <2>2 DEF TextsOK
<1> QED
  BY <1>1, <1>3, <1>4, Zenon DEF SpokenIsVisible, Plain

\* However the answer is cut into chunks and into segments, what has been spoken, what waits
\* and what is held back are together the answer without its thinking: of answers of any
\* length, for any two tags and any limits of the planner.
THEOREM AnswerIsSpokenWithoutThinking == TextSpec => []SpokenIsVisible
<1>1. ASSUME TextInit PROVE IInv
  <2>1. TextsOK
    BY <1>1, TagsAreSome, Zenon DEF TextInit, TextsOK
  <2>2. OpenOK
    BY <1>1, NothingYet, Zenon DEF TextInit, OpenOK
  <2>3. ClosedOK
    BY <1>1 DEF TextInit, ClosedOK
  <2> QED
    BY <2>1, <2>2, <2>3 DEF IInv
<1>2. IInv /\ [TextNext]_textVars => IInv'
  BY NextPreserves
<1>3. IInv => SpokenIsVisible
  BY NothingIsLost
<1> QED
  BY <1>1, <1>2, <1>3, PTL DEF TextSpec

-----------------------------------------------------------------------------
(* AudioPlayer: one child plays, the keepalive is paused by a call of        *)
(* PlayPcm only, and the last Shutdown leaves nothing behind.                *)

\* The stream: only the child named by g_play_pid plays, and the pipe leads to it.
StreamInv ==
    /\ child \in [Child -> {"none", "running", "zombie", "reaped"}]
    /\ play_pid \in Child \cup {0} /\ write_fd = play_pid
    /\ needs_prime \in BOOLEAN
    /\ \A c \in Child : child[c] = "running" => c = play_pid

\* Only a call of PlayPcm that has not restarted the stream keeps the keepalive paused.
PauseInv ==
    /\ keep_paused \in BOOLEAN
    /\ keep_paused => play \notin {"idle", "exited", "reprime"}

\* The threads end in the order of the shutdown, and do not come back.
ShutInv ==
    /\ main \in {"down", "beginning_again", "stopping_again", "locking_again", "done"} =>
           play = "exited"
    /\ main \in {"locking_again", "done"} => keeper = "none"
    /\ main = "done" => play_pid = 0

\* The counters and program counters.
ControlTypeOK ==
    /\ keep_stop \in BOOLEAN /\ killed \in BOOLEAN
    /\ lock \in {"free", "keeper", "play"}
    /\ keeper \in {"none", "loop", "waiting", "feeding", "returned"}
    /\ play \in {"idle", "waiting", "prime", "reprime", "write", "rewrite", "exited"}
    /\ plays \in 0 .. MaxPlays
    /\ main \in {"up", "beginning", "stopping", "stop_locking", "joining",
                 "down", "beginning_again", "stopping_again", "locking_again", "done"}

-----------------------------------------------------------------------------
\* The stream

\* A child that is told to end does not play, and no other is touched.
LEMMA TerminatedStops ==
    ASSUME StreamInv, NEW now \in {"zombie", "reaped"}
    PROVE  /\ Terminated(play_pid, now) \in [Child -> {"none", "running", "zombie", "reaped"}]
           /\ \A c \in Child : Terminated(play_pid, now)[c] # "running"
<1>1. CASE play_pid = 0
  <2>1. 0 \notin Child
    BY PlayerAssumption DEF Child
  <2> QED
    BY <1>1, <2>1 DEF StreamInv, Terminated
<1>2. CASE play_pid # 0
  <2>1. play_pid \in Child
    BY <1>2 DEF StreamInv
  <2> QED
    BY <1>2, <2>1 DEF StreamInv, Terminated
<1> QED
  BY <1>1, <1>2

\* A new stream is the only one when nothing played before it.
LEMMA StartKeepsStream ==
    ASSUME NEW before \in [Child -> {"none", "running", "zombie", "reaped"}],
           \A c \in Child : before[c] # "running",
           needs_prime \in BOOLEAN, StartStream(before)
    PROVE  StreamInv'
<1>1. CASE child' = before /\ play_pid' = 0 /\ write_fd' = 0 /\ needs_prime' = needs_prime
  BY <1>1 DEF StreamInv
<1>2. ASSUME NEW c \in Child, child' = [before EXCEPT ![c] = "running"],
             play_pid' = c, write_fd' = c, needs_prime' = TRUE
      PROVE  StreamInv'
  BY <1>2 DEF StreamInv
<1> QED
  BY <1>1, <1>2 DEF StartStream

\* Neither is one that is started after the old one was told to end.
LEMMA RestartKeepsStream ==
    ASSUME StreamInv, Restart
    PROVE  StreamInv'
<1>1. PICK now \in {"zombie", "reaped"} : StartStream(Terminated(play_pid, now))
  BY DEF Restart
<1> QED
  BY <1>1, TerminatedStops, StartKeepsStream DEF StreamInv

\* EnsureStreamProcess replaces a child that has died, and only that.
LEMMA EnsureKeepsStream ==
    ASSUME StreamInv, EnsureStream
    PROVE  StreamInv'
<1>1. CASE play_pid # 0 /\ child[play_pid] = "zombie"
  <2>1. \A c \in Child : child[c] # "running"
    BY <1>1 DEF StreamInv
  <2> DEFINE before == [child EXCEPT ![play_pid] = "reaped"]
  <2>2. /\ before \in [Child -> {"none", "running", "zombie", "reaped"}]
        /\ \A c \in Child : before[c] # "running"
    BY <2>1 DEF StreamInv
  <2>3. StartStream(before)
    BY <1>1 DEF EnsureStream
  <2> QED
    BY <2>2, <2>3, StartKeepsStream DEF StreamInv
<1>2. CASE UNCHANGED streamVars
  BY <1>2 DEF StreamInv, streamVars
<1>3. CASE Restart
  BY <1>3, RestartKeepsStream
<1> QED
  BY <1>1, <1>2, <1>3 DEF EnsureStream

\* Every step keeps the stream whole.
LEMMA StepStream == StreamInv /\ [Next]_vars => StreamInv'
<1> SUFFICES ASSUME StreamInv, [Next]_vars PROVE StreamInv'
  OBVIOUS
<1>1. CASE ChildDies
  BY <1>1 DEF ChildDies, StreamInv
<1>2. CASE PlayEnsure \/ KeepEnsure
  <2>1. CASE UNCHANGED streamVars
    BY <2>1 DEF StreamInv, streamVars
  <2> QED
    BY <1>2, <2>1, EnsureKeepsStream DEF PlayEnsure, KeepEnsure
<1>3. CASE PlayPrime \/ PlayWrite
  <2>1. CASE Restart
    BY <2>1, RestartKeepsStream
  <2>2. CASE needs_prime' \in BOOLEAN /\ UNCHANGED <<child, play_pid, write_fd>>
    BY <2>2 DEF StreamInv
  <2> QED
    BY <1>3, <2>1, <2>2 DEF PlayPrime, PlayWrite, streamVars, StreamInv
<1>4. CASE StopStream
  BY <1>4, TerminatedStops DEF StopStream, StreamInv
<1>5. CASE needs_prime' \in BOOLEAN /\ UNCHANGED <<child, play_pid, write_fd>>
  BY <1>5 DEF StreamInv
<1>6. PlayReprime \/ PlayRewrite \/ KeepFeed => needs_prime' \in BOOLEAN /\ UNCHANGED <<child, play_pid, write_fd>>
  BY DEF PlayReprime, PlayRewrite, KeepFeed
<1>7. PlayPcm \/ KeepLoop \/ BeginIdleKeepalive \/ BeginStop \/ StartKeepalive \/ JoinKeeper
      \/ JoinPlayback \/ UNCHANGED vars
      => needs_prime' \in BOOLEAN /\ UNCHANGED <<child, play_pid, write_fd>>
  BY DEF StreamInv, PlayPcm, KeepLoop, BeginIdleKeepalive, BeginStop, StartKeepalive, JoinKeeper,
         JoinPlayback, vars, streamVars
<1> QED
  BY <1>1, <1>2, <1>3, <1>4, <1>5, <1>6, <1>7 DEF Next, Playback, Keepalive, Shutdown

-----------------------------------------------------------------------------
\* The threads

\* Every step keeps the program counters in their sets.
LEMMA StepControl == ControlTypeOK /\ [Next]_vars => ControlTypeOK'
<1> SUFFICES ASSUME ControlTypeOK, [Next]_vars PROVE ControlTypeOK'
  OBVIOUS
<1>0. Fatal \in BOOLEAN /\ (needs_prime /\ Fatal) \in BOOLEAN
  BY Zenon DEF Fatal
<1>1. CASE ChildDies
  BY <1>1 DEF ChildDies, keepVars, playVars, ControlTypeOK
<1>2. CASE PlayPcm
  BY <1>2, PlayerAssumption DEF PlayPcm, ControlTypeOK
<1>3. CASE PlayEnsure
  BY <1>3 DEF PlayEnsure, Return, Hold, ControlTypeOK
<1>4. CASE PlayPrime
  BY <1>0, <1>4 DEF PlayPrime, Hold, ControlTypeOK
<1>5. CASE PlayReprime
  BY <1>0, <1>5 DEF PlayReprime, Hold, keepVars, ControlTypeOK
<1>6. CASE PlayWrite
  BY <1>0, <1>6 DEF PlayWrite, Return, Hold, ControlTypeOK
<1>7. CASE PlayRewrite
  BY <1>0, <1>7 DEF PlayRewrite, Return, ControlTypeOK
<1>8. CASE KeepLoop
  BY <1>8 DEF KeepLoop, playVars, ControlTypeOK
<1>9. CASE KeepEnsure
  BY <1>9 DEF KeepEnsure, playVars, ControlTypeOK
<1>10. CASE KeepFeed
  BY <1>0, <1>10 DEF KeepFeed, playVars, ControlTypeOK
<1>11. CASE BeginIdleKeepalive \/ BeginStop
  BY <1>11 DEF BeginIdleKeepalive, BeginStop, EndIdleKeepalive, playVars, ControlTypeOK
<1>12. CASE StartKeepalive \/ JoinKeeper \/ StopStream \/ JoinPlayback
  BY <1>12 DEF StartKeepalive, JoinKeeper, StopStream, JoinPlayback, keepVars, playVars,
               ControlTypeOK
<1>13. CASE UNCHANGED vars
  BY <1>13 DEF vars, keepVars, playVars, ControlTypeOK
<1> QED
  BY <1>1, <1>2, <1>3, <1>4, <1>5, <1>6, <1>7, <1>8, <1>9, <1>10, <1>11, <1>12, <1>13
     DEF Next, Playback, Keepalive, Shutdown

\* Every way through PlayPcm lets go of the keepalive.
LEMMA StepPause == PauseInv /\ [Next]_vars => PauseInv'
<1> SUFFICES ASSUME PauseInv, [Next]_vars PROVE PauseInv'
  OBVIOUS
<1>1. CASE UNCHANGED <<keep_paused, play>>
  BY <1>1 DEF PauseInv
<1>2. CASE PlayPcm
  BY <1>2 DEF PlayPcm, PauseInv
<1>3. CASE PlayEnsure
  BY <1>3 DEF PlayEnsure, Return, Hold, PauseInv
<1>4. CASE PlayPrime
  BY <1>4 DEF PlayPrime, Hold, PauseInv
<1>5. CASE PlayReprime
  BY <1>5 DEF PlayReprime, Hold, keepVars, PauseInv
<1>6. CASE PlayWrite
  BY <1>6 DEF PlayWrite, Return, Hold, PauseInv
<1>7. CASE PlayRewrite
  BY <1>7 DEF PlayRewrite, Return, PauseInv
<1>8. CASE BeginIdleKeepalive \/ BeginStop \/ StartKeepalive
  BY <1>8 DEF BeginIdleKeepalive, BeginStop, StartKeepalive, EndIdleKeepalive, playVars, PauseInv
<1>9. CASE JoinPlayback
  BY <1>9 DEF JoinPlayback, keepVars, PauseInv
<1>10. ChildDies \/ Keepalive \/ JoinKeeper \/ StopStream \/ UNCHANGED vars
       => UNCHANGED <<keep_paused, play>>
  BY DEF ChildDies, Keepalive, KeepLoop, KeepEnsure, KeepFeed, JoinKeeper, StopStream, vars,
         keepVars, playVars
<1> QED
  BY <1>1, <1>2, <1>3, <1>4, <1>5, <1>6, <1>7, <1>8, <1>9, <1>10
     DEF Next, Playback, Shutdown

\* After the playback thread and then the keepalive thread are joined, neither starts
\* a stream again.
LEMMA StepShut == ShutInv /\ [Next]_vars => ShutInv'
<1> SUFFICES ASSUME ShutInv, [Next]_vars PROVE ShutInv'
  OBVIOUS
<1>1. CASE ChildDies \/ UNCHANGED vars
  BY <1>1 DEF ChildDies, vars, streamVars, keepVars, playVars, ShutInv
<1>2. CASE Playback
  <2>1. play # "exited" /\ main' = main /\ keeper' = keeper
    BY <1>2 DEF Playback, PlayPcm, PlayEnsure, PlayPrime, PlayReprime, PlayWrite, PlayRewrite,
                keepVars
  <2> QED
    BY <2>1 DEF ShutInv
<1>3. CASE Keepalive
  <2>1. keeper # "none" /\ main' = main /\ play' = play
    BY <1>3 DEF Keepalive, KeepLoop, KeepEnsure, KeepFeed, playVars
  <2> QED
    BY <2>1 DEF ShutInv
<1>4. CASE BeginIdleKeepalive \/ BeginStop \/ StartKeepalive
  BY <1>4 DEF BeginIdleKeepalive, BeginStop, StartKeepalive, streamVars, playVars, ShutInv
<1>5. CASE JoinKeeper \/ JoinPlayback
  BY <1>5 DEF JoinKeeper, JoinPlayback, streamVars, keepVars, playVars, ShutInv
<1>6. CASE StopStream
  BY <1>6 DEF StopStream, keepVars, playVars, ShutInv
<1> QED
  BY <1>1, <1>2, <1>3, <1>4, <1>5, <1>6 DEF Next, Shutdown

\* Before anything is started.
LEMMA InitPlayer == Init => StreamInv /\ ControlTypeOK /\ PauseInv /\ ShutInv
<1> SUFFICES ASSUME Init PROVE StreamInv /\ ControlTypeOK /\ PauseInv /\ ShutInv
  OBVIOUS
<1>1. StreamInv
  BY DEF Init, StreamInv
<1>2. ControlTypeOK
  <2>1. keep_stop \in BOOLEAN /\ killed \in BOOLEAN
    BY Zenon DEF Init
  <2>2. plays \in 0 .. MaxPlays
    BY PlayerAssumption DEF Init
  <2> QED
    BY <2>1, <2>2 DEF Init, ControlTypeOK
<1>3. PauseInv /\ ShutInv
  BY DEF Init, PauseInv, ShutInv
<1> QED
  BY <1>1, <1>2, <1>3

-----------------------------------------------------------------------------
\* AudioPlayer: every variable keeps its type.
THEOREM PlayerTypes == Spec => []TypeOK
<1>1. StreamInv /\ ControlTypeOK /\ PauseInv => TypeOK
  BY Zenon DEF StreamInv, ControlTypeOK, PauseInv, TypeOK
<1> QED
  BY <1>1, InitPlayer, StepStream, StepControl, StepPause, PTL DEF Spec

\* EnsureStreamProcess, PlayPcm, Stop: no child that still plays is forgotten, and the
\* pipe leads to the child that g_play_pid names, whenever the child dies; and none of the
\* ways out of PlayPcm leaves the keepalive paused.
THEOREM StreamsAlwaysInOrder == Spec => []StreamsInOrder
<1>1. StreamInv /\ PauseInv => StreamsInOrder
  BY DEF StreamInv, OneStream, PauseInv, PausedByPlayOnly, StreamsInOrder
<1> QED
  BY <1>1, InitPlayer, StepStream, StepPause, PTL DEF Spec

\* Stop: when the last Shutdown is through no child plays and the keepalive thread is
\* joined, although PlayPcm and Cancel may have started both after the first one.
THEOREM NothingLeftAtTheEnd == Spec => []NothingLeft
<1>1. StreamInv /\ ShutInv => NothingLeft
  BY PlayerAssumption DEF StreamInv, ShutInv, NothingLeft, Child
<1> QED
  BY <1>1, InitPlayer, StepStream, StepShut, PTL DEF Spec
=============================================================================

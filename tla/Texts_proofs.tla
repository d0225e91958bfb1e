------------------------------ MODULE Texts_proofs ------------------------------
(***************************************************************************)
(* The laws of the loops over a text, a line and a file, as far as they    *)
(* say nothing of a call of Kernels: what a recursion, a filter, a fold    *)
(* and a concatenation compute; what MeloText speaks when it narrows,      *)
(* cuts, gathers, merges and looks up; and what ConfigFile reads when it   *)
(* trims, strips, splits and keeps the stack of open sections.             *)
(*                                                                         *)
(* All loops are recursive functions.  Their laws are induced over the     *)
(* numbers (NatSet, UpToSet) or over the beginnings of a sequence          *)
(* (SeqSet), with a set where the library takes an operator.               *)
(***************************************************************************)
EXTENDS MeloText, ConfigFile, FiniteSetTheorems, SequenceTheorems, WellFoundedInduction, TLAPS

(* Recursions by steps, bounds of sets, lists filled by a loop *)

\* Induction over a set of numbers: there is no least one outside.
LEMMA NatSet ==
    ASSUME NEW T, 0 \in T, \A n \in Nat : n \in T => n + 1 \in T
    PROVE  Nat \subseteq T
<1> DEFINE Missing == Nat \ T
<1> SUFFICES ASSUME Missing # {} PROVE FALSE
  OBVIOUS
<1>1. PICK least \in Missing : \A n \in Missing : ~ (<<n, least>> \in OpToRel(<, Nat))
  <2>1. Missing \subseteq Nat
    OBVIOUS
  <2> HIDE DEF Missing
  <2>2. QED
    BY <2>1, NatLessThanWellFounded, WFMin
<1>2. least - 1 \in Nat /\ <<least - 1, least>> \in OpToRel(<, Nat)
  BY DEF OpToRel
<1>3. least - 1 \in T
  BY <1>1, <1>2
<1>4. least - 1 + 1 = least
  OBVIOUS
<1>5. QED
  BY <1>2, <1>3, <1>4

\* Induction up to a number.
LEMMA UpToSet ==
    ASSUME NEW m \in Nat, NEW T, 0 \in T, \A n \in 1 .. m : n - 1 \in T => n \in T
    PROVE  0 .. m \subseteq T
<1> DEFINE U == {n \in Nat : n <= m => n \in T}
<1>1. 0 \in U
  OBVIOUS
<1>2. ASSUME NEW n \in Nat, n \in U PROVE n + 1 \in U
  <2> SUFFICES ASSUME n + 1 <= m PROVE n + 1 \in T
    OBVIOUS
  <2>1. n \in T /\ n + 1 \in 1 .. m /\ (n + 1) - 1 = n
    BY <1>2
  <2> QED
    BY <2>1
<1>3. Nat \subseteq U
  <2> HIDE DEF U
  <2> QED BY <1>1, <1>2, NatSet
<1> QED
  BY <1>3

\* f goes from first by steps that stay in S.
Steps(f, m, S, first, step) ==
    f \in [0 .. m -> S] /\ f[0] = first /\ \A n \in 1 .. m : f[n] = step[n][f[n - 1]]

\* A recursion over 0 .. m by steps that stay in S has a result.
LEMMA StepByStep ==
    ASSUME NEW m \in Nat, NEW S, NEW first \in S, NEW step,
           \A n \in 1 .. m : \A r \in S : step[n][r] \in S
    PROVE  \E f : Steps(f, m, S, first, step)
<1> DEFINE Good(f, k) == Steps(f, k, S, first, step)
           T == {k \in 0 .. m : \E f : Good(f, k)}
<1>1. 0 \in T
  <2>1. Good([n \in 0 .. 0 |-> first], 0)
    BY DEF Steps
  <2> HIDE DEF Good
  <2> QED BY <2>1
<1>2. ASSUME NEW k \in 1 .. m, k - 1 \in T PROVE k \in T
  <2>1. PICK f : Good(f, k - 1)
    BY <1>2
  <2> DEFINE g == [n \in 0 .. k |-> IF n = k THEN step[k][f[k - 1]] ELSE f[n]]
  <2>2. k - 1 \in 0 .. k - 1 /\ f[k - 1] \in S
    BY <2>1 DEF Steps
  <2>3. step[k][f[k - 1]] \in S
    BY <2>2
  <2>4. g \in [0 .. k -> S]
    <3>1. ASSUME NEW n \in 0 .. k PROVE g[n] \in S
      <4>1. n # k => n \in 0 .. k - 1
        OBVIOUS
      <4> QED BY <2>1, <2>3, <4>1 DEF Steps
    <3> QED BY <3>1
  <2>5. g[0] = first
    BY <2>1 DEF Steps
  <2>6. ASSUME NEW n \in 1 .. k PROVE g[n] = step[n][g[n - 1]]
    <3>1. n - 1 \in 0 .. k /\ n - 1 # k /\ g[n - 1] = f[n - 1]
      OBVIOUS
    <3>2. n # k => n \in 1 .. k - 1 /\ g[n] = f[n]
      OBVIOUS
    <3> QED
      BY <2>1, <3>1, <3>2 DEF Steps
  <2>7. Good(g, k)
    <3> HIDE DEF g
    <3> QED BY <2>4, <2>5, <2>6 DEF Steps
  <2> HIDE DEF Good, g
  <2> QED BY <2>7
<1>3. 0 .. m \subseteq T
  <2> HIDE DEF T
  <2> QED BY <1>1, <1>2, UpToSet
<1>4. m \in T
  BY <1>3
<1> QED
  BY <1>4

\* A set of numbers that are not below low has a least one.
LEMMA LeastOfSet ==
    ASSUME NEW low \in Int, NEW A \in SUBSET Int, \A x \in A : low <= x, A # {}
    PROVE  Min(A) \in A /\ \A x \in A : Min(A) <= x
<1> DEFINE B == {n \in Nat : n + low \in A}
<1>1. B \subseteq Nat /\ B # {}
  <2>1. PICK x \in A : TRUE
    OBVIOUS
  <2>2. x \in Int /\ low <= x
    BY <2>1
  <2>3. x - low \in Nat /\ (x - low) + low = x
    BY <2>2
  <2> QED BY <2>3
<1>2. PICK least \in B : \A n \in B : ~ (<<n, least>> \in OpToRel(<, Nat))
  <2> HIDE DEF B
  <2> QED
    BY <1>1, NatLessThanWellFounded, WFMin
<1> DEFINE x == least + low
<1>3. x \in A /\ x \in Int
  OBVIOUS
<1>4. ASSUME NEW y \in A PROVE x <= y
  <2>1. y \in Int /\ low <= y
    OBVIOUS
  <2>2. y - low \in Nat /\ (y - low) + low = y
    BY <2>1
  <2>3. y - low \in B
    BY <2>2
  <2>4. ~ (y - low < least)
    BY <1>2, <2>3 DEF OpToRel
  <2> QED
    BY <2>1, <2>4
<1> HIDE DEF x
<1>5. \A z \in A : (\A y \in A : z <= y) => z = x
  BY <1>3, <1>4
<1>6. Min(A) = x
  BY <1>3, <1>4, <1>5 DEF Min
<1> QED
  BY <1>3, <1>4, <1>6

\* A set of numbers that are not above high has a greatest one.
LEMMA GreatestOfSet ==
    ASSUME NEW high \in Int, NEW A \in SUBSET Int, \A x \in A : x <= high, A # {}
    PROVE  Max(A) \in A /\ \A x \in A : x <= Max(A)
<1> DEFINE B == {n \in Int : -n \in A}
<1>1. B \in SUBSET Int /\ B # {} /\ -high \in Int /\ \A x \in B : -high <= x
  <2>1. PICK x \in A : TRUE
    OBVIOUS
  <2>2. x \in Int /\ -x \in Int /\ -(-x) = x
    BY <2>1
  <2>3. -x \in B
    BY <2>2
  <2> QED BY <2>3
<1>2. Min(B) \in B /\ \A x \in B : Min(B) <= x
  <2> HIDE DEF B
  <2> QED BY <1>1, LeastOfSet
<1> DEFINE x == -Min(B)
<1>3. x \in A /\ x \in Int
  BY <1>2
<1>4. ASSUME NEW y \in A PROVE y <= x
  <2>1. y \in Int /\ -y \in Int /\ -(-y) = y
    OBVIOUS
  <2>2. -y \in B
    BY <2>1
  <2>3. Min(B) <= -y /\ Min(B) \in Int
    BY <1>2, <2>2
  <2> QED
    BY <2>1, <2>3
<1> HIDE DEF x
<1>5. \A z \in A : (\A y \in A : z >= y) => z = x
  BY <1>3, <1>4
<1>6. Max(A) = x
  BY <1>3, <1>4, <1>5 DEF Max
<1> QED
  BY <1>3, <1>4, <1>6

\* at lists the places below n that are in places, in their order.
Lists(at, count, places, n) ==
    /\ at \in [1 .. count -> places \cap (1 .. n)]
    /\ \A a, b \in 1 .. count : a < b => at[a] < at[b]
    /\ \A i \in places \cap (1 .. n) : \E a \in 1 .. count : at[a] = i

\* What is taken of a list are its elements at the given places, in their order.
LEMMA TakenIs ==
    ASSUME NEW T, NEW s \in Seq(T), NEW places
    PROVE  /\ Taken(s, places) \in Seq(T)
           /\ \E at : /\ Lists(at, Len(Taken(s, places)), places, Len(s))
                      /\ \A k \in 1 .. Len(Taken(s, places)) : Taken(s, places)[k] = s[at[k]]
<1> DEFINE L == Len(s)
           Is(f) == f = [n \in 0 .. L |->
                           IF n = 0 THEN <<>>
                           ELSE IF n \in places THEN Append(f[n - 1], s[n]) ELSE f[n - 1]]
           taken == CHOOSE f : Is(f)
           step == [n \in 1 .. L |-> [r \in Seq(T) |-> IF n \in places THEN Append(r, s[n]) ELSE r]]
<1>1. L \in Nat /\ \A n \in 1 .. L : s[n] \in T
  OBVIOUS
<1>2. (\A n \in 1 .. L : \A r \in Seq(T) : step[n][r] \in Seq(T)) /\ <<>> \in Seq(T)
  BY <1>1
<1>3. \E f : Is(f)
  <2> HIDE DEF step
  <2>1. PICK f : Steps(f, L, Seq(T), <<>>, step)
    <3> HIDE DEF L
    <3> QED BY <1>1, <1>2, StepByStep
  <2> USE DEF step
  <2>2. ASSUME NEW n \in 0 .. L
        PROVE  f[n] = IF n = 0 THEN <<>>
                      ELSE IF n \in places THEN Append(f[n - 1], s[n]) ELSE f[n - 1]
    <3>1. CASE n = 0
      BY <2>1, <3>1 DEF Steps
    <3>2. CASE n # 0
      <4>1. n \in 1 .. L /\ n - 1 \in 0 .. L
        BY <1>1, <3>2
      <4>2. f[n - 1] \in Seq(T) /\ f[n] = step[n][f[n - 1]]
        BY <2>1, <4>1 DEF Steps
      <4> QED BY <3>2, <4>1, <4>2
    <3> QED BY <3>1, <3>2
  <2>3. Is(f)
    BY <2>1, <2>2 DEF Steps
  <2> HIDE DEF Is
  <2> QED BY <2>3
<1>4. Is(taken)
  <2> HIDE DEF Is
  <2> QED BY <1>3
<1>5. Taken(s, places) = taken[L]
  BY DEF Taken
<1> HIDE DEF taken, step
<1> DEFINE Ok(n) == /\ taken[n] \in Seq(T)
                    /\ \E at : /\ Lists(at, Len(taken[n]), places, n)
                               /\ \A k \in 1 .. Len(taken[n]) : taken[n][k] = s[at[k]]
           Good == {n \in 0 .. L : Ok(n)}
<1>6. 0 \in Good
  <2>1. taken[0] = <<>>
    BY <1>1, <1>4
  <2> DEFINE none == [k \in 1 .. 0 |-> k]
  <2>2. Lists(none, 0, places, 0)
    BY DEF Lists
  <2>3. Len(taken[0]) = 0
    BY <2>1
  <2>4. \A k \in 1 .. 0 : taken[0][k] = s[none[k]]
    OBVIOUS
  <2> HIDE DEF none
  <2>5. Ok(0)
    BY <2>1, <2>2, <2>3, <2>4
  <2> HIDE DEF Ok
  <2> QED BY <1>1, <2>5
<1>7. ASSUME NEW n \in 1 .. L, n - 1 \in Good PROVE n \in Good
  <2>1. Ok(n - 1)
    BY <1>7
  <2> DEFINE r == taken[n - 1]
             t == taken[n]
  <2>2. r \in Seq(T) /\ s[n] \in T /\ n \in 0 .. L /\ n # 0 /\ n - 1 \in Nat /\ n \in Nat
    BY <1>1, <2>1
  <2>3. t = IF n \in places THEN Append(r, s[n]) ELSE r
    BY <1>4, <2>2
  <2>4. PICK at : /\ Lists(at, Len(r), places, n - 1)
                  /\ \A k \in 1 .. Len(r) : r[k] = s[at[k]]
    BY <2>1
  <2> HIDE DEF r, t, Is
  <2>5. CASE n \in places
    <3> DEFINE m == Len(r) + 1
               there == [k \in 1 .. m |-> IF k = m THEN n ELSE at[k]]
    <3>1. t \in Seq(T) /\ Len(t) = m /\ t[m] = s[n] /\ m \in Nat /\ Len(r) \in Nat
          /\ \A k \in 1 .. Len(r) : t[k] = r[k]
      BY <2>2, <2>3, <2>5
    <3>2. \A k \in 1 .. m : k = m \/ (k \in 1 .. Len(r) /\ k < m)
      BY <3>1
    <3>3. \A k \in 1 .. Len(r) : at[k] \in places \cap (1 .. n - 1) /\ there[k] = at[k]
      BY <2>4, <3>1, SMTT(20) DEF Lists
    <3>4. there[m] = n
      BY <3>1
    <3>5. Lists(there, m, places, n)
      <4>1. ASSUME NEW k \in 1 .. m PROVE there[k] \in places \cap (1 .. n)
        <5>1. CASE k = m
          BY <2>2, <2>5, <3>4, <5>1
        <5>2. CASE k \in 1 .. Len(r)
          <6>1. there[k] \in places \cap (1 .. n - 1)
            BY <3>3, <5>2
          <6> QED BY <2>2, <6>1
        <5> QED BY <3>2, <5>1, <5>2
      <4>2. ASSUME NEW a \in 1 .. m, NEW b \in 1 .. m, a < b PROVE there[a] < there[b]
        <5>1. a \in 1 .. Len(r) /\ there[a] = at[a] /\ at[a] < n
          <6>1. a \in 1 .. Len(r)
            BY <3>1, <3>2, <4>2
          <6>2. there[a] = at[a] /\ at[a] \in 1 .. n - 1
            BY <3>3, <6>1
          <6> QED BY <2>2, <6>1, <6>2
        <5>2. CASE b = m
          BY <3>4, <5>1, <5>2
        <5>3. CASE b \in 1 .. Len(r)
          BY <2>4, <3>3, <4>2, <5>1, <5>3 DEF Lists
        <5> QED BY <3>2, <5>2, <5>3
      <4>3. ASSUME NEW i \in places \cap (1 .. n) PROVE \E a \in 1 .. m : there[a] = i
        <5>1. CASE i = n
          <6>1. m \in 1 .. m
            BY <3>1
          <6> QED BY <3>4, <5>1, <6>1
        <5>2. CASE i # n
          <6>1. i \in places \cap (1 .. n - 1)
            BY <2>2, <5>2
          <6>2. PICK a \in 1 .. Len(r) : at[a] = i
            BY <2>4, <6>1 DEF Lists
          <6>3. a \in 1 .. m
            BY <3>1
          <6> QED BY <3>3, <6>2, <6>3
        <5> QED BY <5>1, <5>2
      <4>4. there \in [1 .. m -> places \cap (1 .. n)]
        <5>1. there = [k \in 1 .. m |-> there[k]]
          OBVIOUS
        <5> HIDE DEF there
        <5> QED BY <4>1, <5>1
      <4> HIDE DEF there, m
      <4> QED BY <4>2, <4>3, <4>4 DEF Lists
    <3>6. \A k \in 1 .. m : t[k] = s[there[k]]
      BY <2>4, <3>1, <3>2, <3>3, <3>4
    <3> HIDE DEF there, m
    <3>7. Lists(there, Len(t), places, n) /\ \A k \in 1 .. Len(t) : t[k] = s[there[k]]
      BY <3>1, <3>5, <3>6
    <3>8. Ok(n)
      BY <3>1, <3>7 DEF t
    <3> HIDE DEF Ok
    <3> QED BY <2>2, <3>8
  <2>6. CASE n \notin places
    <3>1. t = r
      BY <2>3, <2>6
    <3>2. places \cap (1 .. n - 1) = places \cap (1 .. n)
      BY <2>2, <2>6
    <3>3. Lists(at, Len(t), places, n) /\ \A k \in 1 .. Len(t) : t[k] = s[at[k]]
      BY <2>4, <3>1, <3>2 DEF Lists
    <3>4. Ok(n)
      BY <2>2, <3>1, <3>3 DEF t
    <3> HIDE DEF Ok
    <3> QED BY <2>2, <3>4
  <2> QED BY <2>5, <2>6
<1>8. L \in Good
  <2> HIDE DEF Good
  <2>1. 0 .. L \subseteq Good
    BY <1>1, <1>6, <1>7, UpToSet
  <2> QED BY <1>1, <2>1
<1>9. Ok(L)
  BY <1>8
<1> QED
  BY <1>5, <1>9

-----------------------------------------------------------------------------
(* What is said: folds, mixtures of texts, cutting, merging and the lexicon *)

\* Induction over sequences: one more at the end.
LEMMA SeqSet ==
    ASSUME NEW S, NEW T, <<>> \in T, \A s \in Seq(S), c \in S : s \in T => Append(s, c) \in T
    PROVE  Seq(S) \subseteq T
<1> DEFINE U == {n \in Nat : \A s \in Seq(S) : Len(s) = n => s \in T}
<1>1. 0 \in U
  <2>1. ASSUME NEW s \in Seq(S), Len(s) = 0 PROVE s \in T
    BY <2>1, EmptySeq
  <2> QED BY <2>1
<1>2. ASSUME NEW n \in Nat, n \in U PROVE n + 1 \in U
  <2>1. ASSUME NEW s \in Seq(S), Len(s) = n + 1 PROVE s \in T
    <3>1. s # <<>>
      BY <2>1
    <3>2. PICK r \in Seq(S), c \in S : s = Append(r, c)
      BY <3>1, SequenceEmptyOrAppend
    <3>3. Len(r) = n
      BY <2>1, <3>2, AppendProperties, LenProperties
    <3> QED BY <1>2, <3>2, <3>3
  <2> QED BY <2>1
<1>3. Nat \subseteq U
  <2> HIDE DEF U
  <2> QED BY <1>1, <1>2, NatSet
<1> QED
  BY <1>3, LenProperties

\* r is what a loop over s makes of start.
Folds(r, s, start, step) ==
    \E f : /\ r = f[Len(s)] /\ f[0] = start
           /\ \A n \in 1 .. Len(s) : f[n] = step[s[n]][f[n - 1]]

\* The steps stay in D.
Closes(S, D, start, step) == start \in D /\ \A c \in S, d \in D : step[c][d] \in D

\* A recursion with such steps has a result.
LEMMA FoldExists ==
    ASSUME NEW S, NEW s \in Seq(S), NEW D, NEW start, NEW step, Closes(S, D, start, step)
    PROVE  \E f : /\ f \in [0 .. Len(s) -> D] /\ f[0] = start
                  /\ \A n \in 1 .. Len(s) : f[n] = step[s[n]][f[n - 1]]
<1> DEFINE L == Len(s)
           steps == [n \in 1 .. L |-> step[s[n]]]
<1>1. L \in Nat /\ \A n \in 1 .. L : s[n] \in S
  BY LenProperties, ElementOfSeq
<1>2. start \in D /\ \A n \in 1 .. L : \A d \in D : steps[n][d] \in D
  BY <1>1 DEF Closes
<1> HIDE DEF L
<1>3. \A n \in 1 .. L : steps[n] = step[s[n]]
  OBVIOUS
<1> HIDE DEF steps
<1>4. PICK f : Steps(f, L, D, start, steps)
  BY <1>1, <1>2, StepByStep
<1> QED
  BY <1>3, <1>4 DEF Steps, L

\* A recursion that takes such a step wherever it is in D.
LEMMA FoldsGuarded ==
    ASSUME NEW S, NEW s \in Seq(S), NEW D, NEW start, NEW step, Closes(S, D, start, step),
           NEW g, g[0] = start,
           \A n \in 1 .. Len(s) : g[n - 1] \in D => g[n] = step[s[n]][g[n - 1]]
    PROVE  Folds(g[Len(s)], s, start, step) /\ g[Len(s)] \in D
<1> DEFINE L == Len(s)
           T == {n \in 0 .. L : g[n] \in D}
<1>1. L \in Nat /\ \A n \in 1 .. L : s[n] \in S
  BY LenProperties, ElementOfSeq
<1>2. 0 \in T
  BY <1>1 DEF Closes
<1>3. ASSUME NEW n \in 1 .. L, n - 1 \in T PROVE n \in T
  <2>1. g[n - 1] \in D /\ g[n] = step[s[n]][g[n - 1]] /\ s[n] \in S
    BY <1>1, <1>3
  <2>2. step[s[n]][g[n - 1]] \in D
    BY <2>1 DEF Closes
  <2> QED BY <1>1, <2>1, <2>2
<1>4. 0 .. L \subseteq T
  <2> HIDE DEF T, L
  <2> QED BY <1>1, <1>2, <1>3, UpToSet
<1>5. \A n \in 1 .. L : g[n] = step[s[n]][g[n - 1]]
  <2>1. \A n \in 1 .. L : n - 1 \in 0 .. L
    BY <1>1
  <2> QED BY <1>4, <2>1
<1>6. g[L] \in D
  BY <1>1, <1>4
<1> QED
  BY <1>5, <1>6 DEF Folds

\* Of nothing it makes nothing.
LEMMA FoldsNone ==
    ASSUME NEW r, NEW start, NEW step, Folds(r, <<>>, start, step)
    PROVE  r = start
<1>1. Len(<<>>) = 0
  OBVIOUS
<1> QED
  BY <1>1 DEF Folds

\* One more element is one more step.
LEMMA FoldsOne ==
    ASSUME NEW S, NEW s \in Seq(S), NEW c \in S, NEW start, NEW step, NEW r, NEW q,
           Folds(r, s, start, step), Folds(q, Append(s, c), start, step)
    PROVE  q = step[c][r]
<1>1. PICK L, t : L = Len(s) /\ t = Append(s, c)
  OBVIOUS
<1>2. L \in Nat /\ Len(t) = L + 1 /\ t[L + 1] = c /\ \A n \in 1 .. L : t[n] = s[n]
  BY <1>1, AppendProperties, LenProperties
<1>3. PICK f : r = f[L] /\ f[0] = start /\ \A n \in 1 .. L : f[n] = step[s[n]][f[n - 1]]
  BY <1>1 DEF Folds
<1>4. PICK g : q = g[L + 1] /\ g[0] = start /\ \A n \in 1 .. L + 1 : g[n] = step[t[n]][g[n - 1]]
  BY <1>1, <1>2 DEF Folds
<1> DEFINE T == {n \in 0 .. L : f[n] = g[n]}
<1>5. 0 \in T
  BY <1>2, <1>3, <1>4
<1>6. ASSUME NEW n \in 1 .. L, n - 1 \in T PROVE n \in T
  <2>1. n \in 1 .. L + 1 /\ n \in 0 .. L /\ t[n] = s[n] /\ f[n - 1] = g[n - 1]
    BY <1>2, <1>6
  <2>2. f[n] = step[s[n]][f[n - 1]] /\ g[n] = step[t[n]][g[n - 1]]
    BY <1>3, <1>4, <2>1
  <2> QED BY <2>1, <2>2
<1>7. 0 .. L \subseteq T
  <2> HIDE DEF T
  <2> QED BY <1>2, <1>5, <1>6, UpToSet
<1>8. f[L] = g[L]
  BY <1>2, <1>7
<1>9. g[L + 1] = step[t[L + 1]][g[L]]
  <2>1. PICK k : k = L + 1
    OBVIOUS
  <2>2. k \in 1 .. L + 1 /\ k - 1 = L
    BY <1>2, <2>1
  <2> QED BY <1>4, <2>1, <2>2
<1> QED
  BY <1>2, <1>3, <1>4, <1>8, <1>9

\* What Only does with one element.
Keep(S, kind) == [c \in S |-> [r \in Seq(S) |-> IF c \in kind THEN Append(r, c) ELSE r]]

\* Only, element by element.
LEMMA OnlyFolds ==
    ASSUME NEW S, NEW s \in Seq(S), NEW kind
    PROVE  Folds(Only(s, kind), s, <<>>, Keep(S, kind)) /\ Only(s, kind) \in Seq(S)
<1> DEFINE L == Len(s)
           Is(g) == g = [i \in 0 .. L |->
                           IF i = 0 THEN <<>>
                           ELSE IF s[i] \in kind THEN Append(g[i - 1], s[i]) ELSE g[i - 1]]
           kept == CHOOSE g : Is(g)
           step == Keep(S, kind)
<1>1. L \in Nat /\ \A n \in 1 .. L : s[n] \in S
  BY LenProperties, ElementOfSeq
<1>2. Closes(S, Seq(S), <<>>, step)
  BY DEF Closes, Keep
<1>3. \A c \in S, r \in Seq(S) : step[c][r] = IF c \in kind THEN Append(r, c) ELSE r
  BY DEF Keep
<1> HIDE DEF step
<1>4. \E f : Is(f)
  <2>1. PICK f : /\ f \in [0 .. L -> Seq(S)] /\ f[0] = <<>>
                 /\ \A n \in 1 .. L : f[n] = step[s[n]][f[n - 1]]
    BY <1>2, FoldExists
  <2>2. ASSUME NEW n \in 0 .. L
        PROVE  f[n] = IF n = 0 THEN <<>> ELSE IF s[n] \in kind THEN Append(f[n - 1], s[n]) ELSE f[n - 1]
    <3>1. CASE n # 0
      <4>1. n \in 1 .. L /\ n - 1 \in 0 .. L
        BY <1>1, <3>1
      <4>2. f[n - 1] \in Seq(S) /\ s[n] \in S /\ f[n] = step[s[n]][f[n - 1]]
        BY <1>1, <2>1, <4>1
      <4> QED BY <1>3, <3>1, <4>2
    <3> QED BY <2>1, <3>1
  <2>3. Is(f)
    BY <2>1, <2>2
  <2> HIDE DEF Is
  <2> QED BY <2>3
<1>5. Is(kept)
  <2> HIDE DEF Is
  <2> QED BY <1>4
<1>6. Only(s, kind) = kept[L]
  BY DEF Only
<1> HIDE DEF kept
<1>7. kept[0] = <<>>
  BY <1>1, <1>5
<1>8. ASSUME NEW n \in 1 .. L, kept[n - 1] \in Seq(S) PROVE kept[n] = step[s[n]][kept[n - 1]]
  <2>1. n \in 0 .. L /\ n # 0 /\ s[n] \in S
    BY <1>1
  <2>2. kept[n] = IF s[n] \in kind THEN Append(kept[n - 1], s[n]) ELSE kept[n - 1]
    BY <1>5, <2>1
  <2> HIDE DEF Is
  <2> QED BY <1>3, <1>8, <2>1, <2>2
<1> HIDE DEF Is
<1> QED
  BY <1>2, <1>6, <1>7, <1>8, FoldsGuarded DEF step

\* Of nothing it keeps nothing.
LEMMA OnlyNone == \A kind : Only(<<>>, kind) = <<>>
<1> SUFFICES ASSUME NEW kind PROVE Only(<<>>, kind) = <<>>
  OBVIOUS
<1>1. <<>> \in Seq({})
  OBVIOUS
<1>2. Folds(Only(<<>>, kind), <<>>, <<>>, Keep({}, kind))
  BY <1>1, OnlyFolds
<1> QED
  BY <1>2, FoldsNone

\* Of one more it keeps one more or none.
LEMMA OnlyAppend ==
    ASSUME NEW S, NEW s \in Seq(S), NEW c \in S, NEW kind
    PROVE  Only(Append(s, c), kind) = IF c \in kind THEN Append(Only(s, kind), c) ELSE Only(s, kind)
<1>1. Append(s, c) \in Seq(S)
  OBVIOUS
<1>2. Folds(Only(s, kind), s, <<>>, Keep(S, kind)) /\ Only(s, kind) \in Seq(S)
  BY OnlyFolds
<1>3. Folds(Only(Append(s, c), kind), Append(s, c), <<>>, Keep(S, kind))
  BY <1>1, OnlyFolds
<1>4. Only(Append(s, c), kind) = Keep(S, kind)[c][Only(s, kind)]
  BY <1>2, <1>3, FoldsOne
<1> QED
  BY <1>2, <1>4 DEF Keep

\* One list behind the other; the operator keeps the prover from looking inside.
Behind(s, r) == s \o r

\* It does not matter which two are put together first.
LEMMA BehindAssociates ==
    \A S : \A s, r, v \in Seq(S) : Behind(Behind(s, r), v) = Behind(s, Behind(r, v))
<1>1. \A S : \A s, r, v \in Seq(S) : (s \o r) \o v = s \o (r \o v)
  BY ConcatAssociative
<1> QED BY <1>1, Zenon DEF Behind

\* It is a list.
LEMMA BehindType ==
    ASSUME NEW S, NEW s \in Seq(S), NEW r \in Seq(S)
    PROVE  Behind(s, r) \in Seq(S)
BY ConcatProperties DEF Behind

\* Nothing behind, or nothing before.
LEMMA BehindNone ==
    ASSUME NEW S, NEW s \in Seq(S)
    PROVE  Behind(s, <<>>) = s /\ Behind(<<>>, s) = s
BY ConcatEmptySeq DEF Behind

\* One element behind.
LEMMA BehindOne ==
    ASSUME NEW S, NEW s \in Seq(S), NEW c \in S
    PROVE  Append(s, c) = Behind(s, <<c>>)
BY AppendIsConcat DEF Behind

\* One element more.
LEMMA BehindAppend ==
    ASSUME NEW S, NEW s \in Seq(S), NEW r \in Seq(S), NEW c \in S
    PROVE  Behind(s, Append(r, c)) = Append(Behind(s, r), c)
<1>1. PICK one \in Seq(S) : one = <<c>>
  <2>1. <<c>> \in Seq(S)
    OBVIOUS
  <2> QED BY <2>1, Zenon
<1>2. PICK both \in Seq(S) : both = Behind(s, r)
  BY BehindType
<1>3. Append(r, c) = Behind(r, one) /\ Append(both, c) = Behind(both, one)
  BY <1>1, BehindOne
<1>4. Behind(both, one) = Behind(s, Behind(r, one))
  BY <1>2, BehindAssociates
<1> QED
  BY <1>2, <1>3, <1>4, Zenon

\* What it keeps of two lists.
LEMMA OnlyBehind ==
    ASSUME NEW S, NEW s \in Seq(S), NEW t \in Seq(S), NEW kind
    PROVE  Only(Behind(s, t), kind) = Behind(Only(s, kind), Only(t, kind))
<1> DEFINE T == {r \in Seq(S) : Only(Behind(s, r), kind) = Behind(Only(s, kind), Only(r, kind))}
<1>1. <<>> \in T
  <2>1. <<>> \in Seq(S) /\ Behind(s, <<>>) = s
    BY ConcatEmptySeq DEF Behind
  <2>2. Behind(Only(s, kind), <<>>) = Only(s, kind)
    BY OnlyFolds, ConcatEmptySeq DEF Behind
  <2> QED BY <2>1, <2>2, OnlyNone
<1>2. ASSUME NEW r \in Seq(S), NEW c \in S, r \in T PROVE Append(r, c) \in T
  <2>1. Only(s, kind) \in Seq(S) /\ Only(r, kind) \in Seq(S)
    BY OnlyFolds
  <2>2. Behind(s, Append(r, c)) = Append(Behind(s, r), c) /\ Behind(s, r) \in Seq(S)
    BY BehindAppend, BehindType
  <2>3. Only(Behind(s, Append(r, c)), kind)
          = IF c \in kind THEN Append(Only(Behind(s, r), kind), c) ELSE Only(Behind(s, r), kind)
    BY <2>2, OnlyAppend
  <2>4. Behind(Only(s, kind), Append(Only(r, kind), c)) = Append(Behind(Only(s, kind), Only(r, kind)), c)
    BY <2>1, BehindAppend
  <2>5. Only(Append(r, c), kind) = IF c \in kind THEN Append(Only(r, kind), c) ELSE Only(r, kind)
    BY OnlyAppend
  <2>6. Only(Behind(s, r), kind) = Behind(Only(s, kind), Only(r, kind))
    BY <1>2
  <2>7. Append(r, c) \in Seq(S)
    OBVIOUS
  <2> QED BY <2>3, <2>4, <2>5, <2>6, <2>7
<1>3. t \in T
  <2> HIDE DEF T
  <2> QED BY <1>1, <1>2, SeqSet
<1> QED
  BY <1>3

\* f holds what has been taken after each of the elements.
TakenBy(f, S, s, places) ==
    /\ f \in [0 .. Len(s) -> Seq(S)] /\ f[0] = <<>> /\ Taken(s, places) = f[Len(s)]
    /\ \A n \in 1 .. Len(s) :
          f[n] = IF n \in places THEN Append(f[n - 1], s[n]) ELSE f[n - 1]

\* Taken, place by place.
LEMMA TakenSteps ==
    ASSUME NEW S, NEW s \in Seq(S), NEW places
    PROVE  \E f : TakenBy(f, S, s, places)
<1> DEFINE L == Len(s)
           Is(f) == f = [n \in 0 .. L |->
                           IF n = 0 THEN <<>>
                           ELSE IF n \in places THEN Append(f[n - 1], s[n]) ELSE f[n - 1]]
           taken == CHOOSE f : Is(f)
           step == [n \in 1 .. L |-> [r \in Seq(S) |-> IF n \in places THEN Append(r, s[n]) ELSE r]]
<1>1. L \in Nat /\ \A n \in 1 .. L : s[n] \in S
  OBVIOUS
<1>2. (\A n \in 1 .. L : \A r \in Seq(S) : step[n][r] \in Seq(S)) /\ <<>> \in Seq(S)
  BY <1>1
<1>3. \E f : Is(f)
  <2> HIDE DEF step
  <2>1. PICK f : Steps(f, L, Seq(S), <<>>, step)
    <3> HIDE DEF L
    <3> QED BY <1>1, <1>2, StepByStep
  <2> USE DEF step
  <2>2. ASSUME NEW n \in 0 .. L
        PROVE  f[n] = IF n = 0 THEN <<>>
                      ELSE IF n \in places THEN Append(f[n - 1], s[n]) ELSE f[n - 1]
    <3>1. CASE n = 0
      BY <2>1, <3>1 DEF Steps
    <3>2. CASE n # 0
      <4>1. n \in 1 .. L /\ n - 1 \in 0 .. L
        BY <1>1, <3>2
      <4>2. f[n - 1] \in Seq(S) /\ f[n] = step[n][f[n - 1]]
        BY <2>1, <4>1 DEF Steps
      <4> QED BY <3>2, <4>1, <4>2
    <3> QED BY <3>1, <3>2
  <2>3. Is(f)
    BY <2>1, <2>2 DEF Steps
  <2> HIDE DEF Is
  <2> QED BY <2>3
<1>4. Is(taken)
  <2> HIDE DEF Is
  <2> QED BY <1>3
<1>5. Taken(s, places) = taken[L]
  BY DEF Taken
<1> HIDE DEF taken, step
<1>6. taken[0] = <<>> /\ taken = [n \in 0 .. L |-> taken[n]]
  BY <1>1, <1>4
<1>7. ASSUME NEW n \in 1 .. L
      PROVE  taken[n] = IF n \in places THEN Append(taken[n - 1], s[n]) ELSE taken[n - 1]
  <2>1. n \in 0 .. L /\ n # 0
    BY <1>1
  <2> QED BY <1>4, <2>1
<1> HIDE DEF Is
<1> DEFINE T == {n \in 0 .. L : taken[n] \in Seq(S)}
<1>8. 0 \in T
  BY <1>1, <1>6
<1>9. ASSUME NEW n \in 1 .. L, n - 1 \in T PROVE n \in T
  <2>1. n - 1 \in 0 .. L /\ taken[n - 1] \in Seq(S) /\ s[n] \in S /\ n \in 0 .. L
    BY <1>1, <1>9
  <2>2. Append(taken[n - 1], s[n]) \in Seq(S)
    BY <2>1
  <2> QED BY <1>7, <2>1, <2>2
<1>10. \A n \in 0 .. L : taken[n] \in Seq(S)
  <2> HIDE DEF T, L
  <2>1. 0 .. L \subseteq T
    BY <1>1, <1>8, <1>9, UpToSet
  <2> QED BY <2>1 DEF T
<1>11. TakenBy(taken, S, s, places)
  <2>1. taken \in [0 .. L -> Seq(S)]
    BY <1>6, <1>10
  <2> QED BY <1>5, <1>6, <1>7, <2>1 DEF TakenBy
<1> QED
  BY <1>11, Zenon

\* What is not of the kind may be left out before.
LEMMA OnlyOfTaken ==
    ASSUME NEW S, NEW s \in Seq(S), NEW places, NEW kind,
           \A n \in 1 .. Len(s) : n \notin places => s[n] \notin kind
    PROVE  Taken(s, places) \in Seq(S) /\ Only(Taken(s, places), kind) = Only(s, kind)
<1> DEFINE L == Len(s)
<1>0. \A n \in 1 .. L : n \notin places => s[n] \notin kind
  OBVIOUS
<1>1. L \in Nat /\ \A n \in 1 .. L : s[n] \in S
  BY LenProperties, ElementOfSeq
<1>2. PICK f : /\ f \in [0 .. L -> Seq(S)] /\ f[0] = <<>> /\ Taken(s, places) = f[L]
               /\ \A n \in 1 .. L : f[n] = IF n \in places THEN Append(f[n - 1], s[n]) ELSE f[n - 1]
  <2>1. PICK f : TakenBy(f, S, s, places)
    BY TakenSteps
  <2> QED BY <2>1 DEF TakenBy
<1>3. PICK g : /\ Only(s, kind) = g[L] /\ g[0] = <<>>
               /\ \A n \in 1 .. L : g[n] = Keep(S, kind)[s[n]][g[n - 1]]
  <2>1. Folds(Only(s, kind), s, <<>>, Keep(S, kind))
    BY OnlyFolds
  <2> QED BY <2>1 DEF Folds
<1> HIDE DEF L
<1> DEFINE T == {n \in 0 .. L : Only(f[n], kind) = g[n]}
<1>4. 0 \in T
  BY <1>1, <1>2, <1>3, OnlyNone
<1>5. ASSUME NEW n \in 1 .. L, n - 1 \in T PROVE n \in T
  <2>1. n \in 0 .. L /\ n - 1 \in 0 .. L /\ s[n] \in S /\ f[n - 1] \in Seq(S)
    BY <1>1, <1>2
  <2>2. Only(f[n - 1], kind) = g[n - 1] /\ g[n - 1] \in Seq(S)
    BY <1>5, <2>1, OnlyFolds
  <2>3. g[n] = IF s[n] \in kind THEN Append(g[n - 1], s[n]) ELSE g[n - 1]
    BY <1>3, <2>1, <2>2 DEF Keep
  <2>4. Only(Append(f[n - 1], s[n]), kind)
           = IF s[n] \in kind THEN Append(g[n - 1], s[n]) ELSE g[n - 1]
    <3>1. PICK r \in Seq(S), c \in S : r = f[n - 1] /\ c = s[n]
      BY <2>1
    <3>2. Only(Append(r, c), kind) = IF c \in kind THEN Append(Only(r, kind), c) ELSE Only(r, kind)
      BY OnlyAppend
    <3> QED BY <2>2, <3>1, <3>2
  <2>5. n \notin places => s[n] \notin kind
    BY <1>0
  <2> QED BY <1>2, <2>1, <2>2, <2>3, <2>4, <2>5
<1>6. 0 .. L \subseteq T
  <2> HIDE DEF T
  <2> QED BY <1>1, <1>4, <1>5, UpToSet
<1>7. L \in 0 .. L
  BY <1>1
<1> QED
  BY <1>2, <1>3, <1>6, <1>7

\* What FlattenSeq does with one list.
Glue(S) == [x \in Seq(S) |-> [r \in Seq(S) |-> Behind(r, x)]]

\* FlattenSeq, list by list.
LEMMA FlattenFolds ==
    ASSUME NEW S, NEW q \in Seq(Seq(S))
    PROVE  Folds(FlattenSeq(q), q, <<>>, Glue(S)) /\ FlattenSeq(q) \in Seq(S)
<1> DEFINE L == Len(q)
           Is(f) == f = [i \in 1 .. L |-> IF i = 1 THEN q[i] ELSE f[i - 1] \o q[i]]
           flatten == CHOOSE f : Is(f)
           step == Glue(S)
           g == [i \in 0 .. L |-> IF i = 0 THEN <<>> ELSE flatten[i]]
<1>1. L \in Nat /\ \A n \in 1 .. L : q[n] \in Seq(S)
  BY LenProperties, ElementOfSeq
<1>2. \A x \in Seq(S), r \in Seq(S) : step[x][r] = Behind(r, x)
  BY DEF Glue
<1>3. Closes(Seq(S), Seq(S), <<>>, step)
  <2>1. \A x \in Seq(S), r \in Seq(S) : step[x][r] \in Seq(S)
    BY <1>2, BehindType
  <2> HIDE DEF step
  <2> QED BY <2>1 DEF Closes
<1> HIDE DEF step
<1>4. \E f : Is(f)
  <2>1. PICK f : /\ f \in [0 .. L -> Seq(S)] /\ f[0] = <<>>
                 /\ \A n \in 1 .. L : f[n] = step[q[n]][f[n - 1]]
    BY <1>3, FoldExists
  <2> DEFINE h == [i \in 1 .. L |-> f[i]]
  <2>2. ASSUME NEW i \in 1 .. L PROVE h[i] = IF i = 1 THEN q[i] ELSE h[i - 1] \o q[i]
    <3>1. i - 1 \in 0 .. L /\ i \in 0 .. L /\ (i # 1 => i - 1 \in 1 .. L)
      BY <1>1
    <3>2. f[i - 1] \in Seq(S) /\ q[i] \in Seq(S) /\ f[i] = step[q[i]][f[i - 1]]
      BY <1>1, <2>1, <3>1
    <3>3. f[i] = Behind(f[i - 1], q[i])
      BY <1>2, <3>2
    <3>4. CASE i = 1
      <4>1. f[i] = Behind(<<>>, q[i])
        BY <2>1, <3>3, <3>4
      <4> QED BY <3>2, <3>4, <4>1, BehindNone
    <3>5. CASE i # 1
      <4>1. h[i - 1] = f[i - 1]
        BY <3>1, <3>5
      <4> QED BY <3>3, <3>5, <4>1 DEF Behind
    <3> QED BY <3>4, <3>5
  <2>3. h = [i \in 1 .. L |-> h[i]]
    OBVIOUS
  <2> HIDE DEF h
  <2>4. Is(h)
    BY <2>2, <2>3
  <2> HIDE DEF Is
  <2> QED BY <2>4
<1>5. Is(flatten)
  <2> HIDE DEF Is
  <2> QED BY <1>4
<1>6. FlattenSeq(q) = g[L]
  <2>1. CASE L = 0
    <3>1. q = <<>>
      BY <2>1, EmptySeq
    <3>2. FlattenSeq(q) = q
      BY <2>1 DEF FlattenSeq
    <3>3. g[L] = <<>>
      BY <2>1
    <3> HIDE DEF g
    <3> QED BY <3>1, <3>2, <3>3
  <2>2. CASE L # 0
    <3>1. FlattenSeq(q) = flatten[L]
      BY <2>2 DEF FlattenSeq
    <3> HIDE DEF flatten
    <3>2. g[L] = flatten[L]
      BY <1>1, <2>2
    <3> QED BY <3>1, <3>2
  <2> QED BY <2>1, <2>2
<1>7. ASSUME NEW n \in 1 .. L PROVE flatten[n] = IF n = 1 THEN q[n] ELSE flatten[n - 1] \o q[n]
  <2> HIDE DEF flatten
  <2> QED BY <1>5
<1> HIDE DEF flatten, Is
<1>8. g[0] = <<>>
  BY <1>1
<1>9. ASSUME NEW n \in 1 .. L, g[n - 1] \in Seq(S) PROVE g[n] = step[q[n]][g[n - 1]]
  <2>1. step[q[n]][g[n - 1]] = Behind(g[n - 1], q[n])
    <3> HIDE DEF g
    <3> QED BY <1>1, <1>2, <1>9
  <2>2. CASE n = 1
    <3>1. flatten[n] = q[n]
      BY <1>7, <2>2
    <3>2. Behind(<<>>, q[n]) = q[n]
      BY <1>1, BehindNone
    <3>3. n \in 0 .. L /\ n # 0 /\ n - 1 = 0
      BY <1>1, <2>2
    <3>4. g[n] = flatten[n]
      BY <3>3
    <3> HIDE DEF g
    <3> QED BY <1>8, <2>1, <3>1, <3>2, <3>3, <3>4
  <2>3. CASE n # 1
    <3>1. g[n] = flatten[n] /\ g[n - 1] = flatten[n - 1]
      BY <1>1, <2>3
    <3> HIDE DEF g
    <3> QED BY <1>7, <2>1, <2>3, <3>1 DEF Behind
  <2> QED BY <2>2, <2>3
<1> HIDE DEF g
<1> QED
  BY <1>3, <1>6, <1>8, <1>9, FoldsGuarded DEF step

\* No lists make an empty one.
LEMMA FlattenNone == FlattenSeq(<<>>) = <<>>
BY DEF FlattenSeq

\* One list more is put behind.
LEMMA FlattenAppend ==
    ASSUME NEW S, NEW q \in Seq(Seq(S)), NEW x \in Seq(S)
    PROVE  FlattenSeq(Append(q, x)) = Behind(FlattenSeq(q), x)
<1>1. Append(q, x) \in Seq(Seq(S))
  OBVIOUS
<1>2. Folds(FlattenSeq(q), q, <<>>, Glue(S)) /\ FlattenSeq(q) \in Seq(S)
  BY FlattenFolds
<1>3. Folds(FlattenSeq(Append(q, x)), Append(q, x), <<>>, Glue(S))
  BY <1>1, FlattenFolds
<1>4. FlattenSeq(Append(q, x)) = Glue(S)[x][FlattenSeq(q)]
  BY <1>2, <1>3, FoldsOne
<1> QED
  BY <1>2, <1>4 DEF Glue

\* A list that is not empty, without its last element and with it.
LEMMA FrontLast ==
    ASSUME NEW S, NEW s \in Seq(S), s # <<>>
    PROVE  Front(s) \in Seq(S) /\ Last(s) \in S /\ s = Append(Front(s), Last(s))
           /\ Len(s) = Len(Front(s)) + 1 /\ Len(Front(s)) \in Nat
<1>1. PICK r \in Seq(S), c \in S : s = Append(r, c)
  BY SequenceEmptyOrAppend
<1>2. Len(r) \in Nat /\ Len(s) = Len(r) + 1 /\ s[Len(s)] = c /\ \A i \in 1 .. Len(r) : s[i] = r[i]
  BY <1>1, AppendProperties, LenProperties
<1>3. Last(s) = c
  BY <1>2 DEF Last
<1>4. Front(s) = r
  <2>1. PICK n \in Nat : n = Len(r)
    BY <1>2
  <2>2. Front(s) = SubSeq(s, 1, n)
    BY <1>2, <2>1 DEF Front
  <2>3. Front(s) \in Seq(S) /\ Len(Front(s)) = n /\ \A i \in 1 .. n : Front(s)[i] = s[i]
    BY <1>2, <2>1, <2>2, SubSeqProperties
  <2> QED BY <1>2, <2>1, <2>3, SeqEqual
<1> QED
  BY <1>1, <1>2, <1>3, <1>4

\* What one more leaves.
LEMMA FrontLastAppend ==
    ASSUME NEW S, NEW s \in Seq(S), NEW c \in S
    PROVE  Front(Append(s, c)) = s /\ Last(Append(s, c)) = c
<1>1. Append(s, c) \in Seq(S) /\ Append(s, c) # <<>>
  BY AppendProperties
<1>2. PICK t \in Seq(S) : t = Append(s, c)
  BY <1>1
<1>3. Front(t) \in Seq(S) /\ Last(t) \in S /\ Append(s, c) = Append(Front(t), Last(t))
  BY <1>1, <1>2, FrontLast
<1>4. PICK r \in Seq(S), d \in S : r = Front(t) /\ d = Last(t)
  BY <1>3
<1>5. Append(s, c) = Append(r, d)
  BY <1>3, <1>4
<1>6. s = r /\ c = d
  BY <1>5, AppendInjective
<1> QED
  BY <1>2, <1>4, <1>6

\* What a function makes of a list, element by element.
Mapped(s, g) == [i \in DOMAIN s |-> g[s[i]]]

\* It makes a list of the same length.
LEMMA MappedType ==
    ASSUME NEW S, NEW V, NEW s \in Seq(S), NEW g \in [S -> V]
    PROVE  Mapped(s, g) \in Seq(V) /\ Len(Mapped(s, g)) = Len(s)
<1> DEFINE L == Len(s)
<1>1. L \in Nat /\ DOMAIN s = 1 .. L /\ \A i \in 1 .. L : s[i] \in S
  BY LenProperties, ElementOfSeq
<1>2. \A i \in 1 .. L : g[s[i]] \in V
  BY <1>1
<1>3. Mapped(s, g) = [i \in 1 .. L |-> g[s[i]]]
  BY <1>1 DEF Mapped
<1> HIDE DEF L
<1>4. [i \in 1 .. L |-> g[s[i]]] \in Seq(V) /\ Len([i \in 1 .. L |-> g[s[i]]]) = L
  BY <1>1, <1>2, IsASeq
<1> QED
  BY <1>3, <1>4 DEF L

\* Of nothing.
LEMMA MappedNone == \A g : Mapped(<<>>, g) = <<>>
BY DEF Mapped

\* One more.
LEMMA MappedAppend ==
    \A S, V : \A g \in [S -> V] : \A s \in Seq(S), c \in S :
        Mapped(Append(s, c), g) = Append(Mapped(s, g), g[c])
<1> SUFFICES ASSUME NEW S, NEW V, NEW g \in [S -> V], NEW s \in Seq(S), NEW c \in S
             PROVE  Mapped(Append(s, c), g) = Append(Mapped(s, g), g[c])
  OBVIOUS
<1>1. PICK t \in Seq(S) : t = Append(s, c)
  <2>1. Append(s, c) \in Seq(S)
    OBVIOUS
  <2> QED BY <2>1, Zenon
<1>2. PICK u \in Seq(V) : u = Mapped(s, g) /\ Len(u) = Len(s)
  BY MappedType
<1>3. PICK d \in V : d = g[c]
  OBVIOUS
<1>4. PICK v \in Seq(V) : v = Mapped(t, g) /\ Len(v) = Len(t)
  BY MappedType
<1>5. PICK w \in Seq(V) : w = Append(u, d)
  <2>1. Append(u, d) \in Seq(V)
    OBVIOUS
  <2> QED BY <2>1, Zenon
<1>6. PICK L \in Nat : L = Len(s)
  BY LenProperties
<1>7. Len(t) = L + 1 /\ t[L + 1] = c /\ \A i \in 1 .. L : t[i] = s[i]
  BY <1>1, <1>6, AppendProperties
<1>8. Len(w) = L + 1 /\ w[L + 1] = d /\ \A i \in 1 .. L : w[i] = u[i]
  BY <1>2, <1>5, <1>6, AppendProperties
<1>9. DOMAIN s = 1 .. L /\ DOMAIN t = 1 .. L + 1
  BY <1>6, <1>7, LenProperties
<1>10. \A i \in 1 .. L : u[i] = g[s[i]]
  BY <1>2, <1>9 DEF Mapped
<1>11. \A i \in 1 .. L + 1 : v[i] = g[t[i]]
  BY <1>4, <1>9 DEF Mapped
<1>12. ASSUME NEW i \in 1 .. L + 1 PROVE v[i] = w[i]
  <2>1. CASE i = L + 1
    BY <1>3, <1>7, <1>8, <1>11, <2>1
  <2>2. CASE i # L + 1
    <3>1. i \in 1 .. L
      BY <2>2
    <3>2. t[i] = s[i] /\ w[i] = u[i]
      BY <1>7, <1>8, <3>1
    <3>3. u[i] = g[s[i]]
      BY <1>10, <3>1
    <3>4. v[i] = g[t[i]]
      BY <1>11
    <3> QED BY <3>2, <3>3, <3>4, Zenon
  <2> QED BY <2>1, <2>2
<1>13. v = w
  BY <1>4, <1>7, <1>8, <1>12, SeqEqual
<1> QED
  BY <1>1, <1>2, <1>3, <1>4, <1>5, <1>13

\* A narrow character stays as it is.
LEMMA NarrowOneType ==
    ASSUME NEW c \in Chars
    PROVE  NarrowOne(c) \in Chars /\ NarrowOne(NarrowOne(c)) = NarrowOne(c)
<1>1. NarrowOne(c) \in Chars
  BY Zenon DEF NarrowOne, Chars, Punctuation
<1>2. Comma # "zstop" /\ Comma # "zcomma"
  BY SMT DEF Comma
<1>3. NarrowOne(NarrowOne(c)) = NarrowOne(c)
  BY <1>2, SMT DEF NarrowOne
<1> QED
  BY <1>1, <1>3

\* Narrow goes character by character.
LEMMA NarrowMaps ==
    ASSUME NEW s \in Seq(Chars)
    PROVE  Narrow(s) = Mapped(s, [c \in Chars |-> NarrowOne(c)])
<1>1. \A i \in DOMAIN s : s[i] \in Chars
  BY LenProperties, ElementOfSeq
<1> QED
  BY <1>1 DEF Narrow, Mapped

\* It maps characters to characters.
LEMMA NarrowOneMaps == [c \in Chars |-> NarrowOne(c)] \in [Chars -> Chars]
<1>1. \A c \in Chars : NarrowOne(c) \in Chars
  BY NarrowOneType
<1> QED
  BY <1>1

\* A text with narrow characters is a text of the same length.
LEMMA NarrowType ==
    ASSUME NEW s \in Seq(Chars)
    PROVE  Narrow(s) \in Seq(Chars) /\ Len(Narrow(s)) = Len(s)
<1>1. PICK g \in [Chars -> Chars] : g = [d \in Chars |-> NarrowOne(d)]
  BY NarrowOneMaps
<1>2. Mapped(s, g) \in Seq(Chars) /\ Len(Mapped(s, g)) = Len(s)
  BY MappedType
<1> QED
  BY <1>1, <1>2, NarrowMaps

\* Of nothing.
LEMMA NarrowNone == Narrow(<<>>) = <<>>
BY DEF Narrow

\* One more.
LEMMA NarrowAppend ==
    ASSUME NEW s \in Seq(Chars), NEW c \in Chars
    PROVE  Narrow(Append(s, c)) = Append(Narrow(s), NarrowOne(c))
<1>1. PICK g \in [Chars -> Chars] : g = [d \in Chars |-> NarrowOne(d)]
  BY NarrowOneMaps
<1>2. Append(s, c) \in Seq(Chars)
  OBVIOUS
<1>3. Narrow(s) = Mapped(s, g) /\ Narrow(Append(s, c)) = Mapped(Append(s, c), g)
  BY <1>1, <1>2, NarrowMaps
<1>4. g[c] = NarrowOne(c)
  BY <1>1
<1>5. Mapped(Append(s, c), g) = Append(Mapped(s, g), g[c])
  BY MappedAppend, Zenon
<1> QED
  BY <1>3, <1>4, <1>5

\* What of a text is said, when these characters are spoken.
Said(s, kind) == Narrow(Only(s, kind))

\* It is a text.
LEMMA SaidType ==
    ASSUME NEW s \in Seq(Chars), NEW kind
    PROVE  Said(s, kind) \in Seq(Chars)
<1>1. Only(s, kind) \in Seq(Chars)
  BY OnlyFolds
<1> QED
  BY <1>1, NarrowType DEF Said

\* Of nothing.
LEMMA SaidNone == \A kind : Said(<<>>, kind) = <<>>
BY OnlyNone, NarrowNone DEF Said

\* One more.
LEMMA SaidAppend ==
    ASSUME NEW s \in Seq(Chars), NEW c \in Chars, NEW kind
    PROVE  Said(Append(s, c), kind) = IF c \in kind THEN Append(Said(s, kind), NarrowOne(c)) ELSE Said(s, kind)
<1>1. PICK r \in Seq(Chars) : r = Only(s, kind)
  BY OnlyFolds
<1>2. Only(Append(s, c), kind) = IF c \in kind THEN Append(r, c) ELSE r
  BY <1>1, OnlyAppend
<1>3. Narrow(Append(r, c)) = Append(Narrow(r), NarrowOne(c))
  BY NarrowAppend
<1> QED
  BY <1>1, <1>2, <1>3 DEF Said

\* Of two texts.
LEMMA SaidBehind ==
    ASSUME NEW s \in Seq(Chars), NEW t \in Seq(Chars), NEW kind
    PROVE  Said(Behind(s, t), kind) = Behind(Said(s, kind), Said(t, kind))
<1> DEFINE T == {r \in Seq(Chars) : Said(Behind(s, r), kind) = Behind(Said(s, kind), Said(r, kind))}
<1>1. <<>> \in T
  <2>1. <<>> \in Seq(Chars) /\ Behind(s, <<>>) = s
    BY BehindNone
  <2>2. Behind(Said(s, kind), <<>>) = Said(s, kind)
    BY SaidType, BehindNone
  <2> QED BY <2>1, <2>2, SaidNone
<1>2. ASSUME NEW r \in Seq(Chars), NEW c \in Chars, r \in T PROVE Append(r, c) \in T
  <2>1. PICK a \in Seq(Chars) : a = Said(s, kind)
    BY SaidType
  <2>2. PICK b \in Seq(Chars) : b = Said(r, kind)
    BY SaidType
  <2>3. PICK d \in Chars : d = NarrowOne(c)
    BY NarrowOneType
  <2>4. PICK both \in Seq(Chars) : both = Behind(s, r)
    BY BehindType
  <2>5. Behind(s, Append(r, c)) = Append(both, c)
    <3>1. Behind(s, Append(r, c)) = Append(Behind(s, r), c)
      BY BehindAppend
    <3> QED BY <2>4, <3>1
  <2>6. Said(Append(both, c), kind) = IF c \in kind THEN Append(Said(both, kind), d) ELSE Said(both, kind)
    BY <2>3, SaidAppend
  <2>7. Behind(a, Append(b, d)) = Append(Behind(a, b), d)
    BY BehindAppend
  <2>8. Said(Append(r, c), kind) = IF c \in kind THEN Append(b, d) ELSE b
    BY <2>2, <2>3, SaidAppend
  <2>9. Said(both, kind) = Behind(a, b)
    BY <1>2, <2>1, <2>2, <2>4
  <2>10. Append(r, c) \in Seq(Chars)
    OBVIOUS
  <2> QED BY <2>1, <2>5, <2>6, <2>7, <2>8, <2>9, <2>10
<1>3. t \in T
  <2> HIDE DEF T
  <2> QED BY <1>1, <1>2, SeqSet
<1> QED
  BY <1>3

\* What is not spoken may be left out before.
LEMMA SaidOfTaken ==
    ASSUME NEW s \in Seq(Chars), NEW places, NEW kind,
           \A n \in 1 .. Len(s) : n \notin places => s[n] \notin kind
    PROVE  Taken(s, places) \in Seq(Chars) /\ Said(Taken(s, places), kind) = Said(s, kind)
BY OnlyOfTaken DEF Said

\* A character is spoken whether it is narrow or wide.
Fair(kind) == \A c \in Chars : c \in kind <=> NarrowOne(c) \in kind

\* A text may be made narrow before.
LEMMA SaidOfNarrow ==
    ASSUME NEW s \in Seq(Chars), NEW kind, Fair(kind)
    PROVE  Said(Narrow(s), kind) = Said(s, kind)
<1> DEFINE T == {r \in Seq(Chars) : Said(Narrow(r), kind) = Said(r, kind)}
<1>1. <<>> \in T
  BY NarrowNone
<1>2. ASSUME NEW r \in Seq(Chars), NEW c \in Chars, r \in T PROVE Append(r, c) \in T
  <2>1. PICK a \in Seq(Chars) : a = Narrow(r)
    BY NarrowType
  <2>2. PICK d \in Chars : d = NarrowOne(c) /\ NarrowOne(d) = d
    BY NarrowOneType
  <2>3. Said(Append(a, d), kind) = IF d \in kind THEN Append(Said(a, kind), d) ELSE Said(a, kind)
    BY <2>2, SaidAppend
  <2>4. Said(Append(r, c), kind) = IF c \in kind THEN Append(Said(r, kind), d) ELSE Said(r, kind)
    BY <2>2, SaidAppend
  <2>5. c \in kind <=> d \in kind
    BY <2>2 DEF Fair
  <2>6. Narrow(Append(r, c)) = Append(a, d)
    BY <2>1, <2>2, NarrowAppend
  <2>7. Said(a, kind) = Said(r, kind) /\ Append(r, c) \in Seq(Chars)
    BY <1>2, <2>1
  <2> QED BY <2>3, <2>4, <2>5, <2>6, <2>7
<1>3. s \in T
  <2> HIDE DEF T
  <2> QED BY <1>1, <1>2, SeqSet
<1> QED
  BY <1>3

\* What several texts say.
Carried(q, kind) == Said(FlattenSeq(q), kind)

\* It is a text.
LEMMA CarriedType ==
    ASSUME NEW q \in Seq(Seq(Chars)), NEW kind
    PROVE  Carried(q, kind) \in Seq(Chars)
<1>1. FlattenSeq(q) \in Seq(Chars)
  BY FlattenFolds
<1> QED
  BY <1>1, SaidType DEF Carried

\* None say nothing.
LEMMA CarriedNone == \A kind : Carried(<<>>, kind) = <<>>
BY FlattenNone, SaidNone DEF Carried

\* One more.
LEMMA CarriedAppend ==
    ASSUME NEW q \in Seq(Seq(Chars)), NEW x \in Seq(Chars), NEW kind
    PROVE  Carried(Append(q, x), kind) = Behind(Carried(q, kind), Said(x, kind))
<1>1. PICK r \in Seq(Chars) : r = FlattenSeq(q)
  BY FlattenFolds
<1>2. FlattenSeq(Append(q, x)) = Behind(r, x)
  BY <1>1, FlattenAppend
<1>3. Said(Behind(r, x), kind) = Behind(Said(r, kind), Said(x, kind))
  BY SaidBehind
<1> QED
  BY <1>1, <1>2, <1>3 DEF Carried

\* A single one.
LEMMA CarriedOne ==
    ASSUME NEW x \in Seq(Chars), NEW kind
    PROVE  Carried(<<x>>, kind) = Said(x, kind)
<1>1. <<>> \in Seq(Seq(Chars)) /\ Append(<<>>, x) = <<x>>
  OBVIOUS
<1>2. Carried(Append(<<>>, x), kind) = Behind(Carried(<<>>, kind), Said(x, kind))
  BY <1>1, CarriedAppend
<1>3. Behind(<<>>, Said(x, kind)) = Said(x, kind)
  BY SaidType, BehindNone
<1> QED
  BY <1>1, <1>2, <1>3, CarriedNone

\* A text with something in it.
Utterance == Seq(Chars) \ {<<>>}

\* One more at the end.
LEMMA AppendType ==
    ASSUME NEW S, NEW s \in Seq(S), NEW c \in S
    PROVE  Append(s, c) \in Seq(S)
OBVIOUS

\* Lists of them are lists of texts.
LEMMA FilledTexts == \A q \in Seq(Utterance) : q \in Seq(Seq(Chars))
BY SeqMonotonic DEF Utterance

\* The blanks at its ends are not spoken.
LEMMA TrimmedKeeps ==
    ASSUME NEW s \in Seq(Chars), NEW kind, Space \notin kind
    PROVE  Trimmed(s) \in Seq(Chars) /\ Said(Trimmed(s), kind) = Said(s, kind)
<1> DEFINE places == {n \in DOMAIN s : \E a, b \in DOMAIN s : a <= n /\ n <= b /\ s[a] # Space /\ s[b] # Space}
<1>1. \A n \in 1 .. Len(s) : n \notin places => s[n] \notin kind
  <2>1. ASSUME NEW n \in 1 .. Len(s), n \notin places PROVE s[n] = Space
    <3>1. n \in DOMAIN s /\ n <= n
      <4> HIDE DEF places
      <4>1. DOMAIN s = 1 .. Len(s) /\ Len(s) \in Nat
        BY LenProperties
      <4>2. n \in 1 .. Len(s) => n <= n
        BY <4>1
      <4> QED BY <4>1, <4>2
    <3> QED BY <2>1, <3>1
  <2> QED BY <2>1
<1>2. Trimmed(s) = Taken(s, places)
  BY DEF Trimmed
<1> HIDE DEF places
<1>3. Taken(s, places) \in Seq(Chars) /\ Said(Taken(s, places), kind) = Said(s, kind)
  BY <1>1, SaidOfTaken
<1> QED
  BY <1>2, <1>3

\* What is open and what is closed.
CutState == [done : Seq(Utterance), open : Seq(Chars)]

\* They are what a record holds.
LEMMA CutParts ==
    ASSUME NEW state \in CutState
    PROVE  state.done \in Seq(Utterance) /\ state.open \in Seq(Chars) /\ state.done \in Seq(Seq(Chars))
<1>1. state.done \in Seq(Utterance) /\ state.open \in Seq(Chars)
  BY DEF CutState
<1> QED
  BY <1>1, FilledTexts

\* What is closed is a list of texts that have something in them.
LEMMA ClosedType ==
    ASSUME NEW state \in CutState
    PROVE  Closed(state) \in Seq(Utterance)
<1>1. PICK done \in Seq(Utterance), open \in Seq(Chars) : done = state.done /\ open = state.open
  BY CutParts
<1>2. PICK piece \in Seq(Chars) : piece = Trimmed(open)
  <2>1. \E kind : Space \notin kind
    <3>1. Space \notin {}
      OBVIOUS
    <3> QED BY <3>1
  <2>2. PICK kind : Space \notin kind
    BY <2>1
  <2>3. Trimmed(open) \in Seq(Chars)
    BY <2>2, TrimmedKeeps
  <2> QED BY <2>3
<1>3. Closed(state) = IF piece = <<>> THEN done ELSE Append(done, piece)
  BY <1>1, <1>2 DEF Closed
<1>4. piece # <<>> => Append(done, piece) \in Seq(Utterance)
  <2>1. piece # <<>> => piece \in Utterance
    BY DEF Utterance
  <2> QED BY <2>1, AppendType
<1> QED
  BY <1>3, <1>4

\* Closing keeps what is said.
LEMMA ClosedKeeps ==
    ASSUME NEW state \in CutState, NEW kind, Space \notin kind
    PROVE  Carried(Closed(state), kind) = Behind(Carried(state.done, kind), Said(state.open, kind))
<1>1. PICK done \in Seq(Utterance), open \in Seq(Chars) :
        done = state.done /\ open = state.open /\ done \in Seq(Seq(Chars))
  BY CutParts
<1>2. PICK piece \in Seq(Chars) : piece = Trimmed(open) /\ Said(piece, kind) = Said(open, kind)
  BY TrimmedKeeps
<1>3. Closed(state) = IF piece = <<>> THEN done ELSE Append(done, piece)
  BY <1>1, <1>2 DEF Closed
<1>4. CASE piece = <<>>
  <2>1. Said(open, kind) = <<>>
    BY <1>2, <1>4, SaidNone
  <2>2. Behind(Carried(done, kind), <<>>) = Carried(done, kind)
    BY <1>1, CarriedType, BehindNone
  <2> QED BY <1>1, <1>3, <1>4, <2>1, <2>2
<1>5. CASE piece # <<>>
  <2>3. Carried(Append(done, piece), kind) = Behind(Carried(done, kind), Said(piece, kind))
    BY <1>1, CarriedAppend
  <2> QED BY <1>1, <1>2, <1>3, <1>5, <2>3
<1> QED BY <1>4, <1>5

\* Before the first character.
Uncut == [done |-> <<>>, open |-> <<>>]

\* What CutUp does with one.
Cutting(mark) == [c \in Chars |-> [state \in CutState |-> CutAt(state, c, mark)]]

\* It stays a state of the cutting.
LEMMA CutAtType ==
    ASSUME NEW state \in CutState, NEW c \in Chars, NEW mark
    PROVE  CutAt(state, c, mark) \in CutState
<1>1. state.done \in Seq(Utterance) /\ state.open \in Seq(Chars)
  BY CutParts
<1>2. Closed(state) \in Seq(Utterance)
  BY ClosedType
<1>3. Append(state.open, c) \in Seq(Chars) /\ <<>> \in Seq(Chars)
  BY <1>1
<1> QED
  BY <1>1, <1>2, <1>3 DEF CutAt, CutState

\* CutUp, character by character.
LEMMA CutUpFolds ==
    ASSUME NEW s \in Seq(Chars), NEW mark
    PROVE  Folds(CutUp(s, mark), s, Uncut, Cutting(mark)) /\ CutUp(s, mark) \in CutState
<1> DEFINE L == Len(s)
           Is(f) == f = [n \in 0 .. L |->
                           IF n = 0 THEN [done |-> <<>>, open |-> <<>>] ELSE CutAt(f[n - 1], s[n], mark)]
           cut == CHOOSE f : Is(f)
           step == Cutting(mark)
<1>1. L \in Nat /\ \A n \in 1 .. L : s[n] \in Chars
  BY LenProperties, ElementOfSeq
<1>2. \A c \in Chars, d \in CutState : step[c][d] = CutAt(d, c, mark)
  BY DEF Cutting
<1>3. Closes(Chars, CutState, Uncut, step)
  <2>1. Uncut \in CutState
    <3>1. <<>> \in Seq(Utterance) /\ <<>> \in Seq(Chars)
      OBVIOUS
    <3> QED BY <3>1 DEF Uncut, CutState
  <2>2. \A c \in Chars, d \in CutState : step[c][d] \in CutState
    BY <1>2, CutAtType
  <2> HIDE DEF step
  <2> QED BY <2>1, <2>2 DEF Closes
<1> HIDE DEF step
<1>4. \E f : Is(f)
  <2>1. PICK f : /\ f \in [0 .. L -> CutState] /\ f[0] = Uncut
                 /\ \A n \in 1 .. L : f[n] = step[s[n]][f[n - 1]]
    BY <1>3, FoldExists
  <2>2. ASSUME NEW n \in 0 .. L
        PROVE  f[n] = IF n = 0 THEN [done |-> <<>>, open |-> <<>>] ELSE CutAt(f[n - 1], s[n], mark)
    <3>1. CASE n # 0
      <4>1. n \in 1 .. L /\ n - 1 \in 0 .. L
        BY <1>1, <3>1
      <4>2. f[n - 1] \in CutState /\ s[n] \in Chars /\ f[n] = step[s[n]][f[n - 1]]
        BY <1>1, <2>1, <4>1
      <4> QED BY <1>2, <3>1, <4>2
    <3> QED BY <2>1, <3>1 DEF Uncut
  <2>3. Is(f)
    BY <2>1, <2>2
  <2> HIDE DEF Is
  <2> QED BY <2>3
<1>5. Is(cut)
  <2> HIDE DEF Is
  <2> QED BY <1>4
<1>6. CutUp(s, mark) = cut[L]
  BY DEF CutUp
<1> HIDE DEF cut
<1>7. cut[0] = Uncut
  BY <1>1, <1>5 DEF Uncut
<1>8. ASSUME NEW n \in 1 .. L, cut[n - 1] \in CutState PROVE cut[n] = step[s[n]][cut[n - 1]]
  <2>1. n \in 0 .. L /\ n # 0 /\ s[n] \in Chars
    BY <1>1
  <2>2. cut[n] = CutAt(cut[n - 1], s[n], mark)
    BY <1>5, <2>1
  <2> HIDE DEF Is
  <2> QED BY <1>2, <1>8, <2>1, <2>2
<1> HIDE DEF Is
<1> QED
  BY <1>3, <1>6, <1>7, <1>8, FoldsGuarded DEF step

\* Nothing is cut of nothing.
LEMMA CutUpNone == \A mark : CutUp(<<>>, mark) = Uncut
<1> SUFFICES ASSUME NEW mark PROVE CutUp(<<>>, mark) = Uncut
  OBVIOUS
<1>1. <<>> \in Seq(Chars)
  OBVIOUS
<1>2. Folds(CutUp(<<>>, mark), <<>>, Uncut, Cutting(mark))
  BY <1>1, CutUpFolds
<1> QED
  BY <1>2, FoldsNone

\* One character more.
LEMMA CutUpAppend ==
    ASSUME NEW s \in Seq(Chars), NEW c \in Chars, NEW mark
    PROVE  CutUp(Append(s, c), mark) = CutAt(CutUp(s, mark), c, mark)
<1>1. PICK t \in Seq(Chars) : t = Append(s, c)
  <2>1. Append(s, c) \in Seq(Chars)
    OBVIOUS
  <2> QED BY <2>1, Zenon
<1>2. Folds(CutUp(s, mark), s, Uncut, Cutting(mark)) /\ CutUp(s, mark) \in CutState
  BY CutUpFolds
<1>3. Folds(CutUp(t, mark), t, Uncut, Cutting(mark))
  BY CutUpFolds
<1>4. CutUp(t, mark) = Cutting(mark)[c][CutUp(s, mark)]
  BY <1>1, <1>2, <1>3, FoldsOne
<1> QED
  BY <1>1, <1>2, <1>4 DEF Cutting

\* While it is cut nothing that is spoken is lost.
LEMMA CutUpKeeps ==
    ASSUME NEW s \in Seq(Chars), NEW mark, NEW kind, Space \notin kind, mark \notin kind
    PROVE  Behind(Carried(CutUp(s, mark).done, kind), Said(CutUp(s, mark).open, kind)) = Said(s, kind)
<1> DEFINE Kept(state) == Behind(Carried(state.done, kind), Said(state.open, kind))
           T == {r \in Seq(Chars) : Kept(CutUp(r, mark)) = Said(r, kind)}
<1>1. <<>> \in T
  <2>1. Uncut.done = <<>> /\ Uncut.open = <<>>
    BY DEF Uncut
  <2>2. Kept(Uncut) = Behind(<<>>, <<>>)
    BY <2>1, CarriedNone, SaidNone
  <2>3. <<>> \in Seq(Chars)
    BY EmptySeq
  <2>4. Behind(<<>>, <<>>) = <<>>
    BY <2>3, BehindNone
  <2> HIDE DEF Kept
  <2> QED BY <2>2, <2>3, <2>4, CutUpNone, SaidNone
<1>2. ASSUME NEW r \in Seq(Chars), NEW c \in Chars, r \in T PROVE Append(r, c) \in T
  <2>1. PICK state \in CutState : state = CutUp(r, mark) /\ Kept(state) = Said(r, kind)
    BY <1>2, CutUpFolds
  <2>2. PICK shut \in Seq(Utterance), begun \in Seq(Chars) :
          shut = state.done /\ begun = state.open /\ shut \in Seq(Seq(Chars))
    BY CutParts
  <2>3. PICK a \in Seq(Chars) : a = Carried(shut, kind)
    BY <2>2, CarriedType
  <2>4. PICK b \in Seq(Chars) : b = Said(begun, kind)
    BY SaidType
  <2>5. Behind(a, b) = Said(r, kind)
    BY <2>1, <2>2, <2>3, <2>4
  <2>6. PICK after \in CutState : after = CutAt(state, c, mark) /\ after = CutUp(Append(r, c), mark)
    BY <2>1, CutUpAppend, CutAtType
  <2>7. PICK d \in Chars : d = NarrowOne(c)
    BY NarrowOneType
  <2>8. Said(Append(r, c), kind) = IF c \in kind THEN Append(Said(r, kind), d) ELSE Said(r, kind)
    BY <2>7, SaidAppend
  <2>9. Kept(after) = Said(Append(r, c), kind)
    <3>1. CASE c = mark
      <4> HIDE DEF Kept
      <4>0. after = CutAt(state, c, mark)
        BY <2>6
      <4> HIDE DEF T
      <4>1. after.done = Closed(state) /\ after.open = <<>>
        BY <4>0, <3>1 DEF CutAt
      <4>2. Carried(after.done, kind) = Behind(a, b)
        BY <2>2, <2>3, <2>4, <4>1, ClosedKeeps
      <4>3. Behind(Behind(a, b), <<>>) = Behind(a, b)
        BY BehindType, BehindNone
      <4> QED BY <2>5, <2>8, <3>1, <4>1, <4>2, <4>3, SaidNone DEF Kept
    <3>2. CASE c # mark
      <4> HIDE DEF Kept
      <4>0. after = CutAt(state, c, mark)
        BY <2>6
      <4> HIDE DEF T
      <4>1. after.done = shut /\ after.open = Append(begun, c)
        BY <2>2, <4>0, <3>2 DEF CutAt
      <4>2. Said(Append(begun, c), kind) = IF c \in kind THEN Append(b, d) ELSE b
        BY <2>4, <2>7, SaidAppend
      <4>3. Behind(a, Append(b, d)) = Append(Behind(a, b), d)
        BY BehindAppend
      <4> QED BY <2>3, <2>5, <2>8, <4>1, <4>2, <4>3 DEF Kept
    <3> QED BY <3>1, <3>2
  <2>10. Append(r, c) \in Seq(Chars)
    BY AppendType, Zenon
  <2> HIDE DEF Kept
  <2> QED BY <2>6, <2>9, <2>10
<1>3. s \in T
  <2> HIDE DEF T
  <2> QED BY <1>1, <1>2, SeqSet
<1> QED
  BY <1>3

\* The pieces have something in them each.
LEMMA PiecesFilled ==
    ASSUME NEW s \in Seq(Chars), NEW mark
    PROVE  Pieces(s, mark) \in Seq(Utterance)
<1>1. CutUp(s, mark) \in CutState
  BY CutUpFolds
<1> QED
  BY <1>1, ClosedType DEF Pieces

\* The pieces say together what the text says, when the mark is not spoken.
LEMMA PiecesCarry ==
    ASSUME NEW s \in Seq(Chars), NEW mark, NEW kind, Space \notin kind, mark \notin kind
    PROVE  Carried(Pieces(s, mark), kind) = Said(s, kind)
<1>1. PICK state \in CutState : state = CutUp(s, mark)
  BY CutUpFolds
<1>2. Carried(Closed(state), kind) = Behind(Carried(state.done, kind), Said(state.open, kind))
  BY ClosedKeeps
<1> QED
  BY <1>1, <1>2, CutUpKeeps DEF Pieces

\* The blank is a character.
LEMMA SpaceType == Space \in Chars
BY DEF Chars

\* Two texts joined are a text with something in it, longer than both.
LEMMA JoinType ==
    ASSUME NEW a \in Seq(Chars), NEW b \in Seq(Chars)
    PROVE  Join(a, b) \in Utterance /\ Len(Join(a, b)) = Len(a) + 1 + Len(b)
<1>1. PICK one \in Seq(Chars) : one = <<Space>> /\ Len(one) = 1
  <2>1. <<Space>> \in Seq(Chars) /\ Len(<<Space>>) = 1
    BY SpaceType
  <2> QED BY <2>1
<1>2. PICK c \in Seq(Chars) : c = a \o one /\ Len(c) = Len(a) + 1
  <2>1. a \o one \in Seq(Chars) /\ Len(a \o one) = Len(a) + Len(one)
    BY ConcatProperties
  <2> QED BY <1>1, <2>1
<1>3. PICK d \in Seq(Chars) : d = c \o b /\ Len(d) = Len(c) + Len(b)
  <2>1. c \o b \in Seq(Chars) /\ Len(c \o b) = Len(c) + Len(b)
    BY ConcatProperties
  <2> QED BY <2>1
<1>4. d = Join(a, b)
  BY <1>1, <1>2, <1>3 DEF Join
<1>5. Len(a) \in Nat /\ Len(b) \in Nat
  BY LenProperties
<1>6. Len(d) = Len(a) + 1 + Len(b) /\ Len(d) > 0
  BY <1>2, <1>3, <1>5
<1>7. d # <<>>
  BY <1>6
<1> QED
  BY <1>4, <1>6, <1>7 DEF Utterance

\* They say together what they say each.
LEMMA JoinSays ==
    ASSUME NEW a \in Seq(Chars), NEW b \in Seq(Chars), NEW kind, Space \notin kind
    PROVE  Said(Join(a, b), kind) = Behind(Said(a, kind), Said(b, kind))
<1>1. PICK one \in Seq(Chars) : one = <<Space>>
  <2>1. <<Space>> \in Seq(Chars)
    BY SpaceType
  <2> QED BY <2>1
<1>2. PICK c \in Seq(Chars) : c = Behind(a, one)
  BY BehindType
<1>3. Join(a, b) = Behind(c, b)
  BY <1>1, <1>2 DEF Join, Behind
<1>4. c = Append(a, Space)
  BY <1>1, <1>2, SpaceType, BehindOne
<1>5. Said(c, kind) = Said(a, kind)
  BY <1>4, SpaceType, SaidAppend
<1> QED
  BY <1>3, <1>5, SaidBehind

\* What is a sentence already, and what is still put together.
GatherState == [out : Seq(Utterance), open : Seq(Chars), length : Nat]

Ungathered == [out |-> <<>>, open |-> <<>>, length |-> 0]

\* What GatherAll does with one piece.
Gathering == [piece \in Utterance |-> [state \in GatherState |-> Gather(state, piece)]]

\* The piece put behind what is open.
Opened(state, piece) == IF state.open = <<>> THEN piece ELSE Join(state.open, piece)

\* It is not empty.
LEMMA OpenedType ==
    ASSUME NEW state \in GatherState, NEW piece \in Utterance
    PROVE  Opened(state, piece) \in Utterance
<1>1. state.open \in Seq(Chars) /\ piece \in Seq(Chars)
  BY DEF GatherState, Utterance
<1> QED
  BY <1>1, JoinType DEF Opened

\* It says what both say.
LEMMA OpenedSays ==
    ASSUME NEW state \in GatherState, NEW piece \in Utterance, NEW kind, Space \notin kind
    PROVE  Said(Opened(state, piece), kind) = Behind(Said(state.open, kind), Said(piece, kind))
<1>1. PICK a \in Seq(Chars) : a = state.open
  BY DEF GatherState
<1>2. piece \in Seq(Chars)
  BY DEF Utterance
<1>3. CASE a = <<>>
  <2>1. Said(a, kind) = <<>> /\ Behind(<<>>, Said(piece, kind)) = Said(piece, kind)
    BY <1>2, <1>3, SaidNone, SaidType, BehindNone
  <2> QED BY <1>1, <1>3, <2>1 DEF Opened
<1>4. CASE a # <<>>
  BY <1>1, <1>2, <1>4, JoinSays DEF Opened
<1> QED BY <1>3, <1>4

\* With a piece the sum of the lengths is passed, or it is not.
LEMMA GatherParts ==
    ASSUME NEW state, NEW piece
    PROVE  \/ Gather(state, piece) = [out |-> Append(state.out, Opened(state, piece)), open |-> <<>>, length |-> 0]
           \/ Gather(state, piece) = [out |-> state.out, open |-> Opened(state, piece),
                                      length |-> state.length + Len(piece)]
BY DEF Gather, Opened

\* It stays such a state.
LEMMA GatherType ==
    ASSUME NEW state \in GatherState, NEW piece \in Utterance
    PROVE  Gather(state, piece) \in GatherState
<1>1. PICK out \in Seq(Utterance), length \in Nat : out = state.out /\ length = state.length
  BY DEF GatherState
<1>2. PICK o \in Utterance : o = Opened(state, piece)
  BY OpenedType
<1>3. Append(out, o) \in Seq(Utterance) /\ <<>> \in Seq(Chars)
  BY AppendType, EmptySeq
<1>4. length + Len(piece) \in Nat /\ o \in Seq(Chars)
  <2>1. Len(piece) \in Nat
    BY LenProperties DEF Utterance
  <2> QED BY <2>1 DEF Utterance
<1>5. \/ Gather(state, piece) = [out |-> Append(out, o), open |-> <<>>, length |-> 0]
      \/ Gather(state, piece) = [out |-> out, open |-> o, length |-> length + Len(piece)]
  BY <1>1, <1>2, GatherParts
<1>6. PICK some \in Seq(Utterance) : some = Append(out, o)
  BY <1>3
<1>7. PICK sum \in Nat : sum = length + Len(piece)
  BY <1>4
<1>8. [out |-> some, open |-> <<>>, length |-> 0] \in GatherState
  BY <1>3 DEF GatherState
<1>9. [out |-> out, open |-> o, length |-> sum] \in GatherState
  BY <1>4 DEF GatherState
<1> QED
  BY <1>5, <1>6, <1>7, <1>8, <1>9

\* GatherAll, piece by piece.
LEMMA GatherAllFolds ==
    ASSUME NEW s \in Seq(Utterance)
    PROVE  Folds(GatherAll(s), s, Ungathered, Gathering) /\ GatherAll(s) \in GatherState
<1> DEFINE L == Len(s)
           Is(f) == f = [n \in 0 .. L |->
                           IF n = 0 THEN [out |-> <<>>, open |-> <<>>, length |-> 0]
                           ELSE Gather(f[n - 1], s[n])]
           gathered == CHOOSE f : Is(f)
           step == Gathering
<1>1. L \in Nat /\ \A n \in 1 .. L : s[n] \in Utterance
  BY LenProperties, ElementOfSeq
<1>2. \A c \in Utterance, d \in GatherState : step[c][d] = Gather(d, c)
  BY DEF Gathering
<1>3. Closes(Utterance, GatherState, Ungathered, step)
  <2>1. Ungathered \in GatherState
    <3>1. <<>> \in Seq(Utterance) /\ <<>> \in Seq(Chars)
      OBVIOUS
    <3> QED BY <3>1 DEF Ungathered, GatherState
  <2>2. \A c \in Utterance, d \in GatherState : step[c][d] \in GatherState
    BY <1>2, GatherType
  <2> HIDE DEF step
  <2> QED BY <2>1, <2>2 DEF Closes
<1> HIDE DEF step
<1>4. \E f : Is(f)
  <2>1. PICK f : /\ f \in [0 .. L -> GatherState] /\ f[0] = Ungathered
                 /\ \A n \in 1 .. L : f[n] = step[s[n]][f[n - 1]]
    BY <1>3, FoldExists
  <2>2. ASSUME NEW n \in 0 .. L
        PROVE  f[n] = IF n = 0 THEN [out |-> <<>>, open |-> <<>>, length |-> 0] ELSE Gather(f[n - 1], s[n])
    <3>1. CASE n # 0
      <4>1. n \in 1 .. L /\ n - 1 \in 0 .. L
        BY <1>1, <3>1
      <4>2. f[n - 1] \in GatherState /\ s[n] \in Utterance /\ f[n] = step[s[n]][f[n - 1]]
        BY <1>1, <2>1, <4>1
      <4> QED BY <1>2, <3>1, <4>2
    <3> QED BY <2>1, <3>1 DEF Ungathered
  <2>3. Is(f)
    BY <2>1, <2>2
  <2> HIDE DEF Is
  <2> QED BY <2>3
<1>5. Is(gathered)
  <2> HIDE DEF Is
  <2> QED BY <1>4
<1>6. GatherAll(s) = gathered[L]
  BY DEF GatherAll
<1> HIDE DEF gathered
<1>7. gathered[0] = Ungathered
  BY <1>1, <1>5 DEF Ungathered
<1>8. ASSUME NEW n \in 1 .. L, gathered[n - 1] \in GatherState PROVE gathered[n] = step[s[n]][gathered[n - 1]]
  <2>1. n \in 0 .. L /\ n # 0 /\ s[n] \in Utterance
    BY <1>1
  <2>2. gathered[n] = Gather(gathered[n - 1], s[n])
    BY <1>5, <2>1
  <2> HIDE DEF Is
  <2> QED BY <1>2, <1>8, <2>1, <2>2
<1> HIDE DEF Is
<1> QED
  BY <1>3, <1>6, <1>7, <1>8, FoldsGuarded DEF step

\* Of no pieces.
LEMMA GatherAllNone == GatherAll(<<>>) = Ungathered
<1>1. <<>> \in Seq(Utterance)
  OBVIOUS
<1>2. Folds(GatherAll(<<>>), <<>>, Ungathered, Gathering)
  BY <1>1, GatherAllFolds
<1> QED
  BY <1>2, FoldsNone

\* One piece more.
LEMMA GatherAllAppend ==
    ASSUME NEW s \in Seq(Utterance), NEW c \in Utterance
    PROVE  GatherAll(Append(s, c)) = Gather(GatherAll(s), c)
<1>1. PICK t \in Seq(Utterance) : t = Append(s, c)
  BY AppendType
<1>2. Folds(GatherAll(s), s, Ungathered, Gathering) /\ GatherAll(s) \in GatherState
  BY GatherAllFolds
<1>3. Folds(GatherAll(t), t, Ungathered, Gathering)
  BY GatherAllFolds
<1>4. GatherAll(t) = Gathering[c][GatherAll(s)]
  BY <1>1, <1>2, <1>3, FoldsOne
<1> QED
  BY <1>1, <1>2, <1>4 DEF Gathering

\* What is gathered and what is open say together what the pieces say.
GatherKeeps(state, kind) == Behind(Carried(state.out, kind), Said(state.open, kind))

\* A piece more is said.
LEMMA GatherStepKeeps ==
    ASSUME NEW state \in GatherState, NEW piece \in Utterance, NEW kind, Space \notin kind
    PROVE  GatherKeeps(Gather(state, piece), kind) = Behind(GatherKeeps(state, kind), Said(piece, kind))
<1>1. PICK out \in Seq(Utterance), begun \in Seq(Chars) :
        out = state.out /\ begun = state.open /\ out \in Seq(Seq(Chars))
  BY FilledTexts DEF GatherState
<1>2. PICK o \in Utterance : o = Opened(state, piece)
  BY OpenedType
<1>3. PICK a \in Seq(Chars) : a = Carried(out, kind)
  BY <1>1, CarriedType
<1>4. PICK b \in Seq(Chars) : b = Said(begun, kind)
  BY SaidType
<1>5. PICK c \in Seq(Chars) : c = Said(piece, kind)
  BY SaidType DEF Utterance
<1>6. Said(o, kind) = Behind(b, c)
  BY <1>1, <1>2, <1>4, <1>5, OpenedSays
<1>7. Behind(Behind(a, b), c) = Behind(a, Behind(b, c)) /\ Behind(a, Behind(b, c)) \in Seq(Chars)
  BY BehindAssociates, BehindType
<1>8. \/ Gather(state, piece) = [out |-> Append(out, o), open |-> <<>>, length |-> 0]
      \/ Gather(state, piece) = [out |-> out, open |-> o, length |-> state.length + Len(piece)]
  BY <1>1, <1>2, GatherParts
<1>9. GatherKeeps(state, kind) = Behind(a, b)
  BY <1>1, <1>3, <1>4 DEF GatherKeeps
<1>10. PICK after : after = Gather(state, piece)
  OBVIOUS
<1>11. CASE after = [out |-> Append(out, o), open |-> <<>>, length |-> 0]
  <2>1. after.out = Append(out, o) /\ after.open = <<>>
    BY <1>11
  <2>2. Carried(Append(out, o), kind) = Behind(a, Behind(b, c))
    BY <1>1, <1>3, <1>6, CarriedAppend DEF Utterance
  <2>3. Behind(Behind(a, Behind(b, c)), <<>>) = Behind(a, Behind(b, c))
    BY <1>7, BehindNone
  <2>4. GatherKeeps(after, kind) = Behind(a, Behind(b, c))
    BY <2>1, <2>2, <2>3, SaidNone DEF GatherKeeps
  <2> QED BY <1>5, <1>7, <1>9, <1>10, <2>4
<1>12. CASE after = [out |-> out, open |-> o, length |-> state.length + Len(piece)]
  <2>1. after.out = out /\ after.open = o
    BY <1>12
  <2>2. GatherKeeps(after, kind) = Behind(a, Behind(b, c))
    BY <1>3, <1>6, <2>1 DEF GatherKeeps
  <2> QED BY <1>5, <1>7, <1>9, <1>10, <2>2
<1> QED BY <1>8, <1>10, <1>11, <1>12

\* All pieces are said.
LEMMA GatherAllKeeps ==
    ASSUME NEW q \in Seq(Utterance), NEW kind, Space \notin kind
    PROVE  GatherKeeps(GatherAll(q), kind) = Carried(q, kind)
<1> DEFINE T == {r \in Seq(Utterance) : GatherKeeps(GatherAll(r), kind) = Carried(r, kind)}
<1>1. <<>> \in T
  <2>1. Ungathered.out = <<>> /\ Ungathered.open = <<>>
    BY DEF Ungathered
  <2>2. GatherKeeps(Ungathered, kind) = Behind(<<>>, <<>>)
    BY <2>1, CarriedNone, SaidNone DEF GatherKeeps
  <2>3. <<>> \in Seq(Chars) /\ <<>> \in Seq(Utterance)
    BY EmptySeq
  <2>4. Behind(<<>>, <<>>) = <<>>
    BY <2>3, BehindNone
  <2> QED BY <2>2, <2>3, <2>4, GatherAllNone, CarriedNone
<1>2. ASSUME NEW r \in Seq(Utterance), NEW c \in Utterance, r \in T PROVE Append(r, c) \in T
  <2>1. PICK state \in GatherState : state = GatherAll(r) /\ GatherKeeps(state, kind) = Carried(r, kind)
    BY <1>2, GatherAllFolds
  <2>2. GatherKeeps(Gather(state, c), kind) = Behind(Carried(r, kind), Said(c, kind))
    BY <2>1, GatherStepKeeps
  <2>3. Carried(Append(r, c), kind) = Behind(Carried(r, kind), Said(c, kind))
    BY FilledTexts, CarriedAppend DEF Utterance
  <2>4. GatherAll(Append(r, c)) = Gather(state, c) /\ Append(r, c) \in Seq(Utterance)
    BY <2>1, GatherAllAppend, AppendType
  <2> QED BY <2>2, <2>3, <2>4
<1>3. q \in T
  <2> HIDE DEF T
  <2> QED BY <1>1, <1>2, SeqSet
<1> QED
  BY <1>3

\* The sentences have something in them each.
LEMMA GatheredType ==
    ASSUME NEW q \in Seq(Utterance)
    PROVE  Gathered(q) \in Seq(Utterance)
<1>1. PICK state \in GatherState : state = GatherAll(q)
  BY GatherAllFolds
<1>2. PICK out \in Seq(Utterance), begun \in Seq(Chars) : out = state.out /\ begun = state.open
  BY DEF GatherState
<1>3. Gathered(q) = IF begun = <<>> THEN out ELSE Append(out, begun)
  BY <1>1, <1>2 DEF Gathered
<1>4. begun # <<>> => Append(out, begun) \in Seq(Utterance)
  <2>1. begun # <<>> => begun \in Utterance
    BY DEF Utterance
  <2> QED BY <2>1, AppendType
<1> QED
  BY <1>3, <1>4

\* They say what the pieces say.
LEMMA GatheredCarries ==
    ASSUME NEW q \in Seq(Utterance), NEW kind, Space \notin kind
    PROVE  Carried(Gathered(q), kind) = Carried(q, kind)
<1>1. PICK state \in GatherState : state = GatherAll(q)
  BY GatherAllFolds
<1>2. PICK out \in Seq(Utterance), begun \in Seq(Chars) :
        out = state.out /\ begun = state.open /\ out \in Seq(Seq(Chars))
  BY FilledTexts DEF GatherState
<1>3. Gathered(q) = IF begun = <<>> THEN out ELSE Append(out, begun)
  BY <1>1, <1>2 DEF Gathered
<1>4. Behind(Carried(out, kind), Said(begun, kind)) = Carried(q, kind)
  BY <1>1, <1>2, GatherAllKeeps DEF GatherKeeps
<1>5. CASE begun = <<>>
  <2>1. Behind(Carried(out, kind), <<>>) = Carried(out, kind)
    BY <1>2, CarriedType, BehindNone
  <2> QED BY <1>3, <1>4, <1>5, <2>1, SaidNone
<1>6. CASE begun # <<>>
  <2>1. Carried(Append(out, begun), kind) = Behind(Carried(out, kind), Said(begun, kind))
    BY <1>2, CarriedAppend
  <2> QED BY <1>3, <1>4, <1>6, <2>1
<1> QED BY <1>5, <1>6

\* The last sentence takes one more.
LEMMA TakesType ==
    ASSUME NEW out \in Seq(Utterance), out # <<>>, NEW s \in Utterance
    PROVE  /\ Takes(out, s) \in Seq(Utterance) /\ Takes(out, s) # <<>>
           /\ Front(Takes(out, s)) = Front(out) /\ Last(Takes(out, s)) = Join(Last(out), s)
<1>1. PICK front \in Seq(Utterance), last \in Utterance : front = Front(out) /\ last = Last(out)
  BY FrontLast
<1>2. PICK joined \in Utterance : joined = Join(last, s)
  BY JoinType DEF Utterance
<1>3. Takes(out, s) = Append(front, joined)
  BY <1>1, <1>2 DEF Takes
<1>4. Append(front, joined) \in Seq(Utterance) /\ Append(front, joined) # <<>>
  BY AppendProperties
<1>5. Front(Append(front, joined)) = front /\ Last(Append(front, joined)) = joined
  BY FrontLastAppend
<1> QED
  BY <1>1, <1>2, <1>3, <1>4, <1>5

\* It is said.
LEMMA TakesCarries ==
    ASSUME NEW out \in Seq(Utterance), out # <<>>, NEW s \in Utterance, NEW kind, Space \notin kind
    PROVE  Carried(Takes(out, s), kind) = Behind(Carried(out, kind), Said(s, kind))
<1>1. PICK front \in Seq(Utterance), last \in Utterance :
        front = Front(out) /\ last = Last(out) /\ out = Append(front, last)
  BY FrontLast
<1>2. PICK joined \in Utterance : joined = Join(last, s)
  BY JoinType DEF Utterance
<1>3. front \in Seq(Seq(Chars)) /\ last \in Seq(Chars) /\ s \in Seq(Chars) /\ joined \in Seq(Chars)
  BY FilledTexts DEF Utterance
<1>4. PICK a \in Seq(Chars) : a = Carried(front, kind)
  BY <1>3, CarriedType
<1>5. PICK b \in Seq(Chars) : b = Said(last, kind)
  BY <1>3, SaidType
<1>6. PICK c \in Seq(Chars) : c = Said(s, kind)
  BY <1>3, SaidType
<1>7. Said(joined, kind) = Behind(b, c)
  BY <1>2, <1>3, <1>5, <1>6, JoinSays
<1>8. Carried(Append(front, joined), kind) = Behind(a, Behind(b, c))
  BY <1>3, <1>4, <1>7, CarriedAppend
<1>9. Carried(out, kind) = Behind(a, b)
  <2>1. Carried(Append(front, last), kind) = Behind(Carried(front, kind), Said(last, kind))
    BY <1>3, CarriedAppend
  <2> QED BY <1>1, <1>4, <1>5, <2>1
<1>10. Behind(Behind(a, b), c) = Behind(a, Behind(b, c))
  BY BehindAssociates
<1>11. Takes(out, s) = Append(front, joined)
  BY <1>1, <1>2 DEF Takes
<1> QED
  BY <1>6, <1>8, <1>9, <1>10, <1>11

\* One sentence more is put behind or joined.
LEMMA MergeParts ==
    ASSUME NEW out, NEW s, NEW latin
    PROVE  \/ out # <<>> /\ Merge(out, s, latin) = Takes(out, s)
           \/ Merge(out, s, latin) = Append(out, s)
BY DEF Merge

\* They stay a list of sentences.
LEMMA MergeType ==
    ASSUME NEW out \in Seq(Utterance), NEW s \in Utterance, NEW latin
    PROVE  Merge(out, s, latin) \in Seq(Utterance)
<1>1. Append(out, s) \in Seq(Utterance)
  BY AppendType
<1>2. out # <<>> => Takes(out, s) \in Seq(Utterance)
  BY TakesType
<1> QED
  BY <1>1, <1>2, MergeParts

\* It is said.
LEMMA MergeCarries ==
    ASSUME NEW out \in Seq(Utterance), NEW s \in Utterance, NEW latin, NEW kind, Space \notin kind
    PROVE  Carried(Merge(out, s, latin), kind) = Behind(Carried(out, kind), Said(s, kind))
<1>1. Carried(Append(out, s), kind) = Behind(Carried(out, kind), Said(s, kind))
  BY FilledTexts, CarriedAppend DEF Utterance
<1>2. out # <<>> => Carried(Takes(out, s), kind) = Behind(Carried(out, kind), Said(s, kind))
  BY TakesCarries
<1> QED
  BY <1>1, <1>2, MergeParts

\* What MergeAll does with one sentence.
Merging(latin) == [s \in Utterance |-> [out \in Seq(Utterance) |-> Merge(out, s, latin)]]

\* MergeAll, sentence by sentence.
LEMMA MergeAllFolds ==
    ASSUME NEW s \in Seq(Utterance), NEW latin
    PROVE  Folds(MergeAll(s, latin), s, <<>>, Merging(latin)) /\ MergeAll(s, latin) \in Seq(Utterance)
<1> DEFINE L == Len(s)
           D == Seq(Utterance)
           Is(f) == f = [n \in 0 .. L |-> IF n = 0 THEN <<>> ELSE Merge(f[n - 1], s[n], latin)]
           merged == CHOOSE f : Is(f)
           step == Merging(latin)
<1>1. L \in Nat /\ \A n \in 1 .. L : s[n] \in Utterance
  BY LenProperties, ElementOfSeq
<1>2. \A c \in Utterance, d \in D : step[c][d] = Merge(d, c, latin)
  BY DEF Merging
<1>3. Closes(Utterance, D, <<>>, step)
  <2>1. <<>> \in D
    OBVIOUS
  <2>2. \A c \in Utterance, d \in D : step[c][d] \in D
    BY <1>2, MergeType
  <2> HIDE DEF step, D
  <2> QED BY <2>1, <2>2 DEF Closes
<1> HIDE DEF step, D
<1>4. \E f : Is(f)
  <2>1. PICK f : /\ f \in [0 .. L -> D] /\ f[0] = <<>>
                 /\ \A n \in 1 .. L : f[n] = step[s[n]][f[n - 1]]
    BY <1>3, FoldExists
  <2>2. ASSUME NEW n \in 0 .. L
        PROVE  f[n] = IF n = 0 THEN <<>> ELSE Merge(f[n - 1], s[n], latin)
    <3>1. CASE n # 0
      <4>1. n \in 1 .. L /\ n - 1 \in 0 .. L
        BY <1>1, <3>1
      <4>2. f[n - 1] \in D /\ s[n] \in Utterance /\ f[n] = step[s[n]][f[n - 1]]
        BY <1>1, <2>1, <4>1
      <4> QED BY <1>2, <3>1, <4>2
    <3> QED BY <2>1, <3>1
  <2>3. Is(f)
    BY <2>1, <2>2
  <2> HIDE DEF Is
  <2> QED BY <2>3
<1>5. Is(merged)
  <2> HIDE DEF Is
  <2> QED BY <1>4
<1>6. MergeAll(s, latin) = merged[L]
  BY DEF MergeAll
<1> HIDE DEF merged
<1>7. merged[0] = <<>>
  BY <1>1, <1>5
<1>8. ASSUME NEW n \in 1 .. L, merged[n - 1] \in D PROVE merged[n] = step[s[n]][merged[n - 1]]
  <2>1. n \in 0 .. L /\ n # 0 /\ s[n] \in Utterance
    BY <1>1
  <2>2. merged[n] = Merge(merged[n - 1], s[n], latin)
    BY <1>5, <2>1
  <2> HIDE DEF Is
  <2> QED BY <1>2, <1>8, <2>1, <2>2
<1> HIDE DEF Is
<1>9. Folds(merged[L], s, <<>>, step) /\ merged[L] \in D
  BY <1>3, <1>7, <1>8, FoldsGuarded
<1> QED
  BY <1>6, <1>9 DEF step, D

\* Of none.
LEMMA MergeAllNone == \A latin : MergeAll(<<>>, latin) = <<>>
<1> SUFFICES ASSUME NEW latin PROVE MergeAll(<<>>, latin) = <<>>
  OBVIOUS
<1>1. <<>> \in Seq(Utterance)
  OBVIOUS
<1>2. Folds(MergeAll(<<>>, latin), <<>>, <<>>, Merging(latin))
  BY <1>1, MergeAllFolds
<1> QED
  BY <1>2, FoldsNone

\* One sentence more.
LEMMA MergeAllAppend ==
    ASSUME NEW s \in Seq(Utterance), NEW c \in Utterance, NEW latin
    PROVE  MergeAll(Append(s, c), latin) = Merge(MergeAll(s, latin), c, latin)
<1>1. PICK t \in Seq(Utterance) : t = Append(s, c)
  BY AppendType
<1>2. Folds(MergeAll(s, latin), s, <<>>, Merging(latin)) /\ MergeAll(s, latin) \in Seq(Utterance)
  BY MergeAllFolds
<1>3. Folds(MergeAll(t, latin), t, <<>>, Merging(latin))
  BY MergeAllFolds
<1>4. MergeAll(t, latin) = Merging(latin)[c][MergeAll(s, latin)]
  BY <1>1, <1>2, <1>3, FoldsOne
<1> QED
  BY <1>1, <1>2, <1>4 DEF Merging

\* Nothing is lost between sentences.
LEMMA MergeAllCarries ==
    ASSUME NEW q \in Seq(Utterance), NEW latin, NEW kind, Space \notin kind
    PROVE  Carried(MergeAll(q, latin), kind) = Carried(q, kind)
<1> DEFINE T == {r \in Seq(Utterance) : Carried(MergeAll(r, latin), kind) = Carried(r, kind)}
<1>1. <<>> \in T
  <2>1. <<>> \in Seq(Utterance)
    OBVIOUS
  <2> QED BY <2>1, MergeAllNone
<1>2. ASSUME NEW r \in Seq(Utterance), NEW c \in Utterance, r \in T PROVE Append(r, c) \in T
  <2>1. PICK out \in Seq(Utterance) : out = MergeAll(r, latin) /\ Carried(out, kind) = Carried(r, kind)
    BY <1>2, MergeAllFolds
  <2>2. Carried(Merge(out, c, latin), kind) = Behind(Carried(r, kind), Said(c, kind))
    BY <2>1, MergeCarries
  <2>3. Carried(Append(r, c), kind) = Behind(Carried(r, kind), Said(c, kind))
    BY FilledTexts, CarriedAppend DEF Utterance
  <2>4. MergeAll(Append(r, c), latin) = Merge(out, c, latin) /\ Append(r, c) \in Seq(Utterance)
    BY <2>1, MergeAllAppend, AppendType
  <2> QED BY <2>2, <2>3, <2>4
<1>3. q \in T
  <2> HIDE DEF T
  <2> QED BY <1>1, <1>2, SeqSet
<1> QED
  BY <1>3

\* At the end the last sentence stays, or joins the one before.
LEMMA MergeShortParts ==
    ASSUME NEW q \in Seq(Utterance), NEW latin
    PROVE  \E m \in Seq(Utterance) :
              /\ m = MergeAll(q, latin)
              /\ \/ MergeShort(q, latin) = m /\ ~(Len(m) > 1 /\ Short(Last(m), latin))
                 \/ /\ MergeShort(q, latin) = Takes(Front(m), Last(m))
                    /\ Len(m) > 1 /\ m # <<>> /\ Front(m) # <<>>
                    /\ Front(m) \in Seq(Utterance) /\ Last(m) \in Utterance /\ m = Append(Front(m), Last(m))
<1>1. PICK m \in Seq(Utterance) : m = MergeAll(q, latin)
  BY MergeAllFolds
<1>2. CASE Len(m) > 1 /\ Short(Last(m), latin)
  <2>1. m # <<>>
    BY <1>2
  <2>2. /\ Front(m) \in Seq(Utterance) /\ Last(m) \in Utterance /\ m = Append(Front(m), Last(m))
        /\ Len(m) = Len(Front(m)) + 1
    BY <2>1, FrontLast
  <2>3. Front(m) # <<>>
    BY <1>2, <2>2
  <2>4. MergeShort(q, latin) = Takes(Front(m), Last(m))
    BY <1>1, <1>2 DEF MergeShort
  <2> QED BY <1>1, <1>2, <2>1, <2>2, <2>3, <2>4
<1>3. CASE ~(Len(m) > 1 /\ Short(Last(m), latin))
  <2>1. MergeShort(q, latin) = m
    BY <1>1, <1>3 DEF MergeShort
  <2> QED BY <1>1, <1>3, <2>1
<1> QED BY <1>2, <1>3

\* The sentences have something in them each.
LEMMA MergeShortType ==
    ASSUME NEW q \in Seq(Utterance), NEW latin
    PROVE  MergeShort(q, latin) \in Seq(Utterance)
<1>1. PICK m \in Seq(Utterance) :
        \/ MergeShort(q, latin) = m
        \/ /\ MergeShort(q, latin) = Takes(Front(m), Last(m))
           /\ Front(m) # <<>> /\ Front(m) \in Seq(Utterance) /\ Last(m) \in Utterance
  BY MergeShortParts
<1>2. CASE /\ MergeShort(q, latin) = Takes(Front(m), Last(m))
           /\ Front(m) # <<>> /\ Front(m) \in Seq(Utterance) /\ Last(m) \in Utterance
  <2>1. Takes(Front(m), Last(m)) \in Seq(Utterance)
    BY <1>2, TakesType
  <2> QED BY <1>2, <2>1
<1> QED
  BY <1>1, <1>2

\* They say what they said before.
LEMMA MergeShortCarries ==
    ASSUME NEW q \in Seq(Utterance), NEW latin, NEW kind, Space \notin kind
    PROVE  Carried(MergeShort(q, latin), kind) = Carried(q, kind)
<1>1. PICK m \in Seq(Utterance) :
              /\ m = MergeAll(q, latin)
              /\ \/ MergeShort(q, latin) = m /\ ~(Len(m) > 1 /\ Short(Last(m), latin))
                 \/ /\ MergeShort(q, latin) = Takes(Front(m), Last(m))
                    /\ Len(m) > 1 /\ m # <<>> /\ Front(m) # <<>>
                    /\ Front(m) \in Seq(Utterance) /\ Last(m) \in Utterance /\ m = Append(Front(m), Last(m))
  BY MergeShortParts
<1>2. Carried(m, kind) = Carried(q, kind)
  BY <1>1, MergeAllCarries
<1>3. CASE MergeShort(q, latin) = m
  BY <1>2, <1>3
<1>4. CASE /\ MergeShort(q, latin) = Takes(Front(m), Last(m))
           /\ Front(m) # <<>> /\ Front(m) \in Seq(Utterance) /\ Last(m) \in Utterance
           /\ m = Append(Front(m), Last(m))
  <2>1. PICK front \in Seq(Utterance), last \in Utterance :
          front = Front(m) /\ last = Last(m) /\ front # <<>> /\ m = Append(front, last)
    BY <1>4
  <2>2. Carried(Takes(front, last), kind) = Behind(Carried(front, kind), Said(last, kind))
    BY <2>1, TakesCarries
  <2>3. Carried(m, kind) = Behind(Carried(front, kind), Said(last, kind))
    <3>1. front \in Seq(Seq(Chars)) /\ last \in Seq(Chars)
      BY FilledTexts DEF Utterance
    <3>2. Carried(Append(front, last), kind) = Behind(Carried(front, kind), Said(last, kind))
      BY <3>1, CarriedAppend
    <3> QED BY <2>1, <3>2
  <2> QED BY <1>2, <1>4, <2>1, <2>2, <2>3
<1> QED BY <1>1, <1>3, <1>4

\* A sentence that is not short.
Lasting == {s \in Utterance : Len(s) > 2}

\* While they are merged all but the last are long.
LEMMA MergeAllLong ==
    ASSUME NEW q \in Seq(Utterance), NEW latin, ~latin
    PROVE  MergeAll(q, latin) # <<>> => Front(MergeAll(q, latin)) \in Seq(Lasting)
<1> DEFINE Mostly(m) == m # <<>> => Front(m) \in Seq(Lasting)
           T == {r \in Seq(Utterance) : Mostly(MergeAll(r, latin))}
<1>1. <<>> \in T
  <2>1. <<>> \in Seq(Utterance)
    OBVIOUS
  <2> QED BY <2>1, MergeAllNone
<1>2. ASSUME NEW r \in Seq(Utterance), NEW c \in Utterance, r \in T PROVE Append(r, c) \in T
  <2>1. PICK out \in Seq(Utterance) : out = MergeAll(r, latin) /\ Mostly(out)
    BY <1>2, MergeAllFolds
  <2>2. MergeAll(Append(r, c), latin) = Merge(out, c, latin) /\ Append(r, c) \in Seq(Utterance)
    BY <2>1, MergeAllAppend, AppendType
  <2>3. Mostly(Merge(out, c, latin))
    <3>1. CASE out = <<>>
      <4>1. Merge(out, c, latin) = Append(out, c)
        BY <3>1 DEF Merge
      <4>2. Front(Append(out, c)) = <<>>
        BY <3>1, FrontLastAppend
      <4>3. <<>> \in Seq(Lasting)
        OBVIOUS
      <4> QED BY <4>1, <4>2, <4>3
    <3>2. CASE out # <<>> /\ Short(Last(out), latin)
      <4>1. Merge(out, c, latin) = Takes(out, c)
        BY <3>2 DEF Merge
      <4>2. Front(Takes(out, c)) = Front(out)
        BY <3>2, TakesType
      <4> QED BY <2>1, <3>2, <4>1, <4>2
    <3>3. CASE out # <<>> /\ ~Short(Last(out), latin)
      <4>1. Merge(out, c, latin) = Append(out, c)
        BY <3>3 DEF Merge
      <4>2. PICK front \in Seq(Utterance), last \in Utterance : front = Front(out) /\ last = Last(out) /\ out = Append(front, last)
        BY <3>3, FrontLast
      <4>3. front \in Seq(Lasting)
        BY <2>1, <3>3, <4>2
      <4>4. last \in Lasting
        <5>1. Len(last) \in Nat /\ ~(Len(last) <= 2)
          BY <3>3, <4>2, LenProperties DEF Short, Utterance
        <5> QED BY <5>1 DEF Lasting
      <4>5. out \in Seq(Lasting)
        BY <4>2, <4>3, <4>4, AppendType
      <4>6. Front(Append(out, c)) = out
        BY FrontLastAppend
      <4> QED BY <4>1, <4>5, <4>6
    <3> QED BY <3>1, <3>2, <3>3
  <2> HIDE DEF Mostly
  <2> QED BY <2>2, <2>3
<1>3. q \in T
  <2> HIDE DEF T
  <2> QED BY <1>1, <1>2, SeqSet
<1> QED
  BY <1>3

\* At the end all are long, or there is at most one.
LEMMA MergeShortLong ==
    ASSUME NEW q \in Seq(Utterance), NEW latin, ~latin
    PROVE  MergeShort(q, latin) \in Seq(Lasting) \/ Len(MergeShort(q, latin)) <= 1
<1>1. PICK m \in Seq(Utterance) :
              /\ m = MergeAll(q, latin)
              /\ \/ MergeShort(q, latin) = m /\ ~(Len(m) > 1 /\ Short(Last(m), latin))
                 \/ /\ MergeShort(q, latin) = Takes(Front(m), Last(m))
                    /\ Len(m) > 1 /\ m # <<>> /\ Front(m) # <<>>
                    /\ Front(m) \in Seq(Utterance) /\ Last(m) \in Utterance /\ m = Append(Front(m), Last(m))
  BY MergeShortParts
<1>2. Len(m) \in Nat
  BY LenProperties
<1>3. m # <<>> => Front(m) \in Seq(Lasting)
  BY <1>1, MergeAllLong
<1>4. CASE MergeShort(q, latin) = m /\ ~(Len(m) > 1 /\ Short(Last(m), latin))
  <2>1. CASE ~(Len(m) > 1)
    BY <1>2, <1>4, <2>1
  <2>2. CASE Len(m) > 1 /\ ~Short(Last(m), latin)
    <3>1. m # <<>>
      BY <2>2
    <3>2. PICK front \in Seq(Utterance), last \in Utterance : front = Front(m) /\ last = Last(m) /\ m = Append(front, last)
      BY <3>1, FrontLast
    <3>3. front \in Seq(Lasting)
      BY <1>3, <3>1, <3>2
    <3>4. last \in Lasting
      <4>1. Len(last) \in Nat /\ ~(Len(last) <= 2)
        BY <2>2, <3>2, LenProperties DEF Short, Utterance
      <4> QED BY <4>1 DEF Lasting
    <3>5. m \in Seq(Lasting)
      BY <3>2, <3>3, <3>4, AppendType
    <3> QED BY <1>4, <3>5
  <2> QED BY <1>4, <2>1, <2>2
<1>5. CASE /\ MergeShort(q, latin) = Takes(Front(m), Last(m))
           /\ m # <<>> /\ Front(m) # <<>> /\ Last(m) \in Utterance
  <2>1. PICK front \in Seq(Lasting), last \in Utterance : front = Front(m) /\ last = Last(m) /\ front # <<>>
    BY <1>3, <1>5
  <2>2. PICK before \in Seq(Lasting), long \in Lasting : before = Front(front) /\ long = Last(front)
    BY <2>1, FrontLast
  <2>3. PICK joined \in Utterance : joined = Join(long, last) /\ Len(joined) = Len(long) + 1 + Len(last)
    BY JoinType DEF Lasting, Utterance
  <2>4. joined \in Lasting
    <3>1. Len(long) \in Nat /\ Len(last) \in Nat /\ Len(long) > 2
      BY LenProperties DEF Lasting, Utterance
    <3> QED BY <2>3, <3>1 DEF Lasting
  <2>5. Append(before, joined) \in Seq(Lasting)
    BY <2>4, AppendType
  <2>6. Takes(front, last) = Append(before, joined)
    BY <2>2, <2>3 DEF Takes
  <2> QED BY <1>5, <2>1, <2>5, <2>6
<1> QED BY <1>1, <1>4, <1>5

\* Who is kept twice is kept once.
LEMMA OnlyOfOnly ==
    ASSUME NEW S, NEW s \in Seq(S), NEW more, NEW kind, kind \subseteq more
    PROVE  Only(Only(s, more), kind) = Only(s, kind)
<1> DEFINE T == {r \in Seq(S) : Only(Only(r, more), kind) = Only(r, kind)}
<1>1. <<>> \in T
  <2>1. <<>> \in Seq(S)
    OBVIOUS
  <2> QED BY <2>1, OnlyNone
<1>2. ASSUME NEW r \in Seq(S), NEW c \in S, r \in T PROVE Append(r, c) \in T
  <2>1. PICK a \in Seq(S) : a = Only(r, more) /\ Only(a, kind) = Only(r, kind)
    BY <1>2, OnlyFolds
  <2>2. Only(Append(r, c), more) = IF c \in more THEN Append(a, c) ELSE a
    BY <2>1, OnlyAppend
  <2>3. Only(Append(r, c), kind) = IF c \in kind THEN Append(Only(r, kind), c) ELSE Only(r, kind)
    BY OnlyAppend
  <2>4. Only(Append(a, c), kind) = IF c \in kind THEN Append(Only(a, kind), c) ELSE Only(a, kind)
    BY OnlyAppend
  <2>5. Append(r, c) \in Seq(S)
    BY AppendType
  <2> QED BY <2>1, <2>2, <2>3, <2>4, <2>5
<1>3. s \in T
  <2> HIDE DEF T
  <2> QED BY <1>1, <1>2, SeqSet
<1> QED
  BY <1>3

\* Of a letter that is written with a byte of a bracket something else is left.
LEMMA EraseInType ==
    ASSUME NEW c \in Chars
    PROVE  /\ EraseIn(c) \in Chars
           /\ c \notin Fragile => EraseIn(c) = c
           /\ c \in Fragile => EraseIn(c) \in Broken
<1>1. {"u-", "zz-"} \subseteq Chars /\ Broken = {"u-", "zz-"} /\ Fragile = {"u^", "zz"}
  BY Zenon DEF Chars, Broken, Fragile
<1> QED
  BY <1>1, SMT DEF EraseIn

\* A text without the bytes of a bracket.
LEMMA EraseMaps ==
    /\ [c \in Chars |-> EraseIn(c)] \in [Chars -> Chars]
    /\ \A s \in Seq(Chars) : [i \in DOMAIN s |-> EraseIn(s[i])] = Mapped(s, [c \in Chars |-> EraseIn(c)])
<1>1. \A c \in Chars : EraseIn(c) \in Chars
  BY EraseInType
<1>2. ASSUME NEW s \in Seq(Chars)
      PROVE  [i \in DOMAIN s |-> EraseIn(s[i])] = Mapped(s, [c \in Chars |-> EraseIn(c)])
  <2>1. \A i \in DOMAIN s : s[i] \in Chars
    BY LenProperties, ElementOfSeq
  <2> QED BY <2>1 DEF Mapped
<1> QED
  BY <1>1, <1>2

\* It keeps what is written without such a byte.
LEMMA EraseKeeps ==
    ASSUME NEW s \in Seq(Chars), NEW kind, kind \cap (Fragile \cup Broken) = {}
    PROVE  /\ [i \in DOMAIN s |-> EraseIn(s[i])] \in Seq(Chars)
           /\ Only([i \in DOMAIN s |-> EraseIn(s[i])], kind) = Only(s, kind)
<1>1. PICK g \in [Chars -> Chars] : /\ g = [c \in Chars |-> EraseIn(c)]
                                    /\ \A r \in Seq(Chars) : [i \in DOMAIN r |-> EraseIn(r[i])] = Mapped(r, g)
  BY EraseMaps
<1>6. \A r \in Seq(Chars), c \in Chars : Mapped(Append(r, c), g) = Append(Mapped(r, g), g[c])
  BY MappedAppend, ZenonT(40)
<1> DEFINE T == {r \in Seq(Chars) : Only(Mapped(r, g), kind) = Only(r, kind)}
<1>2. <<>> \in T
  <2>1. <<>> \in Seq(Chars)
    OBVIOUS
  <2> QED BY <2>1, MappedNone
<1>3. ASSUME NEW r \in Seq(Chars), NEW c \in Chars, r \in T PROVE Append(r, c) \in T
  <2>1. PICK a \in Seq(Chars) : a = Mapped(r, g)
    BY MappedType
  <2>2. PICK d \in Chars : d = g[c] /\ d = EraseIn(c)
    BY <1>1
  <2>3. PICK b \in Seq(Chars) : b = Only(r, kind) /\ b = Only(a, kind)
    <3>1. Only(r, kind) \in Seq(Chars)
      BY OnlyFolds
    <3> QED BY <1>3, <2>1, <3>1
  <2>4. Mapped(Append(r, c), g) = Append(a, d)
    <3>1. Mapped(Append(r, c), g) = Append(Mapped(r, g), g[c])
      BY <1>6
    <3> QED BY <2>1, <2>2, <3>1
  <2>5. Only(Append(a, d), kind) = IF d \in kind THEN Append(b, d) ELSE b
    BY <2>3, OnlyAppend
  <2>6. Only(Append(r, c), kind) = IF c \in kind THEN Append(b, c) ELSE b
    <3>1. Only(Append(r, c), kind) = IF c \in kind THEN Append(Only(r, kind), c) ELSE Only(r, kind)
      BY OnlyAppend
    <3> QED BY <2>3, <3>1
  <2>7. CASE c \in Fragile
    <3>1. c \notin kind /\ d \notin kind
      BY <2>2, <2>7, EraseInType
    <3> QED BY <2>4, <2>5, <2>6, <3>1, AppendType
  <2>8. CASE c \notin Fragile
    <3>1. d = c
      BY <2>2, <2>8, EraseInType
    <3> QED BY <2>4, <2>5, <2>6, <3>1, AppendType
  <2> QED BY <2>7, <2>8
<1>4. s \in T
  <2> HIDE DEF T
  <2> QED BY <1>2, <1>3, SeqSet
<1>5. Mapped(s, g) \in Seq(Chars)
  BY MappedType
<1> QED
  BY <1>1, <1>4, <1>5

\* The characters a text is cut at.
LEMMA MarkTypes == {Space, "cut", ".", Comma, "!"} \subseteq Chars
BY Zenon DEF Chars, Punctuation

\* Of a run of blanks nothing is lost but blanks.
LEMMA SqueezeSays ==
    ASSUME NEW s \in Seq(Chars), NEW kind, Space \notin kind
    PROVE  Squeeze(s) \in Seq(Chars) /\ Said(Squeeze(s), kind) = Said(s, kind)
<1> DEFINE run == CHOOSE run : run = [n \in 0 .. Len(s) |->
                     IF n = 0 THEN 0 ELSE IF s[n] = Space THEN run[n - 1] + 1 ELSE 0]
           places == {n \in DOMAIN s : s[n] # Space \/ run[n] % 2 = 1}
<1>1. Squeeze(s) = Taken(s, places)
  BY DEF Squeeze
<1> HIDE DEF run
<1>2. \A n \in 1 .. Len(s) : n \notin places => s[n] \notin kind
  <2>1. ASSUME NEW n \in 1 .. Len(s), n \notin places PROVE s[n] \notin kind
    <3>1. n \in DOMAIN s
      <4> HIDE DEF places
      <4> QED BY LenProperties
    <3>2. s[n] = Space
      BY <2>1, <3>1
    <3> QED BY <3>2
  <2> QED BY <2>1
<1> HIDE DEF places
<1> QED
  BY <1>1, <1>2, SaidOfTaken

\* A character with a mark behind says what it says alone.
LEMMA MarkedSays ==
    ASSUME NEW char \in Chars, NEW c \in Chars, NEW kind, Space \notin kind, "cut" \notin kind
    PROVE  Marked(char, c) \in Seq(Chars) /\ Said(Marked(char, c), kind) = Said(<<char>>, kind)
<1>1. PICK cut \in Chars : cut = "cut"
  BY MarkTypes
<1>2. ASSUME NEW x \in Chars
      PROVE  <<x, Space, cut>> \in Seq(Chars) /\ Said(<<x, Space, cut>>, kind) = Said(<<x>>, kind)
  <2>1. PICK one \in Seq(Chars) : one = <<x>>
    <3>1. <<x>> \in Seq(Chars)
      OBVIOUS
    <3> QED BY <3>1, Zenon
  <2>2. PICK two \in Seq(Chars) : two = Append(one, Space)
    BY SpaceType, AppendType
  <2>3. PICK three \in Seq(Chars) : three = Append(two, cut)
    BY AppendType
  <2>4. Said(two, kind) = Said(one, kind)
    BY <2>2, SpaceType, SaidAppend
  <2>5. Said(three, kind) = Said(two, kind)
    BY <1>1, <2>3, SaidAppend
  <2>6. three = <<x, Space, cut>>
    <3>1. Len(one) = 1 /\ one[1] = x
      BY <2>1
    <3>2. Len(two) = 2 /\ two[2] = Space /\ two[1] = x
      <4>1. Len(two) = Len(one) + 1 /\ two[Len(one) + 1] = Space /\ \A i \in 1 .. Len(one) : two[i] = one[i]
        BY <2>2, SpaceType, AppendProperties
      <4> QED BY <3>1, <4>1
    <3>3. Len(three) = 3 /\ three[3] = cut /\ three[2] = Space /\ three[1] = x
      <4>1. Len(three) = Len(two) + 1 /\ three[Len(two) + 1] = cut /\ \A i \in 1 .. Len(two) : three[i] = two[i]
        BY <2>3, AppendProperties
      <4> QED BY <3>2, <4>1
    <3>4. PICK t : t = <<x, Space, cut>>
      OBVIOUS
    <3>5. t \in Seq(Chars) /\ Len(t) = 3 /\ t[1] = x /\ t[2] = Space /\ t[3] = cut
      BY <3>4, SpaceType
    <3>6. \A i \in 1 .. 3 : three[i] = t[i]
      BY <3>3, <3>5
    <3> QED BY <3>3, <3>4, <3>5, <3>6, SeqEqual
  <2> QED BY <2>1, <2>4, <2>5, <2>6
<1>3. <<char>> \in Seq(Chars)
  OBVIOUS
<1> QED
  BY <1>1, <1>2, <1>3 DEF Marked

\* The marks say nothing.
LEMMA MarkAfterSays ==
    ASSUME NEW s \in Seq(Chars), NEW c \in Chars, NEW kind, Space \notin kind, "cut" \notin kind
    PROVE  MarkAfter(s, c) \in Seq(Chars) /\ Said(MarkAfter(s, c), kind) = Said(s, kind)
<1> DEFINE g == [char \in Chars |-> Marked(char, c)]
<1>1. g \in [Chars -> Seq(Chars)]
  BY MarkedSays
<1>2. \A char \in Chars : Said(g[char], kind) = Said(<<char>>, kind)
  BY MarkedSays
<1>3. MarkAfter(s, c) = FlattenSeq(Mapped(s, g))
  <2>1. \A i \in DOMAIN s : s[i] \in Chars
    BY LenProperties, ElementOfSeq
  <2>2. [i \in DOMAIN s |-> Marked(s[i], c)] = Mapped(s, g)
    BY <2>1 DEF Mapped
  <2> HIDE DEF g
  <2> QED BY <2>2 DEF MarkAfter
<1> HIDE DEF g
<1> DEFINE T == {r \in Seq(Chars) : Carried(Mapped(r, g), kind) = Said(r, kind)}
<1>4. <<>> \in T
  <2>1. <<>> \in Seq(Chars)
    OBVIOUS
  <2> QED BY <2>1, MappedNone, CarriedNone, SaidNone
<1>5. ASSUME NEW r \in Seq(Chars), NEW d \in Chars, r \in T PROVE Append(r, d) \in T
  <2>1. PICK q \in Seq(Seq(Chars)) : q = Mapped(r, g) /\ Carried(q, kind) = Said(r, kind)
    BY <1>1, <1>5, MappedType
  <2>2. PICK x \in Seq(Chars) : x = g[d] /\ Said(x, kind) = Said(<<d>>, kind)
    BY <1>1, <1>2
  <2>3. Mapped(Append(r, d), g) = Append(q, x)
    <3>1. Mapped(Append(r, d), g) = Append(Mapped(r, g), g[d])
      BY <1>1, MappedAppend, ZenonT(40)
    <3> QED BY <2>1, <2>2, <3>1
  <2>4. Carried(Append(q, x), kind) = Behind(Said(r, kind), Said(<<d>>, kind))
    BY <2>1, <2>2, CarriedAppend
  <2>5. PICK one \in Seq(Chars) : one = <<d>>
    <3>1. <<d>> \in Seq(Chars)
      OBVIOUS
    <3> QED BY <3>1, Zenon
  <2>6. Said(Behind(r, one), kind) = Behind(Said(r, kind), Said(one, kind))
    BY SaidBehind
  <2>7. Append(r, d) = Behind(r, one) /\ Append(r, d) \in Seq(Chars)
    BY <2>5, BehindOne, AppendType
  <2> QED BY <2>3, <2>4, <2>5, <2>6, <2>7
<1>6. s \in T
  <2> HIDE DEF T
  <2> QED BY <1>4, <1>5, SeqSet
<1>7. Mapped(s, g) \in Seq(Seq(Chars))
  BY <1>1, MappedType
<1>8. FlattenSeq(Mapped(s, g)) \in Seq(Chars)
  BY <1>7, FlattenFolds
<1> QED
  BY <1>3, <1>6, <1>8 DEF Carried

\* A word is one of small latin letters, or a single other character.
Small == {"a", "b"}
LatinWord == Seq(Small) \ {<<>>}
WideWord == {<<c>> : c \in WideLetters}
SoundingWord == LatinWord \cup WideWord
LoneWord == {<<c>> : c \in Chars \ LatinLetters}
EnglishWord == LatinWord \cup LoneWord

\* The letters are different characters.
LEMMA Letters ==
    /\ Small \subseteq LatinLetters /\ LatinLetters \subseteq Chars /\ WideLetters \subseteq Chars
    /\ LatinLetters \cap WideLetters = {} /\ Small \cap WideLetters = {}
    /\ \A c \in LatinLetters : Lower(c) \in Small
    /\ \A c \in Chars \ LatinLetters : Lower(c) = c
    /\ \A c \in Small \cup WideLetters : NarrowOne(c) = c
<1>1. Small \subseteq LatinLetters /\ LatinLetters \subseteq Chars /\ WideLetters \subseteq Chars
  BY Zenon DEF Small, LatinLetters, WideLetters, Chars
<1>2. LatinLetters \cap WideLetters = {} /\ Small \cap WideLetters = {}
  BY SMT DEF Small, LatinLetters, WideLetters
<1>3. \A c \in LatinLetters : Lower(c) \in Small
  BY SMT DEF Small, LatinLetters, Lower
<1>4. \A c \in Chars \ LatinLetters : Lower(c) = c
  BY SMT DEF LatinLetters, Lower
<1>5. \A c \in Small \cup WideLetters : NarrowOne(c) = c
  BY SMT DEF Small, WideLetters, NarrowOne
<1> QED
  BY <1>1, <1>2, <1>3, <1>4, <1>5, Zenon

\* The first character tells a latin word.
LEMMA LatinByFirst ==
    ASSUME NEW w \in EnglishWord
    PROVE  (w[1] \in LatinLetters <=> w \in LatinWord) /\ w # <<>>
<1>1. CASE w \in LatinWord
  <2>1. w \in Seq(Small) /\ w # <<>>
    BY <1>1 DEF LatinWord
  <2>2. 1 \in 1 .. Len(w)
    <3>1. Len(w) \in Nat /\ Len(w) # 0
      BY <2>1, LenProperties, EmptySeq
    <3> QED BY <3>1
  <2>3. w[1] \in Small
    BY <2>1, <2>2, ElementOfSeq
  <2> QED BY <1>1, <2>1, <2>3, Letters
<1>2. CASE w \in LoneWord
  <2>1. PICK c \in Chars \ LatinLetters : w = <<c>>
    BY <1>2 DEF LoneWord
  <2>2. w[1] = c /\ w # <<>>
    BY <2>1
  <2> QED BY <1>1, <2>1, <2>2
<1> QED BY <1>1, <1>2 DEF EnglishWord

\* A wide word is a lone one and no latin one.
LEMMA WideWords == WideWord \subseteq LoneWord /\ LatinWord \cap LoneWord = {}
<1>1. WideWord \subseteq LoneWord
  BY Letters DEF WideWord, LoneWord
<1>2. ASSUME NEW w \in LatinWord, w \in LoneWord PROVE FALSE
  <2>1. w[1] \in LatinLetters
    BY LatinByFirst DEF EnglishWord
  <2>2. PICK c \in Chars \ LatinLetters : w = <<c>>
    BY <1>2 DEF LoneWord
  <2>3. w[1] = c
    BY <2>2
  <2> QED BY <2>1, <2>2, <2>3
<1> QED BY <1>1, <1>2

\* The last word grows by c.
Grows(words, c) == words # <<>> /\ Last(words) \in LatinWord /\ c \in LatinLetters

\* What is put at the end.
LEMMA AddToParts ==
    ASSUME NEW words \in Seq(EnglishWord), NEW c \in Chars
    PROVE  /\ Grows(words, c) =>
                \E w \in LatinWord : AddTo(words, c) = Append(Front(words), w)
           /\ ~Grows(words, c) /\ c \in LatinLetters =>
                \E w \in LatinWord : AddTo(words, c) = Append(words, w)
           /\ c \notin LatinLetters => AddTo(words, c) = Append(words, <<c>>)
<1>1. PICK grows \in BOOLEAN : grows <=> words # <<>> /\ {c, Last(words)[1]} \subseteq LatinLetters
  OBVIOUS
<1>2. grows <=> Grows(words, c)
  <2>1. CASE words = <<>>
    BY <1>1, <2>1 DEF Grows
  <2>2. CASE words # <<>>
    <3>1. Last(words) \in EnglishWord
      BY <2>2, FrontLast
    <3>2. Last(words)[1] \in LatinLetters <=> Last(words) \in LatinWord
      BY <3>1, LatinByFirst
    <3> QED BY <1>1, <2>2, <3>2 DEF Grows
  <2> QED BY <2>1, <2>2
<1>3. AddTo(words, c) = IF grows THEN Append(Front(words), Append(Last(words), Lower(c)))
                        ELSE Append(words, <<Lower(c)>>)
  BY <1>1 DEF AddTo
<1>4. ASSUME Grows(words, c) PROVE \E w \in LatinWord : AddTo(words, c) = Append(Front(words), w)
  <2>1. PICK last \in Seq(Small) : last = Last(words)
    BY <1>4 DEF Grows, LatinWord
  <2>2. PICK d \in Small : d = Lower(c)
    BY <1>4, Letters DEF Grows
  <2>3. PICK w \in Seq(Small) : w = Append(last, d) /\ w # <<>>
    <3>1. Append(last, d) \in Seq(Small) /\ Append(last, d) # <<>>
      BY AppendProperties
    <3> QED BY <3>1, Zenon
  <2>4. AddTo(words, c) = Append(Front(words), w)
    BY <1>2, <1>3, <1>4, <2>1, <2>2, <2>3
  <2> QED BY <2>3, <2>4 DEF LatinWord
<1>5. ASSUME ~Grows(words, c), c \in LatinLetters PROVE \E w \in LatinWord : AddTo(words, c) = Append(words, w)
  <2>1. PICK d \in Small : d = Lower(c)
    BY <1>5, Letters
  <2>2. <<d>> \in Seq(Small) /\ <<d>> # <<>>
    OBVIOUS
  <2>3. AddTo(words, c) = Append(words, <<d>>)
    BY <1>2, <1>3, <1>5, <2>1
  <2> QED BY <2>2, <2>3 DEF LatinWord
<1>6. ASSUME c \notin LatinLetters PROVE AddTo(words, c) = Append(words, <<c>>)
  <2>1. Lower(c) = c
    BY <1>6, Letters
  <2>2. ~Grows(words, c)
    BY <1>6 DEF Grows
  <2> QED BY <1>2, <1>3, <2>1, <2>2
<1> QED
  BY <1>4, <1>5, <1>6

\* It stays a list of words.
LEMMA AddToType ==
    ASSUME NEW words \in Seq(EnglishWord), NEW c \in Chars
    PROVE  AddTo(words, c) \in Seq(EnglishWord)
<1>1. \A w \in LatinWord : w \in EnglishWord
  BY DEF EnglishWord
<1>2. CASE Grows(words, c)
  <2>1. PICK w \in LatinWord : AddTo(words, c) = Append(Front(words), w)
    BY <1>2, AddToParts
  <2>2. Front(words) \in Seq(EnglishWord)
    BY <1>2, FrontLast DEF Grows
  <2> QED BY <1>1, <2>1, <2>2, AppendType
<1>3. CASE ~Grows(words, c) /\ c \in LatinLetters
  <2>1. PICK w \in LatinWord : AddTo(words, c) = Append(words, w)
    BY <1>3, AddToParts
  <2> QED BY <1>1, <2>1, AppendType
<1>4. CASE c \notin LatinLetters
  <2>1. <<c>> \in EnglishWord
    BY <1>4 DEF EnglishWord, LoneWord
  <2> QED BY <1>4, <2>1, AddToParts, AppendType
<1> QED BY <1>2, <1>3, <1>4

\* What MergeEnglish does with one character.
Wording == [c \in Chars |-> [words \in Seq(EnglishWord) |-> AddTo(words, c)]]

\* MergeEnglish, character by character.
LEMMA MergeEnglishFolds ==
    ASSUME NEW s \in Seq(Chars)
    PROVE  Folds(MergeEnglish(s), s, <<>>, Wording) /\ MergeEnglish(s) \in Seq(EnglishWord)
<1> DEFINE L == Len(s)
           D == Seq(EnglishWord)
           Is(f) == f = [n \in 0 .. L |-> IF n = 0 THEN <<>> ELSE AddTo(f[n - 1], s[n])]
           words == CHOOSE f : Is(f)
           step == Wording
<1>1. L \in Nat /\ \A n \in 1 .. L : s[n] \in Chars
  BY LenProperties, ElementOfSeq
<1>2. \A c \in Chars, d \in D : step[c][d] = AddTo(d, c)
  BY DEF Wording
<1>3. Closes(Chars, D, <<>>, step)
  <2>1. <<>> \in D
    OBVIOUS
  <2>2. \A c \in Chars, d \in D : step[c][d] \in D
    BY <1>2, AddToType
  <2> HIDE DEF step, D
  <2> QED BY <2>1, <2>2 DEF Closes
<1> HIDE DEF step, D
<1>4. \E f : Is(f)
  <2>1. PICK f : /\ f \in [0 .. L -> D] /\ f[0] = <<>>
                 /\ \A n \in 1 .. L : f[n] = step[s[n]][f[n - 1]]
    BY <1>3, FoldExists
  <2>2. ASSUME NEW n \in 0 .. L
        PROVE  f[n] = IF n = 0 THEN <<>> ELSE AddTo(f[n - 1], s[n])
    <3>1. CASE n # 0
      <4>1. n \in 1 .. L /\ n - 1 \in 0 .. L
        BY <1>1, <3>1
      <4>2. f[n - 1] \in D /\ s[n] \in Chars /\ f[n] = step[s[n]][f[n - 1]]
        BY <1>1, <2>1, <4>1
      <4> QED BY <1>2, <3>1, <4>2
    <3> QED BY <2>1, <3>1
  <2>3. Is(f)
    BY <2>1, <2>2
  <2> HIDE DEF Is
  <2> QED BY <2>3
<1>5. Is(words)
  <2> HIDE DEF Is
  <2> QED BY <1>4
<1>6. MergeEnglish(s) = words[L]
  BY DEF MergeEnglish
<1> HIDE DEF words
<1>7. words[0] = <<>>
  BY <1>1, <1>5
<1>8. ASSUME NEW n \in 1 .. L, words[n - 1] \in D PROVE words[n] = step[s[n]][words[n - 1]]
  <2>1. n \in 0 .. L /\ n # 0 /\ s[n] \in Chars
    BY <1>1
  <2>2. words[n] = AddTo(words[n - 1], s[n])
    BY <1>5, <2>1
  <2> HIDE DEF Is
  <2> QED BY <1>2, <1>8, <2>1, <2>2
<1> HIDE DEF Is
<1>9. Folds(words[L], s, <<>>, step) /\ words[L] \in D
  BY <1>3, <1>7, <1>8, FoldsGuarded
<1> QED
  BY <1>6, <1>9 DEF step, D

\* No characters, no words.
LEMMA MergeEnglishNone == MergeEnglish(<<>>) = <<>>
<1>1. <<>> \in Seq(Chars)
  OBVIOUS
<1>2. Folds(MergeEnglish(<<>>), <<>>, <<>>, Wording)
  BY <1>1, MergeEnglishFolds
<1> QED
  BY <1>2, FoldsNone

\* One character more.
LEMMA MergeEnglishAppend ==
    ASSUME NEW s \in Seq(Chars), NEW c \in Chars
    PROVE  MergeEnglish(Append(s, c)) = AddTo(MergeEnglish(s), c)
<1>1. PICK t \in Seq(Chars) : t = Append(s, c)
  BY AppendType
<1>2. Folds(MergeEnglish(s), s, <<>>, Wording) /\ MergeEnglish(s) \in Seq(EnglishWord)
  BY MergeEnglishFolds
<1>3. Folds(MergeEnglish(t), t, <<>>, Wording)
  BY MergeEnglishFolds
<1>4. MergeEnglish(t) = Wording[c][MergeEnglish(s)]
  BY <1>1, <1>2, <1>3, FoldsOne
<1> QED
  BY <1>1, <1>2, <1>4 DEF Wording

\* The text ends within a latin word.
EndsLatin(s) == s # <<>> /\ Last(s) \in LatinLetters

\* c is the first character of a word that is heard.
Starts(s, c) == c \in LatinLetters \cup WideLetters /\ ~(EndsLatin(s) /\ c \in LatinLetters)

\* What is kept of two lists is as long as what is kept of each.
LEMMA OnlyLength ==
    ASSUME NEW S, NEW s \in Seq(S), NEW t \in Seq(S), NEW kind
    PROVE  Len(Only(Behind(s, t), kind)) = Len(Only(s, kind)) + Len(Only(t, kind))
<1>1. PICK a \in Seq(S) : a = Only(s, kind)
  BY OnlyFolds
<1>2. PICK b \in Seq(S) : b = Only(t, kind)
  BY OnlyFolds
<1>3. Only(Behind(s, t), kind) = a \o b
  <2>1. Only(Behind(s, t), kind) = Behind(Only(s, kind), Only(t, kind))
    BY OnlyBehind
  <2> QED BY <1>1, <1>2, <2>1 DEF Behind
<1>4. Len(a \o b) = Len(a) + Len(b)
  BY ConcatProperties
<1> QED
  BY <1>1, <1>2, <1>3, <1>4

\* Of a list that has one, something is kept.
LEMMA OnlySome ==
    ASSUME NEW S, NEW s \in Seq(S), NEW kind, NEW x \in kind, NEW i \in 1 .. Len(s), s[i] = x
    PROVE  Len(Only(s, kind)) >= 1
<1> DEFINE T == {r \in Seq(S) : \A j \in 1 .. Len(r) : r[j] \in kind => Len(Only(r, kind)) >= 1}
<1>1. <<>> \in T
  OBVIOUS
<1>2. ASSUME NEW r \in Seq(S), NEW c \in S, r \in T PROVE Append(r, c) \in T
  <2>1. PICK t \in Seq(S) : t = Append(r, c)
    BY AppendType
  <2>2. PICK L \in Nat : L = Len(r)
    BY LenProperties
  <2>3. Len(t) = L + 1 /\ t[L + 1] = c /\ \A j \in 1 .. L : t[j] = r[j]
    BY <2>1, <2>2, AppendProperties
  <2>4. PICK kept \in Seq(S) : kept = Only(r, kind)
    BY OnlyFolds
  <2>5. Only(t, kind) = IF c \in kind THEN Append(kept, c) ELSE kept
    BY <2>1, <2>4, OnlyAppend
  <2>6. Len(Append(kept, c)) = Len(kept) + 1 /\ Len(kept) \in Nat
    BY AppendProperties, LenProperties
  <2>7. \A j \in 1 .. L : r[j] \in kind => Len(kept) >= 1
    BY <1>2, <2>2, <2>4
  <2>8. ASSUME NEW j \in 1 .. L + 1, t[j] \in kind PROVE Len(Only(t, kind)) >= 1
    <3>1. CASE c \in kind
      BY <2>5, <2>6, <3>1
    <3>2. CASE c \notin kind
      <4>1. j # L + 1
        BY <2>3, <2>8, <3>2
      <4>2. j \in 1 .. L
        BY <4>1
      <4>3. r[j] \in kind
        BY <2>3, <2>8, <4>2
      <4> QED BY <2>5, <2>7, <3>2, <4>2, <4>3
    <3> QED BY <3>1, <3>2
  <2> QED BY <2>1, <2>3, <2>8
<1>3. s \in T
  <2> HIDE DEF T
  <2> QED BY <1>1, <1>2, SeqSet
<1> QED
  BY <1>3

\* Of a list that is all of the kind, everything is kept.
LEMMA OnlyAll ==
    ASSUME NEW S, NEW s \in Seq(S)
    PROVE  Only(s, S) = s
<1> DEFINE T == {r \in Seq(S) : Only(r, S) = r}
<1>1. <<>> \in T
  <2>1. <<>> \in Seq(S)
    OBVIOUS
  <2> QED BY <2>1, OnlyNone
<1>2. ASSUME NEW r \in Seq(S), NEW c \in S, r \in T PROVE Append(r, c) \in T
  <2>1. Only(Append(r, c), S) = Append(Only(r, S), c)
    BY OnlyAppend
  <2>2. Only(r, S) = r /\ Append(r, c) \in Seq(S)
    BY <1>2, AppendType
  <2> QED BY <2>1, <2>2
<1>3. s \in T
  <2> HIDE DEF T
  <2> QED BY <1>1, <1>2, SeqSet
<1> QED
  BY <1>3

\* Every element of some kind is heard in what g makes of it.
Heard(g, S, V, some, kind) ==
    /\ g \in [S -> Seq(V)] /\ some \subseteq S
    /\ \A x \in some : Len(Only(g[x], kind)) >= 1

\* As many are heard as there are of the kind.
LEMMA MappedHeard ==
    ASSUME NEW S, NEW V, NEW some, NEW kind, NEW g, Heard(g, S, V, some, kind), NEW s \in Seq(S)
    PROVE  /\ FlattenSeq(Mapped(s, g)) \in Seq(V)
           /\ Len(Only(FlattenSeq(Mapped(s, g)), kind)) >= Len(Only(s, some))
<1>1. g \in [S -> Seq(V)] /\ some \subseteq S /\ \A x \in some : Len(Only(g[x], kind)) >= 1
  BY DEF Heard
<1> DEFINE T == {r \in Seq(S) : Len(Only(FlattenSeq(Mapped(r, g)), kind)) >= Len(Only(r, some))}
<1>2. <<>> \in T
  <2>1. <<>> \in Seq(S)
    OBVIOUS
  <2>2. FlattenSeq(Mapped(<<>>, g)) = <<>>
    BY MappedNone, FlattenNone
  <2>3. Only(<<>>, kind) = <<>> /\ Only(<<>>, some) = <<>>
    BY OnlyNone
  <2>4. Len(<<>>) >= Len(<<>>)
    OBVIOUS
  <2> QED BY <2>1, <2>2, <2>3, <2>4
<1>3. ASSUME NEW r \in Seq(S), NEW c \in S, r \in T PROVE Append(r, c) \in T
  <2>1. PICK q \in Seq(Seq(V)) : q = Mapped(r, g)
    BY <1>1, MappedType
  <2>2. PICK x \in Seq(V) : x = g[c]
    BY <1>1
  <2>3. Mapped(Append(r, c), g) = Append(q, x)
    <3>1. Mapped(Append(r, c), g) = Append(Mapped(r, g), g[c])
      BY <1>1, MappedAppend, ZenonT(40)
    <3> QED BY <2>1, <2>2, <3>1
  <2>4. PICK all \in Seq(V) : all = FlattenSeq(q)
    BY FlattenFolds
  <2>5. FlattenSeq(Append(q, x)) = Behind(all, x)
    BY <2>4, FlattenAppend
  <2>6. Len(Only(Behind(all, x), kind)) = Len(Only(all, kind)) + Len(Only(x, kind))
    BY OnlyLength
  <2>7. PICK kept \in Seq(S) : kept = Only(r, some)
    BY OnlyFolds
  <2>8. Only(Append(r, c), some) = IF c \in some THEN Append(kept, c) ELSE kept
    BY <2>7, OnlyAppend
  <2>9. Len(Append(kept, c)) = Len(kept) + 1 /\ Len(kept) \in Nat
    BY AppendProperties, LenProperties
  <2>10. Len(Only(all, kind)) \in Nat /\ Len(Only(x, kind)) \in Nat
    BY OnlyFolds, LenProperties
  <2>11. c \in some => Len(Only(x, kind)) >= 1
    BY <1>1, <2>2
  <2>12. Len(Only(all, kind)) >= Len(kept)
    BY <1>3, <2>1, <2>4, <2>7
  <2>13. Len(Only(Behind(all, x), kind)) >= Len(Only(Append(r, c), some))
    BY <2>6, <2>8, <2>9, <2>10, <2>11, <2>12
  <2>14. Append(r, c) \in Seq(S)
    BY AppendType
  <2> QED BY <2>3, <2>5, <2>13, <2>14
<1>4. s \in T
  <2> HIDE DEF T
  <2> QED BY <1>2, <1>3, SeqSet
<1>5. Mapped(s, g) \in Seq(Seq(V))
  BY <1>1, MappedType
<1> QED
  BY <1>4, <1>5, FlattenFolds

\* The blank is one sound.
LEMMA BlankSound == Blank \in Seq(Nat) /\ Blank[1] \in Nat
<1>1. Blank \in Seq(Nat) /\ Len(Blank) = 1
  BY LexiconAssumption DEF Blank
<1>2. 1 \in 1 .. Len(Blank)
  BY <1>1
<1> QED
  BY <1>1, <1>2, ElementOfSeq

\* What can be heard.
Sound == Nat \ {Blank[1]}

\* appendLexiconToken for a word as it stands.
Listed(w) == IF w \in DOMAIN Lexicon THEN Lexicon[w] ELSE Blank

\* It sounds.
LEMMA ListedType == \A w : Listed(w) \in Seq(Nat)
BY BlankSound, LexiconAssumption DEF Listed

\* A listed word of letters is heard.
LEMMA ListedHeard ==
    ASSUME NEW w \in Seq(LatinLetters \cup WideLetters), w # <<>>, w \in DOMAIN Lexicon
    PROVE  Len(Only(Listed(w), Sound)) >= 1
<1>1. PICK p \in Seq(Nat) : p = Lexicon[w] /\ p = Listed(w)
  BY LexiconAssumption DEF Listed
<1>2. Range(w) \subseteq LatinLetters \cup WideLetters
  <2>1. \A i \in DOMAIN w : w[i] \in LatinLetters \cup WideLetters
    BY LenProperties, ElementOfSeq
  <2> QED BY <2>1 DEF Range
<1>3. PICK sound \in Range(Lexicon[w]) : sound # Lexicon[<<Space>>][1]
  BY <1>2, LexiconAssumption
<1>4. PICK i \in DOMAIN p : sound = p[i]
  BY <1>1, <1>3 DEF Range
<1>5. i \in 1 .. Len(p)
  BY LenProperties
<1>6. p[i] \in Nat
  BY <1>5, ElementOfSeq
<1>7. sound \in Sound
  BY <1>3, <1>4, <1>6 DEF Sound, Blank
<1> QED
  BY <1>1, <1>4, <1>5, <1>7, OnlySome

\* What a word is spelled with.
Spelled == [c \in Chars |-> Listed(<<c>>)]

\* appendLexiconToken takes the word as it stands, or spells it.
LEMMA PhonesParts ==
    ASSUME NEW w \in Seq(Chars)
    PROVE  PhonesOf(w) = IF Narrow(w) \in DOMAIN Lexicon \/ Len(w) = 1 THEN Listed(Narrow(w))
                         ELSE FlattenSeq(Mapped(w, Spelled))
<1>1. \A i \in DOMAIN w : w[i] \in Chars
  BY LenProperties, ElementOfSeq
<1>2. [i \in DOMAIN w |-> Listed(<<w[i]>>)] = Mapped(w, Spelled)
  BY <1>1 DEF Mapped, Spelled
<1>3. PhonesOf(w) = IF Narrow(w) \in DOMAIN Lexicon \/ Len(w) = 1 THEN Listed(Narrow(w))
                    ELSE FlattenSeq([i \in DOMAIN w |-> Listed(<<w[i]>>)])
  BY DEF PhonesOf, Listed
<1> QED
  BY <1>2, <1>3

\* Every word is a text.
LEMMA WordsAreTexts == EnglishWord \subseteq Seq(Chars)
<1>1. ASSUME NEW w \in LatinWord PROVE w \in Seq(Chars)
  <2>1. Small \subseteq Chars
    BY Letters
  <2> QED BY <2>1, SeqMonotonic DEF LatinWord
<1>2. ASSUME NEW w \in LoneWord PROVE w \in Seq(Chars)
  <2>1. PICK c \in Chars : w = <<c>>
    BY DEF LoneWord
  <2>2. <<c>> \in Seq(Chars)
    OBVIOUS
  <2> QED BY <2>1, <2>2
<1> QED BY <1>1, <1>2 DEF EnglishWord

\* A spelled character sounds, a letter is heard.
LEMMA SpelledHeard == Heard(Spelled, Chars, Nat, Small \cup WideLetters, Sound)
<1>1. Spelled \in [Chars -> Seq(Nat)]
  <2>1. \A c \in Chars : Listed(<<c>>) \in Seq(Nat)
    BY ListedType
  <2> QED BY <2>1 DEF Spelled
<1>2. Small \cup WideLetters \subseteq Chars
  BY Letters
<1>3. ASSUME NEW c \in Small \cup WideLetters PROVE Len(Only(Spelled[c], Sound)) >= 1
  <2>1. <<c>> \in DOMAIN Lexicon
    BY LexiconAssumption DEF Small
  <2>2. <<c>> \in Seq(LatinLetters \cup WideLetters) /\ <<c>> # <<>>
    <3>1. c \in LatinLetters \cup WideLetters
      BY Letters
    <3> QED BY <3>1
  <2>3. Len(Only(Listed(<<c>>), Sound)) >= 1
    BY <2>1, <2>2, ListedHeard
  <2>4. Spelled[c] = Listed(<<c>>)
    BY <1>2 DEF Spelled
  <2> QED BY <2>3, <2>4
<1> QED
  BY <1>1, <1>2, <1>3 DEF Heard

\* What a word is read as.
Read == [w \in EnglishWord |-> PhonesOf(w)]

\* Every word sounds.
LEMMA PhonesType ==
    ASSUME NEW w \in EnglishWord
    PROVE  PhonesOf(w) \in Seq(Nat)
<1>1. w \in Seq(Chars)
  BY WordsAreTexts
<1>2. FlattenSeq(Mapped(w, Spelled)) \in Seq(Nat)
  BY <1>1, SpelledHeard, MappedHeard
<1> QED
  BY <1>1, <1>2, PhonesParts, ListedType

\* A word of letters is heard.
LEMMA PhonesHeard ==
    ASSUME NEW w \in SoundingWord
    PROVE  Len(Only(PhonesOf(w), Sound)) >= 1
<1> DEFINE L == Small \cup WideLetters
<1>1. w \in Seq(L) /\ w # <<>>
  <2>1. CASE w \in LatinWord
    <3>1. w \in Seq(Small) /\ w # <<>> /\ Small \subseteq L
      BY <2>1 DEF LatinWord
    <3> HIDE DEF L
    <3> QED BY <3>1, SeqMonotonic
  <2>2. CASE w \in WideWord
    <3>1. PICK c \in WideLetters : w = <<c>>
      BY <2>2 DEF WideWord
    <3>2. c \in L
      OBVIOUS
    <3> HIDE DEF L
    <3> QED BY <3>1, <3>2
  <2> QED BY <2>1, <2>2 DEF SoundingWord
<1>2. L \subseteq Chars /\ L \subseteq LatinLetters \cup WideLetters /\ \A c \in L : NarrowOne(c) = c
  BY Letters
<1>3. Heard(Spelled, Chars, Nat, L, Sound)
  BY SpelledHeard
<1>4. \A c \in L : <<c>> \in DOMAIN Lexicon
  BY LexiconAssumption DEF Small
<1> HIDE DEF L
<1>5. w \in Seq(Chars) /\ w \in Seq(LatinLetters \cup WideLetters)
  BY <1>1, <1>2, SeqMonotonic
<1>6. Narrow(w) = w
  <2>1. \A i \in DOMAIN w : w[i] \in L
    BY <1>1, LenProperties, ElementOfSeq
  <2>2. \A i \in DOMAIN w : NarrowOne(w[i]) = w[i]
    BY <1>2, <2>1
  <2>3. w = [i \in DOMAIN w |-> w[i]]
    BY <1>1, LenProperties
  <2> QED BY <2>2, <2>3 DEF Narrow
<1>7. CASE w \in DOMAIN Lexicon
  <2>1. PhonesOf(w) = Listed(w)
    BY <1>5, <1>6, <1>7, PhonesParts
  <2> QED BY <1>1, <1>5, <1>7, <2>1, ListedHeard
<1>8. CASE w \notin DOMAIN Lexicon
  <2>1. Len(w) \in Nat /\ Len(w) # 0
    BY <1>1, LenProperties, EmptySeq
  <2>2. Len(w) # 1
    <3>1. SUFFICES ASSUME Len(w) = 1 PROVE FALSE
      OBVIOUS
    <3>2. 1 \in 1 .. Len(w)
      BY <3>1
    <3>3. PICK c \in L : c = w[1]
      BY <1>1, <3>2, ElementOfSeq
    <3>4. PICK one \in Seq(L) : one = <<c>> /\ Len(one) = 1 /\ one[1] = c
      <4>1. <<c>> \in Seq(L) /\ Len(<<c>>) = 1 /\ <<c>>[1] = c
        OBVIOUS
      <4> QED BY <4>1
    <3>5. \A i \in 1 .. 1 : w[i] = one[i]
      BY <3>3, <3>4
    <3>6. w = one
      BY <1>1, <3>1, <3>4, <3>5, SeqEqual
    <3> QED BY <1>4, <1>8, <3>4, <3>6
  <2>3. PhonesOf(w) = FlattenSeq(Mapped(w, Spelled))
    BY <1>5, <1>6, <1>8, <2>2, PhonesParts
  <2>4. Len(Only(FlattenSeq(Mapped(w, Spelled)), Sound)) >= Len(Only(w, L))
    BY <1>3, <1>5, MappedHeard
  <2>5. Only(w, L) = w
    BY <1>1, OnlyAll
  <2>6. Len(Only(PhonesOf(w), Sound)) \in Nat
    <3>1. PhonesOf(w) \in Seq(Nat)
      BY <1>3, <1>5, <2>3, MappedHeard
    <3> QED BY <3>1, OnlyFolds, LenProperties
  <2> QED BY <2>1, <2>3, <2>4, <2>5, <2>6
<1> QED BY <1>7, <1>8

\* Read hears every word of letters.
LEMMA ReadHeard == Heard(Read, EnglishWord, Nat, SoundingWord, Sound)
<1>1. Read \in [EnglishWord -> Seq(Nat)]
  BY PhonesType DEF Read
<1>2. SoundingWord \subseteq EnglishWord
  BY WideWords DEF SoundingWord, EnglishWord
<1>3. \A w \in SoundingWord : Len(Only(Read[w], Sound)) >= 1
  BY <1>2, PhonesHeard DEF Read
<1> QED
  BY <1>1, <1>2, <1>3 DEF Heard

\* Apart the sounds there are blanks.
LEMMA IntersperseIs ==
    ASSUME NEW all \in Seq(Nat)
    PROVE  /\ Len(Intersperse(all)) = 2 * Len(all) + 1
           /\ \A k \in 1 .. 2 * Len(all) + 1 : Intersperse(all)[k] = IF k % 2 = 0 THEN all[k \div 2] ELSE 0
<1> DEFINE L == Len(all)
           M == 2 * L + 1
<1>1. L \in Nat /\ M \in Nat
  BY LenProperties
<1>2. \A k \in 1 .. M : k % 2 = 0 => k \div 2 \in 1 .. L
  BY <1>1
<1>3. \A k \in 1 .. M : (IF k % 2 = 0 THEN all[k \div 2] ELSE 0) \in Nat
  BY <1>2, ElementOfSeq
<1>4. Intersperse(all) = [k \in 1 .. M |-> IF k % 2 = 0 THEN all[k \div 2] ELSE 0]
  BY DEF Intersperse
<1> HIDE DEF M
<1>5. Len([k \in 1 .. M |-> IF k % 2 = 0 THEN all[k \div 2] ELSE 0]) = M
  BY <1>1, <1>3, IsASeq
<1>6. \A k \in 1 .. M : Intersperse(all)[k] = IF k % 2 = 0 THEN all[k \div 2] ELSE 0
  BY <1>4
<1> QED
  BY <1>4, <1>5, <1>6 DEF M

\* The lists of one element each, put together.
LEMMA FlattenOnes ==
    ASSUME NEW S, NEW s \in Seq(S)
    PROVE  FlattenSeq([n \in DOMAIN s |-> <<s[n]>>]) = s
<1>1. PICK one \in [S -> Seq(S)] : one = [c \in S |-> <<c>>]
  <2>1. \A c \in S : <<c>> \in Seq(S)
    OBVIOUS
  <2> QED BY <2>1
<1>2. [n \in DOMAIN s |-> <<s[n]>>] = Mapped(s, one)
  <2>1. \A n \in DOMAIN s : s[n] \in S
    BY LenProperties, ElementOfSeq
  <2> QED BY <1>1, <2>1 DEF Mapped
<1> DEFINE T == {r \in Seq(S) : FlattenSeq(Mapped(r, one)) = r}
<1>3. <<>> \in T
  <2>1. <<>> \in Seq(S)
    OBVIOUS
  <2> QED BY <2>1, MappedNone, FlattenNone
<1>4. ASSUME NEW r \in Seq(S), NEW c \in S, r \in T PROVE Append(r, c) \in T
  <2>1. PICK q \in Seq(Seq(S)) : q = Mapped(r, one)
    BY MappedType
  <2>2. PICK x \in Seq(S) : x = one[c] /\ x = <<c>>
    BY <1>1
  <2>3. Mapped(Append(r, c), one) = Append(q, x)
    BY <2>1, <2>2, MappedAppend
  <2>4. FlattenSeq(Append(q, x)) = Behind(r, x)
    <3>1. FlattenSeq(q) = r
      BY <1>4, <2>1
    <3> QED BY <3>1, FlattenAppend
  <2>5. Behind(r, x) = Append(r, c)
    BY <2>2 DEF Behind
  <2> QED BY <2>3, <2>4, <2>5, AppendType
<1>5. s \in T
  <2> HIDE DEF T
  <2> QED BY <1>3, <1>4, SeqSet
<1> QED
  BY <1>2, <1>5

\* What splitEachChar makes of a text are characters.
LEMMA EachCharType ==
    ASSUME NEW s \in Seq(Chars)
    PROVE  SplitEachChar(s) \in Seq(Chars)
<1> DEFINE run == CHOOSE run : run = [n \in 0 .. Len(s) |->
                     IF n = 0 THEN 0 ELSE IF s[n] \in Broken THEN run[n - 1] + 1 ELSE 0]
           eaten(n) == n > 1 /\ s[n - 1] \in Broken /\ run[n - 1] % 2 = 1
           parts == [n \in DOMAIN s |-> IF eaten(n) THEN Rest(s[n]) ELSE <<s[n]>>]
<1>1. SplitEachChar(s) = FlattenSeq(parts)
  BY DEF SplitEachChar
<1>2. PICK L \in Nat : L = Len(s) /\ DOMAIN s = 1 .. L /\ \A n \in 1 .. L : s[n] \in Chars
  BY LenProperties, ElementOfSeq
<1>3. "byte" \in Chars
  BY Zenon DEF Chars
<1>4. \A c \in Chars : Rest(c) \in Seq(Chars) /\ <<c>> \in Seq(Chars)
  BY <1>3 DEF Rest
<1> HIDE DEF eaten
<1>5. \A n \in 1 .. L : (IF eaten(n) THEN Rest(s[n]) ELSE <<s[n]>>) \in Seq(Chars)
  BY <1>2, <1>4
<1>6. parts \in Seq(Seq(Chars))
  <2>1. parts = [n \in 1 .. L |-> IF eaten(n) THEN Rest(s[n]) ELSE <<s[n]>>]
    BY <1>2
  <2> QED BY <1>5, <2>1, IsASeq
<1> HIDE DEF parts
<1> QED
  BY <1>1, <1>6, FlattenFolds

\* A text in which no character is broken is read as it is.
LEMMA WholeIsRead ==
    ASSUME NEW s \in Seq(Chars), Broken \cap Range(s) = {}
    PROVE  SplitEachChar(s) = s
<1> DEFINE run == CHOOSE run : run = [n \in 0 .. Len(s) |->
                     IF n = 0 THEN 0 ELSE IF s[n] \in Broken THEN run[n - 1] + 1 ELSE 0]
           eaten(n) == n > 1 /\ s[n - 1] \in Broken /\ run[n - 1] % 2 = 1
<1>1. SplitEachChar(s) = FlattenSeq([n \in DOMAIN s |-> IF eaten(n) THEN Rest(s[n]) ELSE <<s[n]>>])
  BY DEF SplitEachChar
<1>2. PICK L \in Nat : L = Len(s) /\ DOMAIN s = 1 .. L
  BY LenProperties
<1>3. \A n \in DOMAIN s : s[n] \notin Broken
  BY DEF Range
<1>4. \A n \in DOMAIN s : ~eaten(n)
  <2>1. ASSUME NEW n \in DOMAIN s PROVE ~(n > 1 /\ s[n - 1] \in Broken)
    <3>1. n > 1 => n - 1 \in DOMAIN s
      BY <1>2
    <3> QED BY <1>3, <3>1
  <2> QED BY <2>1
<1> HIDE DEF eaten
<1>5. [n \in DOMAIN s |-> IF eaten(n) THEN Rest(s[n]) ELSE <<s[n]>>] = [n \in DOMAIN s |-> <<s[n]>>]
  BY <1>4
<1> QED
  BY <1>1, <1>5, FlattenOnes

\* The places of the sounds of a list once there are blanks between them.
PlacesOf(all) == {k \in 1 .. 2 * Len(all) + 1 : k % 2 = 0 /\ all[k \div 2] # Blank[1]}

\* They are as many as the sounds.
LEMMA PlacesCounted ==
    ASSUME NEW all \in Seq(Nat)
    PROVE  IsFiniteSet(PlacesOf(all)) /\ Cardinality(PlacesOf(all)) = Len(Only(all, Sound))
<1> DEFINE Same(r) == IsFiniteSet(PlacesOf(r)) /\ Cardinality(PlacesOf(r)) = Len(Only(r, Sound))
           T == {r \in Seq(Nat) : Same(r)}
<1>1. <<>> \in T
  <2>1. <<>> \in Seq(Nat) /\ Len(<<>>) = 0
    OBVIOUS
  <2>2. PlacesOf(<<>>) = {}
    BY <2>1 DEF PlacesOf
  <2>3. Only(<<>>, Sound) = <<>>
    BY OnlyNone
  <2> QED BY <2>1, <2>2, <2>3, FS_EmptySet
<1>2. ASSUME NEW r \in Seq(Nat), NEW c \in Nat, r \in T PROVE Append(r, c) \in T
  <2>1. PICK t \in Seq(Nat) : t = Append(r, c)
    BY AppendType
  <2>2. PICK L \in Nat : L = Len(r)
    BY LenProperties
  <2>3. Len(t) = L + 1 /\ t[L + 1] = c /\ \A i \in 1 .. L : t[i] = r[i]
    BY <2>1, <2>2, AppendProperties
  <2>4. PICK kept \in Seq(Nat) : kept = Only(r, Sound)
    BY OnlyFolds
  <2>5. Only(t, Sound) = IF c \in Sound THEN Append(kept, c) ELSE kept
    BY <2>1, <2>4, OnlyAppend
  <2>6. Len(Append(kept, c)) = Len(kept) + 1
    BY AppendProperties
  <2>7. c \in Sound <=> c # Blank[1]
    BY DEF Sound
  <2>8. PICK P \in SUBSET (1 .. 2 * L + 1) :
            P = PlacesOf(r) /\ IsFiniteSet(P) /\ Cardinality(P) = Len(kept)
    BY <1>2, <2>2, <2>4 DEF PlacesOf
  <2>9. PlacesOf(t) = IF c # Blank[1] THEN P \cup {2 * (L + 1)} ELSE P
    <3>1. ASSUME NEW k \in 1 .. 2 * (L + 1) + 1
          PROVE  k \in PlacesOf(t) <=> k \in P \/ (k = 2 * (L + 1) /\ c # Blank[1])
      <4>1. k \in PlacesOf(t) <=> k % 2 = 0 /\ t[k \div 2] # Blank[1]
        BY <2>3 DEF PlacesOf
      <4>2. CASE k \in 1 .. 2 * L + 1
        <5>1. k \in P <=> k % 2 = 0 /\ r[k \div 2] # Blank[1]
          BY <2>2, <2>8, <4>2 DEF PlacesOf
        <5>2. k % 2 = 0 => k \div 2 \in 1 .. L
          BY <4>2
        <5>3. k # 2 * (L + 1)
          BY <4>2
        <5> QED BY <2>3, <4>1, <5>1, <5>2, <5>3
      <4>3. CASE k = 2 * (L + 1)
        <5>1. k % 2 = 0 /\ k \div 2 = L + 1
          BY <4>3
        <5> QED BY <2>3, <2>8, <4>1, <4>3, <5>1
      <4>4. CASE k = 2 * (L + 1) + 1
        <5>1. k % 2 # 0
          BY <4>4
        <5>2. k \notin 1 .. 2 * L + 1 /\ k # 2 * (L + 1)
          BY <4>4
        <5>3. k \notin P
          BY <2>8, <5>2
        <5> QED BY <4>1, <5>1, <5>2, <5>3
      <4>5. k \in 1 .. 2 * L + 1 \/ k = 2 * (L + 1) \/ k = 2 * (L + 1) + 1
        OBVIOUS
      <4> QED BY <4>2, <4>3, <4>4, <4>5
    <3>2. PlacesOf(t) \subseteq 1 .. 2 * (L + 1) + 1
      BY <2>3 DEF PlacesOf
    <3>3. P \subseteq 1 .. 2 * (L + 1) + 1 /\ 2 * (L + 1) \in 1 .. 2 * (L + 1) + 1
      BY <2>2
    <3> QED BY <3>1, <3>2, <3>3
  <2>10. 2 * (L + 1) \notin P
    BY <2>8
  <2>11. Same(t)
    <3>1. CASE c \in Sound
      <4>1. IsFiniteSet(P \cup {2 * (L + 1)}) /\ Cardinality(P \cup {2 * (L + 1)}) = Cardinality(P) + 1
        BY <2>8, <2>10, FS_AddElement
      <4> QED BY <2>5, <2>6, <2>7, <2>8, <2>9, <3>1, <4>1
    <3>2. CASE c \notin Sound
      BY <2>5, <2>7, <2>8, <2>9, <3>2
    <3> QED BY <3>1, <3>2
  <2> QED BY <2>1, <2>11
<1>3. all \in T
  <2> HIDE DEF T
  <2> QED BY <1>1, <1>2, SeqSet
<1> QED
  BY <1>3

-----------------------------------------------------------------------------
(* What is configured: signs, lines, sections and what is around a quotation *)

\* The signs are told apart.
Signs == {White, SingleQuote, DoubleQuote, Backslash, Hash, KeyEnd, ElementEnd, ListBegin, ListEnd}

\* Every sign is a sign of its own.
LEMMA SignsDiffer ==
    /\ White # SingleQuote /\ White # DoubleQuote /\ White # Backslash /\ White # Hash /\ White # KeyEnd
    /\ White # ElementEnd /\ White # ListBegin /\ White # ListEnd
    /\ SingleQuote # DoubleQuote /\ SingleQuote # Hash /\ SingleQuote # ElementEnd /\ SingleQuote # ListBegin
    /\ DoubleQuote # Backslash /\ DoubleQuote # Hash /\ DoubleQuote # ElementEnd /\ DoubleQuote # ListBegin
    /\ DoubleQuote # KeyEnd /\ Hash # KeyEnd /\ Hash # ElementEnd /\ Hash # ListBegin /\ Hash # ListEnd
    /\ KeyEnd # ElementEnd /\ SingleQuote # ListEnd /\ DoubleQuote # ListEnd
    /\ KeyEnd # SingleQuote
BY Zenon DEF White, SingleQuote, DoubleQuote, Backslash, Hash, KeyEnd, ElementEnd, ListBegin, ListEnd

\* What a line is written with.
Glyphs == STRING \cup Signs \cup {"x"}

\* The sign of a comment's text is none.
LEMMA RemarkGlyphs == "x" \in Glyphs /\ Signs \subseteq Glyphs
BY DEF Glyphs

\* The greatest of a set is known when it is seen.
LEMMA MaxIs ==
    ASSUME NEW A \in SUBSET Int, NEW x \in A, \A y \in A : y <= x
    PROVE  Max(A) = x
<1>1. \A z \in A : (\A y \in A : z >= y) => z = x
  OBVIOUS
<1>2. \A y \in A : x >= y
  OBVIOUS
<1> QED BY <1>1, <1>2 DEF Max

\* So is the least.
LEMMA MinIs ==
    ASSUME NEW A \in SUBSET Int, NEW x \in A, \A y \in A : x <= y
    PROVE  Min(A) = x
<1>1. \A z \in A : (\A y \in A : z <= y) => z = x
  OBVIOUS
<1> QED BY <1>1 DEF Min

\* A file of L lines.
IsFile(lines, L) == L \in Nat /\ DOMAIN lines = 1 .. L /\ \A n \in 1 .. L : lines[n].indent \in Nat

\* The node a text stands for, and a line.
ScalarNode(text) ==
    IF IsNumber(text) THEN Node("Number", <<>>, ToNumber(text), <<>>) ELSE Node("String", text, Zero, <<>>)

NodeOf(line) ==
    CASE line.form = "scalar" -> ScalarNode(line.value[1].text)
      [] line.form = "list"   -> Node("Array", <<>>, Zero, [i \in DOMAIN line.value |-> ScalarNode(line.value[i].text)])
      [] OTHER                -> Node("Object", <<>>, Zero, <<>>)

\* w is read as what line says.
LineReadAs(w, line) ==
    IF line.form = "remark" THEN Colon(w) = 0
    ELSE /\ Colon(w) # 0 /\ Indent(w) = line.indent /\ Key(w) = <<line.key>>
         /\ Val(w) = <<>> <=> line.form = "section"
         /\ line.form # "section" => ParseValue(Val(w)) = NodeOf(line)

\* What the stack is made of.
Spots(path, L) == {[path |-> path[m], indent |-> d] : m \in 0 .. L, d \in Int}

\* The part of the stack that a line as deep as d leaves.
Leaves(stack, d, K) ==
    /\ K \in 1 .. Len(stack) /\ Enclosing(stack, d) = SubSeq(stack, 1, K)
    /\ K >= 2 => stack[K].indent < d
    /\ \A k \in K + 1 .. Len(stack) : ~(stack[k].indent < d)

\* There is one.
LEMMA SomeLeft ==
    ASSUME NEW S, NEW stack \in Seq(S), Len(stack) >= 1, NEW d
    PROVE  \E K : Leaves(stack, d, K)
<1> DEFINE open == {k \in DOMAIN stack : k = 1 \/ stack[k].indent < d}
<1>1. Len(stack) \in Nat /\ DOMAIN stack = 1 .. Len(stack)
  BY LenProperties
<1>2. open \in SUBSET Int /\ open # {} /\ Len(stack) \in Int /\ \A k \in open : k <= Len(stack)
  BY <1>1
<1>3. Max(open) \in open /\ \A k \in open : k <= Max(open)
  <2> HIDE DEF open
  <2> QED BY <1>2, GreatestOfSet
<1>4. PICK K \in open : K = Max(open)
  BY <1>3
<1>5. Enclosing(stack, d) = SubSeq(stack, 1, K)
  BY <1>4 DEF Enclosing
<1>6. K \in 1 .. Len(stack) /\ (K >= 2 => stack[K].indent < d)
  BY <1>1
<1>7. ASSUME NEW k \in K + 1 .. Len(stack) PROVE ~(stack[k].indent < d)
  <2>1. k \in DOMAIN stack /\ ~(k <= K)
    BY <1>1, <1>6
  <2>2. k \notin open
    BY <1>3, <1>4, <2>1
  <2> QED BY <2>1, <2>2
<1> QED BY <1>5, <1>6, <1>7 DEF Leaves

\* What LoadLine does with an entry.
EntryLoaded(next, state, left, here, line) ==
    /\ line.form = "section" => next.stack = Append(left, [path |-> here, indent |-> line.indent])
    /\ line.form # "section" => next.stack = left
    /\ DOMAIN next.tree = DOMAIN state.tree \cup {here}
    /\ \A p \in DOMAIN next.tree : next.tree[p] = IF p = here THEN NodeOf(line) ELSE state.tree[p]

\* It does.
LEMMA LoadLineIs ==
    ASSUME NEW state, NEW w, NEW line, LineReadAs(w, line), line.form # "remark",
           NEW left, left = Enclosing(state.stack, line.indent),
           NEW here, here = Append(left[Len(left)].path, <<line.key>>)
    PROVE  EntryLoaded(LoadLine(state, w), state, left, here, line)
<1>1. /\ Colon(w) # 0 /\ Indent(w) = line.indent /\ Key(w) = <<line.key>>
      /\ Val(w) = <<>> <=> line.form = "section"
      /\ line.form # "section" => ParseValue(Val(w)) = NodeOf(line)
  BY DEF LineReadAs
<1>2. (IF Val(w) = <<>> THEN Node("Object", <<>>, Zero, <<>>) ELSE ParseValue(Val(w))) = NodeOf(line)
  <2>1. line.form = "section" => NodeOf(line) = Node("Object", <<>>, Zero, <<>>)
    BY DEF NodeOf
  <2> QED BY <1>1, <2>1
<1>3. PICK next, top : next = LoadLine(state, w) /\ top = [path |-> here, indent |-> line.indent]
  OBVIOUS
<1>4. PICK more : more = Append(left, top)
  OBVIOUS
<1>5. next =
          [stack |-> IF line.form = "section" THEN more ELSE left,
           tree |-> [p \in DOMAIN state.tree \cup {here} |-> IF p = here THEN NodeOf(line) ELSE state.tree[p]]]
  BY <1>1, <1>2, <1>3, <1>4 DEF LoadLine
<1>6. /\ line.form = "section" => next.stack = more
      /\ line.form # "section" => next.stack = left
      /\ DOMAIN next.tree = DOMAIN state.tree \cup {here}
      /\ \A p \in DOMAIN next.tree : next.tree[p] = IF p = here THEN NodeOf(line) ELSE state.tree[p]
  BY <1>5
<1> QED BY <1>3, <1>4, <1>6 DEF EntryLoaded

\* q is s and behind it r.
Together(q, s, r) ==
    /\ Len(q) = Len(s) + Len(r) /\ Len(s) \in Nat /\ Len(r) \in Nat
    /\ \A i \in 1 .. Len(s) : q[i] = s[i]
    /\ \A i \in 1 .. Len(r) : q[Len(s) + i] = r[i]

\* What stands where in two texts put together.
LEMMA BehindAt ==
    ASSUME NEW S, NEW s \in Seq(S), NEW r \in Seq(S)
    PROVE  Together(Behind(s, r), s, r)
<1>1. Len(s) \in Nat /\ Len(r) \in Nat
  BY LenProperties
<1>2. Len(s \o r) = Len(s) + Len(r)
      /\ \A i \in 1 .. Len(s) + Len(r) : (s \o r)[i] = IF i <= Len(s) THEN s[i] ELSE r[i - Len(s)]
  BY ConcatProperties
<1>3. ASSUME NEW i \in 1 .. Len(r) PROVE (s \o r)[Len(s) + i] = r[i]
  <2>1. Len(s) + i \in 1 .. Len(s) + Len(r) /\ ~(Len(s) + i <= Len(s)) /\ (Len(s) + i) - Len(s) = i
    BY <1>1
  <2> QED BY <1>2, <2>1
<1>4. ASSUME NEW i \in 1 .. Len(s) PROVE (s \o r)[i] = s[i]
  <2>1. i \in 1 .. Len(s) + Len(r) /\ i <= Len(s)
    BY <1>1
  <2> QED BY <1>2, <2>1
<1> QED BY <1>1, <1>2, <1>3, <1>4 DEF Behind, Together

\* s is x with so many blanks before it and behind it.
Padded(s, x, before, behind) ==
    /\ s \in Seq(Glyphs) /\ x \in Seq(Glyphs) /\ before \in Nat /\ behind \in Nat
    /\ Len(s) = before + Len(x) + behind
    /\ \A i \in 1 .. Len(s) : i <= before \/ i > before + Len(x) => s[i] = White
    /\ \A i \in 1 .. Len(x) : s[before + i] = x[i]

\* A text that neither begins nor ends with a blank.
Tight(x) == x[1] # White /\ x[Len(x)] # White

\* Only the blanks are trimmed.
LEMMA TrimIs ==
    ASSUME NEW s, NEW x, NEW before, NEW behind, Padded(s, x, before, behind), x # <<>> => Tight(x)
    PROVE  /\ Trim(s) = x
           /\ x # <<>> => Min({i \in DOMAIN s : s[i] # White}) = before + 1
<1> DEFINE solid == {i \in DOMAIN s : s[i] # White}
           L == Len(x)
<1>1. /\ DOMAIN s = 1 .. Len(s) /\ Len(s) \in Nat /\ L \in Nat /\ before \in Nat /\ behind \in Nat
      /\ Len(s) = before + L + behind /\ s \in Seq(Glyphs) /\ x \in Seq(Glyphs)
      /\ \A i \in 1 .. Len(s) : i <= before \/ i > before + L => s[i] = White
      /\ \A i \in 1 .. L : s[before + i] = x[i]
  BY LenProperties DEF Padded
<1>2. CASE x = <<>>
  <2>1. L = 0
    BY <1>2
  <2>2. solid = {}
    <3> SUFFICES ASSUME NEW i \in 1 .. Len(s) PROVE s[i] = White
      BY <1>1
    <3>1. i <= before \/ i > before + L
      BY <1>1, <2>1
    <3> QED BY <1>1, <3>1
  <2> QED BY <1>2, <2>2 DEF Trim
<1>3. CASE x # <<>>
  <2>1. L >= 1
    BY <1>1, <1>3, EmptySeq
  <2>2. before + 1 \in solid /\ before + L \in solid
    <3>1. before + 1 \in 1 .. Len(s) /\ before + L \in 1 .. Len(s) /\ 1 \in 1 .. L /\ L \in 1 .. L
      BY <1>1, <2>1
    <3>2. s[before + 1] = x[1] /\ s[before + L] = x[L]
      BY <1>1, <3>1
    <3> QED BY <1>1, <1>3, <3>1, <3>2 DEF Tight
  <2>3. solid \in SUBSET Int /\ \A i \in solid : before + 1 <= i /\ i <= before + L
    <3> SUFFICES ASSUME NEW i \in 1 .. Len(s), s[i] # White PROVE before + 1 <= i /\ i <= before + L
      BY <1>1
    <3>1. ~(i <= before) /\ ~(i > before + L)
      BY <1>1
    <3> QED BY <1>1, <3>1
  <2>4. Min(solid) = before + 1 /\ Max(solid) = before + L
    <3> HIDE DEF solid
    <3>1. PICK a, b : a = before + 1 /\ b = before + L
      OBVIOUS
    <3>2. Min(solid) = a
      BY <2>2, <2>3, <3>1, MinIs
    <3>3. Max(solid) = b
      BY <2>2, <2>3, <3>1, MaxIs
    <3> QED BY <3>1, <3>2, <3>3
  <2>5. SubSeq(s, before + 1, before + L) = x
    <3>1. PICK a, b : a = before + 1 /\ b = before + L
      OBVIOUS
    <3>2. a \in 1 .. Len(s) + 1 /\ b \in a - 1 .. Len(s) /\ a \in Int /\ b \in Int /\ b - a + 1 = L
      BY <1>1, <2>1, <3>1
    <3>3. SubSeq(s, a, b) \in Seq(Glyphs) /\ Len(SubSeq(s, a, b)) = L
          /\ \A i \in 1 .. L : SubSeq(s, a, b)[i] = s[a + i - 1]
      BY <1>1, <2>1, <3>2, SubSeqProperties
    <3>4. ASSUME NEW i \in 1 .. L PROVE SubSeq(s, a, b)[i] = x[i]
      <4>1. a + i - 1 = before + i
        BY <1>1, <3>1
      <4> QED BY <1>1, <3>3, <4>1
    <3>5. SubSeq(s, a, b) = x
      BY <1>1, <3>3, <3>4, SeqEqual
    <3> QED BY <3>1, <3>5
  <2>6. Trim(s) = SubSeq(s, Min(solid), Max(solid))
    BY <2>2 DEF Trim
  <2> QED BY <2>4, <2>5, <2>6
<1> QED BY <1>2, <1>3

\* Reading s takes one state to the other.
Reads(mark, s, from, to) ==
    \E f : /\ f[0] = from /\ f[Len(s)] = to
           /\ \A n \in 1 .. Len(s) : f[n] = ReadChar(f[n - 1], s[n], mark)

\* There is one way to read a text.
LEMMA ReadOnce ==
    ASSUME NEW S, NEW s \in Seq(S), NEW mark, NEW from, NEW to, Reads(mark, s, from, to),
           NEW g, g[0] = from, \A n \in 1 .. Len(s) : g[n] = ReadChar(g[n - 1], s[n], mark)
    PROVE  g[Len(s)] = to
<1>1. Len(s) \in Nat
  BY LenProperties
<1>2. PICK f : /\ f[0] = from /\ f[Len(s)] = to
               /\ \A n \in 1 .. Len(s) : f[n] = ReadChar(f[n - 1], s[n], mark)
  BY DEF Reads
<1> DEFINE T == {n \in 0 .. Len(s) : g[n] = f[n]}
<1>3. 0 \in T
  BY <1>1, <1>2
<1>4. ASSUME NEW n \in 1 .. Len(s), n - 1 \in T PROVE n \in T
  <2>1. g[n - 1] = f[n - 1] /\ n \in 0 .. Len(s)
    BY <1>1, <1>4
  <2> QED BY <1>2, <2>1
<1>5. 0 .. Len(s) \subseteq T
  <2> HIDE DEF T
  <2> QED BY <1>1, <1>3, <1>4, UpToSet
<1> QED BY <1>1, <1>2, <1>5

\* The parts are what has been read in the end.
LEMMA PartsAre ==
    ASSUME NEW S, NEW s \in Seq(S), NEW mark, NEW r, Reads(mark, s, NothingRead, r)
    PROVE  PartsOutside(s, mark) = Append(r.done, r.open)
<1> DEFINE Is(f) == f = [n \in 0 .. Len(s) |->
                            IF n = 0 THEN NothingRead ELSE ReadChar(f[n - 1], s[n], mark)]
           read == CHOOSE f : Is(f)
<1>1. Len(s) \in Nat
  BY LenProperties
<1>2. PICK f : /\ f[0] = NothingRead /\ f[Len(s)] = r
               /\ \A n \in 1 .. Len(s) : f[n] = ReadChar(f[n - 1], s[n], mark)
  BY DEF Reads
<1>3. PICK g : g = [n \in 0 .. Len(s) |-> f[n]]
  OBVIOUS
<1>4. Is(g)
  <2>1. ASSUME NEW n \in 0 .. Len(s)
        PROVE  g[n] = IF n = 0 THEN NothingRead ELSE ReadChar(g[n - 1], s[n], mark)
    <3>1. CASE n = 0
      BY <1>2, <1>3, <3>1
    <3>2. CASE n # 0
      <4>1. n \in 1 .. Len(s) /\ n - 1 \in 0 .. Len(s)
        BY <1>1, <3>2
      <4>2. g[n] = f[n] /\ g[n - 1] = f[n - 1]
        BY <1>3, <4>1
      <4> QED BY <1>2, <3>2, <4>1, <4>2
    <3> QED BY <3>1, <3>2
  <2>2. g = [n \in 0 .. Len(s) |-> g[n]]
    BY <1>3
  <2> QED BY <2>1, <2>2
<1>5. Is(read)
  <2> HIDE DEF Is
  <2> QED BY <1>4
<1>6. PartsOutside(s, mark) = Append(read[Len(s)].done, read[Len(s)].open)
  BY DEF PartsOutside
<1> HIDE DEF read
<1>7. read[0] = NothingRead /\ \A n \in 1 .. Len(s) : read[n] = ReadChar(read[n - 1], s[n], mark)
  <2>1. 0 \in 0 .. Len(s) /\ \A n \in 1 .. Len(s) : n \in 0 .. Len(s) /\ n # 0
    BY <1>1
  <2> QED BY <1>5, <2>1
<1> HIDE DEF Is
<1>8. read[Len(s)] = r
  BY <1>7, ReadOnce
<1> QED BY <1>6, <1>8

\* One character.
LEMMA ReadsOne == \A mark, c, from : Reads(mark, <<c>>, from, ReadChar(from, c, mark))
<1> SUFFICES ASSUME NEW mark, NEW c, NEW from PROVE Reads(mark, <<c>>, from, ReadChar(from, c, mark))
  OBVIOUS
<1>1. PICK to : to = ReadChar(from, c, mark)
  OBVIOUS
<1>2. PICK f : f = [n \in 0 .. 1 |-> IF n = 0 THEN from ELSE to]
  OBVIOUS
<1>3. f[0] = from /\ f[1] = to
  BY <1>2
<1>4. Len(<<c>>) = 1 /\ <<c>>[1] = c
  OBVIOUS
<1>5. f[Len(<<c>>)] = to
  BY <1>3, <1>4
<1>6. ASSUME NEW n \in 1 .. Len(<<c>>) PROVE f[n] = ReadChar(f[n - 1], <<c>>[n], mark)
  <2>1. n = 1 /\ n - 1 = 0
    BY <1>4
  <2> QED BY <1>1, <1>3, <1>4, <2>1
<1>7. Reads(mark, <<c>>, from, to)
  BY <1>3, <1>5, <1>6 DEF Reads
<1> QED BY <1>1, <1>7

\* No character.
LEMMA ReadsNone == \A mark, from : Reads(mark, <<>>, from, from)
<1> SUFFICES ASSUME NEW mark, NEW from PROVE Reads(mark, <<>>, from, from)
  OBVIOUS
<1>1. PICK f : f = [n \in 0 .. 0 |-> from]
  OBVIOUS
<1>2. Len(<<>>) = 0 /\ f[0] = from
  BY <1>1
<1>3. \A n \in 1 .. Len(<<>>) : FALSE
  BY <1>2
<1> QED BY <1>2, <1>3 DEF Reads

\* One text and then another.
LEMMA ReadsBehind ==
    ASSUME NEW S, NEW s \in Seq(S), NEW t \in Seq(S), NEW mark, NEW from, NEW via, NEW to,
           Reads(mark, s, from, via), Reads(mark, t, via, to)
    PROVE  Reads(mark, Behind(s, t), from, to)
<1>1. /\ Len(s) \in Nat /\ Len(t) \in Nat /\ Len(Behind(s, t)) = Len(s) + Len(t)
      /\ \A i \in 1 .. Len(s) : Behind(s, t)[i] = s[i]
      /\ \A i \in 1 .. Len(t) : Behind(s, t)[Len(s) + i] = t[i]
  <2>1. Together(Behind(s, t), s, t)
    BY BehindAt
  <2> QED BY <2>1 DEF Together
<1>2. PICK L, M, both : L = Len(s) /\ M = Len(t) /\ both = Behind(s, t)
  OBVIOUS
<1>3. PICK f : /\ f[0] = from /\ f[L] = via
               /\ \A n \in 1 .. L : f[n] = ReadChar(f[n - 1], s[n], mark)
  BY <1>2 DEF Reads
<1>4. PICK g : /\ g[0] = via /\ g[M] = to
               /\ \A n \in 1 .. M : g[n] = ReadChar(g[n - 1], t[n], mark)
  BY <1>2 DEF Reads
<1>5. PICK h : h = [n \in 0 .. L + M |-> IF n <= L THEN f[n] ELSE g[n - L]]
  OBVIOUS
<1>6. \A n \in 0 .. L : h[n] = f[n]
  BY <1>1, <1>2, <1>5
<1>7. ASSUME NEW n \in 0 .. M PROVE h[L + n] = g[n]
  <2>1. CASE n = 0
    <3>1. L + n = L /\ L \in 0 .. L
      BY <1>1, <1>2, <2>1
    <3> QED BY <1>3, <1>4, <1>6, <2>1, <3>1
  <2>2. CASE n # 0
    <3>1. L + n \in 0 .. L + M /\ ~(L + n <= L) /\ (L + n) - L = n
      BY <1>1, <1>2, <2>2
    <3> QED BY <1>5, <3>1
  <2> QED BY <2>1, <2>2
<1>8. h[0] = from /\ h[L + M] = to
  <2>1. 0 \in 0 .. L /\ M \in 0 .. M
    BY <1>1, <1>2
  <2> QED BY <1>3, <1>4, <1>6, <1>7, <2>1
<1>9. ASSUME NEW n \in 1 .. L + M PROVE h[n] = ReadChar(h[n - 1], both[n], mark)
  <2>1. CASE n <= L
    <3>1. n \in 1 .. L /\ n \in 0 .. L /\ n - 1 \in 0 .. L
      BY <1>1, <1>2, <2>1
    <3>2. h[n] = f[n] /\ h[n - 1] = f[n - 1] /\ both[n] = s[n]
      BY <1>1, <1>2, <1>6, <3>1
    <3> QED BY <1>3, <3>1, <3>2
  <2>2. CASE ~(n <= L)
    <3>1. PICK m \in 1 .. M : n = L + m /\ m \in 0 .. M /\ m - 1 \in 0 .. M /\ n - 1 = L + (m - 1)
      <4>1. n - L \in 1 .. M /\ n = L + (n - L) /\ n - L \in 0 .. M /\ (n - L) - 1 \in 0 .. M
            /\ n - 1 = L + ((n - L) - 1)
        BY <1>1, <1>2, <2>2
      <4> QED BY <4>1
    <3>2. h[n] = g[m] /\ h[n - 1] = g[m - 1] /\ both[n] = t[m]
      <4>1. h[L + m] = g[m]
        BY <1>7, <3>1
      <4>2. h[L + (m - 1)] = g[m - 1]
        BY <1>7, <3>1
      <4>3. both[L + m] = t[m]
        BY <1>1, <1>2
      <4> QED BY <3>1, <4>1, <4>2, <4>3
    <3> QED BY <1>4, <3>1, <3>2
  <2> QED BY <2>1, <2>2
<1>10. Reads(mark, both, from, to)
  <2>1. Len(both) = L + M
    BY <1>1, <1>2
  <2> QED BY <1>8, <1>9, <2>1 DEF Reads
<1> QED BY <1>2, <1>10

\* Something has been read.
Having(done, open, quote) == [done |-> done, open |-> open, quote |-> quote]

\* No character of s opens or closes a quotation or a part.
Even(s, quote, mark) ==
    \A i \in 1 .. Len(s) : AfterChar(quote, s[i]) = quote /\ ~(s[i] = mark /\ quote = "none")

\* One such character.
LEMMA EvenChar ==
    ASSUME NEW done, NEW open, NEW quote, NEW c, NEW mark,
           AfterChar(quote, c) = quote, ~(c = mark /\ quote = "none")
    PROVE  ReadChar(Having(done, open, quote), c, mark) = Having(done, Append(open, c), quote)
<1>1. PICK state : state = Having(done, open, quote)
  OBVIOUS
<1>2. state.done = done /\ state.open = open /\ state.quote = quote
  BY <1>1 DEF Having
<1>3. PICK more : more = Append(open, c)
  OBVIOUS
<1>4. ReadChar(state, c, mark) = [done |-> done, open |-> more, quote |-> quote]
  BY <1>2, <1>3 DEF ReadChar
<1> QED BY <1>1, <1>3, <1>4 DEF Having

\* A text of such characters is kept as it is.
LEMMA EvenReads ==
    ASSUME NEW s \in Seq(Glyphs), NEW done, NEW open \in Seq(Glyphs), NEW quote, NEW mark, Even(s, quote, mark)
    PROVE  Reads(mark, s, Having(done, open, quote), Having(done, Behind(open, s), quote))
<1> DEFINE T == {t \in Seq(Glyphs) : Even(t, quote, mark) =>
                    Reads(mark, t, Having(done, open, quote), Having(done, Behind(open, t), quote))}
<1>1. <<>> \in T
  <2>1. <<>> \in Seq(Glyphs) /\ Behind(open, <<>>) = open
    BY BehindNone, EmptySeq
  <2> QED BY <2>1, ReadsNone
<1>2. ASSUME NEW t \in Seq(Glyphs), NEW c \in Glyphs, t \in T PROVE Append(t, c) \in T
  <2>1. PICK more \in Seq(Glyphs) : more = Append(t, c)
    BY AppendType
  <2>2. Len(more) = Len(t) + 1 /\ more[Len(t) + 1] = c /\ Len(t) \in Nat
    BY <2>1, AppendProperties, LenProperties
  <2>3. \A i \in 1 .. Len(t) : more[i] = t[i]
    BY <2>1, AppendProperties
  <2>4. ASSUME Even(more, quote, mark)
        PROVE  Reads(mark, more, Having(done, open, quote), Having(done, Behind(open, more), quote))
    <3>1. \A i \in 1 .. Len(t) : i \in 1 .. Len(more)
      BY <2>2
    <3>2. Even(t, quote, mark)
      BY <2>3, <2>4, <3>1 DEF Even
    <3>3. AfterChar(quote, c) = quote /\ ~(c = mark /\ quote = "none")
      <4>1. Len(t) + 1 \in 1 .. Len(more)
        BY <2>2
      <4> QED BY <2>2, <2>4, <4>1 DEF Even
    <3>4. PICK from, via, to : /\ from = Having(done, open, quote) /\ via = Having(done, Behind(open, t), quote)
                               /\ to = Having(done, Behind(open, more), quote)
      OBVIOUS
    <3>5. Reads(mark, t, from, via)
      BY <1>2, <3>2, <3>4
    <3>6. Behind(open, more) = Append(Behind(open, t), c)
      BY <2>1, BehindAppend
    <3>7. ReadChar(via, c, mark) = to
      BY <3>3, <3>4, <3>6, EvenChar
    <3>8. Reads(mark, <<c>>, via, to)
      BY <3>7, ReadsOne
    <3>9. <<c>> \in Seq(Glyphs) /\ more = Behind(t, <<c>>)
      BY <2>1, BehindOne
    <3>10. Reads(mark, Behind(t, <<c>>), from, to)
      BY <3>5, <3>8, <3>9, ReadsBehind
    <3> QED BY <3>4, <3>9, <3>10
  <2> QED BY <2>1, <2>4
<1>3. Seq(Glyphs) \subseteq T
  <2> HIDE DEF T
  <2> QED BY <1>1, <1>2, SeqSet
<1> QED BY <1>3

\* A text that is kept as it is where nothing is quoted, and leaves nothing quoted.
Whole(s, mark) ==
    /\ s \in Seq(Glyphs)
    /\ \A done : \A open \in Seq(Glyphs) :
          Reads(mark, s, Having(done, open, "none"), Having(done, Behind(open, s), "none"))

\* No character of it opens a quotation or closes a part.
LEMMA PlainIsWhole ==
    ASSUME NEW s \in Seq(Glyphs), NEW mark,
           \A i \in 1 .. Len(s) : s[i] \notin {SingleQuote, DoubleQuote, mark}
    PROVE  Whole(s, mark)
<1>1. Even(s, "none", mark)
  <2> SUFFICES ASSUME NEW i \in 1 .. Len(s) PROVE AfterChar("none", s[i]) = "none" /\ s[i] # mark
    BY DEF Even
  <2>1. s[i] # SingleQuote /\ s[i] # DoubleQuote /\ s[i] # mark
    OBVIOUS
  <2> QED BY <2>1 DEF AfterChar
<1>2. ASSUME NEW done, NEW open \in Seq(Glyphs)
      PROVE  Reads(mark, s, Having(done, open, "none"), Having(done, Behind(open, s), "none"))
  <2>1. PICK quote : quote = "none"
    OBVIOUS
  <2> QED BY <1>1, <2>1, EvenReads
<1> QED BY <1>2 DEF Whole

\* Two such texts are one.
LEMMA WholeBehind ==
    ASSUME NEW s, NEW t, NEW mark, Whole(s, mark), Whole(t, mark)
    PROVE  Whole(Behind(s, t), mark)
<1>1. s \in Seq(Glyphs) /\ t \in Seq(Glyphs) /\ Behind(s, t) \in Seq(Glyphs)
  BY BehindType DEF Whole
<1>2. ASSUME NEW done, NEW open \in Seq(Glyphs)
      PROVE  Reads(mark, Behind(s, t), Having(done, open, "none"), Having(done, Behind(open, Behind(s, t)), "none"))
  <2>1. PICK more \in Seq(Glyphs) : more = Behind(open, s)
    BY <1>1, BehindType
  <2>2. PICK from, via, to : /\ from = Having(done, open, "none") /\ via = Having(done, more, "none")
                             /\ to = Having(done, Behind(more, t), "none")
    OBVIOUS
  <2>3. Reads(mark, s, from, via) /\ Reads(mark, t, via, to)
    BY <2>1, <2>2 DEF Whole
  <2>4. Reads(mark, Behind(s, t), from, to)
    BY <1>1, <2>3, ReadsBehind
  <2>5. Behind(more, t) = Behind(open, Behind(s, t))
    BY <1>1, <2>1, BehindAssociates
  <2> QED BY <2>2, <2>4, <2>5
<1> QED BY <1>1, <1>2 DEF Whole

\* The signs that mean something outside a quotation, and those that do in a list.
Outside == {SingleQuote, DoubleQuote, Hash}

InList == Outside \cup {ElementEnd}

\* A value that can be written.
Fit(v, signs) ==
    /\ v.quoted \in BOOLEAN /\ v.text \in Seq(Glyphs)
    /\ v.quoted => \A i \in 1 .. Len(v.text) : v.text[i] \notin {DoubleQuote, Backslash}
    /\ ~v.quoted => /\ v.text # <<>> /\ Tight(v.text) /\ v.text[1] # ListBegin
                    /\ \A i \in 1 .. Len(v.text) : v.text[i] \notin signs

\* What stands between two elements.
Apart(vs) == IF vs = <<>> THEN <<>> ELSE <<ElementEnd, White>>

\* The signs a list is written with.
LEMMA ApartType ==
    ASSUME NEW vs
    PROVE  Apart(vs) \in Seq(Glyphs)
<1>1. ElementEnd \in Glyphs /\ White \in Glyphs
  BY RemarkGlyphs DEF Signs
<1>2. PICK a \in Glyphs, b \in Glyphs : a = ElementEnd /\ b = White
  BY <1>1
<1>3. <<a, b>> \in Seq(Glyphs) /\ <<>> \in Seq(Glyphs)
  OBVIOUS
<1> QED BY <1>2, <1>3 DEF Apart

\* Two elements put together.
LEMMA PairPut ==
    ASSUME NEW S, NEW a \in S, NEW b \in S
    PROVE  <<a>> \o <<b>> = <<a, b>>
<1>1. PICK one \in Seq(S) : one = <<a>> /\ Len(one) = 1 /\ one[1] = a
  <2>1. <<a>> \in Seq(S) /\ Len(<<a>>) = 1 /\ <<a>>[1] = a
    OBVIOUS
  <2> QED BY <2>1
<1>2. PICK two \in Seq(S) : two = <<a, b>> /\ Len(two) = 2 /\ two[1] = a /\ two[2] = b
  <2>1. <<a, b>> \in Seq(S) /\ Len(<<a, b>>) = 2 /\ <<a, b>>[1] = a /\ <<a, b>>[2] = b
    OBVIOUS
  <2> QED BY <2>1
<1>3. PICK more \in Seq(S) : more = Append(one, b)
  BY AppendType
<1>4. Len(more) = 2 /\ more[2] = b /\ more[1] = a
  BY <1>1, <1>3, AppendProperties
<1>5. \A i \in 1 .. Len(two) : more[i] = two[i]
  <2>1. \A i \in 1 .. 2 : i = 1 \/ i = 2
    OBVIOUS
  <2> QED BY <1>2, <1>4, <2>1
<1>6. more = two
  BY <1>2, <1>4, <1>5, SeqEqual
<1>7. Append(one, b) = one \o <<b>>
  BY BehindOne DEF Behind
<1> QED BY <1>1, <1>2, <1>3, <1>6, <1>7

\* Where two texts stand that are put together, the second is at the end.
LEMMA BehindBlanks ==
    ASSUME NEW s \in Seq(Glyphs), NEW x \in Seq(Glyphs), \A i \in 1 .. Len(s) : s[i] = White
    PROVE  Padded(Behind(s, x), x, Len(s), 0)
<1>1. PICK both \in Seq(Glyphs) : both = Behind(s, x)
  BY BehindType
<1>2. /\ Len(Behind(s, x)) = Len(s) + Len(x) /\ Len(s) \in Nat /\ Len(x) \in Nat
      /\ \A i \in 1 .. Len(s) : Behind(s, x)[i] = s[i]
      /\ \A i \in 1 .. Len(x) : Behind(s, x)[Len(s) + i] = x[i]
  <2>1. Together(Behind(s, x), s, x)
    BY BehindAt
  <2> QED BY <2>1 DEF Together
<1>3. ASSUME NEW i \in 1 .. Len(both), i <= Len(s) \/ i > Len(s) + Len(x) PROVE both[i] = White
  <2>1. i \in 1 .. Len(s)
    BY <1>1, <1>2, <1>3
  <2> QED BY <1>1, <1>2, <2>1
<1>4. Padded(both, x, Len(s), 0)
  <2>1. Len(both) = Len(s) + Len(x) + 0
    BY <1>1, <1>2
  <2>2. \A i \in 1 .. Len(x) : both[Len(s) + i] = x[i]
    BY <1>1, <1>2
  <2> QED BY <1>2, <1>3, <2>1, <2>2 DEF Padded
<1> QED BY <1>1, <1>4

\* What is taken of everything is everything.
LEMMA TakenAll ==
    ASSUME NEW S, NEW s \in Seq(S)
    PROVE  Taken(s, DOMAIN s) = s
<1>1. Len(s) \in Nat /\ DOMAIN s = 1 .. Len(s)
  BY LenProperties
<1>2. PICK f : TakenBy(f, S, s, DOMAIN s)
  BY TakenSteps
<1> DEFINE T == {n \in 0 .. Len(s) : Len(f[n]) = n /\ \A i \in 1 .. n : f[n][i] = s[i]}
<1>3. 0 \in T
  <2>1. f[0] = <<>> /\ Len(<<>>) = 0 /\ 0 \in 0 .. Len(s)
    BY <1>1, <1>2, EmptySeq DEF TakenBy
  <2> QED BY <2>1
<1>4. ASSUME NEW n \in 1 .. Len(s), n - 1 \in T PROVE n \in T
  <2>1. n \in 0 .. Len(s) /\ n - 1 \in 0 .. Len(s) /\ n \in DOMAIN s
    BY <1>1
  <2>2. PICK r \in Seq(S) : r = f[n - 1]
    BY <1>2, <2>1 DEF TakenBy
  <2>3. Len(r) = n - 1 /\ \A i \in 1 .. n - 1 : r[i] = s[i]
    BY <1>4, <2>2
  <2>4. PICK q \in Seq(S) : q = Append(r, s[n])
    <3>1. s[n] \in S
      BY ElementOfSeq
    <3> QED BY <3>1, AppendType
  <2>5. f[n] = q
    BY <1>2, <2>1, <2>2, <2>4 DEF TakenBy
  <2>6. Len(q) = n /\ q[n] = s[n] /\ \A i \in 1 .. n - 1 : q[i] = r[i]
    <3>1. s[n] \in S
      BY ElementOfSeq
    <3>2. Len(q) = Len(r) + 1 /\ q[Len(r) + 1] = s[n] /\ \A i \in 1 .. Len(r) : q[i] = r[i]
      BY <2>4, <3>1, AppendProperties
    <3> QED BY <1>1, <2>3, <3>2
  <2>7. \A i \in 1 .. n : i = n \/ i \in 1 .. n - 1
    BY <1>1
  <2>8. \A i \in 1 .. n : q[i] = s[i]
    BY <2>3, <2>6, <2>7
  <2> QED BY <2>1, <2>5, <2>6, <2>8
<1>5. 0 .. Len(s) \subseteq T
  <2> HIDE DEF T
  <2> QED BY <1>1, <1>3, <1>4, UpToSet
<1>6. PICK q \in Seq(S) : q = f[Len(s)] /\ q = Taken(s, DOMAIN s)
  <2>1. Len(s) \in 0 .. Len(s)
    BY <1>1
  <2> QED BY <1>2, <2>1 DEF TakenBy
<1>7. Len(q) = Len(s) /\ \A i \in 1 .. Len(s) : q[i] = s[i]
  <2>1. Len(s) \in T
    BY <1>1, <1>5
  <2> QED BY <1>6, <2>1
<1>8. q = s
  BY <1>7, SeqEqual
<1> QED BY <1>6, <1>8

\* What is taken of nothing is nothing.
LEMMA TakenNothing ==
    ASSUME NEW S, NEW x \in S
    PROVE  Taken(<<x>>, {}) = <<>>
<1>1. PICK s \in Seq(S) : s = <<x>> /\ Len(s) = 1
  <2>1. <<x>> \in Seq(S) /\ Len(<<x>>) = 1
    OBVIOUS
  <2> QED BY <2>1
<1>2. PICK f : TakenBy(f, S, s, {})
  BY TakenSteps
<1>3. f[0] = <<>> /\ Taken(s, {}) = f[1]
  BY <1>1, <1>2 DEF TakenBy
<1>4. 1 \in 1 .. Len(s) /\ 1 \notin {} /\ 1 - 1 = 0
  BY <1>1
<1>5. f[1] = f[0]
  BY <1>2, <1>4 DEF TakenBy
<1> QED BY <1>1, <1>3, <1>5

\* What a number is written with.
Numerals == Digits \cup {Point}

\* The point is no digit, and the blank neither.
LEMMA NumeralsDiffer == Point \notin Digits /\ White \notin Numerals /\ "0" \in Digits
<1>1. Point \notin Digits /\ White \notin Digits /\ White # Point
  BY Zenon DEF Point, Digits, White
<1>2. "0" \in Digits
  BY DEF Digits
<1> QED BY <1>1, <1>2 DEF Numerals

\* A function of the first numbers is a sequence.
LEMMA ListIsSeq ==
    ASSUME NEW S, NEW L \in Nat, NEW f \in [1 .. L -> S]
    PROVE  f \in Seq(S) /\ Len(f) = L
OBVIOUS

\* What a part of a sequence is.
LEMMA SliceIs ==
    ASSUME NEW S, NEW s, NEW a \in Int, NEW b \in Int, a <= b + 1, \A i \in a .. b : s[i] \in S
    PROVE  /\ SubSeq(s, a, b) \in Seq(S) /\ Len(SubSeq(s, a, b)) = b - a + 1
           /\ \A i \in 1 .. b - a + 1 : SubSeq(s, a, b)[i] = s[a + i - 1]
<1>1. /\ SubSeq(s, a, b) \in Seq(S) /\ Len(SubSeq(s, a, b)) = (IF a <= b THEN b - a + 1 ELSE 0)
      /\ \A i \in 1 .. b - a + 1 : SubSeq(s, a, b)[i] = s[a + i - 1]
  BY SubSeqProperties
<1>2. (IF a <= b THEN b - a + 1 ELSE 0) = b - a + 1
  OBVIOUS
<1> QED BY <1>1, <1>2

\* The digits from the first that counts.
LEMMA NoLeadingIs ==
    ASSUME NEW d \in Seq(Digits)
    PROVE  /\ NoLeading(d) \in Seq(Digits) /\ (NoLeading(d) # <<>> => NoLeading(d)[1] # "0")
           /\ (d # <<>> => d[1] # "0") => NoLeading(d) = d
<1>1. Len(d) \in Nat /\ DOMAIN d = 1 .. Len(d)
  BY LenProperties
<1>2. PICK A, L : A = Counting(d) /\ L = Len(d)
  OBVIOUS
<1>3. A \subseteq 1 .. L /\ A \in SUBSET Int /\ \A i \in 1 .. L : i \in A <=> d[i] # "0"
  BY <1>1, <1>2 DEF Counting
<1>4. CASE A = {}
  <2>1. NoLeading(d) = <<>> /\ <<>> \in Seq(Digits)
    BY <1>2, <1>4, EmptySeq DEF NoLeading
  <2>2. ASSUME d # <<>> => d[1] # "0" PROVE d = <<>>
    <3>1. CASE d # <<>>
      <4>1. 1 \in 1 .. L
        BY <1>1, <1>2, <3>1, EmptySeq
      <4> QED BY <1>3, <1>4, <2>2, <3>1, <4>1
    <3> QED BY <3>1
  <2> QED BY <2>1, <2>2
<1>5. CASE A # {}
  <2>1. PICK lo : lo = Min(A) /\ lo \in A /\ \A i \in A : lo <= i
    <3>1. 1 \in Int /\ \A i \in A : 1 <= i
      BY <1>3
    <3> QED BY <1>3, <1>5, <3>1, LeastOfSet
  <2>2. NoLeading(d) = SubSeq(d, lo, L)
    BY <1>2, <1>5, <2>1 DEF NoLeading
  <2>3. lo \in 1 .. L /\ lo \in Int /\ L \in Int /\ lo <= L + 1 /\ \A i \in lo .. L : d[i] \in Digits
    <3>1. lo \in 1 .. L /\ L \in Nat
      BY <1>1, <1>2, <1>3, <2>1
    <3>2. \A i \in lo .. L : i \in 1 .. L
      BY <3>1
    <3> QED BY <1>2, <3>1, <3>2, ElementOfSeq
  <2>4. /\ SubSeq(d, lo, L) \in Seq(Digits) /\ Len(SubSeq(d, lo, L)) = L - lo + 1
        /\ \A i \in 1 .. L - lo + 1 : SubSeq(d, lo, L)[i] = d[lo + i - 1]
    BY <2>3, SliceIs
  <2>5. PICK q \in Seq(Digits) : q = SubSeq(d, lo, L) /\ Len(q) = L - lo + 1
                                 /\ \A i \in 1 .. L - lo + 1 : q[i] = d[lo + i - 1]
    BY <2>4
  <2>6. q[1] # "0"
    <3>1. 1 \in 1 .. L - lo + 1 /\ lo + 1 - 1 = lo
      BY <2>3
    <3>2. q[1] = d[lo]
      BY <2>5, <3>1
    <3> QED BY <1>3, <2>1, <2>3, <3>2
  <2>7. ASSUME d # <<>> => d[1] # "0" PROVE q = d
    <3>1. d # <<>> /\ 1 \in 1 .. L
      BY <1>2, <2>3, EmptySeq
    <3>2. lo = 1
      BY <1>3, <2>1, <2>3, <2>7, <3>1
    <3>3. Len(q) = Len(d) /\ \A i \in 1 .. Len(d) : q[i] = d[i]
      <4>1. L - lo + 1 = L
        BY <2>3, <3>2
      <4>2. \A i \in 1 .. L : lo + i - 1 = i
        BY <2>3, <3>2
      <4> QED BY <1>2, <2>5, <4>1, <4>2
    <3> QED BY <3>3, SeqEqual
  <2> QED BY <2>2, <2>5, <2>6, <2>7
<1> QED BY <1>4, <1>5

\* The digits up to the last that counts.
LEMMA NoTrailingIs ==
    ASSUME NEW d \in Seq(Digits)
    PROVE  /\ NoTrailing(d) \in Seq(Digits)
           /\ NoTrailing(d) # <<>> => NoTrailing(d)[Len(NoTrailing(d))] # "0"
           /\ (d # <<>> => d[Len(d)] # "0") => NoTrailing(d) = d
<1>1. Len(d) \in Nat /\ DOMAIN d = 1 .. Len(d)
  BY LenProperties
<1>2. PICK A, L : A = Counting(d) /\ L = Len(d)
  OBVIOUS
<1>3. A \subseteq 1 .. L /\ A \in SUBSET Int /\ \A i \in 1 .. L : i \in A <=> d[i] # "0"
  BY <1>1, <1>2 DEF Counting
<1>4. CASE A = {}
  <2>1. NoTrailing(d) = <<>> /\ <<>> \in Seq(Digits)
    BY <1>2, <1>4, EmptySeq DEF NoTrailing
  <2>2. ASSUME d # <<>> => d[L] # "0" PROVE d = <<>>
    <3>1. CASE d # <<>>
      <4>1. L \in 1 .. L
        BY <1>1, <1>2, <3>1, EmptySeq
      <4> QED BY <1>3, <1>4, <2>2, <3>1, <4>1
    <3> QED BY <3>1
  <2> QED BY <1>2, <2>1, <2>2
<1>5. CASE A # {}
  <2>1. PICK hi : hi = Max(A) /\ hi \in A /\ \A i \in A : i <= hi
    <3>1. L \in Int /\ \A i \in A : i <= L
      BY <1>1, <1>2, <1>3
    <3> QED BY <1>3, <1>5, <3>1, GreatestOfSet
  <2>2. PICK one : one = 1
    OBVIOUS
  <2>3. NoTrailing(d) = SubSeq(d, one, hi)
    BY <1>2, <1>5, <2>1, <2>2 DEF NoTrailing
  <2>4. hi \in 1 .. L /\ one \in Int /\ hi \in Int /\ one <= hi + 1 /\ \A i \in one .. hi : d[i] \in Digits
    <3>1. hi \in 1 .. L /\ L \in Nat
      BY <1>1, <1>2, <1>3, <2>1
    <3>2. \A i \in one .. hi : i \in 1 .. L
      BY <2>2, <3>1
    <3> QED BY <1>2, <2>2, <3>1, <3>2, ElementOfSeq
  <2>5. /\ SubSeq(d, one, hi) \in Seq(Digits) /\ Len(SubSeq(d, one, hi)) = hi - one + 1
        /\ \A i \in 1 .. hi - one + 1 : SubSeq(d, one, hi)[i] = d[one + i - 1]
    BY <2>4, SliceIs
  <2>6. PICK q \in Seq(Digits) : q = SubSeq(d, one, hi) /\ Len(q) = hi /\ \A i \in 1 .. hi : q[i] = d[i]
    <3>1. hi - one + 1 = hi /\ \A i \in 1 .. hi : one + i - 1 = i
      BY <2>2, <2>4
    <3> QED BY <2>5, <3>1
  <2>7. q[Len(q)] # "0"
    <3>1. hi \in 1 .. hi
      BY <2>4
    <3> QED BY <1>3, <2>1, <2>4, <2>6, <3>1
  <2>8. ASSUME d # <<>> => d[Len(d)] # "0" PROVE q = d
    <3>1. d # <<>> /\ L \in 1 .. L
      BY <1>2, <2>4, EmptySeq
    <3>2. hi = L
      BY <1>2, <1>3, <2>1, <2>4, <2>8, <3>1
    <3> QED BY <1>2, <2>6, <3>2, SeqEqual
  <2> QED BY <2>3, <2>6, <2>7, <2>8
<1> QED BY <1>4, <1>5

\* A number without zeros that do not count.
Canonical(num) ==
    /\ \E w, f \in Seq(Digits) : num = [whole |-> w, frac |-> f]
    /\ num.whole # <<>> => num.whole[1] # "0"
    /\ num.frac # <<>> => num.frac[Len(num.frac)] # "0"

\* The numerals t are the digits w, and behind a point the digits f.
Cuts(t, w, f) ==
    /\ t \in Seq(Numerals) /\ w \in Seq(Digits) /\ f \in Seq(Digits)
    /\ \A i \in 1 .. Len(w) : t[i] = w[i]
    /\ \/ Len(t) = Len(w) /\ f = <<>>
       \/ /\ Len(t) = Len(w) + 1 + Len(f) /\ t[Len(w) + 1] = Point
          /\ \A i \in 1 .. Len(f) : t[Len(w) + 1 + i] = f[i]

\* Every number is made of such parts.
LEMMA NumeralsCut ==
    ASSUME NEW t \in Seq(Numerals), \A i, j \in 1 .. Len(t) : t[i] = Point /\ t[j] = Point => i = j
    PROVE  \E w, f : Cuts(t, w, f)
<1>1. Len(t) \in Nat /\ \A i \in 1 .. Len(t) : t[i] \in Numerals
  BY LenProperties, ElementOfSeq
<1>2. CASE \E p \in 1 .. Len(t) : t[p] = Point
  <2>1. PICK p \in 1 .. Len(t) : t[p] = Point
    BY <1>2
  <2>2. PICK one, before, after, L : one = 1 /\ before = p - 1 /\ after = p + 1 /\ L = Len(t)
    OBVIOUS
  <2>3. \A i \in 1 .. L : i # p => t[i] \in Digits
    BY <1>1, <2>1, <2>2 DEF Numerals
  <2>4. PICK w \in Seq(Digits) : Len(w) = before /\ \A i \in 1 .. before : w[i] = t[i]
    <3>1. /\ one \in Int /\ before \in Int /\ one <= before + 1 /\ before - one + 1 = before
          /\ \A i \in one .. before : i \in 1 .. L /\ i # p /\ one + i - 1 = i
      BY <1>1, <2>2
    <3>2. /\ SubSeq(t, one, before) \in Seq(Digits) /\ Len(SubSeq(t, one, before)) = before - one + 1
          /\ \A i \in 1 .. before - one + 1 : SubSeq(t, one, before)[i] = t[one + i - 1]
      BY <2>3, <3>1, SliceIs
    <3>3. \A i \in 1 .. before : SubSeq(t, one, before)[i] = t[i]
      BY <2>2, <3>1, <3>2
    <3> QED BY <3>1, <3>2, <3>3
  <2>5. PICK f \in Seq(Digits) : Len(f) = L - p /\ \A i \in 1 .. L - p : f[i] = t[p + i]
    <3>1. /\ after \in Int /\ L \in Int /\ after <= L + 1 /\ L - after + 1 = L - p
          /\ \A i \in after .. L : i \in 1 .. L /\ i # p
      BY <1>1, <2>2
    <3>2. /\ SubSeq(t, after, L) \in Seq(Digits) /\ Len(SubSeq(t, after, L)) = L - after + 1
          /\ \A i \in 1 .. L - after + 1 : SubSeq(t, after, L)[i] = t[after + i - 1]
      BY <2>3, <3>1, SliceIs
    <3>3. \A i \in 1 .. L - p : after + i - 1 = p + i
      BY <2>2
    <3>4. PICK f \in Seq(Digits) : /\ f = SubSeq(t, after, L) /\ Len(f) = L - p
                                   /\ \A i \in 1 .. L - p : f[i] = t[after + i - 1]
      BY <3>1, <3>2
    <3>5. \A i \in 1 .. L - p : f[i] = t[p + i]
      BY <3>3, <3>4
    <3> QED BY <3>4, <3>5
  <2>6. /\ Len(t) = Len(w) + 1 + Len(f) /\ Len(w) + 1 = p
        /\ \A i \in 1 .. Len(f) : Len(w) + 1 + i = p + i
    BY <1>1, <2>2, <2>4, <2>5
  <2>7. t[Len(w) + 1] = Point /\ \A i \in 1 .. Len(f) : t[Len(w) + 1 + i] = f[i]
    BY <2>1, <2>2, <2>5, <2>6
  <2>8. Cuts(t, w, f)
    BY <2>2, <2>4, <2>6, <2>7 DEF Cuts
  <2> QED BY <2>8
<1>3. CASE \A p \in 1 .. Len(t) : t[p] # Point
  <2>1. \A i \in 1 .. Len(t) : t[i] \in Digits
    BY <1>1, <1>3 DEF Numerals
  <2>2. t \in Seq(Digits)
    <3>1. t \in [1 .. Len(t) -> Digits]
      BY <2>1
    <3> QED BY <1>1, <3>1
  <2>3. PICK none \in Seq(Digits) : none = <<>>
    BY EmptySeq
  <2>4. Cuts(t, t, none)
    BY <2>2, <2>3 DEF Cuts
  <2> QED BY <2>4
<1> QED BY <1>2, <1>3

\* Numerals have no blanks.
LEMMA NumeralsTrim ==
    ASSUME NEW t \in Seq(Numerals), t # <<>>
    PROVE  Trim(t) = t /\ Min({i \in DOMAIN t : t[i] # White}) = 1
<1>1. PICK L, one : L = Len(t) /\ one = 1
  OBVIOUS
<1>2. L \in Nat /\ DOMAIN t = 1 .. L /\ L >= 1 /\ \A i \in 1 .. L : t[i] \in Numerals
  BY <1>1, LenProperties, ElementOfSeq, EmptySeq
<1>3. PICK solid : solid = {i \in DOMAIN t : t[i] # White}
  OBVIOUS
<1>4. solid = 1 .. L
  BY <1>2, <1>3, NumeralsDiffer
<1>5. solid \in SUBSET Int /\ one \in solid /\ L \in solid /\ \A i \in solid : one <= i /\ i <= L
  BY <1>1, <1>2, <1>4
<1>6. Min(solid) = one /\ Max(solid) = L
  BY <1>5, MinIs, MaxIs
<1>7. Trim(t) = SubSeq(t, one, L)
  BY <1>3, <1>5, <1>6 DEF Trim
<1>8. SubSeq(t, one, L) = t
  <2>1. one \in Int /\ L \in Int /\ one <= L + 1 /\ \A i \in one .. L : t[i] \in Numerals
    BY <1>1, <1>2
  <2>2. /\ SubSeq(t, one, L) \in Seq(Numerals) /\ Len(SubSeq(t, one, L)) = L - one + 1
        /\ \A i \in 1 .. L - one + 1 : SubSeq(t, one, L)[i] = t[one + i - 1]
    BY <2>1, SliceIs
  <2>3. PICK q \in Seq(Numerals) : q = SubSeq(t, one, L) /\ Len(q) = L /\ \A i \in 1 .. L : q[i] = t[i]
    <3>1. L - one + 1 = L /\ \A i \in 1 .. L : one + i - 1 = i
      BY <1>1, <1>2
    <3> QED BY <2>2, <3>1
  <2>4. q = t
    BY <1>1, <2>3, SeqEqual
  <2> QED BY <2>3, <2>4
<1> QED BY <1>1, <1>3, <1>6, <1>7, <1>8

\* Where the point of such a number is.
LEMMA PointIs ==
    ASSUME NEW t, NEW w, NEW f, Cuts(t, w, f)
    PROVE  LET points == {i \in DOMAIN t : t[i] = Point}
               point == IF points = {} THEN Len(t) + 1 ELSE Min(points)
           IN point = Len(w) + 1 /\ \A i \in points : i = Len(w) + 1
<1>1. PICK L, M, N : L = Len(t) /\ M = Len(w) /\ N = Len(f)
  OBVIOUS
<1>2. L \in Nat /\ M \in Nat /\ N \in Nat /\ DOMAIN t = 1 .. L
  BY <1>1, LenProperties DEF Cuts
<1>3. (\A i \in 1 .. M : w[i] # Point) /\ (\A i \in 1 .. N : f[i] # Point)
  <2>1. (\A i \in 1 .. M : w[i] \in Digits) /\ (\A i \in 1 .. N : f[i] \in Digits)
    BY <1>1, ElementOfSeq DEF Cuts
  <2> QED BY <2>1, NumeralsDiffer
<1>4. PICK points : points = {i \in DOMAIN t : t[i] = Point}
  OBVIOUS
<1>5. ASSUME NEW i \in points PROVE i = M + 1
  <2>1. i \in 1 .. L /\ t[i] = Point
    BY <1>2, <1>4
  <2>2. ~(i \in 1 .. M)
    BY <1>1, <1>3, <2>1 DEF Cuts
  <2>3. CASE L = M
    BY <1>2, <2>1, <2>2, <2>3
  <2>4. CASE L = M + 1 + N /\ \A k \in 1 .. N : t[M + 1 + k] = f[k]
    <3>1. CASE i > M + 1
      <4>1. i - (M + 1) \in 1 .. N /\ M + 1 + (i - (M + 1)) = i
        BY <1>2, <2>1, <2>4, <3>1
      <4>2. t[i] = f[i - (M + 1)]
        BY <2>4, <4>1
      <4> QED BY <1>3, <2>1, <4>1, <4>2
    <3> QED BY <1>2, <2>1, <2>2, <3>1
  <2> QED BY <1>1, <2>3, <2>4 DEF Cuts
<1>6. CASE points = {}
  <2>1. L = M
    <3>1. ASSUME L = M + 1 + N, t[M + 1] = Point PROVE FALSE
      <4>1. M + 1 \in 1 .. L
        BY <1>2, <3>1
      <4> QED BY <1>2, <1>4, <1>6, <3>1, <4>1
    <3> QED BY <1>1, <3>1 DEF Cuts
  <2> QED BY <1>1, <1>4, <1>6, <2>1
<1>7. CASE points # {}
  <2>1. PICK p : p = M + 1
    OBVIOUS
  <2>2. p \in points /\ points \in SUBSET Int /\ \A i \in points : p <= i
    BY <1>2, <1>4, <1>5, <1>7, <2>1
  <2>3. Min(points) = p
    BY <2>2, MinIs
  <2> QED BY <1>1, <1>4, <1>5, <1>7, <2>1, <2>3
<1> QED BY <1>6, <1>7

\* What such a number is.
LEMMA CutReads ==
    ASSUME NEW t, NEW w, NEW f, Cuts(t, w, f), Trim(t) = t
    PROVE  ToNumber(t) = [whole |-> NoLeading(w), frac |-> NoTrailing(f)]
<1>1. PICK L, M, N : L = Len(t) /\ M = Len(w) /\ N = Len(f)
  OBVIOUS
<1>2. L \in Nat /\ M \in Nat /\ N \in Nat
  BY <1>1, LenProperties DEF Cuts
<1>3. PICK point : point = M + 1
  OBVIOUS
<1>4. ToNumber(t) = [whole |-> NoLeading(SubSeq(t, 1, point - 1)), frac |-> NoTrailing(SubSeq(t, point + 1, L))]
  <2>1. LET points == {i \in DOMAIN t : t[i] = Point}
        IN (IF points = {} THEN Len(t) + 1 ELSE Min(points)) = point
    BY <1>1, <1>3, PointIs
  <2> QED BY <1>1, <2>1 DEF ToNumber
<1>5. PICK one, m, after : one = 1 /\ m = point - 1 /\ after = point + 1
  OBVIOUS
<1>6. SubSeq(t, one, m) = w
  <2>1. w \in Seq(Digits) /\ \A i \in 1 .. M : t[i] = w[i]
    BY <1>1 DEF Cuts
  <2>2. /\ one \in Int /\ m \in Int /\ one <= m + 1 /\ m = M /\ m - one + 1 = M
        /\ \A i \in one .. m : i \in 1 .. M
        /\ \A i \in 1 .. M : one + i - 1 = i
    BY <1>2, <1>3, <1>5
  <2>3. \A i \in one .. m : t[i] \in Digits
    BY <1>1, <2>1, <2>2, ElementOfSeq
  <2>4. /\ SubSeq(t, one, m) \in Seq(Digits) /\ Len(SubSeq(t, one, m)) = m - one + 1
        /\ \A i \in 1 .. m - one + 1 : SubSeq(t, one, m)[i] = t[one + i - 1]
    BY <2>2, <2>3, SliceIs
  <2>5. PICK q \in Seq(Digits) : q = SubSeq(t, one, m) /\ Len(q) = M /\ \A i \in 1 .. M : q[i] = t[one + i - 1]
    BY <2>2, <2>4
  <2>6. \A i \in 1 .. M : q[i] = w[i]
    BY <2>1, <2>2, <2>5
  <2>7. q = w
    BY <1>1, <2>1, <2>5, <2>6, SeqEqual
  <2> QED BY <2>5, <2>7
<1>7. SubSeq(t, after, L) = f
  <2>1. CASE L = M /\ f = <<>>
    <3>1. after > L
      BY <1>2, <1>3, <1>5, <2>1
    <3>2. after \in Int /\ L \in Int
      BY <1>2, <1>3, <1>5
    <3> QED BY <2>1, <3>1, <3>2, SubSeqEmpty
  <2>2. CASE L = M + 1 + N /\ \A i \in 1 .. N : t[M + 1 + i] = f[i]
    <3>1. f \in Seq(Digits)
      BY DEF Cuts
    <3>2. /\ after \in Int /\ L \in Int /\ after <= L + 1 /\ L - after + 1 = N
          /\ \A i \in after .. L : i - (M + 1) \in 1 .. N /\ M + 1 + (i - (M + 1)) = i
          /\ \A i \in 1 .. N : after + i - 1 = M + 1 + i
      BY <1>2, <1>3, <1>5, <2>2
    <3>3. \A i \in after .. L : t[i] \in Digits
      <4> SUFFICES ASSUME NEW i \in after .. L PROVE t[i] \in Digits
        OBVIOUS
      <4>1. t[M + 1 + (i - (M + 1))] = f[i - (M + 1)]
        BY <2>2, <3>2
      <4>2. f[i - (M + 1)] \in Digits
        BY <1>1, <3>1, <3>2, ElementOfSeq
      <4> QED BY <3>2, <4>1, <4>2
    <3>4. /\ SubSeq(t, after, L) \in Seq(Digits) /\ Len(SubSeq(t, after, L)) = L - after + 1
          /\ \A i \in 1 .. L - after + 1 : SubSeq(t, after, L)[i] = t[after + i - 1]
      BY <3>2, <3>3, SliceIs
    <3>5. PICK q \in Seq(Digits) : q = SubSeq(t, after, L) /\ Len(q) = N /\ \A i \in 1 .. N : q[i] = t[after + i - 1]
      BY <3>2, <3>4
    <3>6. \A i \in 1 .. N : q[i] = f[i]
      BY <2>2, <3>2, <3>5
    <3>7. q = f
      BY <1>1, <3>1, <3>5, <3>6, SeqEqual
    <3> QED BY <3>5, <3>7
  <2> QED BY <1>1, <2>1, <2>2 DEF Cuts
<1> QED BY <1>4, <1>5, <1>6, <1>7

\* Every number is without them.
LEMMA NumberIsCanonical ==
    ASSUME NEW S, NEW s \in Seq(S), IsNumber(s)
    PROVE  Canonical(ToNumber(s))
<1>1. PICK L : L = Len(s) /\ L \in Nat /\ DOMAIN s = 1 .. L
  BY LenProperties
<1>2. PICK solid : solid = {i \in DOMAIN s : s[i] # White}
  OBVIOUS
<1>3. /\ \E i \in 1 .. L : s[i] \in Digits
      /\ \A i \in Min(solid) .. L : s[i] \in Numerals
      /\ \A i, j \in 1 .. L : s[i] = Point /\ s[j] = Point => i = j
  BY <1>1, <1>2 DEF IsNumber, Numerals
<1>4. solid \subseteq 1 .. L /\ solid # {} /\ solid \in SUBSET Int
  BY <1>1, <1>2, <1>3, NumeralsDiffer DEF Numerals
<1>5. PICK lo : lo = Min(solid) /\ lo \in solid /\ \A i \in solid : lo <= i
  <2>1. 1 \in Int /\ \A i \in solid : 1 <= i
    BY <1>4
  <2> QED BY <1>4, <2>1, LeastOfSet
<1>6. PICK hi : hi = Max(solid) /\ hi \in solid /\ \A i \in solid : i <= hi
  <2>1. L \in Int /\ \A i \in solid : i <= L
    BY <1>1, <1>4
  <2> QED BY <1>4, <2>1, GreatestOfSet
<1>7. lo \in Int /\ hi \in Int /\ lo <= hi /\ lo \in 1 .. L /\ hi \in 1 .. L
  BY <1>4, <1>5, <1>6
<1>8. Trim(s) = SubSeq(s, lo, hi)
  BY <1>2, <1>4, <1>5, <1>6 DEF Trim
<1>9. \A i \in lo .. hi : s[i] \in Numerals
  <2>1. \A i \in lo .. hi : i \in lo .. L
    BY <1>1, <1>7
  <2> QED BY <1>3, <1>5, <2>1
<1>10. /\ SubSeq(s, lo, hi) \in Seq(Numerals) /\ Len(SubSeq(s, lo, hi)) = hi - lo + 1
       /\ \A i \in 1 .. hi - lo + 1 : SubSeq(s, lo, hi)[i] = s[lo + i - 1]
  BY <1>7, <1>9, SliceIs
<1>11. PICK t \in Seq(Numerals) : t = Trim(s) /\ Len(t) = hi - lo + 1 /\ \A i \in 1 .. hi - lo + 1 : t[i] = s[lo + i - 1]
  BY <1>8, <1>10
<1>12. \A i, j \in 1 .. Len(t) : t[i] = Point /\ t[j] = Point => i = j
  <2> SUFFICES ASSUME NEW i \in 1 .. Len(t), NEW j \in 1 .. Len(t), t[i] = Point, t[j] = Point PROVE i = j
    OBVIOUS
  <2>1. lo + i - 1 \in 1 .. L /\ lo + j - 1 \in 1 .. L
    BY <1>1, <1>7, <1>11
  <2>2. s[lo + i - 1] = Point /\ s[lo + j - 1] = Point
    BY <1>11
  <2>3. lo + i - 1 = lo + j - 1
    BY <1>3, <2>1, <2>2
  <2> QED BY <1>7, <2>3
<1>13. PICK w, f : Cuts(t, w, f)
  BY <1>12, NumeralsCut
<1>14. t # <<>> /\ Trim(t) = t
  <2>1. Len(t) >= 1
    BY <1>7, <1>11
  <2>2. t # <<>>
    BY <2>1, EmptySeq
  <2> QED BY <2>2, NumeralsTrim
<1>15. ToNumber(s) = ToNumber(t)
  BY <1>11, <1>14 DEF ToNumber
<1>16. ToNumber(t) = [whole |-> NoLeading(w), frac |-> NoTrailing(f)]
  BY <1>13, <1>14, CutReads
<1>17. w \in Seq(Digits) /\ f \in Seq(Digits)
  BY <1>13 DEF Cuts
<1>18. PICK a, b : a = NoLeading(w) /\ b = NoTrailing(f)
  OBVIOUS
<1>19. a \in Seq(Digits) /\ b \in Seq(Digits) /\ (a # <<>> => a[1] # "0") /\ (b # <<>> => b[Len(b)] # "0")
  BY <1>17, <1>18, NoLeadingIs, NoTrailingIs
<1>20. ToNumber(s) = [whole |-> a, frac |-> b]
  BY <1>15, <1>16, <1>18
<1> QED BY <1>19, <1>20 DEF Canonical

\* A number of few digits is printed as one that reads as it.
LEMMA PrintedReads ==
    ASSUME NEW num, Canonical(num), Exact(num)
    PROVE  IsNumber(Printed(num)) /\ ToNumber(Printed(num)) = num
<1>1. PICK w, f : /\ num = [whole |-> w, frac |-> f] /\ w \in Seq(Digits) /\ f \in Seq(Digits)
                  /\ w # <<>> => w[1] # "0"
                  /\ f # <<>> => f[Len(f)] # "0"
  <2>1. PICK w \in Seq(Digits), f \in Seq(Digits) : num = [whole |-> w, frac |-> f]
    BY DEF Canonical
  <2>2. num.whole = w /\ num.frac = f
    BY <2>1
  <2> QED BY <2>1, <2>2 DEF Canonical
<1>2. num.whole = w /\ num.frac = f
  BY <1>1
<1>3. PICK d \in Seq(Digits) : d = (IF w = <<>> THEN <<"0">> ELSE w) /\ d # <<>> /\ NoLeading(d) = w
  <2>1. CASE w = <<>>
    <3>1. PICK z \in Digits : z = "0"
      BY NumeralsDiffer
    <3>2. PICK q \in Seq(Digits) : q = <<z>> /\ Len(q) = 1 /\ q[1] = z
      <4>1. <<z>> \in Seq(Digits) /\ Len(<<z>>) = 1 /\ <<z>>[1] = z
        OBVIOUS
      <4> QED BY <4>1
    <3>3. q # <<>> /\ DOMAIN q = 1 .. 1
      BY <3>2, LenProperties, EmptySeq
    <3>4. Counting(q) = {}
      BY <3>1, <3>2, <3>3 DEF Counting
    <3>5. NoLeading(q) = <<>>
      BY <3>4 DEF NoLeading
    <3> QED BY <2>1, <3>1, <3>2, <3>3, <3>5
  <2>2. CASE w # <<>>
    BY <1>1, <2>2, NoLeadingIs
  <2> QED BY <2>1, <2>2
<1>4. NoTrailing(f) = f
  BY <1>1, NoTrailingIs
<1>5. PICK t : t = Printed(num) /\ Cuts(t, d, f)
  <2>1. Digits \subseteq Numerals /\ Point \in Numerals
    BY DEF Numerals
  <2>2. PICK D \in Seq(Numerals), F \in Seq(Numerals) : D = d /\ F = f
    BY <1>1, <2>1
  <2>3. Printed(num) = D \o (IF F = <<>> THEN <<>> ELSE <<Point>> \o F)
    BY <1>2, <1>3, <2>2 DEF Printed
  <2>4. CASE F = <<>>
    <3>1. Printed(num) = D
      <4>1. D \o <<>> = D
        OBVIOUS
      <4> QED BY <2>3, <2>4, <4>1
    <3> QED BY <1>1, <2>2, <2>4, <3>1 DEF Cuts
  <2>5. CASE F # <<>>
    <3>1. PICK p \in Seq(Numerals) : p = <<Point>> /\ Len(p) = 1 /\ p[1] = Point
      <4>1. PICK c \in Numerals : c = Point
        BY <2>1
      <4>2. <<c>> \in Seq(Numerals) /\ Len(<<c>>) = 1 /\ <<c>>[1] = c
        OBVIOUS
      <4> QED BY <4>1, <4>2
    <3>2. PICK r \in Seq(Numerals) : r = p \o F /\ Together(r, p, F)
      <4>1. Behind(p, F) \in Seq(Numerals) /\ Together(Behind(p, F), p, F)
        BY BehindAt, BehindType
      <4> QED BY <4>1 DEF Behind
    <3>3. PICK q \in Seq(Numerals) : q = D \o r /\ Together(q, D, r)
      <4>1. Behind(D, r) \in Seq(Numerals) /\ Together(Behind(D, r), D, r)
        BY BehindAt, BehindType
      <4> QED BY <4>1 DEF Behind
    <3>4. Printed(num) = q
      BY <2>3, <2>5, <3>1, <3>2, <3>3
    <3>5. /\ Len(r) = 1 + Len(F) /\ Len(F) \in Nat /\ r[1] = Point
          /\ \A i \in 1 .. Len(F) : r[1 + i] = F[i]
      <4>1. 1 \in 1 .. 1
        OBVIOUS
      <4> QED BY <3>1, <3>2, <4>1 DEF Together
    <3>6. /\ Len(q) = Len(D) + Len(r) /\ Len(D) \in Nat
          /\ \A i \in 1 .. Len(D) : q[i] = D[i]
          /\ \A i \in 1 .. Len(r) : q[Len(D) + i] = r[i]
      BY <3>3 DEF Together
    <3>7. /\ Len(q) = Len(D) + 1 + Len(F)
          /\ q[Len(D) + 1] = Point
      <4>1. 1 \in 1 .. Len(r)
        BY <3>5
      <4> QED BY <3>5, <3>6, <4>1
    <3>8. ASSUME NEW i \in 1 .. Len(F) PROVE q[Len(D) + 1 + i] = F[i]
      <4>1. 1 + i \in 1 .. Len(r) /\ Len(D) + (1 + i) = Len(D) + 1 + i
        BY <3>5, <3>6
      <4>2. q[Len(D) + (1 + i)] = r[1 + i]
        BY <3>6, <4>1
      <4> QED BY <3>5, <4>1, <4>2
    <3> QED BY <1>1, <2>2, <3>4, <3>6, <3>7, <3>8 DEF Cuts
  <2> QED BY <2>4, <2>5
<1>6. /\ t \in Seq(Numerals) /\ Len(t) \in Nat /\ Len(d) \in Nat /\ Len(d) >= 1 /\ DOMAIN t = 1 .. Len(t)
      /\ Len(t) >= 1 /\ t # <<>> /\ t[1] \in Digits
  <2>1. t \in Seq(Numerals) /\ Len(t) \in Nat /\ Len(d) \in Nat /\ Len(d) >= 1 /\ DOMAIN t = 1 .. Len(t)
    BY <1>3, <1>5, LenProperties, EmptySeq DEF Cuts
  <2>2. Len(t) >= Len(d)
    <3>1. Len(f) \in Nat
      BY <1>1, LenProperties
    <3>2. Len(t) = Len(d) \/ Len(t) = Len(d) + 1 + Len(f)
      BY <1>5 DEF Cuts
    <3>3. PICK a, b, c : a = Len(t) /\ b = Len(d) /\ c = Len(f)
      OBVIOUS
    <3>4. a \in Nat /\ b \in Nat /\ c \in Nat /\ (a = b \/ a = b + 1 + c)
      BY <2>1, <3>1, <3>2, <3>3
    <3>5. a >= b
      BY <3>4
    <3> QED BY <3>3, <3>5
  <2>3. 1 \in 1 .. Len(d)
    BY <2>1
  <2>4. t[1] = d[1] /\ d[1] \in Digits
    BY <1>5, <2>3, ElementOfSeq DEF Cuts
  <2>5. t # <<>>
    BY <2>1, <2>2, EmptySeq
  <2> QED BY <2>1, <2>2, <2>4, <2>5
<1>7. Trim(t) = t /\ Min({i \in DOMAIN t : t[i] # White}) = 1
  BY <1>6, NumeralsTrim
<1>8. ToNumber(t) = num
  <2>1. ToNumber(t) = [whole |-> NoLeading(d), frac |-> NoTrailing(f)]
    BY <1>5, <1>7, CutReads
  <2> QED BY <1>1, <1>3, <1>4, <2>1
<1>9. IsNumber(t)
  <2>1. \E i \in DOMAIN t : t[i] \in Digits
    BY <1>6
  <2>2. \A i \in 1 .. Len(t) : t[i] \in Digits \cup {Point}
    BY <1>6, ElementOfSeq DEF Numerals
  <2>3. \A i, j \in DOMAIN t : t[i] = Point /\ t[j] = Point => i = j
    <3>1. \A i \in {k \in DOMAIN t : t[k] = Point} : i = Len(d) + 1
      BY <1>5, PointIs
    <3> QED BY <3>1
  <2> QED BY <1>7, <2>1, <2>2, <2>3 DEF IsNumber
<1> QED BY <1>5, <1>8, <1>9

\* The two words are small already.
LEMMA LoweredSwitch == Lowered(<<"true">>) = <<"true">> /\ Lowered(<<"false">>) = <<"false">>
<1>1. DOMAIN SmallLetters = {"True", "Yes", "On", "False", "No", "Off"}
  BY DEF SmallLetters
<1>2. "true" \notin DOMAIN SmallLetters /\ "false" \notin DOMAIN SmallLetters
  BY <1>1
<1>3. ASSUME NEW c, c \notin DOMAIN SmallLetters PROVE Lowered(<<c>>) = <<c>>
  BY <1>3 DEF Lowered
<1> QED BY <1>2, <1>3

\* A line can be written like this.
Given(line) ==
    \/ line.form = "section"
    \/ line.form = "scalar" /\ Fit(line.value[1], Outside)
    \/ line.form = "list" /\ \E V : line.value \in Seq(V) /\ \A v \in V : Fit(v, InList)

\* A list, and the brackets around it.
Bracketed(s) == <<ListBegin>> \o s \o <<ListEnd>>

\* What stands between brackets.
LEMMA BracketsAround ==
    ASSUME NEW s \in Seq(Glyphs)
    PROVE  /\ Bracketed(s) \in Seq(Glyphs) /\ Len(Bracketed(s)) = Len(s) + 2 /\ Len(s) \in Nat
           /\ Bracketed(s)[1] = ListBegin /\ Bracketed(s)[Len(s) + 2] = ListEnd
           /\ Inner(Bracketed(s)) = s
           /\ \E a, b : /\ a \in Seq(Glyphs) /\ b \in Seq(Glyphs) /\ a = <<ListBegin>> /\ b = <<ListEnd>>
                        /\ Len(a) = 1 /\ Len(b) = 1 /\ Bracketed(s) = Behind(Behind(a, s), b)
<1>1. PICK a, b : /\ a \in Seq(Glyphs) /\ b \in Seq(Glyphs) /\ a = <<ListBegin>> /\ b = <<ListEnd>>
                  /\ Len(a) = 1 /\ Len(b) = 1 /\ a[1] = ListBegin /\ b[1] = ListEnd
  <2>1. PICK c \in Glyphs, d \in Glyphs : c = ListBegin /\ d = ListEnd
    BY RemarkGlyphs DEF Signs
  <2>2. <<c>> \in Seq(Glyphs) /\ Len(<<c>>) = 1 /\ <<c>>[1] = c
    OBVIOUS
  <2>3. <<d>> \in Seq(Glyphs) /\ Len(<<d>>) = 1 /\ <<d>>[1] = d
    OBVIOUS
  <2> QED BY <2>1, <2>2, <2>3
<1>2. a \in Seq(Glyphs) /\ b \in Seq(Glyphs)
  BY <1>1
<1>3. PICK begun \in Seq(Glyphs) : begun = Behind(a, s)
  BY <1>2, BehindType
<1>4. PICK q \in Seq(Glyphs) : q = Behind(begun, b)
  BY <1>2, BehindType
<1> a \in Seq(Glyphs)
  BY <1>2
<1> b \in Seq(Glyphs)
  BY <1>2
<1>5. Bracketed(s) = q
  BY <1>1, <1>3, <1>4 DEF Bracketed, Behind
<1>6. /\ Len(begun) = 1 + Len(s) /\ Len(s) \in Nat /\ begun[1] = ListBegin
      /\ \A i \in 1 .. Len(s) : begun[1 + i] = s[i]
  <2>1. /\ Len(Behind(a, s)) = Len(a) + Len(s) /\ Len(a) \in Nat /\ Len(s) \in Nat
        /\ \A i \in 1 .. Len(a) : Behind(a, s)[i] = a[i]
        /\ \A i \in 1 .. Len(s) : Behind(a, s)[Len(a) + i] = s[i]
    <3>1. Together(Behind(a, s), a, s)
      BY BehindAt
    <3> QED BY <3>1 DEF Together
  <2>2. Len(a) = 1 /\ a[1] = ListBegin /\ 1 \in 1 .. 1
    BY <1>1
  <2> QED BY <1>3, <2>1, <2>2
<1>7. /\ Len(q) = Len(begun) + 1
      /\ \A i \in 1 .. Len(begun) : q[i] = begun[i]
      /\ q[Len(begun) + 1] = ListEnd
  <2>1. /\ Len(Behind(begun, b)) = Len(begun) + Len(b)
        /\ \A i \in 1 .. Len(begun) : Behind(begun, b)[i] = begun[i]
        /\ \A i \in 1 .. Len(b) : Behind(begun, b)[Len(begun) + i] = b[i]
    <3>1. Together(Behind(begun, b), begun, b)
      BY BehindAt
    <3> QED BY <3>1 DEF Together
  <2>2. Len(b) = 1 /\ b[1] = ListEnd /\ 1 \in 1 .. 1
    BY <1>1
  <2> QED BY <1>4, <2>1, <2>2
<1>8. /\ 1 \in 1 .. Len(begun) /\ Len(begun) + 1 = Len(s) + 2
      /\ \A i \in 1 .. Len(s) : 1 + i \in 1 .. Len(begun)
  BY <1>6
<1>9. q[1] = ListBegin /\ q[Len(s) + 2] = ListEnd /\ Len(q) = Len(s) + 2
  BY <1>6, <1>7, <1>8
<1>10. \A i \in 1 .. Len(s) : q[1 + i] = s[i]
  BY <1>6, <1>7, <1>8
<1>11. Inner(q) = s
  <2>1. PICK l, m : l = 2 /\ m = Len(q) - 1
    OBVIOUS
  <2>2. /\ l \in Int /\ m \in Int /\ m - l + 1 = Len(s) /\ (l <= m <=> Len(s) > 0)
        /\ \A i \in l .. m : i \in 1 .. Len(q)
    BY <1>6, <1>9, <2>1
  <2>3. \A i \in l .. m : q[i] \in Glyphs
    BY <2>2, ElementOfSeq
  <2>4. /\ SubSeq(q, l, m) \in Seq(Glyphs) /\ Len(SubSeq(q, l, m)) = (IF l <= m THEN m - l + 1 ELSE 0)
        /\ \A i \in 1 .. m - l + 1 : SubSeq(q, l, m)[i] = q[l + i - 1]
    BY <2>2, <2>3, SubSeqProperties
  <2>5. PICK inner \in Seq(Glyphs) : inner = SubSeq(q, l, m)
    BY <2>4
  <2>6. Len(inner) = Len(s)
    BY <1>6, <2>2, <2>4, <2>5
  <2>7. \A i \in 1 .. Len(s) : inner[i] = s[i]
    <3> SUFFICES ASSUME NEW i \in 1 .. Len(s) PROVE inner[i] = s[i]
      OBVIOUS
    <3>1. l + i - 1 = 1 + i
      BY <1>6, <2>1
    <3> QED BY <1>10, <2>2, <2>4, <2>5, <3>1
  <2>8. inner = s
    BY <2>6, <2>7, SeqEqual
  <2> QED BY <2>1, <2>5, <2>8 DEF Inner
<1> QED BY <1>1, <1>3, <1>4, <1>5, <1>6, <1>9, <1>11

\* Nothing but blanks.
Blanks(s) == s \in Seq(Glyphs) /\ \A i \in 1 .. Len(s) : s[i] = White

\* Blanks are no comment.
LEMMA BlanksWhole ==
    ASSUME NEW s, Blanks(s)
    PROVE  s \in Seq(Glyphs) /\ Whole(s, Hash)
<1>1. s \in Seq(Glyphs)
  BY DEF Blanks
<1>2. \A i \in 1 .. Len(s) : s[i] \notin {SingleQuote, DoubleQuote, Hash}
  BY SignsDiffer DEF Blanks
<1> QED BY <1>1, <1>2, PlainIsWhole

\* Blanks behind blanks.
LEMMA BlanksBehind ==
    ASSUME NEW s, NEW t, Blanks(s), Blanks(t)
    PROVE  Blanks(Behind(s, t))
<1>1. s \in Seq(Glyphs) /\ t \in Seq(Glyphs)
  BY DEF Blanks
<1>2. PICK q \in Seq(Glyphs) : q = Behind(s, t)
  BY <1>1, BehindType
<1>3. /\ Len(Behind(s, t)) = Len(s) + Len(t) /\ Len(s) \in Nat /\ Len(t) \in Nat
      /\ \A i \in 1 .. Len(s) : Behind(s, t)[i] = s[i]
      /\ \A i \in 1 .. Len(t) : Behind(s, t)[Len(s) + i] = t[i]
  <2>1. Together(Behind(s, t), s, t)
    BY <1>1, BehindAt
  <2> QED BY <2>1 DEF Together
<1>4. ASSUME NEW i \in 1 .. Len(q) PROVE q[i] = White
  <2>1. CASE i <= Len(s)
    <3>1. i \in 1 .. Len(s)
      BY <1>2, <1>3, <2>1
    <3> QED BY <1>2, <1>3, <3>1 DEF Blanks
  <2>2. CASE ~(i <= Len(s))
    <3>1. i - Len(s) \in 1 .. Len(t) /\ Len(s) + (i - Len(s)) = i
      BY <1>2, <1>3, <2>2
    <3>2. q[Len(s) + (i - Len(s))] = t[i - Len(s)]
      BY <1>2, <1>3, <3>1
    <3> QED BY <3>1, <3>2 DEF Blanks
  <2> QED BY <2>1, <2>2
<1> QED BY <1>2, <1>4 DEF Blanks

\* No blank, and one.
LEMMA FewBlanks ==
    /\ \E s : s = <<>> /\ s \in Seq(Glyphs) /\ Len(s) = 0 /\ Blanks(s)
    /\ \E s : s = <<White>> /\ s \in Seq(Glyphs) /\ Len(s) = 1 /\ Blanks(s)
<1>1. PICK s \in Seq(Glyphs) : s = <<>> /\ Len(s) = 0
  BY EmptySeq
<1>2. Blanks(s)
  BY <1>1 DEF Blanks
<1>3. PICK c \in Glyphs : c = White
  BY RemarkGlyphs DEF Signs
<1>4. PICK t \in Seq(Glyphs) : t = <<c>> /\ Len(t) = 1 /\ t[1] = c
  <2>1. <<c>> \in Seq(Glyphs) /\ Len(<<c>>) = 1 /\ <<c>>[1] = c
    OBVIOUS
  <2> QED BY <2>1
<1>5. Blanks(t)
  <2>1. \A i \in 1 .. Len(t) : i = 1
    BY <1>4
  <2> QED BY <1>3, <1>4, <2>1 DEF Blanks
<1> QED BY <1>1, <1>2, <1>3, <1>4, <1>5

\* A text between blanks.
LEMMA BlanksAround ==
    ASSUME NEW s, NEW x \in Seq(Glyphs), NEW t, Blanks(s), Blanks(t)
    PROVE  Padded(Behind(Behind(s, x), t), x, Len(s), Len(t))
<1>1. s \in Seq(Glyphs) /\ t \in Seq(Glyphs)
  BY DEF Blanks
<1>2. PICK p \in Seq(Glyphs) : p = Behind(s, x)
  BY <1>1, BehindType
<1>3. PICK q \in Seq(Glyphs) : q = Behind(p, t)
  BY <1>1, BehindType
<1>4. /\ Len(p) = Len(s) + Len(x) /\ Len(s) \in Nat /\ Len(x) \in Nat
      /\ \A i \in 1 .. Len(s) : p[i] = s[i]
      /\ \A i \in 1 .. Len(x) : p[Len(s) + i] = x[i]
  <2>1. /\ Len(Behind(s, x)) = Len(s) + Len(x) /\ Len(s) \in Nat /\ Len(x) \in Nat
        /\ \A i \in 1 .. Len(s) : Behind(s, x)[i] = s[i]
        /\ \A i \in 1 .. Len(x) : Behind(s, x)[Len(s) + i] = x[i]
    <3>1. Together(Behind(s, x), s, x)
      BY <1>1, BehindAt
    <3> QED BY <3>1 DEF Together
  <2> QED BY <1>2, <2>1
<1>5. /\ Len(q) = Len(p) + Len(t) /\ Len(t) \in Nat
      /\ \A i \in 1 .. Len(p) : q[i] = p[i]
      /\ \A i \in 1 .. Len(t) : q[Len(p) + i] = t[i]
  <2>1. /\ Len(Behind(p, t)) = Len(p) + Len(t) /\ Len(p) \in Nat /\ Len(t) \in Nat
        /\ \A i \in 1 .. Len(p) : Behind(p, t)[i] = p[i]
        /\ \A i \in 1 .. Len(t) : Behind(p, t)[Len(p) + i] = t[i]
    <3>1. Together(Behind(p, t), p, t)
      BY <1>1, BehindAt
    <3> QED BY <3>1 DEF Together
  <2> QED BY <1>3, <2>1
<1>6. ASSUME NEW i \in 1 .. Len(q), i <= Len(s) \/ i > Len(s) + Len(x) PROVE q[i] = White
  <2>1. CASE i <= Len(s)
    <3>1. i \in 1 .. Len(s) /\ i \in 1 .. Len(p)
      BY <1>4, <1>5, <2>1
    <3> QED BY <1>4, <1>5, <3>1 DEF Blanks
  <2>2. CASE ~(i <= Len(s))
    <3>1. PICK k \in 1 .. Len(t) : i = Len(p) + k
      <4>1. i - Len(p) \in 1 .. Len(t) /\ i = Len(p) + (i - Len(p))
        BY <1>4, <1>5, <1>6, <2>2
      <4> QED BY <4>1
    <3> QED BY <1>5, <3>1 DEF Blanks
  <2> QED BY <2>1, <2>2
<1>7. ASSUME NEW i \in 1 .. Len(x) PROVE q[Len(s) + i] = x[i]
  <2>1. Len(s) + i \in 1 .. Len(p)
    BY <1>4
  <2> QED BY <1>4, <1>5, <2>1
<1>8. Padded(q, x, Len(s), Len(t))
  BY <1>4, <1>5, <1>6, <1>7 DEF Padded
<1> QED BY <1>2, <1>3, <1>8

\* The key and what stands behind it.
LEMMA LeadIs ==
    ASSUME NEW line, line.key \in Glyphs \ Signs
    PROVE  /\ <<line.key, KeyEnd, White>> \in Seq(Glyphs) /\ <<line.key, KeyEnd>> \in Seq(Glyphs)
           /\ Len(<<line.key, KeyEnd, White>>) = 3 /\ <<line.key, KeyEnd, White>>[1] = line.key
           /\ <<line.key, KeyEnd, White>>[2] = KeyEnd /\ <<line.key, KeyEnd, White>>[3] = White
           /\ Len(<<line.key, KeyEnd>>) = 2 /\ <<line.key, KeyEnd>>[1] = line.key /\ <<line.key, KeyEnd>>[2] = KeyEnd
           /\ Whole(<<line.key, KeyEnd, White>>, Hash)
<1>1. PICK k \in Glyphs, e \in Glyphs, w \in Glyphs : k = line.key /\ e = KeyEnd /\ w = White
  BY RemarkGlyphs DEF Signs
<1>2. PICK s \in Seq(Glyphs) : s = <<k, e, w>> /\ Len(s) = 3 /\ s[1] = k /\ s[2] = e /\ s[3] = w
  <2>1. /\ <<k, e, w>> \in Seq(Glyphs) /\ Len(<<k, e, w>>) = 3
        /\ <<k, e, w>>[1] = k /\ <<k, e, w>>[2] = e /\ <<k, e, w>>[3] = w
    OBVIOUS
  <2> QED BY <2>1
<1>3. <<k, e>> \in Seq(Glyphs) /\ Len(<<k, e>>) = 2 /\ <<k, e>>[1] = k /\ <<k, e>>[2] = e
  OBVIOUS
<1>4. Whole(s, Hash)
  <2>1. k # SingleQuote /\ k # DoubleQuote /\ k # Hash
    BY <1>1 DEF Signs
  <2>2. ASSUME NEW i \in 1 .. Len(s) PROVE s[i] \notin {SingleQuote, DoubleQuote, Hash}
    <3>1. i = 1 \/ i = 2 \/ i = 3
      BY <1>2
    <3> QED BY <1>1, <1>2, <2>1, <3>1, SignsDiffer
  <2> QED BY <2>2, PlainIsWhole
<1> QED BY <1>1, <1>2, <1>3, <1>4

\* The blanks a line begins with.
LEMMA MarginIs ==
    ASSUME NEW n \in Nat
    PROVE  \E s : s = [i \in 1 .. n |-> White] /\ Blanks(s) /\ Len(s) = n
<1>1. White \in Glyphs
  BY RemarkGlyphs DEF Signs
<1>2. PICK s : s = [i \in 1 .. n |-> White]
  OBVIOUS
<1>3. s \in [1 .. n -> Glyphs]
  BY <1>1, <1>2
<1>4. s \in Seq(Glyphs) /\ Len(s) = n
  BY <1>3
<1>5. \A i \in 1 .. Len(s) : s[i] = White
  BY <1>2, <1>4
<1> QED BY <1>2, <1>4, <1>5 DEF Blanks

\* One character that is no blank.
LEMMA TrimOne ==
    ASSUME NEW c \in Glyphs, c # White
    PROVE  Trim(<<c>>) = <<c>> /\ <<c>> # <<>>
<1>1. PICK s \in Seq(Glyphs) : s = <<c>> /\ Len(s) = 1 /\ s[1] = c
  <2>1. <<c>> \in Seq(Glyphs) /\ Len(<<c>>) = 1 /\ <<c>>[1] = c
    OBVIOUS
  <2> QED BY <2>1
<1>2. s # <<>> /\ Tight(s)
  BY <1>1, EmptySeq DEF Tight
<1>3. PICK none : none = 0
  OBVIOUS
<1>4. Padded(s, s, none, none)
  <2>1. Len(s) = 0 + Len(s) + 0 /\ \A i \in 1 .. Len(s) : ~(i <= 0) /\ ~(i > 0 + Len(s)) /\ 0 + i = i
    BY <1>1
  <2> QED BY <1>3, <2>1 DEF Padded
<1>5. Trim(s) = s
  BY <1>2, <1>4, TrimIs
<1> QED BY <1>1, <1>2, <1>5

\* Text that begins, where the margin ends, with what is no blank.
LEMMA IndentIs ==
    ASSUME NEW w \in Seq(Glyphs), NEW d \in Nat, d + 1 \in 1 .. Len(w), w[d + 1] # White,
           \A i \in 1 .. d : w[i] = White
    PROVE  Indent(w) = d
<1> DEFINE solid == {i \in DOMAIN w : w[i] # White}
<1>1. Len(w) \in Nat /\ DOMAIN w = 1 .. Len(w)
  BY LenProperties
<1>2. solid \in SUBSET Int /\ d + 1 \in solid /\ solid # {} /\ \A i \in solid : i <= Len(w) /\ i \in 1 .. Len(w)
  BY <1>1
<1>3. \A i \in solid : d + 1 <= i
  <2> SUFFICES ASSUME NEW i \in solid PROVE d + 1 <= i
    OBVIOUS
  <2>1. ~(i \in 1 .. d) /\ i \in 1 .. Len(w)
    BY <1>1
  <2> QED BY <1>1, <2>1
<1> HIDE DEF solid
<1>4. PICK low : low = d + 1 /\ low \in Int
  OBVIOUS
<1>5. Min(solid) = low
  BY <1>2, <1>3, <1>4, MinIs
<1>6. PICK high : high = Max(solid) /\ high \in solid /\ low <= high
  <2>1. PICK limit : limit = Len(w)
    OBVIOUS
  <2> limit \in Int
    BY <1>1, <2>1
  <2>2. \A i \in solid : i <= limit
    BY <1>2, <2>1
  <2>3. Max(solid) \in solid /\ \A i \in solid : i <= Max(solid)
    BY <1>2, <2>2, GreatestOfSet
  <2> QED BY <1>3, <1>4, <2>3
<1>7. SubSeq(w, low, high) # <<>>
  <2>1. high \in 1 .. Len(w) /\ high \in Int /\ \A i \in low .. high : i \in 1 .. Len(w)
    BY <1>1, <1>2, <1>4, <1>6
  <2>2. \A i \in low .. high : w[i] \in Glyphs
    BY <2>1, ElementOfSeq
  <2>3. Len(SubSeq(w, low, high)) = (IF low <= high THEN high - low + 1 ELSE 0)
    BY <1>4, <2>1, <2>2, SubSeqProperties
  <2>4. high - low + 1 # 0
    BY <1>4, <1>6, <2>1
  <2>5. Len(SubSeq(w, low, high)) # 0
    BY <1>6, <2>3, <2>4
  <2> QED BY <2>5, EmptySeq
<1>8. Trim(w) # <<>>
  BY <1>2, <1>5, <1>6, <1>7 DEF Trim, solid
<1>9. Indent(w) = low - 1
  BY <1>5, <1>8 DEF Indent, solid
<1> QED BY <1>4, <1>9
=================================================================================

------------------------------ MODULE Detections ------------------------------
(***************************************************************************)
(* adapters/yolo/yolo_postprocess.cpp: from the output tensors of yolo to  *)
(* the list of objects in the frame.                                       *)
(*                                                                         *)
(* A cell is what one anchor says at one place of one of the three heads:  *)
(* its confidence and the probability of each class, both quantised, and   *)
(* the box it stands for in pixels of the model.  The arithmetic that      *)
(* makes a box of four numbers and an anchor is left out.  A threshold is  *)
(* given in tenths of a quantum, a scale as a fraction; class 1 is the     *)
(* code's class 0.                                                         *)
(***************************************************************************)
EXTENDS Integers, FiniteSets, SequencesExt, FiniteSetsExt, Lists

CONSTANTS
    ZeroPoint,                \* zp of the output tensors
    Quanta,                   \* 1 / scale of the output tensors
    BoxThreshold,             \* BOX_THRESH, in tenths of a quantum
    NmsPercent,               \* NMS_THRESH, in percent
    MaxResults,               \* OBJ_NUMB_MAX_SIZE
    ObjClassNum,              \* OBJ_CLASS_NUM
    ModelWidth, ModelHeight

ASSUME DetectionsAssumption ==
    /\ ZeroPoint \in Int /\ BoxThreshold \in Nat /\ NmsPercent \in 0 .. 100
    /\ {Quanta, MaxResults, ObjClassNum, ModelWidth, ModelHeight} \subseteq Nat \ {0}

Between(v, low, high) == IF v < low THEN low ELSE IF v > high THEN high ELSE v

-----------------------------------------------------------------------------
(* Decoding: process_i8, process_u8, process_i8_rv1106, process_fp32 *)

\* Division of the cast from float to integer: towards zero.
Truncate(n, d) == IF n >= 0 THEN n \div d ELSE -((-n) \div d)

\* qnt_f32_to_affine: the threshold as a quantised value of low .. high.
Quantised(low, high) ==
    LET v == Truncate(BoxThreshold + 10 * ZeroPoint, 10) IN Between(v, low, high)

\* deqnt_affine_to_f32, in quanta.
Real(q) == q - ZeroPoint

\* Mutation: of equal probabilities the last wins.
BestClassLast(cell) == Max({c \in DOMAIN cell.probs : cell.probs[c] = Max(Range(cell.probs))})

\* maxClassId: of equal probabilities the first wins.
BestClass(cell) == Min({c \in DOMAIN cell.probs : cell.probs[c] = Max(Range(cell.probs))})

BestProb(cell) == cell.probs[BestClass(cell)]

Candidate(cell) ==
    [box |-> cell.box, class |-> BestClass(cell),
     score |-> Real(BestProb(cell)) * Real(cell.conf)]

\* What every decoder makes of the cells that pass.
Decode(passing) == [i \in DOMAIN passing |-> Candidate(passing[i])]

DecodeI8(cells) ==
    LET limit == Quantised(-128, 127)
    IN Decode(Taken(cells, {i \in DOMAIN cells : cells[i].conf >= limit /\ BestProb(cells[i]) > limit}))

\* RKNPU1.
DecodeU8(cells) ==
    LET limit == Quantised(0, 255)
    IN Decode(Taken(cells, {i \in DOMAIN cells : cells[i].conf >= limit /\ BestProb(cells[i]) > limit}))

\* RV1106: the second threshold is one on the product.
DecodeRv1106(cells) ==
    Decode(Taken(cells, {i \in DOMAIN cells :
        /\ cells[i].conf >= Quantised(-128, 127)
        /\ 10 * Candidate(cells[i]).score > BoxThreshold * Quanta}))

DecodeFp32(cells) ==
    Decode(Taken(cells, {i \in DOMAIN cells :
        10 * Real(cells[i].conf) >= BoxThreshold /\ 10 * Real(BestProb(cells[i])) > BoxThreshold}))

-----------------------------------------------------------------------------
(* Sorting: quick_sort_indice_inverse *)

Entry == [score : Int, index : Nat]

\* One turn of the outer loop: from the upper end down to an entry that is better than key,
\* then from the lower end up to one that is worse.
Turn(state, key) ==
    LET h == Max({state.low} \cup {i \in state.low .. state.high : state.s[i].score > key.score})
        fromHigh == [state.s EXCEPT ![state.low] = state.s[h]]
        l == Min({h} \cup {i \in state.low .. h : fromHigh[i].score < key.score})
    IN [s |-> [fromHigh EXCEPT ![h] = fromHigh[l]], low |-> l, high |-> h]

\* The turns end when the two ends meet; right - left of them are enough, more do nothing.
Partition(s, left, right) ==
    LET turn[n \in 0 .. right - left] ==
            IF n = 0 THEN [s |-> s, low |-> left, high |-> right] ELSE Turn(turn[n - 1], s[left])
        last == turn[right - left]
    IN [at |-> last.low, sorted |-> [last.s EXCEPT ![last.low] = s[left]]]

\* sort[n] sorts the entries left .. right of s, when they are not more than n.
QuickSort(entries) ==
    LET count == Len(entries)
        sort[n \in 0 .. count] ==
            [s \in [1 .. count -> Entry] |-> [left \in 1 .. count + 1 |-> [right \in 0 .. count |->
                IF n = 0 \/ left >= right THEN s
                ELSE LET split == Partition(s, left, right)
                         lower == sort[n - 1][split.sorted][left][split.at - 1]
                     IN sort[n - 1][lower][split.at + 1][right]]]]
    IN sort[count][entries][1][count]

-----------------------------------------------------------------------------
(* Suppression: CalculateOverlap, nms *)

Shared(from0, length0, from1, length1) ==
    Max({0, Min({from0 + length0, from1 + length1}) - Max({from0, from1}) + 1})

Area(box) == (box.w + 1) * (box.h + 1)

Overlap(a, b) == Shared(a.x, a.w, b.x, b.w) * Shared(a.y, a.h, b.y, b.h)

\* The share both have of what either covers is above the threshold.
Overlapping(a, b) ==
    100 * Overlap(a, b) > NmsPercent * (Area(a) + Area(b) - Overlap(a, b))

\* Position i of the order suppresses the later ones; 0 stands for -1, suppressed.
SuppressBy(candidates, order, i) ==
    [j \in DOMAIN order |->
        IF /\ j > i /\ order[j] # 0
           /\ Overlapping(candidates[order[i]].box, candidates[order[j]].box)
        THEN 0 ELSE order[j]]

\* Mutation: the box after the one that suppresses is spared.
NmsSparesNext(candidates, order, filterId) ==
    LET spared(o, i) == [SuppressBy(candidates, o, i) EXCEPT ![Min({i + 1, Len(o)})] = o[Min({i + 1, Len(o)})]]
        place[i \in 0 .. Len(order)] ==
            IF i = 0 THEN order
            ELSE IF place[i - 1][i] # 0 /\ candidates[i].class = filterId
                 THEN spared(place[i - 1], i) ELSE place[i - 1]
    IN place[Len(order)]

\* Both tests of the class look at candidate i, not at the candidate at position i.
Nms(candidates, order, filterId) ==
    LET place[i \in 0 .. Len(order)] ==
            IF i = 0 THEN order
            ELSE IF place[i - 1][i] # 0 /\ candidates[i].class = filterId
                 THEN SuppressBy(candidates, place[i - 1], i) ELSE place[i - 1]
    IN place[Len(order)]

-----------------------------------------------------------------------------
(* post_process *)

\* One class after the other; a class without a candidate suppresses nothing.
NmsOfClasses(candidates, order) ==
    LET round[c \in 0 .. ObjClassNum] ==
            IF c = 0 THEN order ELSE Nms(candidates, round[c - 1], c)
    IN round[ObjClassNum]

\* From a coordinate of the model to one of the frame.
ToFrame(at, pad, size, scale) == (Between(at - pad, 0, size) * scale.den) \div scale.num

InFrame(box, letterbox) ==
    LET x(v) == ToFrame(v, letterbox.x_pad, ModelWidth, letterbox.scale)
        y(v) == ToFrame(v, letterbox.y_pad, ModelHeight, letterbox.scale)
    IN [left |-> x(box.x), top |-> y(box.y), right |-> x(box.x + box.w), bottom |-> y(box.y + box.h)]

\* The candidates that are reported, in order; the rest of the list is not filled.
Reported(candidates) ==
    LET entries == [i \in DOMAIN candidates |-> [score |-> candidates[i].score, index |-> i]]
        sorted == QuickSort(entries)
        order == NmsOfClasses(candidates, [i \in DOMAIN sorted |-> sorted[i].index])
        kept == Taken(order, {i \in DOMAIN order : order[i] # 0})
    IN SubSeq(kept, 1, Min({Len(kept), MaxResults}))

\* The list post_process fills: order holds the candidates that are reported.
PostProcess(candidates, order, letterbox) ==
    [i \in DOMAIN order |->
        [box |-> InFrame(candidates[order[i]].box, letterbox),
         class |-> candidates[order[i]].class, score |-> candidates[order[i]].score]]

-----------------------------------------------------------------------------
(* Labels: readLines, coco_cls_to_name *)

\* The first lines of the file; the ones after its last are not set.
Labels(lines) == SubSeq(lines, 1, Min({Len(lines), ObjClassNum}))

\* A name is the sequence of its words.
Name(labels, class) == IF class \in DOMAIN labels THEN labels[class] ELSE <<"null">>
=============================================================================

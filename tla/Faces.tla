-------------------------------- MODULE Faces --------------------------------
(***************************************************************************)
(* adapters/scrfd/scrfd_postprocess.cpp: from the nine output tensors of   *)
(* scrfd to the faces in the frame.                                        *)
(*                                                                         *)
(* An output is a record: the name the model gives it, what it really      *)
(* holds (which of score, bbox and kps, at which stride), whether its      *)
(* buffer is there, and whether it has an element for every anchor point.  *)
(* A point is what one anchor says: its score, and the box and the first   *)
(* landmark in pixels of the model.                                        *)
(***************************************************************************)
EXTENDS Integers, FiniteSets, SequencesExt, FiniteSetsExt, Lists

CONSTANTS ConfThreshold,      \* conf_threshold_
          FaceNmsPercent      \* nms_threshold_, in percent

Strides == <<8, 16, 32>>

\* FindOutputByName: 0 stands for -1.
FindOutputByName(outputs, kind, stride) ==
    LET named == {i \in DOMAIN outputs : outputs[i].name = <<kind, stride>>}
    IN IF named = {} THEN 0 ELSE Min(named)

ByName(outputs, scale) ==
    LET find(kind) == FindOutputByName(outputs, kind, Strides[scale])
    IN [ok |-> 0 \notin {find("score"), find("bbox"), find("kps")},
        score |-> find("score"), bbox |-> find("bbox"), kps |-> find("kps")]

Grouped(scale) == [ok |-> TRUE, score |-> scale, bbox |-> scale + 3, kps |-> scale + 6]

\* Only the last of the three indices is compared with the number of outputs.
Interleaved(outputs, scale) ==
    [ok |-> 3 * scale <= Len(outputs), score |-> 3 * scale - 2, bbox |-> 3 * scale - 1, kps |-> 3 * scale]

\* ResolveScrfdHeadOutputs.
Resolve(outputs, scale) ==
    IF ByName(outputs, scale).ok THEN ByName(outputs, scale)
    ELSE IF Len(outputs) >= 9 THEN Grouped(scale)
    ELSE Interleaved(outputs, scale)

\* A scale with a buffer that is missing, or with too few scores, is skipped.
Readable(outputs, head) ==
    /\ \A i \in {head.score, head.bbox, head.kps} : outputs[i].buf
    /\ outputs[head.score].whole

\* The cast of a quotient to int: towards zero.
Cast(n, d) == IF n >= 0 THEN n \div d ELSE -((-n) \div d)

\* Mutation: the padding is not taken off.
UnpadForgets(v, pad, orig, new) == Cast(v * orig, new)

\* From a coordinate of the model to one of the frame.
Unpad(v, pad, orig, new) == Cast((v - pad) * orig, new)

\* The corner and the size are cast, the corner across is their sum.
FaceInFrame(point, box) ==
    LET x(v) == Unpad(v, box.pad_w, box.orig_w, box.new_w)
        y(v) == Unpad(v, box.pad_h, box.orig_h, box.new_h)
        w == Cast((point.x2 - point.x1) * box.orig_w, box.new_w)
        h == Cast((point.y2 - point.y1) * box.orig_h, box.new_h)
    IN [x1 |-> x(point.x1), y1 |-> y(point.y1), x2 |-> x(point.x1) + w, y2 |-> y(point.y1) + h,
        kps |-> [x |-> x(point.kps.x), y |-> y(point.kps.y)], score |-> point.score]

FaceShared(low0, high0, low1, high1) == Max({0, Min({high0, high1}) - Max({low0, low1})})

FacesOverlap(a, b) ==
    LET both == FaceShared(a.x1, a.x2, b.x1, b.x2) * FaceShared(a.y1, a.y2, b.y1, b.y2)
        size(f) == (f.x2 - f.x1) * (f.y2 - f.y1)
    IN 100 * both > FaceNmsPercent * (size(a) + size(b) - both)

\* Of those left the one with the best score, of equals the first.
BestFace(faces, left) ==
    CHOOSE i \in left : \A j \in left :
        faces[i].score > faces[j].score \/ (faces[i].score = faces[j].score /\ i <= j)

\* cv::dnn::NMSBoxes: the best of those left is taken, unless it overlaps one already taken.
TakeBest(faces, state) ==
    LET i == BestFace(faces, state.left)
        covered == \E k \in Range(state.taken) : FacesOverlap(faces[i], faces[k])
    IN IF state.left = {} THEN state
       ELSE [left |-> state.left \ {i}, taken |-> IF covered THEN state.taken ELSE Append(state.taken, i)]

NMSBoxes(faces) ==
    LET take[n \in 0 .. Len(faces)] ==
            IF n = 0 THEN [left |-> {i \in DOMAIN faces : faces[i].score > ConfThreshold}, taken |-> <<>>]
            ELSE TakeBest(faces, take[n - 1])
    IN take[Len(faces)].taken

\* scrfd_postprocess; points holds what the anchors of a scale say when their own three
\* tensors are read.  An unknown layout gives up with no face at all.
ScrfdPostprocess(outputs, points, box) ==
    LET resolved(s) == Resolve(outputs, s)
        read(s) == IF Readable(outputs, resolved(s))
                   THEN Taken(points[s], {i \in DOMAIN points[s] : points[s][i].score >= ConfThreshold})
                   ELSE <<>>
        candidates == read(1) \o read(2) \o read(3)
        faces == [i \in DOMAIN candidates |-> FaceInFrame(candidates[i], box)]
        taken == NMSBoxes(faces)
    IN IF \A s \in 1 .. 3 : resolved(s).ok
       THEN [i \in DOMAIN taken |-> faces[taken[i]]] ELSE <<>>
=============================================================================

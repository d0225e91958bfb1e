----------------------------- MODULE Kernels_proofs -----------------------------
(***************************************************************************)
(* Proofs about functions in Kernels, for inputs of every size: the        *)
(* letterbox, a matter of whole quotients; the attention, one of sums; the *)
(* way from the cells of yolo to the boxes that are reported, a filter, a  *)
(* sort and a suppression; the way of a face through scrfd and back; the   *)
(* way of a text through the splitters and the lexicon; and the way of a   *)
(* configuration to its tree.  What the loops of the last two compute is   *)
(* in Texts_proofs.                                                        *)
(***************************************************************************)
EXTENDS Kernels, Texts_proofs

-----------------------------------------------------------------------------
(* Whole quotients *)

\* A whole quotient, as multiplication sees it.
LEMMA Quotient ==
    ASSUME NEW a \in Nat, NEW d \in Nat \ {0}
    PROVE  a \div d \in Nat /\ d * (a \div d) <= a /\ a < d * (a \div d) + d
OBVIOUS

\* What the letterbox compares it compares by products.
LEMMA ProductGrows ==
    ASSUME NEW a \in Nat, NEW b \in Nat, NEW c \in Nat, a <= b
    PROVE  a * c <= b * c
OBVIOUS

\* A common factor goes.
LEMMA Cancel ==
    ASSUME NEW a \in Nat, NEW b \in Nat, NEW c \in Nat, a * c < b * c
    PROVE  a < b
OBVIOUS

\* The same for what may be equal.
LEMMA CancelLeq ==
    ASSUME NEW a \in Nat, NEW b \in Nat, NEW c \in Nat \ {0}, a * c <= b * c
    PROVE  a <= b
OBVIOUS

\* Aligned takes less than a step away.
LEMMA AlignedBounds ==
    ASSUME NEW n \in Nat, NEW s \in {2, 4}
    PROVE  Aligned(n, s) \in Nat /\ Aligned(n, s) <= n /\ n < Aligned(n, s) + s
BY DEF Aligned

-----------------------------------------------------------------------------
(* The letterbox *)

\* A place on one side, scaled to a length, stays within the length.
LEMMA ScaledWithin ==
    ASSUME NEW length \in Nat \ {0}, NEW side \in Nat, NEW at \in 0 .. side - 1
    PROVE  (at * length) \div side \in 0 .. length - 1
<1>1. side \in Nat \ {0} /\ at \in Nat /\ at < side /\ at * length \in Nat
  OBVIOUS
<1> DEFINE q == (at * length) \div side
<1>2. q \in Nat /\ side * q <= at * length
  BY <1>1, Quotient
<1> HIDE DEF q
<1>3. at * length < side * length
  BY <1>1
<1>4. q * side < length * side
  BY <1>1, <1>2, <1>3
<1>5. q < length
  BY <1>1, <1>2, <1>4, Cancel
<1>6. q \in 0 .. length - 1
  BY <1>2, <1>5
<1> QED
  BY <1>6 DEF q

\* A side shorter than the scaled length by less than step pixels: going from a place of the box to
\* the frame by the ratio of the sides (crop_and_scale_image_c) and by the scale (post_process)
\* ends at most that far apart, and never before.
LEMMA BackWhereTaken ==
    ASSUME NEW length \in Nat \ {0}, NEW side \in Nat, NEW num \in Nat \ {0}, NEW den \in Nat \ {0},
           NEW step \in Nat, side * den <= length * num, length * num < (side + step) * den,
           NEW at \in 0 .. side - 1
    PROVE  (at * length) \div side - (at * den) \div num \in 0 .. (step * den) \div num + 1
<1> DEFINE f == (at * length) \div side
           b == (at * den) \div num
           c == (step * den) \div num
<1>1. side \in Nat \ {0} /\ at \in Nat /\ at < side
      /\ at * length \in Nat /\ at * den \in Nat /\ step * den \in Nat
  OBVIOUS
<1>2. f \in Nat /\ side * f <= at * length /\ at * length < side * f + side
  BY <1>1, Quotient
<1>3. b \in Nat /\ num * b <= at * den /\ at * den < num * b + num
  BY <1>1, Quotient
<1>4. c \in Nat /\ num * c <= step * den /\ step * den < num * c + num
  BY <1>1, Quotient
<1> HIDE DEF f, b, c
<1>5. b <= f
  <2>1. (b * num) * side <= (at * den) * side
    BY <1>1, <1>3, ProductGrows
  <2>2. (at * den) * side = at * (side * den) /\ at * (length * num) = (at * length) * num
    BY <1>1
  <2>3. at * (side * den) <= at * (length * num)
    BY <1>1
  <2>4. (b * num) * side <= (at * length) * num
    BY <2>1, <2>2, <2>3, <1>1, <1>3
  <2>5. (b * side) * num <= (at * length) * num
    BY <2>4, <1>1, <1>3
  <2>6. b * side <= at * length
    BY <2>5, <1>1, <1>3, CancelLeq
  <2>7. b * side < side * f + side
    BY <2>6, <1>1, <1>2, <1>3
  <2>8. b * side < (f + 1) * side
    BY <2>7, <1>1, <1>2, <1>3
  <2>9. b < f + 1
    BY <2>8, <1>1, <1>2, <1>3, Cancel
  <2> QED
    BY <2>9, <1>2, <1>3
<1>6. f * num <= at * den + step * den
  <2>1. (f * side) * num <= (at * length) * num
    BY <1>1, <1>2, ProductGrows
  <2>2. (at * length) * num = at * (length * num)
    BY <1>1
  <2>3. at * (length * num) <= at * ((side + step) * den)
    BY <1>1
  <2>4. at * ((side + step) * den) = (at * den) * side + at * (step * den)
    BY <1>1
  <2>5. at * (step * den) <= side * (step * den)
    BY <1>1, ProductGrows
  <2>6. (f * side) * num <= (at * den) * side + side * (step * den)
    BY <2>1, <2>2, <2>3, <2>4, <2>5, <1>1, <1>2
  <2>7. (f * side) * num = (f * num) * side
        /\ (at * den) * side + side * (step * den) = (at * den + step * den) * side
    BY <1>1, <1>2
  <2>8. (f * num) * side <= (at * den + step * den) * side
    BY <2>6, <2>7
  <2> QED
    BY <2>8, <1>1, <1>2, CancelLeq
<1>7. f * num < (b + c + 2) * num
  <2>1. f * num < num * b + num + (num * c + num)
    BY <1>1, <1>2, <1>3, <1>4, <1>6
  <2>2. num * b + num + (num * c + num) = (b + c + 2) * num
    BY <1>3, <1>4
  <2> QED
    BY <2>1, <2>2
<1>8. f < b + c + 2
  BY <1>2, <1>3, <1>4, <1>7, Cancel
<1>9. f - b \in 0 .. c + 1
  BY <1>2, <1>3, <1>4, <1>5, <1>8
<1> QED
  BY <1>9 DEF f, b, c

\* What resize_w and resize_h become: something is left, and less than step is cut off.
LEMMA AlignedQuotient ==
    ASSUME NEW length \in Nat \ {0}, NEW num \in Nat \ {0}, NEW den \in Nat \ {0},
           NEW step \in {2, 4}, step * den <= length * num
    PROVE  LET size == Aligned((length * num) \div den, step)
           IN /\ size \in Nat \ {0} /\ size <= (length * num) \div den
              /\ size * den <= length * num /\ length * num < (size + step) * den
<1> DEFINE q == (length * num) \div den
           z == Aligned(q, step)
<1>1. length * num \in Nat
  OBVIOUS
<1>2. q \in Nat /\ den * q <= length * num /\ length * num < den * q + den
  BY <1>1, Quotient
<1> HIDE DEF q
<1>3. z \in Nat /\ z <= q /\ q < z + step
  BY <1>2, AlignedBounds
<1> HIDE DEF z
<1>4. z * den <= length * num
  <2>1. z * den <= q * den
    BY <1>2, <1>3, ProductGrows
  <2> QED
    BY <2>1, <1>1, <1>2, <1>3
<1>5. length * num < (z + step) * den
  <2>1. step \in Nat /\ (q + 1) * den <= (z + step) * den
    BY <1>2, <1>3, ProductGrows
  <2>2. (q + 1) * den = den * q + den
    BY <1>2
  <2> QED
    BY <2>1, <2>2, <1>1, <1>2, <1>3
<1>6. z # 0
  <2>1. step * den < (q + 1) * den
    BY <1>1, <1>2
  <2>2. step < q + 1
    BY <2>1, <1>2, Cancel
  <2>3. step <= q
    BY <2>2, <1>2
  <2>4. z = q - (q % step) /\ q % step \in 0 .. step - 1
    BY <1>2 DEF z, Aligned
  <2> QED
    BY <2>3, <2>4, <1>2
<1> QED
  BY <1>3, <1>4, <1>5, <1>6 DEF z, q

\* size pixels from pad on lie within side and stand for length pixels of the frame, up to step.
Covers(pad, size, side, length, scale, step) ==
    /\ pad \in Nat /\ size \in Nat \ {0} /\ pad + size <= side
    /\ size * scale.den <= length * scale.num
    /\ length * scale.num < (size + step) * scale.den

\* The side that is padded.
LEMMA PaddedSide ==
    ASSUME NEW length \in Nat \ {0}, NEW other \in Nat \ {0},
           NEW side \in Nat \ {0}, NEW whole \in Nat \ {0},
           NEW step \in {2, 4}, whole * length <= side * other, step * other <= length * whole
    PROVE  LET size == Aligned((length * whole) \div other, step)
           IN Covers(Aligned((side - size) \div 2, 2), size, side, length,
                     [num |-> whole, den |-> other], step)
<1> DEFINE size == Aligned((length * whole) \div other, step)
           q == (length * whole) \div other
           pad == Aligned((side - size) \div 2, 2)
<1>1. /\ size \in Nat \ {0} /\ size <= q
      /\ size * other <= length * whole /\ length * whole < (size + step) * other
  BY AlignedQuotient
<1> HIDE DEF size
<1>2. size <= side
  <2>1. length * whole = whole * length
    OBVIOUS
  <2>2. size * other <= side * other
    BY <1>1, <2>1
  <2> QED
    BY <1>1, <2>2, CancelLeq
<1>3. pad \in Nat /\ pad <= side - size
  <2>1. side - size \in Nat
    BY <1>1, <1>2
  <2>2. (side - size) \div 2 \in Nat /\ (side - size) \div 2 <= side - size
    BY <2>1
  <2>3. pad \in Nat /\ pad <= (side - size) \div 2
    BY <2>2, AlignedBounds
  <2> QED
    BY <1>1, <2>1, <2>2, <2>3
<1> HIDE DEF pad
<1>4. pad + size <= side
  BY <1>1, <1>3
<1>5. Covers(pad, size, side, length, [num |-> whole, den |-> other], step)
  BY <1>1, <1>3, <1>4 DEF Covers
<1> QED
  BY <1>5 DEF pad, size

\* The side that is filled.
LEMMA FilledSide ==
    ASSUME NEW length \in Nat \ {0}, NEW side \in Nat \ {0}, NEW step \in {2, 4}
    PROVE  Covers(0, side, side, length, [num |-> side, den |-> length], step)
<1>1. side * length = length * side /\ (side + step) * length = length * side + step * length
  OBVIOUS
<1>2. step * length > 0
  OBVIOUS
<1> QED
  BY <1>1, <1>2 DEF Covers

\* What SizesAssumption says of one size.
SizeOK(size) ==
        /\ {size.w, size.h} \subseteq Nat \ {0, 1}
        /\ 4 * size.h <= size.w * ModelHeight /\ 2 * size.w <= size.h * ModelWidth

\* convert_image_with_letterbox, for both sides, whichever of the two is filled.
LEMMA BoxCovers ==
    ASSUME NEW src, SizeOK(src)
    PROVE  LET box == WithLetterbox(src, Model)
           IN /\ box.scale.num \in Nat \ {0} /\ box.scale.den \in Nat \ {0}
              /\ Covers(box.x_pad, box.size.w, ModelWidth, src.w, box.scale, 4)
              /\ Covers(box.y_pad, box.size.h, ModelHeight, src.h, box.scale, 2)
<1>1. /\ src.w \in Nat \ {0} /\ src.h \in Nat \ {0}
      /\ ModelWidth \in Nat \ {0} /\ ModelHeight \in Nat \ {0}
      /\ 4 * src.h <= src.w * ModelHeight /\ 2 * src.w <= src.h * ModelWidth
  BY DetectionsAssumption DEF SizeOK
<1> DEFINE box == WithLetterbox(src, Model)
           W == Wider(src, Model)
<1>2. W <=> ModelWidth * src.h < ModelHeight * src.w
  BY DEF Wider, Model
<1>3. CASE W
  <2> DEFINE size == Aligned((src.h * ModelWidth) \div src.w, 2)
             scale == [num |-> ModelWidth, den |-> src.w]
  <2>1. box = [x_pad |-> 0, y_pad |-> Aligned((ModelHeight - size) \div 2, 2),
               scale |-> scale, size |-> [w |-> ModelWidth, h |-> size]]
    BY <1>3 DEF WithLetterbox, Resized, Scale, Model
  <2>2. Covers(Aligned((ModelHeight - size) \div 2, 2), size, ModelHeight, src.h, scale, 2)
    <3>1. ModelWidth * src.h <= ModelHeight * src.w
      BY <1>1, <1>2, <1>3
    <3> QED
      BY <1>1, <3>1, PaddedSide
  <2>3. Covers(0, ModelWidth, ModelWidth, src.w, scale, 4)
    BY <1>1, FilledSide
  <2> HIDE DEF size
  <2>4. /\ box.scale = scale /\ box.x_pad = 0 /\ box.size.w = ModelWidth
        /\ box.y_pad = Aligned((ModelHeight - size) \div 2, 2) /\ box.size.h = size
    BY <2>1
  <2>5. scale.num \in Nat \ {0} /\ scale.den \in Nat \ {0}
    BY <1>1
  <2> HIDE DEF box, scale
  <2>6. /\ box.scale.num \in Nat \ {0} /\ box.scale.den \in Nat \ {0}
        /\ Covers(box.x_pad, box.size.w, ModelWidth, src.w, box.scale, 4)
        /\ Covers(box.y_pad, box.size.h, ModelHeight, src.h, box.scale, 2)
    BY <2>2, <2>3, <2>4, <2>5
  <2> QED
    BY <2>6 DEF box
<1>4. CASE ~W
  <2> DEFINE size == Aligned((src.w * ModelHeight) \div src.h, 4)
             scale == [num |-> ModelHeight, den |-> src.h]
  <2>1. box = [x_pad |-> Aligned((ModelWidth - size) \div 2, 2), y_pad |-> 0,
               scale |-> scale, size |-> [w |-> size, h |-> ModelHeight]]
    BY <1>4 DEF WithLetterbox, Resized, Scale, Model
  <2>2. Covers(Aligned((ModelWidth - size) \div 2, 2), size, ModelWidth, src.w, scale, 4)
    <3>1. ModelHeight * src.w <= ModelWidth * src.h
      BY <1>1, <1>2, <1>4
    <3> QED
      BY <1>1, <3>1, PaddedSide
  <2>3. Covers(0, ModelHeight, ModelHeight, src.h, scale, 2)
    BY <1>1, FilledSide
  <2> HIDE DEF size
  <2>4. /\ box.scale = scale /\ box.y_pad = 0 /\ box.size.h = ModelHeight
        /\ box.x_pad = Aligned((ModelWidth - size) \div 2, 2) /\ box.size.w = size
    BY <2>1
  <2>5. scale.num \in Nat \ {0} /\ scale.den \in Nat \ {0}
    BY <1>1
  <2> HIDE DEF box, scale
  <2>6. /\ box.scale.num \in Nat \ {0} /\ box.scale.den \in Nat \ {0}
        /\ Covers(box.x_pad, box.size.w, ModelWidth, src.w, box.scale, 4)
        /\ Covers(box.y_pad, box.size.h, ModelHeight, src.h, box.scale, 2)
    BY <2>2, <2>3, <2>4, <2>5
  <2> QED
    BY <2>6 DEF box
<1> QED
  BY <1>3, <1>4

\* What FitFrame has answered is the letterbox of the frame it was asked for.
FitInv ==
    /\ "frame" \in DOMAIN input => \E src \in Sizes : input = [frame |-> src]
    /\ Answered("box") => /\ "frame" \in DOMAIN input
                          /\ output = [box |-> WithLetterbox(input.frame, Model)]

\* A call begins unanswered.
LEMMA InitFit == Init => FitInv
<1> SUFFICES ASSUME Init PROVE FitInv
  OBVIOUS
<1>1. ~Answered("box")
  BY DEF Init, Answered
<1>2. "frame" \in DOMAIN input => \E src \in Sizes : input = [frame |-> src]
  BY DEF Init
<1> QED
  BY <1>1, <1>2 DEF FitInv

\* No other call answers with a box.
LEMMA FitNext == FitInv /\ [Next]_vars => FitInv'
<1> SUFFICES ASSUME FitInv, [Next]_vars PROVE FitInv'
  OBVIOUS
<1>1. CASE DetectObjects
  BY <1>1 DEF DetectObjects, FitInv, Answered
<1>2. CASE FitFrame
  BY <1>2 DEF FitFrame, Called, FitInv, Answered
<1>3. CASE DetectFaces
  BY <1>3 DEF DetectFaces, FitInv, Answered
<1>4. CASE AlignSounds
  BY <1>4 DEF AlignSounds, MiddleProcess, FitInv, Answered
<1>5. CASE SpeakText
  BY <1>5 DEF SpeakText, FitInv, Answered
<1>6. CASE ReadConfig
  BY <1>6 DEF ReadConfig, FitInv, Answered
<1>7. CASE UNCHANGED vars
  BY <1>7 DEF vars, FitInv, Answered
<1> QED
  BY <1>1, <1>2, <1>3, <1>4, <1>5, <1>6, <1>7 DEF Next

\* crop_and_scale_image_c reads inside the frame, on the last row and column too.
LEMMA TapsInFrame ==
    ASSUME NEW src, src.w \in Nat \ {0, 1}, src.h \in Nat \ {0, 1},
           NEW size, size.w \in Nat, size.h \in Nat,
           NEW x \in 0 .. size.w - 1, NEW y \in 0 .. size.h - 1
    PROVE  /\ Taps(src, size, x, y) \subseteq (0 .. src.w - 1) \X (0 .. src.h - 1)
           /\ Taps(src, size, x, y) # {}
<1>1. ASSUME NEW length \in Nat \ {0, 1}, NEW at \in 0 .. length - 1
      PROVE  {at, Neighbour(at, length)} \subseteq 0 .. length - 1
  BY DEF Neighbour
<1> DEFINE sx == (x * src.w) \div size.w
           sy == (y * src.h) \div size.h
<1>2. sx \in 0 .. src.w - 1 /\ sy \in 0 .. src.h - 1
  BY ScaledWithin
<1>3. Taps(src, size, x, y) = {sx, Neighbour(sx, src.w)} \X {sy, Neighbour(sy, src.h)}
  BY DEF Taps
<1> HIDE DEF sx, sy
<1>4. /\ {sx, Neighbour(sx, src.w)} \subseteq 0 .. src.w - 1
      /\ {sy, Neighbour(sy, src.h)} \subseteq 0 .. src.h - 1
  BY <1>1, <1>2
<1>5. <<sx, sy>> \in {sx, Neighbour(sx, src.w)} \X {sy, Neighbour(sy, src.h)}
  OBVIOUS
<1> QED
  BY <1>3, <1>4, <1>5

\* convert_image_with_letterbox fits every frame whose aligned size is not nothing.
LEMMA Fitting ==
    ASSUME NEW src, SizeOK(src)
    PROVE  Fits(src, WithLetterbox(src, Model))
<1>1. PICK box : box = WithLetterbox(src, Model)
  OBVIOUS
<1>2. /\ box.scale.num \in Nat \ {0} /\ box.scale.den \in Nat \ {0}
      /\ Covers(box.x_pad, box.size.w, ModelWidth, src.w, box.scale, 4)
      /\ Covers(box.y_pad, box.size.h, ModelHeight, src.h, box.scale, 2)
  BY <1>1, BoxCovers
<1>3. /\ src.w \in Nat \ {0, 1} /\ src.h \in Nat \ {0, 1}
      /\ Model.w = ModelWidth /\ Model.h = ModelHeight
      /\ ModelWidth \in Nat /\ ModelHeight \in Nat
  BY DetectionsAssumption DEF SizeOK, Model
<1>4. /\ box.size.w \in Nat \ {0} /\ box.x_pad \in Nat /\ box.x_pad + box.size.w <= Model.w
      /\ box.size.h \in Nat \ {0} /\ box.y_pad \in Nat /\ box.y_pad + box.size.h <= Model.h
  BY <1>2, <1>3 DEF Covers
<1>5. ASSUME NEW x \in 0 .. Model.w - 1, NEW y \in 0 .. Model.h - 1
      PROVE  /\ Shows(src, box, x, y) \subseteq (0 .. src.w - 1) \X (0 .. src.h - 1)
             /\ (Shows(src, box, x, y) # {}) =
                  (x - box.x_pad \in 0 .. box.size.w - 1 /\ y - box.y_pad \in 0 .. box.size.h - 1)
  <2>1. CASE x - box.x_pad \in 0 .. box.size.w - 1 /\ y - box.y_pad \in 0 .. box.size.h - 1
    <3>1. Shows(src, box, x, y) = Taps(src, box.size, x - box.x_pad, y - box.y_pad)
      BY <2>1 DEF Shows
    <3> QED
      BY <1>3, <1>4, <2>1, <3>1, TapsInFrame
  <2>2. CASE ~(x - box.x_pad \in 0 .. box.size.w - 1 /\ y - box.y_pad \in 0 .. box.size.h - 1)
    BY <2>2 DEF Shows
  <2> QED
    BY <2>1, <2>2
<1>6. ASSUME NEW x \in 0 .. box.size.w - 1, NEW y \in 0 .. box.size.h - 1
      PROVE  LET from == TakenFrom(src, box.size, x, y)
                 backX == ToFrame(x + box.x_pad, box.x_pad, Model.w, box.scale)
                 backY == ToFrame(y + box.y_pad, box.y_pad, Model.h, box.scale)
             IN /\ from.x - backX \in 0 .. (4 * box.scale.den) \div box.scale.num + 1
                /\ from.y - backY \in 0 .. (2 * box.scale.den) \div box.scale.num + 1
  <2>1. (x * src.w) \div box.size.w - (x * box.scale.den) \div box.scale.num
            \in 0 .. (4 * box.scale.den) \div box.scale.num + 1
    BY <1>2, <1>3, <1>4, BackWhereTaken DEF Covers
  <2>2. (y * src.h) \div box.size.h - (y * box.scale.den) \div box.scale.num
            \in 0 .. (2 * box.scale.den) \div box.scale.num + 1
    BY <1>2, <1>3, <1>4, BackWhereTaken DEF Covers
  <2>5. /\ box.size.w \in Nat /\ box.x_pad \in Nat /\ Model.w \in Nat
        /\ box.size.h \in Nat /\ box.y_pad \in Nat /\ Model.h \in Nat
        /\ box.x_pad + box.size.w <= Model.w /\ box.y_pad + box.size.h <= Model.h
    BY <1>3, <1>4
  <2>3. ToFrame(x + box.x_pad, box.x_pad, Model.w, box.scale) = (x * box.scale.den) \div box.scale.num
    <3>1. Between((x + box.x_pad) - box.x_pad, 0, Model.w) = x
      BY <2>5 DEF Between
    <3>2. ToFrame(x + box.x_pad, box.x_pad, Model.w, box.scale)
            = (Between((x + box.x_pad) - box.x_pad, 0, Model.w) * box.scale.den) \div box.scale.num
      BY DEF ToFrame
    <3> QED
      BY <3>1, <3>2
  <2>4. ToFrame(y + box.y_pad, box.y_pad, Model.h, box.scale) = (y * box.scale.den) \div box.scale.num
    <3>1. Between((y + box.y_pad) - box.y_pad, 0, Model.h) = y
      BY <2>5 DEF Between
    <3>2. ToFrame(y + box.y_pad, box.y_pad, Model.h, box.scale)
            = (Between((y + box.y_pad) - box.y_pad, 0, Model.h) * box.scale.den) \div box.scale.num
      BY DEF ToFrame
    <3> QED
      BY <3>1, <3>2
  <2> QED
    BY <2>1, <2>2, <2>3, <2>4 DEF TakenFrom
<1>7. box.size.w > 0 /\ box.size.h > 0
  BY <1>4
<1>8. Fits(src, box)
  BY <1>4, <1>5, <1>6, <1>7, Zenon DEF Fits
<1> QED
  BY <1>1, <1>8

\* For every size of the camera and of the model, the frame lies inside the input of yolo, no pixel
\* is read from outside the frame, and a place is mapped back to where it was taken from but for the
\* alignment (convert_image_with_letterbox, post_process).
THEOREM FrameAlwaysFitsModel == Spec => []FrameFitsModel
<1>1. FitInv => FrameFitsModel
  <2> SUFFICES ASSUME FitInv, Answered("box") PROVE FrameFitsModel
    BY Zenon DEF FrameFitsModel
  <2>1. PICK src \in Sizes : input = [frame |-> src]
    BY DEF FitInv
  <2>2. input.frame = src /\ output.box = WithLetterbox(src, Model)
    BY <2>1 DEF FitInv
  <2>3. Fits(src, WithLetterbox(src, Model))
    BY <2>1, SizesAssumption, Fitting DEF SizeOK
  <2> QED
    BY <2>2, <2>3, ZenonT(30) DEF FrameFitsModel, Fits
<1> QED
  BY <1>1, InitFit, FitNext, PTL DEF Spec

-----------------------------------------------------------------------------
(* Sums of durations *)

\* The less of two numbers.
LEMMA MinOfTwo ==
    ASSUME NEW a \in Int, NEW b \in Int
    PROVE  Min({a, b}) = IF a <= b THEN a ELSE b
<1> DEFINE least == IF a <= b THEN a ELSE b
<1>1. least \in {a, b} /\ \A y \in {a, b} : least <= y
  OBVIOUS
<1>2. \A x \in {a, b} : (\A y \in {a, b} : x <= y) => x = least
  OBVIOUS
<1> HIDE DEF least
<1>3. Min({a, b}) = least
  BY <1>1, <1>2 DEF Min
<1> QED
  BY <1>3 DEF least

\* The greater of two numbers.
LEMMA MaxOfTwo ==
    ASSUME NEW a \in Int, NEW b \in Int
    PROVE  Max({a, b}) = IF a >= b THEN a ELSE b
<1> DEFINE most == IF a >= b THEN a ELSE b
<1>1. most \in {a, b} /\ \A y \in {a, b} : most >= y
  OBVIOUS
<1>2. \A x \in {a, b} : (\A y \in {a, b} : x >= y) => x = most
  OBVIOUS
<1> HIDE DEF most
<1>3. Max({a, b}) = most
  BY <1>1, <1>2 DEF Max
<1> QED
  BY <1>3 DEF most

\* ends is where each sound ends, given the frames of each.
Sums(ends, given) ==
    ends = [i \in 0 .. MaxLength |-> IF i = 0 THEN 0 ELSE ends[i - 1] + given[i]]

\* The recursive function exists.
LEMMA SumsExist ==
    ASSUME NEW given
    PROVE  \E ends : Sums(ends, given)
<1> DEFINE Upto(f, m) == f = [n \in 0 .. m |-> IF n = 0 THEN 0 ELSE f[n - 1] + given[n]]
           T == {m \in Nat : \E f : Upto(f, m)}
<1>1. 0 \in T
  <2>1. Upto([n \in 0 .. 0 |-> 0], 0)
    OBVIOUS
  <2> QED BY <2>1
<1>2. ASSUME NEW m \in Nat, m \in T PROVE m + 1 \in T
  <2>1. PICK f : Upto(f, m)
    BY <1>2
  <2> DEFINE g == [n \in 0 .. m + 1 |-> IF n = m + 1 THEN f[m] + given[n] ELSE f[n]]
  <2>2. \A n \in 0 .. m : f[n] = IF n = 0 THEN 0 ELSE f[n - 1] + given[n]
    BY <2>1
  <2>3. ASSUME NEW n \in 0 .. m + 1
        PROVE  g[n] = IF n = 0 THEN 0 ELSE g[n - 1] + given[n]
    <3>1. CASE n = m + 1
      <4>1. n # 0 /\ n - 1 = m /\ n - 1 \in 0 .. m + 1 /\ n - 1 # m + 1
        BY <3>1
      <4> QED BY <3>1, <4>1
    <3>2. CASE n = 0
      <4>1. n # m + 1 /\ n \in 0 .. m
        BY <3>2
      <4> QED BY <2>2, <3>2, <4>1
    <3>3. CASE n # m + 1 /\ n # 0
      <4>1. n \in 0 .. m /\ n - 1 \in 0 .. m + 1 /\ n - 1 # m + 1
        BY <3>3
      <4>2. g[n] = f[n] /\ g[n - 1] = f[n - 1]
        BY <3>3, <4>1
      <4> QED BY <2>2, <3>3, <4>1, <4>2
    <3> QED BY <3>1, <3>2, <3>3
  <2>4. Upto(g, m + 1)
    <3>1. g = [n \in 0 .. m + 1 |-> g[n]]
      OBVIOUS
    <3> HIDE DEF g
    <3> QED BY <2>3, <3>1
  <2> HIDE DEF Upto, g
  <2> QED BY <2>4
<1>3. Nat \subseteq T
  <2> HIDE DEF T
  <2> QED BY <1>1, <1>2, NatSet
<1>4. MaxLength \in Nat
  BY AlignAssumption
<1>5. QED
  BY <1>3, <1>4 DEF Sums

\* How the ends go on from sound to sound, in natural numbers and never down.
LEMMA EndsGrow ==
    ASSUME NEW given \in [Sounds -> Nat]
    PROVE  /\ Ends(given)[0] = 0
           /\ \A i \in 0 .. MaxLength : Ends(given)[i] \in Nat
           /\ \A i \in Sounds : Ends(given)[i] = Ends(given)[i - 1] + given[i]
           /\ \A i, k \in 0 .. MaxLength : i <= k => Ends(given)[i] <= Ends(given)[k]
<1>1. PICK ends : ends = Ends(given) /\ Sums(ends, given)
  BY SumsExist, Zenon DEF Ends, Sums
<1>2. MaxLength \in Nat /\ Sounds = 1 .. MaxLength
  BY AlignAssumption DEF Sounds
<1>3. ends[0] = 0 /\ \A i \in Sounds : i - 1 \in 0 .. MaxLength /\ ends[i] = ends[i - 1] + given[i]
  BY <1>1, <1>2 DEF Sums
<1> DEFINE T == {n \in Nat : n <= MaxLength => ends[n] \in Nat}
<1>4. 0 \in T
  BY <1>3
<1>5. ASSUME NEW n \in Nat, n \in T PROVE n + 1 \in T
  <2> SUFFICES ASSUME n + 1 <= MaxLength PROVE ends[n + 1] \in Nat
    OBVIOUS
  <2>1. n + 1 \in Sounds /\ ends[n] \in Nat /\ n + 1 - 1 = n
    BY <1>2, <1>5
  <2>2. ends[n + 1] = ends[n] + given[n + 1] /\ given[n + 1] \in Nat
    BY <1>3, <2>1
  <2> QED
    BY <2>1, <2>2
<1>6. Nat \subseteq T
  <2> HIDE DEF T
  <2> QED BY <1>4, <1>5, NatSet
<1>7. \A i \in 0 .. MaxLength : ends[i] \in Nat
  BY <1>2, <1>6
<1>8. ASSUME NEW i \in 0 .. MaxLength
      PROVE  \A k \in 0 .. MaxLength : i <= k => ends[i] <= ends[k]
  <2> DEFINE U == {n \in Nat : n <= MaxLength => (i <= n => ends[i] <= ends[n])}
  <2>1. 0 \in U
    BY <1>7
  <2>2. ASSUME NEW n \in Nat, n \in U PROVE n + 1 \in U
    <3> SUFFICES ASSUME n + 1 <= MaxLength, i <= n + 1 PROVE ends[i] <= ends[n + 1]
      OBVIOUS
    <3>1. n + 1 \in Sounds /\ n \in 0 .. MaxLength /\ n + 1 \in 0 .. MaxLength /\ n + 1 - 1 = n
      BY <1>2
    <3>2. /\ ends[n + 1] = ends[n] + given[n + 1] /\ given[n + 1] \in Nat
          /\ ends[n] \in Nat /\ ends[n + 1] \in Nat
      BY <1>3, <1>7, <3>1
    <3>3. CASE i = n + 1
      BY <3>2, <3>3
    <3>4. CASE i <= n
      <4>1. ends[i] <= ends[n] /\ ends[i] \in Nat
        BY <1>7, <2>2, <3>1, <3>4
      <4> QED
        BY <3>2, <4>1
    <3> QED
      BY <3>3, <3>4
  <2>3. Nat \subseteq U
    <3> HIDE DEF U
    <3> QED BY <2>1, <2>2, NatSet
  <2> QED
    BY <1>2, <2>3
<1> QED
  BY <1>1, <1>3, <1>7, <1>8

-----------------------------------------------------------------------------
(* The attention *)

\* compute_duration rounds up: as many frames as begin before the sound is over.
LEMMA WholeFrames ==
    ASSUME NEW p \in Nat
    PROVE  /\ (p + 999) \div 1000 \in Nat
           /\ Cardinality({n \in 0 .. p : 1000 * n < p}) = (p + 999) \div 1000
<1> DEFINE c == (p + 999) \div 1000
<1>1. c \in Nat /\ 1000 * c <= p + 999 /\ p + 999 < 1000 * c + 1000
  OBVIOUS
<1> HIDE DEF c
<1>2. {n \in 0 .. p : 1000 * n < p} = 0 .. c - 1
  <2>1. ASSUME NEW n \in 0 .. p, 1000 * n < p PROVE n \in 0 .. c - 1
    BY <1>1, <2>1
  <2>2. ASSUME NEW n \in 0 .. c - 1 PROVE n \in 0 .. p /\ 1000 * n < p
    BY <1>1
  <2> QED
    BY <2>1, <2>2
<1>3. Cardinality(0 .. c - 1) = c
  BY <1>1, FS_Interval
<1>4. Cardinality({n \in 0 .. p : 1000 * n < p}) = c
  BY <1>2, <1>3, Zenon
<1> QED
  BY <1>1, <1>4 DEF c

\* What a sound lasts, in thousandths of a frame.
LengthOf(exp, percent, i) == IF i \in DOMAIN exp THEN exp[i] * percent ELSE 0

\* What AlignSounds hands over.
Predicted(exp) == [i \in Sounds |-> IF i \in DOMAIN exp THEN exp[i] ELSE 0]

\* And its mask.
Masked(exp) == [i \in Sounds |-> IF i \in DOMAIN exp THEN 1 ELSE 0]

\* compute_duration gives each sound the frames it needs, and none to what is no sound.
LEMMA DurationIsGiven ==
    ASSUME NEW exp \in Seq(Nat), NEW percent \in Nat
    PROVE  /\ GivenTo(exp, percent) \in [Sounds -> Nat]
           /\ Duration(Predicted(exp), Masked(exp), percent) = GivenTo(exp, percent)
           /\ \A i \in Sounds \ DOMAIN exp : GivenTo(exp, percent)[i] = 0
<1>1. ASSUME NEW i \in Sounds
      PROVE  /\ LengthOf(exp, percent, i) \in Nat
             /\ Predicted(exp)[i] * Masked(exp)[i] * percent = LengthOf(exp, percent, i)
  <2>1. CASE i \in DOMAIN exp
    <3>1. exp[i] \in Nat
      BY <2>1
    <3>2. /\ Predicted(exp)[i] = exp[i] /\ Masked(exp)[i] = 1
          /\ LengthOf(exp, percent, i) = exp[i] * percent
      BY <2>1 DEF Predicted, Masked, LengthOf
    <3> QED
      BY <3>1, <3>2
  <2>2. CASE i \notin DOMAIN exp
    BY <2>2 DEF Predicted, Masked, LengthOf
  <2> QED
    BY <2>1, <2>2
<1>2. ASSUME NEW i \in Sounds
      PROVE  /\ (LengthOf(exp, percent, i) + 999) \div 1000 \in Nat
             /\ GivenTo(exp, percent)[i] = (LengthOf(exp, percent, i) + 999) \div 1000
  <2>1. PICK p \in Nat : p = LengthOf(exp, percent, i)
    BY <1>1
  <2>2. GivenTo(exp, percent)[i] = Cardinality({n \in 0 .. p : 1000 * n < p})
    <3>1. GivenTo(exp, percent) =
            [k \in Sounds |->
                Cardinality({n \in 0 .. LengthOf(exp, percent, k) : 1000 * n < LengthOf(exp, percent, k)})]
      BY DEF GivenTo, LengthOf
    <3>2. GivenTo(exp, percent)[i]
            = Cardinality({n \in 0 .. LengthOf(exp, percent, i) : 1000 * n < LengthOf(exp, percent, i)})
      BY <3>1, Zenon
    <3> QED
      BY <2>1, <3>2
  <2> DEFINE whole == Cardinality({n \in 0 .. p : 1000 * n < p})
  <2>3. (p + 999) \div 1000 \in Nat /\ whole = (p + 999) \div 1000
    BY WholeFrames
  <2> HIDE DEF whole
  <2>4. GivenTo(exp, percent)[i] = whole
    BY <2>2 DEF whole
  <2> QED
    BY <2>1, <2>3, <2>4
<1>3. GivenTo(exp, percent) \in [Sounds -> Nat]
  <2>1. GivenTo(exp, percent) = [i \in Sounds |-> GivenTo(exp, percent)[i]]
    BY DEF GivenTo
  <2> QED
    BY <1>2, <2>1
<1>4. Duration(Predicted(exp), Masked(exp), percent)
        = [i \in Sounds |-> (LengthOf(exp, percent, i) + 999) \div 1000]
  BY <1>1 DEF Duration
<1>5. GivenTo(exp, percent) = [i \in Sounds |-> (LengthOf(exp, percent, i) + 999) \div 1000]
  BY <1>2, <1>3
<1>6. \A i \in Sounds \ DOMAIN exp : GivenTo(exp, percent)[i] = 0
  BY <1>2 DEF LengthOf
<1> QED
  BY <1>3, <1>4, <1>5, <1>6

\* cumsum sums up where each sound ends.
LEMMA CumSumIsEnds ==
    ASSUME NEW given \in [Sounds -> Nat]
    PROVE  \A i \in Sounds : CumSum(given)[i] = Ends(given)[i]
BY Zenon DEF CumSum, Ends

\* One element of the answer of transpose_mul.
LEMMA AttentionOfFrame ==
    ASSUME NEW cum, NEW yMask, NEW xMask, NEW i \in Sounds, NEW j \in Frames
    PROVE  TransposeMul(PadIndices(ValidIndices(cum)), AttnMask(yMask, xMask))[j][i] =
             ((IF j < cum[i] THEN 1 ELSE 0) - (IF i = 1 THEN 0 ELSE IF j < cum[i - 1] THEN 1 ELSE 0))
               * (yMask[j] * xMask[i])
<1>1. ValidIndices(cum)[i][j] = IF j < cum[i] THEN 1 ELSE 0
  BY DEF ValidIndices
<1>2. i # 1 => ValidIndices(cum)[i - 1][j] = IF j < cum[i - 1] THEN 1 ELSE 0
  <2>1. i # 1 => i - 1 \in Sounds
    BY AlignAssumption DEF Sounds
  <2> QED
    BY <2>1 DEF ValidIndices
<1>3. PadIndices(ValidIndices(cum))[i][j] = 
       (IF j < cum[i] THEN 1 ELSE 0) - (IF i = 1 THEN 0 ELSE IF j < cum[i - 1] THEN 1 ELSE 0)
  BY <1>1, <1>2 DEF PadIndices
<1>4. AttnMask(yMask, xMask)[i][j] = yMask[j] * xMask[i]
  BY DEF AttnMask
<1> QED
  BY <1>3, <1>4 DEF TransposeMul

\* Frame j lies between the end of the sound before and the end of sound i.
Owns(ends, i, j) == ends[i - 1] <= j /\ j < ends[i]

\* Each frame is marked for the sound it lies in.
Apportioned(attn, ends) ==
    \A j \in Frames, i \in Sounds : attn[j][i] = IF Owns(ends, i, j) THEN 1 ELSE 0

\* How many frames there are when the last sound ends at total.
RealLength(total) ==
    IF total >= PredictedLengthsMax THEN PredictedLengthsMax ELSE IF total >= 1 THEN total ELSE 1

\* middle_process marks a frame for a sound exactly where the sound lies.
LEMMA AttentionIsOwnership ==
    ASSUME NEW exp \in Seq(Nat), NEW percent \in Nat,
           NEW out, out = MiddleProcess(Predicted(exp), Masked(exp), percent),
           NEW ends, ends = Ends(GivenTo(exp, percent))
    PROVE  /\ out.real = RealLength(ends[MaxLength])
           /\ out.real = Min({PredictedLengthsMax, Max({1, ends[MaxLength]})})
           /\ Apportioned(out.attn, ends)
<1>1. PICK given : given = GivenTo(exp, percent)
  OBVIOUS
<1>2. /\ given \in [Sounds -> Nat] /\ ends = Ends(given)
      /\ Duration(Predicted(exp), Masked(exp), percent) = given
      /\ \A i \in Sounds \ DOMAIN exp : given[i] = 0
  BY <1>1, DurationIsGiven, Zenon
<1>3. /\ ends[0] = 0
      /\ \A i \in 0 .. MaxLength : ends[i] \in Nat
      /\ \A i \in Sounds : ends[i] = ends[i - 1] + given[i]
      /\ \A i, k \in 0 .. MaxLength : i <= k => ends[i] <= ends[k]
  BY <1>2, EndsGrow, Zenon
<1>4. \A i \in Sounds : CumSum(given)[i] = ends[i]
  BY <1>2, CumSumIsEnds, Zenon
<1>5. /\ MaxLength \in Nat \ {0} /\ PredictedLengthsMax \in Nat \ {0}
      /\ Sounds = 1 .. MaxLength /\ Frames = 0 .. PredictedLengthsMax - 1
      /\ MaxLength \in Sounds
  BY AlignAssumption DEF Sounds, Frames
<1> DEFINE total == ends[MaxLength]
           real == Min({PredictedLengthsMax, Max({1, total})})
           attn == TransposeMul(PadIndices(ValidIndices(CumSum(given))),
                                AttnMask(OutputMask(real), Masked(exp)))
<1>6. total \in Nat
  BY <1>3, <1>5
<1>7. out.real = real /\ out.attn = attn
  <2>1. CumSum(given)[MaxLength] = total
    BY <1>4, <1>5
  <2> QED
    BY <1>2, <2>1 DEF MiddleProcess
<1>8. real = IF total >= PredictedLengthsMax THEN PredictedLengthsMax
             ELSE IF total >= 1 THEN total ELSE 1
  <2>1. Max({1, total}) = IF total >= 1 THEN total ELSE 1
    <3>1. Max({1, total}) = IF 1 >= total THEN 1 ELSE total
      BY <1>6, MaxOfTwo
    <3> QED
      BY <1>6, <3>1
  <2>2. PICK most \in Nat : most = Max({1, total})
    BY <1>6, <2>1
  <2>3. Min({PredictedLengthsMax, most})
          = IF PredictedLengthsMax <= most THEN PredictedLengthsMax ELSE most
    BY <1>5, MinOfTwo
  <2>4. real = Min({PredictedLengthsMax, most})
    BY <2>2
  <2> HIDE DEF real, total
  <2> QED
    BY <1>5, <1>6, <2>1, <2>2, <2>3, <2>4
<1>9. ASSUME NEW j \in Frames, NEW i \in Sounds
      PROVE  attn[j][i] = IF Owns(ends, i, j) THEN 1 ELSE 0
  <2> HIDE DEF real, total
  <2>1. i - 1 \in 0 .. MaxLength /\ i \in 0 .. MaxLength /\ j \in Nat /\ j < PredictedLengthsMax
        /\ (i # 1 => i - 1 \in Sounds)
    BY <1>5
  <2>2. /\ ends[i - 1] \in Nat /\ ends[i] \in Nat /\ ends[i] = ends[i - 1] + given[i]
        /\ ends[i] <= total /\ given[i] \in Nat /\ (i = 1 => ends[i - 1] = 0)
    <3>1. ends[i - 1] \in Nat /\ ends[i] \in Nat /\ ends[i] = ends[i - 1] + given[i]
      BY <1>3, <2>1
    <3>2. ends[i] <= total
      BY <1>3, <1>5, <2>1 DEF total
    <3>3. given[i] \in Nat
      BY <1>2
    <3>4. i = 1 => ends[i - 1] = 0
      BY <1>3
    <3> QED
      BY <3>1, <3>2, <3>3, <3>4
  <2>3. attn[j][i] =
          ((IF j < ends[i] THEN 1 ELSE 0) - (IF i = 1 THEN 0 ELSE IF j < ends[i - 1] THEN 1 ELSE 0))
             * (OutputMask(real)[j] * Masked(exp)[i])
    <3>1. CumSum(given)[i] = ends[i] /\ (i # 1 => CumSum(given)[i - 1] = ends[i - 1])
      BY <1>4, <2>1
    <3>2. attn[j][i] =
          ((IF j < CumSum(given)[i] THEN 1 ELSE 0)
             - (IF i = 1 THEN 0 ELSE IF j < CumSum(given)[i - 1] THEN 1 ELSE 0))
             * (OutputMask(real)[j] * Masked(exp)[i])
      BY AttentionOfFrame
    <3> QED
      BY <1>4, <2>1, <3>1, <3>2
  <2>4. OutputMask(real)[j] = (IF j < real THEN 1 ELSE 0)
    BY DEF OutputMask
  <2>5. Masked(exp)[i] \in {0, 1} /\ (Masked(exp)[i] = 0 => given[i] = 0)
    BY <1>2 DEF Masked
  <2>6. j < ends[i] => j < real
    BY <1>5, <1>6, <1>8, <2>1, <2>2
  <2>7. CASE j < ends[i - 1]
    <3>1. j < ends[i] /\ i # 1 /\ ~Owns(ends, i, j)
      BY <2>1, <2>2, <2>7 DEF Owns
    <3> QED
      BY <2>3, <2>4, <2>5, <2>7, <3>1
  <2>8. CASE Owns(ends, i, j)
    <3>1. j < ends[i] /\ ~(j < ends[i - 1]) /\ j < real
      BY <2>1, <2>2, <2>6, <2>8 DEF Owns
    <3>2. Masked(exp)[i] = 1
      BY <2>1, <2>2, <2>5, <3>1
    <3> QED
      BY <2>3, <2>4, <2>8, <3>1, <3>2
  <2>9. CASE ~(j < ends[i])
    <3>1. ~(j < ends[i - 1]) /\ ~Owns(ends, i, j)
      BY <2>1, <2>2, <2>9 DEF Owns
    <3> QED
      BY <2>3, <2>4, <2>5, <2>9, <3>1
  <2> QED
    BY <2>1, <2>2, <2>7, <2>8, <2>9 DEF Owns
<1> HIDE DEF attn, real
<1>10. Apportioned(out.attn, ends)
  BY <1>7, <1>9 DEF Apportioned
<1> QED
  BY <1>7, <1>8, <1>10 DEF real, RealLength

\* n numbers from a on.
LEMMA CountFrom ==
    ASSUME NEW a \in Nat, NEW n \in Nat
    PROVE  Cardinality(a .. (a + n) - 1) = n
<1>1. PICK b \in Int : b = (a + n) - 1
  OBVIOUS
<1>2. Cardinality(a .. b) = IF a > b THEN 0 ELSE b - a + 1
  BY FS_Interval
<1>3. (IF a > b THEN 0 ELSE b - a + 1) = n
  BY <1>1
<1> QED
  BY <1>1, <1>2, <1>3

\* Every frame before the end of the last sound lies in one of them.
LEMMA SomebodyOwns ==
    ASSUME NEW ends, ends[0] = 0, \A i \in 0 .. MaxLength : ends[i] \in Nat,
           NEW j \in Nat, j < ends[MaxLength]
    PROVE  \E i \in Sounds : Owns(ends, i, j)
<1>1. MaxLength \in Nat /\ Sounds = 1 .. MaxLength
  BY AlignAssumption DEF Sounds
<1> SUFFICES ASSUME \A i \in Sounds : ~Owns(ends, i, j) PROVE FALSE
  OBVIOUS
<1> DEFINE T == {n \in Nat : n <= MaxLength => ends[n] <= j}
<1>2. 0 \in T
  OBVIOUS
<1>3. ASSUME NEW n \in Nat, n \in T PROVE n + 1 \in T
  <2> SUFFICES ASSUME n + 1 <= MaxLength PROVE ends[n + 1] <= j
    OBVIOUS
  <2>1. n + 1 \in Sounds /\ n + 1 \in 0 .. MaxLength /\ (n + 1) - 1 = n /\ ends[n] <= j
    BY <1>1, <1>3
  <2>2. ~Owns(ends, n + 1, j) /\ ends[n + 1] \in Nat
    BY <2>1
  <2> QED
    BY <2>1, <2>2 DEF Owns
<1>4. Nat \subseteq T
  <2> HIDE DEF T
  <2> QED BY <1>2, <1>3, NatSet
<1> QED
  BY <1>1, <1>4

\* middle_process, for every list of durations and every speed.
LEMMA AnswerFollows ==
    ASSUME NEW exp \in Seq(Nat), NEW percent \in Nat,
           NEW out, out = MiddleProcess(Predicted(exp), Masked(exp), percent)
    PROVE  Follows(out, GivenTo(exp, percent), Ends(GivenTo(exp, percent)))
<1>1. PICK given : given = GivenTo(exp, percent)
  OBVIOUS
<1>2. PICK ends : ends = Ends(given)
  OBVIOUS
<1>3. given \in [Sounds -> Nat]
  BY <1>1, DurationIsGiven, Zenon
<1>4. /\ ends[0] = 0
      /\ \A i \in 0 .. MaxLength : ends[i] \in Nat
      /\ \A i \in Sounds : ends[i] = ends[i - 1] + given[i]
      /\ \A i, k \in 0 .. MaxLength : i <= k => ends[i] <= ends[k]
  BY <1>2, <1>3, EndsGrow, Zenon
<1>5. /\ MaxLength \in Nat \ {0} /\ PredictedLengthsMax \in Nat \ {0}
      /\ Sounds = 1 .. MaxLength /\ Frames = 0 .. PredictedLengthsMax - 1
  BY AlignAssumption DEF Sounds, Frames
<1>6. /\ out.real = (IF ends[MaxLength] >= PredictedLengthsMax THEN PredictedLengthsMax
                     ELSE IF ends[MaxLength] >= 1 THEN ends[MaxLength] ELSE 1)
      /\ out.real = Min({PredictedLengthsMax, Max({1, ends[MaxLength]})})
      /\ \A j \in Frames, i \in Sounds : out.attn[j][i] = IF Owns(ends, i, j) THEN 1 ELSE 0
  <2>1. ends = Ends(GivenTo(exp, percent))
    BY <1>1, <1>2
  <2>2. /\ out.real = RealLength(ends[MaxLength])
        /\ out.real = Min({PredictedLengthsMax, Max({1, ends[MaxLength]})})
        /\ Apportioned(out.attn, ends)
    BY <2>1, AttentionIsOwnership, ZenonT(30)
  <2> QED
    BY <2>2 DEF RealLength, Apportioned
<1> DEFINE owners(j) == {i \in Sounds : out.attn[j][i] # 0}
           total == ends[MaxLength]
<1>7. \A j \in Frames : owners(j) = {i \in Sounds : Owns(ends, i, j)}
  BY <1>6
<1>8. total \in Nat /\ out.real \in Nat
  BY <1>4, <1>5, <1>6
<1>9. ASSUME NEW j \in Frames, NEW k \in Frames, j <= k,
             NEW a \in Sounds, NEW b \in Sounds, Owns(ends, a, j), Owns(ends, b, k)
      PROVE  a <= b
  <2> SUFFICES ASSUME b < a PROVE FALSE
    BY <1>5
  <2>1. b \in 0 .. MaxLength /\ a - 1 \in 0 .. MaxLength /\ b <= a - 1
    BY <1>5
  <2>2. ends[b] <= ends[a - 1] /\ ends[b] \in Nat /\ ends[a - 1] \in Nat
    BY <1>4, <2>1
  <2>3. ends[a - 1] <= j /\ k < ends[b]
    BY <1>9 DEF Owns
  <2> QED
    BY <1>5, <1>9, <2>2, <2>3
<1>10. ASSUME NEW j \in Frames
       PROVE  Cardinality(owners(j)) = (IF j < Min({out.real, total}) THEN 1 ELSE 0)
  <2>1. Min({out.real, total}) = IF out.real <= total THEN out.real ELSE total
    BY <1>8, MinOfTwo
  <2>2. j < Min({out.real, total}) <=> j < total
    BY <1>5, <1>6, <1>8, <2>1
  <2> HIDE DEF total
  <2>3. CASE j < total
    <3>1. PICK i \in Sounds : Owns(ends, i, j)
      BY <1>4, <1>5, <2>3, SomebodyOwns DEF total
    <3>2. ASSUME NEW a \in Sounds, Owns(ends, a, j) PROVE a = i
      <4>1. a <= i
        BY <1>5, <1>9, <3>1, <3>2
      <4>2. i <= a
        BY <1>5, <1>9, <3>1, <3>2
      <4> QED
        BY <1>5, <4>1, <4>2
    <3>3. owners(j) = {i}
      BY <1>7, <3>1, <3>2
    <3>4. Cardinality({i}) = 1
      BY FS_Singleton
    <3> HIDE DEF owners
    <3> QED
      BY <2>2, <2>3, <3>3, <3>4
  <2>4. CASE ~(j < total)
    <3>1. ASSUME NEW a \in Sounds PROVE ~Owns(ends, a, j)
      <4>1. a \in 0 .. MaxLength /\ MaxLength \in 0 .. MaxLength /\ a <= MaxLength
        BY <1>5
      <4>2. ends[a] <= total /\ ends[a] \in Nat
        BY <1>4, <4>1 DEF total
      <4> QED
        BY <1>5, <1>8, <2>4, <4>2 DEF Owns
    <3>2. owners(j) = {}
      BY <1>7, <3>1
    <3>3. Cardinality({}) = 0
      BY FS_EmptySet
    <3> HIDE DEF owners
    <3> QED
      BY <2>2, <2>4, <3>2, <3>3
  <2> QED
    BY <2>3, <2>4
<1>11. ASSUME total <= PredictedLengthsMax, NEW i \in Sounds
       PROVE  Cardinality({j \in Frames : i \in owners(j)}) = given[i]
  <2>1. {j \in Frames : i \in owners(j)} = {j \in Frames : Owns(ends, i, j)}
    BY <1>7
  <2>2. /\ i - 1 \in 0 .. MaxLength /\ i \in 0 .. MaxLength
        /\ i <= MaxLength /\ MaxLength \in 0 .. MaxLength
    BY <1>5
  <2>3. /\ ends[i - 1] \in Nat /\ ends[i] \in Nat /\ ends[i] = ends[i - 1] + given[i]
        /\ given[i] \in Nat /\ ends[i] <= PredictedLengthsMax
    <3>1. /\ ends[i - 1] \in Nat /\ ends[i] \in Nat /\ ends[i] = ends[i - 1] + given[i]
          /\ ends[i] <= total
      BY <1>4, <2>2
    <3>2. given[i] \in Nat
      BY <1>3
    <3>3. ends[i] <= PredictedLengthsMax
      BY <1>5, <1>8, <1>11, <3>1
    <3> QED
      BY <3>1, <3>2, <3>3
  <2>4. {j \in Frames : Owns(ends, i, j)} = ends[i - 1] .. ends[i] - 1
    <3>1. ASSUME NEW j \in Frames, Owns(ends, i, j) PROVE j \in ends[i - 1] .. ends[i] - 1
      BY <1>5, <2>3, <3>1 DEF Owns
    <3>2. ASSUME NEW j \in ends[i - 1] .. ends[i] - 1 PROVE j \in Frames /\ Owns(ends, i, j)
      BY <1>5, <2>3 DEF Owns
    <3> QED
      BY <3>1, <3>2
  <2>5. Cardinality(ends[i - 1] .. ends[i] - 1) = given[i]
    <3>1. ends[i] - 1 = (ends[i - 1] + given[i]) - 1
      BY <2>3
    <3>2. Cardinality(ends[i - 1] .. (ends[i - 1] + given[i]) - 1) = given[i]
      BY <2>3, CountFrom, Zenon
    <3> QED
      BY <3>1, <3>2, Zenon
  <2> QED
    BY <2>1, <2>4, <2>5, Zenon
<1>12. \A j \in Frames : \A i \in Sounds : out.attn[j][i] \in {0, 1}
  BY <1>6
<1>13. \A j, k \in Frames : j < k => \A a \in owners(j), b \in owners(k) : a <= b
  <2> SUFFICES ASSUME NEW j \in Frames, NEW k \in Frames, j < k,
                      NEW a \in owners(j), NEW b \in owners(k)
               PROVE  a <= b
    OBVIOUS
  <2>1. a \in Sounds /\ b \in Sounds /\ Owns(ends, a, j) /\ Owns(ends, b, k) /\ j <= k
    BY <1>5, <1>7
  <2> QED
    BY <1>9, <2>1
<1> HIDE DEF owners, total
<1>14. Follows(out, given, ends)
  BY <1>6, <1>10, <1>11, <1>12, <1>13, Zenon DEF Follows, owners, total
<1> QED
  BY <1>1, <1>2, <1>14

\* What AlignSounds has answered is of the durations it was asked for.
AlignInv ==
    /\ "exp" \in DOMAIN input =>
          \E exp \in DurationLists, percent \in Speeds : input = [exp |-> exp, percent |-> percent]
    /\ Answered("attn") => /\ "exp" \in DOMAIN input
                           /\ output = MiddleProcess(Predicted(input.exp), Masked(input.exp),
                                                     input.percent)

\* A call begins unanswered.
LEMMA InitAlign == Init => AlignInv
<1> SUFFICES ASSUME Init PROVE AlignInv
  OBVIOUS
<1>1. ~Answered("attn")
  BY DEF Init, Answered
<1>2. "exp" \in DOMAIN input =>
          \E exp \in DurationLists, percent \in Speeds : input = [exp |-> exp, percent |-> percent]
  BY DEF Init
<1> QED
  BY <1>1, <1>2 DEF AlignInv

\* No other call answers with an attention.
LEMMA AlignNext == AlignInv /\ [Next]_vars => AlignInv'
<1> SUFFICES ASSUME AlignInv, [Next]_vars PROVE AlignInv'
  OBVIOUS
<1>1. CASE DetectObjects
  BY <1>1 DEF DetectObjects, AlignInv, Answered
<1>2. CASE FitFrame
  BY <1>2 DEF FitFrame, AlignInv, Answered
<1>3. CASE DetectFaces
  BY <1>3 DEF DetectFaces, AlignInv, Answered
<1>4. CASE AlignSounds
  BY <1>4 DEF AlignSounds, Called, AlignInv, Answered, Predicted, Masked
<1>5. CASE SpeakText
  BY <1>5 DEF SpeakText, AlignInv, Answered
<1>6. CASE ReadConfig
  BY <1>6 DEF ReadConfig, AlignInv, Answered
<1>7. CASE UNCHANGED vars
  BY <1>7 DEF vars, AlignInv, Answered
<1> QED
  BY <1>1, <1>2, <1>3, <1>4, <1>5, <1>6, <1>7 DEF Next

\* For every number of sounds and frames, all durations and every speed, each frame of the attention
\* belongs to exactly one sound, in the order of the sounds, and every sound has the frames it was
\* given unless the list is cut (middle_process).
THEOREM FramesAlwaysFollowDurations == Spec => []FramesFollowDurations
<1>1. AlignInv => FramesFollowDurations
  <2> SUFFICES ASSUME AlignInv, Answered("attn") PROVE FramesFollowDurations
    BY Zenon DEF FramesFollowDurations
  <2>1. PICK exp \in DurationLists, percent \in Speeds : input = [exp |-> exp, percent |-> percent]
    BY DEF AlignInv
  <2>2. exp \in Seq(Nat) /\ percent \in Nat
    BY DurationsAssumption
  <2>3. input.exp = exp /\ input.percent = percent
    BY <2>1
  <2>4. output = MiddleProcess(Predicted(exp), Masked(exp), percent)
    BY <2>3 DEF AlignInv
  <2>5. Follows(output, GivenTo(exp, percent), Ends(GivenTo(exp, percent)))
    BY <2>2, <2>4, AnswerFollows
  <2> QED
    BY <2>3, <2>5, Zenon DEF FramesFollowDurations
<1> QED
  BY <1>1, InitAlign, AlignNext, PTL DEF Spec

-----------------------------------------------------------------------------
(* The decoders *)

Box == [x : Int, y : Int, w : Int, h : Int]

Cell == [conf : {q \in Int : q - ZeroPoint <= Quanta}, probs : [1 .. ObjClassNum -> Int], box : Box]

\* A list of numbers is bounded.
LEMMA BoundedList ==
    ASSUME NEW m \in Nat, NEW f \in [1 .. m -> Int]
    PROVE  \E high \in Int : \A k \in 1 .. m : f[k] <= high
<1> DEFINE Bound(n) == \E high \in Int : \A k \in 1 .. n : f[k] <= high
           T == {n \in 0 .. m : Bound(n)}
<1>1. 0 \in T
  <2>1. \A k \in 1 .. 0 : f[k] <= 0
    OBVIOUS
  <2> QED BY <2>1
<1>2. ASSUME NEW n \in 1 .. m, n - 1 \in T PROVE n \in T
  <2>1. PICK high \in Int : \A k \in 1 .. n - 1 : f[k] <= high
    BY <1>2
  <2> DEFINE top == IF f[n] <= high THEN high ELSE f[n]
  <2>2. top \in Int /\ f[n] <= top /\ high <= top
    OBVIOUS
  <2>3. \A k \in 1 .. n : k = n \/ k \in 1 .. n - 1
    OBVIOUS
  <2> HIDE DEF top
  <2>4. \A k \in 1 .. n : f[k] <= top
    BY <2>1, <2>2, <2>3
  <2> QED BY <2>2, <2>4
<1>3. 0 .. m \subseteq T
  <2> HIDE DEF T
  <2> QED BY <1>1, <1>2, UpToSet
<1>4. m \in T
  <2> HIDE DEF T
  <2> QED BY <1>3
<1> QED BY <1>4

\* maxClassId finds the first of the greatest probabilities.
LEMMA BestClassIsFirst ==
    ASSUME NEW cell \in Cell
    PROVE  /\ BestClass(cell) \in 1 .. ObjClassNum /\ BestProb(cell) \in Int
           /\ \A k \in 1 .. ObjClassNum :
                 /\ cell.probs[k] <= BestProb(cell)
                 /\ cell.probs[k] = BestProb(cell) => BestClass(cell) <= k
<1> DEFINE f == cell.probs
           A == Range(f)
           top == Max(A)
           B == {c \in DOMAIN f : f[c] = top}
<1>1. f \in [1 .. ObjClassNum -> Int] /\ ObjClassNum \in Nat \ {0} /\ DOMAIN f = 1 .. ObjClassNum
  BY DetectionsAssumption DEF Cell
<1> HIDE DEF f
<1>2. A \in SUBSET Int /\ A # {} /\ (\A k \in 1 .. ObjClassNum : f[k] \in A)
      /\ \A x \in A : \E k \in 1 .. ObjClassNum : f[k] = x
  <2>1. 1 \in 1 .. ObjClassNum
    BY <1>1
  <2> QED BY <1>1, <2>1 DEF Range
<1>3. PICK high \in Int : \A x \in A : x <= high
  <2>1. PICK high \in Int : \A k \in 1 .. ObjClassNum : f[k] <= high
    BY <1>1, BoundedList
  <2> HIDE DEF A
  <2> QED BY <1>2, <2>1
<1>4. top \in A /\ \A x \in A : x <= top
  <2> HIDE DEF A
  <2> QED BY <1>2, <1>3, GreatestOfSet
<1> HIDE DEF A, top
<1>5. B \in SUBSET Int /\ B # {} /\ \A c \in B : 0 <= c
  BY <1>1, <1>2, <1>4
<1>6. Min(B) \in B /\ \A c \in B : Min(B) <= c
  <2> HIDE DEF B
  <2> QED BY <1>5, LeastOfSet
<1>7. BestClass(cell) = Min(B)
  BY DEF BestClass, f, A, top
<1>8. BestClass(cell) \in 1 .. ObjClassNum /\ f[BestClass(cell)] = top
      /\ \A k \in 1 .. ObjClassNum : f[k] = top => BestClass(cell) <= k
  <2> HIDE DEF BestClass
  <2> QED BY <1>1, <1>6, <1>7
<1>9. BestProb(cell) = top
  BY <1>8 DEF BestProb, f
<1> QED
  BY <1>1, <1>2, <1>4, <1>8, <1>9 DEF f

\* The quantised threshold is the whole quantum below the threshold, in both forms.
LEMMA QuantisedThreshold ==
    /\ Quantised(-128, 127) = Quantised(0, 255)
    /\ Quantised(0, 255) \in Int
    /\ 10 * Quantised(0, 255) <= BoxThreshold + 10 * ZeroPoint
    /\ BoxThreshold + 10 * ZeroPoint < 10 * Quantised(0, 255) + 10
<1> DEFINE t == BoxThreshold + 10 * ZeroPoint
           v == t \div 10
<1>1. t \in 0 .. 1270
  BY CellsAssumption
<1> HIDE DEF t
<1>2. v \in 0 .. 127 /\ 10 * v <= t /\ t < 10 * v + 10
  BY <1>1
<1>3. Truncate(t, 10) = v
  BY <1>1 DEF Truncate
<1> HIDE DEF v
<1>4. Quantised(-128, 127) = v /\ Quantised(0, 255) = v
  BY <1>2, <1>3 DEF Quantised, Between, t
<1> QED
  BY <1>2, <1>4 DEF t

\* A cell every decoder must take, and one none may take.
LEMMA SureByBestProb ==
    ASSUME NEW cell \in Cell
    PROVE  /\ Sure(cell) => /\ Clear(cell.conf) /\ Clear(BestProb(cell))
                            /\ 10 * (Real(BestProb(cell)) * Real(cell.conf)) > BoxThreshold * Quanta
           /\ ~Hopeless(cell.conf) /\ ~Hopeless(BestProb(cell)) => Possible(cell)
<1> DEFINE best == BestProb(cell)
           c == Real(cell.conf)
<1>1. /\ BestClass(cell) \in 1 .. ObjClassNum /\ best \in Int
      /\ \A k \in 1 .. ObjClassNum : cell.probs[k] <= best
  BY BestClassIsFirst
<1>2. cell.probs \in [1 .. ObjClassNum -> Int] /\ cell.conf \in Int
      /\ ZeroPoint \in Int /\ BoxThreshold \in Nat /\ Quanta \in Nat
  BY DetectionsAssumption DEF Cell
<1>3. \A p \in Range(cell.probs) : p \in Int /\ p <= best
  BY <1>1, <1>2 DEF Range
<1>4. best \in Range(cell.probs)
  BY <1>1, <1>2 DEF Range, BestProb
<1> HIDE DEF best
<1>5. ASSUME Sure(cell)
      PROVE  Clear(cell.conf) /\ Clear(best) /\ 10 * (Real(best) * Real(cell.conf)) > BoxThreshold * Quanta
  <2>1. Clear(cell.conf)
    BY <1>5 DEF Sure
  <2>2. Clear(best)
    <3>1. PICK p \in Range(cell.probs) : Clear(p)
      BY <1>5 DEF Sure
    <3> QED BY <1>1, <1>2, <1>3, <3>1 DEF Clear, Real
  <2>3. PICK p \in Range(cell.probs) : 10 * Real(p) * c > BoxThreshold * Quanta
    BY <1>5 DEF Sure
  <2>4. c \in Nat /\ Real(p) \in Int /\ Real(best) \in Int /\ Real(p) <= Real(best)
    <3>1. c \in Nat
      BY <1>2, <2>1 DEF Clear, Real
    <3>2. p \in Int /\ best \in Int /\ p <= best
      BY <1>1, <1>3
    <3> HIDE DEF c
    <3> QED BY <1>2, <3>1, <3>2 DEF Real
  <2> HIDE DEF c
  <2>5. Real(p) * c <= Real(best) * c /\ Real(p) * c \in Int /\ Real(best) * c \in Int
    BY <2>4, ProductGrows
  <2>6. 10 * Real(p) * c = 10 * (Real(p) * c)
    BY <2>4
  <2>7. BoxThreshold * Quanta \in Int
    BY <1>2
  <2>8. 10 * (Real(best) * c) > BoxThreshold * Quanta
    BY <2>3, <2>5, <2>6, <2>7
  <2> QED BY <2>1, <2>2, <2>8 DEF c
<1>6. ~Hopeless(cell.conf) /\ ~Hopeless(best) => Possible(cell)
  BY <1>4 DEF Possible
<1> QED
  BY <1>5, <1>6 DEF best

\* A decoder that takes every sure cell and only possible ones.
LEMMA TakesSureOnes ==
    ASSUME NEW cells \in Seq(Cell), NEW P,
           \A i \in 1 .. Len(cells) : Sure(cells[i]) => i \in P,
           \A i \in P \cap (1 .. Len(cells)) : Possible(cells[i])
    PROVE  SureOnes(cells, Decode(Taken(cells, P)))
<1> DEFINE passing == Taken(cells, P)
           n == Len(passing)
           L == Len(cells)
           candidates == Decode(passing)
           places == {i \in DOMAIN cells : Possible(cells[i])}
<1>1. passing \in Seq(Cell)
  BY TakenIs
<1>2. PICK at : /\ Lists(at, n, P, L)
                /\ \A k \in 1 .. n : passing[k] = cells[at[k]]
  BY TakenIs
<1>3. n \in Nat /\ L \in Nat /\ DOMAIN cells = 1 .. L
  BY <1>1
<1> HIDE DEF passing
<1>4. DOMAIN candidates = 1 .. n /\ \A k \in 1 .. n : candidates[k] = Candidate(passing[k])
  BY <1>1 DEF Decode
<1>5. Len(candidates) = n
  <2>1. candidates = [k \in 1 .. n |-> Candidate(passing[k])]
    BY <1>1 DEF Decode
  <2> HIDE DEF candidates, n
  <2> QED BY <1>3, <2>1
<1> HIDE DEF candidates, n, L
<1>6. ASSUME NEW cell \in Range(cells), Sure(cell) PROVE Among(cell, candidates)
  <2>1. PICK i \in 1 .. L : cells[i] = cell
    BY <1>3 DEF Range
  <2>2. i \in P /\ cell \in Cell
    BY <1>3, <1>6, <2>1 DEF L
  <2>3. PICK k \in 1 .. n : at[k] = i
    BY <1>2, <2>1, <2>2 DEF Lists
  <2>4. passing[k] = cell
    BY <1>2, <2>1, <2>3
  <2>5. candidates[k] \in Range(candidates) /\ candidates[k] = Candidate(cell)
    BY <1>4, <2>4 DEF Range
  <2>6. candidates[k].box = cell.box /\ candidates[k].class = BestClass(cell)
    BY <2>5 DEF Candidate
  <2>7. /\ \A q \in 1 .. ObjClassNum : /\ cell.probs[q] <= BestProb(cell)
                                       /\ cell.probs[q] = BestProb(cell) => BestClass(cell) <= q
        /\ DOMAIN cell.probs = 1 .. ObjClassNum
    BY <2>2, BestClassIsFirst DEF Cell
  <2> QED
    BY <2>5, <2>6, <2>7 DEF Among, BestProb
<1>7. n <= Cardinality(places)
  <2>1. IsFiniteSet(places)
    <3>1. places \subseteq 1 .. L
      BY <1>3
    <3> QED BY <1>3, <3>1, FS_Interval, FS_Subset
  <2>2. at \in Injection(1 .. n, places)
    <3>1. at \in [1 .. n -> places]
      <4>1. P \cap (1 .. L) \subseteq places
        BY <1>3 DEF L
      <4> HIDE DEF places
      <4> QED BY <1>2, <4>1 DEF Lists
    <3>2. ASSUME NEW a \in 1 .. n, NEW b \in 1 .. n, at[a] = at[b] PROVE a = b
      <4>1. at[a] \in 1 .. L /\ at[b] \in 1 .. L
        BY <1>2 DEF Lists
      <4>2. ~ (a < b) /\ ~ (b < a)
        BY <1>2, <3>2, <4>1 DEF Lists
      <4> QED BY <1>3, <4>2
    <3> QED BY <3>1, <3>2 DEF Injection, IsInjective
  <2>3. IsFiniteSet(1 .. n) /\ Cardinality(1 .. n) = n
    BY <1>3, FS_Interval
  <2> HIDE DEF places
  <2> QED BY <2>1, <2>2, <2>3, FS_Injection
<1>8. Len(candidates) <= Cardinality({i \in DOMAIN cells : Possible(cells[i])})
  BY <1>5, <1>7
<1> QED
  BY <1>6, <1>8 DEF SureOnes, candidates, passing

\* The tests of the four decoders.
LEMMA DecodersTakeSureOnes ==
    ASSUME NEW cells \in Seq(Cell), NEW candidates \in Decoded(cells)
    PROVE  SureOnes(cells, candidates)
<1> DEFINE limit == Quantised(0, 255)
           L == Len(cells)
<1>1. /\ limit \in Int /\ Quantised(-128, 127) = limit
      /\ 10 * limit <= BoxThreshold + 10 * ZeroPoint /\ BoxThreshold + 10 * ZeroPoint < 10 * limit + 10
  BY QuantisedThreshold
<1>2. ZeroPoint \in Int /\ BoxThreshold \in Nat /\ Quanta \in Nat
  BY DetectionsAssumption
<1> HIDE DEF limit
<1>3. ASSUME NEW i \in 1 .. L
      PROVE  /\ cells[i] \in Cell /\ cells[i].conf \in Int /\ BestProb(cells[i]) \in Int
             /\ Real(cells[i].conf) <= Quanta
             /\ Sure(cells[i]) => /\ Clear(cells[i].conf) /\ Clear(BestProb(cells[i]))
                                  /\ 10 * (Real(BestProb(cells[i])) * Real(cells[i].conf)) > BoxThreshold * Quanta
             /\ ~Hopeless(cells[i].conf) /\ ~Hopeless(BestProb(cells[i])) => Possible(cells[i])
  <2>1. cells[i] \in Cell
    OBVIOUS
  <2>2. cells[i].conf \in Int /\ cells[i].conf - ZeroPoint <= Quanta
    BY <2>1 DEF Cell
  <2> QED
    BY <1>2, <2>1, <2>2, BestClassIsFirst, SureByBestProb DEF Real
<1>4. DOMAIN cells = 1 .. L
  OBVIOUS
<1>5. ASSUME NEW i \in 1 .. L
      PROVE  /\ Sure(cells[i]) => cells[i].conf >= limit /\ BestProb(cells[i]) > limit
             /\ cells[i].conf >= limit /\ BestProb(cells[i]) > limit => Possible(cells[i])
  <2> DEFINE conf == cells[i].conf
             best == BestProb(cells[i])
  <2>1. conf \in Int /\ best \in Int
    BY <1>3
  <2>2. Sure(cells[i]) => 10 * (conf - ZeroPoint) >= BoxThreshold + 10 /\ 10 * (best - ZeroPoint) >= BoxThreshold + 10
    BY <1>3 DEF Clear, Real
  <2>3. 10 * (conf - ZeroPoint) > BoxThreshold - 10 /\ 10 * (best - ZeroPoint) > BoxThreshold - 10 => Possible(cells[i])
    <3>1. Hopeless(conf) <=> 10 * (conf - ZeroPoint) <= BoxThreshold - 10
      BY DEF Hopeless, Real
    <3>2. Hopeless(best) <=> 10 * (best - ZeroPoint) <= BoxThreshold - 10
      BY DEF Hopeless, Real
    <3>3. ~Hopeless(conf) /\ ~Hopeless(best) => Possible(cells[i])
      BY <1>3
    <3> HIDE DEF conf, best
    <3> QED BY <1>2, <2>1, <3>1, <3>2, <3>3
  <2> HIDE DEF conf, best
  <2>4. /\ Sure(cells[i]) => conf >= limit /\ best > limit
        /\ conf >= limit /\ best > limit => Possible(cells[i])
    BY <1>1, <1>2, <2>1, <2>2, <2>3
  <2> QED
    BY <2>4 DEF conf, best
<1> DEFINE quantised == {i \in DOMAIN cells : cells[i].conf >= limit /\ BestProb(cells[i]) > limit}
<1>6. SureOnes(cells, Decode(Taken(cells, quantised)))
  BY <1>4, <1>5, TakesSureOnes
<1>7. CASE candidates = DecodeI8(cells)
  BY <1>1, <1>6, <1>7 DEF DecodeI8, limit
<1>8. CASE candidates = DecodeU8(cells)
  BY <1>6, <1>8 DEF DecodeU8, limit
<1>9. CASE candidates = DecodeFp32(cells)
  <2> DEFINE real == {i \in DOMAIN cells : /\ 10 * Real(cells[i].conf) >= BoxThreshold
                                           /\ 10 * Real(BestProb(cells[i])) > BoxThreshold}
  <2>1. ASSUME NEW i \in 1 .. L
        PROVE  /\ Sure(cells[i]) => i \in real
               /\ i \in real => Possible(cells[i])
    <3> DEFINE conf == cells[i].conf
               best == BestProb(cells[i])
    <3>1. conf \in Int /\ best \in Int
      BY <1>3
    <3>2. Sure(cells[i]) => 10 * Real(conf) >= BoxThreshold + 10 /\ 10 * Real(best) >= BoxThreshold + 10
      BY <1>3 DEF Clear
    <3>3. 10 * Real(conf) > BoxThreshold - 10 /\ 10 * Real(best) > BoxThreshold - 10 => Possible(cells[i])
      <4>1. Hopeless(conf) <=> 10 * (conf - ZeroPoint) <= BoxThreshold - 10
        BY DEF Hopeless, Real
      <4>2. Hopeless(best) <=> 10 * (best - ZeroPoint) <= BoxThreshold - 10
        BY DEF Hopeless, Real
      <4>3. ~Hopeless(conf) /\ ~Hopeless(best) => Possible(cells[i])
        BY <1>3
      <4>4. Real(conf) = conf - ZeroPoint /\ Real(best) = best - ZeroPoint
        BY DEF Real
      <4> HIDE DEF conf, best
      <4> QED BY <1>2, <3>1, <4>1, <4>2, <4>3, <4>4
    <3>4. i \in real <=> 10 * Real(conf) >= BoxThreshold /\ 10 * Real(best) > BoxThreshold
      BY <1>4
    <3>5. Real(conf) \in Int /\ Real(best) \in Int
      BY <1>2, <3>1 DEF Real
    <3> HIDE DEF conf, best, real
    <3> QED BY <1>2, <3>2, <3>3, <3>4, <3>5
  <2>2. SureOnes(cells, Decode(Taken(cells, real)))
    BY <2>1, TakesSureOnes
  <2> QED BY <1>9, <2>2 DEF DecodeFp32
<1>10. CASE candidates = DecodeRv1106(cells)
  <2> DEFINE product == {i \in DOMAIN cells : /\ cells[i].conf >= limit
                                              /\ 10 * Candidate(cells[i]).score > BoxThreshold * Quanta}
  <2>1. ASSUME NEW i \in 1 .. L
        PROVE  /\ Sure(cells[i]) => i \in product
               /\ i \in product => Possible(cells[i])
    <3> DEFINE c == Real(cells[i].conf)
               p == Real(BestProb(cells[i]))
    <3>1. Candidate(cells[i]).score = p * c
      BY DEF Candidate
    <3>2. c \in Int /\ p \in Int /\ c <= Quanta
      BY <1>2, <1>3 DEF Real
    <3>3. i \in product <=> cells[i].conf >= limit /\ 10 * (p * c) > BoxThreshold * Quanta
      BY <1>4, <3>1
    <3>4. Sure(cells[i]) => i \in product
      BY <1>5, <1>3, <3>3
    <3>5. ASSUME i \in product PROVE Possible(cells[i])
      <4>1. 10 * c > BoxThreshold - 10 /\ c \in Nat
        <5>1. cells[i].conf \in Int /\ cells[i].conf >= limit /\ c = cells[i].conf - ZeroPoint
          BY <1>3, <3>3, <3>5 DEF Real
        <5> HIDE DEF c
        <5> QED BY <1>1, <1>2, <5>1, SMTT(20)
      <4>2. ~Hopeless(cells[i].conf)
        BY <1>2, <4>1 DEF Hopeless
      <4>3. ASSUME Hopeless(BestProb(cells[i])) PROVE FALSE
        <5>1. 10 * p <= BoxThreshold - 10
          BY <4>3 DEF Hopeless
        <5>2. 10 * (p * c) > BoxThreshold * Quanta
          BY <3>3, <3>5
        <5> HIDE DEF p, c
        <5>3. BoxThreshold * Quanta \in Nat /\ p * c \in Int
          BY <1>2, <3>2
        <5>4. CASE p <= 0
          <6>1. p * c <= 0
            BY <3>2, <4>1, <5>4
          <6> QED BY <5>2, <5>3, <6>1
        <5>5. CASE p > 0
          <6>1. p \in Nat /\ c \in Nat /\ 10 * p <= BoxThreshold /\ 10 * p \in Nat
            BY <1>2, <3>2, <4>1, <5>1, <5>5
          <6>2. c * p <= Quanta * p
            BY <1>2, <3>2, <6>1, ProductGrows
          <6>3. (10 * p) * Quanta <= BoxThreshold * Quanta
            BY <1>2, <6>1, ProductGrows
          <6>4. c * p = p * c /\ (10 * p) * Quanta = 10 * (Quanta * p) /\ Quanta * p \in Nat
            BY <1>2, <6>1
          <6> QED BY <5>2, <5>3, <6>2, <6>3, <6>4
        <5> QED BY <3>2, <5>4, <5>5
      <4> QED BY <1>3, <4>2, <4>3
    <3> QED BY <3>4, <3>5
  <2>2. SureOnes(cells, Decode(Taken(cells, product)))
    <3> HIDE DEF product
    <3> QED BY <2>1, TakesSureOnes
  <2> QED BY <1>1, <1>10, <2>2 DEF DecodeRv1106, limit
<1> QED
  BY <1>7, <1>8, <1>9, <1>10 DEF Decoded

-----------------------------------------------------------------------------
(* The sort *)

\* The lists of count entries.
Entries(count) == [1 .. count -> Entry]

\* p moves the places left .. right among each other, and no other.
Moves(p, left, right, count) ==
    /\ p \in [1 .. count -> 1 .. count]
    /\ \A k \in 1 .. count : p[k] = k \/ (k \in left .. right /\ p[k] \in left .. right)
    /\ \A a, b \in 1 .. count : p[a] = p[b] => a = b
    /\ \A b \in 1 .. count : \E a \in 1 .. count : p[a] = b

\* t is s but for the order of the entries left .. right.
Mixed(s, t, left, right, count) ==
    /\ t \in Entries(count)
    /\ \E p : Moves(p, left, right, count) /\ \A k \in 1 .. count : t[k] = s[p[k]]

\* Nothing moves.
LEMMA MixedSame ==
    ASSUME NEW count \in Nat, NEW s \in Entries(count), NEW left \in Int, NEW right \in Int
    PROVE  Mixed(s, s, left, right, count)
<1> DEFINE p == [k \in 1 .. count |-> k]
<1>1. Moves(p, left, right, count)
  BY DEF Moves
<1>2. \A k \in 1 .. count : s[k] = s[p[k]]
  OBVIOUS
<1> HIDE DEF p
<1> QED
  BY <1>1, <1>2 DEF Mixed

\* One move after the other.
LEMMA MixedThen ==
    ASSUME NEW count \in Nat, NEW s, NEW t, NEW u, NEW left \in Int, NEW right \in Int,
           Mixed(s, t, left, right, count), Mixed(t, u, left, right, count)
    PROVE  Mixed(s, u, left, right, count)
<1>1. PICK p : Moves(p, left, right, count) /\ \A k \in 1 .. count : t[k] = s[p[k]]
  BY DEF Mixed
<1>2. PICK q : Moves(q, left, right, count) /\ \A k \in 1 .. count : u[k] = t[q[k]]
  BY DEF Mixed
<1> DEFINE r == [k \in 1 .. count |-> p[q[k]]]
<1>3. \A k \in 1 .. count : q[k] \in 1 .. count /\ p[k] \in 1 .. count /\ r[k] = p[q[k]]
  BY <1>1, <1>2 DEF Moves
<1>4. r \in [1 .. count -> 1 .. count]
  BY <1>3
<1> HIDE DEF r
<1>5. ASSUME NEW k \in 1 .. count
      PROVE  r[k] = k \/ (k \in left .. right /\ r[k] \in left .. right)
  <2>1. q[k] \in 1 .. count /\ r[k] = p[q[k]]
    BY <1>3
  <2>2. p[q[k]] = q[k] \/ (q[k] \in left .. right /\ p[q[k]] \in left .. right)
    BY <1>1, <2>1 DEF Moves
  <2>3. q[k] = k \/ (k \in left .. right /\ q[k] \in left .. right)
    BY <1>2 DEF Moves
  <2> QED BY <2>1, <2>2, <2>3
<1>6. ASSUME NEW a \in 1 .. count, NEW b \in 1 .. count, r[a] = r[b] PROVE a = b
  <2>1. q[a] \in 1 .. count /\ q[b] \in 1 .. count /\ p[q[a]] = p[q[b]]
    BY <1>3, <1>6
  <2>2. q[a] = q[b]
    BY <1>1, <2>1 DEF Moves
  <2> QED BY <1>2, <2>2 DEF Moves
<1>7. ASSUME NEW b \in 1 .. count PROVE \E a \in 1 .. count : r[a] = b
  <2>1. PICK c \in 1 .. count : p[c] = b
    BY <1>1 DEF Moves
  <2>2. PICK a \in 1 .. count : q[a] = c
    BY <1>2 DEF Moves
  <2> QED BY <1>3, <2>1, <2>2
<1>8. Moves(r, left, right, count)
  BY <1>4, <1>5, <1>6, <1>7 DEF Moves
<1>9. \A k \in 1 .. count : u[k] = s[r[k]]
  BY <1>1, <1>2, <1>3
<1> QED
  BY <1>8, <1>9 DEF Mixed

\* What moves within a part moves within the whole.
LEMMA MixedWider ==
    ASSUME NEW count \in Nat, NEW s, NEW t, NEW left \in Int, NEW right \in Int,
           NEW first \in Int, NEW last \in Int, left <= first, last <= right,
           Mixed(s, t, first, last, count)
    PROVE  Mixed(s, t, left, right, count)
<1>1. PICK p : Moves(p, first, last, count) /\ \A k \in 1 .. count : t[k] = s[p[k]]
  BY DEF Mixed
<1>2. ASSUME NEW k \in 1 .. count, k \in first .. last, p[k] \in first .. last
      PROVE  k \in left .. right /\ p[k] \in left .. right
  BY <1>2
<1>3. Moves(p, left, right, count)
  BY <1>1, <1>2 DEF Moves
<1> QED
  BY <1>1, <1>3 DEF Mixed

Swapped(s, i, j) == [s EXCEPT ![i] = s[j], ![j] = s[i]]

\* Two entries change places.
LEMMA MixedSwap ==
    ASSUME NEW count \in Nat, NEW s \in Entries(count), NEW left \in 1 .. count, NEW right \in 1 .. count,
           NEW i \in left .. right, NEW j \in left .. right
    PROVE  Mixed(s, Swapped(s, i, j), left, right, count)
<1> DEFINE p == [k \in 1 .. count |-> IF k = i THEN j ELSE IF k = j THEN i ELSE k]
           t == Swapped(s, i, j)
<1>1. i \in 1 .. count /\ j \in 1 .. count
  OBVIOUS
<1>2. Moves(p, left, right, count)
  <2>1. p \in [1 .. count -> 1 .. count]
    BY <1>1
  <2>2. \A k \in 1 .. count : p[k] = k \/ (k \in left .. right /\ p[k] \in left .. right)
    OBVIOUS
  <2>3. \A k \in 1 .. count : p[k] \in 1 .. count /\ p[p[k]] = k
    BY <1>1
  <2> HIDE DEF p
  <2>4. \A a, b \in 1 .. count : p[a] = p[b] => a = b
    BY <2>3
  <2>5. \A b \in 1 .. count : \E a \in 1 .. count : p[a] = b
    BY <2>3
  <2> QED BY <2>1, <2>2, <2>4, <2>5 DEF Moves
<1>3. DOMAIN s = 1 .. count /\ \A k \in 1 .. count : s[k] \in Entry
  BY DEF Entries
<1>4. t \in Entries(count)
  BY <1>1, <1>3 DEF Swapped, Entries
<1>5. \A k \in 1 .. count : t[k] = s[p[k]]
  BY <1>1, <1>3 DEF Swapped
<1> HIDE DEF p, t
<1>6. Mixed(s, t, left, right, count)
  BY <1>2, <1>4, <1>5 DEF Mixed
<1> QED
  BY <1>6 DEF t

\* The place the two ends leave free holds what it should at the end.
Filled(state, key) == [state.s EXCEPT ![state.low] = key]

\* In a turn between left and right: what lies outside the two ends is on its side of key.
Turning(state, s, left, right, count) ==
    LET key == s[left]
    IN /\ state \in [s : Entries(count), low : left .. right, high : left .. right]
       /\ state.low <= state.high
       /\ Mixed(s, Filled(state, key), left, right, count)
       /\ \A i \in left .. state.low - 1 : state.s[i].score >= key.score
       /\ \A i \in state.high + 1 .. right : state.s[i].score <= key.score

\* A turn keeps that, and brings the ends together.
LEMMA TurnKeeps ==
    ASSUME NEW count \in Nat, NEW s \in Entries(count), NEW left \in 1 .. count, NEW right \in 1 .. count,
           left <= right, NEW state, Turning(state, s, left, right, count)
    PROVE  LET next == Turn(state, s[left])
           IN /\ Turning(next, s, left, right, count)
              /\ next.low = next.high \/ next.high - next.low < state.high - state.low
<1> DEFINE key == s[left]
           e == state.s
           low == state.low
           high == state.high
           better == {i \in low .. high : e[i].score > key.score}
           upper == {low} \cup better
           h == Max(upper)
           f == [e EXCEPT ![low] = e[h]]
           worse == {i \in low .. h : f[i].score < key.score}
           lower == {h} \cup worse
           l == Min(lower)
           next == Turn(state, key)
<1>1. /\ e \in Entries(count) /\ low \in left .. right /\ high \in left .. right /\ low <= high
      /\ \A i \in left .. low - 1 : e[i].score >= key.score
      /\ \A i \in high + 1 .. right : e[i].score <= key.score
      /\ Mixed(s, Filled(state, key), left, right, count)
  BY DEF Turning
<1>2. key \in Entry /\ key.score \in Int /\ left \in Int /\ right \in Int /\ low \in 1 .. count /\ high \in 1 .. count
  <2>1. s[left] \in Entry
    BY DEF Entries
  <2> QED BY <1>1, <2>1 DEF Entry
<1>3. DOMAIN e = 1 .. count /\ \A i \in 1 .. count : e[i] \in Entry /\ e[i].score \in Int
  BY <1>1 DEF Entries, Entry
<1>4. h \in upper /\ \A i \in upper : i <= h
  <2>1. upper \in SUBSET Int /\ upper # {} /\ \A i \in upper : i <= high
    BY <1>1, <1>2
  <2> HIDE DEF upper
  <2>2. high \in Int
    BY <1>2
  <2>3. Max(upper) \in upper /\ \A i \in upper : i <= Max(upper)
    BY <2>1, <2>2, GreatestOfSet
  <2> QED BY <2>3
<1> HIDE DEF h
<1>5. h \in low .. high /\ h \in 1 .. count /\ (\A i \in h + 1 .. high : e[i].score <= key.score)
      /\ (h # low => e[h].score > key.score)
  <2>1. h \in low .. high /\ h \in Int
    BY <1>1, <1>2, <1>4
  <2>2. ASSUME NEW i \in h + 1 .. high PROVE e[i].score <= key.score
    <3>1. i \in low .. high /\ i \in 1 .. count /\ i > h
      BY <1>2, <2>1
    <3>2. i \notin better
      BY <1>4, <2>1, <3>1
    <3> QED BY <1>2, <1>3, <3>1, <3>2
  <2> QED BY <1>2, <1>4, <2>1, <2>2
<1>6. f \in Entries(count) /\ f[low] = e[h] /\ \A i \in 1 .. count : i # low => f[i] = e[i]
  BY <1>1, <1>2, <1>3, <1>5 DEF Entries
<1>7. \A i \in 1 .. count : f[i].score \in Int
  BY <1>6 DEF Entries, Entry
<1> HIDE DEF f
<1>8. l \in lower /\ \A i \in lower : l <= i
  <2>1. lower \in SUBSET Int /\ lower # {} /\ \A i \in lower : low <= i
    BY <1>1, <1>2, <1>5
  <2> HIDE DEF lower
  <2>2. low \in Int
    BY <1>2
  <2>3. Min(lower) \in lower /\ \A i \in lower : Min(lower) <= i
    BY <2>1, <2>2, LeastOfSet
  <2> QED BY <2>3
<1> HIDE DEF l
<1>9. l \in low .. h /\ l \in 1 .. count /\ (\A i \in low .. l - 1 : f[i].score >= key.score)
      /\ (l # h => f[l].score < key.score)
  BY <1>1, <1>2, <1>5, <1>7, <1>8
<1>10. next = [s |-> [f EXCEPT ![h] = f[l]], low |-> l, high |-> h]
  BY DEF Turn, f, l, h
<1> HIDE DEF next
<1> DEFINE g == [f EXCEPT ![h] = f[l]]
<1>11. g \in Entries(count) /\ g[h] = f[l] /\ (\A i \in 1 .. count : i # h => g[i] = f[i]) /\ DOMAIN g = 1 .. count
  BY <1>5, <1>6, <1>9 DEF Entries
<1> HIDE DEF g
<1>12. next.s = g /\ next.low = l /\ next.high = h
       /\ next \in [s : Entries(count), low : left .. right, high : left .. right]
  <2>1. next = [s |-> g, low |-> l, high |-> h]
    BY <1>10 DEF g
  <2>2. l \in left .. right /\ h \in left .. right
    BY <1>1, <1>2, <1>5, <1>9
  <2> QED BY <1>11, <2>1, <2>2
<1>13. Mixed(s, Filled(next, key), left, right, count)
  <2> DEFINE first == Filled(state, key)
             second == Swapped(first, low, h)
             third == Swapped(second, l, h)
  <2>1. first \in Entries(count) /\ first[low] = key /\ (\A i \in 1 .. count : i # low => first[i] = e[i])
    BY <1>1, <1>2, <1>3 DEF Filled, Entries
  <2>2. low \in left .. right /\ h \in left .. right /\ l \in left .. right
    BY <1>1, <1>2, <1>5, <1>9
  <2> HIDE DEF first
  <2>3. Mixed(first, second, left, right, count)
    BY <2>1, <2>2, MixedSwap
  <2>4. second \in Entries(count)
    BY <2>3 DEF Mixed
  <2>5. second[h] = key /\ \A i \in 1 .. count : i # h => second[i] = f[i]
    <3>1. DOMAIN first = 1 .. count
      BY <2>1 DEF Entries
    <3>2. ASSUME NEW i \in 1 .. count
          PROVE second[i] = IF i = h THEN first[low] ELSE IF i = low THEN first[h] ELSE first[i]
      BY <1>2, <1>5, <3>1 DEF Swapped
    <3> HIDE DEF second
    <3> QED BY <1>2, <1>5, <1>6, <2>1, <3>2
  <2> HIDE DEF second
  <2>6. Mixed(second, third, left, right, count)
    BY <2>2, <2>4, MixedSwap
  <2>7. third = Filled(next, key)
    <3>1. DOMAIN second = 1 .. count
      BY <2>4 DEF Entries
    <3>2. ASSUME NEW i \in 1 .. count
          PROVE third[i] = IF i = h THEN second[l] ELSE IF i = l THEN second[h] ELSE second[i]
      BY <1>5, <1>9, <3>1 DEF Swapped
    <3>3. ASSUME NEW i \in 1 .. count
          PROVE Filled(next, key)[i] = IF i = l THEN key ELSE g[i]
      BY <1>9, <1>11, <1>12 DEF Filled
    <3>4. DOMAIN third = 1 .. count /\ DOMAIN Filled(next, key) = 1 .. count
          /\ third = [i \in DOMAIN third |-> third[i]]
          /\ Filled(next, key) = [i \in DOMAIN Filled(next, key) |-> Filled(next, key)[i]]
      BY <1>11, <1>12, <3>1 DEF Filled, Swapped
    <3> HIDE DEF third
    <3>5. ASSUME NEW i \in 1 .. count PROVE third[i] = Filled(next, key)[i]
      BY <1>5, <1>9, <1>11, <2>5, <3>2, <3>3
    <3> QED BY <3>4, <3>5
  <2> HIDE DEF third
  <2>8. Mixed(first, third, left, right, count)
    BY <1>2, <2>3, <2>6, MixedThen
  <2>9. Mixed(s, first, left, right, count)
    BY <1>1 DEF first
  <2> QED BY <1>2, <2>7, <2>8, <2>9, MixedThen
<1>14. ASSUME NEW i \in left .. l - 1 PROVE g[i].score >= key.score
  <2>1. i \in 1 .. count /\ i < l /\ i # h /\ g[i] = f[i]
    BY <1>2, <1>5, <1>9, <1>11
  <2>2. CASE i \in left .. low - 1
    <3>1. i # low
      BY <1>2, <2>2
    <3> QED BY <1>1, <1>6, <2>1, <2>2, <3>1
  <2>3. CASE i \in low .. l - 1
    BY <1>9, <2>1, <2>3
  <2> QED BY <1>2, <1>9, <2>2, <2>3
<1>15. ASSUME NEW i \in h + 1 .. right PROVE g[i].score <= key.score
  <2>1. i \in 1 .. count /\ i > h /\ i # low /\ g[i] = e[i]
    BY <1>2, <1>5, <1>6, <1>11
  <2>2. CASE i \in h + 1 .. high
    BY <1>5, <2>1, <2>2
  <2>3. CASE i \in high + 1 .. right
    BY <1>1, <2>1, <2>3
  <2> QED BY <1>2, <2>1, <2>2, <2>3
<1>16. Turning(next, s, left, right, count)
  BY <1>9, <1>12, <1>13, <1>14, <1>15 DEF Turning
<1>17. next.low = next.high \/ next.high - next.low < high - low
  <2>1. CASE h = low
    BY <1>2, <1>5, <1>9, <1>12, <2>1
  <2>2. CASE h # low /\ h = high
    <3>1. f[low].score > key.score
      BY <1>5, <1>6, <2>2
    <3>2. l # low
      BY <1>2, <1>3, <1>5, <1>7, <1>9, <2>2, <3>1
    <3> QED BY <1>2, <1>5, <1>9, <1>12, <2>2, <3>2
  <2>3. CASE h # high
    BY <1>2, <1>5, <1>9, <1>12, <2>3
  <2> QED BY <2>1, <2>2, <2>3
<1> QED
  BY <1>16, <1>17 DEF next

\* What a partition of left .. right makes of s.
Parted(split, s, left, right, count) ==
    /\ split.at \in left .. right
    /\ Mixed(s, split.sorted, left, right, count)
    /\ \A i \in left .. split.at - 1 : split.sorted[i].score >= split.sorted[split.at].score
    /\ \A i \in split.at + 1 .. right : split.sorted[i].score <= split.sorted[split.at].score

\* The turns of a partition come to an end, with every entry on its side.
LEMMA PartitionParts ==
    ASSUME NEW count \in Nat, NEW s \in Entries(count), NEW left \in 1 .. count, NEW right \in 1 .. count,
           left <= right
    PROVE  Parted(Partition(s, left, right), s, left, right, count)
<1> DEFINE m == right - left
           key == s[left]
           first == [s |-> s, low |-> left, high |-> right]
           Is(f) == f = [n \in 0 .. m |-> IF n = 0 THEN first ELSE Turn(f[n - 1], key)]
           turn == CHOOSE f : Is(f)
           S == {state \in [s : Entries(count), low : left .. right, high : left .. right] :
                     Turning(state, s, left, right, count)}
           step == [n \in 1 .. m |-> [state \in S |-> Turn(state, key)]]
           last == turn[m]
<1>1. m \in Nat /\ left \in Int /\ right \in Int
  OBVIOUS
<1>2. first \in S /\ Turning(first, s, left, right, count)
  <2>1. first \in [s : Entries(count), low : left .. right, high : left .. right]
    OBVIOUS
  <2>2. Filled(first, key) = s
    BY DEF Filled, Entries
  <2>3. Mixed(s, Filled(first, key), left, right, count)
    BY <1>1, <2>2, MixedSame
  <2>4. Turning(first, s, left, right, count)
    BY <1>1, <2>1, <2>3 DEF Turning
  <2> QED BY <2>1, <2>4
<1> HIDE DEF first
<1>3. ASSUME NEW state \in S
      PROVE  /\ Turn(state, key) \in S
             /\ \/ Turn(state, key).low = Turn(state, key).high
                \/ Turn(state, key).high - Turn(state, key).low < state.high - state.low
  <2> DEFINE next == Turn(state, key)
  <2>1. Turning(state, s, left, right, count)
    OBVIOUS
  <2>2. /\ Turning(next, s, left, right, count)
        /\ next.low = next.high \/ next.high - next.low < state.high - state.low
    BY <2>1, TurnKeeps
  <2> HIDE DEF next
  <2>3. next \in S
    BY <2>2 DEF Turning
  <2> QED BY <2>2, <2>3 DEF next
<1>4. ASSUME NEW state \in S
      PROVE  Turning(state, s, left, right, count) /\ state.low \in left .. right /\ state.high \in left .. right
             /\ state.low <= state.high
  BY DEF Turning
<1> HIDE DEF S
<1>5. \E f : Is(f)
  <2>1. \A n \in 1 .. m : \A state \in S : step[n][state] \in S /\ step[n][state] = Turn(state, key)
    BY <1>3
  <2> HIDE DEF step
  <2>2. PICK f : Steps(f, m, S, first, step)
    <3> HIDE DEF m
    <3> QED BY <1>1, <1>2, <2>1, StepByStep
  <2>3. ASSUME NEW n \in 0 .. m PROVE f[n] = IF n = 0 THEN first ELSE Turn(f[n - 1], key)
    <3>1. CASE n = 0
      BY <2>2, <3>1 DEF Steps
    <3>2. CASE n # 0
      <4>1. n \in 1 .. m /\ n - 1 \in 0 .. m
        BY <1>1, <3>2
      <4> HIDE DEF m
      <4>2. f[n - 1] \in S /\ f[n] = step[n][f[n - 1]]
        BY <2>2, <4>1 DEF Steps
      <4> QED BY <2>1, <3>2, <4>1, <4>2
    <3> QED BY <3>1, <3>2
  <2>4. f = [n \in 0 .. m |-> f[n]]
    <3> HIDE DEF m
    <3> QED BY <2>2 DEF Steps
  <2>5. Is(f)
    BY <2>3, <2>4
  <2> HIDE DEF Is
  <2> QED BY <2>5
<1>6. Is(turn)
  <2> HIDE DEF Is
  <2> QED BY <1>5
<1>7. Partition(s, left, right) = [at |-> last.low, sorted |-> [last.s EXCEPT ![last.low] = key]]
  BY DEF Partition, first
<1> HIDE DEF turn
<1> DEFINE Near(n) == turn[n] \in S /\ (turn[n].low = turn[n].high \/ turn[n].high - turn[n].low <= m - n)
           T == {n \in 0 .. m : Near(n)}
<1>8. 0 \in T
  <2>1. turn[0] = first
    BY <1>1, <1>6
  <2>2. first.low = left /\ first.high = right
    BY DEF first
  <2> QED BY <1>1, <1>2, <2>1, <2>2
<1>9. ASSUME NEW n \in 1 .. m, n - 1 \in T PROVE n \in T
  <2> DEFINE was == turn[n - 1]
             is == turn[n]
  <2>1. was \in S /\ (was.low = was.high \/ was.high - was.low <= m - (n - 1)) /\ n \in 0 .. m /\ n # 0
    BY <1>1, <1>9
  <2>2. is = Turn(was, key)
    BY <1>6, <2>1
  <2> HIDE DEF was, is, Is
  <2>3. is \in S /\ (is.low = is.high \/ is.high - is.low < was.high - was.low)
    BY <1>3, <2>1, <2>2
  <2>4. was.low \in Int /\ was.high \in Int /\ is.low \in Int /\ is.high \in Int /\ is.low <= is.high
    BY <1>4, <2>1, <2>3
  <2>5. is.low = is.high \/ is.high - is.low <= m - n
    BY <1>1, <2>1, <2>3, <2>4
  <2> QED BY <2>1, <2>3, <2>5 DEF is
<1>10. Near(m)
  <2> HIDE DEF T
  <2>1. 0 .. m \subseteq T
    BY <1>1, <1>8, <1>9, UpToSet
  <2>2. m \in T
    BY <1>1, <2>1
  <2> QED BY <2>2 DEF T
<1>11. /\ Turning(last, s, left, right, count) /\ last.low = last.high
       /\ last.low \in left .. right
  BY <1>1, <1>4, <1>10
<1> HIDE DEF last
<1> DEFINE at == last.low
           t == [last.s EXCEPT ![last.low] = key]
<1>12. t = Filled(last, key) /\ Mixed(s, t, left, right, count)
  BY <1>11 DEF Filled, Turning
<1>13. at \in 1 .. count /\ DOMAIN last.s = 1 .. count
  BY <1>11 DEF Turning, Entries
<1>14. t[at] = key /\ \A i \in 1 .. count : i # at => t[i] = last.s[i]
  BY <1>13
<1> HIDE DEF t, at
<1>15. ASSUME NEW i \in left .. at - 1 PROVE t[i].score >= t[at].score
  <2>1. i \in 1 .. count /\ i # at
    BY <1>13
  <2> QED BY <1>11, <1>14, <2>1 DEF Turning, at
<1>16. ASSUME NEW i \in at + 1 .. right PROVE t[i].score <= t[at].score
  <2>1. i \in 1 .. count /\ i # at
    BY <1>13
  <2> QED BY <1>11, <1>14, <2>1 DEF Turning, at
<1>17. Partition(s, left, right) = [at |-> at, sorted |-> t]
  BY <1>7 DEF at, t
<1>18. at \in left .. right
  BY <1>11 DEF at
<1> QED
  BY <1>12, <1>15, <1>16, <1>17, <1>18 DEF Parted

\* The entries left .. right of t do not rise.
Falling(t, left, right) == \A a, b \in left .. right : a < b => t[a].score >= t[b].score

\* What a sort of the entries left .. right of any list may be.
Sorters(count) == [Entries(count) -> [1 .. count + 1 -> [0 .. count -> Entries(count)]]]

\* g sorts what has at most n entries, and keeps to its part of any list.
SortsUpTo(g, n, count) ==
    \A s \in Entries(count), left \in 1 .. count + 1, right \in 0 .. count :
        /\ Mixed(s, g[s][left][right], left, right, count)
        /\ right - left + 1 <= n => Falling(g[s][left][right], left, right)

\* One entry put at its place, the parts beside it sorted.
SortStep(g, s, left, right) ==
    IF left >= right THEN s
    ELSE LET split == Partition(s, left, right)
             lower == g[split.sorted][left][split.at - 1]
         IN g[lower][split.at + 1][right]

\* What is sorted on either side of an entry that stands right is sorted.
LEMMA SortStepSorts ==
    ASSUME NEW count \in Nat, NEW g \in Sorters(count), NEW n \in Nat, SortsUpTo(g, n, count),
           NEW s \in Entries(count), NEW left \in 1 .. count + 1, NEW right \in 0 .. count
    PROVE  /\ Mixed(s, SortStep(g, s, left, right), left, right, count)
           /\ right - left + 1 <= n + 1 => Falling(SortStep(g, s, left, right), left, right)
<1>1. CASE left >= right
  <2>1. SortStep(g, s, left, right) = s
    BY <1>1 DEF SortStep
  <2>2. Mixed(s, s, left, right, count)
    BY MixedSame
  <2>3. Falling(s, left, right)
    BY <1>1 DEF Falling
  <2> QED BY <2>1, <2>2, <2>3
<1>2. CASE left < right
  <2> DEFINE split == Partition(s, left, right)
             at == split.at
             sorted == split.sorted
             lower == g[sorted][left][at - 1]
             t == g[lower][at + 1][right]
  <2>1. left \in 1 .. count /\ right \in 1 .. count /\ left <= right
    BY <1>2
  <2>2. Parted(split, s, left, right, count)
    BY <2>1, PartitionParts
  <2> HIDE DEF split
  <2>3. /\ at \in left .. right /\ Mixed(s, sorted, left, right, count)
        /\ \A i \in left .. at - 1 : sorted[i].score >= sorted[at].score
        /\ \A i \in at + 1 .. right : sorted[i].score <= sorted[at].score
    BY <2>2 DEF Parted
  <2> HIDE DEF at, sorted
  <2>4. at \in 1 .. count /\ at - 1 \in 0 .. count /\ at + 1 \in 1 .. count + 1 /\ sorted \in Entries(count)
        /\ left \in Int /\ right \in Int /\ at - 1 \in Int /\ at + 1 \in Int
    BY <2>1, <2>3 DEF Mixed
  <2>5. /\ Mixed(sorted, lower, left, at - 1, count)
        /\ at - 1 - left + 1 <= n => Falling(lower, left, at - 1)
    BY <2>4 DEF SortsUpTo
  <2> HIDE DEF lower
  <2>6. lower \in Entries(count)
    BY <2>5 DEF Mixed
  <2>7. /\ Mixed(lower, t, at + 1, right, count)
        /\ right - (at + 1) + 1 <= n => Falling(t, at + 1, right)
    BY <2>4, <2>6 DEF SortsUpTo
  <2>8. SortStep(g, s, left, right) = t
    BY <1>2, SMTT(20) DEF SortStep, split, at, sorted, lower
  <2> HIDE DEF t
  <2>9. Mixed(s, t, left, right, count)
    <3>1. Mixed(sorted, lower, left, right, count)
      BY <2>3, <2>4, <2>5, MixedWider
    <3>2. Mixed(lower, t, left, right, count)
      BY <2>3, <2>4, <2>7, MixedWider
    <3>3. Mixed(s, lower, left, right, count)
      BY <2>3, <2>4, <3>1, MixedThen
    <3> QED BY <2>4, <3>2, <3>3, MixedThen
  <2>10. ASSUME right - left + 1 <= n + 1 PROVE Falling(t, left, right)
    <3>1. Falling(lower, left, at - 1) /\ Falling(t, at + 1, right)
      BY <2>3, <2>4, <2>5, <2>7, <2>10
    <3>2. PICK p : Moves(p, left, at - 1, count) /\ \A k \in 1 .. count : lower[k] = sorted[p[k]]
      BY <2>5 DEF Mixed
    <3>3. PICK q : Moves(q, at + 1, right, count) /\ \A k \in 1 .. count : t[k] = lower[q[k]]
      BY <2>7 DEF Mixed
    <3> DEFINE key == sorted[at].score
    <3>4. \A i \in 1 .. count : t[i].score \in Int /\ sorted[i].score \in Int
      <4>1. t \in Entries(count)
        BY <2>7 DEF Mixed
      <4> QED BY <2>4, <4>1 DEF Entries, Entry
    <3>5. ASSUME NEW i \in left .. at PROVE t[i] = lower[i] /\ i \in 1 .. count
      <4>1. i \in 1 .. count /\ ~ (i \in at + 1 .. right)
        BY <2>1, <2>4
      <4>2. q[i] = i
        BY <3>3, <4>1 DEF Moves
      <4> QED BY <3>3, <4>1, <4>2
    <3>6. ASSUME NEW i \in left .. at - 1 PROVE t[i].score >= key
      <4>1. i \in left .. at /\ i \in 1 .. count
        BY <2>1, <2>4
      <4>2. t[i] = sorted[p[i]]
        BY <3>2, <3>5, <4>1
      <4>3. p[i] \in left .. at - 1
        BY <3>2, <4>1 DEF Moves
      <4> QED BY <2>3, <4>2, <4>3
    <3>7. t[at].score = key
      <4>1. at \in left .. at /\ ~ (at \in left .. at - 1)
        BY <2>3, <2>4
      <4>2. p[at] = at
        BY <2>4, <3>2, <4>1 DEF Moves
      <4> QED BY <2>4, <3>2, <3>5, <4>1, <4>2
    <3>8. ASSUME NEW i \in at + 1 .. right PROVE t[i].score <= key
      <4>1. i \in 1 .. count
        BY <2>1, <2>4
      <4>2. q[i] \in at + 1 .. right
        BY <3>3, <4>1 DEF Moves
      <4>3. q[i] \in 1 .. count /\ ~ (q[i] \in left .. at - 1)
        BY <2>1, <2>4, <4>2
      <4>4. p[q[i]] = q[i]
        BY <3>2, <4>3 DEF Moves
      <4>5. t[i] = sorted[q[i]]
        BY <3>2, <3>3, <4>1, <4>3, <4>4
      <4> QED BY <2>3, <4>2, <4>5
    <3> HIDE DEF key
    <3>9. key \in Int
      BY <2>4, <3>4 DEF key
    <3>10. \A i \in left .. right : i \in 1 .. count /\ (i \in left .. at - 1 \/ i = at \/ i \in at + 1 .. right)
      BY <2>1, <2>4
    <3>11. ASSUME NEW a \in left .. right, NEW b \in left .. right, a < b PROVE t[a].score >= t[b].score
      <4>1. t[a].score \in Int /\ t[b].score \in Int
        BY <3>4, <3>10
      <4>2. CASE a \in left .. at - 1 /\ b \in left .. at - 1
        <5>1. a \in left .. at /\ b \in left .. at
          BY <2>4, <4>2
        <5> QED BY <3>1, <3>5, <3>11, <4>2, <5>1 DEF Falling
      <4>3. CASE a \in at + 1 .. right /\ b \in at + 1 .. right
        BY <3>1, <3>11, <4>3 DEF Falling
      <4>4. CASE a \in left .. at - 1 \cup {at} /\ b \in {at} \cup (at + 1 .. right)
        <5>1. t[a].score >= key /\ t[b].score <= key
          BY <3>6, <3>7, <3>8, <3>9, <4>4
        <5> QED BY <3>9, <4>1, <5>1
      <4>5. ~ (a \in {at} \cup (at + 1 .. right) /\ b \in left .. at - 1) /\ ~ (a \in at + 1 .. right /\ b = at)
        BY <2>4, <3>11
      <4> QED BY <3>10, <4>2, <4>3, <4>4, <4>5
    <3> QED BY <3>11 DEF Falling
  <2> QED BY <2>8, <2>9, <2>10
<1> QED
  BY <1>1, <1>2

\* The sort by a deeper recursion.
SortOf(g, count) ==
    [s \in Entries(count) |-> [left \in 1 .. count + 1 |-> [right \in 0 .. count |-> SortStep(g, s, left, right)]]]

\* One level more sorts one entry more.
LEMMA SortOfSorts ==
    ASSUME NEW count \in Nat, NEW g \in Sorters(count), NEW n \in Nat, SortsUpTo(g, n, count)
    PROVE  SortOf(g, count) \in Sorters(count) /\ SortsUpTo(SortOf(g, count), n + 1, count)
<1>1. ASSUME NEW s \in Entries(count), NEW left \in 1 .. count + 1, NEW right \in 0 .. count
      PROVE  /\ SortStep(g, s, left, right) \in Entries(count)
             /\ Mixed(s, SortStep(g, s, left, right), left, right, count)
             /\ right - left + 1 <= n + 1 => Falling(SortStep(g, s, left, right), left, right)
  <2>1. /\ Mixed(s, SortStep(g, s, left, right), left, right, count)
        /\ right - left + 1 <= n + 1 => Falling(SortStep(g, s, left, right), left, right)
    BY SortStepSorts
  <2> QED BY <2>1 DEF Mixed
<1>2. SortOf(g, count) \in Sorters(count)
  BY <1>1 DEF SortOf, Sorters
<1>3. ASSUME NEW s \in Entries(count), NEW left \in 1 .. count + 1, NEW right \in 0 .. count
      PROVE  SortOf(g, count)[s][left][right] = SortStep(g, s, left, right)
  BY DEF SortOf
<1> QED
  BY <1>1, <1>2, <1>3 DEF SortsUpTo

\* The whole list falls, and holds what it held.
LEMMA QuickSortSorts ==
    ASSUME NEW count \in Nat, NEW s \in Entries(count)
    PROVE  Mixed(s, QuickSort(s), 1, count, count) /\ Falling(QuickSort(s), 1, count)
<1> DEFINE none == [e \in Entries(count) |-> [left \in 1 .. count + 1 |-> [right \in 0 .. count |-> e]]]
           Is(f) == f = [n \in 0 .. count |->
                            [e \in [1 .. count -> Entry] |-> [left \in 1 .. count + 1 |-> [right \in 0 .. count |->
                                IF n = 0 \/ left >= right THEN e
                                ELSE LET split == Partition(e, left, right)
                                         lower == f[n - 1][split.sorted][left][split.at - 1]
                                     IN f[n - 1][lower][split.at + 1][right]]]]]
           sort == CHOOSE f : Is(f)
           S == {g \in Sorters(count) : SortsUpTo(g, 0, count)}
           step == [n \in 1 .. count |-> [g \in S |-> SortOf(g, count)]]
           Unfolds(f) == \A n \in 0 .. count : f[n] = IF n = 0 THEN none ELSE SortOf(f[n - 1], count)
<1>1. QuickSort(s) = sort[count][s][1][count]
  <2>1. Len(s) = count
    BY DEF Entries
  <2> QED BY <2>1 DEF QuickSort
<1>2. none \in Sorters(count) /\ SortsUpTo(none, 0, count)
  <2>1. none \in Sorters(count)
    BY DEF Sorters
  <2>2. ASSUME NEW e \in Entries(count), NEW left \in 1 .. count + 1, NEW right \in 0 .. count
        PROVE  none[e][left][right] = e
    OBVIOUS
  <2>3. ASSUME NEW e \in Entries(count), NEW left \in 1 .. count + 1, NEW right \in 0 .. count
        PROVE  /\ Mixed(e, e, left, right, count)
               /\ right - left + 1 <= 0 => Falling(e, left, right)
    <3>1. Mixed(e, e, left, right, count)
      BY MixedSame
    <3>2. right - left + 1 <= 0 => Falling(e, left, right)
      BY DEF Falling
    <3> QED BY <3>1, <3>2
  <2> HIDE DEF none
  <2>4. SortsUpTo(none, 0, count)
    BY <2>2, <2>3 DEF SortsUpTo
  <2> QED BY <2>1, <2>4
<1>3. \A f : Is(f) <=> /\ f = [n \in 0 .. count |-> f[n]]
                       /\ Unfolds(f)
  <2> SUFFICES ASSUME NEW f PROVE Is(f) <=> f = [n \in 0 .. count |-> f[n]] /\ Unfolds(f)
    OBVIOUS
  <2> DEFINE value(n, e, left, right) ==
                 IF n = 0 \/ left >= right THEN e
                 ELSE LET split == Partition(e, left, right)
                          lower == f[n - 1][split.sorted][left][split.at - 1]
                      IN f[n - 1][lower][split.at + 1][right]
             body(n) == [e \in [1 .. count -> Entry] |-> [left \in 1 .. count + 1 |-> [right \in 0 .. count |->
                            value(n, e, left, right)]]]
  <2>1. body(0) = none
    BY DEF Entries
  <2>2. ASSUME NEW n \in 1 .. count PROVE body(n) = SortOf(f[n - 1], count)
    <3>1. ASSUME NEW e, NEW left, NEW right
          PROVE  value(n, e, left, right) = SortStep(f[n - 1], e, left, right)
      <4>1. n # 0
        OBVIOUS
      <4> QED BY Zenon, <4>1 DEF SortStep
    <3> HIDE DEF value
    <3> QED BY <3>1 DEF SortOf, Entries
  <2>3. Is(f) <=> f = [n \in 0 .. count |-> body(n)]
    OBVIOUS
  <2> HIDE DEF body, Is, none
  <2>4. \A n \in 0 .. count : body(n) = IF n = 0 THEN none ELSE SortOf(f[n - 1], count)
    BY <2>1, <2>2
  <2> QED BY <2>3, <2>4
<1> HIDE DEF Is, none
<1>4. \A g \in S : g \in Sorters(count) /\ SortsUpTo(g, 0, count)
  OBVIOUS
<1>5. ASSUME NEW g \in S PROVE SortOf(g, count) \in S
  <2>1. SortOf(g, count) \in Sorters(count) /\ SortsUpTo(SortOf(g, count), 1, count)
    <3>1. 0 \in Nat /\ 0 + 1 = 1
      OBVIOUS
    <3> QED BY <1>4, <3>1, SortOfSorts
  <2>2. SortsUpTo(SortOf(g, count), 0, count)
    BY <2>1 DEF SortsUpTo
  <2> QED BY <2>1, <2>2
<1>6. \E f : Is(f)
  <2>1. \A n \in 1 .. count : \A g \in S : step[n][g] \in S /\ step[n][g] = SortOf(g, count)
    BY <1>5
  <2>2. none \in S
    BY <1>2
  <2> HIDE DEF step, S
  <2>3. PICK f : Steps(f, count, S, none, step)
    BY <2>1, <2>2, StepByStep
  <2>4. ASSUME NEW n \in 0 .. count PROVE f[n] = IF n = 0 THEN none ELSE SortOf(f[n - 1], count)
    <3>1. CASE n = 0
      BY <2>3, <3>1 DEF Steps
    <3>2. CASE n # 0
      <4>1. n \in 1 .. count /\ n - 1 \in 0 .. count
        BY <3>2
      <4>2. f[n - 1] \in S /\ f[n] = step[n][f[n - 1]]
        BY <2>3, <4>1 DEF Steps
      <4> QED BY <2>1, <3>2, <4>1, <4>2
    <3> QED BY <3>1, <3>2
  <2>5. f = [n \in 0 .. count |-> f[n]]
    BY <2>3 DEF Steps
  <2> QED BY <1>3, <2>4, <2>5
<1>7. Unfolds(sort)
  BY <1>3, <1>6
<1> HIDE DEF sort, S
<1> DEFINE T == {n \in 0 .. count : sort[n] \in Sorters(count) /\ SortsUpTo(sort[n], n, count)}
<1>8. 0 \in T
  BY <1>2, <1>7
<1>9. ASSUME NEW n \in 1 .. count, n - 1 \in T PROVE n \in T
  <2>1. n - 1 \in Nat /\ (n - 1) + 1 = n /\ n \in 0 .. count
    OBVIOUS
  <2>2. sort[n] = SortOf(sort[n - 1], count)
    BY <1>7, <2>1
  <2>3. sort[n - 1] \in Sorters(count) /\ SortsUpTo(sort[n - 1], n - 1, count)
    BY <1>9
  <2>4. SortOf(sort[n - 1], count) \in Sorters(count) /\ SortsUpTo(SortOf(sort[n - 1], count), (n - 1) + 1, count)
    BY <2>1, <2>3, SortOfSorts
  <2> QED BY <2>1, <2>2, <2>4
<1>10. count \in T
  <2> HIDE DEF T
  <2>1. 0 .. count \subseteq T
    BY <1>8, <1>9, UpToSet
  <2> QED BY <2>1
<1>11. SortsUpTo(sort[count], count, count)
  BY <1>10
<1>12. 1 \in 1 .. count + 1 /\ count \in 0 .. count /\ count - 1 + 1 <= count
  OBVIOUS
<1>13. Mixed(s, sort[count][s][1][count], 1, count, count) /\ Falling(sort[count][s][1][count], 1, count)
  BY <1>11, <1>12 DEF SortsUpTo
<1> QED
  BY <1>1, <1>13

-----------------------------------------------------------------------------
(* The suppression *)

\* A candidate as the decoders make it.
Found == [box : Box, class : 1 .. ObjClassNum, score : Int]

\* Lists of the numbers of candidates, some of them suppressed.
Orders(count) == [1 .. count -> 0 .. count]

\* The boxes of the candidates that o has at the places i and j.
Cover(candidates, o, i, j) == Overlapping(candidates[o[i]].box, candidates[o[j]].box)

\* o is the order before, without some that an earlier box covers.
Thinned(candidates, before, o, count) ==
    /\ o \in Orders(count)
    /\ \A j \in 1 .. count :
          o[j] = before[j] \/ (o[j] = 0 /\ \E i \in 1 .. j - 1 : Cover(candidates, before, i, j))

\* The box at place i is suppressed itself or covers none of the later ones that are left.
Settled(candidates, o, i, count) ==
    o[i] = 0 \/ \A j \in i + 1 .. count : o[j] = 0 \/ ~Cover(candidates, o, i, j)

\* Nothing is in after that was not in before.
Fewer(before, after, count) == \A j \in 1 .. count : after[j] = before[j] \/ after[j] = 0

\* What is settled stays so.
LEMMA SettledStays ==
    ASSUME NEW candidates, NEW count \in Nat, NEW o, NEW after, Fewer(o, after, count),
           NEW i \in 1 .. count, Settled(candidates, o, i, count)
    PROVE  Settled(candidates, after, i, count)
<1>1. \A j \in i + 1 .. count : j \in 1 .. count
  OBVIOUS
<1> QED
  BY <1>1 DEF Settled, Fewer, Cover

\* One that is less than one that is less.
LEMMA FewerThen ==
    ASSUME NEW count, NEW a, NEW b, NEW c, Fewer(a, b, count), Fewer(b, c, count)
    PROVE  Fewer(a, c, count)
BY DEF Fewer

\* A box that suppresses settles its place.
LEMMA SuppressSettles ==
    ASSUME NEW candidates, NEW count \in Nat, NEW before \in Orders(count), NEW o,
           Thinned(candidates, before, o, count), NEW i \in 1 .. count, o[i] # 0
    PROVE  LET after == SuppressBy(candidates, o, i)
           IN /\ Thinned(candidates, before, after, count)
              /\ Fewer(o, after, count)
              /\ Settled(candidates, after, i, count)
<1> DEFINE after == SuppressBy(candidates, o, i)
<1>1. DOMAIN o = 1 .. count /\ \A j \in 1 .. count : o[j] \in 0 .. count
  BY DEF Thinned, Orders
<1>2. after = [j \in 1 .. count |-> IF j > i /\ o[j] # 0 /\ Cover(candidates, o, i, j) THEN 0 ELSE o[j]]
  BY <1>1 DEF SuppressBy, Cover
<1>3. after \in Orders(count) /\ \A j \in 1 .. count :
         after[j] = IF j > i /\ o[j] # 0 /\ Cover(candidates, o, i, j) THEN 0 ELSE o[j]
  <2>1. \A j \in 1 .. count : (IF j > i /\ o[j] # 0 /\ Cover(candidates, o, i, j) THEN 0 ELSE o[j]) \in 0 .. count
    BY <1>1
  <2> HIDE DEF after
  <2> QED BY <1>2, <2>1 DEF Orders
<1> HIDE DEF after
<1>4. Fewer(o, after, count)
  BY <1>3 DEF Fewer
<1>5. ASSUME NEW j \in 1 .. count
      PROVE  after[j] = before[j] \/ (after[j] = 0 /\ \E k \in 1 .. j - 1 : Cover(candidates, before, k, j))
  <2>1. CASE after[j] = o[j]
    BY <2>1 DEF Thinned
  <2>2. CASE after[j] # o[j]
    <3>1. j > i /\ o[j] # 0 /\ Cover(candidates, o, i, j) /\ after[j] = 0
      BY <1>3, <2>2
    <3>2. o[i] = before[i] /\ o[j] = before[j]
      BY <3>1 DEF Thinned
    <3>3. i \in 1 .. j - 1 /\ Cover(candidates, before, i, j)
      BY <3>1, <3>2 DEF Cover
    <3> QED BY <3>1, <3>3
  <2> QED BY <2>1, <2>2
<1>6. Settled(candidates, after, i, count)
  <2>1. after[i] = o[i]
    BY <1>3
  <2>2. ASSUME NEW j \in i + 1 .. count PROVE after[j] = 0 \/ ~Cover(candidates, after, i, j)
    <3>1. j \in 1 .. count /\ j > i
      OBVIOUS
    <3>2. CASE after[j] = o[j]
      BY <1>3, <2>1, <3>1, <3>2 DEF Cover
    <3>3. CASE after[j] # o[j]
      BY <1>3, <3>1, <3>3
    <3> QED BY <3>2, <3>3
  <2> QED BY <2>2 DEF Settled
<1>7. Thinned(candidates, before, after, count)
  BY <1>3, <1>5 DEF Thinned
<1> QED
  BY <1>4, <1>6, <1>7 DEF after

\* One class settles the places of its own numbers.
LEMMA NmsSettles ==
    ASSUME NEW candidates, NEW count \in Nat, NEW before \in Orders(count), NEW order,
           Thinned(candidates, before, order, count), NEW filterId
    PROVE  LET after == Nms(candidates, order, filterId)
           IN /\ Thinned(candidates, before, after, count)
              /\ Fewer(order, after, count)
              /\ \A i \in 1 .. count : candidates[i].class = filterId => Settled(candidates, after, i, count)
<1> DEFINE Then(o, i) == IF o[i] # 0 /\ candidates[i].class = filterId THEN SuppressBy(candidates, o, i) ELSE o
           Is(f) == f = [i \in 0 .. count |->
                           IF i = 0 THEN order
                           ELSE IF f[i - 1][i] # 0 /\ candidates[i].class = filterId
                                THEN SuppressBy(candidates, f[i - 1], i) ELSE f[i - 1]]
           place == CHOOSE f : Is(f)
           S == {o \in Orders(count) : Thinned(candidates, before, o, count)}
           step == [i \in 1 .. count |-> [o \in S |-> Then(o, i)]]
           Unfolds(f) == \A i \in 0 .. count : f[i] = IF i = 0 THEN order ELSE Then(f[i - 1], i)
<1>1. Nms(candidates, order, filterId) = place[count]
  <2>1. Len(order) = count
    BY DEF Thinned, Orders
  <2> QED BY <2>1 DEF Nms
<1>2. order \in S
  BY DEF Thinned
<1>3. ASSUME NEW o \in S, NEW i \in 1 .. count
      PROVE  /\ Then(o, i) \in S /\ Fewer(o, Then(o, i), count)
             /\ candidates[i].class = filterId => Settled(candidates, Then(o, i), i, count)
  <2>1. Thinned(candidates, before, o, count)
    OBVIOUS
  <2>2. CASE o[i] # 0 /\ candidates[i].class = filterId
    <3>1. /\ Thinned(candidates, before, SuppressBy(candidates, o, i), count)
          /\ Fewer(o, SuppressBy(candidates, o, i), count)
          /\ Settled(candidates, SuppressBy(candidates, o, i), i, count)
      BY <2>1, <2>2, SuppressSettles
    <3>2. SuppressBy(candidates, o, i) \in Orders(count)
      BY <3>1 DEF Thinned
    <3> QED BY <2>2, <3>1, <3>2
  <2>3. CASE ~ (o[i] # 0 /\ candidates[i].class = filterId)
    BY <2>3 DEF Fewer, Settled
  <2> QED BY <2>2, <2>3
<1>4. \A f : Is(f) <=> f = [i \in 0 .. count |-> f[i]] /\ Unfolds(f)
  <2> SUFFICES ASSUME NEW f PROVE Is(f) <=> f = [i \in 0 .. count |-> f[i]] /\ Unfolds(f)
    OBVIOUS
  <2> DEFINE body(i) == IF i = 0 THEN order ELSE Then(f[i - 1], i)
  <2>1. Is(f) <=> f = [i \in 0 .. count |-> body(i)]
    OBVIOUS
  <2> HIDE DEF Is, Then
  <2> QED BY <2>1
<1> HIDE DEF Is, Then
<1>5. \E f : Is(f)
  <2>1. \A i \in 1 .. count : \A o \in S : step[i][o] \in S /\ step[i][o] = Then(o, i)
    BY <1>3
  <2> HIDE DEF step, S
  <2>2. PICK f : Steps(f, count, S, order, step)
    BY <1>2, <2>1, StepByStep
  <2>3. ASSUME NEW i \in 0 .. count PROVE f[i] = IF i = 0 THEN order ELSE Then(f[i - 1], i)
    <3>1. CASE i = 0
      BY <2>2, <3>1 DEF Steps
    <3>2. CASE i # 0
      <4>1. i \in 1 .. count /\ i - 1 \in 0 .. count
        BY <3>2
      <4>2. f[i - 1] \in S /\ f[i] = step[i][f[i - 1]]
        BY <2>2, <4>1 DEF Steps
      <4> QED BY <2>1, <3>2, <4>1, <4>2
    <3> QED BY <3>1, <3>2
  <2>4. f = [i \in 0 .. count |-> f[i]]
    BY <2>2 DEF Steps
  <2> QED BY <1>4, <2>3, <2>4
<1>6. Unfolds(place)
  BY <1>4, <1>5
<1> HIDE DEF place
<1>7. \A o \in S : Thinned(candidates, before, o, count)
  OBVIOUS
<1> HIDE DEF S
<1> DEFINE Ok(n) == /\ place[n] \in S /\ Fewer(order, place[n], count)
                    /\ \A i \in 1 .. n : candidates[i].class = filterId => Settled(candidates, place[n], i, count)
           T == {n \in 0 .. count : Ok(n)}
<1>8. 0 \in T
  <2>1. place[0] = order
    BY <1>6
  <2>2. Fewer(order, order, count)
    BY DEF Fewer
  <2> QED BY <1>2, <2>1, <2>2
<1>9. ASSUME NEW n \in 1 .. count, n - 1 \in T PROVE n \in T
  <2> DEFINE o == place[n - 1]
  <2>1. n \in 0 .. count /\ n # 0 /\ place[n] = Then(o, n)
    BY <1>6
  <2>2. /\ o \in S /\ Fewer(order, o, count)
        /\ \A i \in 1 .. n - 1 : candidates[i].class = filterId => Settled(candidates, o, i, count)
    BY <1>9
  <2> HIDE DEF o
  <2>3. /\ place[n] \in S /\ Fewer(o, place[n], count)
        /\ candidates[n].class = filterId => Settled(candidates, place[n], n, count)
    BY <1>3, <2>1, <2>2
  <2>4. Fewer(order, place[n], count)
    BY <2>2, <2>3, FewerThen
  <2>5. ASSUME NEW i \in 1 .. n, candidates[i].class = filterId PROVE Settled(candidates, place[n], i, count)
    <3>1. CASE i = n
      BY <2>3, <2>5, <3>1
    <3>2. CASE i # n
      <4>1. i \in 1 .. n - 1 /\ i \in 1 .. count
        BY <3>2
      <4> QED BY <2>2, <2>3, <2>5, <4>1, SettledStays
    <3> QED BY <3>1, <3>2
  <2> QED BY <2>1, <2>3, <2>4, <2>5
<1>10. count \in T
  <2> HIDE DEF T
  <2>1. 0 .. count \subseteq T
    BY <1>8, <1>9, UpToSet
  <2> QED BY <2>1
<1>11. Ok(count) /\ Thinned(candidates, before, place[count], count)
  BY <1>7, <1>10
<1> QED
  BY <1>1, <1>11

\* All classes settle all places.
LEMMA NmsOfClassesSettles ==
    ASSUME NEW count \in Nat, NEW candidates \in [1 .. count -> Found], NEW order \in Orders(count)
    PROVE  LET after == NmsOfClasses(candidates, order)
           IN /\ Thinned(candidates, order, after, count)
              /\ \A i \in 1 .. count : Settled(candidates, after, i, count)
<1> DEFINE Is(f) == f = [c \in 0 .. ObjClassNum |-> IF c = 0 THEN order ELSE Nms(candidates, f[c - 1], c)]
           round == CHOOSE f : Is(f)
           S == {o \in Orders(count) : Thinned(candidates, order, o, count)}
           step == [c \in 1 .. ObjClassNum |-> [o \in S |-> Nms(candidates, o, c)]]
           Unfolds(f) == \A c \in 0 .. ObjClassNum : f[c] = IF c = 0 THEN order ELSE Nms(candidates, f[c - 1], c)
<1>1. NmsOfClasses(candidates, order) = round[ObjClassNum] /\ ObjClassNum \in Nat
  BY DetectionsAssumption DEF NmsOfClasses
<1>2. order \in S
  BY DEF Thinned
<1>3. ASSUME NEW o \in S, NEW c
      PROVE  /\ Nms(candidates, o, c) \in S /\ Fewer(o, Nms(candidates, o, c), count)
             /\ \A i \in 1 .. count : candidates[i].class = c => Settled(candidates, Nms(candidates, o, c), i, count)
  <2>1. /\ Thinned(candidates, order, Nms(candidates, o, c), count)
        /\ Fewer(o, Nms(candidates, o, c), count)
        /\ \A i \in 1 .. count : candidates[i].class = c => Settled(candidates, Nms(candidates, o, c), i, count)
    BY NmsSettles
  <2>2. Nms(candidates, o, c) \in Orders(count)
    BY <2>1 DEF Thinned
  <2> QED BY <2>1, <2>2
<1>4. \A f : Is(f) <=> f = [c \in 0 .. ObjClassNum |-> f[c]] /\ Unfolds(f)
  OBVIOUS
<1> HIDE DEF Is
<1>5. \E f : Is(f)
  <2>1. \A c \in 1 .. ObjClassNum : \A o \in S : step[c][o] \in S /\ step[c][o] = Nms(candidates, o, c)
    BY <1>3
  <2> HIDE DEF step, S
  <2>2. PICK f : Steps(f, ObjClassNum, S, order, step)
    BY <1>1, <1>2, <2>1, StepByStep
  <2>3. ASSUME NEW c \in 0 .. ObjClassNum PROVE f[c] = IF c = 0 THEN order ELSE Nms(candidates, f[c - 1], c)
    <3>1. CASE c = 0
      BY <2>2, <3>1 DEF Steps
    <3>2. CASE c # 0
      <4>1. c \in 1 .. ObjClassNum /\ c - 1 \in 0 .. ObjClassNum
        BY <1>1, <3>2
      <4>2. f[c - 1] \in S /\ f[c] = step[c][f[c - 1]]
        BY <2>2, <4>1 DEF Steps
      <4> QED BY <2>1, <3>2, <4>1, <4>2
    <3> QED BY <3>1, <3>2
  <2>4. f = [c \in 0 .. ObjClassNum |-> f[c]]
    BY <2>2 DEF Steps
  <2> QED BY <1>4, <2>3, <2>4
<1>6. Unfolds(round)
  BY <1>4, <1>5
<1> HIDE DEF round
<1>7. \A o \in S : Thinned(candidates, order, o, count)
  OBVIOUS
<1> HIDE DEF S
<1> DEFINE Ok(n) == /\ round[n] \in S
                    /\ \A i \in 1 .. count : candidates[i].class \in 1 .. n => Settled(candidates, round[n], i, count)
           T == {n \in 0 .. ObjClassNum : Ok(n)}
<1>8. 0 \in T
  <2>1. round[0] = order
    BY <1>1, <1>6
  <2> QED BY <1>1, <1>2, <2>1
<1>9. ASSUME NEW n \in 1 .. ObjClassNum, n - 1 \in T PROVE n \in T
  <2> DEFINE o == round[n - 1]
  <2>1. n \in 0 .. ObjClassNum /\ n # 0 /\ round[n] = Nms(candidates, o, n)
    BY <1>6
  <2>2. /\ o \in S
        /\ \A i \in 1 .. count : candidates[i].class \in 1 .. n - 1 => Settled(candidates, o, i, count)
    BY <1>9
  <2> HIDE DEF o
  <2>3. /\ round[n] \in S /\ Fewer(o, round[n], count)
        /\ \A i \in 1 .. count : candidates[i].class = n => Settled(candidates, round[n], i, count)
    BY <1>3, <2>1, <2>2
  <2>4. ASSUME NEW i \in 1 .. count, candidates[i].class \in 1 .. n PROVE Settled(candidates, round[n], i, count)
    <3>1. CASE candidates[i].class = n
      BY <2>3, <3>1
    <3>2. CASE candidates[i].class # n
      <4>1. candidates[i].class \in 1 .. n - 1
        BY <2>4, <3>2
      <4>2. Settled(candidates, o, i, count)
        BY <2>2, <4>1
      <4> QED BY <2>3, <4>2, SettledStays
    <3> QED BY <3>1, <3>2
  <2> QED BY <2>1, <2>3, <2>4
<1>10. ObjClassNum \in T
  <2> HIDE DEF T
  <2>1. 0 .. ObjClassNum \subseteq T
    BY <1>1, <1>8, <1>9, UpToSet
  <2> QED BY <1>1, <2>1
<1>11. Ok(ObjClassNum) /\ Thinned(candidates, order, round[ObjClassNum], count)
  BY <1>7, <1>10
<1>12. \A i \in 1 .. count : candidates[i].class \in 1 .. ObjClassNum
  BY DEF Found
<1> QED
  BY <1>1, <1>11, <1>12

-----------------------------------------------------------------------------
(* What is reported *)

\* The first entries of a list, at most as many as there is room for.
LEMMA FirstOnes ==
    ASSUME NEW T, NEW s \in Seq(T), NEW room \in Nat \ {0}
    PROVE  LET t == SubSeq(s, 1, Min({Len(s), room}))
           IN /\ t \in Seq(T) /\ Len(t) <= room /\ Len(t) <= Len(s)
              /\ Len(t) < room => Len(t) = Len(s)
              /\ Len(s) > 0 => Len(t) > 0
              /\ \A k \in 1 .. Len(t) : t[k] = s[k]
<1> DEFINE n == Min({Len(s), room})
           t == SubSeq(s, 1, n)
<1>1. Len(s) \in Nat /\ room \in Nat \ {0}
  OBVIOUS
<1>2. n = IF Len(s) <= room THEN Len(s) ELSE room
  BY <1>1, MinOfTwo
<1> HIDE DEF n
<1>3. n \in 0 .. Len(s)
  BY <1>1, <1>2
<1>4. t \in Seq(T) /\ Len(t) = n /\ \A k \in 1 .. n : t[k] = s[k]
  BY <1>1, <1>3
<1> HIDE DEF t
<1>5. /\ t \in Seq(T) /\ Len(t) <= room /\ Len(t) <= Len(s)
      /\ Len(t) < room => Len(t) = Len(s)
      /\ Len(s) > 0 => Len(t) > 0
      /\ \A k \in 1 .. Len(t) : t[k] = s[k]
  BY <1>1, <1>2, <1>3, <1>4
<1> QED
  BY <1>5 DEF t, n

\* Sorting gives every candidate a place, the better before the worse.
Ranked(candidates, order, count) ==
    /\ order \in [1 .. count -> 1 .. count]
    /\ \A a, b \in 1 .. count : order[a] = order[b] => a = b
    /\ \A i \in 1 .. count : \E a \in 1 .. count : order[a] = i
    /\ \A a, b \in 1 .. count : a < b => Best(candidates, order[a], order[b])

\* The entries in falling order of their scores rank the candidates.
LEMMA SortedIsRanked ==
    ASSUME NEW count \in Nat, NEW candidates \in [1 .. count -> Found]
    PROVE  LET entries == [i \in DOMAIN candidates |-> [score |-> candidates[i].score, index |-> i]]
               sorted == QuickSort(entries)
               order == [i \in DOMAIN sorted |-> sorted[i].index]
           IN Ranked(candidates, order, count)
<1> DEFINE entries == [i \in DOMAIN candidates |-> [score |-> candidates[i].score, index |-> i]]
           sorted == QuickSort(entries)
           order == [i \in DOMAIN sorted |-> sorted[i].index]
<1>1. \A i \in 1 .. count : candidates[i].score \in Int
  BY DEF Found
<1>2. entries \in Entries(count) /\ \A i \in 1 .. count : entries[i].score = candidates[i].score /\ entries[i].index = i
  BY <1>1 DEF Entries, Entry
<1> HIDE DEF entries
<1>3. Mixed(entries, sorted, 1, count, count) /\ Falling(sorted, 1, count)
  BY <1>2, QuickSortSorts
<1> HIDE DEF sorted
<1>4. PICK p : Moves(p, 1, count, count) /\ \A k \in 1 .. count : sorted[k] = entries[p[k]]
  BY <1>3 DEF Mixed
<1>5. DOMAIN sorted = 1 .. count /\ p \in [1 .. count -> 1 .. count]
  BY <1>3, <1>4 DEF Mixed, Entries, Moves
<1>6. \A k \in 1 .. count : p[k] \in 1 .. count /\ order[k] = p[k] /\ sorted[k].score = candidates[p[k]].score
  BY <1>2, <1>4, <1>5
<1>7. order \in [1 .. count -> 1 .. count]
  <2>1. order = [k \in 1 .. count |-> order[k]]
    BY <1>5
  <2> HIDE DEF order
  <2> QED BY <1>6, <2>1
<1> HIDE DEF order
<1>8. ASSUME NEW a \in 1 .. count, NEW b \in 1 .. count, order[a] = order[b] PROVE a = b
  <2>1. p[a] = p[b]
    BY <1>6, <1>8
  <2> QED BY <1>4, <2>1 DEF Moves
<1>9. \A i \in 1 .. count : \E a \in 1 .. count : order[a] = i
  <2> SUFFICES ASSUME NEW i \in 1 .. count PROVE \E a \in 1 .. count : order[a] = i
    OBVIOUS
  <2>1. PICK a \in 1 .. count : p[a] = i
    BY <1>4 DEF Moves
  <2> QED BY <1>6, <2>1
<1>10. \A a, b \in 1 .. count : a < b => Best(candidates, order[a], order[b])
  BY <1>3, <1>6 DEF Falling, Best
<1>11. Ranked(candidates, order, count)
  BY <1>7, <1>8, <1>9, <1>10 DEF Ranked
<1> QED
  BY <1>11 DEF order, sorted, entries

\* What is left of a ranking when every place is settled.
LEMMA LeftIsBest ==
    ASSUME NEW count \in Nat, NEW candidates \in [1 .. count -> Found], NEW order, NEW after,
           Ranked(candidates, order, count), Thinned(candidates, order, after, count),
           \A i \in 1 .. count : Settled(candidates, after, i, count)
    PROVE  LET taken == Taken(after, {i \in DOMAIN after : after[i] # 0})
               kept == SubSeq(taken, 1, Min({Len(taken), MaxResults}))
           IN /\ kept \in Seq(1 .. count)
              /\ BestOf(candidates, kept,
                     \E c \in Range(kept) : candidates[c].class = 1 /\ candidates[c].score >= PersonThreshold)
<1> DEFINE places == {i \in DOMAIN after : after[i] # 0}
           taken == Taken(after, places)
           n == Len(taken)
           kept == SubSeq(taken, 1, Min({Len(taken), MaxResults}))
           m == Len(kept)
<1>1. after \in [1 .. count -> 0 .. count] /\ DOMAIN after = 1 .. count /\ after \in Seq(0 .. count) /\ Len(after) = count
  BY DEF Thinned, Orders
<1>2. taken \in Seq(0 .. count)
  BY <1>1, TakenIs
<1>3. PICK at : Lists(at, n, places, count) /\ \A k \in 1 .. n : taken[k] = after[at[k]]
  <2> HIDE DEF places
  <2>1. \E at : /\ Lists(at, Len(Taken(after, places)), places, Len(after))
                 /\ \A k \in 1 .. Len(Taken(after, places)) : Taken(after, places)[k] = after[at[k]]
    <3> DEFINE T == 0 .. count
    <3>1. after \in Seq(T)
      BY <1>1
    <3> HIDE DEF T
    <3> QED BY <3>1, TakenIs
  <2> QED BY <1>1, <2>1
<1>4. \A i \in 1 .. count : i \in places <=> after[i] # 0
  BY <1>1
<1>5. n \in Nat
  BY <1>2
<1> HIDE DEF places, taken
<1>6. /\ kept \in Seq(0 .. count) /\ m <= MaxResults /\ m <= n /\ m \in Nat
      /\ m < MaxResults => m = n
      /\ n > 0 => m > 0
      /\ \A k \in 1 .. m : kept[k] = taken[k]
  <2>1. /\ kept \in Seq(0 .. count) /\ m <= MaxResults /\ m <= n
        /\ m < MaxResults => m = n
        /\ n > 0 => m > 0
        /\ \A k \in 1 .. m : kept[k] = taken[k]
    BY <1>2, FirstOnes, DetectionsAssumption
  <2>2. m \in Nat
    <3> HIDE DEF kept
    <3> QED BY <2>1
  <2> HIDE DEF kept, m, n
  <2> QED BY <2>1, <2>2
<1>7. DOMAIN kept = 1 .. m
  BY <1>6
<1> HIDE DEF kept, m, n
<1>8. /\ \A k \in 1 .. n : at[k] \in 1 .. count /\ at[k] \in places
      /\ \A a, b \in 1 .. n : a < b => at[a] < at[b]
      /\ \A i \in places : i \in 1 .. count => \E a \in 1 .. n : at[a] = i
  BY <1>3 DEF Lists
<1>9. /\ \A a \in 1 .. count : order[a] \in 1 .. count
      /\ \A a, b \in 1 .. count : order[a] = order[b] => a = b
      /\ \A i \in 1 .. count : \E a \in 1 .. count : order[a] = i
      /\ \A a, b \in 1 .. count : a < b => Best(candidates, order[a], order[b])
  BY DEF Ranked
<1>10. \A j \in 1 .. count :
          after[j] = order[j] \/ (after[j] = 0 /\ \E i \in 1 .. j - 1 : Cover(candidates, order, i, j))
  BY DEF Thinned
<1>11. ASSUME NEW k \in 1 .. m
       PROVE  /\ k \in 1 .. n /\ at[k] \in 1 .. count /\ after[at[k]] # 0
              /\ kept[k] = order[at[k]] /\ kept[k] = after[at[k]] /\ kept[k] \in 1 .. count
  <2>1. k \in 1 .. n
    BY <1>5, <1>6
  <2>2. at[k] \in 1 .. count /\ after[at[k]] # 0 /\ kept[k] = after[at[k]]
    BY <1>3, <1>4, <1>6, <1>8, <2>1
  <2> QED BY <1>9, <1>10, <2>1, <2>2
<1>12. kept \in Seq(1 .. count)
  <2>1. kept \in [1 .. m -> 0 .. count]
    BY <1>6 DEF m
  <2>2. kept \in [1 .. m -> 1 .. count]
    BY <1>11, <2>1
  <2> QED BY <1>6, <2>2
<1>13. ASSUME NEW a \in DOMAIN kept, NEW b \in DOMAIN kept, a < b
       PROVE  /\ Best(candidates, kept[a], kept[b])
              /\ ~Overlapping(candidates[kept[a]].box, candidates[kept[b]].box)
  <2>1. a \in 1 .. m /\ b \in 1 .. m
    BY <1>7
  <2>2. at[a] < at[b] /\ at[a] \in 1 .. count /\ at[b] \in 1 .. count
    BY <1>8, <1>11, <1>13, <2>1
  <2>3. Best(candidates, kept[a], kept[b])
    <3>1. Best(candidates, order[at[a]], order[at[b]])
      BY <1>9, <2>2
    <3>2. kept[a] = order[at[a]] /\ kept[b] = order[at[b]]
      BY <1>11, <2>1
    <3> QED BY <3>1, <3>2
  <2>4. at[b] \in at[a] + 1 .. count
    BY <2>2
  <2>5. ~Cover(candidates, after, at[a], at[b])
    BY <1>11, <2>1, <2>2, <2>4 DEF Settled
  <2> QED BY <1>11, <2>1, <2>3, <2>5 DEF Cover
<1>14. ASSUME candidates # <<>>
       PROVE  kept # <<>> /\ \A i \in DOMAIN candidates : Best(candidates, kept[1], i)
  <2>1. count # 0
    <3> SUFFICES ASSUME count = 0 PROVE FALSE
      OBVIOUS
    <3>1. candidates \in [1 .. 0 -> Found]
      OBVIOUS
    <3> QED BY <1>14, <3>1
  <2>2. 1 \in 1 .. count /\ after[1] = order[1] /\ after[1] # 0
    <3>1. 1 \in 1 .. count
      BY <2>1
    <3>2. ~\E i \in 1 .. 1 - 1 : Cover(candidates, order, i, 1)
      OBVIOUS
    <3>3. after[1] = order[1]
      BY <1>10, <3>1, <3>2, Zenon
    <3>4. order[1] \in 1 .. count
      BY <1>9, <3>1
    <3> QED BY <3>1, <3>3, <3>4
  <2>3. PICK a \in 1 .. n : at[a] = 1
    BY <1>4, <1>8, <2>2
  <2>4. 1 \in 1 .. n /\ at[1] = 1
    <3>1. 1 \in 1 .. n
      BY <1>5, <2>3
    <3>2. at[1] \in 1 .. count
      BY <1>8, <3>1
    <3>3. a = 1 \/ at[1] < at[a]
      BY <1>5, <1>8, <2>3, <3>1
    <3> QED BY <2>3, <3>1, <3>2, <3>3
  <2>5. 1 \in 1 .. m
    BY <1>5, <1>6, <2>4
  <2>6. kept[1] = order[1] /\ kept # <<>>
    <3>1. kept[1] = order[1]
      BY <1>11, <2>4, <2>5
    <3>2. kept # <<>>
      <4>1. Len(kept) > 0
        BY <2>5 DEF m
      <4> QED BY <4>1
    <3> QED BY <3>1, <3>2
  <2>7. ASSUME NEW i \in DOMAIN candidates PROVE Best(candidates, order[1], i)
    <3>1. PICK x \in 1 .. count : order[x] = i
      BY <1>9
    <3>2. CASE x = 1
      BY <2>7, <3>1, <3>2 DEF Best, Found
    <3>3. CASE x # 1
      <4>1. 1 < x
        BY <3>3
      <4>2. Best(candidates, order[1], order[x])
        BY <1>9, <2>2, <4>1
      <4> QED BY <3>1, <4>2
    <3> QED BY <3>2, <3>3
  <2> QED BY <2>6, <2>7
<1>15. ASSUME m < MaxResults, NEW i \in DOMAIN candidates \ Range(kept)
       PROVE  \E j \in DOMAIN candidates \ {i} :
                 /\ Best(candidates, j, i)
                 /\ Overlapping(candidates[j].box, candidates[i].box)
  <2>1. PICK x \in 1 .. count : order[x] = i
    BY <1>9
  <2>2. after[x] # order[x]
    <3> SUFFICES ASSUME after[x] = order[x] PROVE FALSE
      OBVIOUS
    <3>1. after[x] # 0
      BY <1>9, <2>1
    <3>2. PICK a \in 1 .. n : at[a] = x
      BY <1>4, <1>8, <3>1
    <3>3. a \in 1 .. m
      BY <1>6, <1>15
    <3>4. kept[a] = i
      BY <1>11, <2>1, <3>2, <3>3
    <3> QED BY <1>7, <1>15, <3>3, <3>4 DEF Range
  <2>3. PICK y \in 1 .. x - 1 : Cover(candidates, order, y, x)
    BY <1>10, <2>2
  <2>4. y \in 1 .. count /\ y < x
    OBVIOUS
  <2>5. order[y] \in DOMAIN candidates /\ order[y] # i
    <3>1. order[y] \in 1 .. count /\ y # x
      BY <1>9, <2>4
    <3>2. order[y] # order[x]
      BY <1>9, <2>4, <3>1
    <3> QED BY <2>1, <3>1, <3>2
  <2>6. Best(candidates, order[y], i)
    BY <1>9, <2>1, <2>4
  <2> QED BY <2>1, <2>3, <2>5, <2>6 DEF Cover
<1>16. BestOf(candidates, kept,
           \E c \in Range(kept) : candidates[c].class = 1 /\ candidates[c].score >= PersonThreshold)
  BY <1>6, <1>13, <1>14, <1>15 DEF BestOf, m
<1> QED
  BY <1>12, <1>16 DEF kept, taken, places

\* What a decoder returns is a list of candidates.
LEMMA DecodedAreFound ==
    ASSUME NEW cells \in Seq(Cell), NEW candidates \in Decoded(cells)
    PROVE  \E count \in Nat : candidates \in [1 .. count -> Found]
<1>1. PICK P : candidates = Decode(Taken(cells, P))
  BY DEF Decoded, DecodeI8, DecodeU8, DecodeRv1106, DecodeFp32
<1> DEFINE passing == Taken(cells, P)
<1>2. passing \in Seq(Cell)
  BY TakenIs
<1> HIDE DEF passing
<1>3. ASSUME NEW cell \in Cell PROVE Candidate(cell) \in Found
  <2>1. BestClass(cell) \in 1 .. ObjClassNum /\ BestProb(cell) \in Int
    BY BestClassIsFirst
  <2>2. cell.box \in Box /\ cell.conf \in Int
    BY DEF Cell
  <2>3. Real(BestProb(cell)) \in Int /\ Real(cell.conf) \in Int
    BY <2>1, <2>2, DetectionsAssumption DEF Real
  <2>4. Real(BestProb(cell)) * Real(cell.conf) \in Int
    BY <2>3
  <2> QED BY <2>1, <2>2, <2>4 DEF Candidate, Found
<1>4. Decode(passing) = [i \in 1 .. Len(passing) |-> Candidate(passing[i])] /\ Len(passing) \in Nat
  BY <1>2 DEF Decode
<1>5. \A i \in 1 .. Len(passing) : Candidate(passing[i]) \in Found
  BY <1>2, <1>3
<1>6. Decode(passing) \in [1 .. Len(passing) -> Found]
  BY <1>4, <1>5
<1> QED
  BY <1>1, <1>4, <1>6 DEF passing

\* Only the first class is called a person.
LEMMA OnePersonClass ==
    ASSUME NEW class \in 1 .. ObjClassNum, ClassNames[class] = <<"person">>
    PROVE  class = 1
<1> DEFINE labels == Labels(LabelLines)
<1>1. Name(labels, class) = <<"person">>
  BY DEF ClassNames
<1>2. LabelLines \in Seq(Seq(STRING)) /\ ObjClassNum \in Nat \ {0}
  BY LabelsAssumption, DetectionsAssumption
<1>3. /\ labels \in Seq(Seq(STRING)) /\ Len(labels) <= Len(LabelLines)
      /\ \A k \in 1 .. Len(labels) : labels[k] = LabelLines[k]
  BY <1>2, FirstOnes DEF Labels
<1> HIDE DEF labels
<1>4. <<"null">> # <<"person">>
  OBVIOUS
<1>5. class \in DOMAIN labels /\ labels[class] = <<"person">>
  BY <1>1, <1>4 DEF Name
<1>6. class \in 1 .. Len(labels) /\ class \in DOMAIN LabelLines
  BY <1>2, <1>3, <1>5
<1>7. LabelLines[class] = <<"person">>
  BY <1>3, <1>5, <1>6
<1> QED
  BY <1>6, <1>7, LabelsAssumption

\* What post_process reports is the best of the candidates, and a person among it is seen.
LEMMA ReportedIsBest ==
    ASSUME NEW count \in Nat, NEW candidates \in [1 .. count -> Found], NEW letterbox
    PROVE  BestOf(candidates, Reported(candidates),
                  PersonPresent(PostProcess(candidates, Reported(candidates), letterbox),
                                ClassNames, PersonThreshold))
<1> DEFINE entries == [i \in DOMAIN candidates |-> [score |-> candidates[i].score, index |-> i]]
           sorted == QuickSort(entries)
           order == [i \in DOMAIN sorted |-> sorted[i].index]
           after == NmsOfClasses(candidates, order)
           taken == Taken(after, {i \in DOMAIN after : after[i] # 0})
           kept == SubSeq(taken, 1, Min({Len(taken), MaxResults}))
           seen == \E c \in Range(kept) : candidates[c].class = 1 /\ candidates[c].score >= PersonThreshold
           found == PostProcess(candidates, Reported(candidates), letterbox)
<1>1. Ranked(candidates, order, count)
  BY SortedIsRanked
<1> HIDE DEF entries, sorted, order
<1>2. order \in Orders(count)
  BY <1>1 DEF Ranked, Orders
<1>3. /\ Thinned(candidates, order, after, count)
      /\ \A i \in 1 .. count : Settled(candidates, after, i, count)
  BY <1>2, NmsOfClassesSettles
<1> HIDE DEF after
<1>4. kept \in Seq(1 .. count) /\ BestOf(candidates, kept, seen)
  BY <1>1, <1>3, LeftIsBest
<1> HIDE DEF taken
<1>5. Reported(candidates) = kept
  BY DEF Reported, kept, taken, after, order, sorted, entries
<1> HIDE DEF kept
<1>6. PersonPresent(found, ClassNames, PersonThreshold) = seen
  <2>1. DOMAIN found = DOMAIN kept
        /\ \A i \in DOMAIN kept : found[i].class = candidates[kept[i]].class /\ found[i].score = candidates[kept[i]].score
    BY <1>5 DEF PostProcess
  <2>2. \A i \in DOMAIN kept : kept[i] \in 1 .. count /\ candidates[kept[i]].class \in 1 .. ObjClassNum
    BY <1>4 DEF Found
  <2>3. \A i \in DOMAIN kept : (found[i].class = 1 \/ ClassNames[found[i].class] = <<"person">>)
                                  <=> candidates[kept[i]].class = 1
    BY <2>1, <2>2, OnePersonClass
  <2> HIDE DEF found
  <2>4. PersonPresent(found, ClassNames, PersonThreshold)
           <=> \E i \in DOMAIN kept : candidates[kept[i]].class = 1 /\ candidates[kept[i]].score >= PersonThreshold
    BY <2>1, <2>3 DEF PersonPresent
  <2>5. seen <=> \E i \in DOMAIN kept : candidates[kept[i]].class = 1 /\ candidates[kept[i]].score >= PersonThreshold
    BY DEF Range
  <2> QED BY <2>4, <2>5 DEF PersonPresent
<1> QED
  BY <1>4, <1>5, <1>6

\* What DetectObjects has answered is what it made of the cells it was given.
DetectInv ==
    /\ "cells" \in DOMAIN input =>
          \E cells \in CellLists, size \in Sizes : input = [cells |-> cells, size |-> size]
    /\ Answered("candidates") \/ Answered("reported") =>
          /\ "cells" \in DOMAIN input
          /\ output.candidates \in Decoded(input.cells)
          /\ output.reported = Reported(output.candidates)
          /\ output.person = PersonPresent(PostProcess(output.candidates, output.reported,
                                                       WithLetterbox(input.size, Model)),
                                           ClassNames, PersonThreshold)

\* A call begins unanswered.
LEMMA InitDetect == Init => DetectInv
<1> SUFFICES ASSUME Init PROVE DetectInv
  OBVIOUS
<1>1. ~Answered("candidates") /\ ~Answered("reported")
  BY DEF Init, Answered
<1>2. "cells" \in DOMAIN input =>
          \E cells \in CellLists, size \in Sizes : input = [cells |-> cells, size |-> size]
  BY DEF Init
<1> QED
  BY <1>1, <1>2 DEF DetectInv

\* No other call answers with candidates.
LEMMA DetectNext == DetectInv /\ [Next]_vars => DetectInv'
<1> SUFFICES ASSUME DetectInv, [Next]_vars PROVE DetectInv'
  OBVIOUS
<1>1. CASE DetectObjects
  <2>1. PICK candidates \in Decoded(input.cells) :
           \E reported \in {Reported(candidates)} :
           \E found \in {PostProcess(candidates, reported, WithLetterbox(input.size, Model))} :
              output' = [candidates |-> candidates, reported |-> reported, found |-> found,
                         person |-> PersonPresent(found, ClassNames, PersonThreshold),
                         shapes |-> Apply(input.size, YoloLines(found, ClassNames), FALSE)]
    BY <1>1 DEF DetectObjects
  <2>2. /\ output'.candidates = candidates /\ output'.reported = Reported(candidates)
        /\ output'.person = PersonPresent(PostProcess(candidates, Reported(candidates),
                                                      WithLetterbox(input.size, Model)),
                                          ClassNames, PersonThreshold)
    BY <2>1
  <2>3. input' = input /\ "cells" \in DOMAIN input
    BY <1>1 DEF DetectObjects, Called
  <2>4. Model' = Model /\ ClassNames' = ClassNames
    BY DEF Model, ClassNames
  <2> QED
    BY <2>2, <2>3, <2>4 DEF DetectInv
<1>2. CASE FitFrame
  BY <1>2 DEF FitFrame, DetectInv, Answered
<1>3. CASE DetectFaces
  BY <1>3 DEF DetectFaces, DetectInv, Answered
<1>4. CASE AlignSounds
  BY <1>4 DEF AlignSounds, MiddleProcess, DetectInv, Answered
<1>5. CASE SpeakText
  BY <1>5 DEF SpeakText, DetectInv, Answered
<1>6. CASE ReadConfig
  BY <1>6 DEF ReadConfig, DetectInv, Answered
<1>7. CASE UNCHANGED vars
  BY <1>7 DEF vars, DetectInv, Answered
<1> QED
  BY <1>1, <1>2, <1>3, <1>4, <1>5, <1>6, <1>7 DEF Next

\* The lists of cells the assumption allows.
LEMMA CellsAreCells == CellLists \subseteq Seq(Cell)
BY CellsAssumption DEF Cell, Box

\* For all output tensors, every threshold, zero point and scale and every number of classes, each
\* decoder takes the cells that are a quantum above the threshold, under the class they are surest
\* of, and none that is a quantum below (process_i8, process_u8, process_i8_rv1106, process_fp32).
THEOREM SureCellsAlwaysCandidates == Spec => []SureCellsAreCandidates
<1>1. DetectInv => SureCellsAreCandidates
  <2> SUFFICES ASSUME DetectInv, Answered("candidates")
               PROVE  SureOnes(input.cells, output.candidates)
    BY Zenon DEF SureCellsAreCandidates
  <2>1. PICK cells \in CellLists, size \in Sizes : input = [cells |-> cells, size |-> size]
    BY DEF DetectInv
  <2>2. input.cells \in Seq(Cell)
    BY <2>1, CellsAreCells
  <2>3. output.candidates \in Decoded(input.cells)
    BY DEF DetectInv
  <2> QED BY <2>2, <2>3, DecodersTakeSureOnes
<1> QED
  BY <1>1, InitDetect, DetectNext, PTL DEF Spec

\* For all output tensors, what is reported falls, begins with the best candidate, holds no two boxes
\* of one class that cover each other and leaves out only what a box at least as good covers, and a person is seen
\* exactly when one of it is a person (quick_sort_indice_inverse, nms, post_process).
THEOREM BestBoxesAlwaysReported == Spec => []BestBoxesReported
<1>1. DetectInv => BestBoxesReported
  <2> SUFFICES ASSUME DetectInv, Answered("reported")
               PROVE  BestOf(output.candidates, output.reported, output.person)
    BY Zenon DEF BestBoxesReported
  <2>1. PICK cells \in CellLists, size \in Sizes : input = [cells |-> cells, size |-> size]
    BY DEF DetectInv
  <2>2. input.cells \in Seq(Cell)
    BY <2>1, CellsAreCells
  <2> DEFINE candidates == output.candidates
  <2>3. candidates \in Decoded(input.cells) /\ output.reported = Reported(candidates)
        /\ output.person = PersonPresent(PostProcess(candidates, Reported(candidates),
                                                     WithLetterbox(input.size, Model)),
                                         ClassNames, PersonThreshold)
    BY DEF DetectInv
  <2> HIDE DEF candidates
  <2>4. PICK count \in Nat : candidates \in [1 .. count -> Found]
    BY <2>2, <2>3, DecodedAreFound
  <2> QED BY <2>3, <2>4, ReportedIsBest DEF candidates
<1> QED
  BY <1>1, InitDetect, DetectNext, PTL DEF Spec

-----------------------------------------------------------------------------
(* A face *)

\* A corner comes back where it was, less at most a pixel of the model; the corner across it, which
\* is a sum of two quotients, less at most one more.
LEMMA SideBack ==
    ASSUME NEW v1 \in Nat, NEW v2 \in Nat, NEW orig \in Nat \ {0}, NEW new \in Nat \ {0}, NEW pad \in Int,
           v1 < v2, (v2 - v1 - 1) * new >= orig
    PROVE  LET p1 == IntoModel(v1, new, orig, pad)
               p2 == IntoModel(v2, new, orig, pad)
               back == Unpad(p1, pad, orig, new)
               length == Cast((p2 - p1) * orig, new)
               slack == (orig + new - 1) \div new
           IN /\ back \in Nat /\ length \in Nat \ {0}
              /\ v1 - back \in 0 .. slack /\ v2 - (back + length) \in 0 .. slack + 1
<1> DEFINE p1 == IntoModel(v1, new, orig, pad)
           p2 == IntoModel(v2, new, orig, pad)
           q1 == (v1 * new) \div orig
           q2 == (v2 * new) \div orig
           back == (q1 * orig) \div new
           length == ((q2 - q1) * orig) \div new
           slack == (orig + new - 1) \div new
<1>1. v1 * new \in Nat /\ v2 * new \in Nat
  OBVIOUS
<1>2. /\ q1 \in Nat /\ orig * q1 <= v1 * new /\ v1 * new < orig * q1 + orig
      /\ q2 \in Nat /\ orig * q2 <= v2 * new /\ v2 * new < orig * q2 + orig
  BY <1>1, Quotient
<1> HIDE DEF q1, q2
<1>3. p1 - pad = q1 /\ p2 - pad = q2 /\ p2 - p1 = q2 - q1
  BY <1>2 DEF IntoModel, q1, q2
<1> HIDE DEF p1, p2
<1> DEFINE a == orig * q1
           b == orig * q2
           m == v1 * new
           n == v2 * new
<1>4. a \in Nat /\ b \in Nat /\ m \in Nat /\ n \in Nat
      /\ q1 * orig = a /\ (q2 - q1) * orig = b - a
  BY <1>1, <1>2
<1>5. n - m >= orig + new
  <2>1. (v2 - v1 - 1) * new = n - m - new
    OBVIOUS
  <2>2. new \in Nat /\ orig \in Nat
    OBVIOUS
  <2> HIDE DEF n, m
  <2> QED BY <1>4, <2>1, <2>2
<1>6. b - a > new /\ b - a \in Nat
  <2>1. a <= m /\ n < b + orig
    BY <1>2
  <2> HIDE DEF a, b, m, n
  <2> QED BY <1>4, <1>5, <2>1
<1>7. /\ back = a \div new /\ back \in Nat /\ new * back <= a /\ a < new * back + new
      /\ length = (b - a) \div new /\ length \in Nat /\ new * length <= b - a /\ b - a < new * length + new
  <2>1. back = a \div new /\ length = (b - a) \div new
    BY <1>4
  <2> HIDE DEF a, b, back, length
  <2> QED BY <1>4, <1>6, <2>1, Quotient
<1>8. slack \in Nat /\ new * slack <= orig + new - 1 /\ orig + new - 1 < new * slack + new
  BY Quotient
<1>9. Unpad(p1, pad, orig, new) = back /\ Cast((p2 - p1) * orig, new) = length
  <2>1. (p1 - pad) * orig = a /\ (p2 - p1) * orig = b - a
    BY <1>3, <1>4
  <2> HIDE DEF a, b, back, length
  <2> QED BY <1>4, <1>6, <1>7, <2>1 DEF Unpad, Cast
<1> HIDE DEF back, length, slack
<1> DEFINE r == new * back
           l == new * length
           k == new * slack
<1>10. r \in Nat /\ l \in Nat /\ k \in Nat
  BY <1>7, <1>8
<1>11. a <= m /\ m < a + orig /\ b <= n /\ n < b + orig
  BY <1>2
<1>12. r <= a /\ a < r + new /\ l <= b - a /\ b - a < l + new /\ k <= orig + new - 1 /\ orig + new - 1 < k + new
  BY <1>7, <1>8
<1>13. r <= m /\ m < r + k + new /\ r + l <= n /\ n < r + l + k + new + new /\ l # 0
  <2>1. orig \in Nat /\ new \in Nat
    OBVIOUS
  <2> HIDE DEF a, b, m, n, r, l, k
  <2> QED BY <1>4, <1>6, <1>10, <1>11, <1>12, <2>1
<1>14. length # 0
  BY <1>7, <1>13
<1>15. back <= v1 /\ v1 < back + slack + 1 /\ back + length <= v2 /\ v2 < back + length + slack + 2
  <2>1. back * new <= v1 * new
    BY <1>7, <1>13
  <2>2. v1 * new < (back + slack + 1) * new
    <3>1. (back + slack + 1) * new = r + k + new
      BY <1>7, <1>8
    <3> QED BY <1>13, <3>1
  <2>3. (back + length) * new <= v2 * new
    <3>1. (back + length) * new = r + l
      BY <1>7
    <3> QED BY <1>13, <3>1
  <2>4. v2 * new < (back + length + slack + 2) * new
    <3>1. (back + length + slack + 2) * new = r + l + k + new + new
      BY <1>7, <1>8
    <3> QED BY <1>13, <3>1
  <2>5. back + length \in Nat /\ back + slack + 1 \in Nat /\ back + length + slack + 2 \in Nat
    BY <1>7, <1>8
  <2> QED BY <1>7, <2>1, <2>2, <2>3, <2>4, <2>5, Cancel, CancelLeq
<1>16. /\ v1 - back \in 0 .. slack /\ v2 - (back + length) \in 0 .. slack + 1
       /\ back \in Nat /\ length \in Nat \ {0}
  BY <1>7, <1>8, <1>14, <1>15
<1> QED
  BY <1>9, <1>16 DEF p1, p2, slack

\* Of two faces that overlap the better one is taken.
LEMMA BetterFaceTaken ==
    ASSUME NEW faces, faces = <<faces[1], faces[2]>>, faces[1].score \in Int, faces[2].score \in Int,
           ConfThreshold < faces[1].score, faces[1].score < faces[2].score, FacesOverlap(faces[1], faces[2])
    PROVE  NMSBoxes(faces) = <<2>>
<1> DEFINE start == [left |-> {i \in DOMAIN faces : faces[i].score > ConfThreshold}, taken |-> <<>>]
           one == [left |-> {1}, taken |-> <<2>>]
           two == [left |-> {}, taken |-> <<2>>]
           Is(f) == f = [n \in 0 .. 2 |-> IF n = 0 THEN start ELSE TakeBest(faces, f[n - 1])]
           take == CHOOSE f : Is(f)
<1>1. Len(faces) = 2 /\ DOMAIN faces = {1, 2}
  OBVIOUS
<1>2. NMSBoxes(faces) = take[2].taken
  BY <1>1 DEF NMSBoxes
<1>3. start = [left |-> {1, 2}, taken |-> <<>>]
  <2>1. faces[1].score > ConfThreshold /\ faces[2].score > ConfThreshold
    BY FacesAssumption
  <2> QED BY <1>1, <2>1
<1> HIDE DEF start
<1>4. TakeBest(faces, start) = one
  <2>1. BestFace(faces, {1, 2}) = 2
    BY DEF BestFace
  <2>2. Range(<<>>) = {}
    BY DEF Range
  <2>3. {1, 2} \ {2} = {1} /\ Append(<<>>, 2) = <<2>> /\ {1, 2} # {}
    OBVIOUS
  <2> QED BY <1>3, <2>1, <2>2, <2>3 DEF TakeBest
<1>5. TakeBest(faces, one) = two
  <2>1. BestFace(faces, {1}) = 1
    BY DEF BestFace
  <2>2. 2 \in Range(<<2>>)
    BY DEF Range
  <2>3. \E k \in Range(<<2>>) : FacesOverlap(faces[1], faces[k])
    BY <2>2
  <2> QED BY <2>1, <2>3 DEF TakeBest
<1> HIDE DEF one, two
<1>6. \E f : Is(f)
  <2> DEFINE f == [n \in 0 .. 2 |-> IF n = 0 THEN start ELSE IF n = 1 THEN one ELSE two]
  <2>1. f[0] = start /\ f[1] = one /\ f[2] = two
    OBVIOUS
  <2>2. ASSUME NEW n \in 0 .. 2 PROVE f[n] = IF n = 0 THEN start ELSE TakeBest(faces, f[n - 1])
    <3>1. n = 0 \/ n = 1 \/ n = 2
      OBVIOUS
    <3> HIDE DEF f
    <3> QED BY <1>4, <1>5, <2>1, <3>1
  <2>3. f = [n \in 0 .. 2 |-> f[n]]
    OBVIOUS
  <2> HIDE DEF f
  <2>4. Is(f)
    BY <2>2, <2>3
  <2> HIDE DEF Is
  <2> QED BY <2>4
<1>7. Is(take)
  <2> HIDE DEF Is
  <2> QED BY <1>6
<1> HIDE DEF take
<1>8. take[0] = start /\ take[1] = TakeBest(faces, take[0]) /\ take[2] = TakeBest(faces, take[1])
  BY <1>7
<1>9. take[2] = two
  BY <1>4, <1>5, <1>8
<1> QED
  BY <1>2, <1>9 DEF two

\* What a list holds whose places are all, or none, among those taken.
LEMMA TakenSmall ==
    ASSUME NEW T, NEW s \in Seq(T), NEW P
    PROVE  /\ P \cap (1 .. Len(s)) = {} => Taken(s, P) = <<>>
           /\ Len(s) \in 1 .. 2 /\ 1 .. Len(s) \subseteq P => Taken(s, P) = s
<1> DEFINE t == Taken(s, P)
           n == Len(t)
           L == Len(s)
<1>1. t \in Seq(T) /\ n \in Nat /\ L \in Nat
  BY TakenIs
<1>2. PICK at : Lists(at, n, P, L) /\ \A k \in 1 .. n : t[k] = s[at[k]]
  BY TakenIs
<1> HIDE DEF t
<1>3. /\ \A k \in 1 .. n : at[k] \in P \cap (1 .. L)
      /\ \A a, b \in 1 .. n : a < b => at[a] < at[b]
      /\ \A i \in P \cap (1 .. L) : \E a \in 1 .. n : at[a] = i
  BY <1>2 DEF Lists
<1>4. ASSUME P \cap (1 .. L) = {} PROVE t = <<>>
  <2>1. n = 0
    <3> SUFFICES ASSUME n # 0 PROVE FALSE
      OBVIOUS
    <3>1. 1 \in 1 .. n
      BY <1>1
    <3> QED BY <1>3, <1>4, <3>1
  <2> QED BY <1>1, <2>1
<1>5. ASSUME L \in 1 .. 2, 1 .. L \subseteq P PROVE t = s
  <2>1. P \cap (1 .. L) = 1 .. L
    BY <1>5
  <2> HIDE DEF n, L
  <2>2. n = L /\ \A k \in 1 .. L : at[k] = k
    <3>1. PICK a \in 1 .. n : at[a] = 1
      BY <1>3, <1>5, <2>1
    <3>2. PICK b \in 1 .. n : at[b] = L
      BY <1>3, <1>5, <2>1
    <3>3. 1 \in 1 .. n /\ n \in 1 .. n
      BY <1>1, <3>1
    <3>4. at[1] \in 1 .. L /\ at[n] \in 1 .. L
      BY <1>3, <2>1, <3>3
    <3>5. CASE L = 1
      <4>1. n = 1
        <5> SUFFICES ASSUME n # 1 PROVE FALSE
          OBVIOUS
        <5>1. at[1] < at[n]
          BY <1>1, <1>3, <3>3
        <5> QED BY <3>4, <3>5, <5>1
      <4> QED BY <3>4, <3>5, <4>1
    <3>6. CASE L = 2
      <4>1. n \in 1 .. 2
        <5> SUFFICES ASSUME n > 2 PROVE FALSE
          BY <1>1, <3>3
        <5>1. 2 \in 1 .. n
          BY <1>1
        <5>2. at[1] < at[2] /\ at[2] < at[n] /\ at[2] \in 1 .. L
          BY <1>1, <1>3, <2>1, <3>3, <5>1
        <5> QED BY <3>4, <3>6, <5>2
      <4>2. a # b
        BY <3>1, <3>2, <3>6
      <4>3. n = 2
        BY <4>1, <4>2
      <4>4. at[1] < at[2]
        BY <1>3, <3>3, <4>3
      <4> QED BY <3>4, <3>6, <4>3, <4>4
    <3> QED BY <1>5, <3>5, <3>6
  <2>3. DOMAIN t = 1 .. L /\ DOMAIN s = 1 .. L /\ s = [k \in 1 .. L |-> s[k]] /\ t = [k \in 1 .. L |-> t[k]]
    <3>1. Len(t) = L
      BY <2>2 DEF n
    <3> QED BY <1>1, <3>1 DEF L
  <2>4. \A k \in 1 .. L : t[k] = s[k]
    BY <1>2, <2>2
  <2> QED BY <2>3, <2>4
<1> QED
  BY <1>4, <1>5 DEF t

\* The heads of a model that names its outputs or groups them are found.
LEMMA HeadsFound ==
    ASSUME NEW layout \in Layouts, NamedLayout(layout) \/ GroupedLayout(layout)
    PROVE  /\ HeadsHold(layout)
           /\ \A s \in 1 .. 3 : Resolve(layout, s).ok
           /\ Readable(layout, Resolve(layout, 2))
<1> DEFINE kinds == <<"score", "bbox", "kps">>
           KindSet == {"score", "bbox", "kps"}
           n == Len(layout)
<1>1. Range(kinds) = KindSet /\ Range(Strides) = {8, 16, 32} /\ \A s \in 1 .. 3 : Strides[s] \in {8, 16, 32}
  BY DEF Range, Strides
<1>2. /\ DOMAIN layout = 1 .. n /\ n \in Nat
      /\ \A i \in DOMAIN layout, kind \in Range(kinds), stride \in Range(Strides) :
            layout[i].name = <<kind, stride>> => layout[i].holds = <<kind, stride>>
      /\ \/ \A kind \in Range(kinds), stride \in Range(Strides) :
               \E i \in DOMAIN layout : layout[i].name = <<kind, stride>>
         \/ n >= 9 /\ \A k, s \in 1 .. 3 : layout[3 * k - 3 + s].holds = <<kinds[k], Strides[s]>>
      /\ \A i \in DOMAIN layout, kind \in Range(kinds) :
            layout[i].holds = <<kind, Strides[2]>> => layout[i].buf /\ layout[i].whole
  BY LayoutsAssumption DEF NamedLayout, GroupedLayout, Kinds
<1> HIDE DEF kinds
<1>3. ASSUME NEW kind \in KindSet, NEW stride \in {8, 16, 32}
      PROVE  LET i == FindOutputByName(layout, kind, stride)
             IN /\ i # 0 => i \in 1 .. n /\ layout[i].holds = <<kind, stride>>
                /\ i = 0 => \A j \in 1 .. n : layout[j].name # <<kind, stride>>
  <2> DEFINE named == {i \in DOMAIN layout : layout[i].name = <<kind, stride>>}
  <2>1. named \in SUBSET Int /\ \A x \in named : 0 <= x
    BY <1>2
  <2>2. FindOutputByName(layout, kind, stride) = IF named = {} THEN 0 ELSE Min(named)
    BY DEF FindOutputByName
  <2>3. CASE named = {}
    BY <1>2, <2>2, <2>3
  <2>4. CASE named # {}
    <3>1. Min(named) \in named
      <4> HIDE DEF named
      <4> QED BY <2>1, <2>4, LeastOfSet
    <3>2. Min(named) \in DOMAIN layout /\ layout[Min(named)].name = <<kind, stride>>
      BY <3>1
    <3>3. kind \in Range(kinds) /\ stride \in Range(Strides)
      BY <1>1
    <3> HIDE DEF named, KindSet, n
    <3>4. layout[Min(named)].holds = <<kind, stride>> /\ Min(named) \in 1 .. n
      BY <1>2, <3>2, <3>3
    <3>5. Min(named) # 0
      BY <1>2, <3>4
    <3> QED BY <2>2, <2>4, <3>4, <3>5
  <2> QED BY <2>3, <2>4
<1>4. ASSUME NEW s \in 1 .. 3
      PROVE  LET head == Resolve(layout, s)
             IN /\ head.ok
                /\ head.score \in 1 .. n /\ layout[head.score].holds = <<"score", Strides[s]>>
                /\ head.bbox \in 1 .. n /\ layout[head.bbox].holds = <<"bbox", Strides[s]>>
                /\ head.kps \in 1 .. n /\ layout[head.kps].holds = <<"kps", Strides[s]>>
  <2> DEFINE find(kind) == FindOutputByName(layout, kind, Strides[s])
  <2>1. /\ ByName(layout, s).ok <=> 0 \notin {find("score"), find("bbox"), find("kps")}
        /\ ByName(layout, s).score = find("score") /\ ByName(layout, s).bbox = find("bbox")
        /\ ByName(layout, s).kps = find("kps")
    BY DEF ByName
  <2>2. Strides[s] \in {8, 16, 32}
    BY <1>1
  <2>3. \A kind \in KindSet :
            /\ find(kind) # 0 => find(kind) \in 1 .. n /\ layout[find(kind)].holds = <<kind, Strides[s]>>
            /\ find(kind) = 0 => \A j \in 1 .. n : layout[j].name # <<kind, Strides[s]>>
    <3> SUFFICES ASSUME NEW kind \in KindSet
                 PROVE  /\ find(kind) # 0 => find(kind) \in 1 .. n /\ layout[find(kind)].holds = <<kind, Strides[s]>>
                        /\ find(kind) = 0 => \A j \in 1 .. n : layout[j].name # <<kind, Strides[s]>>
      OBVIOUS
    <3> DEFINE stride == Strides[s]
    <3>1. stride \in {8, 16, 32}
      BY <2>2
    <3> HIDE DEF KindSet, n, stride
    <3>2. /\ FindOutputByName(layout, kind, stride) # 0 =>
                /\ FindOutputByName(layout, kind, stride) \in 1 .. n
                /\ layout[FindOutputByName(layout, kind, stride)].holds = <<kind, stride>>
          /\ FindOutputByName(layout, kind, stride) = 0 => \A j \in 1 .. n : layout[j].name # <<kind, stride>>
      BY <1>3, <3>1, Zenon
    <3> QED BY <3>2 DEF stride
  <2> DEFINE score == find("score")
             bbox == find("bbox")
             kps == find("kps")
  <2>6. /\ ByName(layout, s).ok <=> score # 0 /\ bbox # 0 /\ kps # 0
        /\ ByName(layout, s).score = score /\ ByName(layout, s).bbox = bbox /\ ByName(layout, s).kps = kps
    <3> DEFINE name == ByName(layout, s)
    <3> HIDE DEF name, find
    <3> QED BY <2>1 DEF name
  <2>7. /\ score # 0 => score \in 1 .. n /\ layout[score].holds = <<"score", Strides[s]>>
        /\ bbox # 0 => bbox \in 1 .. n /\ layout[bbox].holds = <<"bbox", Strides[s]>>
        /\ kps # 0 => kps \in 1 .. n /\ layout[kps].holds = <<"kps", Strides[s]>>
    BY <2>3
  <2>8. score = 0 \/ bbox = 0 \/ kps = 0 =>
            \E kind \in KindSet : \A j \in 1 .. n : layout[j].name # <<kind, Strides[s]>>
    BY <2>3
  <2> HIDE DEF find, score, bbox, kps
  <2>4. CASE ByName(layout, s).ok
    <3>1. Resolve(layout, s) = ByName(layout, s)
      BY <2>4 DEF Resolve
    <3>2. score # 0 /\ bbox # 0 /\ kps # 0
      BY <2>4, <2>6
    <3>3. /\ Resolve(layout, s).ok /\ Resolve(layout, s).score = score
          /\ Resolve(layout, s).bbox = bbox /\ Resolve(layout, s).kps = kps
      BY <2>4, <2>6, <3>1
    <3> QED BY <2>7, <3>2, <3>3
  <2>5. CASE ~ByName(layout, s).ok
    <3>2. PICK kind \in KindSet : \A j \in 1 .. n : layout[j].name # <<kind, Strides[s]>>
      <4>1. score = 0 \/ bbox = 0 \/ kps = 0
        BY <2>5, <2>6
      <4> QED BY <2>8, <4>1
    <3>3. ~ \A k \in Range(kinds), stride \in Range(Strides) :
               \E i \in DOMAIN layout : layout[i].name = <<k, stride>>
      <4>1. kind \in Range(kinds) /\ Strides[s] \in Range(Strides)
        BY <1>1, <2>2
      <4> SUFFICES ASSUME \A k \in Range(kinds), stride \in Range(Strides) :
                             \E i \in DOMAIN layout : layout[i].name = <<k, stride>>
                   PROVE  FALSE
        OBVIOUS
      <4>2. \E i \in DOMAIN layout : layout[i].name = <<kind, Strides[s]>>
        BY <4>1
      <4>3. DOMAIN layout = 1 .. n
        BY <1>2
      <4> HIDE DEF KindSet, n
      <4> QED BY <3>2, <4>2, <4>3
    <3>4. n >= 9 /\ \A k, t \in 1 .. 3 : layout[3 * k - 3 + t].holds = <<kinds[k], Strides[t]>>
      BY <1>2, <3>3
    <3>1. Resolve(layout, s) = [ok |-> TRUE, score |-> s, bbox |-> s + 3, kps |-> s + 6]
      BY <2>5, <3>4 DEF Resolve, Grouped
    <3>5. /\ layout[s].holds = <<"score", Strides[s]>>
          /\ layout[s + 3].holds = <<"bbox", Strides[s]>>
          /\ layout[s + 6].holds = <<"kps", Strides[s]>>
      <4>1. 1 \in 1 .. 3 /\ 2 \in 1 .. 3 /\ 3 \in 1 .. 3
            /\ 3 * 1 - 3 + s = s /\ 3 * 2 - 3 + s = s + 3 /\ 3 * 3 - 3 + s = s + 6
        OBVIOUS
      <4>2. kinds[1] = "score" /\ kinds[2] = "bbox" /\ kinds[3] = "kps"
        BY DEF kinds
      <4> QED BY <3>4, <4>1, <4>2
    <3>6. s \in 1 .. n /\ s + 3 \in 1 .. n /\ s + 6 \in 1 .. n
      BY <1>2, <3>4
    <3> QED BY <3>1, <3>5, <3>6
  <2> QED BY <2>4, <2>5
<1>5. HeadsHold(layout)
  BY <1>4 DEF HeadsHold
<1>6. Readable(layout, Resolve(layout, 2))
  <2> DEFINE head == Resolve(layout, 2)
  <2>1. /\ head.score \in DOMAIN layout /\ layout[head.score].holds = <<"score", Strides[2]>>
        /\ head.bbox \in DOMAIN layout /\ layout[head.bbox].holds = <<"bbox", Strides[2]>>
        /\ head.kps \in DOMAIN layout /\ layout[head.kps].holds = <<"kps", Strides[2]>>
    <3>1. 2 \in 1 .. 3 /\ DOMAIN layout = 1 .. n
      BY <1>2
    <3> HIDE DEF n
    <3> QED BY <3>1, <1>4, Zenon
  <2> HIDE DEF head
  <2>2. layout[head.score].buf /\ layout[head.score].whole /\ layout[head.bbox].buf /\ layout[head.kps].buf
    BY <1>1, <1>2, <2>1
  <2>3. Readable(layout, head)
    BY <2>2 DEF Readable
  <2> QED BY <2>3 DEF head
<1> QED
  BY <1>4, <1>5, <1>6

\* What PointsOf says of a face at one anchor that gives it this score.
PointAt(face, box, score) ==
    LET x(v) == IntoModel(v, box.new_w, box.orig_w, box.pad_w)
        y(v) == IntoModel(v, box.new_h, box.orig_h, box.pad_h)
    IN [x1 |-> x(face.x1), y1 |-> y(face.y1), x2 |-> x(face.x2), y2 |-> y(face.y2),
        kps |-> [x |-> x(face.x1), y |-> y(face.y1)], score |-> score]

\* The face that point is taken for.
FaceAs(face, box, score) == FaceInFrame(PointAt(face, box, score), box)

\* The sides of the box LetterboxResize makes, and the sides of the face in it.
LEMMA FaceInBox ==
    ASSUME NEW face \in FaceAt, NEW size \in Sizes, face.x2 < size.w, face.y2 < size.h
    PROVE  LET box == LetterboxResize(size, ModelWidth)
           IN /\ {box.new_w, box.new_h, box.orig_w, box.orig_h} \subseteq Nat \ {0}
              /\ box.pad_w \in Int /\ box.pad_h \in Int
              /\ {face.x1, face.x2, face.y1, face.y2} \subseteq Nat
              /\ face.x1 < face.x2 /\ (face.x2 - face.x1 - 1) * box.new_w >= box.orig_w
              /\ face.y1 < face.y2 /\ (face.y2 - face.y1 - 1) * box.new_h >= box.orig_h
<1> DEFINE box == LetterboxResize(size, ModelWidth)
           quotient_w == (ModelWidth * size.w) \div size.h
           quotient_h == (ModelWidth * size.h) \div size.w
<1>1. size.w \in Nat \ {0} /\ size.h \in Nat \ {0} /\ ModelWidth \in Nat \ {0}
  BY SizesAssumption, DetectionsAssumption
<1>2. quotient_w \in Nat /\ quotient_h \in Nat
  <2>1. ModelWidth * size.w \in Nat /\ ModelWidth * size.h \in Nat
    BY <1>1
  <2> QED BY <1>1, <2>1, Quotient
<1>3. /\ box.new_w = (IF size.h > size.w THEN quotient_w ELSE ModelWidth)
      /\ box.new_h = (IF size.h < size.w THEN quotient_h + 1 ELSE ModelWidth)
      /\ box.orig_w = size.w /\ box.orig_h = size.h
      /\ box.pad_w = (ModelWidth - box.new_w) \div 2 /\ box.pad_h = (ModelWidth - box.new_h) \div 2
  BY DEF LetterboxResize
<1>4. /\ (face.x2 - face.x1 - 1) * box.new_w >= size.w
      /\ (face.y2 - face.y1 - 1) * box.new_h >= size.h
  BY FacesAssumption
<1>5. {face.x1, face.x2, face.y1, face.y2} \subseteq Nat
  BY FacesAssumption
<1> HIDE DEF box, quotient_w, quotient_h
<1>6. box.new_w \in Nat /\ box.new_h \in Nat
  BY <1>1, <1>2, <1>3
<1>7. box.pad_w \in Int /\ box.pad_h \in Int
  BY <1>1, <1>3, <1>6
<1>8. ASSUME NEW d \in Int, NEW new \in Nat, NEW orig \in Nat \ {0}, (d - 1) * new >= orig
      PROVE  new # 0 /\ 0 < d
  <2>1. new # 0
    <3> SUFFICES ASSUME new = 0 PROVE FALSE
      OBVIOUS
    <3>1. (d - 1) * 0 = 0
      OBVIOUS
    <3> QED BY <1>8, <3>1
  <2>2. 0 < d
    <3> SUFFICES ASSUME d <= 0 PROVE FALSE
      OBVIOUS
    <3>1. 1 - d \in Nat /\ (1 - d) * new \in Nat /\ (d - 1) * new = 0 - (1 - d) * new
      OBVIOUS
    <3> QED BY <1>8, <3>1
  <2> QED BY <2>1, <2>2
<1>9. box.new_w # 0 /\ 0 < face.x2 - face.x1
  <2> DEFINE d == face.x2 - face.x1
  <2>1. d \in Int /\ (d - 1) * box.new_w >= size.w
    BY <1>4, <1>5
  <2> HIDE DEF d
  <2>2. box.new_w # 0 /\ 0 < d
    BY <1>1, <1>6, <1>8, <2>1
  <2> QED BY <2>2 DEF d
<1>10. box.new_h # 0 /\ 0 < face.y2 - face.y1
  <2> DEFINE d == face.y2 - face.y1
  <2>1. d \in Int /\ (d - 1) * box.new_h >= size.h
    BY <1>4, <1>5
  <2> HIDE DEF d
  <2>2. box.new_h # 0 /\ 0 < d
    BY <1>1, <1>6, <1>8, <2>1
  <2> QED BY <2>2 DEF d
<1>11. face.x1 < face.x2 /\ face.y1 < face.y2
  BY <1>5, <1>9, <1>10
<1> QED
  BY <1>1, <1>3, <1>4, <1>5, <1>6, <1>7, <1>9, <1>10, <1>11 DEF box

\* A face is brought back to where it is, with a width and a height, whatever its score.
LEMMA FaceBroughtBack ==
    ASSUME NEW face \in FaceAt, NEW size \in Sizes, face.x2 < size.w, face.y2 < size.h, NEW score \in Int
    PROVE  LET box == LetterboxResize(size, ModelWidth)
               f == FaceAs(face, box, score)
           IN /\ {f.x1, f.y1, f.x2, f.y2} \subseteq Nat /\ f.x1 < f.x2 /\ f.y1 < f.y2
              /\ DrawnAt(f, face, box) /\ f.score = score
<1> DEFINE box == LetterboxResize(size, ModelWidth)
           f == FaceAs(face, box, score)
<1>1. /\ {box.new_w, box.new_h, box.orig_w, box.orig_h} \subseteq Nat \ {0}
      /\ box.pad_w \in Int /\ box.pad_h \in Int
      /\ {face.x1, face.x2, face.y1, face.y2} \subseteq Nat
      /\ face.x1 < face.x2 /\ (face.x2 - face.x1 - 1) * box.new_w >= box.orig_w
      /\ face.y1 < face.y2 /\ (face.y2 - face.y1 - 1) * box.new_h >= box.orig_h
  BY FaceInBox
<1> HIDE DEF box
<1> DEFINE into_x(v) == IntoModel(v, box.new_w, box.orig_w, box.pad_w)
           into_y(v) == IntoModel(v, box.new_h, box.orig_h, box.pad_h)
           back_x == Unpad(into_x(face.x1), box.pad_w, box.orig_w, box.new_w)
           back_y == Unpad(into_y(face.y1), box.pad_h, box.orig_h, box.new_h)
           width == Cast((into_x(face.x2) - into_x(face.x1)) * box.orig_w, box.new_w)
           height == Cast((into_y(face.y2) - into_y(face.y1)) * box.orig_h, box.new_h)
           slack(orig, new) == (orig + new - 1) \div new
<1>2. /\ f.x1 = back_x /\ f.y1 = back_y /\ f.x2 = back_x + width /\ f.y2 = back_y + height
      /\ f.score = score
  BY DEF FaceAs, FaceInFrame, PointAt
<1>3. /\ back_x \in Nat /\ width \in Nat \ {0}
      /\ face.x1 - back_x \in 0 .. slack(box.orig_w, box.new_w)
      /\ face.x2 - (back_x + width) \in 0 .. slack(box.orig_w, box.new_w) + 1
  BY <1>1, SideBack
<1>4. /\ back_y \in Nat /\ height \in Nat \ {0}
      /\ face.y1 - back_y \in 0 .. slack(box.orig_h, box.new_h)
      /\ face.y2 - (back_y + height) \in 0 .. slack(box.orig_h, box.new_h) + 1
  BY <1>1, SideBack
<1> HIDE DEF into_x, into_y, back_x, back_y, width, height, f
<1>5. DrawnAt(f, face, box)
  BY <1>2, <1>3, <1>4 DEF DrawnAt
<1>6. {f.x1, f.y1, f.x2, f.y2} \subseteq Nat /\ f.x1 < f.x2 /\ f.y1 < f.y2
  BY <1>2, <1>3, <1>4
<1> QED
  BY <1>2, <1>5, <1>6 DEF f, box

\* A face overlaps itself.
LEMMA OverlapsItself ==
    ASSUME NEW a, NEW b, {a.x1, a.y1, a.x2, a.y2} \subseteq Nat, a.x1 < a.x2, a.y1 < a.y2,
           b.x1 = a.x1, b.y1 = a.y1, b.x2 = a.x2, b.y2 = a.y2
    PROVE  FacesOverlap(a, b)
<1>1. ASSUME NEW low \in Nat, NEW high \in Nat, low < high
      PROVE  FaceShared(low, high, low, high) = high - low
  <2>1. Min({high, high}) = high /\ Max({low, low}) = low
    BY MinOfTwo, MaxOfTwo
  <2>2. Max({0, high - low}) = high - low
    <3>1. high - low \in Int /\ ~(0 >= high - low)
      BY <1>1
    <3> QED BY <3>1, MaxOfTwo
  <2> QED BY <2>1, <2>2 DEF FaceShared
<1> DEFINE width == a.x2 - a.x1
           height == a.y2 - a.y1
           area == width * height
<1>2. width \in Nat \ {0} /\ height \in Nat \ {0}
  OBVIOUS
<1>3. FaceShared(a.x1, a.x2, b.x1, b.x2) = width /\ FaceShared(a.y1, a.y2, b.y1, b.y2) = height
  BY <1>1
<1>4. (b.x2 - b.x1) * (b.y2 - b.y1) = area
  OBVIOUS
<1> HIDE DEF width, height
<1>5. area \in Nat \ {0}
  BY <1>2
<1>6. FacesOverlap(a, b) <=> 100 * area > FaceNmsPercent * (area + area - area)
  BY <1>3, <1>4 DEF FacesOverlap, width, height
<1>7. 100 * area > FaceNmsPercent * area
  <2>1. FaceNmsPercent \in Nat /\ FaceNmsPercent < 100
    BY FacesAssumption
  <2> HIDE DEF area
  <2>2. 100 * area - FaceNmsPercent * area = (100 - FaceNmsPercent) * area
    BY <1>5, <2>1
  <2>3. (100 - FaceNmsPercent) * area > 0
    BY <1>5, <2>1
  <2> QED BY <1>5, <2>1, <2>2, <2>3
<1>8. area + area - area = area
  BY <1>5
<1> QED
  BY <1>6, <1>7, <1>8

\* Of what PointsOf says the two of the middle scale are above the threshold.
LEMMA MiddleScaleSees ==
    ASSUME NEW layout \in Layouts, NamedLayout(layout) \/ GroupedLayout(layout), NEW face, NEW box
    PROVE  LET points == PointsOf(face, box)
               read(s) == IF Readable(layout, Resolve(layout, s))
                          THEN Taken(points[s], {i \in DOMAIN points[s] : points[s][i].score >= ConfThreshold})
                          ELSE <<>>
           IN read(1) \o read(2) \o read(3)
                  = <<PointAt(face, box, ConfThreshold + 1), PointAt(face, box, ConfThreshold + 2)>>
<1> DEFINE points == PointsOf(face, box)
           high(s) == {i \in DOMAIN points[s] : points[s][i].score >= ConfThreshold}
           read(s) == IF Readable(layout, Resolve(layout, s)) THEN Taken(points[s], high(s)) ELSE <<>>
           low == PointAt(face, box, ConfThreshold - 1)
           one == PointAt(face, box, ConfThreshold + 1)
           two == PointAt(face, box, ConfThreshold + 2)
           T == {low, one, two}
<1>1. points[1] = <<low>> /\ points[2] = <<one, two>> /\ points[3] = <<>>
  BY DEF PointsOf, PointAt
<1>2. low.score = ConfThreshold - 1 /\ one.score = ConfThreshold + 1 /\ two.score = ConfThreshold + 2
  BY DEF PointAt
<1>3. ConfThreshold \in Int
  BY FacesAssumption
<1> HIDE DEF points, low, one, two
<1>4. high(1) = {}
  <2>1. DOMAIN points[1] = {1} /\ points[1][1] = low
    BY <1>1
  <2> QED BY <1>2, <1>3, <2>1
<1>5. high(2) = {1, 2}
  <2>1. DOMAIN points[2] = {1, 2} /\ points[2][1] = one /\ points[2][2] = two
    BY <1>1
  <2> QED BY <1>2, <1>3, <2>1
<1> HIDE DEF high
<1>6. points[1] \in Seq(T) /\ points[2] \in Seq(T) /\ points[3] \in Seq(T)
      /\ Len(points[2]) = 2 /\ Len(points[3]) = 0
  BY <1>1
<1> HIDE DEF T
<1>7. Taken(points[1], high(1)) = <<>>
  BY <1>4, <1>6, TakenSmall
<1>8. Taken(points[2], high(2)) = points[2]
  <2>1. Len(points[2]) \in 1 .. 2 /\ 1 .. Len(points[2]) \subseteq high(2)
    BY <1>5, <1>6
  <2> QED BY <1>6, <2>1, TakenSmall
<1>9. Taken(points[3], high(3)) = <<>>
  <2>1. high(3) \cap (1 .. Len(points[3])) = {}
    BY <1>6
  <2> QED BY <1>6, <2>1, TakenSmall
<1>10. read(1) = <<>> /\ read(2) = <<one, two>> /\ read(3) = <<>>
  BY <1>1, <1>7, <1>8, <1>9, HeadsFound
<1>11. <<>> \o <<one, two>> \o <<>> = <<one, two>>
  OBVIOUS
<1> QED
  BY <1>10, <1>11 DEF points, high, one, two

\* scrfd_postprocess on a face that the middle scale sees twice.
LEMMA BetterFaceFound ==
    ASSUME NEW layout \in Layouts, NamedLayout(layout) \/ GroupedLayout(layout),
           NEW face \in FaceAt, NEW size \in Sizes, face.x2 < size.w, face.y2 < size.h
    PROVE  LET box == LetterboxResize(size, ModelWidth)
           IN ScrfdPostprocess(layout, PointsOf(face, box), box) = <<FaceAs(face, box, ConfThreshold + 2)>>
<1> DEFINE box == LetterboxResize(size, ModelWidth)
           points == PointsOf(face, box)
           read(s) == IF Readable(layout, Resolve(layout, s))
                      THEN Taken(points[s], {i \in DOMAIN points[s] : points[s][i].score >= ConfThreshold})
                      ELSE <<>>
           candidates == read(1) \o read(2) \o read(3)
           faces == [i \in DOMAIN candidates |-> FaceInFrame(candidates[i], box)]
           taken == NMSBoxes(faces)
           a == FaceAs(face, box, ConfThreshold + 1)
           b == FaceAs(face, box, ConfThreshold + 2)
<1>1. candidates = <<PointAt(face, box, ConfThreshold + 1), PointAt(face, box, ConfThreshold + 2)>>
  BY MiddleScaleSees
<1>2. \A s \in 1 .. 3 : Resolve(layout, s).ok
  BY HeadsFound
<1>3. ScrfdPostprocess(layout, points, box) = [i \in DOMAIN taken |-> faces[taken[i]]]
  BY <1>2 DEF ScrfdPostprocess
<1>4. ConfThreshold \in Int
  BY FacesAssumption
<1>5. /\ {a.x1, a.y1, a.x2, a.y2} \subseteq Nat /\ a.x1 < a.x2 /\ a.y1 < a.y2
      /\ a.score = ConfThreshold + 1 /\ b.score = ConfThreshold + 2
  BY <1>4, FaceBroughtBack
<1>6. b.x1 = a.x1 /\ b.y1 = a.y1 /\ b.x2 = a.x2 /\ b.y2 = a.y2
  BY DEF FaceAs, FaceInFrame, PointAt
<1> HIDE DEF read, box, points
<1>7. faces = <<a, b>>
  <2> HIDE DEF candidates
  <2> QED BY <1>1 DEF FaceAs
<1> HIDE DEF faces, a, b, candidates
<1>8. faces = <<faces[1], faces[2]>> /\ faces[1] = a /\ faces[2] = b
  BY <1>7
<1>9. FacesOverlap(a, b)
  BY <1>5, <1>6, OverlapsItself
<1>10. taken = <<2>>
  <2>1. faces[1].score \in Int /\ faces[2].score \in Int /\ ConfThreshold < faces[1].score
        /\ faces[1].score < faces[2].score /\ FacesOverlap(faces[1], faces[2])
    BY <1>4, <1>5, <1>8, <1>9
  <2> QED BY <1>8, <2>1, BetterFaceTaken
<1> HIDE DEF taken
<1>11. [i \in DOMAIN taken |-> faces[taken[i]]] = <<b>>
  BY <1>8, <1>10
<1> QED
  BY <1>3, <1>11 DEF b, box, points

\* Two lists, one behind the other.
LEMMA Joined ==
    ASSUME NEW T, NEW s \in Seq(T), NEW t \in Seq(T)
    PROVE  /\ Len(s \o t) = Len(s) + Len(t)
           /\ \A i \in Len(s) + 1 .. Len(s) + Len(t) : (s \o t)[i] = t[i - Len(s)]
BY ConcatProperties

\* The line of one face is drawn.
LEMMA FaceLineDrawn ==
    ASSUME NEW frame, NEW face
    PROVE  FaceDetected(<<face>>) /\ Len(Apply(frame, FaceLines(<<face>>), FALSE)) = 1
<1> DEFINE lines == FaceLines(<<face>>)
           values == Numbers(<<face.x1, face.y1, face.x2, face.y2, face.score, face.kps.x, face.kps.y>>)
           line == <<Word("face")>> \o values
           drawable == {i \in DOMAIN lines : Readable6(lines[i]) /\ ~(FALSE /\ lines[i][1] = Word("person"))}
           drawn == Taken(lines, drawable)
           shapes == Apply(frame, lines, FALSE)
           shape(i) == Shape(frame, drawn[i])
<1>1. lines = <<line>>
  <2>1. lines = [i \in {1} |-> line]
    <3>1. lines = [i \in {1} |-> <<Word("face")>> \o
                      Numbers(<<<<face>>[i].x1, <<face>>[i].y1, <<face>>[i].x2, <<face>>[i].y2,
                                <<face>>[i].score, <<face>>[i].kps.x, <<face>>[i].kps.y>>)]
      BY DEF FaceLines
    <3> QED BY <3>1
  <2>2. \A v : [i \in {1} |-> v] = <<v>>
    OBVIOUS
  <2> HIDE DEF lines, line
  <2> QED BY <2>1, <2>2
<1>2. Readable6(line)
  <2>1. Len(values) = 7 /\ values \in Seq(Range(values)) /\ \A i \in 1 .. 7 : IsNumeric(values[i])
    BY DEF Numbers, Number, IsNumeric, Range
  <2> HIDE DEF values
  <2>2. Len(<<Word("face")>>) = 1
    OBVIOUS
  <2> DEFINE head == <<Word("face")>>
             T == {Word("face")} \cup Range(values)
  <2>3. head \in Seq(T) /\ values \in Seq(T) /\ Len(head) = 1
    BY <2>1
  <2> HIDE DEF head, T
  <2>4. Len(head \o values) = 8 /\ \A i \in 2 .. 8 : (head \o values)[i] = values[i - 1]
    <3>1. Len(head \o values) = Len(head) + Len(values)
      BY <2>3, Joined
    <3>2. \A i \in Len(head) + 1 .. Len(head) + Len(values) : (head \o values)[i] = values[i - Len(head)]
      BY <2>3, Joined
    <3>3. Len(head) = 1 /\ Len(values) = 7
      BY <2>1, <2>3
    <3> DEFINE all == head \o values
    <3>4. Len(all) = 8 /\ \A i \in 2 .. 8 : all[i] = values[i - 1]
      <4>1. Len(head) + 1 = 2 /\ Len(head) + Len(values) = 8
        BY <3>3
      <4>2. \A i \in 2 .. 8 : all[i] = values[i - Len(head)]
        BY <3>2, <4>1
      <4>3. Len(all) = 8
        BY <3>1, <4>1
      <4> HIDE DEF all
      <4> QED BY <3>3, <4>2, <4>3
    <3> QED BY <3>4
  <2>5. Len(line) = 8 /\ \A i \in 2 .. 6 : line[i] = values[i - 1] /\ i - 1 \in 1 .. 7
    BY <2>4 DEF head
  <2> HIDE DEF line
  <2> QED BY <2>1, <2>5 DEF Readable6
<1> HIDE DEF line, lines, values
<1>3. lines \in Seq({line}) /\ Len(lines) = 1 /\ DOMAIN lines = {1} /\ lines[1] = line
  BY <1>1
<1>4. drawable = {1}
  BY <1>2, <1>3
<1> HIDE DEF drawable
<1>5. drawn = lines
  <2>1. Len(lines) \in 1 .. 2 /\ 1 .. Len(lines) \subseteq drawable
    BY <1>3, <1>4
  <2> QED BY <1>3, <2>1, TakenSmall
<1> HIDE DEF drawn
<1>6. shapes = [i \in DOMAIN drawn |-> shape(i)]
  BY DEF Apply, drawn, drawable
<1> HIDE DEF shapes, shape
<1>7. Len(shapes) = 1
  <2>1. DOMAIN drawn = {1}
    BY <1>3, <1>5
  <2>2. shapes = <<shape(1)>>
    BY <1>6, <2>1
  <2> QED BY <2>2
<1>8. FaceDetected(<<face>>)
  BY DEF FaceDetected
<1> QED
  BY <1>7, <1>8 DEF shapes, lines

\* What DetectFaces has answered is what it made of the face it was given.
FaceInv ==
    /\ "face" \in DOMAIN input =>
          \E layout \in Layouts, face \in FaceAt, size \in Sizes :
             /\ face.x2 < size.w /\ face.y2 < size.h
             /\ input = [layout |-> layout, face |-> face, size |-> size]
    /\ Answered("faces") =>
          LET box == LetterboxResize(input.size, ModelWidth)
          IN /\ "face" \in DOMAIN input
             /\ HeadsHold(input.layout) =>
                   output.faces = ScrfdPostprocess(input.layout, PointsOf(input.face, box), box)
             /\ output.face = FaceDetected(output.faces)
             /\ output.shapes = Apply(input.size, FaceLines(output.faces), FALSE)

\* A call begins unanswered.
LEMMA InitFace == Init => FaceInv
<1> SUFFICES ASSUME Init PROVE FaceInv
  OBVIOUS
<1>1. ~Answered("faces")
  BY DEF Init, Answered
<1>2. "face" \in DOMAIN input =>
          \E layout \in Layouts, face \in FaceAt, size \in Sizes :
             /\ face.x2 < size.w /\ face.y2 < size.h
             /\ input = [layout |-> layout, face |-> face, size |-> size]
  BY DEF Init
<1> QED
  BY <1>1, <1>2 DEF FaceInv

\* No other call answers with faces.
LEMMA FaceNext == FaceInv /\ [Next]_vars => FaceInv'
<1> SUFFICES ASSUME FaceInv, [Next]_vars PROVE FaceInv'
  OBVIOUS
<1>1. CASE DetectObjects
  BY <1>1 DEF DetectObjects, FaceInv, Answered
<1>2. CASE FitFrame
  BY <1>2 DEF FitFrame, FaceInv, Answered
<1>3. CASE DetectFaces
  <2> DEFINE box == LetterboxResize(input.size, ModelWidth)
  <2>1. PICK points \in PointsRead(input.layout, input.face, box) :
            output' = [faces |-> ScrfdPostprocess(input.layout, points, box),
                       face |-> FaceDetected(ScrfdPostprocess(input.layout, points, box)),
                       shapes |-> Apply(input.size, FaceLines(ScrfdPostprocess(input.layout, points, box)), FALSE)]
    BY <1>3 DEF DetectFaces
  <2>2. input' = input /\ "face" \in DOMAIN input
    BY <1>3 DEF DetectFaces, Called
  <2>3. HeadsHold(input.layout) => points = PointsOf(input.face, box)
    BY <2>1 DEF PointsRead
  <2> DEFINE faces == ScrfdPostprocess(input.layout, points, box)
  <2>4. output'.faces = faces /\ output'.face = FaceDetected(faces)
        /\ output'.shapes = Apply(input.size, FaceLines(faces), FALSE)
    BY <2>1
  <2>5. HeadsHold(input.layout) => faces = ScrfdPostprocess(input.layout, PointsOf(input.face, box), box)
    BY <2>3
  <2> HIDE DEF faces
  <2>6. /\ HeadsHold(input.layout) =>
              output'.faces = ScrfdPostprocess(input.layout, PointsOf(input.face, box), box)
        /\ output'.face = FaceDetected(output'.faces)
        /\ output'.shapes = Apply(input.size, FaceLines(output'.faces), FALSE)
    BY <2>4, <2>5
  <2> QED
    BY <2>2, <2>6 DEF FaceInv
<1>4. CASE AlignSounds
  BY <1>4 DEF AlignSounds, MiddleProcess, FaceInv, Answered
<1>5. CASE SpeakText
  BY <1>5 DEF SpeakText, FaceInv, Answered
<1>6. CASE ReadConfig
  BY <1>6 DEF ReadConfig, FaceInv, Answered
<1>7. CASE UNCHANGED vars
  BY <1>7 DEF vars, FaceInv, Answered
<1> QED
  BY <1>1, <1>2, <1>3, <1>4, <1>5, <1>6, <1>7 DEF Next

\* For every size of the frame and of the model, every threshold and every model that names its nine
\* outputs, in any order and among any others, or groups them by what they hold, a face that one
\* scale sees twice is reported once, with the better score, and drawn where it is, less at most a
\* pixel of the model (scrfd_postprocess, LetterboxResize).
THEOREM FaceAlwaysFoundWhereItIs == Spec => []FaceFoundWhereItIs
<1>1. FaceInv => FaceFoundWhereItIs
  <2> SUFFICES ASSUME FaceInv, Answered("faces"), NamedLayout(input.layout) \/ GroupedLayout(input.layout)
               PROVE  FaceFoundWhereItIs
    BY Zenon DEF FaceFoundWhereItIs
  <2>1. PICK layout \in Layouts, face \in FaceAt, size \in Sizes :
             /\ face.x2 < size.w /\ face.y2 < size.h
             /\ input = [layout |-> layout, face |-> face, size |-> size]
    BY DEF FaceInv
  <2>2. input.layout = layout /\ input.face = face /\ input.size = size
    BY <2>1
  <2> DEFINE box == LetterboxResize(size, ModelWidth)
             found == FaceAs(face, box, ConfThreshold + 2)
  <2>6. (NamedLayout(layout) \/ GroupedLayout(layout)) /\ HeadsHold(layout)
    BY <2>2, HeadsFound
  <2>3. /\ output.faces = ScrfdPostprocess(layout, PointsOf(face, box), box)
        /\ output.face = FaceDetected(output.faces)
        /\ output.shapes = Apply(size, FaceLines(output.faces), FALSE)
    BY <2>2, <2>6 DEF FaceInv
  <2>4. output.faces = <<found>>
    BY <2>1, <2>3, <2>6, BetterFaceFound
  <2>5. found.score = ConfThreshold + 2 /\ DrawnAt(found, face, box)
    BY <2>1, FaceBroughtBack, FacesAssumption
  <2> HIDE DEF found
  <2>7. output.face /\ Len(output.shapes) = 1
    BY <2>3, <2>4, FaceLineDrawn
  <2>8. Len(output.faces) = 1 /\ output.faces[1] = found
    BY <2>4
  <2> QED
    BY <2>2, <2>5, <2>6, <2>7, <2>8 DEF FaceFoundWhereItIs
<1> QED
  BY <1>1, InitFace, FaceNext, PTL DEF Spec

-----------------------------------------------------------------------------
(* What is said: a text cut into sentences, put together and read aloud *)

\* Neither the blank nor the cut is spoken.
LEMMA NotSpoken == \A latin : Space \notin Spoken(latin) /\ "cut" \notin Spoken(latin)
BY Zenon DEF Spoken

\* In a latin text neither is the stop, and no bracket, nor a letter written with a byte of one.
LEMMA NotSpokenLatin ==
    ASSUME NEW latin, latin
    PROVE  /\ "." \notin Spoken(latin) /\ Spoken(latin) \subseteq Chars \ Bracket
           /\ Spoken(latin) \cap (Fragile \cup Broken) = {}
BY Zenon DEF Spoken

\* It is fair.
LEMMA SpokenFair == \A latin : Fair(Spoken(latin))
<1> SUFFICES ASSUME NEW latin, NEW c \in Chars
             PROVE  c \in Spoken(latin) <=> NarrowOne(c) \in Spoken(latin)
  BY DEF Fair
<1>1. NarrowOne("zstop") = "." /\ NarrowOne("zcomma") = Comma
  BY DEF NarrowOne
<1>2. c # "zstop" /\ c # "zcomma" => NarrowOne(c) = c
  BY DEF NarrowOne
<1>3. /\ "." # Space /\ "zstop" # Space /\ "zcomma" # Space /\ Comma # Space
      /\ Comma # "cut" /\ Comma # "<" /\ Comma # "." /\ Comma # "zstop"
  BY SMT DEF Comma, Space
<1>4. {".", Comma, "zstop", "zcomma"} \subseteq Chars
  BY Zenon DEF Chars, Punctuation
<1>5. "zstop" \in Spoken(latin) <=> "." \in Spoken(latin)
  BY <1>3, <1>4, SMT DEF Spoken, Bracket
<1>6. "zcomma" \in Spoken(latin) /\ Comma \in Spoken(latin)
  <2> DEFINE mute == {Space, "cut"} \cup (IF latin THEN Bracket \cup {".", "zstop"} \cup Fragile \cup Broken ELSE {})
  <2>1. "zcomma" \notin mute /\ Comma \notin mute
    <3>1. mute \subseteq {" ", "cut", "<", ".", "zstop", "u^", "zz", "u-", "zz-"}
      BY DEF Space, Bracket, Fragile, Broken
    <3>2. /\ "zcomma" # " " /\ "zcomma" # "cut" /\ "zcomma" # "<" /\ "zcomma" # "." /\ "zcomma" # "zstop"
          /\ "zcomma" # "u^" /\ "zcomma" # "zz" /\ "zcomma" # "u-" /\ "zcomma" # "zz-"
      BY SMT
    <3>3. /\ "," # " " /\ "," # "cut" /\ "," # "<" /\ "," # "." /\ "," # "zstop"
          /\ "," # "u^" /\ "," # "zz" /\ "," # "u-" /\ "," # "zz-"
      BY SMT
    <3> QED BY <3>1, <3>2, <3>3, Zenon DEF Comma
  <2>2. Spoken(latin) = Chars \ mute
    BY Zenon DEF Spoken
  <2> HIDE DEF mute
  <2> QED BY <1>4, <2>1, <2>2
<1> QED
  BY <1>1, <1>2, <1>5, <1>6, Zenon

\* The sentences of a latin text.
LEMMA SplitLatinCarries ==
    ASSUME NEW text \in Seq(Chars), NEW latin, latin
    PROVE  /\ SplitLatin(text) \in Seq(Utterance)
           /\ Carried(SplitLatin(text), Spoken(latin)) = Said(text, Spoken(latin))
<1> DEFINE kind == Spoken(latin)
<1>1. /\ Space \notin kind /\ "." \notin kind /\ kind \subseteq Chars \ Bracket /\ Fair(kind)
      /\ kind \cap (Fragile \cup Broken) = {}
  BY NotSpoken, NotSpokenLatin, SpokenFair
<1> HIDE DEF kind
<1>2. PICK u \in Seq(Chars) : u = Narrow(text)
  BY NarrowType
<1>3. PICK w \in Seq(Chars) : w = Only(u, Chars \ Bracket)
  BY OnlyFolds
<1>10. PICK v \in Seq(Chars) : v = [i \in DOMAIN w |-> EraseIn(w[i])] /\ Only(v, kind) = Only(w, kind)
  BY <1>1, EraseKeeps
<1>11. v = Erased(u)
  BY <1>3, <1>10 DEF Erased
<1>4. Said(v, kind) = Said(text, kind)
  <2>1. Only(v, kind) = Only(u, kind)
    BY <1>1, <1>3, <1>10, OnlyOfOnly
  <2>2. Said(u, kind) = Said(text, kind)
    BY <1>1, <1>2, SaidOfNarrow
  <2> QED BY <2>1, <2>2 DEF Said
<1>5. PICK q \in Seq(Utterance) : q = Pieces(v, ".")
  BY PiecesFilled
<1>6. Carried(q, kind) = Said(text, kind)
  BY <1>1, <1>4, <1>5, PiecesCarry
<1>7. PICK l : l = TRUE
  OBVIOUS
<1>8. SplitLatin(text) = MergeShort(q, l)
  BY <1>2, <1>5, <1>7, <1>11 DEF SplitLatin
<1>9. MergeShort(q, l) \in Seq(Utterance) /\ Carried(MergeShort(q, l), kind) = Carried(q, kind)
  BY <1>1, MergeShortType, MergeShortCarries
<1> QED
  BY <1>6, <1>8, <1>9 DEF kind

\* The sentences of another text.
LEMMA SplitZhCarries ==
    ASSUME NEW text \in Seq(Chars), NEW latin
    PROVE  /\ SplitZh(text) \in Seq(Utterance)
           /\ Carried(SplitZh(text), Spoken(latin)) = Said(text, Spoken(latin))
           /\ SplitZh(text) \in Seq(Lasting) \/ Len(SplitZh(text)) <= 1
<1> DEFINE kind == Spoken(latin)
<1>1. Space \notin kind /\ "cut" \notin kind /\ Fair(kind)
  BY NotSpoken, SpokenFair
<1> HIDE DEF kind
<1>2. PICK u \in Seq(Chars) : u = Narrow(text) /\ Said(u, kind) = Said(text, kind)
  BY <1>1, NarrowType, SaidOfNarrow
<1>3. PICK v \in Seq(Chars) : v = Squeeze(u) /\ Said(v, kind) = Said(u, kind)
  BY <1>1, SqueezeSays
<1>4. PICK stop \in Chars, comma \in Chars, bang \in Chars : stop = "." /\ comma = Comma /\ bang = "!"
  BY MarkTypes
<1>5. PICK w \in Seq(Chars) : w = MarkAfter(v, stop) /\ Said(w, kind) = Said(v, kind)
  BY <1>1, MarkAfterSays
<1>6. PICK x \in Seq(Chars) : x = MarkAfter(w, comma) /\ Said(x, kind) = Said(w, kind)
  BY <1>1, MarkAfterSays
<1>7. PICK y \in Seq(Chars) : y = MarkAfter(x, bang) /\ Said(y, kind) = Said(x, kind)
  BY <1>1, MarkAfterSays
<1>8. PICK p \in Seq(Utterance) : p = Pieces(y, "cut")
  BY PiecesFilled
<1>9. Carried(p, kind) = Said(y, kind)
  BY <1>1, <1>8, PiecesCarry
<1>10. PICK q \in Seq(Utterance) : q = Gathered(p) /\ Carried(q, kind) = Carried(p, kind)
  BY <1>1, GatheredType, GatheredCarries
<1>11. PICK l : l = FALSE
  OBVIOUS
<1>12. SplitZh(text) = MergeShort(q, l)
  BY <1>2, <1>3, <1>4, <1>5, <1>6, <1>7, <1>8, <1>10, <1>11 DEF SplitZh
<1>13. MergeShort(q, l) \in Seq(Utterance) /\ Carried(MergeShort(q, l), kind) = Carried(q, kind)
  BY <1>1, MergeShortType, MergeShortCarries
<1>14. MergeShort(q, l) \in Seq(Lasting) \/ Len(MergeShort(q, l)) <= 1
  <2>1. ~l
    BY <1>11
  <2> QED BY <2>1, MergeShortLong
<1> QED
  BY <1>2, <1>3, <1>5, <1>6, <1>7, <1>9, <1>10, <1>12, <1>13, <1>14 DEF kind

\* Whatever the text, its sentences carry it.
LEMMA SentencesCarry ==
    ASSUME NEW text \in Seq(Chars), NEW latin \in BOOLEAN
    PROVE  SentencesOf(text, latin) \in Seq(Seq(Chars)) /\ Carries(SentencesOf(text, latin), text, latin)
<1>1. PICK q : q = SentencesOf(text, latin)
  OBVIOUS
<1>2. Carries(q, text, latin) <=>
        /\ Carried(q, Spoken(latin)) = Said(text, Spoken(latin))
        /\ ~latin => \A i \in DOMAIN q : Len(q[i]) <= 2 => Len(q) = 1
        /\ Len(q) > 1 => \A i \in DOMAIN q : q[i] # <<>>
  BY DEF Carries, Carried, Said, Solid
<1>3. CASE q = <<text>>
  <2>1. Len(q) = 1 /\ q \in Seq(Seq(Chars))
    BY <1>3
  <2>2. Carried(q, Spoken(latin)) = Said(text, Spoken(latin))
    BY <1>3, CarriedOne
  <2> QED BY <1>1, <1>2, <2>1, <2>2
<1>4. CASE q = SplitSentence(text, latin)
  <2>1. ASSUME q \in Seq(Utterance)
        PROVE  q \in Seq(Seq(Chars)) /\ \A i \in DOMAIN q : q[i] # <<>>
    <3>1. \A i \in DOMAIN q : q[i] \in Utterance
      BY <2>1, LenProperties, ElementOfSeq
    <3> QED BY <2>1, <3>1, FilledTexts DEF Utterance
  <2>2. CASE latin
    <3>1. q = SplitLatin(text)
      BY <1>4, <2>2 DEF SplitSentence
    <3>2. q \in Seq(Utterance) /\ Carried(q, Spoken(latin)) = Said(text, Spoken(latin))
      BY <2>2, <3>1, SplitLatinCarries
    <3> QED BY <1>1, <1>2, <2>1, <2>2, <3>2
  <2>3. CASE ~latin
    <3>1. q = SplitZh(text)
      BY <1>4, <2>3 DEF SplitSentence
    <3>2. /\ q \in Seq(Utterance) /\ Carried(q, Spoken(latin)) = Said(text, Spoken(latin))
          /\ q \in Seq(Lasting) \/ Len(q) <= 1
      BY <3>1, SplitZhCarries
    <3>3. \A i \in DOMAIN q : Len(q[i]) <= 2 => Len(q) = 1
      <4>1. DOMAIN q = 1 .. Len(q) /\ Len(q) \in Nat
        BY <3>2, LenProperties
      <4>2. CASE q \in Seq(Lasting)
        <5>1. \A i \in DOMAIN q : q[i] \in Lasting
          BY <4>1, <4>2, ElementOfSeq
        <5>2. \A x \in Lasting : ~(Len(x) <= 2)
          <6>1. ASSUME NEW x \in Lasting PROVE ~(Len(x) <= 2)
            <7>1. Len(x) \in Nat /\ Len(x) > 2
              BY LenProperties DEF Lasting, Utterance
            <7> QED BY <7>1
          <6> QED BY <6>1
        <5> QED BY <5>1, <5>2, Zenon
      <4>3. CASE Len(q) <= 1
        BY <4>1, <4>3
      <4> QED BY <3>2, <4>2, <4>3
    <3> QED BY <1>1, <1>2, <2>1, <3>2, <3>3
  <2> QED BY <2>2, <2>3
<1> QED
  BY <1>1, <1>3, <1>4 DEF SentencesOf

\* The words that start in a text that is one longer.
LEMMA WordStartsAppend ==
    ASSUME NEW s \in Seq(Chars), NEW c \in Chars
    PROVE  /\ Starts(s, c) => WordStarts(Append(s, c)) = WordStarts(s) \cup {Len(s) + 1}
           /\ ~Starts(s, c) => WordStarts(Append(s, c)) = WordStarts(s)
<1>1. PICK t \in Seq(Chars) : t = Append(s, c)
  BY AppendType
<1>2. PICK L \in Nat : L = Len(s)
  BY LenProperties
<1>3. Len(t) = L + 1 /\ t[L + 1] = c /\ \A i \in 1 .. L : t[i] = s[i]
  BY <1>1, <1>2, AppendProperties
<1>4. DOMAIN s = 1 .. L /\ DOMAIN t = 1 .. L + 1
  BY <1>2, <1>3, LenProperties
<1>5. EndsLatin(s) <=> L > 0 /\ s[L] \in LatinLetters
  <2>1. s # <<>> <=> L > 0
    BY <1>2, EmptySeq
  <2> QED BY <1>2, <2>1 DEF EndsLatin, Last
<1>6. \A i \in 1 .. L : i \in WordStarts(t) <=> i \in WordStarts(s)
  <2>1. ASSUME NEW i \in 1 .. L PROVE i \in WordStarts(t) <=> i \in WordStarts(s)
    <3>1. i \in 1 .. L + 1 /\ t[i] = s[i] /\ (i > 1 => t[i - 1] = s[i - 1])
      BY <1>3
    <3> QED BY <1>4, <3>1 DEF WordStarts
  <2> QED BY <2>1
<1>7. L + 1 \in WordStarts(t) <=> Starts(s, c)
  <2>1. PICK k : k = L + 1
    OBVIOUS
  <2>2. k \in 1 .. L + 1 /\ (k > 1 <=> L > 0) /\ k - 1 = L
    BY <2>1
  <2>3. k \in WordStarts(t) <=> /\ c \in LatinLetters \cup WideLetters
                                /\ k > 1 => ~({t[k - 1], t[k]} \subseteq LatinLetters)
    BY <1>3, <1>4, <2>1, <2>2 DEF WordStarts
  <2>4. k > 1 => t[k - 1] = s[L]
    BY <1>3, <2>2
  <2> QED BY <1>3, <1>5, <2>1, <2>2, <2>3, <2>4 DEF Starts
<1>8. WordStarts(s) \subseteq 1 .. L /\ WordStarts(t) \subseteq 1 .. L + 1
  BY <1>4 DEF WordStarts
<1>9. \A i \in 1 .. L + 1 : i \in 1 .. L \/ i = L + 1
  OBVIOUS
<1>10. L + 1 \notin 1 .. L
  OBVIOUS
<1>11. ASSUME Starts(s, c) PROVE WordStarts(t) = WordStarts(s) \cup {L + 1}
  BY <1>6, <1>7, <1>8, <1>9, <1>11
<1>12. ASSUME ~Starts(s, c) PROVE WordStarts(t) = WordStarts(s)
  BY <1>6, <1>7, <1>8, <1>9, <1>10, <1>12
<1> QED
  BY <1>1, <1>2, <1>11, <1>12

\* There are as many words that are heard as start in the text.
Counted(s, words) ==
    /\ IsFiniteSet(WordStarts(s)) /\ WordStarts(s) \subseteq 1 .. Len(s)
    /\ Len(Only(words, SoundingWord)) = Cardinality(WordStarts(s))
    /\ EndsLatin(s) <=> words # <<>> /\ Last(words) \in LatinWord

\* Counting a word more.
LEMMA OneCounted ==
    ASSUME NEW s \in Seq(Chars), NEW words \in Seq(EnglishWord), Counted(s, words), NEW c \in Chars
    PROVE  Counted(Append(s, c), AddTo(words, c))
<1>1. PICK t \in Seq(Chars) : t = Append(s, c)
  BY AppendType
<1>2. Len(t) = Len(s) + 1 /\ Len(s) \in Nat
  BY <1>1, AppendProperties, LenProperties
<1>3. EndsLatin(t) <=> c \in LatinLetters
  <2>1. t # <<>> /\ Last(t) = c
    BY <1>1, <1>2, FrontLastAppend
  <2> QED BY <2>1 DEF EndsLatin
<1>4. /\ IsFiniteSet(WordStarts(s)) /\ WordStarts(s) \subseteq 1 .. Len(s)
      /\ Len(Only(words, SoundingWord)) = Cardinality(WordStarts(s))
      /\ EndsLatin(s) <=> words # <<>> /\ Last(words) \in LatinWord
  BY DEF Counted
<1>5. Grows(words, c) <=> EndsLatin(s) /\ c \in LatinLetters
  BY <1>4 DEF Grows
<1>6. IsFiniteSet(WordStarts(t)) /\ WordStarts(t) \subseteq 1 .. Len(t)
  <2>1. WordStarts(t) = WordStarts(s) \/ WordStarts(t) = WordStarts(s) \cup {Len(s) + 1}
    BY <1>1, WordStartsAppend
  <2>2. IsFiniteSet(WordStarts(s) \cup {Len(s) + 1})
    BY <1>4, FS_AddElement
  <2>3. WordStarts(s) \cup {Len(s) + 1} \subseteq 1 .. Len(t)
    BY <1>2, <1>4
  <2> QED BY <1>4, <2>1, <2>2, <2>3
<1>7. Starts(s, c) => Cardinality(WordStarts(t)) = Cardinality(WordStarts(s)) + 1
  <2>1. Len(s) + 1 \notin WordStarts(s)
    BY <1>2, <1>4
  <2> QED BY <1>1, <1>4, <2>1, WordStartsAppend, FS_AddElement
<1>8. ~Starts(s, c) => Cardinality(WordStarts(t)) = Cardinality(WordStarts(s))
  BY <1>1, WordStartsAppend
<1>9. PICK kept \in Seq(EnglishWord) : kept = Only(words, SoundingWord)
  BY OnlyFolds
<1>10. \A w \in LatinWord : w \in EnglishWord /\ w \in SoundingWord
  BY DEF EnglishWord, SoundingWord
<1>11. CASE Grows(words, c)
  <2>1. PICK w \in LatinWord : AddTo(words, c) = Append(Front(words), w)
    BY <1>11, AddToParts
  <2>2. PICK front \in Seq(EnglishWord), last \in EnglishWord :
          front = Front(words) /\ last = Last(words) /\ words = Append(front, last)
    BY <1>11, FrontLast DEF Grows
  <2>3. PICK before \in Seq(EnglishWord) : before = Only(front, SoundingWord)
    BY OnlyFolds
  <2>4. last \in SoundingWord
    BY <1>10, <1>11, <2>2 DEF Grows
  <2>5. Only(Append(front, last), SoundingWord) = Append(before, last)
    <3>1. Only(Append(front, last), SoundingWord)
            = IF last \in SoundingWord THEN Append(Only(front, SoundingWord), last) ELSE Only(front, SoundingWord)
      BY OnlyAppend
    <3> QED BY <2>3, <2>4, <3>1, Zenon
  <2>6. Only(Append(front, w), SoundingWord) = Append(before, w)
    <3>1. PICK v \in EnglishWord : v = w /\ v \in SoundingWord
      BY <1>10
    <3>2. Only(Append(front, v), SoundingWord)
            = IF v \in SoundingWord THEN Append(Only(front, SoundingWord), v) ELSE Only(front, SoundingWord)
      BY OnlyAppend
    <3> QED BY <2>3, <3>1, <3>2
  <2>7. Len(Append(before, last)) = Len(Append(before, w))
    <3>1. Len(Append(before, last)) = Len(before) + 1
      BY AppendProperties
    <3>2. Len(Append(before, w)) = Len(before) + 1
      BY <1>10, AppendProperties
    <3> QED BY <3>1, <3>2
  <2>8. AddTo(words, c) = Append(front, w) /\ w \in EnglishWord
    BY <1>10, <2>1, <2>2
  <2>9. Append(front, w) # <<>> /\ Last(Append(front, w)) = w
    BY <2>8, AppendProperties, FrontLastAppend
  <2>10. ~Starts(s, c)
    BY <1>5, <1>11 DEF Starts
  <2>11. Len(Only(AddTo(words, c), SoundingWord)) = Cardinality(WordStarts(t))
    BY <1>4, <1>8, <2>2, <2>5, <2>6, <2>7, <2>8, <2>10
  <2>12. EndsLatin(t) <=> AddTo(words, c) # <<>> /\ Last(AddTo(words, c)) \in LatinWord
    BY <1>3, <1>5, <1>11, <2>8, <2>9
  <2> QED BY <1>1, <1>6, <2>11, <2>12 DEF Counted
<1>12. CASE ~Grows(words, c) /\ c \in LatinLetters
  <2>1. PICK w \in LatinWord : AddTo(words, c) = Append(words, w)
    BY <1>12, AddToParts
  <2>2. Only(Append(words, w), SoundingWord) = Append(kept, w)
    BY <1>9, <1>10, OnlyAppend
  <2>3. Len(Append(kept, w)) = Len(kept) + 1
    BY <1>10, AppendProperties
  <2>4. Append(words, w) # <<>> /\ Last(Append(words, w)) = w
    BY <1>10, AppendProperties, FrontLastAppend
  <2>5. Starts(s, c)
    BY <1>5, <1>12 DEF Starts
  <2>6. Len(Only(AddTo(words, c), SoundingWord)) = Cardinality(WordStarts(t))
    BY <1>4, <1>7, <1>9, <2>1, <2>2, <2>3, <2>5
  <2>7. EndsLatin(t) <=> AddTo(words, c) # <<>> /\ Last(AddTo(words, c)) \in LatinWord
    BY <1>3, <1>12, <2>1, <2>4
  <2> QED BY <1>1, <1>6, <2>6, <2>7 DEF Counted
<1>13. CASE c \notin LatinLetters
  <2>1. PICK w \in LoneWord : w = <<c>> /\ AddTo(words, c) = Append(words, w)
    BY <1>13, AddToParts DEF LoneWord
  <2>2. w \in EnglishWord /\ w \notin LatinWord
    BY WideWords DEF EnglishWord
  <2>3. w \in SoundingWord <=> c \in WideLetters
    <3>1. w \in WideWord <=> c \in WideLetters
      <4>1. \A d : <<c>> = <<d>> => c = d
        OBVIOUS
      <4> QED BY <2>1, <4>1 DEF WideWord
    <3> QED BY <2>2, <3>1 DEF SoundingWord
  <2>4. Only(Append(words, w), SoundingWord) = IF w \in SoundingWord THEN Append(kept, w) ELSE kept
    BY <1>9, <2>2, OnlyAppend
  <2>5. Len(Append(kept, w)) = Len(kept) + 1
    BY <2>2, AppendProperties
  <2>6. Append(words, w) # <<>> /\ Last(Append(words, w)) = w
    BY <2>2, AppendProperties, FrontLastAppend
  <2>7. Starts(s, c) <=> c \in WideLetters
    BY <1>13 DEF Starts
  <2>8. Len(Only(AddTo(words, c), SoundingWord)) = Cardinality(WordStarts(t))
    BY <1>4, <1>7, <1>8, <1>9, <2>1, <2>3, <2>4, <2>5, <2>7
  <2>9. EndsLatin(t) <=> AddTo(words, c) # <<>> /\ Last(AddTo(words, c)) \in LatinWord
    BY <1>3, <1>13, <2>1, <2>2, <2>6
  <2> QED BY <1>1, <1>6, <2>8, <2>9 DEF Counted
<1> QED BY <1>11, <1>12, <1>13

\* Every text is counted right.
LEMMA WordsCounted ==
    ASSUME NEW s \in Seq(Chars)
    PROVE  Counted(s, MergeEnglish(s))
<1> DEFINE T == {r \in Seq(Chars) : Counted(r, MergeEnglish(r))}
<1>1. <<>> \in T
  <2>1. <<>> \in Seq(Chars) /\ Len(<<>>) = 0
    OBVIOUS
  <2>2. WordStarts(<<>>) = {}
    BY DEF WordStarts
  <2>3. IsFiniteSet({}) /\ Cardinality({}) = 0
    BY FS_EmptySet
  <2>4. Len(Only(<<>>, SoundingWord)) = 0
    BY OnlyNone
  <2>5. Counted(<<>>, <<>>)
    BY <2>2, <2>3, <2>4 DEF Counted, EndsLatin
  <2> QED BY <2>1, <2>5, MergeEnglishNone
<1>2. ASSUME NEW r \in Seq(Chars), NEW c \in Chars, r \in T PROVE Append(r, c) \in T
  <2>1. PICK words \in Seq(EnglishWord) : words = MergeEnglish(r) /\ Counted(r, words)
    BY <1>2, MergeEnglishFolds
  <2>2. Counted(Append(r, c), AddTo(words, c))
    BY <2>1, OneCounted
  <2>3. MergeEnglish(Append(r, c)) = AddTo(words, c) /\ Append(r, c) \in Seq(Chars)
    BY <2>1, MergeEnglishAppend, AppendType
  <2> QED BY <2>2, <2>3
<1>3. s \in T
  <2> HIDE DEF T
  <2> QED BY <1>1, <1>2, SeqSet
<1> QED
  BY <1>3

\* A text in which no letter is broken has at least a sound for every word.
LEMMA ConvertHeard ==
    ASSUME NEW s \in Seq(Chars)
    PROVE  /\ Convert(s) \in Seq(Nat)
           /\ Broken \cap Range(s) = {} => Len(Only(Convert(s), Sound)) >= Cardinality(WordStarts(s))
<1>5. PICK r \in Seq(Chars) : r = SplitEachChar(s)
  BY EachCharType
<1>6. Broken \cap Range(s) = {} => r = s
  BY <1>5, WholeIsRead
<1>1. PICK words \in Seq(EnglishWord) : words = MergeEnglish(r)
  BY MergeEnglishFolds
<1>2. Convert(s) = FlattenSeq(Mapped(words, Read))
  <2>1. \A i \in DOMAIN words : words[i] \in EnglishWord
    BY LenProperties, ElementOfSeq
  <2>2. [i \in DOMAIN words |-> PhonesOf(words[i])] = Mapped(words, Read)
    BY <2>1 DEF Mapped, Read
  <2> QED BY <1>1, <1>5, <2>2 DEF Convert
<1>3. /\ FlattenSeq(Mapped(words, Read)) \in Seq(Nat)
      /\ Len(Only(FlattenSeq(Mapped(words, Read)), Sound)) >= Len(Only(words, SoundingWord))
  BY ReadHeard, MappedHeard
<1>4. Len(Only(words, SoundingWord)) = Cardinality(WordStarts(r))
  BY <1>1, WordsCounted DEF Counted
<1> QED
  BY <1>2, <1>3, <1>4, <1>6

\* What the encoder is given voices the sentence.
LEMMA EncoderVoices ==
    ASSUME NEW sentence \in Seq(Chars)
    PROVE  Voiced(sentence, EncoderInput(sentence))
<1>1. PICK padded \in Seq(Chars) : /\ padded = <<Space>> \o sentence \o <<Space>>
                                  /\ Range(padded) \subseteq {Space} \cup Range(sentence)
  <2>1. PICK one \in Seq(Chars) : one = <<Space>>
    <3>1. <<Space>> \in Seq(Chars)
      BY SpaceType
    <3> QED BY <3>1
  <2>2. one \o sentence \in Seq(Chars)
    BY ConcatProperties
  <2>3. (one \o sentence) \o one \in Seq(Chars)
    BY <2>2, ConcatProperties
  <2>4. Range((one \o sentence) \o one) \subseteq {Space} \cup Range(sentence)
    <3> DEFINE S == {Space} \cup Range(sentence)
    <3>1. sentence \in Seq(S)
      <4>1. \A i \in 1 .. Len(sentence) : sentence[i] \in S
        BY LenProperties DEF Range
      <4> QED BY <4>1, LenProperties, IsASeq
    <3>2. one \in Seq(S)
      BY <2>1
    <3> HIDE DEF S
    <3>3. (one \o sentence) \o one \in Seq(S)
      BY <3>1, <3>2, ConcatProperties
    <3>4. \A x \in Seq(S) : Range(x) \subseteq S
      <4>1. ASSUME NEW x \in Seq(S) PROVE \A i \in DOMAIN x : x[i] \in S
        BY LenProperties, ElementOfSeq
      <4> QED BY <4>1 DEF Range
    <3> QED BY <3>3, <3>4 DEF S
  <2> QED BY <2>1, <2>3, <2>4
<1>2. PICK all \in Seq(Nat) :
          /\ all = Convert(padded)
          /\ Broken \cap Range(sentence) = {} => Len(Only(all, Sound)) >= Cardinality(WordStarts(padded))
  <2>1. Space \notin Broken
    BY SMT DEF Space, Broken
  <2>2. Broken \cap Range(sentence) = {} => Broken \cap Range(padded) = {}
    BY <1>1, <2>1
  <2> QED BY <2>2, ConvertHeard
<1>3. PICK phones : phones = Intersperse(all)
  OBVIOUS
<1>4. PICK M \in Nat : M = 2 * Len(all) + 1
  BY LenProperties
<1>5. Len(phones) = M /\ \A k \in 1 .. M : phones[k] = IF k % 2 = 0 THEN all[k \div 2] ELSE 0
  BY <1>3, <1>4, IntersperseIs
<1>6. MaxPhones \in Nat
  BY MeloAssumption
<1>7. PICK padding : padding = PadOrTrim(phones)
  OBVIOUS
<1>8. padding = [i \in 1 .. MaxPhones |-> IF i <= M THEN phones[i] ELSE 0]
  BY <1>5, <1>7 DEF PadOrTrim
<1>9. Len(padding) = MaxPhones
  <2>1. \A i \in 1 .. MaxPhones : (IF i <= M THEN phones[i] ELSE 0) \in {padding[j] : j \in 1 .. MaxPhones}
    BY <1>8
  <2> QED BY <1>6, <1>8, <2>1, IsASeq
<1>10. PICK given : given = EncoderInput(sentence)
  OBVIOUS
<1>11. given.phones = padding /\ given.phone_len = M
  BY <1>1, <1>2, <1>3, <1>5, <1>7, <1>10 DEF EncoderInput
<1>12. ASSUME NEW k \in 1 .. Min({MaxPhones, M})
       PROVE  padding[k] = IF k % 2 = 0 THEN all[k \div 2] ELSE 0
  <2>1. Min({MaxPhones, M}) \in Int /\ Min({MaxPhones, M}) <= MaxPhones /\ Min({MaxPhones, M}) <= M
    BY <1>4, <1>6, MinOfTwo
  <2>2. k \in 1 .. MaxPhones /\ k \in 1 .. M
    BY <1>6, <2>1
  <2>3. padding[k] = phones[k]
    BY <1>8, <2>2
  <2> QED BY <1>5, <2>2, <2>3
<1>13. ASSUME M <= MaxPhones PROVE SoundsAt(given) = PlacesOf(all)
  <2>1. \A k \in 1 .. M : k % 2 = 0 => given.phones[k] = all[k \div 2]
    <3>1. ASSUME NEW k \in 1 .. M, k % 2 = 0 PROVE given.phones[k] = all[k \div 2]
      <4>1. k \in 1 .. MaxPhones /\ k <= M
        BY <1>6, <1>13
      <4>2. padding[k] = phones[k]
        BY <1>8, <4>1
      <4> QED BY <1>5, <1>11, <3>1, <4>2
    <3> QED BY <3>1
  <2> QED BY <1>4, <1>11, <2>1 DEF SoundsAt, PlacesOf
<1>14. M <= MaxPhones /\ Broken \cap Range(sentence) = {} =>
           Cardinality(SoundsAt(given)) >= Cardinality(WordStarts(padded))
  BY <1>2, <1>13, PlacesCounted
<1>15. given.phone_len = 2 * Len(all) + 1 /\ Len(given.phones) = MaxPhones
  BY <1>4, <1>9, <1>11
<1>16. \A k \in 1 .. Min({MaxPhones, given.phone_len}) :
          given.phones[k] = IF k % 2 = 0 THEN all[k \div 2] ELSE 0
  BY <1>11, <1>12, Zenon
<1>17. given.phone_len <= MaxPhones /\ Broken \cap Range(sentence) = {} =>
          Cardinality(SoundsAt(given)) >= Cardinality(WordStarts(padded))
  BY <1>11, <1>14, Zenon
<1>18. padded = <<Space>> \o sentence \o <<Space>> /\ all = Convert(padded)
  BY <1>1, <1>2
<1>19. Voiced(sentence, given)
  BY <1>15, <1>16, <1>17, <1>18, Zenon DEF Voiced
<1> QED
  BY <1>10, <1>19, Zenon

\* What SpeakText has answered is what it made of the text it was given.
SpeakInv ==
    /\ "text" \in DOMAIN input =>
          \E text \in Texts, latin \in BOOLEAN : input = [text |-> text, latin |-> latin]
    /\ Answered("sentences") =>
          /\ "text" \in DOMAIN input
          /\ output.sentences = SentencesOf(input.text, input.latin)
          /\ output.spoken = [i \in DOMAIN output.sentences |-> EncoderInput(output.sentences[i])]

\* A call begins unanswered.
LEMMA InitSpeak == Init => SpeakInv
<1> SUFFICES ASSUME Init PROVE SpeakInv
  OBVIOUS
<1>1. ~Answered("sentences")
  BY DEF Init, Answered
<1>2. "text" \in DOMAIN input =>
          \E text \in Texts, latin \in BOOLEAN : input = [text |-> text, latin |-> latin]
  BY DEF Init
<1> QED
  BY <1>1, <1>2 DEF SpeakInv

\* No other call answers with sentences.
LEMMA SpeakNext == SpeakInv /\ [Next]_vars => SpeakInv'
<1> SUFFICES ASSUME SpeakInv, [Next]_vars PROVE SpeakInv'
  OBVIOUS
<1>1. CASE DetectObjects
  BY <1>1 DEF DetectObjects, SpeakInv, Answered
<1>2. CASE FitFrame
  BY <1>2 DEF FitFrame, SpeakInv, Answered
<1>3. CASE DetectFaces
  BY <1>3 DEF DetectFaces, SpeakInv, Answered
<1>4. CASE AlignSounds
  BY <1>4 DEF AlignSounds, MiddleProcess, SpeakInv, Answered
<1>5. CASE SpeakText
  <2> DEFINE sentences == SentencesOf(input.text, input.latin)
  <2>1. /\ output'.sentences = sentences
        /\ output'.spoken = [i \in DOMAIN sentences |-> EncoderInput(sentences[i])]
    BY <1>5 DEF SpeakText
  <2>2. input' = input /\ "text" \in DOMAIN input
    BY <1>5 DEF SpeakText, Called
  <2> HIDE DEF sentences
  <2>3. output'.spoken = [i \in DOMAIN output'.sentences |-> EncoderInput(output'.sentences[i])]
    BY <2>1
  <2>4. output'.sentences = SentencesOf(input.text, input.latin)
    BY <2>1 DEF sentences
  <2> QED
    BY <2>2, <2>3, <2>4 DEF SpeakInv
<1>6. CASE ReadConfig
  BY <1>6 DEF ReadConfig, SpeakInv, Answered
<1>7. CASE UNCHANGED vars
  BY <1>7 DEF vars, SpeakInv, Answered
<1> QED
  BY <1>1, <1>2, <1>3, <1>4, <1>5, <1>6, <1>7 DEF Next

\* For every segment of an answer in whole characters, every word list and all the limits of the
\* configuration, the sentences carry the whole text in its order (a latin one but for the letters
\* written with a byte of a bracket), none of them is so short that it could have joined the next,
\* and the encoder is given the sounds of each with a blank on either side, as many as it has room
\* for: when it has room for all and no letter is broken, one for every word at least
\* (split_sentence, Lexicon::convert, Intersperse, PadOrTrim).
THEOREM SpeechAlwaysCarriesText == Spec => []SpeechCarriesText
<1>1. SpeakInv => SpeechCarriesText
  <2> SUFFICES ASSUME SpeakInv, Answered("sentences") PROVE SpeechCarriesText
    BY Zenon DEF SpeechCarriesText
  <2>1. PICK text \in Texts, latin \in BOOLEAN : input = [text |-> text, latin |-> latin]
    BY DEF SpeakInv
  <2>2. input.text = text /\ input.latin = latin
    BY <2>1
  <2>3. text \in Seq(Chars)
    BY TextsAssumption
  <2>4. PICK sentences : sentences = SentencesOf(text, latin)
    OBVIOUS
  <2>5. sentences \in Seq(Seq(Chars)) /\ Carries(sentences, text, latin)
    BY <2>3, <2>4, SentencesCarry
  <2>6. output.sentences = sentences /\ output.spoken = [i \in DOMAIN sentences |-> EncoderInput(sentences[i])]
    BY <2>2, <2>4 DEF SpeakInv
  <2>7. ASSUME NEW i \in DOMAIN sentences
        PROVE  Voiced(sentences[i], output.spoken[i])
    <3>1. PICK sentence \in Seq(Chars) : sentence = sentences[i]
      BY <2>5, ElementOfSeq
    <3>2. output.spoken[i] = EncoderInput(sentence)
      BY <2>6, <3>1
    <3> QED BY <3>1, <3>2, EncoderVoices
  <2> QED
    BY <2>2, <2>5, <2>6, <2>7 DEF SpeechCarriesText
<1> QED
  BY <1>1, InitSpeak, SpeakNext, PTL DEF Spec

-----------------------------------------------------------------------------
(***************************************************************************)
(* What is configured.  A line is read as what it was written for             *)
(* (LineIsRead): the comment is cut where nothing is quoted (Whole,        *)
(* CommentRead), the list is split where nothing is quoted (ListRead).     *)
(* Line after line the stack holds the sections that are still open        *)
(* (Stacked, FileRead), so that each line is put under the path it was     *)
(* written for (PathsUpTo).                                                *)
(***************************************************************************)

\* The sections that are open where line n stands, and 0.
Around(lines, n) ==
    {0} \cup {m \in Settings(lines) :
                /\ m < n /\ lines[m].form = "section"
                /\ \A k \in Settings(lines) : m < k /\ k <= n => lines[k].indent > lines[m].indent}

\* The section of a line is 0 or a line before.
LEMMA SectionBefore ==
    ASSUME NEW L, NEW lines, IsFile(lines, L), NEW n \in 1 .. L
    PROVE  SectionOf(lines, n) \in Around(lines, n) /\ SectionOf(lines, n) \in 0 .. n - 1
<1>1. Around(lines, n) \subseteq 0 .. n - 1 /\ 0 \in Around(lines, n)
  BY DEF Around, Settings, IsFile
<1>2. SectionOf(lines, n) = Max(Around(lines, n))
  BY DEF SectionOf, Around
<1>3. n \in Nat /\ Around(lines, n) \in SUBSET Int /\ Around(lines, n) # {}
      /\ \A x \in Around(lines, n) : x <= n
  <2>1. n \in Nat
    BY DEF IsFile
  <2> QED BY <1>1, <2>1
<1>4. PICK around \in SUBSET Int : around = Around(lines, n)
  BY <1>3
<1>5. Max(around) \in around
  <2>1. n \in Int /\ around # {} /\ \A x \in around : x <= n
    BY <1>3, <1>4
  <2> QED BY <2>1, GreatestOfSet
<1> QED BY <1>1, <1>2, <1>4, <1>5

\* f is the path of every line up to n.
PathsUpTo(f, lines, n) ==
    /\ f[0] = <<>>
    /\ \A m \in 1 .. n : f[m] = Append(f[SectionOf(lines, m)], <<lines[m].key>>)

\* Every file has its paths.
LEMMA PathsExist ==
    ASSUME NEW L, NEW lines, IsFile(lines, L)
    PROVE  \E f : PathsUpTo(f, lines, L)
<1> DEFINE T == {n \in 0 .. L : \E f : PathsUpTo(f, lines, n)}
<1>1. L \in Nat
  BY DEF IsFile
<1>2. 0 \in T
  <2>1. PathsUpTo([n \in {0} |-> <<>>], lines, 0)
    BY DEF PathsUpTo
  <2> QED BY <1>1, <2>1
<1>3. ASSUME NEW n \in 1 .. L, n - 1 \in T PROVE n \in T
  <2>1. PICK f : PathsUpTo(f, lines, n - 1)
    BY <1>3
  <2>2. PICK g : g = [m \in 0 .. n |-> IF m = n THEN Append(f[SectionOf(lines, n)], <<lines[n].key>>) ELSE f[m]]
    OBVIOUS
  <2>3. g[0] = <<>>
    <3>1. 0 \in 0 .. n /\ 0 # n
      BY <1>1
    <3> QED BY <2>1, <2>2, <3>1 DEF PathsUpTo
  <2>4. ASSUME NEW m \in 1 .. n
        PROVE  g[m] = Append(g[SectionOf(lines, m)], <<lines[m].key>>)
    <3>1. m \in 1 .. L /\ m \in 0 .. n
      BY <1>1
    <3>2. SectionOf(lines, m) \in 0 .. m - 1
      BY <3>1, SectionBefore
    <3>3. SectionOf(lines, m) \in 0 .. n /\ SectionOf(lines, m) # n
      BY <1>1, <3>2
    <3>4. g[SectionOf(lines, m)] = f[SectionOf(lines, m)]
      BY <2>2, <3>3
    <3>5. CASE m = n
      BY <2>2, <3>1, <3>4, <3>5
    <3>6. CASE m # n
      <4>1. m \in 1 .. n - 1
        BY <1>1, <3>6
      <4>2. g[m] = f[m]
        BY <2>2, <3>1, <3>6
      <4>3. f[m] = Append(f[SectionOf(lines, m)], <<lines[m].key>>)
        BY <2>1, <4>1 DEF PathsUpTo
      <4> QED BY <3>4, <4>2, <4>3
    <3> QED BY <3>5, <3>6
  <2>5. PathsUpTo(g, lines, n)
    BY <2>3, <2>4 DEF PathsUpTo
  <2>6. n \in 0 .. L
    BY <1>1
  <2> QED BY <2>5, <2>6
<1>4. 0 .. L \subseteq T
  <2> HIDE DEF T
  <2> QED BY <1>1, <1>2, <1>3, UpToSet
<1> QED BY <1>1, <1>4

\* PathsIn are they.
LEMMA PathsInIs ==
    ASSUME NEW L, NEW lines, IsFile(lines, L), Len(lines) = L
    PROVE  PathsUpTo(PathsIn(lines), lines, L)
<1> DEFINE Is(f) == f = [n \in 0 .. Len(lines) |->
                            IF n = 0 THEN <<>> ELSE Append(f[SectionOf(lines, n)], <<lines[n].key>>)]
           path == CHOOSE f : Is(f)
<1>1. L \in Nat
  BY DEF IsFile
<1>2. PICK f : PathsUpTo(f, lines, L)
  BY PathsExist
<1>3. PICK g : g = [n \in 0 .. L |-> f[n]]
  OBVIOUS
<1>4. Is(g)
  <2>1. ASSUME NEW n \in 0 .. L
        PROVE  g[n] = IF n = 0 THEN <<>> ELSE Append(g[SectionOf(lines, n)], <<lines[n].key>>)
    <3>1. CASE n = 0
      BY <1>2, <1>3, <3>1 DEF PathsUpTo
    <3>2. CASE n # 0
      <4>1. n \in 1 .. L
        BY <1>1, <3>2
      <4>2. SectionOf(lines, n) \in 0 .. L
        <5>1. SectionOf(lines, n) \in 0 .. n - 1
          BY <4>1, SectionBefore
        <5> QED BY <1>1, <5>1
      <4>3. f[n] = Append(f[SectionOf(lines, n)], <<lines[n].key>>)
        BY <1>2, <4>1 DEF PathsUpTo
      <4>4. g[n] = f[n] /\ g[SectionOf(lines, n)] = f[SectionOf(lines, n)]
        BY <1>3, <4>2
      <4> QED BY <3>2, <4>3, <4>4
    <3> QED BY <3>1, <3>2
  <2>2. g = [n \in 0 .. L |-> IF n = 0 THEN <<>> ELSE Append(g[SectionOf(lines, n)], <<lines[n].key>>)]
    <3>1. g = [n \in 0 .. L |-> g[n]]
      BY <1>3
    <3> QED BY <2>1, <3>1
  <2> QED BY <2>2
<1>5. Is(path)
  <2> HIDE DEF Is
  <2> QED BY <1>4
<1>6. PathsIn(lines) = path
  BY DEF PathsIn
<1> HIDE DEF path
<1>7. path[0] = <<>> /\ \A n \in 1 .. L : path[n] = Append(path[SectionOf(lines, n)], <<lines[n].key>>)
  <2>1. 0 \in 0 .. L /\ \A n \in 1 .. L : n \in 0 .. L /\ n # 0
    BY <1>1
  <2> QED BY <1>5, <2>1
<1> QED BY <1>6, <1>7 DEF PathsUpTo

\* The entries among the first n lines, and the sections of them that are open after the n-th.
Before(lines, n) == {m \in Settings(lines) : m <= n}

StillOpen(lines, n) ==
    {m \in Before(lines, n) :
        /\ lines[m].form = "section"
        /\ \A k \in Before(lines, n) : m < k => lines[k].indent > lines[m].indent}

\* owner says of every place of the stack which line it is of: the open sections in their order.
Stacked(stack, owner, lines, path, n, L) ==
    /\ stack \in Seq(Spots(path, L)) /\ Len(stack) >= 1
    /\ owner \in [1 .. Len(stack) -> 0 .. n] /\ owner[1] = 0
    /\ \A j, k \in 1 .. Len(stack) : j < k => owner[j] < owner[k]
    /\ \A k \in 1 .. Len(stack) : stack[k].path = path[owner[k]]
    /\ \A k \in 2 .. Len(stack) : /\ owner[k] \in StillOpen(lines, n)
                                  /\ stack[k].indent = lines[owner[k]].indent
    /\ \A m \in StillOpen(lines, n) : \E k \in 2 .. Len(stack) : owner[k] = m

\* What a line as deep as d leaves are the sections less deep than it.
LEMMA LeftIsAround ==
    ASSUME NEW L, NEW lines, IsFile(lines, L), NEW path, NEW stack, NEW owner, NEW n \in 1 .. L,
           Stacked(stack, owner, lines, path, n - 1, L), n \in Settings(lines),
           NEW K, Leaves(stack, lines[n].indent, K)
    PROVE  /\ Around(lines, n) = {owner[k] : k \in 1 .. K}
           /\ SectionOf(lines, n) = owner[K]
           /\ \A m \in StillOpen(lines, n - 1) : lines[m].indent < lines[n].indent => \E k \in 2 .. K : owner[k] = m
           /\ \A k \in 2 .. K : lines[owner[k]].indent < lines[n].indent
<1> DEFINE d == lines[n].indent
           N == Len(stack)
<1>0. L \in Nat /\ n \in Nat /\ DOMAIN lines = 1 .. L /\ \A k \in 1 .. L : lines[k].indent \in Nat
  BY DEF IsFile
<1>1. N \in Nat /\ K \in 1 .. N
  BY LenProperties DEF Leaves, Stacked
<1>2. /\ \A k \in 1 .. N : owner[k] \in 0 .. n - 1
      /\ \A j, k \in 1 .. N : j < k => owner[j] < owner[k]
      /\ owner[1] = 0
      /\ \A k \in 2 .. N : owner[k] \in StillOpen(lines, n - 1) /\ stack[k].indent = lines[owner[k]].indent
      /\ \A m \in StillOpen(lines, n - 1) : \E k \in 2 .. N : owner[k] = m
  BY <1>1 DEF Stacked
<1>3. (K >= 2 => stack[K].indent < d) /\ \A k \in K + 1 .. N : ~(stack[k].indent < d)
  BY DEF Leaves
<1> HIDE DEF N, d
<1>4. ASSUME NEW k \in 2 .. K PROVE lines[owner[k]].indent < d
  <2>1. k \in 2 .. N /\ K \in 2 .. N
    BY <1>1
  <2>2. lines[owner[K]].indent < d
    BY <1>2, <1>3, <2>1
  <2>3. CASE k = K
    BY <2>2, <2>3
  <2>4. CASE k # K
    <3>1. owner[k] < owner[K] /\ owner[K] \in StillOpen(lines, n - 1) /\ owner[k] \in StillOpen(lines, n - 1)
      BY <1>1, <1>2, <2>1, <2>4
    <3>2. owner[K] \in Before(lines, n - 1)
      BY <3>1 DEF StillOpen
    <3>3. lines[owner[K]].indent > lines[owner[k]].indent
      BY <3>1, <3>2 DEF StillOpen
    <3>4. lines[owner[K]].indent \in Int /\ lines[owner[k]].indent \in Int /\ d \in Int
      BY <1>0, <3>1 DEF StillOpen, Before, Settings, d
    <3> QED BY <2>2, <3>3, <3>4
  <2> QED BY <2>3, <2>4
<1>5. ASSUME NEW m \in StillOpen(lines, n - 1), lines[m].indent < d
      PROVE  \E k \in 2 .. K : owner[k] = m
  <2>1. PICK k \in 2 .. N : owner[k] = m
    BY <1>2
  <2>2. stack[k].indent < d
    BY <1>2, <1>5, <2>1
  <2>3. ~(k \in K + 1 .. N)
    BY <1>3, <2>2
  <2>4. k \in 2 .. K
    BY <1>1, <2>3
  <2> QED BY <2>1, <2>4
<1>6. \A m : m \in Around(lines, n) <=> m = 0 \/ (m \in StillOpen(lines, n - 1) /\ lines[m].indent < d)
  <2>0. 0 \in Around(lines, n) /\ \A m \in Around(lines, n) : m = 0 \/ m \in Settings(lines)
    BY DEF Around
  <2>5. \A m \in StillOpen(lines, n - 1) : m \in Settings(lines)
    BY DEF StillOpen, Before
  <2>6. ASSUME NEW m \in Settings(lines)
        PROVE  m \in Around(lines, n) <=> m \in StillOpen(lines, n - 1) /\ lines[m].indent < d
    <3>1. m \in 1 .. L /\ m # 0 /\ lines[m].indent \in Nat
      BY <1>0 DEF Settings
    <3>2. m < n <=> m <= n - 1
      BY <1>0, <3>1
    <3>3. ASSUME m \in Around(lines, n) PROVE m \in StillOpen(lines, n - 1) /\ lines[m].indent < d
      <4>1. /\ m < n /\ lines[m].form = "section"
            /\ \A k \in Settings(lines) : m < k /\ k <= n => lines[k].indent > lines[m].indent
        BY <3>1, <3>3 DEF Around
      <4>2. n <= n /\ lines[n].indent > lines[m].indent
        BY <1>0, <4>1
      <4>3. \A k \in Before(lines, n - 1) : k \in Settings(lines) /\ k <= n
        BY <1>0 DEF Before, Settings
      <4> QED BY <1>0, <3>1, <3>2, <4>1, <4>2, <4>3 DEF StillOpen, Before, d
    <3>4. ASSUME m \in StillOpen(lines, n - 1), lines[m].indent < d PROVE m \in Around(lines, n)
      <4>1. /\ m <= n - 1 /\ lines[m].form = "section"
            /\ \A k \in Before(lines, n - 1) : m < k => lines[k].indent > lines[m].indent
        BY <3>4 DEF StillOpen, Before
      <4>2. ASSUME NEW k \in Settings(lines), m < k, k <= n PROVE lines[k].indent > lines[m].indent
        <5>1. CASE k = n
          BY <1>0, <3>1, <3>4, <5>1 DEF d
        <5>2. CASE k # n
          <6>1. k \in Before(lines, n - 1)
            BY <1>0, <4>2, <5>2 DEF Before, Settings
          <6> QED BY <4>1, <4>2, <6>1
        <5> QED BY <5>1, <5>2
      <4> QED BY <3>2, <4>1, <4>2 DEF Around
    <3> QED BY <3>3, <3>4
  <2>7. \A m : m \in Settings(lines) \/ m \notin Settings(lines)
    OBVIOUS
  <2>8. ASSUME NEW m
        PROVE  m \in Around(lines, n) <=> m = 0 \/ (m \in StillOpen(lines, n - 1) /\ lines[m].indent < d)
    <3>1. CASE m \in Settings(lines)
      BY <2>0, <2>6, <3>1
    <3>2. CASE m \notin Settings(lines)
      <4>1. m \notin StillOpen(lines, n - 1)
        BY <2>5, <3>2
      <4>2. m \in Around(lines, n) <=> m = 0
        BY <2>0, <3>2
      <4> QED BY <4>1, <4>2
    <3> QED BY <3>1, <3>2
  <2> QED BY <2>8
<1>7. Around(lines, n) = {owner[k] : k \in 1 .. K}
  <2>1. ASSUME NEW m \in Around(lines, n) PROVE \E k \in 1 .. K : owner[k] = m
    <3>1. CASE m = 0
      BY <1>1, <1>2, <3>1
    <3>2. CASE m # 0
      <4>1. PICK k \in 2 .. K : owner[k] = m
        BY <1>5, <1>6, <3>2
      <4> QED BY <4>1
    <3> QED BY <3>1, <3>2
  <2>2. ASSUME NEW k \in 1 .. K PROVE owner[k] \in Around(lines, n)
    <3>1. CASE k = 1
      <4>1. 0 \in Around(lines, n)
        BY DEF Around
      <4> QED BY <1>2, <3>1, <4>1
    <3>2. CASE k # 1
      <4>1. k \in 2 .. K /\ k \in 2 .. N
        BY <1>1, <3>2
      <4> QED BY <1>2, <1>4, <1>6, <4>1
    <3> QED BY <3>1, <3>2
  <2> QED BY <2>1, <2>2
<1>8. SectionOf(lines, n) = owner[K]
  <2>1. \A y \in Around(lines, n) : y <= owner[K]
    <3> SUFFICES ASSUME NEW k \in 1 .. K PROVE owner[k] <= owner[K]
      BY <1>7
    <3>1. k \in 1 .. N /\ K \in 1 .. N /\ owner[k] \in 0 .. n - 1 /\ owner[K] \in 0 .. n - 1
      BY <1>1, <1>2
    <3>2. k # K => owner[k] < owner[K]
      BY <1>2, <3>1
    <3> QED BY <1>0, <3>1, <3>2
  <2>2. owner[K] \in Around(lines, n)
    BY <1>1, <1>7
  <2>3. Around(lines, n) \in SUBSET Int
    BY <1>0 DEF Around, Settings
  <2>4. Max(Around(lines, n)) = owner[K]
    BY <2>1, <2>2, <2>3, MaxIs
  <2> QED BY <2>4 DEF SectionOf, Around
<1> QED BY <1>4, <1>5, <1>7, <1>8 DEF d

\* After an entry the sections less deep are still open, and it is when it is one.
LEMMA StillOpenNext ==
    ASSUME NEW L, NEW lines, IsFile(lines, L), NEW n \in 1 .. L, n \in Settings(lines)
    PROVE  \A m : m \in StillOpen(lines, n) <=>
                     \/ m \in StillOpen(lines, n - 1) /\ lines[m].indent < lines[n].indent
                     \/ m = n /\ lines[n].form = "section"
<1>0. L \in Nat /\ n \in Nat /\ DOMAIN lines = 1 .. L /\ \A k \in 1 .. L : lines[k].indent \in Nat
  BY DEF IsFile
<1>1. \A k : k \in Before(lines, n) <=> k \in Before(lines, n - 1) \/ k = n
  BY <1>0 DEF Before, Settings
<1>2. \A k \in Before(lines, n - 1) : k < n /\ k # n /\ k \in 1 .. L /\ ~(n < k)
  BY <1>0 DEF Before, Settings
<1>3. ASSUME NEW m, m \in StillOpen(lines, n), m # n
      PROVE  m \in StillOpen(lines, n - 1) /\ lines[m].indent < lines[n].indent
  <2>1. m \in Before(lines, n - 1) /\ lines[m].form = "section"
    BY <1>1, <1>3 DEF StillOpen
  <2>2. \A k \in Before(lines, n) : m < k => lines[k].indent > lines[m].indent
    BY <1>3 DEF StillOpen
  <2>3. lines[n].indent > lines[m].indent
    BY <1>1, <1>2, <2>1, <2>2
  <2>4. lines[m].indent < lines[n].indent
    BY <1>0, <1>2, <2>1, <2>3
  <2> QED BY <1>1, <2>1, <2>2, <2>4 DEF StillOpen
<1>4. ASSUME NEW m, m \in StillOpen(lines, n - 1), lines[m].indent < lines[n].indent
      PROVE  m \in StillOpen(lines, n)
  <2>1. m \in Before(lines, n - 1) /\ lines[m].form = "section"
    BY <1>4 DEF StillOpen
  <2>2. \A k \in Before(lines, n - 1) : m < k => lines[k].indent > lines[m].indent
    BY <1>4 DEF StillOpen
  <2>3. lines[n].indent > lines[m].indent
    BY <1>0, <1>2, <1>4, <2>1
  <2>4. \A k \in Before(lines, n) : m < k => lines[k].indent > lines[m].indent
    BY <1>1, <2>2, <2>3
  <2> QED BY <1>1, <2>1, <2>4 DEF StillOpen
<1>5. ASSUME lines[n].form = "section" PROVE n \in StillOpen(lines, n)
  <2>1. n \in Before(lines, n)
    BY <1>1
  <2>2. \A k \in Before(lines, n) : ~(n < k)
    BY <1>0, <1>1, <1>2
  <2> QED BY <1>5, <2>1, <2>2 DEF StillOpen
<1>6. n \in StillOpen(lines, n) => lines[n].form = "section"
  BY DEF StillOpen
<1>7. n \notin StillOpen(lines, n - 1)
  BY <1>2 DEF StillOpen
<1> SUFFICES ASSUME NEW m
             PROVE  m \in StillOpen(lines, n) <=>
                       \/ m \in StillOpen(lines, n - 1) /\ lines[m].indent < lines[n].indent
                       \/ m = n /\ lines[n].form = "section"
  OBVIOUS
<1>8. CASE m = n
  BY <1>5, <1>6, <1>7, <1>8
<1>9. CASE m # n
  BY <1>3, <1>4, <1>9
<1> QED BY <1>8, <1>9

\* The stack that is left is the one of line n, with the line on it when it is a section.
StackedAfter(rest, spot, lines, path, n, L) ==
    /\ rest[Len(rest)].path = path[SectionOf(lines, n)]
    /\ lines[n].form # "section" => \E o : Stacked(rest, o, lines, path, n, L)
    /\ lines[n].form = "section" => \E o : Stacked(Append(rest, spot), o, lines, path, n, L)

\* It is.
LEMMA StackedNext ==
    ASSUME NEW L, NEW lines, IsFile(lines, L), NEW path, NEW stack, NEW owner, NEW n \in 1 .. L,
           Stacked(stack, owner, lines, path, n - 1, L), n \in Settings(lines),
           NEW K, Leaves(stack, lines[n].indent, K), NEW rest, rest = SubSeq(stack, 1, K),
           NEW spot, spot = [path |-> path[n], indent |-> lines[n].indent]
    PROVE  StackedAfter(rest, spot, lines, path, n, L)
<1> DEFINE d == lines[n].indent
           N == Len(stack)
           Spot == Spots(path, L)
           top == [path |-> path[n], indent |-> d]
           section == lines[n].form = "section"
<1>0. L \in Nat /\ n \in Nat /\ n \in 0 .. L /\ d \in Nat
  BY DEF IsFile
<1>1. stack \in Seq(Spot) /\ N \in Nat /\ K \in 1 .. N /\ \A k \in 1 .. N : stack[k] \in Spot
  BY LenProperties, ElementOfSeq DEF Leaves, Stacked
<1>2. /\ \A k \in 1 .. N : owner[k] \in 0 .. n - 1 /\ stack[k].path = path[owner[k]]
      /\ \A j, k \in 1 .. N : j < k => owner[j] < owner[k]
      /\ owner[1] = 0
      /\ \A k \in 2 .. N : owner[k] \in StillOpen(lines, n - 1) /\ stack[k].indent = lines[owner[k]].indent
  BY <1>1 DEF Stacked
<1>3. /\ SectionOf(lines, n) = owner[K]
      /\ \A m \in StillOpen(lines, n - 1) : lines[m].indent < d => \E k \in 2 .. K : owner[k] = m
      /\ \A k \in 2 .. K : lines[owner[k]].indent < d
  BY LeftIsAround
<1>4. \A m : m \in StillOpen(lines, n) <=>
                \/ m \in StillOpen(lines, n - 1) /\ lines[m].indent < d
                \/ m = n /\ section
  BY StillOpenNext
<1>5. top \in Spot
  BY <1>0 DEF Spots
<1> HIDE DEF N, d, Spot
<1>6. PICK left \in Seq(Spot) : /\ left = SubSeq(stack, 1, K) /\ Len(left) = K
                                /\ \A k \in 1 .. K : left[k] = stack[k]
  <2>1. 1 \in Int /\ K \in Int /\ 1 <= K /\ \A k \in 1 .. K : stack[k] \in Spot
    BY <1>1
  <2>2. SubSeq(stack, 1, K) \in Seq(Spot) /\ Len(SubSeq(stack, 1, K)) = K
    BY <2>1, SubSeqProperties
  <2>3. \A k \in 1 .. K : SubSeq(stack, 1, K)[k] = stack[k]
    <3>1. \A k \in 1 .. K - 1 + 1 : SubSeq(stack, 1, K)[k] = stack[1 + k - 1]
      BY <2>1, SubSeqProperties
    <3>2. K - 1 + 1 = K /\ \A k \in 1 .. K : 1 + k - 1 = k
      BY <2>1
    <3> QED BY <3>1, <3>2
  <2> QED BY <2>2, <2>3
<1>7. left[K].path = path[SectionOf(lines, n)]
  <2>1. K \in 1 .. K /\ K \in 1 .. N
    BY <1>1
  <2> QED BY <1>2, <1>3, <1>6, <2>1
<1>8. \A k \in 1 .. K : k \in 1 .. N
  BY <1>1
<1>9. \A k \in 2 .. K : k \in 2 .. N /\ k \in 1 .. N /\ k \in 1 .. K
  BY <1>1
<1>10. ASSUME ~section PROVE \E o : Stacked(left, o, lines, path, n, L)
  <2>1. PICK o : o = [k \in 1 .. K |-> owner[k]]
    OBVIOUS
  <2>2. o \in [1 .. K -> 0 .. n]
    BY <1>0, <1>2, <1>8, <2>1
  <2>3. o[1] = 0 /\ K >= 1
    BY <1>1, <1>2, <2>1
  <2>4. \A j, k \in 1 .. K : j < k => o[j] < o[k]
    BY <1>2, <1>8, <2>1
  <2>5. \A k \in 1 .. K : left[k].path = path[o[k]]
    BY <1>2, <1>6, <1>8, <2>1
  <2>6. \A k \in 2 .. K : o[k] \in StillOpen(lines, n) /\ left[k].indent = lines[o[k]].indent
    BY <1>2, <1>3, <1>4, <1>6, <1>9, <2>1
  <2>7. \A m \in StillOpen(lines, n) : \E k \in 2 .. K : o[k] = m
    <3> SUFFICES ASSUME NEW m \in StillOpen(lines, n) PROVE \E k \in 2 .. K : o[k] = m
      OBVIOUS
    <3>1. m \in StillOpen(lines, n - 1) /\ lines[m].indent < d
      BY <1>4, <1>10
    <3>2. PICK k \in 2 .. K : owner[k] = m
      BY <1>3, <3>1
    <3> QED BY <1>9, <2>1, <3>2
  <2>8. Stacked(left, o, lines, path, n, L)
    BY <1>6, <2>2, <2>3, <2>4, <2>5, <2>6, <2>7 DEF Stacked, Spot
  <2> QED BY <2>8
<1>11. ASSUME section PROVE \E o : Stacked(Append(left, top), o, lines, path, n, L)
  <2>1. PICK o : o = [k \in 1 .. K + 1 |-> IF k = K + 1 THEN n ELSE owner[k]]
    OBVIOUS
  <2>2. PICK more \in Seq(Spot) : more = Append(left, top)
    <3>1. Append(left, top) \in Seq(Spot)
      BY <1>5, AppendType
    <3> QED BY <3>1, Zenon
  <2>3. Len(more) = K + 1 /\ more[K + 1] = top /\ \A k \in 1 .. K : more[k] = left[k]
    BY <1>6, <2>2, AppendProperties
  <2>4. K \in Nat /\ \A k \in 1 .. K + 1 : k = K + 1 \/ k \in 1 .. K
    BY <1>1
  <2>5. /\ o[K + 1] = n
        /\ \A k \in 1 .. K : o[k] = owner[k] /\ k \in 1 .. K + 1 /\ k # K + 1 /\ o[k] \in 0 .. n - 1
    BY <1>2, <1>8, <2>1, <2>4
  <2>6. o \in [1 .. K + 1 -> 0 .. n]
    <3>1. \A k \in 1 .. K + 1 : o[k] \in 0 .. n
      <4>1. n \in 0 .. n /\ \A x \in 0 .. n - 1 : x \in 0 .. n
        BY <1>0
      <4> QED BY <2>4, <2>5, <4>1
    <3>2. o = [k \in 1 .. K + 1 |-> o[k]]
      BY <2>1
    <3> QED BY <3>1, <3>2
  <2>7. o[1] = 0 /\ K + 1 >= 1
    BY <1>1, <1>2, <2>5
  <2>8. ASSUME NEW j \in 1 .. K + 1, NEW k \in 1 .. K + 1, j < k PROVE o[j] < o[k]
    <3>1. j \in 1 .. K
      BY <2>4, <2>8
    <3>2. CASE k = K + 1
      BY <1>0, <2>5, <3>1, <3>2
    <3>3. CASE k # K + 1
      BY <1>2, <1>8, <2>4, <2>5, <2>8, <3>1, <3>3
    <3> QED BY <3>2, <3>3
  <2>9. ASSUME NEW k \in 1 .. K + 1 PROVE more[k].path = path[o[k]]
    <3>1. CASE k = K + 1
      BY <2>3, <2>5, <3>1
    <3>2. CASE k # K + 1
      BY <1>2, <1>6, <1>8, <2>3, <2>4, <2>5, <3>2
    <3> QED BY <3>1, <3>2
  <2>10. ASSUME NEW k \in 2 .. K + 1
         PROVE  o[k] \in StillOpen(lines, n) /\ more[k].indent = lines[o[k]].indent
    <3>1. CASE k = K + 1
      BY <1>4, <1>11, <2>3, <2>5, <3>1 DEF d
    <3>2. CASE k # K + 1
      <4>1. k \in 2 .. K
        BY <2>4, <3>2
      <4>2. o[k] = owner[k] /\ more[k] = stack[k]
        BY <1>6, <1>9, <2>3, <2>5, <4>1
      <4> QED BY <1>2, <1>3, <1>4, <1>9, <4>1, <4>2
    <3> QED BY <3>1, <3>2
  <2>11. ASSUME NEW m \in StillOpen(lines, n) PROVE \E k \in 2 .. K + 1 : o[k] = m
    <3>1. CASE m = n
      <4>1. K + 1 \in 2 .. K + 1
        BY <1>1
      <4> QED BY <2>5, <3>1, <4>1
    <3>2. CASE m # n
      <4>1. m \in StillOpen(lines, n - 1) /\ lines[m].indent < d
        BY <1>4, <3>2
      <4>2. PICK k \in 2 .. K : owner[k] = m
        BY <1>3, <4>1
      <4>3. k \in 2 .. K + 1 /\ o[k] = m
        BY <1>9, <2>4, <2>5, <4>2
      <4> QED BY <4>3
    <3> QED BY <3>1, <3>2
  <2>12. Stacked(more, o, lines, path, n, L)
    BY <2>3, <2>6, <2>7, <2>8, <2>9, <2>10, <2>11 DEF Stacked, Spot
  <2> QED BY <2>2, <2>12
<1>12. rest = left /\ spot = top
  BY <1>6 DEF d
<1>13. rest[Len(rest)].path = path[SectionOf(lines, n)]
  BY <1>6, <1>7, <1>12
<1> HIDE DEF top
<1> QED
  BY <1>10, <1>11, <1>12, <1>13 DEF StackedAfter

\* What has been read after n lines.
FileRead(state, lines, path, n, L) ==
    /\ DOMAIN state.tree = {<<>>} \cup {path[m] : m \in Before(lines, n)}
    /\ \A m \in Before(lines, n) :
          (\A k \in Before(lines, n) : k > m => path[k] # path[m]) => state.tree[path[m]] = NodeOf(lines[m])
    /\ \E o : Stacked(state.stack, o, lines, path, n, L)

\* Before the first line.
LEMMA RootRead ==
    ASSUME NEW L, NEW lines, IsFile(lines, L), NEW path, path[0] = <<>>
    PROVE  FileRead(Root, lines, path, 0, L)
<1>1. L \in Nat /\ DOMAIN lines = 1 .. L
  BY DEF IsFile
<1>2. Before(lines, 0) = {}
  BY <1>1 DEF Before, Settings
<1>3. StillOpen(lines, 0) = {}
  BY <1>2 DEF StillOpen
<1>4. PICK spot : spot = [path |-> <<>>, indent |-> 0]
  OBVIOUS
<1>5. spot \in Spots(path, L)
  <2>1. spot = [path |-> path[0], indent |-> 0] /\ 0 \in 0 .. L /\ 0 \in Int
    BY <1>1, <1>4
  <2> QED BY <2>1 DEF Spots
<1>6. PICK stack \in Seq(Spots(path, L)) : stack = <<spot>> /\ Len(stack) = 1 /\ stack[1] = spot
  <2>1. PICK S : S = Spots(path, L)
    OBVIOUS
  <2>2. spot \in S
    BY <1>5, <2>1
  <2>3. <<spot>> \in Seq(S) /\ Len(<<spot>>) = 1 /\ <<spot>>[1] = spot
    BY <2>2
  <2> QED BY <2>1, <2>3
<1>7. PICK o : o = [k \in 1 .. 1 |-> 0]
  OBVIOUS
<1>8. Stacked(stack, o, lines, path, 0, L)
  <2>1. o \in [1 .. 1 -> 0 .. 0] /\ o[1] = 0
    BY <1>7
  <2>2. 2 .. 1 = {} /\ \A j, k \in 1 .. 1 : ~(j < k)
    OBVIOUS
  <2>3. stack[1].path = path[o[1]]
    BY <1>4, <1>6, <2>1
  <2> QED BY <1>3, <1>6, <2>1, <2>2, <2>3 DEF Stacked
<1>9. Root.stack = stack
  BY <1>4, <1>6 DEF Root
<1>10. DOMAIN Root.tree = {<<>>}
  BY DEF Root
<1> QED BY <1>2, <1>8, <1>9, <1>10 DEF FileRead

\* A remark changes nothing.
LEMMA RemarkRead ==
    ASSUME NEW L, NEW lines, IsFile(lines, L), NEW path, NEW state, NEW n \in 1 .. L,
           FileRead(state, lines, path, n - 1, L), n \notin Settings(lines)
    PROVE  FileRead(state, lines, path, n, L)
<1>1. L \in Nat /\ n \in Nat /\ DOMAIN lines = 1 .. L
  BY DEF IsFile
<1>2. Before(lines, n) = Before(lines, n - 1)
  BY <1>1 DEF Before, Settings
<1>3. StillOpen(lines, n) = StillOpen(lines, n - 1)
  BY <1>2 DEF StillOpen
<1>4. PICK o : Stacked(state.stack, o, lines, path, n - 1, L)
  BY DEF FileRead
<1>5. Stacked(state.stack, o, lines, path, n, L)
  <2>1. Len(state.stack) \in Nat
    BY <1>4, LenProperties DEF Stacked
  <2>2. o \in [1 .. Len(state.stack) -> 0 .. n]
    <3>1. o \in [1 .. Len(state.stack) -> 0 .. n - 1]
      BY <1>4 DEF Stacked
    <3>2. 0 .. n - 1 \subseteq 0 .. n
      BY <1>1
    <3> QED BY <3>1, <3>2
  <2> QED BY <1>3, <1>4, <2>2 DEF Stacked
<1> QED BY <1>2, <1>5 DEF FileRead

\* An entry is read.
LEMMA EntryRead ==
    ASSUME NEW L, NEW lines, IsFile(lines, L), NEW path, PathsUpTo(path, lines, L), NEW state, NEW n \in 1 .. L,
           FileRead(state, lines, path, n - 1, L), n \in Settings(lines),
           NEW w, LineReadAs(w, lines[n])
    PROVE  FileRead(LoadLine(state, w), lines, path, n, L)
<1>1. L \in Nat /\ n \in Nat /\ DOMAIN lines = 1 .. L
  BY DEF IsFile
<1>2. PICK owner : Stacked(state.stack, owner, lines, path, n - 1, L)
  BY DEF FileRead
<1>3. PICK stack \in Seq(Spots(path, L)) : stack = state.stack /\ Len(stack) >= 1
  BY <1>2 DEF Stacked
<1>4. PICK K : Leaves(stack, lines[n].indent, K)
  BY <1>3, SomeLeft
<1>5. PICK left : left = Enclosing(stack, lines[n].indent) /\ left = SubSeq(stack, 1, K)
  BY <1>4 DEF Leaves
<1>6. PICK top : top = [path |-> path[n], indent |-> lines[n].indent]
  OBVIOUS
<1>7. StackedAfter(left, top, lines, path, n, L)
  <2>1. Stacked(stack, owner, lines, path, n - 1, L) /\ Leaves(stack, lines[n].indent, K) /\ left = SubSeq(stack, 1, K)
    BY <1>2, <1>3, <1>4, <1>5
  <2> QED BY <1>6, <2>1, StackedNext
<1>8. path[n] = Append(left[Len(left)].path, <<lines[n].key>>)
  BY <1>7 DEF PathsUpTo, StackedAfter
<1>9. lines[n].form # "remark"
  BY DEF Settings
<1>10. PICK next : next = LoadLine(state, w)
  OBVIOUS
<1>11. EntryLoaded(next, state, left, path[n], lines[n])
  <2>1. PICK line, here : line = lines[n] /\ here = path[n]
    OBVIOUS
  <2>2. LineReadAs(w, line) /\ line.form # "remark" /\ left = Enclosing(state.stack, line.indent)
        /\ here = Append(left[Len(left)].path, <<line.key>>)
    BY <1>3, <1>5, <1>8, <1>9, <2>1
  <2>3. EntryLoaded(LoadLine(state, w), state, left, here, line)
    BY <2>2, LoadLineIs
  <2> QED BY <1>10, <2>1, <2>3
<1>12. /\ next.stack = IF lines[n].form = "section" THEN Append(left, top) ELSE left
       /\ DOMAIN next.tree = DOMAIN state.tree \cup {path[n]}
       /\ \A p \in DOMAIN next.tree : next.tree[p] = IF p = path[n] THEN NodeOf(lines[n]) ELSE state.tree[p]
  BY <1>6, <1>11 DEF EntryLoaded
<1>13. \E o : Stacked(next.stack, o, lines, path, n, L)
  BY <1>7, <1>12 DEF StackedAfter
<1>14. Before(lines, n) = Before(lines, n - 1) \cup {n}
  BY <1>1 DEF Before, Settings
<1>15. DOMAIN next.tree = {<<>>} \cup {path[m] : m \in Before(lines, n)}
  <2>1. DOMAIN state.tree = {<<>>} \cup {path[m] : m \in Before(lines, n - 1)}
    BY DEF FileRead
  <2> QED BY <1>12, <1>14, <2>1
<1>16. ASSUME NEW m \in Before(lines, n), \A k \in Before(lines, n) : k > m => path[k] # path[m]
       PROVE  next.tree[path[m]] = NodeOf(lines[m])
  <2>1. path[m] \in DOMAIN next.tree
    BY <1>15
  <2>2. CASE m = n
    BY <1>12, <2>1, <2>2
  <2>3. CASE m # n
    <3>1. m \in Before(lines, n - 1) /\ n > m
      BY <1>1, <1>14, <2>3 DEF Before, Settings
    <3>2. path[m] # path[n]
      BY <1>14, <1>16, <3>1
    <3>3. \A k \in Before(lines, n - 1) : k > m => path[k] # path[m]
      BY <1>14, <1>16
    <3>4. state.tree[path[m]] = NodeOf(lines[m])
      BY <3>1, <3>3 DEF FileRead
    <3> QED BY <1>12, <2>1, <3>2, <3>4
  <2> QED BY <2>2, <2>3
<1> QED BY <1>10, <1>13, <1>15, <1>16 DEF FileRead

\* A file is read, line after line.
LEMMA FileIsRead ==
    ASSUME NEW L, NEW lines, IsFile(lines, L), NEW path, PathsUpTo(path, lines, L),
           NEW texts, Len(texts) = L, \A n \in 1 .. L : LineReadAs(texts[n], lines[n])
    PROVE  \E state : FileRead(state, lines, path, L, L) /\ LoadFromFile(texts) = state.tree
<1> DEFINE Is(f) == f = [n \in 0 .. Len(texts) |-> IF n = 0 THEN Root ELSE LoadLine(f[n - 1], texts[n])]
           loaded == CHOOSE f : Is(f)
<1>1. L \in Nat /\ DOMAIN lines = 1 .. L
  BY DEF IsFile
<1>2. \E f : Is(f)
  <2> DEFINE Upto(f, n) == \A m \in 0 .. n : f[m] = IF m = 0 THEN Root ELSE LoadLine(f[m - 1], texts[m])
             T == {n \in 0 .. L : \E f : Upto(f, n)}
  <2>1. 0 \in T
    <3>1. PICK f : f = [n \in 0 .. 0 |-> Root]
      OBVIOUS
    <3>2. Upto(f, 0)
      BY <3>1
    <3> QED BY <1>1, <3>2
  <2>2. ASSUME NEW n \in 1 .. L, n - 1 \in T PROVE n \in T
    <3>1. PICK f : Upto(f, n - 1)
      BY <2>2
    <3>2. PICK g : g = [m \in 0 .. n |-> IF m = n THEN LoadLine(f[n - 1], texts[n]) ELSE f[m]]
      OBVIOUS
    <3>3. ASSUME NEW m \in 0 .. n PROVE g[m] = IF m = 0 THEN Root ELSE LoadLine(g[m - 1], texts[m])
      <4>1. CASE m = n
        <5>1. n \in 0 .. n /\ n # 0 /\ n - 1 \in 0 .. n /\ n - 1 # n
          BY <1>1
        <5>2. g[n] = LoadLine(f[n - 1], texts[n]) /\ g[n - 1] = f[n - 1]
          BY <3>2, <5>1
        <5> QED BY <4>1, <5>1, <5>2
      <4>2. CASE m # n
        <5>1. m \in 0 .. n - 1
          BY <1>1, <4>2
        <5>2. g[m] = f[m]
          BY <3>2, <4>2
        <5>3. m # 0 => m - 1 \in 0 .. n /\ m - 1 # n
          BY <1>1, <4>2
        <5>4. m # 0 => g[m - 1] = f[m - 1]
          BY <3>2, <5>3
        <5>5. f[m] = IF m = 0 THEN Root ELSE LoadLine(f[m - 1], texts[m])
          BY <3>1, <5>1
        <5> QED BY <5>2, <5>4, <5>5
      <4> QED BY <4>1, <4>2
    <3>4. Upto(g, n)
      BY <3>3
    <3>5. n \in 0 .. L
      BY <1>1
    <3> HIDE DEF Upto
    <3> QED BY <3>4, <3>5
  <2>3. 0 .. L \subseteq T
    <3> HIDE DEF T
    <3> QED BY <1>1, <2>1, <2>2, UpToSet
  <2>4. PICK f : Upto(f, L)
    <3> HIDE DEF Upto
    <3>1. L \in T
      BY <1>1, <2>3
    <3> QED BY <3>1
  <2>5. PICK g : g = [n \in 0 .. L |-> f[n]]
    OBVIOUS
  <2>6. ASSUME NEW n \in 0 .. L PROVE g[n] = IF n = 0 THEN Root ELSE LoadLine(g[n - 1], texts[n])
    <3>1. n # 0 => n - 1 \in 0 .. L
      BY <1>1
    <3>2. g[n] = f[n] /\ (n # 0 => g[n - 1] = f[n - 1])
      BY <2>5, <3>1
    <3> QED BY <2>4, <3>2
  <2>7. Is(g)
    <3>1. g = [n \in 0 .. L |-> g[n]]
      BY <2>5
    <3> QED BY <2>6, <3>1
  <2> HIDE DEF Is
  <2> QED BY <2>7
<1>3. Is(loaded)
  <2> HIDE DEF Is
  <2> QED BY <1>2
<1>4. LoadFromFile(texts) = loaded[L].tree
  BY DEF LoadFromFile
<1> HIDE DEF loaded
<1>5. loaded[0] = Root /\ \A n \in 1 .. L : loaded[n] = LoadLine(loaded[n - 1], texts[n])
  <2>1. 0 \in 0 .. L /\ \A n \in 1 .. L : n \in 0 .. L /\ n # 0
    BY <1>1
  <2> QED BY <1>3, <2>1
<1> HIDE DEF Is
<1> DEFINE T == {n \in 0 .. L : FileRead(loaded[n], lines, path, n, L)}
<1>6. 0 \in T
  <2>1. path[0] = <<>>
    BY DEF PathsUpTo
  <2> QED BY <1>1, <1>5, <2>1, RootRead
<1>7. ASSUME NEW n \in 1 .. L, n - 1 \in T PROVE n \in T
  <2>1. PICK state : state = loaded[n - 1]
    OBVIOUS
  <2>2. FileRead(state, lines, path, n - 1, L) /\ loaded[n] = LoadLine(state, texts[n])
    BY <1>5, <1>7, <2>1
  <2>3. PICK w : w = texts[n] /\ LineReadAs(w, lines[n])
    OBVIOUS
  <2>4. n \in 0 .. L
    BY <1>1
  <2>5. CASE n \in Settings(lines)
    <3>1. FileRead(LoadLine(state, w), lines, path, n, L)
      BY <2>2, <2>3, <2>5, EntryRead
    <3> QED BY <2>2, <2>3, <2>4, <3>1
  <2>6. CASE n \notin Settings(lines)
    <3>1. lines[n].form = "remark"
      BY <1>1, <2>6 DEF Settings
    <3>2. LoadLine(state, w) = state
      BY <2>3, <3>1 DEF LineReadAs, LoadLine
    <3>3. FileRead(state, lines, path, n, L)
      BY <2>2, <2>6, RemarkRead
    <3> QED BY <2>2, <2>3, <2>4, <3>2, <3>3
  <2> QED BY <2>5, <2>6
<1>8. 0 .. L \subseteq T
  <2> HIDE DEF T
  <2> QED BY <1>1, <1>6, <1>7, UpToSet
<1>9. FileRead(loaded[L], lines, path, L, L)
  BY <1>1, <1>8
<1> QED BY <1>4, <1>9

\* A quotation of text that holds no double quote and no backslash.
LEMMA QuotationIsWhole ==
    ASSUME NEW v \in Seq(Glyphs), \A i \in 1 .. Len(v) : v[i] \notin {DoubleQuote, Backslash},
           NEW mark, mark # DoubleQuote
    PROVE  Whole(Quote(v), mark)
<1>1. DoubleQuote \in Glyphs
  BY RemarkGlyphs DEF Signs
<1>2. PICK dq : dq = <<DoubleQuote>>
  OBVIOUS
<1>3. dq \in Seq(Glyphs)
  BY <1>1, <1>2
<1>4. PICK begun \in Seq(Glyphs) : begun = Behind(dq, v)
  BY <1>3, BehindType
<1>5. Quote(v) = Behind(begun, dq)
  BY <1>2, <1>4 DEF Quote, Behind
<1>6. Behind(begun, dq) \in Seq(Glyphs)
  BY <1>3, BehindType
<1>7. Even(v, "double", mark)
  <2> SUFFICES ASSUME NEW i \in 1 .. Len(v) PROVE AfterChar("double", v[i]) = "double"
    BY DEF Even
  <2> QED BY DEF AfterChar
<1>8. AfterChar("none", DoubleQuote) = "double"
  BY SignsDiffer DEF AfterChar
<1>9. AfterChar("double", DoubleQuote) = "none"
  BY SignsDiffer DEF AfterChar
<1>10. ASSUME NEW done, NEW open \in Seq(Glyphs)
       PROVE  Reads(mark, Behind(begun, dq), Having(done, open, "none"),
                    Having(done, Behind(open, Behind(begun, dq)), "none"))
  <2>1. PICK one \in Seq(Glyphs) : one = Append(open, DoubleQuote)
    BY <1>1, AppendType
  <2>2. PICK two \in Seq(Glyphs) : two = Behind(one, v)
    BY BehindType
  <2>3. PICK three \in Seq(Glyphs) : three = Append(two, DoubleQuote)
    BY <1>1, AppendType
  <2>4. PICK A, B, C, D : /\ A = Having(done, open, "none") /\ B = Having(done, one, "double")
                          /\ C = Having(done, two, "double") /\ D = Having(done, three, "none")
    OBVIOUS
  <2>5. ReadChar(A, DoubleQuote, mark) = B
    BY <1>8, <2>1, <2>4 DEF ReadChar, Having
  <2>6. ReadChar(C, DoubleQuote, mark) = D
    BY <1>9, <2>3, <2>4 DEF ReadChar, Having
  <2>7. Reads(mark, dq, A, B) /\ Reads(mark, dq, C, D)
    BY <1>2, <2>5, <2>6, ReadsOne
  <2>8. Reads(mark, v, B, C)
    <3>1. PICK quote : quote = "double"
      OBVIOUS
    <3>2. Reads(mark, v, Having(done, one, quote), Having(done, Behind(one, v), quote))
      BY <1>7, <3>1, EvenReads
    <3> QED BY <2>2, <2>4, <3>1, <3>2
  <2>9. Reads(mark, begun, A, C)
    BY <1>3, <1>4, <2>7, <2>8, ReadsBehind
  <2>10. Reads(mark, Behind(begun, dq), A, D)
    BY <1>3, <2>7, <2>9, ReadsBehind
  <2>11. three = Behind(open, Behind(begun, dq))
    <3>1. one = Behind(open, dq) /\ three = Behind(two, dq)
      BY <1>1, <1>2, <2>1, <2>3, BehindOne
    <3>2. two = Behind(open, begun)
      BY <1>3, <1>4, <2>2, <3>1, BehindAssociates
    <3> QED BY <1>3, <3>1, <3>2, BehindAssociates
  <2> QED BY <2>4, <2>10, <2>11
<1> QED BY <1>5, <1>6, <1>10 DEF Whole

\* A quotation is written with them too.
LEMMA QuoteParts ==
    ASSUME NEW v \in Seq(Glyphs)
    PROVE  /\ Quote(v) \in Seq(Glyphs) /\ Len(Quote(v)) = Len(v) + 2 /\ Len(v) \in Nat
           /\ Quote(v)[1] = DoubleQuote /\ Quote(v)[Len(v) + 2] = DoubleQuote
           /\ \A i \in 1 .. Len(v) : Quote(v)[1 + i] = v[i]
<1>1. DoubleQuote \in Glyphs
  BY RemarkGlyphs DEF Signs
<1>2. PICK dq \in Seq(Glyphs) : dq = <<DoubleQuote>> /\ Len(dq) = 1 /\ dq[1] = DoubleQuote
  <2>1. PICK c \in Glyphs : c = DoubleQuote
    BY <1>1
  <2>2. <<c>> \in Seq(Glyphs) /\ Len(<<c>>) = 1 /\ <<c>>[1] = c
    OBVIOUS
  <2> QED BY <2>1, <2>2
<1> dq \in Seq(Glyphs)
  BY <1>2
<1>3. PICK begun \in Seq(Glyphs) : begun = Behind(dq, v)
  BY BehindType
<1> begun \in Seq(Glyphs)
  BY <1>3
<1>4. PICK q \in Seq(Glyphs) : q = Behind(begun, dq)
  BY BehindType
<1>5. Quote(v) = q
  BY <1>2, <1>3, <1>4 DEF Quote, Behind
<1>6. /\ Len(begun) = 1 + Len(v) /\ Len(v) \in Nat
      /\ \A i \in 1 .. 1 : begun[i] = dq[i]
      /\ \A i \in 1 .. Len(v) : begun[1 + i] = v[i]
  <2>1. /\ Len(begun) = Len(dq) + Len(v) /\ Len(v) \in Nat
        /\ \A i \in 1 .. Len(dq) : begun[i] = dq[i]
        /\ \A i \in 1 .. Len(v) : begun[Len(dq) + i] = v[i]
    <3>1. /\ Len(Behind(dq, v)) = Len(dq) + Len(v) /\ Len(v) \in Nat
          /\ \A i \in 1 .. Len(dq) : Behind(dq, v)[i] = dq[i]
          /\ \A i \in 1 .. Len(v) : Behind(dq, v)[Len(dq) + i] = v[i]
      <4>1. Together(Behind(dq, v), dq, v)
        BY BehindAt
      <4> QED BY <4>1 DEF Together
    <3> QED BY <1>3, <3>1
  <2> QED BY <1>2, <2>1
<1>7. /\ Len(q) = Len(begun) + 1
      /\ \A i \in 1 .. Len(begun) : q[i] = begun[i]
      /\ \A i \in 1 .. 1 : q[Len(begun) + i] = dq[i]
  <2>1. /\ Len(q) = Len(begun) + Len(dq)
        /\ \A i \in 1 .. Len(begun) : q[i] = begun[i]
        /\ \A i \in 1 .. Len(dq) : q[Len(begun) + i] = dq[i]
    <3>1. /\ Len(Behind(begun, dq)) = Len(begun) + Len(dq)
          /\ \A i \in 1 .. Len(begun) : Behind(begun, dq)[i] = begun[i]
          /\ \A i \in 1 .. Len(dq) : Behind(begun, dq)[Len(begun) + i] = dq[i]
      <4>1. Together(Behind(begun, dq), begun, dq)
        BY BehindAt
      <4> QED BY <4>1 DEF Together
    <3> QED BY <1>4, <3>1
  <2> QED BY <1>2, <2>1
<1>8. 1 \in 1 .. 1 /\ 1 \in 1 .. Len(begun) /\ Len(begun) + 1 = Len(v) + 2
      /\ \A i \in 1 .. Len(v) : 1 + i \in 1 .. Len(begun)
  BY <1>6
<1>9. q[1] = DoubleQuote /\ q[Len(v) + 2] = DoubleQuote
  BY <1>2, <1>6, <1>7, <1>8
<1>10. \A i \in 1 .. Len(v) : q[1 + i] = v[i]
  BY <1>6, <1>7, <1>8
<1> QED BY <1>5, <1>6, <1>7, <1>8, <1>9, <1>10

\* A list without elements.
LEMMA ElementsNone == Elements(<<>>) = <<>>
<1>1. DOMAIN <<>> = {}
  OBVIOUS
<1>2. [i \in DOMAIN <<>> |-> (IF i = 1 THEN <<>> ELSE <<ElementEnd, White>>) \o Spell(<<>>[i])] = <<>>
  BY <1>1
<1> QED BY <1>2, FlattenNone DEF Elements

\* One element more.
LEMMA ElementsAppend ==
    ASSUME NEW V, \A u \in V : Spell(u) \in Seq(Glyphs), NEW vs \in Seq(V), NEW v \in V
    PROVE  Elements(Append(vs, v)) = Behind(Elements(vs), Behind(Apart(vs), Spell(v)))
<1> DEFINE Item(w, i) == (IF i = 1 THEN <<>> ELSE <<ElementEnd, White>>) \o Spell(w[i])
           Items(w) == [i \in DOMAIN w |-> Item(w, i)]
<1>1. PICK L : L = Len(vs) /\ L \in Nat /\ DOMAIN vs = 1 .. L
  BY LenProperties
<1>2. PICK more \in Seq(V) : more = Append(vs, v)
  BY AppendType
<1>3. /\ Len(more) = L + 1 /\ DOMAIN more = 1 .. L + 1
      /\ \A i \in 1 .. L : more[i] = vs[i]
      /\ more[L + 1] = v
  BY <1>1, <1>2, AppendProperties, LenProperties
<1>4. <<>> \in Seq(Glyphs) /\ <<ElementEnd, White>> \in Seq(Glyphs)
  <2>1. ElementEnd \in Glyphs /\ White \in Glyphs
    BY RemarkGlyphs DEF Signs
  <2> QED BY <2>1
<1>5. ASSUME NEW u \in V, NEW i
      PROVE  (IF i = 1 THEN <<>> ELSE <<ElementEnd, White>>) \o Spell(u) \in Seq(Glyphs)
  <2>1. PICK lead \in Seq(Glyphs) : lead = (IF i = 1 THEN <<>> ELSE <<ElementEnd, White>>)
    BY <1>4
  <2>2. PICK q \in Seq(Glyphs) : q = Spell(u)
    OBVIOUS
  <2>3. lead \o q \in Seq(Glyphs)
    OBVIOUS
  <2> QED BY <2>1, <2>2, <2>3
<1>6. \A i \in 1 .. L : vs[i] \in V
  BY <1>1, ElementOfSeq
<1>7. PICK pieces \in Seq(Seq(Glyphs)) : pieces = Items(vs) /\ Len(pieces) = L
  <2>1. \A i \in 1 .. L : Item(vs, i) \in Seq(Glyphs)
    BY <1>5, <1>6
  <2> HIDE DEF Item
  <2>2. Items(vs) \in [1 .. L -> Seq(Glyphs)]
    BY <1>1, <2>1
  <2> HIDE DEF Items
  <2>3. PICK pieces, G : pieces = Items(vs) /\ G = Seq(Glyphs)
    OBVIOUS
  <2>4. pieces \in [1 .. L -> G]
    BY <2>2, <2>3
  <2>5. pieces \in Seq(G) /\ Len(pieces) = L
    BY <1>1, <2>4, ListIsSeq
  <2> QED BY <2>3, <2>5
<1>8. PICK piece \in Seq(Glyphs) : piece = Item(more, L + 1)
  BY <1>3, <1>5
<1>9. piece = Behind(Apart(vs), Spell(v))
  <2>1. L + 1 = 1 <=> vs = <<>>
    BY <1>1, EmptySeq
  <2> QED BY <1>3, <1>8, <2>1 DEF Apart, Behind
<1>10. Items(more) = Append(pieces, piece)
  <2>1. \A i \in 1 .. L : Item(more, i) = Item(vs, i)
    BY <1>3
  <2>2. \A i \in 1 .. L : pieces[i] = Item(vs, i)
    BY <1>1, <1>7
  <2> HIDE DEF Item
  <2>3. PICK q \in Seq(Seq(Glyphs)) : q = Append(pieces, piece)
    BY AppendType
  <2>4. /\ Len(q) = L + 1 /\ \A i \in 1 .. L : q[i] = pieces[i]
        /\ q[L + 1] = piece
    BY <1>7, <2>3, AppendProperties
  <2>5. \A i \in 1 .. L + 1 : q[i] = Item(more, i)
    <3>1. \A i \in 1 .. L + 1 : i = L + 1 \/ i \in 1 .. L
      BY <1>1
    <3> QED BY <1>8, <2>1, <2>2, <2>4, <3>1
  <2>6. q = [i \in 1 .. L + 1 |-> q[i]]
    BY <2>4
  <2>7. Items(more) = [i \in 1 .. L + 1 |-> Item(more, i)]
    BY <1>3
  <2> QED BY <2>3, <2>5, <2>6, <2>7
<1>11. Elements(more) = FlattenSeq(Items(more)) /\ Elements(vs) = FlattenSeq(pieces)
  BY <1>7 DEF Elements
<1> HIDE DEF Items, Item
<1>12. FlattenSeq(Append(pieces, piece)) = Behind(FlattenSeq(pieces), piece)
  BY FlattenAppend
<1> QED BY <1>2, <1>9, <1>10, <1>11, <1>12

\* A quotation is read as the text it holds.
LEMMA ScalarOfQuote ==
    ASSUME NEW v \in Seq(Glyphs)
    PROVE  Scalar(Quote(v)) = ScalarNode(v)
<1>1. PICK q \in Seq(Glyphs) : /\ q = Quote(v) /\ Len(q) = Len(v) + 2 /\ Len(v) \in Nat
                               /\ q[1] = DoubleQuote /\ q[Len(v) + 2] = DoubleQuote
                               /\ \A i \in 1 .. Len(v) : q[1 + i] = v[i]
  BY QuoteParts
<1>2. Enclosed(q, DoubleQuote, DoubleQuote)
  BY <1>1 DEF Enclosed
<1>3. Inner(q) = v
  <2>1. PICK a, b : a = 2 /\ b = Len(q) - 1
    OBVIOUS
  <2>2. a \in Int /\ b \in Int /\ b - a + 1 = Len(v) /\ a - 1 = 1 /\ (a <= b <=> Len(v) > 0)
        /\ \A i \in a .. b : i \in 1 .. Len(q)
    BY <1>1, <2>1
  <2>3. \A i \in a .. b : q[i] \in Glyphs
    BY <2>2, ElementOfSeq
  <2>4. /\ SubSeq(q, a, b) \in Seq(Glyphs) /\ Len(SubSeq(q, a, b)) = (IF a <= b THEN b - a + 1 ELSE 0)
        /\ \A i \in 1 .. b - a + 1 : SubSeq(q, a, b)[i] = q[a + i - 1]
    BY <2>2, <2>3, SubSeqProperties
  <2>5. PICK inner \in Seq(Glyphs) : inner = SubSeq(q, a, b)
    BY <2>4
  <2>6. Len(inner) = Len(v)
    BY <1>1, <2>2, <2>4, <2>5
  <2>7. \A i \in 1 .. Len(v) : inner[i] = v[i]
    <3> SUFFICES ASSUME NEW i \in 1 .. Len(v) PROVE inner[i] = v[i]
      OBVIOUS
    <3>1. a + i - 1 = 1 + i
      BY <1>1, <2>1
    <3> QED BY <1>1, <2>2, <2>4, <2>5, <3>1
  <2>8. inner = v
    BY <2>6, <2>7, SeqEqual
  <2> QED BY <2>1, <2>5, <2>8 DEF Inner
<1>4. UnquoteIfNeeded(q) = v
  BY <1>2, <1>3 DEF UnquoteIfNeeded
<1> QED BY <1>1, <1>4 DEF Scalar, ScalarNode

\* How a value is written: no blank at its ends, nothing that begins a comment or a list, and
\* read as what its text says.
SpeltAs(q, v) ==
    /\ q \in Seq(Glyphs) /\ q # <<>> /\ Tight(q) /\ Whole(q, Hash) /\ q[1] # ListBegin
    /\ Scalar(q) = ScalarNode(v.text)

\* It is.
LEMMA SpellIs ==
    ASSUME NEW v, NEW signs, Outside \subseteq signs, Fit(v, signs)
    PROVE  SpeltAs(Spell(v), v) /\ (ElementEnd \in signs => Whole(Spell(v), ElementEnd))
<1>1. PICK text \in Seq(Glyphs) : text = v.text
  BY DEF Fit
<1>2. PICK L : L = Len(text) /\ L \in Nat
  BY LenProperties
<1>3. CASE v.quoted
  <2>1. Spell(v) = Quote(text)
    BY <1>1, <1>3 DEF Spell
  <2>2. \A i \in 1 .. Len(text) : text[i] \notin {DoubleQuote, Backslash}
    BY <1>1, <1>3 DEF Fit
  <2>3. PICK q \in Seq(Glyphs) : /\ q = Quote(text) /\ Len(q) = Len(text) + 2 /\ Len(text) \in Nat
                                 /\ q[1] = DoubleQuote /\ q[Len(text) + 2] = DoubleQuote
    BY QuoteParts
  <2>4. Tight(q) /\ q # <<>> /\ q[1] # ListBegin
    BY <2>3, SignsDiffer, EmptySeq DEF Tight
  <2>5. Whole(q, Hash) /\ Whole(q, ElementEnd)
    BY <2>2, <2>3, SignsDiffer, QuotationIsWhole
  <2>6. Scalar(q) = ScalarNode(text)
    BY <2>3, ScalarOfQuote
  <2> QED BY <1>1, <2>1, <2>3, <2>4, <2>5, <2>6 DEF SpeltAs
<1>4. CASE ~v.quoted
  <2>1. Spell(v) = text
    BY <1>1, <1>4 DEF Spell
  <2>2. /\ text # <<>> /\ Tight(text) /\ text[1] # ListBegin
        /\ \A i \in 1 .. Len(text) : text[i] \notin signs
    BY <1>1, <1>4 DEF Fit
  <2>3. \A i \in 1 .. Len(text) : text[i] \notin {SingleQuote, DoubleQuote, Hash}
    BY <2>2 DEF Outside
  <2>4. Whole(text, Hash)
    BY <2>3, PlainIsWhole
  <2>5. ASSUME ElementEnd \in signs PROVE Whole(text, ElementEnd)
    <3>1. \A i \in 1 .. Len(text) : text[i] \notin {SingleQuote, DoubleQuote, ElementEnd}
      BY <2>2, <2>3, <2>5
    <3> QED BY <3>1, PlainIsWhole
  <2>6. Scalar(text) = ScalarNode(text)
    <3>1. L >= 1 /\ 1 \in 1 .. Len(text)
      BY <1>2, <2>2, EmptySeq
    <3>2. text[1] # DoubleQuote /\ text[1] # SingleQuote
      BY <2>3, <3>1
    <3>3. UnquoteIfNeeded(text) = text
      BY <3>2 DEF UnquoteIfNeeded, Enclosed
    <3> QED BY <3>3 DEF Scalar, ScalarNode
  <2> QED BY <1>1, <2>1, <2>2, <2>4, <2>5, <2>6 DEF SpeltAs
<1> QED BY <1>3, <1>4 DEF Fit

\* Nothing in a list is the beginning of a comment.
LEMMA ElementsWhole ==
    ASSUME NEW V, \A u \in V : Fit(u, InList), NEW vs \in Seq(V)
    PROVE  Whole(Elements(vs), Hash)
<1> DEFINE T == {w \in Seq(V) : Whole(Elements(w), Hash)}
<1>1. <<>> \in T
  <2>1. <<>> \in Seq(Glyphs) /\ <<>> \in Seq(V) /\ Len(<<>>) = 0
    BY EmptySeq
  <2>2. \A i \in 1 .. Len(<<>>) : FALSE
    BY <2>1
  <2>3. PICK none \in Seq(Glyphs) : none = <<>>
    BY <2>1
  <2>4. Whole(none, Hash)
    BY <2>2, <2>3, PlainIsWhole
  <2> QED BY <2>1, <2>3, <2>4, ElementsNone
<1>2. ASSUME NEW w \in Seq(V), NEW v \in V, w \in T PROVE Append(w, v) \in T
  <2>1. Spell(v) \in Seq(Glyphs) /\ Whole(Spell(v), Hash) /\ Whole(Spell(v), ElementEnd)
    BY SpellIs DEF InList, SpeltAs
  <2>0. \A u \in V : Spell(u) \in Seq(Glyphs)
    BY SpellIs DEF InList, SpeltAs
  <2>2. Append(w, v) \in Seq(V)
    BY AppendType
  <2>3. Whole(Spell(v), Hash)
    BY <2>1
  <2>4. Whole(Apart(w), Hash)
    <3>1. PICK s \in Seq(Glyphs) : s = Apart(w)
      BY ApartType
    <3>2. \A i \in 1 .. Len(s) : s[i] \in {ElementEnd, White}
      BY <3>1 DEF Apart
    <3>3. \A i \in 1 .. Len(s) : s[i] \notin {SingleQuote, DoubleQuote, Hash}
      BY <3>2, SignsDiffer
    <3> QED BY <3>1, <3>3, PlainIsWhole
  <2>5. Whole(Behind(Elements(w), Behind(Apart(w), Spell(v))), Hash)
    BY <1>2, <2>3, <2>4, WholeBehind
  <2> QED BY <2>0, <2>1, <2>2, <2>5, ElementsAppend
<1>3. Seq(V) \subseteq T
  <2> HIDE DEF T
  <2> QED BY <1>1, <1>2, SeqSet
<1> QED BY <1>3

\* The part is what the value is written with, perhaps behind a blank.
Lined(part, v) == \E before \in Nat : Padded(part, Spell(v), before, 0)

\* What has been read of a list.
ListRead(done, open, vs) ==
    /\ done \in Seq(Seq(Glyphs)) /\ open \in Seq(Glyphs)
    /\ Reads(ElementEnd, Elements(vs), NothingRead, Having(done, open, "none"))
    /\ vs = <<>> => done = <<>> /\ open = <<>>
    /\ vs # <<>> => /\ Len(done) + 1 = Len(vs) /\ Lined(open, vs[Len(vs)])
                    /\ \A i \in 1 .. Len(done) : Lined(done[i], vs[i])

\* It can be read element by element.
LEMMA ElementsRead ==
    ASSUME NEW V, \A u \in V : Fit(u, InList), NEW vs \in Seq(V)
    PROVE  \E done, open : ListRead(done, open, vs)
<1> DEFINE T == {w \in Seq(V) : \E done, open : ListRead(done, open, w)}
<1>1. <<>> \in T
  <2>1. <<>> \in Seq(Seq(Glyphs)) /\ <<>> \in Seq(Glyphs) /\ <<>> \in Seq(V)
    BY EmptySeq
  <2>2. NothingRead = Having(<<>>, <<>>, "none")
    BY DEF NothingRead, Having
  <2>3. Reads(ElementEnd, <<>>, NothingRead, NothingRead)
    BY ReadsNone
  <2>4. PICK none : none = <<>>
    OBVIOUS
  <2>5. ListRead(none, none, none)
    BY <2>1, <2>2, <2>3, <2>4, ElementsNone DEF ListRead
  <2> QED BY <2>1, <2>4, <2>5
<1>2. ASSUME NEW w \in Seq(V), NEW v \in V, w \in T PROVE Append(w, v) \in T
  <2>1. Spell(v) \in Seq(Glyphs) /\ Whole(Spell(v), Hash) /\ Whole(Spell(v), ElementEnd)
    BY SpellIs DEF InList, SpeltAs
  <2>0. \A u \in V : Spell(u) \in Seq(Glyphs)
    BY SpellIs DEF InList, SpeltAs
  <2>2. PICK more \in Seq(V) : more = Append(w, v)
    BY AppendType
  <2>3. PICK L : L = Len(w) /\ L \in Nat
    BY LenProperties
  <2>4. /\ Len(more) = L + 1 /\ more # <<>> /\ more[L + 1] = v
        /\ \A i \in 1 .. L : more[i] = w[i]
    <3>1. Len(more) = L + 1 /\ more[L + 1] = v
      BY <2>2, <2>3, AppendProperties
    <3>2. \A i \in 1 .. L : more[i] = w[i]
      BY <2>2, <2>3, AppendProperties
    <3>3. more # <<>>
      BY <2>3, <3>1, EmptySeq
    <3> QED BY <3>1, <3>2, <3>3
  <2>5. PICK done, open : ListRead(done, open, w)
    BY <1>2
  <2>6. /\ done \in Seq(Seq(Glyphs)) /\ open \in Seq(Glyphs)
        /\ Reads(ElementEnd, Elements(w), NothingRead, Having(done, open, "none"))
    BY <2>5 DEF ListRead
  <2>7. PICK q \in Seq(Glyphs) : q = Spell(v) /\ Whole(q, ElementEnd)
    BY <2>1
  <2>8. PICK blank : /\ blank \in Seq(Glyphs) /\ blank = <<White>> /\ Len(blank) = 1
                     /\ Whole(blank, ElementEnd) /\ \A i \in 1 .. Len(blank) : blank[i] = White
    <3>1. PICK c \in Glyphs : c = White
      BY RemarkGlyphs DEF Signs
    <3>2. PICK s \in Seq(Glyphs) : s = <<c>> /\ Len(s) = 1 /\ s[1] = c
      <4>1. <<c>> \in Seq(Glyphs) /\ Len(<<c>>) = 1 /\ <<c>>[1] = c
        OBVIOUS
      <4> QED BY <4>1
    <3>3. \A i \in 1 .. Len(s) : s[i] = White
      BY <3>1, <3>2
    <3>4. \A i \in 1 .. Len(s) : s[i] \notin {SingleQuote, DoubleQuote, ElementEnd}
      BY <3>3, SignsDiffer
    <3>5. Whole(s, ElementEnd)
      BY <3>4, PlainIsWhole
    <3> QED BY <3>1, <3>2, <3>3, <3>5
  <2>9. Elements(more) = Behind(Elements(w), Behind(Apart(w), q))
    BY <2>0, <2>1, <2>2, <2>7, ElementsAppend
  <2>10. Elements(w) \in Seq(Glyphs)
    BY ElementsWhole DEF Whole
  <2>11. CASE w = <<>>
    <3>1. done = <<>> /\ open = <<>> /\ L = 0 /\ <<>> \in Seq(Glyphs)
      BY <2>3, <2>5, <2>11, EmptySeq DEF ListRead
    <3>2. Elements(more) = q
      <4>1. PICK none \in Seq(Glyphs) : none = <<>>
        BY <3>1
      <4>2. Behind(none, q) = q
        BY <4>1, BehindNone
      <4>3. Elements(more) = Behind(none, Behind(none, q))
        BY <2>9, <2>11, <4>1, ElementsNone DEF Apart
      <4> QED BY <4>2, <4>3
    <3>3. PICK none \in Seq(Glyphs) : none = <<>> /\ Len(none) = 0
      BY <3>1, EmptySeq
    <3>4. Reads(ElementEnd, q, Having(done, none, "none"), Having(done, Behind(none, q), "none"))
      BY <2>7 DEF Whole
    <3>5. Behind(none, q) = q
      BY <3>3, BehindNone
    <3>6. NothingRead = Having(done, none, "none")
      BY <3>1, <3>3 DEF NothingRead, Having
    <3>7. Reads(ElementEnd, Elements(more), NothingRead, Having(done, q, "none"))
      BY <3>2, <3>4, <3>5, <3>6
    <3>8. Lined(q, v)
      <4>1. \A i \in 1 .. Len(none) : none[i] = White
        BY <3>3
      <4>2. Padded(Behind(none, q), q, Len(none), 0)
        BY <4>1, BehindBlanks
      <4> QED BY <2>7, <3>3, <3>5, <4>2 DEF Lined
    <3>9. Len(done) = 0
      BY <3>1, EmptySeq
    <3>10. ListRead(done, q, more)
      BY <2>4, <2>6, <3>1, <3>7, <3>8, <3>9 DEF ListRead
    <3> QED BY <2>2, <3>10
  <2>12. CASE w # <<>>
    <3>1. Len(done) + 1 = L /\ Len(done) \in Nat /\ Lined(open, w[L]) /\ \A i \in 1 .. Len(done) : Lined(done[i], w[i])
      BY <2>3, <2>5, <2>12, LenProperties DEF ListRead
    <3>2. PICK rest \in Seq(Glyphs) : rest = Behind(blank, q)
      BY <2>7, <2>8, BehindType
    <3>3. PICK next \in Seq(Seq(Glyphs)) : next = Append(done, open)
      BY <2>6, AppendType
    <3>4. /\ Len(next) = L /\ next[L] = open
          /\ \A i \in 1 .. Len(done) : next[i] = done[i]
      <4>1. Len(next) = Len(done) + 1 /\ next[Len(done) + 1] = open
        BY <2>6, <3>3, AppendProperties
      <4>2. \A i \in 1 .. Len(done) : next[i] = done[i]
        BY <2>6, <3>3, AppendProperties
      <4> QED BY <3>1, <4>1, <4>2
    <3>5. PICK comma \in Seq(Glyphs) : comma = <<ElementEnd>>
      <4>1. PICK c \in Glyphs : c = ElementEnd
        BY RemarkGlyphs DEF Signs
      <4>2. <<c>> \in Seq(Glyphs)
        OBVIOUS
      <4> QED BY <4>1, <4>2
    <3>6. PICK none \in Seq(Glyphs) : none = <<>>
      BY EmptySeq
    <3>7. PICK A, B, C : A = Having(done, open, "none") /\ B = Having(next, none, "none") /\ C = Having(next, rest, "none")
      OBVIOUS
    <3>8. ReadChar(A, ElementEnd, ElementEnd) = B
      BY <3>3, <3>6, <3>7 DEF ReadChar, Having
    <3>9. Reads(ElementEnd, comma, A, B)
      BY <3>5, <3>8, ReadsOne
    <3>10. Reads(ElementEnd, rest, B, C)
      <4>1. Whole(rest, ElementEnd)
        BY <2>7, <2>8, <3>2, WholeBehind
      <4>2. Reads(ElementEnd, rest, B, Having(next, Behind(none, rest), "none"))
        BY <3>7, <4>1 DEF Whole
      <4>3. Behind(none, rest) = rest
        BY <3>6, BehindNone
      <4> QED BY <3>7, <4>2, <4>3
    <3>11. Reads(ElementEnd, Behind(comma, rest), A, C)
      BY <3>9, <3>10, ReadsBehind
    <3>12. Behind(comma, rest) = Behind(Apart(w), q)
      <4>1. Behind(comma, blank) = Apart(w)
        <5>1. PICK a \in Glyphs, b \in Glyphs : a = ElementEnd /\ b = White
          BY RemarkGlyphs DEF Signs
        <5>2. <<a>> \o <<b>> = <<a, b>>
          BY PairPut
        <5> QED BY <2>8, <2>12, <3>5, <5>1, <5>2 DEF Behind, Apart
      <4>2. Behind(Behind(comma, blank), q) = Behind(comma, rest)
        <5>1. blank \in Seq(Glyphs)
          BY <2>8
        <5>2. Behind(Behind(comma, blank), q) = Behind(comma, Behind(blank, q))
          BY <5>1, BehindAssociates
        <5> QED BY <3>2, <5>2
      <4> QED BY <4>1, <4>2
    <3>13. Behind(comma, rest) \in Seq(Glyphs)
      BY BehindType
    <3>14. Reads(ElementEnd, Elements(more), NothingRead, C)
      BY <2>6, <2>9, <2>10, <3>7, <3>11, <3>12, <3>13, ReadsBehind
    <3>15. Lined(rest, v)
      <4>1. Padded(rest, q, 1, 0)
        BY <2>7, <2>8, <3>2, BehindBlanks
      <4> QED BY <2>7, <4>1 DEF Lined
    <3>16. ASSUME NEW i \in 1 .. Len(next) PROVE Lined(next[i], more[i])
      <4>1. i \in 1 .. L
        BY <3>4
      <4>2. more[i] = w[i]
        BY <2>4, <4>1
      <4>3. CASE i = L
        BY <3>1, <3>4, <4>2, <4>3
      <4>4. CASE i # L
        <5>1. i \in 1 .. Len(done)
          BY <3>1, <4>1, <4>4
        <5> QED BY <3>1, <3>4, <4>2, <5>1
      <4> QED BY <4>3, <4>4
    <3>17. ListRead(next, rest, more)
      BY <2>4, <3>3, <3>2, <3>4, <3>7, <3>14, <3>15, <3>16 DEF ListRead
    <3> QED BY <2>2, <3>17
  <2> QED BY <2>11, <2>12
<1>3. Seq(V) \subseteq T
  <2> HIDE DEF T
  <2> QED BY <1>1, <1>2, SeqSet
<1> QED BY <1>3

\* What a value is written with is not trimmed.
LEMMA LinedTrims ==
    ASSUME NEW part, NEW v, Fit(v, InList), Lined(part, v)
    PROVE  Trim(part) = Spell(v) /\ Spell(v) # <<>>
<1>1. PICK before \in Nat : Padded(part, Spell(v), before, 0)
  BY DEF Lined
<1>2. PICK q \in Seq(Glyphs) : q = Spell(v) /\ Tight(q) /\ q # <<>>
  BY SpellIs DEF InList, SpeltAs
<1>3. PICK none : none = 0
  OBVIOUS
<1>4. Trim(part) = q
  BY <1>1, <1>2, <1>3, TrimIs
<1> QED BY <1>2, <1>4

\* The elements of a list are read one by one.
LEMMA SplitIs ==
    ASSUME NEW V, \A u \in V : Fit(u, InList), NEW vs \in Seq(V)
    PROVE  LET read == SplitArrayElements(Elements(vs))
           IN DOMAIN read = DOMAIN vs /\ \A i \in DOMAIN vs : read[i] = Spell(vs[i])
<1>1. PICK done, open : ListRead(done, open, vs)
  BY ElementsRead
<1>2. PICK L : L = Len(vs) /\ L \in Nat /\ DOMAIN vs = 1 .. L
  BY LenProperties
<1>3. PICK r : r = Having(done, open, "none") /\ r.done = done /\ r.open = open
  <2>1. PICK r : r = [done |-> done, open |-> open, quote |-> "none"]
    OBVIOUS
  <2>2. r.done = done /\ r.open = open
    BY <2>1
  <2> QED BY <2>1, <2>2 DEF Having
<1>4. done \in Seq(Seq(Glyphs)) /\ open \in Seq(Glyphs) /\ Reads(ElementEnd, Elements(vs), NothingRead, r)
  BY <1>1, <1>3 DEF ListRead
<1>5. Elements(vs) \in Seq(Glyphs)
  BY ElementsWhole DEF Whole
<1>6. PICK parts \in Seq(Seq(Glyphs)) : parts = Append(done, open)
  BY <1>4, AppendType
<1>7. PartsOutside(Elements(vs), ElementEnd) = parts
  BY <1>3, <1>4, <1>5, <1>6, PartsAre
<1>8. PICK trimmed : trimmed = [k \in DOMAIN parts |-> Trim(parts[k])]
  OBVIOUS
<1>9. SplitArrayElements(Elements(vs)) = Taken(trimmed, {k \in DOMAIN trimmed : trimmed[k] # <<>>})
  BY <1>7, <1>8 DEF SplitArrayElements
<1>10. /\ Len(parts) = Len(done) + 1 /\ Len(done) \in Nat /\ DOMAIN parts = 1 .. Len(parts)
       /\ parts[Len(done) + 1] = open
       /\ \A i \in 1 .. Len(done) : parts[i] = done[i]
  <2>1. Len(parts) = Len(done) + 1 /\ parts[Len(done) + 1] = open
    BY <1>4, <1>6, AppendProperties
  <2>2. \A i \in 1 .. Len(done) : parts[i] = done[i]
    BY <1>4, <1>6, AppendProperties
  <2>3. Len(done) \in Nat /\ DOMAIN parts = 1 .. Len(parts)
    BY <1>4, LenProperties
  <2> QED BY <2>1, <2>2, <2>3
<1>11. CASE vs = <<>>
  <2>1. done = <<>> /\ open = <<>> /\ L = 0
    BY <1>1, <1>2, <1>11, EmptySeq DEF ListRead
  <2>2. Len(done) = 0
    BY <2>1, EmptySeq
  <2>3. DOMAIN parts = {1} /\ parts[1] = <<>>
    BY <1>10, <2>1, <2>2
  <2>4. Trim(<<>>) = <<>>
    BY DEF Trim
  <2>5. trimmed = <<<<>>>>
    BY <1>8, <2>3, <2>4
  <2>6. {k \in DOMAIN trimmed : trimmed[k] # <<>>} = {}
    BY <1>8, <2>3, <2>4
  <2>7. Taken(<<<<>>>>, {}) = <<>>
    <3>1. PICK x \in {<<>>} : x = <<>>
      OBVIOUS
    <3>2. Taken(<<x>>, {}) = <<>>
      BY TakenNothing
    <3> QED BY <3>1, <3>2
  <2>8. SplitArrayElements(Elements(vs)) = <<>>
    BY <1>9, <2>5, <2>6, <2>7
  <2>9. DOMAIN <<>> = {} /\ DOMAIN vs = {}
    BY <1>2, <2>1
  <2> QED BY <2>8, <2>9
<1>12. CASE vs # <<>>
  <2>1. Len(done) + 1 = L /\ Lined(open, vs[L]) /\ \A i \in 1 .. Len(done) : Lined(done[i], vs[i])
    BY <1>1, <1>2, <1>12 DEF ListRead
  <2>2. ASSUME NEW i \in 1 .. L PROVE Lined(parts[i], vs[i])
    <3>1. CASE i = L
      BY <1>10, <2>1, <3>1
    <3>2. CASE i # L
      <4>1. i \in 1 .. Len(done)
        BY <1>10, <2>1, <3>2
      <4> QED BY <1>10, <2>1, <4>1
    <3> QED BY <3>1, <3>2
  <2>3. DOMAIN parts = 1 .. L
    BY <1>10, <2>1
  <2>4. ASSUME NEW i \in 1 .. L PROVE trimmed[i] = Spell(vs[i]) /\ trimmed[i] # <<>> /\ trimmed[i] \in Seq(Glyphs)
    <3>1. PICK v \in V : v = vs[i] /\ Fit(v, InList)
      BY <1>2, ElementOfSeq
    <3>2. Trim(parts[i]) = Spell(v) /\ Spell(v) # <<>> /\ Spell(v) \in Seq(Glyphs)
      BY <2>2, <3>1, LinedTrims, SpellIs DEF InList, SpeltAs
    <3> QED BY <1>8, <2>3, <3>1, <3>2
  <2>5. DOMAIN trimmed = 1 .. L /\ {k \in DOMAIN trimmed : trimmed[k] # <<>>} = DOMAIN trimmed
    BY <1>8, <2>3, <2>4
  <2>6. trimmed \in Seq(Seq(Glyphs))
    <3>1. trimmed \in [1 .. L -> Seq(Glyphs)]
      BY <1>8, <2>3, <2>4
    <3> QED BY <1>2, <3>1
  <2>7. Taken(trimmed, DOMAIN trimmed) = trimmed
    BY <2>6, TakenAll
  <2>8. SplitArrayElements(Elements(vs)) = trimmed
    BY <1>9, <2>5, <2>7
  <2> QED BY <1>2, <2>4, <2>5, <2>8
<1> QED BY <1>11, <1>12

\* The value of a line is written with what is neither a blank at its ends nor the beginning of
\* a comment, and is read as what the line says.
LEMMA ValueRead ==
    ASSUME NEW line, Given(line), line.form # "section",
           NEW value, value = ValueOf(line)
    PROVE  /\ value \in Seq(Glyphs) /\ value # <<>> /\ Tight(value) /\ Whole(value, Hash)
           /\ ParseValue(value) = NodeOf(line)
<1>1. CASE line.form = "scalar"
  <2>1. PICK v : v = line.value[1] /\ Fit(v, Outside)
    BY <1>1 DEF Given
  <2>2. value = Spell(v) /\ NodeOf(line) = ScalarNode(v.text)
    BY <1>1, <2>1 DEF ValueOf, NodeOf
  <2>3. SpeltAs(Spell(v), v)
    BY <2>1, SpellIs
  <2>4. PICK q \in Seq(Glyphs) : /\ q = Spell(v) /\ q # <<>> /\ Tight(q) /\ Whole(q, Hash) /\ q[1] # ListBegin
                                 /\ Scalar(q) = ScalarNode(v.text)
    BY <2>3 DEF SpeltAs
  <2>5. ParseValue(q) = Scalar(q)
    BY <2>4 DEF ParseValue, Enclosed
  <2> QED BY <2>2, <2>4, <2>5
<1>3. CASE line.form = "list"
  <2> PICK V : line.value \in Seq(V) /\ \A v \in V : Fit(v, InList)
    BY <1>3 DEF Given
  <2>1. PICK vs \in Seq(V) : vs = line.value
    OBVIOUS
  <2>2. PICK s \in Seq(Glyphs) : s = Elements(vs) /\ Whole(s, Hash)
    BY ElementsWhole DEF Whole
  <2>3. value = Bracketed(s)
    BY <1>3, <2>1, <2>2 DEF ValueOf, Bracketed
  <2>4. /\ value \in Seq(Glyphs) /\ Len(value) = Len(s) + 2 /\ Len(s) \in Nat
        /\ value[1] = ListBegin /\ value[Len(s) + 2] = ListEnd /\ Inner(value) = s
    BY <2>3, BracketsAround
  <2>5. PICK a, b : /\ a \in Seq(Glyphs) /\ b \in Seq(Glyphs) /\ a = <<ListBegin>> /\ b = <<ListEnd>>
                    /\ Len(a) = 1 /\ Len(b) = 1 /\ value = Behind(Behind(a, s), b)
    BY <2>3, BracketsAround
  <2>6. Whole(a, Hash) /\ Whole(b, Hash)
    <3>1. a[1] = ListBegin /\ b[1] = ListEnd
      BY <2>5
    <3>2. \A i \in 1 .. Len(a) : a[i] \notin {SingleQuote, DoubleQuote, Hash}
      BY <2>5, <3>1, SignsDiffer
    <3>3. \A i \in 1 .. Len(b) : b[i] \notin {SingleQuote, DoubleQuote, Hash}
      BY <2>5, <3>1, SignsDiffer
    <3>4. a \in Seq(Glyphs) /\ b \in Seq(Glyphs)
      BY <2>5
    <3> QED BY <3>2, <3>3, <3>4, PlainIsWhole
  <2>7. Whole(value, Hash)
    <3>1. Whole(Behind(a, s), Hash)
      BY <2>2, <2>6, WholeBehind
    <3>2. Whole(Behind(Behind(a, s), b), Hash)
      BY <2>6, <3>1, WholeBehind
    <3> QED BY <2>5, <3>2
  <2>8. Tight(value) /\ value # <<>>
    BY <2>4, SignsDiffer, EmptySeq DEF Tight
  <2>9. Enclosed(value, ListBegin, ListEnd)
    BY <2>4 DEF Enclosed
  <2>10. PICK read : /\ read = SplitArrayElements(s) /\ DOMAIN read = DOMAIN vs
                     /\ \A i \in DOMAIN vs : read[i] = Spell(vs[i])
    BY <2>2, SplitIs
  <2>11. ParseValue(value) = Node("Array", <<>>, Zero, [i \in DOMAIN vs |-> Scalar(read[i])])
    BY <2>4, <2>9, <2>10 DEF ParseValue
  <2>12. ASSUME NEW i \in DOMAIN vs PROVE Scalar(read[i]) = ScalarNode(vs[i].text)
    <3>1. i \in 1 .. Len(vs)
      BY LenProperties
    <3>2. PICK v \in V : v = vs[i]
      BY <3>1, ElementOfSeq
    <3>3. Scalar(Spell(v)) = ScalarNode(v.text)
      BY SpellIs DEF InList, SpeltAs
    <3> QED BY <2>10, <3>2, <3>3
  <2>13. [i \in DOMAIN vs |-> Scalar(read[i])] = [i \in DOMAIN vs |-> ScalarNode(vs[i].text)]
    BY <2>12
  <2>14. NodeOf(line) = Node("Array", <<>>, Zero, [i \in DOMAIN vs |-> ScalarNode(vs[i].text)])
    BY <1>3, <2>1 DEF NodeOf
  <2>15. ParseValue(value) = NodeOf(line)
    BY <2>11, <2>13, <2>14
  <2> QED BY <2>4, <2>7, <2>8, <2>15
<1> QED BY <1>1, <1>3 DEF Given

\* A comment ends what is read of a line.
LEMMA CommentRead ==
    ASSUME NEW line, line.comment \in BOOLEAN, NEW s, Whole(s, Hash)
    PROVE  \E tail : Blanks(tail) /\ Head(PartsOutside(Behind(s, Comment(line)), Hash)) = Behind(s, tail)
<1>1. s \in Seq(Glyphs) /\ <<>> \in Seq(Glyphs)
  BY EmptySeq DEF Whole
<1>2. PICK none \in Seq(Glyphs) : none = <<>> /\ Blanks(none)
  BY FewBlanks
<1>3. PICK blank \in Seq(Glyphs) : blank = <<White>> /\ Blanks(blank)
  BY FewBlanks
<1>4. PICK A : A = Having(none, s, "none")
  OBVIOUS
<1>5. Reads(Hash, s, NothingRead, A)
  <2>1. NothingRead = Having(none, none, "none")
    BY <1>2 DEF NothingRead, Having
  <2>2. Reads(Hash, s, Having(none, none, "none"), Having(none, Behind(none, s), "none"))
    BY DEF Whole
  <2>3. Behind(none, s) = s
    BY <1>1, <1>2, BehindNone
  <2> QED BY <1>4, <2>1, <2>2, <2>3
<1>6. A.done = none /\ A.open = s /\ A.quote = "none"
  BY <1>4 DEF Having
<1>7. CASE ~line.comment
  <2>1. Comment(line) = none
    BY <1>2, <1>7 DEF Comment
  <2>2. Behind(s, none) = s
    BY <1>1, <1>2, BehindNone
  <2>3. PartsOutside(s, Hash) = Append(none, s)
    BY <1>1, <1>5, <1>6, PartsAre
  <2>4. Head(Append(none, s)) = s
    BY <1>2
  <2> QED BY <1>2, <2>1, <2>2, <2>3, <2>4
<1>8. CASE line.comment
  <2>1. PICK x : x = "x"
    OBVIOUS
  <2>2. Hash # White /\ x # Hash /\ KeyEnd # Hash /\ SingleQuote # Hash
    <3>1. x # Hash
      BY <2>1, Zenon DEF Hash
    <3> QED BY <3>1, SignsDiffer
  <2>3. PICK a \in Glyphs, b \in Glyphs, c \in Glyphs, d \in Glyphs, e \in Glyphs :
            a = White /\ b = Hash /\ c = x /\ d = KeyEnd /\ e = SingleQuote
    BY <2>1, RemarkGlyphs DEF Signs
  <2>4. PICK t \in Seq(Glyphs) : /\ t = Comment(line) /\ Len(t) = 5
                                 /\ t[1] = a /\ t[2] = b /\ t[3] = c /\ t[4] = d /\ t[5] = e
    <3>1. <<a, b, c, d, e>> \in Seq(Glyphs)
      OBVIOUS
    <3>2. /\ Len(<<a, b, c, d, e>>) = 5 /\ <<a, b, c, d, e>>[1] = a /\ <<a, b, c, d, e>>[2] = b
          /\ <<a, b, c, d, e>>[3] = c /\ <<a, b, c, d, e>>[4] = d /\ <<a, b, c, d, e>>[5] = e
      OBVIOUS
    <3>3. Comment(line) = <<a, b, c, d, e>>
      BY <1>8, <2>1, <2>3 DEF Comment
    <3> QED BY <3>1, <3>2, <3>3
  <2>5. PICK sb \in Seq(Glyphs) : sb = Append(s, a)
    BY <1>1, AppendType
  <2>6. PICK B : B = ReadChar(A, a, Hash)
    OBVIOUS
  <2>7. B.done = none /\ B.open = sb /\ B.quote = "none"
    <3>1. AfterChar("none", a) = "none"
      BY <2>3, SignsDiffer DEF AfterChar
    <3>2. B = [done |-> none, open |-> sb, quote |-> "none"]
      BY <1>6, <2>2, <2>3, <2>5, <2>6, <3>1 DEF ReadChar
    <3> QED BY <3>2
  <2>8. PICK one : one = Append(none, sb)
    OBVIOUS
  <2>9. PICK C : C = ReadChar(B, b, Hash)
    OBVIOUS
  <2>10. C.done = one
    <3>1. C = [done |-> one, open |-> <<>>, quote |-> "none"]
      BY <2>3, <2>7, <2>8, <2>9 DEF ReadChar
    <3> QED BY <3>1
  <2>11. \A state, char : char # Hash => ReadChar(state, char, Hash).done = state.done
    BY DEF ReadChar
  <2>12. PICK D, E, F : D = ReadChar(C, c, Hash) /\ E = ReadChar(D, d, Hash) /\ F = ReadChar(E, e, Hash)
    OBVIOUS
  <2>13. F.done = one
    BY <2>2, <2>3, <2>10, <2>11, <2>12
  <2>14. Reads(Hash, t, A, F)
    <3>1. PICK f : f = [n \in 0 .. 5 |-> CASE n = 0 -> A [] n = 1 -> B [] n = 2 -> C [] n = 3 -> D [] n = 4 -> E
                                            [] OTHER -> F]
      OBVIOUS
    <3>2. f[0] = A /\ f[1] = B /\ f[2] = C /\ f[3] = D /\ f[4] = E /\ f[5] = F
      BY <3>1
    <3>3. ASSUME NEW n \in 1 .. Len(t) PROVE f[n] = ReadChar(f[n - 1], t[n], Hash)
      <4>1. n = 1 \/ n = 2 \/ n = 3 \/ n = 4 \/ n = 5
        BY <2>4
      <4>2. 1 - 1 = 0 /\ 2 - 1 = 1 /\ 3 - 1 = 2 /\ 4 - 1 = 3 /\ 5 - 1 = 4
        OBVIOUS
      <4> QED BY <2>4, <2>6, <2>9, <2>12, <3>2, <4>1, <4>2
    <3> QED BY <2>4, <3>2, <3>3 DEF Reads
  <2>15. PICK all \in Seq(Glyphs) : all = Behind(s, t)
    BY <1>1, BehindType
  <2>16. Reads(Hash, all, NothingRead, F)
    BY <1>1, <1>5, <2>14, <2>15, ReadsBehind
  <2>17. PartsOutside(all, Hash) = Append(one, F.open)
    BY <2>13, <2>16, PartsAre
  <2>18. Head(Append(one, F.open)) = sb
    <3>1. one = <<sb>>
      BY <1>2, <2>8
    <3>2. PICK o : o = F.open
      OBVIOUS
    <3>3. Head(Append(<<sb>>, o)) = sb
      OBVIOUS
    <3> QED BY <3>1, <3>2, <3>3
  <2>19. sb = Behind(s, blank)
    BY <1>1, <1>3, <2>3, <2>5, BehindOne
  <2> QED BY <1>3, <2>4, <2>15, <2>17, <2>18, <2>19
<1> QED BY <1>7, <1>8

\* bare is what stands in a line but the blanks around it and the comment.
Bare(bare, extra, line) ==
    /\ bare \in Seq(Glyphs) /\ Blanks(extra)
    /\ Body(line) = Behind(bare, extra) /\ Whole(Body(line), Hash)
    /\ Len(bare) >= 2 /\ bare[1] = line.key /\ bare[2] = KeyEnd /\ Tight(bare)
    /\ Trim(SubSeq(bare, 3, Len(bare))) = ValueOf(line)

\* It is there.
LEMMA BareExists ==
    ASSUME NEW line, Given(line), line.form # "remark", line.key \in Glyphs \ Signs
    PROVE  \E bare, extra : Bare(bare, extra, line)
<1>1. PICK lead \in Seq(Glyphs) : /\ lead = <<line.key, KeyEnd, White>> /\ Len(lead) = 3 /\ lead[1] = line.key
                                  /\ lead[2] = KeyEnd /\ lead[3] = White /\ Whole(lead, Hash)
  BY LeadIs
<1>2. Body(line) = Behind(lead, ValueOf(line))
  BY <1>1 DEF Body, Behind
<1>3. line.key # White /\ KeyEnd # White
  BY SignsDiffer DEF Signs
<1>4. CASE line.form = "section"
  <2>1. PICK bare \in Seq(Glyphs) : /\ bare = <<line.key, KeyEnd>> /\ Len(bare) = 2
                                    /\ bare[1] = line.key /\ bare[2] = KeyEnd
    BY LeadIs
  <2>2. PICK extra : extra = <<White>> /\ extra \in Seq(Glyphs) /\ Len(extra) = 1 /\ Blanks(extra)
    BY FewBlanks
  <2>3. ValueOf(line) = <<>>
    BY <1>4 DEF ValueOf
  <2>4. Body(line) = lead
    BY <1>2, <2>3, BehindNone
  <2>5. Behind(bare, extra) = lead
    <3>1. PICK both \in Seq(Glyphs) : both = Behind(bare, extra)
      BY <2>2, BehindType
    <3>2. extra \in Seq(Glyphs)
      BY <2>2
    <3>3. Together(Behind(bare, extra), bare, extra)
      BY <3>2, BehindAt
    <3>4. extra[1] = White
      BY <2>2 DEF Blanks
    <3>5. Len(both) = 3 /\ both[1] = lead[1] /\ both[2] = lead[2] /\ both[3] = lead[3]
      <4>1. 1 \in 1 .. 2 /\ 2 \in 1 .. 2 /\ 1 \in 1 .. 1
        OBVIOUS
      <4>2. Together(both, bare, extra) /\ Len(bare) = 2 /\ Len(extra) = 1
        BY <2>1, <2>2, <3>1, <3>3
      <4>3. Len(both) = 2 + 1 /\ both[1] = bare[1] /\ both[2] = bare[2] /\ both[2 + 1] = extra[1]
        BY <4>1, <4>2 DEF Together
      <4>4. bare[1] = lead[1] /\ bare[2] = lead[2] /\ extra[1] = lead[3]
        BY <1>1, <2>1, <3>4
      <4> QED BY <4>3, <4>4
    <3>6. \A i \in 1 .. Len(lead) : both[i] = lead[i]
      <4>1. \A i \in 1 .. 3 : i = 1 \/ i = 2 \/ i = 3
        OBVIOUS
      <4> QED BY <1>1, <3>5, <4>1
    <3>7. both = lead
      BY <1>1, <3>5, <3>6, SeqEqual
    <3> QED BY <3>1, <3>7
  <2>6. Trim(SubSeq(bare, 3, Len(bare))) = <<>>
    <3>1. SubSeq(bare, 3, Len(bare)) = <<>>
      BY <2>1, SubSeqEmpty
    <3>2. Trim(<<>>) = <<>>
      BY DEF Trim
    <3> QED BY <3>1, <3>2
  <2>7. Bare(bare, extra, line)
    BY <1>1, <1>3, <2>1, <2>2, <2>3, <2>4, <2>5, <2>6 DEF Bare, Tight
  <2> QED BY <2>7
<1>5. CASE line.form # "section"
  <2>1. PICK value \in Seq(Glyphs) : /\ value = ValueOf(line) /\ value # <<>> /\ Tight(value) /\ Whole(value, Hash)
    BY <1>5, ValueRead
  <2>2. PICK bare \in Seq(Glyphs) : bare = Behind(lead, value)
    BY BehindType
  <2>3. PICK extra : extra = <<>> /\ Blanks(extra)
    BY FewBlanks
  <2>4. Behind(bare, extra) = bare
    BY <2>3, BehindNone
  <2>5. Whole(bare, Hash)
    BY <1>1, <2>1, <2>2, WholeBehind
  <2>6. Together(bare, lead, value)
    BY <2>2, BehindAt
  <2>7. /\ Len(bare) = 3 + Len(value) /\ Len(value) \in Nat /\ Len(value) >= 1
        /\ bare[1] = line.key /\ bare[2] = KeyEnd /\ bare[3] = White
        /\ \A i \in 1 .. Len(value) : bare[3 + i] = value[i]
    <3>1. Len(value) \in Nat /\ Len(value) # 0
      BY <2>1, LenProperties, EmptySeq
    <3>2. 1 \in 1 .. 3 /\ 2 \in 1 .. 3 /\ 3 \in 1 .. 3
      OBVIOUS
    <3> QED BY <1>1, <2>6, <3>1, <3>2 DEF Together
  <2>8. Tight(bare)
    <3>1. Len(value) \in 1 .. Len(value)
      BY <2>7
    <3>2. bare[Len(bare)] = value[Len(value)]
      BY <2>7, <3>1
    <3> QED BY <1>3, <2>1, <2>7, <3>2 DEF Tight
  <2>9. Trim(SubSeq(bare, 3, Len(bare))) = value
    <3>1. PICK a, b : a = 3 /\ b = Len(bare)
      OBVIOUS
    <3>2. a \in Int /\ b \in Int /\ a <= b /\ b - a + 1 = 1 + Len(value) /\ \A i \in a .. b : i \in 1 .. Len(bare)
      BY <2>7, <3>1
    <3>3. \A i \in a .. b : bare[i] \in Glyphs
      BY <3>2, ElementOfSeq
    <3>4. /\ SubSeq(bare, a, b) \in Seq(Glyphs) /\ Len(SubSeq(bare, a, b)) = (IF a <= b THEN b - a + 1 ELSE 0)
          /\ \A i \in 1 .. b - a + 1 : SubSeq(bare, a, b)[i] = bare[a + i - 1]
      BY <3>2, <3>3, SubSeqProperties
    <3>5. PICK rest \in Seq(Glyphs) : rest = SubSeq(bare, a, b)
      BY <3>4
    <3>6. Len(rest) = 1 + Len(value)
      BY <3>2, <3>4, <3>5
    <3>7. ASSUME NEW i \in 1 .. Len(value) PROVE rest[1 + i] = value[i]
      <4>1. 1 + i \in 1 .. b - a + 1 /\ a + (1 + i) - 1 = 3 + i
        BY <2>7, <3>1, <3>2
      <4>2. rest[1 + i] = bare[a + (1 + i) - 1]
        BY <3>4, <3>5, <4>1
      <4> QED BY <2>7, <4>1, <4>2
    <3>8. rest[1] = White
      <4>1. 1 \in 1 .. b - a + 1 /\ a + 1 - 1 = 3
        BY <2>7, <3>1, <3>2
      <4>2. rest[1] = bare[a + 1 - 1]
        BY <3>4, <3>5, <4>1
      <4> QED BY <2>7, <4>1, <4>2
    <3>9. PICK one, none : one = 1 /\ none = 0
      OBVIOUS
    <3>10. Padded(rest, value, one, none)
      <4>1. \A i \in 1 .. Len(rest) : i <= 1 \/ i > 1 + Len(value) => rest[i] = White
        <5>1. \A i \in 1 .. Len(rest) : i <= 1 \/ i > 1 + Len(value) => i = 1
          BY <2>7, <3>6
        <5> QED BY <3>8, <5>1
      <4>2. Len(rest) = 1 + Len(value) + 0
        BY <2>7, <3>6
      <4> QED BY <3>7, <3>9, <4>1, <4>2 DEF Padded
    <3>11. Trim(rest) = value
      BY <2>1, <3>10, TrimIs
    <3> QED BY <3>1, <3>5, <3>11
  <2>10. Body(line) = bare
    BY <1>2, <2>1, <2>2
  <2>11. Bare(bare, extra, line)
    BY <2>1, <2>3, <2>4, <2>5, <2>7, <2>8, <2>9, <2>10 DEF Bare
  <2> QED BY <2>11
<1> QED BY <1>4, <1>5

\* What is kept of a line.
LEMMA ContentIs ==
    ASSUME NEW line, line.comment \in BOOLEAN, line.indent \in Nat, Whole(Body(line), Hash),
           NEW bare \in Seq(Glyphs), NEW extra, Blanks(extra), Body(line) = Behind(bare, extra),
           bare # <<>> => Tight(bare)
    PROVE  Content(Written(line)) = bare
<1>1. PICK margin : margin = [i \in 1 .. line.indent |-> White] /\ Blanks(margin) /\ Len(margin) = line.indent
  BY MarginIs
<1>2. PICK front : front = Behind(margin, Body(line))
  OBVIOUS
<1>3. Written(line) = Behind(front, Comment(line))
  BY <1>1, <1>2 DEF Written, Behind
<1>4. Whole(front, Hash)
  BY <1>1, <1>2, BlanksWhole, WholeBehind
<1>5. PICK tail : Blanks(tail) /\ Head(PartsOutside(Behind(front, Comment(line)), Hash)) = Behind(front, tail)
  BY <1>4, CommentRead
<1>6. PICK rest : rest = Behind(extra, tail) /\ Blanks(rest)
  BY <1>5, BlanksBehind
<1>7. margin \in Seq(Glyphs) /\ extra \in Seq(Glyphs) /\ tail \in Seq(Glyphs)
  BY <1>1, <1>5 DEF Blanks
<1>8. PICK led \in Seq(Glyphs) : led = Behind(margin, bare)
  BY <1>7, BehindType
<1>9. front = Behind(led, extra)
  <2>1. Behind(Behind(margin, bare), extra) = Behind(margin, Behind(bare, extra))
    BY <1>7, BehindAssociates
  <2> QED BY <1>2, <1>8, <2>1
<1>10. Behind(front, tail) = Behind(led, rest)
  <2>1. Behind(Behind(led, extra), tail) = Behind(led, Behind(extra, tail))
    BY <1>7, BehindAssociates
  <2> QED BY <1>6, <1>9, <2>1
<1>11. Padded(Behind(led, rest), bare, Len(margin), Len(rest))
  BY <1>1, <1>6, <1>8, BlanksAround
<1>12. PICK text, before, behind : text = Behind(led, rest) /\ before = Len(margin) /\ behind = Len(rest)
  OBVIOUS
<1>13. Padded(text, bare, before, behind)
  BY <1>11, <1>12
<1>14. Trim(text) = bare
  BY <1>13, TrimIs
<1> QED BY <1>3, <1>5, <1>10, <1>12, <1>14 DEF Content, StripInlineComment

\* A remark is no entry.
LEMMA RemarkSkipped ==
    ASSUME NEW line, line.comment \in BOOLEAN, line.indent \in Nat, line.form = "remark"
    PROVE  Colon(Written(line)) = 0
<1>1. PICK none \in Seq(Glyphs) : none = <<>> /\ Len(none) = 0 /\ Blanks(none)
  BY FewBlanks
<1>2. Body(line) = none
  BY <1>1 DEF Body
<1>3. Whole(Body(line), Hash)
  BY <1>1, <1>2, BlanksWhole
<1>4. Behind(none, none) = none
  BY <1>1, BehindNone
<1>5. Content(Written(line)) = none
  <2>1. Body(line) = Behind(none, none)
    BY <1>2, <1>4
  <2>2. Blanks(none) /\ (none # <<>> => Tight(none))
    BY <1>1
  <2> QED BY <1>3, <2>1, <2>2, ContentIs
<1>6. DOMAIN <<>> = {}
  OBVIOUS
<1>7. {i \in DOMAIN Content(Written(line)) : Content(Written(line))[i] = KeyEnd} = {}
  BY <1>1, <1>5, <1>6
<1> QED BY <1>7 DEF Colon

\* The key and the value of a line are those it was written with.
LEMMA EntryParts ==
    ASSUME NEW line, line.key \in Glyphs \ Signs, NEW w, NEW bare, NEW extra, Bare(bare, extra, line),
           Content(w) = bare
    PROVE  Colon(w) = 2 /\ Key(w) = <<line.key>> /\ Val(w) = ValueOf(line)
<1>1. /\ bare \in Seq(Glyphs) /\ Len(bare) >= 2 /\ bare[1] = line.key /\ bare[2] = KeyEnd
      /\ Trim(SubSeq(bare, 3, Len(bare))) = ValueOf(line)
  BY DEF Bare
<1>2. Len(bare) \in Nat /\ DOMAIN bare = 1 .. Len(bare)
  BY <1>1, LenProperties
<1>3. line.key # KeyEnd /\ line.key # White /\ line.key \in Glyphs
  BY DEF Signs
<1>4. PICK colons : colons = {i \in DOMAIN bare : bare[i] = KeyEnd}
  OBVIOUS
<1>5. Min(colons) = 2 /\ colons # {}
  <2>1. PICK x : x = 2
    OBVIOUS
  <2>2. colons \in SUBSET Int /\ x \in colons
    BY <1>1, <1>2, <1>4, <2>1
  <2>3. \A y \in colons : x <= y
    <3> SUFFICES ASSUME NEW y \in colons PROVE 2 <= y
      BY <2>1
    <3>1. y \in 1 .. Len(bare) /\ y # 1
      BY <1>1, <1>2, <1>3, <1>4
    <3> QED BY <3>1
  <2>4. Min(colons) = x
    BY <2>2, <2>3, MinIs
  <2> QED BY <2>1, <2>2, <2>4
<1>6. SubSeq(bare, 1, 1) = <<line.key>>
  <2>1. 1 \in 1 .. Len(bare)
    BY <1>1, <1>2
  <2>2. PICK one : one = 1
    OBVIOUS
  <2>3. one \in Int /\ \A i \in one .. one : bare[i] \in Glyphs
    BY <1>1, <1>3, <2>2
  <2>4. /\ SubSeq(bare, one, one) \in Seq(Glyphs) /\ Len(SubSeq(bare, one, one)) = 1
        /\ SubSeq(bare, one, one)[1] = line.key
    <3>1. /\ SubSeq(bare, one, one) \in Seq(Glyphs)
          /\ Len(SubSeq(bare, one, one)) = (IF one <= one THEN one - one + 1 ELSE 0)
          /\ \A i \in 1 .. one - one + 1 : SubSeq(bare, one, one)[i] = bare[one + i - 1]
      BY <2>3, SubSeqProperties
    <3>2. one <= one /\ one - one + 1 = 1 /\ 1 \in 1 .. one - one + 1 /\ one + 1 - 1 = 1
      BY <2>2
    <3> QED BY <1>1, <3>1, <3>2
  <2>5. PICK s \in Seq(Glyphs) : s = SubSeq(bare, one, one) /\ Len(s) = 1 /\ s[1] = line.key
    BY <2>4
  <2>6. s = <<line.key>>
    <3>1. PICK t \in Seq(Glyphs) : t = <<line.key>> /\ Len(t) = 1 /\ t[1] = line.key
      <4>1. PICK c \in Glyphs : c = line.key
        BY <1>3
      <4>2. <<c>> \in Seq(Glyphs) /\ Len(<<c>>) = 1 /\ <<c>>[1] = c
        OBVIOUS
      <4> QED BY <4>1, <4>2
    <3>2. \A i \in 1 .. Len(t) : s[i] = t[i]
      <4>1. \A i \in 1 .. 1 : i = 1
        OBVIOUS
      <4> QED BY <2>5, <3>1, <4>1
    <3>3. s = t
      BY <2>5, <3>1, <3>2, SeqEqual
    <3> QED BY <3>1, <3>3
  <2> QED BY <2>2, <2>5, <2>6
<1>7. Trim(<<line.key>>) = <<line.key>> /\ <<line.key>> # <<>>
  <2>1. PICK c \in Glyphs : c = line.key
    BY <1>3
  <2> QED BY <1>3, <2>1, TrimOne
<1>8. Colon(w) = 2
  <2>1. 2 - 1 = 1 /\ 2 > 0
    OBVIOUS
  <2>2. {i \in DOMAIN Content(w) : Content(w)[i] = KeyEnd} = colons
    BY <1>4
  <2>3. Trim(SubSeq(Content(w), 1, 2 - 1)) # <<>>
    BY <1>6, <1>7, <2>1
  <2> HIDE DEF Min
  <2> QED BY <1>5, <2>1, <2>2, <2>3 DEF Colon
<1>9. Key(w) = <<line.key>>
  <2>1. 2 - 1 = 1
    OBVIOUS
  <2> QED BY <1>6, <1>7, <1>8, <2>1 DEF Key
<1>10. Val(w) = ValueOf(line)
  <2>1. 2 + 1 = 3
    OBVIOUS
  <2> QED BY <1>1, <1>8, <2>1 DEF Val
<1> QED BY <1>8, <1>9, <1>10

\* What a comment is written with.
LEMMA CommentType ==
    ASSUME NEW line, line.comment \in BOOLEAN
    PROVE  Comment(line) \in Seq(Glyphs)
<1>1. PICK a \in Glyphs, b \in Glyphs, c \in Glyphs, d \in Glyphs, e \in Glyphs :
          a = White /\ b = Hash /\ c = "x" /\ d = KeyEnd /\ e = SingleQuote
  BY RemarkGlyphs DEF Signs
<1>2. <<a, b, c, d, e>> \in Seq(Glyphs) /\ <<>> \in Seq(Glyphs)
  OBVIOUS
<1> QED BY <1>1, <1>2 DEF Comment

\* A line is read as what it was written for.
LEMMA LineIsRead ==
    ASSUME NEW line, line.indent \in Nat, line.comment \in BOOLEAN,
           line.form = "remark" \/ Given(line), line.key \in Glyphs \ Signs
    PROVE  LineReadAs(Written(line), line)
<1>1. CASE line.form = "remark"
  BY <1>1, RemarkSkipped DEF LineReadAs
<1>2. CASE line.form # "remark"
  <2>1. Given(line)
    BY <1>2
  <2>2. PICK bare, extra : Bare(bare, extra, line)
    BY <1>2, <2>1, BareExists
  <2>3. /\ bare \in Seq(Glyphs) /\ Blanks(extra) /\ Body(line) = Behind(bare, extra) /\ Whole(Body(line), Hash)
        /\ Tight(bare) /\ Len(bare) >= 2 /\ bare[1] = line.key
    BY <2>2 DEF Bare
  <2>4. PICK w : w = Written(line)
    OBVIOUS
  <2>5. Content(w) = bare
    BY <2>3, <2>4, ContentIs
  <2>6. Colon(w) = 2 /\ Key(w) = <<line.key>> /\ Val(w) = ValueOf(line)
    BY <2>2, <2>5, EntryParts
  <2>7. Indent(w) = line.indent
    <3>1. PICK margin : margin = [i \in 1 .. line.indent |-> White] /\ Blanks(margin) /\ Len(margin) = line.indent
      BY MarginIs
    <3>2. PICK d : d = line.indent /\ d \in Nat
      OBVIOUS
    <3>3. margin \in Seq(Glyphs) /\ extra \in Seq(Glyphs) /\ \A i \in 1 .. d : margin[i] = White
      BY <2>3, <3>1, <3>2 DEF Blanks
    <3>4. PICK rest \in Seq(Glyphs) : rest = Behind(extra, Comment(line))
      BY <3>3, CommentType, BehindType
    <3>5. PICK tail \in Seq(Glyphs) : tail = Behind(bare, rest)
      BY <2>3, BehindType
    <3>6. w = Behind(margin, tail)
      <4>1. w = Behind(Behind(margin, Behind(bare, extra)), Comment(line))
        BY <2>3, <2>4, <3>1 DEF Written, Behind
      <4>2. PICK c \in Seq(Glyphs) : c = Comment(line)
        BY CommentType
      <4>3. PICK body \in Seq(Glyphs) : body = Behind(bare, extra)
        BY <2>3, <3>3, BehindType
      <4>4. Behind(Behind(margin, body), c) = Behind(margin, Behind(body, c))
        BY <3>3, BehindAssociates
      <4>5. Behind(body, c) = tail
        BY <2>3, <3>3, <3>4, <3>5, <4>2, <4>3, BehindAssociates
      <4> QED BY <4>1, <4>2, <4>3, <4>4, <4>5
    <3>7. Together(w, margin, tail) /\ w \in Seq(Glyphs)
      BY <3>3, <3>6, BehindAt, BehindType
    <3>8. Together(tail, bare, rest)
      BY <2>3, <3>5, BehindAt
    <3>9. tail[1] = line.key /\ Len(tail) >= 1 /\ Len(tail) \in Nat
      <4>1. 1 \in 1 .. Len(bare) /\ Len(bare) \in Nat
        BY <2>3, LenProperties
      <4> QED BY <2>3, <3>8, <4>1 DEF Together
    <3>10. Len(w) = d + Len(tail) /\ (\A i \in 1 .. d : w[i] = White) /\ w[d + 1] = line.key
      <4>1. 1 \in 1 .. Len(tail)
        BY <3>9
      <4> QED BY <3>1, <3>2, <3>3, <3>7, <3>9, <4>1 DEF Together
    <3>11. d + 1 \in 1 .. Len(w) /\ line.key # White
      BY <3>2, <3>9, <3>10 DEF Signs
    <3>12. Indent(w) = d
      BY <3>2, <3>7, <3>10, <3>11, IndentIs
    <3> QED BY <3>2, <3>12
  <2>8. Val(w) = <<>> <=> line.form = "section"
    <3>1. line.form = "section" => ValueOf(line) = <<>>
      BY DEF ValueOf
    <3>2. line.form # "section" => ValueOf(line) # <<>>
      BY <2>1, ValueRead
    <3> QED BY <2>6, <3>1, <3>2
  <2>9. line.form # "section" => ParseValue(Val(w)) = NodeOf(line)
    BY <2>1, <2>6, ValueRead
  <2>10. LineReadAs(w, line)
    <3>1. 2 # 0
      OBVIOUS
    <3> QED BY <1>2, <2>6, <2>7, <2>8, <2>9, <3>1 DEF LineReadAs
  <2> QED BY <2>4, <2>10
<1> QED BY <1>1, <1>2

\* What is writable fits.
LEMMA WritableIs ==
    ASSUME NEW v, NEW signs, Writable(v, signs)
    PROVE  Fit(v, signs)
<1>1. PICK text, S : text = v.text /\ S = STRING
  OBVIOUS
<1>2. text \in Seq(S) /\ S \subseteq Glyphs
  BY <1>1 DEF Writable, Glyphs
<1>3. text \in Seq(Glyphs)
  BY <1>2
<1>4. DOMAIN text = 1 .. Len(text)
  BY <1>3, LenProperties
<1> QED BY <1>1, <1>3, <1>4 DEF Writable, Fit, Tight

\* The files that are read.
LEMMA FilesGiven ==
    ASSUME NEW lines \in Files
    PROVE  /\ IsFile(lines, Len(lines))
           /\ \A n \in 1 .. Len(lines) :
                 /\ lines[n].comment \in BOOLEAN /\ lines[n].key \in Glyphs \ Signs
                 /\ lines[n].form = "remark" \/ Given(lines[n])
<1>1. PICK L : L = Len(lines)
  OBVIOUS
<1>2. L \in Nat /\ DOMAIN lines = 1 .. L
  BY <1>1, FilesAssumption
<1>3. ASSUME NEW n \in 1 .. L
      PROVE  /\ lines[n].indent \in Nat /\ lines[n].comment \in BOOLEAN /\ lines[n].key \in Glyphs \ Signs
             /\ lines[n].form = "remark" \/ Given(lines[n])
  <2>1. PICK line : line = lines[n]
    OBVIOUS
  <2>2. /\ line.indent \in Nat /\ line.comment \in BOOLEAN /\ line.key \in STRING \ Signs
        /\ \/ line.form \in {"section", "remark"}
           \/ line.form = "scalar" /\ Writable(line.value[1], Outside)
           \/ line.form = "list" /\ Len(line.value) \in Nat
                 /\ line.value = [i \in 1 .. Len(line.value) |-> line.value[i]]
                 /\ \A i \in DOMAIN line.value : Writable(line.value[i], InList)
    <3>1. PICK out, inlist, signs : out = Outside /\ inlist = InList /\ signs = Signs
      OBVIOUS
    <3>2. /\ signs = {White, SingleQuote, DoubleQuote, Backslash, Hash, KeyEnd, ElementEnd, ListBegin, ListEnd}
          /\ out = {SingleQuote, DoubleQuote, Hash} /\ inlist = out \cup {ElementEnd}
      BY <3>1 DEF Signs, Outside, InList
    <3>3. n \in DOMAIN lines
      BY <1>2
    <3>4. /\ line.indent \in Nat /\ line.comment \in BOOLEAN /\ line.key \in STRING \ signs
          /\ \/ line.form \in {"section", "remark"}
             \/ line.form = "scalar" /\ Writable(line.value[1], out)
             \/ line.form = "list" /\ Len(line.value) \in Nat
                   /\ line.value = [i \in 1 .. Len(line.value) |-> line.value[i]]
                   /\ \A i \in DOMAIN line.value : Writable(line.value[i], inlist)
      BY <2>1, <3>2, <3>3, FilesAssumption
    <3> QED BY <3>1, <3>4
  <2>3. line.key \in Glyphs \ Signs
    BY <2>2 DEF Glyphs
  <2>4. CASE line.form \in {"section", "remark"}
    BY <2>1, <2>2, <2>3, <2>4 DEF Given
  <2>5. CASE line.form = "scalar" /\ Writable(line.value[1], Outside)
    <3>1. Given(line)
      BY <2>5, WritableIs DEF Given
    <3> QED BY <2>1, <2>2, <2>3, <3>1
  <2>6. CASE line.form = "list" /\ Len(line.value) \in Nat
                /\ line.value = [i \in 1 .. Len(line.value) |-> line.value[i]]
                /\ \A i \in DOMAIN line.value : Writable(line.value[i], InList)
    <3>1. PICK vs, M : vs = line.value /\ M = Len(vs)
      OBVIOUS
    <3>2. M \in Nat /\ vs = [i \in 1 .. M |-> vs[i]] /\ \A i \in DOMAIN vs : Fit(vs[i], InList)
      BY <2>6, <3>1, WritableIs
    <3>3. PICK V : V = {vs[i] : i \in 1 .. M}
      OBVIOUS
    <3>4. vs \in [1 .. M -> V]
      BY <3>2, <3>3
    <3>5. vs \in Seq(V)
      BY <3>2, <3>4
    <3>6. \A v \in V : Fit(v, InList)
      <4>1. DOMAIN vs = 1 .. M
        BY <3>2
      <4> QED BY <3>2, <3>3, <4>1
    <3>7. Given(line)
      BY <2>6, <3>1, <3>5, <3>6 DEF Given
    <3> QED BY <2>1, <2>2, <2>3, <3>7
  <2> QED BY <2>2, <2>4, <2>5, <2>6
<1>4. IsFile(lines, L)
  BY <1>2, <1>3 DEF IsFile
<1> QED BY <1>1, <1>3, <1>4

\* A node is asked for as it was written.
LEMMA NodeSays ==
    ASSUME NEW tree, NEW path, path \in DOMAIN tree, NEW line, Given(line), tree[path] = NodeOf(line)
    PROVE  SaysOf(tree, path, line)
<1>1. PICK node : node = FindNode(tree, path) /\ node = NodeOf(line)
  BY DEF FindNode
<1>2. CASE line.form = "section"
  <2>1. node.type = "Object"
    BY <1>1, <1>2 DEF NodeOf, Node
  <2> QED BY <1>1, <1>2, <2>1 DEF SaysOf, GetString
<1>3. CASE line.form = "scalar"
  <2>1. PICK text \in Seq(Glyphs) : text = line.value[1].text
    BY <1>3 DEF Given, Fit
  <2>2. node = ScalarNode(text)
    BY <1>1, <1>3, <2>1 DEF NodeOf
  <2>3. CASE IsNumber(text)
    <3>1. PICK num : num = ToNumber(text)
      OBVIOUS
    <3>2. node.type = "Number" /\ node.num = num
      BY <2>2, <2>3, <3>1 DEF ScalarNode, Node
    <3>3. GetInt(tree, path, -1) = IntOf(num) /\ GetString(tree, path, <<"y">>) = Printed(num)
      BY <1>1, <3>2 DEF GetInt, GetString
    <3>4. GetBool(tree, path, FALSE) = (num # Zero)
      BY <1>1, <3>2 DEF GetBool
    <3>5. Canonical(num)
      BY <2>3, <3>1, NumberIsCanonical
    <3>6. Exact(num) => IsNumber(Printed(num)) /\ ToNumber(Printed(num)) = num
      BY <3>5, PrintedReads
    <3> QED BY <1>3, <2>1, <2>3, <3>1, <3>3, <3>4, <3>6 DEF SaysOf, ScalarSays
  <2>4. CASE ~IsNumber(text)
    <3>1. node.type = "String" /\ node.str = text
      BY <2>2, <2>4 DEF ScalarNode, Node
    <3>2. GetString(tree, path, <<"y">>) = text
      BY <1>1, <3>1 DEF GetString
    <3>3. Lowered(<<"true">>) = <<"true">> /\ Lowered(<<"false">>) = <<"false">>
      BY LoweredSwitch
    <3>4. ASSUME text = <<"true">>, NEW default \in BOOLEAN PROVE GetBool(tree, path, default)
      BY <1>1, <3>1, <3>3, <3>4 DEF GetBool
    <3>5. ASSUME text = <<"false">>, NEW default \in BOOLEAN PROVE ~GetBool(tree, path, default)
      <4>1. <<"false">> \notin {<<"true">>, <<"yes">>, <<"on">>}
        OBVIOUS
      <4> QED BY <1>1, <3>1, <3>3, <3>5, <4>1 DEF GetBool
    <3> QED BY <1>3, <2>1, <2>4, <3>2, <3>4, <3>5 DEF SaysOf, ScalarSays
  <2> QED BY <2>3, <2>4
<1>4. CASE line.form = "list"
  <2>1. PICK vs : vs = line.value
    OBVIOUS
  <2>2. PICK read : read = [i \in DOMAIN vs |-> ScalarNode(vs[i].text)]
    OBVIOUS
  <2>3. node.type = "Array" /\ node.arr = read
    BY <1>1, <1>4, <2>1, <2>2 DEF NodeOf, Node
  <2>4. PICK ints : ints = [i \in DOMAIN read |-> IntOf(read[i].num)]
    OBVIOUS
  <2>5. GetIntArray(tree, path) = ints
    BY <1>1, <2>3, <2>4 DEF GetIntArray
  <2>6. DOMAIN read = DOMAIN vs /\ DOMAIN ints = DOMAIN vs
    BY <2>2, <2>4
  <2>7. ASSUME NEW i \in DOMAIN vs
        PROVE  IF IsNumber(vs[i].text) THEN ints[i] = IntOf(ToNumber(vs[i].text)) ELSE read[i].str = vs[i].text
    <3>1. read[i] = ScalarNode(vs[i].text) /\ ints[i] = IntOf(read[i].num)
      BY <2>2, <2>4
    <3>2. PICK text, num : text = vs[i].text /\ num = ToNumber(text)
      OBVIOUS
    <3>3. CASE IsNumber(text)
      <4>1. read[i].num = num
        BY <3>1, <3>2, <3>3 DEF ScalarNode, Node
      <4> QED BY <3>1, <3>2, <3>3, <4>1
    <3>4. CASE ~IsNumber(text)
      <4>1. read[i].str = text
        BY <3>1, <3>2, <3>4 DEF ScalarNode, Node
      <4> QED BY <3>2, <3>4, <4>1
    <3> QED BY <3>3, <3>4
  <2>8. FindNode(tree, path).arr = read
    BY <1>1, <2>3
  <2> QED BY <1>4, <2>1, <2>5, <2>6, <2>7, <2>8 DEF SaysOf, ListSays
<1> QED BY <1>2, <1>3, <1>4 DEF Given

\* Everything a file says is found, and nothing else.
FoundIn(tree, path, lines) ==
    /\ DOMAIN tree = {<<>>} \cup {path[n] : n \in Settings(lines)}
    /\ \A n \in Settings(lines) :
          (\A m \in Settings(lines) : m > n => path[m] # path[n]) => SaysOf(tree, path[n], lines[n])

\* It is.
LEMMA FileSays ==
    ASSUME NEW lines \in Files, NEW path, path = PathsIn(lines), NEW tree,
           tree = LoadFromFile([n \in DOMAIN lines |-> Written(lines[n])])
    PROVE  FoundIn(tree, path, lines)
<1>1. PICK L : L = Len(lines)
  OBVIOUS
<1>2. /\ IsFile(lines, L) /\ L \in Nat /\ DOMAIN lines = 1 .. L
      /\ \A n \in 1 .. L : /\ lines[n].comment \in BOOLEAN /\ lines[n].key \in Glyphs \ Signs /\ lines[n].indent \in Nat
                           /\ lines[n].form = "remark" \/ Given(lines[n])
  <2>1. IsFile(lines, L)
    BY <1>1, FilesGiven
  <2> QED BY <1>1, <2>1, FilesGiven DEF IsFile
<1>3. PICK texts : texts = [n \in DOMAIN lines |-> Written(lines[n])]
  OBVIOUS
<1>4. Len(texts) = L /\ \A n \in 1 .. L : texts[n] = Written(lines[n])
  <2>1. PICK S : S = {Written(lines[n]) : n \in 1 .. L}
    OBVIOUS
  <2>2. \A n \in 1 .. L : texts[n] = Written(lines[n]) /\ texts[n] \in S
    BY <1>2, <1>3, <2>1
  <2>3. texts = [n \in 1 .. L |-> texts[n]]
    BY <1>2, <1>3
  <2>4. texts \in [1 .. L -> S]
    BY <2>2, <2>3
  <2> QED BY <1>2, <2>2, <2>4
<1>5. \A n \in 1 .. L : LineReadAs(texts[n], lines[n])
  <2> SUFFICES ASSUME NEW n \in 1 .. L PROVE LineReadAs(texts[n], lines[n])
    OBVIOUS
  <2>1. PICK line : line = lines[n]
    OBVIOUS
  <2>2. LineReadAs(Written(line), line)
    BY <1>2, <2>1, LineIsRead
  <2> QED BY <1>4, <2>1, <2>2
<1>6. PathsUpTo(path, lines, L)
  BY <1>1, <1>2, PathsInIs
<1>7. PICK state : FileRead(state, lines, path, L, L) /\ LoadFromFile(texts) = state.tree
  BY <1>2, <1>4, <1>5, <1>6, FileIsRead
<1>8. tree = state.tree
  BY <1>3, <1>7
<1>9. Before(lines, L) = Settings(lines)
  BY <1>2 DEF Before, Settings
<1>10. DOMAIN tree = {<<>>} \cup {path[n] : n \in Settings(lines)}
  BY <1>7, <1>8, <1>9 DEF FileRead
<1>11. ASSUME NEW n \in Settings(lines), \A m \in Settings(lines) : m > n => path[m] # path[n]
       PROVE  SaysOf(tree, path[n], lines[n])
  <2>1. tree[path[n]] = NodeOf(lines[n])
    BY <1>7, <1>8, <1>9, <1>11 DEF FileRead
  <2>2. path[n] \in DOMAIN tree
    BY <1>10
  <2>3. Given(lines[n])
    BY <1>2 DEF Settings
  <2> QED BY <2>1, <2>2, <2>3, NodeSays
<1> QED BY <1>10, <1>11 DEF FoundIn

\* The answer is what LoadFromFile makes of the file.
ConfigInv ==
    /\ "lines" \in DOMAIN input => \E lines \in Files : input = [lines |-> lines]
    /\ Answered("tree") =>
          /\ "lines" \in DOMAIN input
          /\ output.tree = LoadFromFile([n \in DOMAIN input.lines |-> Written(input.lines[n])])

\* A call begins unanswered.
LEMMA InitConfig == Init => ConfigInv
<1> SUFFICES ASSUME Init PROVE ConfigInv
  OBVIOUS
<1>1. ~Answered("tree")
  BY DEF Init, Answered
<1>2. "lines" \in DOMAIN input => \E lines \in Files : input = [lines |-> lines]
  BY DEF Init
<1> QED
  BY <1>1, <1>2 DEF ConfigInv

\* No other call answers with a tree.
LEMMA ConfigNext == ConfigInv /\ [Next]_vars => ConfigInv'
<1> SUFFICES ASSUME ConfigInv, [Next]_vars PROVE ConfigInv'
  OBVIOUS
<1>1. CASE DetectObjects
  BY <1>1 DEF DetectObjects, ConfigInv, Answered
<1>2. CASE FitFrame
  BY <1>2 DEF FitFrame, ConfigInv, Answered
<1>3. CASE DetectFaces
  BY <1>3 DEF DetectFaces, ConfigInv, Answered
<1>4. CASE AlignSounds
  BY <1>4 DEF AlignSounds, MiddleProcess, ConfigInv, Answered
<1>5. CASE SpeakText
  BY <1>5 DEF SpeakText, ConfigInv, Answered
<1>6. CASE ReadConfig
  <2>1. PICK tree : tree = LoadFromFile([n \in DOMAIN input.lines |-> Written(input.lines[n])])
    OBVIOUS
  <2>2. output' = [tree |-> tree] /\ input' = input /\ "lines" \in DOMAIN input
    BY <1>6, <2>1 DEF ReadConfig, Called
  <2>3. output'.tree = tree
    BY <2>2
  <2> QED
    BY <2>1, <2>2, <2>3 DEF ConfigInv
<1>7. CASE UNCHANGED vars
  BY <1>7 DEF vars, ConfigInv, Answered
<1> QED
  BY <1>1, <1>2, <1>3, <1>4, <1>5, <1>6, <1>7 DEF Next

\* For every file with any number of lines, however deep its sections are and however many values
\* its lists hold, in quotes or without them, each line is found under the names of the sections it
\* stands in with the value it was written with: of several with one path the last counts, a number
\* is a number, also when it is asked for as a text and has few digits, true and false are what
\* they are whatever the default, a quotation keeps the # and the comma it holds, a list keeps its
\* elements apart, a comment leaves no trace, and nothing else is found (LoadFromFile, find_node,
\* parse_value, strip_inline_comment, split_array_elements, GetString, GetBool, GetIntArray).
THEOREM ConfigAlwaysAsWritten == Spec => []ConfigAsWritten
<1>1. ConfigInv => ConfigAsWritten
  <2> SUFFICES ASSUME ConfigInv, Answered("tree") PROVE ConfigAsWritten
    BY Zenon DEF ConfigAsWritten
  <2>1. PICK lines \in Files : input = [lines |-> lines]
    BY DEF ConfigInv
  <2>2. input.lines = lines
    BY <2>1
  <2>3. PICK tree, path : tree = output.tree /\ path = PathsIn(lines)
    OBVIOUS
  <2>4. tree = LoadFromFile([n \in DOMAIN lines |-> Written(lines[n])])
    BY <2>2, <2>3 DEF ConfigInv
  <2>5. FoundIn(tree, path, lines)
    BY <2>3, <2>4, FileSays
  <2> QED
    BY <2>2, <2>3, <2>5 DEF ConfigAsWritten, FoundIn
<1> QED
  BY <1>1, InitConfig, ConfigNext, PTL DEF Spec
=============================================================================

------------------------------- MODULE Letterbox -------------------------------
(***************************************************************************)
(* How a frame of the camera comes into the square a model looks at:       *)
(* convert_image_with_letterbox of utils/image_utils.c for yolo and        *)
(* LetterboxResize of adapters/scrfd/scrfd_adapter.cpp for scrfd.          *)
(*                                                                         *)
(* A size is a record [w, h].  Where the code multiplies and divides       *)
(* floating-point numbers the quotients are exact.  Of a pixel only the    *)
(* place it is taken from is told, not the mixture with its neighbours.    *)
(***************************************************************************)
EXTENDS Integers, FiniteSets

Aligned(n, step) == n - (n % step)

\* The frame is wider than the model: it takes the whole width and is padded above and below.
Wider(src, dst) == dst.w * src.h < dst.h * src.w

\* Mutation: the scale is the greater of the two.
ScaleToFill(src, dst) ==
    IF Wider(src, dst) THEN [num |-> dst.h, den |-> src.h] ELSE [num |-> dst.w, den |-> src.w]

\* Pixels of the model per pixel of the frame.
Scale(src, dst) ==
    IF Wider(src, dst) THEN [num |-> dst.w, den |-> src.w] ELSE [num |-> dst.h, den |-> src.h]

\* resize_w and resize_h, cut to multiples of four and of two; the scale stays what it was.
Resized(src, dst) ==
    LET scale == Scale(src, dst)
    IN [w |-> Aligned(IF Wider(src, dst) THEN dst.w ELSE (src.w * scale.num) \div scale.den, 4),
        h |-> Aligned(IF Wider(src, dst) THEN (src.h * scale.num) \div scale.den ELSE dst.h, 2)]

\* convert_image_with_letterbox: where the frame lies in the model's input, and the letterbox_t.
\* The side without padding is filled, whatever the alignment made of it.
WithLetterbox(src, dst) ==
    LET size == Resized(src, dst)
    IN IF Wider(src, dst)
       THEN [x_pad |-> 0, y_pad |-> Aligned((dst.h - size.h) \div 2, 2),
             scale |-> Scale(src, dst), size |-> [w |-> dst.w, h |-> size.h]]
       ELSE [x_pad |-> Aligned((dst.w - size.w) \div 2, 2), y_pad |-> 0,
             scale |-> Scale(src, dst), size |-> [w |-> size.w, h |-> dst.h]]

\* The second pixel of a mixture: the next one, or the one before the last.
Neighbour(at, length) == IF at = length - 1 THEN at - 1 ELSE at + 1

\* crop_and_scale_image_c: the four pixels of the frame that pixel (x, y) of the box is mixed of.
Taps(src, size, x, y) ==
    LET sx == (x * src.w) \div size.w
        sy == (y * src.h) \div size.h
    IN {sx, Neighbour(sx, src.w)} \X {sy, Neighbour(sy, src.h)}

\* The pixel of the frame at the upper left of the mixture.
TakenFrom(src, size, x, y) == [x |-> (x * src.w) \div size.w, y |-> (y * src.h) \div size.h]

\* convert_image_cpu: the pixels of the frame that a pixel of the model's input shows, none when
\* it is filled padding.  Both are RGB888 and have their memory, so that it does not fail.
Shows(src, box, x, y) ==
    IF x - box.x_pad \in 0 .. box.size.w - 1 /\ y - box.y_pad \in 0 .. box.size.h - 1
    THEN Taps(src, box.size, x - box.x_pad, y - box.y_pad) ELSE {}

\* LetterboxResize of scrfd: one row more than the whole part when the frame is wider.
LetterboxResize(src, side) ==
    LET new_w == IF src.h > src.w THEN (side * src.w) \div src.h ELSE side
        new_h == IF src.h < src.w THEN (side * src.h) \div src.w + 1 ELSE side
    IN [new_w |-> new_w, new_h |-> new_h, orig_w |-> src.w, orig_h |-> src.h,
        pad_w |-> (side - new_w) \div 2, pad_h |-> (side - new_h) \div 2]
=============================================================================

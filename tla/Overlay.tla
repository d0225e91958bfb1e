-------------------------------- MODULE Overlay --------------------------------
(***************************************************************************)
(* The lines of text a vision adapter makes of what it found, and          *)
(* display/result_overlay.cpp, which reads them and draws.                 *)
(*                                                                         *)
(* A line is what std::istringstream makes of it: a sequence of tokens     *)
(* separated by blanks, a token a word or a number.  The name of a class   *)
(* is a sequence of words.  Colours, fonts and the text beside a box are   *)
(* left out.                                                               *)
(***************************************************************************)
EXTENDS Integers, FiniteSets, SequencesExt, FiniteSetsExt, Lists

Word(w) == [word |-> w]
Number(n) == [number |-> n]
IsNumeric(token) == "number" \in DOMAIN token

Words(name) == [i \in DOMAIN name |-> Word(name[i])]
Numbers(list) == [i \in DOMAIN list |-> Number(list[i])]

\* YoloAdapter::Postprocess; names holds the name of every class.
YoloLines(results, names) ==
    [i \in DOMAIN results |->
        LET box == results[i].box
        IN Words(names[results[i].class]) \o
           Numbers(<<box.left, box.top, box.right, box.bottom, results[i].score>>)]

\* ScrfdAdapter::Postprocess; one landmark stands for five.
FaceLines(faces) ==
    [i \in DOMAIN faces |->
        <<Word("face")>> \o Numbers(<<faces[i].x1, faces[i].y1, faces[i].x2, faces[i].y2,
                                      faces[i].score, faces[i].kps.x, faces[i].kps.y>>)]

\* YoloAdapter::GetAdapterSignals: class 0 of the code is class 1 here.
PersonPresent(results, names, threshold) ==
    \E i \in DOMAIN results :
        /\ results[i].score >= threshold
        /\ results[i].class = 1 \/ names[results[i].class] = <<"person">>

\* ScrfdAdapter::GetAdapterSignals.
FaceDetected(faces) == faces # <<>>

\* The label is the first token, whatever it is; five numbers must follow.
Readable6(line) == Len(line) >= 6 /\ \A i \in 2 .. 6 : IsNumeric(line[i])

Inside(at, length) == Max({0, Min({at, length - 1})})

InsideOf(frame, x, y) == <<Inside(x, frame.w), Inside(y, frame.h)>>

\* What Apply draws for a line it could read.
Shape(frame, line) ==
    [label |-> line[1],
     from |-> InsideOf(frame, line[2].number, line[3].number),
     to |-> InsideOf(frame, line[4].number, line[5].number),
     kps |-> IF line[1] = Word("face") /\ Len(line) >= 8 /\ IsNumeric(line[7]) /\ IsNumeric(line[8])
             THEN {InsideOf(frame, line[7].number, line[8].number)} ELSE {}]

\* ResultOverlay::Apply.
Apply(frame, lines, suppress_yolo_person) ==
    LET drawn == Taken(lines, {i \in DOMAIN lines :
                     Readable6(lines[i]) /\ ~(suppress_yolo_person /\ lines[i][1] = Word("person"))})
    IN [i \in DOMAIN drawn |-> Shape(frame, drawn[i])]
=============================================================================

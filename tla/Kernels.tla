-------------------------------- MODULE Kernels --------------------------------
(***************************************************************************)
(* The parts of the program that are functions of their input: what a      *)
(* vision adapter makes of a frame, what the voice makes of a sentence and *)
(* what the configuration makes of a file.  A behaviour is one call: an    *)
(* input is chosen, an action computes what the code computes of it, and   *)
(* the properties compare it with what the input stands for.               *)
(***************************************************************************)
EXTENDS Detections, Letterbox, Faces, Overlay, DurationAlign, MeloText, ConfigFile

CONSTANTS
    CellLists,          \* what the anchors of yolo say
    Sizes,              \* sizes of the camera's frame
    Layouts,            \* outputs of a scrfd model
    FaceAt,             \* places of a face in the frame, [x1, y1, x2, y2]
    DurationLists,      \* exp(log_w) of the sounds of a sentence
    Speeds,             \* length_scale in percent
    Texts,              \* segments of an answer
    Files,              \* lines of a configuration file
    LabelLines,         \* coco_80_labels_list.txt, a line as the sequence of its words
    PersonThreshold     \* person_score_threshold_

\* No side is a single pixel, and none so short beside the other that the aligned size of the
\* letterbox is nothing.
ASSUME SizesAssumption ==
    \A size \in Sizes :
        /\ {size.w, size.h} \subseteq Nat \ {0, 1}
        /\ 4 * size.h <= size.w * ModelHeight /\ 2 * size.w <= size.h * ModelWidth

\* A confidence is at most one, and the threshold is a value of the signed form of the tensors
\* and of the unsigned one, which share the zero point here.
ASSUME CellsAssumption ==
    /\ CellLists \subseteq Seq([conf : {q \in Int : q - ZeroPoint <= Quanta},
                                probs : [1 .. ObjClassNum -> Int],
                                box : [x : Int, y : Int, w : Int, h : Int]])
    /\ BoxThreshold + 10 * ZeroPoint \in 0 .. 1270

\* Only the first class is called a person.
ASSUME LabelsAssumption ==
    /\ LabelLines \in Seq(Seq(STRING))
    /\ \A n \in DOMAIN LabelLines : LabelLines[n] = <<"person">> => n = 1

Kinds == <<"score", "bbox", "kps">>

\* A name that looks like that of an output is its name.  The middle scale can be read.
ASSUME LayoutsAssumption ==
    \A layout \in Layouts :
        /\ layout = [i \in 1 .. Len(layout) |-> layout[i]] /\ Len(layout) \in Nat
        /\ \A i \in DOMAIN layout, kind \in Range(Kinds), stride \in Range(Strides) :
              layout[i].name = <<kind, stride>> => layout[i].holds = <<kind, stride>>
        /\ \A i \in DOMAIN layout, kind \in Range(Kinds) :
              layout[i].holds = <<kind, Strides[2]>> => layout[i].buf /\ layout[i].whole

\* A face is a pixel of the frame wider and higher than a pixel of the model.
ASSUME FacesAssumption ==
    /\ ConfThreshold \in Int /\ FaceNmsPercent \in 0 .. 99
    /\ FaceAt \subseteq [x1 : Nat, y1 : Nat, x2 : Nat, y2 : Nat]
    /\ \A face \in FaceAt, size \in Sizes :
          LET box == LetterboxResize(size, ModelWidth)
          IN face.x2 < size.w /\ face.y2 < size.h =>
                /\ (face.x2 - face.x1 - 1) * box.new_w >= size.w
                /\ (face.y2 - face.y1 - 1) * box.new_h >= size.h

\* What is spoken comes in whole characters.
ASSUME TextsAssumption == Texts \subseteq Seq(Chars \ (Broken \cup {"byte", "cut"}))

\* How a value can be written: no quotation or escape in a quotation, and no sign that would mean
\* something in a text without one.
Writable(value, signs) ==
    /\ value.quoted \in BOOLEAN /\ value.text \in Seq(STRING)
    /\ value.quoted => \A i \in DOMAIN value.text : value.text[i] \notin {DoubleQuote, Backslash}
    /\ ~value.quoted =>
          /\ value.text # <<>> /\ \A i \in DOMAIN value.text : value.text[i] \notin signs
          /\ value.text[1] \notin {White, ListBegin} /\ value.text[Len(value.text)] # White

\* A key is no sign, and a value is one scalar or a list of them.
ASSUME FilesAssumption ==
    LET signs == {White, SingleQuote, DoubleQuote, Backslash, Hash, KeyEnd, ElementEnd, ListBegin, ListEnd}
        outside == {SingleQuote, DoubleQuote, Hash}
    IN \A lines \in Files :
          /\ lines = [n \in 1 .. Len(lines) |-> lines[n]] /\ Len(lines) \in Nat
          /\ \A n \in DOMAIN lines :
                LET line == lines[n]
                IN /\ line.indent \in Nat /\ line.comment \in BOOLEAN /\ line.key \in STRING \ signs
                   /\ \/ line.form \in {"section", "remark"}
                      \/ line.form = "scalar" /\ Writable(line.value[1], outside)
                      \/ line.form = "list" /\ Len(line.value) \in Nat
                            /\ line.value = [i \in 1 .. Len(line.value) |-> line.value[i]]
                            /\ \A i \in DOMAIN line.value : Writable(line.value[i], outside \cup {ElementEnd})

ASSUME DurationsAssumption == DurationLists \subseteq Seq(Nat) /\ Speeds \subseteq Nat

VARIABLES
    input,              \* the arguments of the call
    output              \* what it returned; [waiting |-> TRUE] before

vars == <<input, output>>

Model == [w |-> ModelWidth, h |-> ModelHeight]

ClassNames == [class \in 1 .. ObjClassNum |-> Name(Labels(LabelLines), class)]

Init ==
    /\ output = [waiting |-> TRUE]
    /\ \/ \E cells \in CellLists, size \in Sizes : input = [cells |-> cells, size |-> size]
       \/ \E size \in Sizes : input = [frame |-> size]
       \/ \E layout \in Layouts, face \in FaceAt, size \in Sizes :
             /\ face.x2 < size.w /\ face.y2 < size.h
             /\ input = [layout |-> layout, face |-> face, size |-> size]
       \/ \E exp \in DurationLists, percent \in Speeds : input = [exp |-> exp, percent |-> percent]
       \/ \E text \in Texts, latin \in BOOLEAN : input = [text |-> text, latin |-> latin]
       \/ \E lines \in Files : input = [lines |-> lines]

Called(field) == "waiting" \in DOMAIN output /\ field \in DOMAIN input

-----------------------------------------------------------------------------
\* What the four forms of the output tensors say of the same cells.
Decoded(cells) == {DecodeI8(cells), DecodeU8(cells), DecodeRv1106(cells), DecodeFp32(cells)}

\* YoloAdapter::Postprocess on the results of Inference, and the drawing of its lines.
DetectObjects ==
    /\ Called("cells")
    /\ \E candidates \in Decoded(input.cells) :
       \E reported \in {Reported(candidates)} :
       \E found \in {PostProcess(candidates, reported, WithLetterbox(input.size, Model))} :
          output' = [candidates |-> candidates, reported |-> reported, found |-> found,
                     person |-> PersonPresent(found, ClassNames, PersonThreshold),
                     shapes |-> Apply(input.size, YoloLines(found, ClassNames), FALSE)]
    /\ UNCHANGED input

\* YoloAdapter::Preprocess: the letterbox and the pixels it takes.
FitFrame ==
    /\ Called("frame")
    /\ output' = [box |-> WithLetterbox(input.frame, Model)]
    /\ UNCHANGED input

\* Where LetterboxResize of scrfd puts a point of the frame.
IntoModel(v, new, orig, pad) == (v * new) \div orig + pad

\* What the anchors of the three scales say of one face: the middle scale sees it, the
\* others something below the threshold.
PointsOf(face, box) ==
    LET x(v) == IntoModel(v, box.new_w, box.orig_w, box.pad_w)
        y(v) == IntoModel(v, box.new_h, box.orig_h, box.pad_h)
        point(score) == [x1 |-> x(face.x1), y1 |-> y(face.y1), x2 |-> x(face.x2), y2 |-> y(face.y2),
                         kps |-> [x |-> x(face.x1), y |-> y(face.y1)], score |-> score]
    IN <<<<point(ConfThreshold - 1)>>, <<point(ConfThreshold + 1), point(ConfThreshold + 2)>>, <<>>>>

\* The three outputs of every scale are what they are taken for.
HeadsHold(layout) ==
    \A s \in 1 .. 3 :
        LET head == Resolve(layout, s)
        IN /\ head.ok
           /\ layout[head.score].holds = <<"score", Strides[s]>>
           /\ layout[head.bbox].holds = <<"bbox", Strides[s]>>
           /\ layout[head.kps].holds = <<"kps", Strides[s]>>

\* What scrfd_postprocess reads at the anchors: of other tensors it reads anything, here nothing
\* or a face in the corner.
PointsRead(layout, face, box) ==
    LET corner == [x1 |-> 0, y1 |-> 0, x2 |-> 1, y2 |-> 1, kps |-> [x |-> 0, y |-> 0], score |-> ConfThreshold + 3]
    IN IF HeadsHold(layout) THEN {PointsOf(face, box)}
       ELSE {<<<<>>, <<>>, <<>>>>, <<<<corner>>, <<corner>>, <<corner>>>>}

\* ScrfdAdapter::Postprocess, and the drawing of its lines.
DetectFaces ==
    /\ Called("face")
    /\ \E points \in PointsRead(input.layout, input.face, LetterboxResize(input.size, ModelWidth)) :
       LET faces == ScrfdPostprocess(input.layout, points, LetterboxResize(input.size, ModelWidth))
       IN output' = [faces |-> faces, face |-> FaceDetected(faces), shapes |-> Apply(input.size, FaceLines(faces), FALSE)]
    /\ UNCHANGED input

\* middle_process.
AlignSounds ==
    /\ Called("exp")
    /\ output' = MiddleProcess([i \in Sounds |-> IF i \in DOMAIN input.exp THEN input.exp[i] ELSE 0],
                               [i \in Sounds |-> IF i \in DOMAIN input.exp THEN 1 ELSE 0],
                               input.percent)
    /\ UNCHANGED input

\* SynthesizeTextStreaming up to the encoder.
SpeakText ==
    /\ Called("text")
    /\ LET sentences == SentencesOf(input.text, input.latin)
       IN output' = [sentences |-> sentences,
                     spoken |-> [i \in DOMAIN sentences |-> EncoderInput(sentences[i])]]
    /\ UNCHANGED input

\* How config/default.yaml is written: a line has its depth, its key (none on a line that is only a
\* comment), a value of some form (a section has none), and perhaps a comment at its end.
Quote(text) == <<DoubleQuote>> \o text \o <<DoubleQuote>>

Spell(value) == IF value.quoted THEN Quote(value.text) ELSE value.text

Elements(values) ==
    FlattenSeq([i \in DOMAIN values |-> (IF i = 1 THEN <<>> ELSE <<ElementEnd, White>>) \o Spell(values[i])])

ValueOf(line) ==
    CASE line.form = "scalar" -> Spell(line.value[1])
      [] line.form = "list"   -> <<ListBegin>> \o Elements(line.value) \o <<ListEnd>>
      [] OTHER -> <<>>

Body(line) == IF line.form = "remark" THEN <<>> ELSE <<line.key, KeyEnd, White>> \o ValueOf(line)

Comment(line) == IF line.comment THEN <<White, Hash, "x", KeyEnd, SingleQuote>> ELSE <<>>

Written(line) == [i \in 1 .. line.indent |-> White] \o Body(line) \o Comment(line)

\* LoadFromFile.
ReadConfig ==
    /\ Called("lines")
    /\ output' = [tree |-> LoadFromFile([n \in DOMAIN input.lines |-> Written(input.lines[n])])]
    /\ UNCHANGED input

Next ==
    \/ DetectObjects
    \/ FitFrame
    \/ DetectFaces
    \/ AlignSounds
    \/ SpeakText
    \/ ReadConfig

Spec == Init /\ [][Next]_vars

Answered(field) == field \in DOMAIN output

-----------------------------------------------------------------------------
(* Properties *)

Best(candidates, i, j) == candidates[i].score >= candidates[j].score

\* kept are the best of the candidates, person says whether one of them is.
BestOf(candidates, kept, person) ==
    /\ \A a, b \in DOMAIN kept : a < b =>
          /\ Best(candidates, kept[a], kept[b])
          /\ candidates[kept[a]].class = candidates[kept[b]].class =>
                ~Overlapping(candidates[kept[a]].box, candidates[kept[b]].box)
    /\ Len(kept) <= MaxResults
    /\ person = \E c \in Range(kept) : candidates[c].class = 1 /\ candidates[c].score >= PersonThreshold
    /\ candidates # <<>> => kept # <<>> /\ \A i \in DOMAIN candidates : Best(candidates, kept[1], i)
    /\ Len(kept) < MaxResults => \A i \in DOMAIN candidates \ Range(kept) :
          \E j \in DOMAIN candidates \ {i} :
             /\ Best(candidates, j, i)
             /\ Overlapping(candidates[j].box, candidates[i].box)

\* What is reported of the candidates is in falling order of their score, begins with the best
\* one, holds no two boxes of one class that cover each other, no more than the list has room
\* for, and leaves out only what a box at least as good covers (quick_sort_indice_inverse, nms).
BestBoxesReported ==
    Answered("reported") => BestOf(output.candidates, output.reported, output.person)

Clear(q) == 10 * Real(q) >= BoxThreshold + 10

Hopeless(q) == 10 * Real(q) <= BoxThreshold - 10

\* Both of the cell are a quantum above the threshold, their product is above it too.
Sure(cell) ==
    /\ Clear(cell.conf) /\ \E p \in Range(cell.probs) : Clear(p)
    /\ \E p \in Range(cell.probs) : 10 * Real(p) * Real(cell.conf) > BoxThreshold * Quanta

Possible(cell) == ~Hopeless(cell.conf) /\ \E p \in Range(cell.probs) : ~Hopeless(p)

\* One of the candidates is the cell, under the class it is surest of.
Among(cell, candidates) ==
    \E c \in Range(candidates) :
        /\ c.box = cell.box
        /\ \A k \in DOMAIN cell.probs :
              /\ cell.probs[k] <= cell.probs[c.class]
              /\ cell.probs[k] = cell.probs[c.class] => c.class <= k

SureOnes(cells, candidates) ==
    /\ \A cell \in Range(cells) : Sure(cell) => Among(cell, candidates)
    /\ Len(candidates) <= Cardinality({i \in DOMAIN cells : Possible(cells[i])})

\* Whatever the format of the output tensors, a cell that is a quantum above the threshold in
\* both is a candidate, under the class it is surest of, and one a quantum below is none
\* (process_i8, process_fp32 and their siblings; rv1106 asks more of the product).
SureCellsAreCandidates ==
    Answered("candidates") => SureOnes(input.cells, output.candidates)

\* box holds the whole frame src, shows its pixels only, and is mapped back to where it was
\* taken from, less at most what the alignment of the size has cut off.
Fits(src, box) ==
    LET slack(step) == (step * box.scale.den) \div box.scale.num + 1
    IN /\ box.size.w > 0 /\ box.x_pad + box.size.w <= Model.w
       /\ box.size.h > 0 /\ box.y_pad + box.size.h <= Model.h
       /\ \A x \in 0 .. Model.w - 1, y \in 0 .. Model.h - 1 :
             /\ Shows(src, box, x, y) \subseteq (0 .. src.w - 1) \X (0 .. src.h - 1)
             /\ (Shows(src, box, x, y) # {}) =
                    (x - box.x_pad \in 0 .. box.size.w - 1 /\ y - box.y_pad \in 0 .. box.size.h - 1)
       /\ \A x \in 0 .. box.size.w - 1, y \in 0 .. box.size.h - 1 :
             LET from == TakenFrom(src, box.size, x, y)
                 backX == ToFrame(x + box.x_pad, box.x_pad, Model.w, box.scale)
                 backY == ToFrame(y + box.y_pad, box.y_pad, Model.h, box.scale)
             IN /\ from.x - backX \in 0 .. slack(4) /\ from.y - backY \in 0 .. slack(2)

\* The frame lies wholly inside the model's input, every pixel it is mixed of is a pixel of the
\* frame, and post_process brings a place of the input back to where it was taken from, up to
\* what the alignment of the size has cut off (convert_image_with_letterbox).
FrameFitsModel == Answered("box") => Fits(input.frame, output.box)

\* Every one of the nine outputs has its name.
NamedLayout(layout) ==
    \A kind \in Range(Kinds), stride \in Range(Strides) :
        \E i \in DOMAIN layout : layout[i].name = <<kind, stride>>

\* [score_8, score_16, score_32, bbox_8, ..., kps_32]
GroupedLayout(layout) ==
    Len(layout) >= 9 /\ \A k, s \in 1 .. 3 : layout[3 * k - 3 + s].holds = <<Kinds[k], Strides[s]>>

\* [score_8, bbox_8, kps_8, score_16, ...]
InterleavedLayout(layout) ==
    Len(layout) >= 9 /\ \A k, s \in 1 .. 3 : layout[3 * s - 3 + k].holds = <<Kinds[k], Strides[s]>>

\* The corners of found are those of face, less at most a pixel of the model, and one of the frame
\* more where the corner is a sum.
DrawnAt(found, face, box) ==
    LET slack(orig, new) == (orig + new - 1) \div new
    IN /\ face.x1 - found.x1 \in 0 .. slack(box.orig_w, box.new_w)
       /\ face.y1 - found.y1 \in 0 .. slack(box.orig_h, box.new_h)
       /\ face.x2 - found.x2 \in 0 .. slack(box.orig_w, box.new_w) + 1
       /\ face.y2 - found.y2 \in 0 .. slack(box.orig_h, box.new_h) + 1

\* A face that one scale sees twice is reported once, with the better score, and drawn where it
\* is in the frame, when every output of the model has its name, in whatever order they come, or
\* the outputs come grouped by what they hold, with whatever names (scrfd_postprocess).
FaceFoundWhereItIs ==
    Answered("faces") /\ (NamedLayout(input.layout) \/ GroupedLayout(input.layout)) =>
        /\ HeadsHold(input.layout)
        /\ Len(output.faces) = 1
        /\ output.faces[1].score = ConfThreshold + 2
        /\ DrawnAt(output.faces[1], input.face, LetterboxResize(input.size, ModelWidth))
        /\ output.face /\ Len(output.shapes) = 1

\* The outputs of a model that interleaves them are read as what they are
\* (ResolveScrfdHeadOutputs means to take this order as well as the grouped one).
InterleavedIsRead ==
    Answered("faces") /\ InterleavedLayout(input.layout) => HeadsHold(input.layout)

\* The whole frames each sound needs, counted.
GivenTo(exp, percent) ==
    LET length(i) == IF i \in DOMAIN exp THEN exp[i] * percent ELSE 0
    IN [i \in Sounds |-> Cardinality({n \in 0 .. length(i) : 1000 * n < length(i)})]

\* Where each sound ends when one follows the other.
Ends(given) ==
    LET ends[i \in 0 .. MaxLength] == IF i = 0 THEN 0 ELSE ends[i - 1] + given[i]
    IN ends

Follows(answer, given, ends) ==
    LET owners(j) == {i \in Sounds : answer.attn[j][i] # 0}
        total == ends[MaxLength]
    IN /\ \A j \in Frames :
             /\ \A i \in Sounds : answer.attn[j][i] \in {0, 1}
             /\ Cardinality(owners(j)) = (IF j < Min({answer.real, total}) THEN 1 ELSE 0)
       /\ \A j, k \in Frames : j < k => \A a \in owners(j), b \in owners(k) : a <= b
       /\ answer.real = Min({PredictedLengthsMax, Max({1, total})})
       /\ total <= PredictedLengthsMax =>
             \A i \in Sounds : Cardinality({j \in Frames : i \in owners(j)}) = given[i]

\* Every frame of the answer up to its length belongs to exactly one sound, the sounds come in
\* their order, each for as many frames as it was given unless the list is cut, and what lies
\* behind belongs to none (middle_process).
FramesFollowDurations ==
    Answered("attn") =>
        LET given == GivenTo(input.exp, input.percent) IN Follows(output, given, Ends(given))

\* The characters that are spoken: no blank and no mark, in a latin text nothing it is cut at and
\* no letter that is written with a byte of a bracket.
Spoken(latin) ==
    Chars \ ({Space, "cut"} \cup (IF latin THEN Bracket \cup {".", "zstop"} \cup Fragile \cup Broken ELSE {}))

Solid(s, latin) == Narrow(Only(s, Spoken(latin)))

Carries(sentences, text, latin) ==
    /\ Solid(FlattenSeq(sentences), latin) = Solid(text, latin)
    /\ ~latin => \A i \in DOMAIN sentences : Len(sentences[i]) <= 2 => Len(sentences) = 1
    /\ Len(sentences) > 1 => \A i \in DOMAIN sentences : sentences[i] # <<>>

\* Where a wide letter stands, or the first of a run of latin ones.
WordStarts(s) ==
    {i \in DOMAIN s : /\ s[i] \in LatinLetters \cup WideLetters
                      /\ i > 1 => ~({s[i - 1], s[i]} \subseteq LatinLetters)}

\* The places of the sounds in what the encoder is given.
SoundsAt(given) == {k \in 1 .. given.phone_len : k % 2 = 0 /\ given.phones[k] # Blank[1]}

Voiced(sentence, given) ==
    LET padded == <<Space>> \o sentence \o <<Space>>
        all == Convert(padded)
    IN /\ Len(given.phones) = MaxPhones
       /\ given.phone_len = 2 * Len(all) + 1
       /\ \A k \in 1 .. Min({MaxPhones, given.phone_len}) :
             given.phones[k] = IF k % 2 = 0 THEN all[k \div 2] ELSE 0
       /\ given.phone_len <= MaxPhones /\ Broken \cap Range(sentence) = {} =>
             Cardinality(SoundsAt(given)) >= Cardinality(WordStarts(padded))

\* The sentences carry the whole text of the segment in its order (a latin one but for the
\* letters written with a byte of a bracket), none is so short that it could have joined the
\* next.  The encoder is given the sounds of a sentence with a blank on either side of each, as
\* many as it has room for, and when it has room for all and no letter is broken, one for every
\* word at least (split_sentence, Lexicon::convert, Intersperse, PadOrTrim).
SpeechCarriesText ==
    Answered("sentences") =>
        /\ Carries(output.sentences, input.text, input.latin)
        /\ \A i \in DOMAIN output.sentences : Voiced(output.sentences[i], output.spoken[i])

Settings(lines) == {n \in DOMAIN lines : lines[n].form # "remark"}

\* The line that opens the section line n stands in, 0 for the root: the last section less deep
\* than n that nothing as shallow as itself has closed.
SectionOf(lines, n) ==
    Max({0} \cup {m \in Settings(lines) :
                     /\ m < n /\ lines[m].form = "section"
                     /\ \A k \in Settings(lines) : m < k /\ k <= n => lines[k].indent > lines[m].indent})

\* The names of the sections a line stands in, and its own.
PathsIn(lines) ==
    LET path[n \in 0 .. Len(lines)] ==
            IF n = 0 THEN <<>> ELSE Append(path[SectionOf(lines, n)], <<lines[n].key>>)
    IN path

\* What main() is given when it asks for path is what the text says: a number as an int, a switch
\* and a text of few digits that reads as the same number, a switch whatever the default.
ScalarSays(tree, path, text) ==
    IF IsNumber(text)
    THEN /\ GetInt(tree, path, -1) = IntOf(ToNumber(text))
         /\ GetBool(tree, path, FALSE) = (ToNumber(text) # Zero)
         /\ Exact(ToNumber(text)) =>
               /\ IsNumber(GetString(tree, path, <<"y">>))
               /\ ToNumber(GetString(tree, path, <<"y">>)) = ToNumber(text)
    ELSE /\ GetString(tree, path, <<"y">>) = text
         /\ text = <<"true">> => \A default \in BOOLEAN : GetBool(tree, path, default)
         /\ text = <<"false">> => \A default \in BOOLEAN : ~GetBool(tree, path, default)

ListSays(tree, path, values) ==
    LET read == FindNode(tree, path).arr
        ints == GetIntArray(tree, path)
    IN /\ DOMAIN read = DOMAIN values /\ DOMAIN ints = DOMAIN values
       /\ \A i \in DOMAIN values :
             IF IsNumber(values[i].text) THEN ints[i] = IntOf(ToNumber(values[i].text))
             ELSE read[i].str = values[i].text

SaysOf(tree, path, line) ==
    CASE line.form = "section" -> GetString(tree, path, <<"y">>) = <<"y">>
      [] line.form = "scalar"  -> ScalarSays(tree, path, line.value[1].text)
      [] line.form = "list"    -> ListSays(tree, path, line.value)

\* A line is found under the names of the sections it stands in, with the value it was written
\* with, in quotes or without: of several with one path the last counts, a number is a number and
\* a switch a switch, a list keeps its elements, a quotation the # and the comma it holds, and a
\* comment leaves no trace (LoadFromFile, find_node, parse_value, GetBool, GetIntArray).
ConfigAsWritten ==
    Answered("tree") =>
        LET lines == input.lines
            path == PathsIn(lines)
        IN /\ DOMAIN output.tree = {<<>>} \cup {path[n] : n \in Settings(lines)}
           /\ \A n \in Settings(lines) :
                 (\A m \in Settings(lines) : m > n => path[m] # path[n]) => SaysOf(output.tree, path[n], lines[n])

\* Every cell that no better cell of its own class covers is drawn under the name of that class.
SeenIsDrawn ==
    Answered("candidates") =>
        \A i \in DOMAIN output.candidates :
            (\A j \in DOMAIN output.candidates \ {i} :
                ~/\ output.candidates[j].class = output.candidates[i].class
                 /\ Best(output.candidates, j, i)
                 /\ Overlapping(output.candidates[j].box, output.candidates[i].box))
            => \E shape \in Range(output.shapes) :
                  shape.label = Word(ClassNames[output.candidates[i].class][1])
=============================================================================

------------------------------ MODULE ConfigFile ------------------------------
(***************************************************************************)
(* app/config_parser.h: from the lines of config/default.yaml to the       *)
(* values main() asks for by path.                                         *)
(*                                                                         *)
(* A line is a sequence of characters.  One blank stands for every white   *)
(* space; a word of a switch, "true" or "On", is one character.  A number  *)
(* is written with digits and perhaps a point, without a sign or an        *)
(* exponent, and fits an int.  A node of the tree is kept under the path   *)
(* that leads to it.                                                       *)
(***************************************************************************)
EXTENDS Integers, FiniteSets, SequencesExt, FiniteSetsExt, Lists

White == " "
SingleQuote == "'"
DoubleQuote == "\""
Backslash == "\\"
Hash == "#"
KeyEnd == ":"
ElementEnd == ","
ListBegin == "["
ListEnd == "]"
Point == "."
DigitSigns == <<"0", "1", "2", "3", "4", "5", "6", "7", "8", "9">>
Digits == {"0", "1", "2", "3", "4", "5", "6", "7", "8", "9"}

\* trim.
Trim(s) == LET solid == {i \in DOMAIN s : s[i] # White}
           IN IF solid = {} THEN <<>> ELSE SubSeq(s, Min(solid), Max(solid))

-----------------------------------------------------------------------------
(* Quotes: strip_inline_comment, split_array_elements, unquote_if_needed *)

\* What one character does to the quotation; a character is escaped in a double one only.
AfterChar(quote, c) ==
    CASE quote = "escaped"                       -> "double"
      [] quote = "double" /\ c = Backslash       -> "escaped"
      [] quote = "double" /\ c = DoubleQuote     -> "none"
      [] quote = "single" /\ c = SingleQuote     -> "none"
      [] quote = "none" /\ c = SingleQuote       -> "single"
      [] quote = "none" /\ c = DoubleQuote       -> "double"
      [] OTHER                                   -> quote

\* One character more: a mark that is not quoted closes the part that is open.
ReadChar(state, c, mark) ==
    IF c = mark /\ state.quote = "none"
    THEN [done |-> Append(state.done, state.open), open |-> <<>>, quote |-> "none"]
    ELSE [done |-> state.done, open |-> Append(state.open, c), quote |-> AfterChar(state.quote, c)]

NothingRead == [done |-> <<>>, open |-> <<>>, quote |-> "none"]

\* What stands before, between and after the marks that are not quoted.
PartsOutside(s, mark) ==
    LET read[n \in 0 .. Len(s)] == IF n = 0 THEN NothingRead ELSE ReadChar(read[n - 1], s[n], mark)
    IN Append(read[Len(s)].done, read[Len(s)].open)

\* strip_inline_comment.
StripInlineComment(s) == Trim(Head(PartsOutside(s, Hash)))

\* split_array_elements: the parts that are not empty.
SplitArrayElements(s) ==
    LET parts == PartsOutside(s, ElementEnd)
        trimmed == [k \in DOMAIN parts |-> Trim(parts[k])]
    IN Taken(trimmed, {k \in DOMAIN trimmed : trimmed[k] # <<>>})

\* Whether the two ends are the pair.
Enclosed(s, first, last) == Len(s) >= 2 /\ s[1] = first /\ s[Len(s)] = last

Inner(s) == SubSeq(s, 2, Len(s) - 1)

\* unquote_if_needed.
UnquoteIfNeeded(s) ==
    IF Enclosed(s, DoubleQuote, DoubleQuote) \/ Enclosed(s, SingleQuote, SingleQuote) THEN Inner(s) ELSE s

-----------------------------------------------------------------------------
(* Values: is_number, parse_value *)

\* strtod takes blanks before a number and none after it.
IsNumber(s) ==
    LET solid == {i \in DOMAIN s : s[i] # White}
    IN /\ \E i \in DOMAIN s : s[i] \in Digits
       /\ \A i \in Min(solid) .. Len(s) : s[i] \in Digits \cup {Point}
       /\ \A i, j \in DOMAIN s : s[i] = Point /\ s[j] = Point => i = j

Counting(digits) == {i \in DOMAIN digits : digits[i] # "0"}

NoLeading(digits) ==
    IF Counting(digits) = {} THEN <<>> ELSE SubSeq(digits, Min(Counting(digits)), Len(digits))

NoTrailing(digits) ==
    IF Counting(digits) = {} THEN <<>> ELSE SubSeq(digits, 1, Max(Counting(digits)))

\* A number is the digits before its point and behind it, without the zeros that do not count.
ToNumber(s) ==
    LET t == Trim(s)
        points == {i \in DOMAIN t : t[i] = Point}
        point == IF points = {} THEN Len(t) + 1 ELSE Min(points)
    IN [whole |-> NoLeading(SubSeq(t, 1, point - 1)), frac |-> NoTrailing(SubSeq(t, point + 1, Len(t)))]

Zero == [whole |-> <<>>, frac |-> <<>>]

Node(type, str, num, elements) == [type |-> type, str |-> str, num |-> num, arr |-> elements]

Scalar(s) ==
    LET unquoted == UnquoteIfNeeded(s)
    IN IF IsNumber(unquoted) THEN Node("Number", <<>>, ToNumber(unquoted), <<>>)
                             ELSE Node("String", unquoted, Zero, <<>>)

\* parse_value.  An array in an array is not used.
ParseValue(s) ==
    IF Enclosed(s, ListBegin, ListEnd)
    THEN LET elements == SplitArrayElements(Inner(s))
         IN Node("Array", <<>>, Zero, [i \in DOMAIN elements |-> Scalar(elements[i])])
    ELSE Scalar(s)

-----------------------------------------------------------------------------
(* LoadFromFile *)

\* The number of blanks a line begins with.
Indent(line) == IF Trim(line) = <<>> THEN Len(line)
                ELSE Min({i \in DOMAIN line : line[i] # White}) - 1

Content(line) == StripInlineComment(line)

\* Where the key ends; 0 when the line is none that is read.
Colon(line) ==
    LET colons == {i \in DOMAIN Content(line) : Content(line)[i] = KeyEnd}
        colon == IF colons = {} THEN 0 ELSE Min(colons)
    IN IF colon > 0 /\ Trim(SubSeq(Content(line), 1, colon - 1)) # <<>> THEN colon ELSE 0

Key(line) == Trim(SubSeq(Content(line), 1, Colon(line) - 1))
Val(line) == Trim(SubSeq(Content(line), Colon(line) + 1, Len(Content(line))))

\* Mutation: a line as deep as the section before it belongs to that section.
EnclosingDeep(stack, indent) ==
    LET open == {k \in DOMAIN stack : k = 1 \/ stack[k].indent <= indent}
    IN SubSeq(stack, 1, Max({k \in DOMAIN stack : 1 .. k \subseteq open}))

\* The sections a line is in: those as deep as it or deeper are closed, never the root.
Enclosing(stack, indent) ==
    LET open == {k \in DOMAIN stack : k = 1 \/ stack[k].indent < indent}
    IN SubSeq(stack, 1, Max(open))

\* One turn of the loop.  What a node was before keeps what is below it.
LoadLine(state, line) ==
    IF Colon(line) = 0 THEN state
    ELSE LET stack == Enclosing(state.stack, Indent(line))
             path == Append(stack[Len(stack)].path, Key(line))
             opens == Val(line) = <<>>
             node == IF opens THEN Node("Object", <<>>, Zero, <<>>) ELSE ParseValue(Val(line))
         IN [stack |-> IF opens THEN Append(stack, [path |-> path, indent |-> Indent(line)]) ELSE stack,
             tree |-> [p \in DOMAIN state.tree \cup {path} |->
                          IF p = path THEN node ELSE state.tree[p]]]

Root == [stack |-> <<[path |-> <<>>, indent |-> 0]>>,
         tree |-> [p \in {<<>>} |-> Node("Object", <<>>, Zero, <<>>)]]

\* LoadFromFile of a file that is there.
LoadFromFile(lines) ==
    LET loaded[n \in 0 .. Len(lines)] == IF n = 0 THEN Root ELSE LoadLine(loaded[n - 1], lines[n])
    IN loaded[Len(lines)].tree

-----------------------------------------------------------------------------
(* find_node and the functions that give a value *)

\* A node that is not there is one of no type.
FindNode(tree, path) == IF path \in DOMAIN tree THEN tree[path] ELSE Node("Null", <<>>, Zero, <<>>)

\* static_cast<int>: the digits behind the point are cut off.
IntOf(num) ==
    LET sum[n \in 0 .. Len(num.whole)] ==
            IF n = 0 THEN 0 ELSE 10 * sum[n - 1] + (CHOOSE d \in 0 .. 9 : DigitSigns[d + 1] = num.whole[n])
    IN sum[Len(num.whole)]

\* Six digits and three zeros behind the point are written as they are.
Exact(num) ==
    LET digits == num.whole \o num.frac
        counting == NoLeading(digits)
    IN Len(counting) <= 6 /\ Len(digits) - Len(counting) <= 3

\* oss << num_val_: a number that needs more is rounded, or has an exponent.
Printed(num) ==
    IF Exact(num)
    THEN (IF num.whole = <<>> THEN <<"0">> ELSE num.whole)
            \o (IF num.frac = <<>> THEN <<>> ELSE <<Point>> \o num.frac)
    ELSE <<"rounded">>

GetString(tree, path, default) ==
    LET node == FindNode(tree, path)
    IN CASE node.type = "String" -> node.str
         [] node.type = "Number" -> Printed(node.num)
         [] OTHER -> default

\* A text that reads as a number is a Number.
GetInt(tree, path, default) ==
    LET node == FindNode(tree, path) IN IF node.type = "Number" THEN IntOf(node.num) ELSE default

SmallLetters == [True |-> "true", Yes |-> "yes", On |-> "on", False |-> "false", No |-> "no", Off |-> "off"]

\* std::tolower, of the words that matter.
Lowered(text) == [i \in DOMAIN text |-> IF text[i] \in DOMAIN SmallLetters THEN SmallLetters[text[i]] ELSE text[i]]

\* The texts 1 and 0 are Numbers.
GetBool(tree, path, default) ==
    LET node == FindNode(tree, path)
        word == Lowered(node.str)
    IN CASE node.type = "Number" -> node.num # Zero
         [] node.type = "String" /\ word \in {<<"true">>, <<"yes">>, <<"on">>} -> TRUE
         [] node.type = "String" /\ word \in {<<"false">>, <<"no">>, <<"off">>} -> FALSE
         [] OTHER -> default

\* as_int of an element that is no number is zero.
GetIntArray(tree, path) ==
    LET node == FindNode(tree, path)
    IN IF node.type = "Array" THEN [i \in DOMAIN node.arr |-> IntOf(node.arr[i].num)] ELSE <<>>
=============================================================================

------------------------------ MODULE MCKernels ------------------------------
(***************************************************************************)
(* The inputs of Kernels that TLC enumerates: a model of 32 by 32 pixels   *)
(* that knows two classes, four sounds in eight frames, segments of up     *)
(* to four characters, files of up to four lines.                          *)
(***************************************************************************)
EXTENDS Kernels

UpTo(S, n) == UNION {[1 .. k -> S] : k \in 1 .. n}

Box(x, y, side) == [x |-> x, y |-> y, w |-> side, h |-> side]

MCCellLists ==
    UpTo([conf : {3, 12}, probs : {<<8, 3>>, <<3, 8>>, <<6, 6>>},
          box : {Box(2, 8, 10), Box(4, 8, 10)}], 3)
        \cup UpTo([conf : {4, 9}, probs : {<<9, 2>>}, box : {Box(2, 8, 6), Box(9, 8, 6), Box(16, 8, 6)}], 3)

\* A person behind a traffic light, both seen well.
MCHidden == {<<[conf |-> 9, probs |-> <<11, 2>>, box |-> Box(2, 8, 10)],
               [conf |-> 12, probs |-> <<2, 11>>, box |-> Box(3, 8, 10)]>>}

MCSizes == {[w |-> 48, h |-> 36], [w |-> 36, h |-> 48], [w |-> 40, h |-> 40], [w |-> 65, h |-> 37], [w |-> 24, h |-> 20]}

MCLabelLines == <<<<"person">>, <<"traffic", "light">>, <<"bicycle">>>>

Output(kind, stride, named) ==
    [name |-> IF named THEN <<kind, stride>> ELSE <<"", 0>>, holds |-> <<kind, stride>>,
     buf |-> TRUE, whole |-> stride # 32]

ByKind(Named(_)) ==
    [n \in 1 .. 9 |-> Output(Kinds[(n + 2) \div 3], Strides[((n - 1) % 3) + 1], Named(n))]

ByScale(Named(_)) ==
    [n \in 1 .. 9 |-> Output(Kinds[((n - 1) % 3) + 1], Strides[(n + 2) \div 3], Named(n))]

\* The order the comments name beside the grouped one.
MCInterleaved == {ByScale(LAMBDA n : FALSE)}

MCLayouts == MCInterleaved \cup
             {ByKind(LAMBDA n : FALSE), ByKind(LAMBDA n : n % 3 = 1), ByKind(LAMBDA n : n <= 4),
              ByScale(LAMBDA n : TRUE), Reverse(ByKind(LAMBDA n : TRUE)),
              ByScale(LAMBDA n : n % 3 = 1), SubSeq(ByKind(LAMBDA n : FALSE), 1, 8)}

MCFaceAt == {[x1 |-> 4, y1 |-> 6, x2 |-> 20, y2 |-> 24], [x1 |-> 0, y1 |-> 0, x2 |-> 12, y2 |-> 12],
             [x1 |-> 10, y1 |-> 3, x2 |-> 31, y2 |-> 30]}

MCDurationLists == UpTo({0, 4, 10, 27}, 4)
MCSpeeds == {50, 100, 115}

MCTexts == UpTo({"z", "a", "zstop", "!", " "}, 4) \cup UpTo({"z", "<", ".", "A"}, 3)
              \cup {a \o b : a \in UpTo({"z", "zcomma"}, 3), b \in UpTo({"b", " ", "!"}, 3)}
              \cup UpTo({"b", "u^", "zz", "."}, 4)

MCLexicon == [w \in {<<" ">>, <<"z">>, <<"zz">>, <<"a">>, <<"b">>, <<"a", "b">>, <<".">>, <<",">>, <<"!">>} |->
                 CASE w = <<" ">> -> <<9>> [] w = <<"z">> -> <<1, 2>> [] w = <<"zz">> -> <<8>> [] w = <<"a">> -> <<3>>
                   [] w = <<"b">> -> <<4>> [] w = <<"a", "b">> -> <<5, 6>> [] OTHER -> <<7>>]

Line(indents, keys, form, value, comments) ==
    [indent : indents, key : keys, form : {form}, value : {value}, comment : comments]

Bare(text) == [quoted |-> FALSE, text |-> text]
Quoted(text) == [quoted |-> TRUE, text |-> text]

\* The values of config/default.yaml, in small.
MCScalars == {Bare(text) : text \in {<<"x">>, <<".", "/", "x", ":", "y">>, <<"x", " ", "y">>, <<"true">>, <<"false">>,
                                      <<"On">>, <<"3", "5">>, <<"0">>, <<"1", ".", "1", "5">>, <<"0", ".", "0", "5", "0">>,
                                      <<"1", "2", "3", "4", "5", "6", "7">>, <<".">>, <<"1", ".", "1", ".">>}}
                 \cup {Quoted(text) : text \in {<<>>, <<"x", "#", "1", ",">>, <<"x", "'", "#">>, <<" ", "0", "7">>,
                                                <<"[", "x", "]">>}}

MCLists == {<<Bare(<<"0">>), Bare(<<"1">>)>>, <<Quoted(<<"x", ",", "#">>), Bare(<<"y">>), Bare(<<"1", "2">>)>>, <<>>}

MCFiles ==
    LET lines(keys, comments) ==
            Line(0 .. 2, keys, "section", <<>>, comments)
                \cup Line(0 .. 2, keys, "scalar", <<Bare(<<"1", "0">>)>>, comments)
        values == UNION {Line({0, 1}, {"x"}, "scalar", <<value>>, BOOLEAN) : value \in MCScalars}
                     \cup UNION {Line({1}, {"y"}, "list", list, BOOLEAN) : list \in MCLists}
                     \cup Line({0, 2}, {"x"}, "remark", <<>>, {TRUE})
                     \cup Line({0}, {"y"}, "section", <<>>, {TRUE})
    IN UpTo(lines({"x", "y"}, {FALSE}), 3) \cup UpTo(lines({"x"}, {FALSE}), 4) \cup UpTo(values, 2)
=============================================================================

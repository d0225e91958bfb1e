--------------------------------- MODULE Lists ---------------------------------
(***************************************************************************)
(* Lists that are filled by a loop over another list: SelectSeq with its   *)
(* recursion spelt out and its test a set, so that it can be reasoned      *)
(* about.                                                                  *)
(***************************************************************************)
EXTENDS Integers, Sequences

\* The elements of s that stand at these places, in their order.
Taken(s, places) ==
    LET taken[n \in 0 .. Len(s)] ==
            IF n = 0 THEN <<>>
            ELSE IF n \in places THEN Append(taken[n - 1], s[n]) ELSE taken[n - 1]
    IN taken[Len(s)]

\* The elements of s that are of this kind.
Only(s, kind) ==
    LET kept[i \in 0 .. Len(s)] ==
            IF i = 0 THEN <<>>
            ELSE IF s[i] \in kind THEN Append(kept[i - 1], s[i]) ELSE kept[i - 1]
    IN kept[Len(s)]
=============================================================================

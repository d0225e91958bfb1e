----------------------------- MODULE DurationAlign -----------------------------
(***************************************************************************)
(* adapters/melotts/melotts_process.cc: from the durations the encoder     *)
(* predicts to the attention the decoder is given.  A duration is what     *)
(* exp(log_w) is, in tenths of a frame at speed one; a matrix maps a       *)
(* sound to its row, and a row maps the frames (the transposed one the     *)
(* other way round).  Only frames a float can count exactly occur.         *)
(***************************************************************************)
EXTENDS Integers, FiniteSets, SequencesExt, FiniteSetsExt

CONSTANTS MaxLength,              \* MAX_LENGTH and LOG_DURATION_SIZE
          PredictedLengthsMax     \* PREDICTED_LENGTHS_MAX

ASSUME AlignAssumption == {MaxLength, PredictedLengthsMax} \subseteq Nat \ {0}

Sounds == 1 .. MaxLength
Frames == 0 .. PredictedLengthsMax - 1

\* compute_output_padding_mask.
OutputMask(real) == [j \in Frames |-> IF j < real THEN 1 ELSE 0]

\* compute_attn_mask.
AttnMask(yMask, xMask) == [i \in Sounds |-> [j \in Frames |-> yMask[j] * xMask[i]]]

\* Mutation: what is left of a frame is dropped.
DurationFloor(exp, xMask, percent) ==
    [i \in Sounds |-> (exp[i] * xMask[i] * percent) \div 1000]

\* compute_duration: ceil of the duration at length_scale, in percent.
Duration(exp, xMask, percent) ==
    [i \in Sounds |-> (exp[i] * xMask[i] * percent + 999) \div 1000]

\* cumsum.
CumSum(w) == LET sum[i \in 0 .. MaxLength] == IF i = 0 THEN 0 ELSE sum[i - 1] + w[i]
             IN [i \in Sounds |-> sum[i]]

\* compute_valid_indices: the frames before the end of a sound.
ValidIndices(cum) == [i \in Sounds |-> [j \in Frames |-> IF j < cum[i] THEN 1 ELSE 0]]

\* compute_pad_indices: a row less the row before it, the first less a row of zeros.
PadIndices(valid) ==
    [i \in Sounds |-> [j \in Frames |-> valid[i][j] - (IF i = 1 THEN 0 ELSE valid[i - 1][j])]]

\* transpose_mul.
TransposeMul(rows, mask) == [j \in Frames |-> [i \in Sounds |-> rows[i][j] * mask[i][j]]]

\* middle_process.
MiddleProcess(exp, xMask, percent) ==
    LET w == Duration(exp, xMask, percent)
        real == Min({PredictedLengthsMax, Max({1, CumSum(w)[MaxLength]})})
        yMask == OutputMask(real)
    IN [real |-> real, y_mask |-> yMask,
        attn |-> TransposeMul(PadIndices(ValidIndices(CumSum(w))), AttnMask(yMask, xMask))]
=============================================================================

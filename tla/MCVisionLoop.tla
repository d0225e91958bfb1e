----------------------------- MODULE MCVisionLoop -----------------------------
(* VisionLoop with every count and clock as small as it can be without losing *)
(* a case: two for a count, so that it is also seen below its threshold.      *)
EXTENDS VisionLoop
=============================================================================

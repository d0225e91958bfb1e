----------------------------- MODULE MCTtsWorker -----------------------------
(* Model-checking instances of TtsWorker: a few sentences, a few preemptions. *)
EXTENDS TtsWorker
=============================================================================

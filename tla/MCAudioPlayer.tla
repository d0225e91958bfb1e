---------------------------- MODULE MCAudioPlayer ----------------------------
(* Model-checking instances of AudioPlayer.                                   *)
EXTENDS AudioPlayer
=============================================================================

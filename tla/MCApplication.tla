----------------------------- MODULE MCApplication -----------------------------
(* The program from its objects to its end, with queues of one or two places;   *)
(* the cfgs give the values.                                                    *)
EXTENDS Application
=============================================================================

-------------------------------- MODULE MCModels --------------------------------
(* The four models, with the frames and sentences it takes for one to follow     *)
(* another; the cfg gives the values.                                            *)
EXTENDS Models
=============================================================================

-------------------------------- MODULE MCRefTM --------------------------------
(* RefTM.tla with three threads, all four locks and two places for segments. *)
EXTENDS RefTM
==============================================================================

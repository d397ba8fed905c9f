----------------------------- MODULE MCEpochSteps -----------------------------
(* EpochSteps.tla for TLC.  The properties do not tell threads or segments  *)
(* apart.                                                                   *)
EXTENDS EpochSteps, TLC

Symmetry == Permutations(Threads) \cup Permutations(Segs)
===============================================================================

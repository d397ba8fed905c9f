--------------------------------- MODULE MCTM ---------------------------------
(* TM.tla with three threads, so that one can open an epoch while two others *)
(* queue and then run side by side in the next one.                          *)
EXTENDS TM, TLC

(* Threads are interchangeable: no property here tells them apart, and all  *)
(* of them are safety properties.                                            *)
Symmetry == Permutations(Threads)
==============================================================================

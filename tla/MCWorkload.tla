------------------------------ MODULE MCWorkload ------------------------------
(* Workload.tla with three workers that make two decrements each in check, *)
(* and two of them with three transactions each in run, on a bank of       *)
(* two accounts per segment. Of the free blocks of memory some are aligned *)
(* to their size, which is 512 bytes, and some overlap when they are not.  *)
EXTENDS Workload
==============================================================================

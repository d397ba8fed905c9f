-------------------------------- MODULE MCSync --------------------------------
(* Bench.tla with two libraries, the reference and one that is tested, and  *)
(* Sync.tla with three workers and three rounds: one of initialisation, one *)
(* of measurements, one of checks.                                          *)
EXTENDS Bench
==============================================================================

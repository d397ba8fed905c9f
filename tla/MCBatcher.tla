------------------------------ MODULE MCBatcher ------------------------------
(* Client.tla with the four threads of tests.c (thread_count, line 402):    *)
(* one opens a batch, three wait and form the next one.                     *)
EXTENDS Client
==============================================================================

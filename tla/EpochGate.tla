------------------------------ MODULE EpochGate ------------------------------
(***************************************************************************)
(* What the batcher promises to transactions (template/batcher.c):         *)
(* transactions run in batches.  The first one to arrive at an idle gate   *)
(* opens a batch of its own; everyone who arrives while a batch runs waits *)
(* in the queue; when the last member of the batch leaves, the epoch is    *)
(* over, the counter moves, and the whole queue becomes the next batch.    *)
(* Nobody ever joins a batch that is already running.                      *)
(*                                                                         *)
(* Batcher.tla implements this with a mutex, a condition variable and three *)
(* counters in the behaviours in which its pthread_cond_wait wakes nobody   *)
(* early, and SpuriousGate.tla in all of them. TM.tla composes it with the  *)
(* transactional memory.                                                   *)
(***************************************************************************)
EXTENDS Integers

CONSTANTS
  Threads,        \* the client threads
  CounterModulus  \* 2^32 in the code: counter is an atomic_int that wraps

VARIABLES
  counter,  \* number of finished epochs, modulo CounterModulus
  batch,    \* threads whose transaction runs in the current epoch
  queue     \* threads that wait for the next epoch

gateVars == <<counter, batch, queue>>

Init ==
  /\ counter = 0
  /\ batch = {}
  /\ queue = {}

(* enter_batcher: open an idle gate, or queue behind the running batch. *)
Enter(t) ==
  /\ t \notin batch \cup queue
  /\ \/ /\ batch = {}
        /\ batch' = {t}
        /\ UNCHANGED queue
     \/ /\ batch # {}
        /\ queue' = queue \cup {t}
        /\ UNCHANGED batch
  /\ UNCHANGED counter

(* leave_batcher of a transaction that others of its batch outlive. *)
LeaveEarly(t) ==
  /\ t \in batch
  /\ batch # {t}
  /\ batch' = batch \ {t}
  /\ UNCHANGED <<counter, queue>>

(* leave_batcher of the last transaction of the batch: the epoch ends. *)
LeaveLast(t) ==
  /\ batch = {t}
  /\ batch' = queue
  /\ queue' = {}
  /\ counter' = (counter + 1) % CounterModulus

Next == \E t \in Threads : Enter(t) \/ LeaveEarly(t) \/ LeaveLast(t)

Spec == Init /\ [][Next]_gateVars
==============================================================================

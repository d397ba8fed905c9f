----------------------------- MODULE SpuriousGate -----------------------------
(***************************************************************************)
(* What the batcher promises when pthread_cond_wait may return although      *)
(* nobody signalled (template/batcher.c:36): the gate of EpochGate.tla, with *)
(* a queue that leaks. A thread that leaks joins the batch that runs, and is *)
(* not counted: the epoch ends when as many transactions have left as it     *)
(* began with, whoever they are, and the rest of the batch runs on into the  *)
(* next one.                                                                 *)
(*                                                                         *)
(* Without a leak this is EpochGate.tla.                                     *)
(***************************************************************************)
EXTENDS EpochGate, FiniteSets

VARIABLE early   \* how many have leaked into the current batch

spuriousVars == <<gateVars, early>>

SpuriousInit == Init /\ early = 0

(* pthread_cond_wait lets t go before its epoch. *)
Leak(t) ==
  /\ t \in queue
  /\ queue' = queue \ {t}
  /\ batch' = batch \cup {t}
  /\ early' = early + 1
  /\ UNCHANGED counter

(* leave_batcher, fewer have left than the epoch began with. *)
LeaveUncounted(t) ==
  /\ LeaveEarly(t)
  /\ Cardinality(batch) > early + 1
  /\ UNCHANGED early

(* leave_batcher that makes up the number: the epoch ends. *)
LeaveCounted(t) ==
  /\ t \in batch
  /\ Cardinality(batch) = early + 1
  /\ batch' = (batch \ {t}) \cup queue
  /\ queue' = {}
  /\ counter' = (counter + 1) % CounterModulus
  /\ early' = 0

SpuriousNext == \E t \in Threads :
  \/ Enter(t) /\ UNCHANGED early
  \/ Leak(t) \/ LeaveUncounted(t) \/ LeaveCounted(t)

SpuriousSpec == SpuriousInit /\ [][SpuriousNext]_spuriousVars
==============================================================================

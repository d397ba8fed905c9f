------------------------------- MODULE Batcher -------------------------------
(***************************************************************************)
(* template/batcher.c at the granularity of its mutex and its condition    *)
(* variable.                                                               *)
(*                                                                         *)
(* remaining, blocked and counter are written only with critsec held, so a *)
(* critical section is one step, except that taking the mutex, the wait    *)
(* inside pthread_cond_wait (which gives the mutex up and takes it again)  *)
(* and epoch_cleanup (the mutex is held, but threads that do not need it   *)
(* run on) are steps of their own.                                         *)
(*                                                                         *)
(* POSIX lets pthread_cond_wait return although nobody signalled, and       *)
(* enter_batcher calls it once, in no loop: a thread it lets go early runs  *)
(* its transaction in the epoch it was to wait for the end of.              *)
(***************************************************************************)
EXTENDS Integers, FiniteSets

CONSTANTS
  Threads,         \* the client threads
  NoThread,        \* "nobody holds critsec"
  CounterModulus   \* 2^32 in the code: counter is an atomic_int that wraps

ASSUME BatcherAssumption ==
  /\ IsFiniteSet(Threads)
  /\ NoThread \notin Threads
  /\ CounterModulus \in Nat \ {0}

VARIABLES
  counter,    \* batcher_t.counter, the epoch number
  remaining,  \* batcher_t.remaining, transactions of the batch still to leave
  blocked,    \* batcher_t.blocked, threads that wait for the next epoch
  critsec,    \* batcher_t.critsec, the thread that holds the mutex
  pc,         \* where each thread is, see Location
  early       \* history, in no guard: the spurious wakeups of this epoch

vars == <<counter, remaining, blocked, critsec, pc, early>>

Location == {
  "outside",   \* runs no transaction
  "entering",  \* enter_batcher, holds critsec
  "waiting",   \* in pthread_cond_wait, not woken yet
  "woken",     \* in pthread_cond_wait, woken, by the broadcast or by nobody,
               \* and has to take critsec again
  "resuming",  \* pthread_cond_wait has returned, holds critsec
  "inside",    \* runs its transaction
  "leaving",   \* leave_batcher, holds critsec
  "cleanup" }  \* leave_batcher, last of its batch, runs epoch_cleanup

At(l) == {t \in Threads : pc[t] = l}

Init ==
  /\ counter = 0
  /\ remaining = 0
  /\ blocked = 0
  /\ critsec = NoThread
  /\ pc = [t \in Threads |-> "outside"]
  /\ early = 0

(* pthread_mutex_lock and pthread_mutex_unlock on critsec, while the thread *)
(* goes from one location to another.                                      *)
Lock(t, from, to) ==
  /\ pc[t] = from
  /\ critsec = NoThread
  /\ critsec' = t
  /\ pc' = [pc EXCEPT ![t] = to]

Unlock(t, from, to) ==
  /\ pc[t] = from
  /\ critsec' = NoThread
  /\ pc' = [pc EXCEPT ![t] = to]

-----------------------------------------------------------------------------
(* enter_batcher *)

EnterLock(t) ==
  /\ Lock(t, "outside", "entering")
  /\ UNCHANGED <<counter, remaining, blocked, early>>

(* Faulty variants of the actions below: what the runs must notice.  Here   *)
(* the opener is not counted, and anyone may join a running batch.          *)
TryOpenUncounted(t) ==
  /\ remaining = 0
  /\ Unlock(t, "entering", "inside")
  /\ UNCHANGED <<counter, remaining, blocked, early>>

TryOpenAnytime(t) ==
  /\ remaining' = remaining + 1
  /\ Unlock(t, "entering", "inside")
  /\ UNCHANGED <<counter, blocked, early>>

(* CAS(&remaining, 0, 1) succeeds: the thread is a batch of its own. *)
TryOpen(t) ==
  /\ remaining = 0
  /\ remaining' = 1
  /\ Unlock(t, "entering", "inside")
  /\ UNCHANGED <<counter, blocked, early>>

(* The CAS fails: count the thread as blocked and go to sleep. *)
Block(t) ==
  /\ remaining # 0
  /\ blocked' = blocked + 1
  /\ Unlock(t, "entering", "waiting")
  /\ UNCHANGED <<counter, remaining, early>>

(* The spurious wakeup: nobody has signalled, and blocked still counts the  *)
(* thread.                                                                  *)
WakeSpuriously(t) ==
  /\ pc[t] = "waiting"
  /\ pc' = [pc EXCEPT ![t] = "woken"]
  /\ early' = early + 1
  /\ UNCHANGED <<counter, remaining, blocked, critsec>>

(* pthread_cond_wait takes the mutex again before it returns ...            *)
Reacquire(t) ==
  /\ Lock(t, "woken", "resuming")
  /\ UNCHANGED <<counter, remaining, blocked, early>>

(* ... and nothing is checked after it: the thread is in the batch.         *)
Resume(t) ==
  /\ Unlock(t, "resuming", "inside")
  /\ UNCHANGED <<counter, remaining, blocked, early>>

-----------------------------------------------------------------------------
(* leave_batcher *)

LeaveLock(t) ==
  /\ Lock(t, "inside", "leaving")
  /\ UNCHANGED <<counter, remaining, blocked, early>>

(* The decrement does not reach 0, CAS(&remaining, 0, blocked) fails. *)
LeaveNotLast(t) ==
  /\ remaining # 1
  /\ remaining' = remaining - 1
  /\ Unlock(t, "leaving", "outside")
  /\ UNCHANGED <<counter, blocked, early>>

(* Faulty: the next batch is not counted. *)
LeaveLastForgetsQueue(t) ==
  /\ pc[t] = "leaving"
  /\ remaining = 1
  /\ remaining' = 0
  /\ pc' = [pc EXCEPT ![t] = "cleanup"]
  /\ UNCHANGED <<counter, blocked, critsec, early>>

(* The last of its batch: the blocked threads are what remains of the next. *)
LeaveLast(t) ==
  /\ pc[t] = "leaving"
  /\ remaining = 1
  /\ remaining' = blocked
  /\ pc' = [pc EXCEPT ![t] = "cleanup"]
  /\ UNCHANGED <<counter, blocked, critsec, early>>

(* Faulty: blocked survives the epoch; only one waiter is signalled. *)
EndEpochKeepsBlocked(t) ==
  /\ pc[t] = "cleanup"
  /\ counter' = (counter + 1) % CounterModulus
  /\ critsec' = NoThread
  /\ pc' = [u \in Threads |-> IF u = t THEN "outside"
                              ELSE IF pc[u] = "waiting" THEN "woken" ELSE pc[u]]
  /\ early' = 0
  /\ UNCHANGED <<remaining, blocked>>

EndEpochSignalsOne(t) ==
  /\ pc[t] = "cleanup"
  /\ blocked' = 0
  /\ counter' = (counter + 1) % CounterModulus
  /\ critsec' = NoThread
  /\ \E S \in SUBSET At("waiting") :
       /\ Cardinality(S) = IF At("waiting") = {} THEN 0 ELSE 1
       /\ pc' = [u \in Threads |-> IF u = t THEN "outside"
                                   ELSE IF u \in S THEN "woken" ELSE pc[u]]
  /\ early' = 0
  /\ UNCHANGED remaining

(* epoch_cleanup has returned: a new epoch begins, every waiter is woken.   *)
EndEpoch(t) ==
  /\ pc[t] = "cleanup"
  /\ blocked' = 0
  /\ counter' = (counter + 1) % CounterModulus
  /\ critsec' = NoThread
  /\ pc' = [u \in Threads |-> IF u = t THEN "outside"
                              ELSE IF pc[u] = "waiting" THEN "woken" ELSE pc[u]]
  /\ early' = 0
  /\ UNCHANGED remaining

-----------------------------------------------------------------------------
Step(t) ==
  \/ EnterLock(t) \/ TryOpen(t) \/ Block(t) \/ Reacquire(t) \/ Resume(t)
  \/ LeaveLock(t) \/ LeaveNotLast(t) \/ LeaveLast(t) \/ EndEpoch(t)
  \/ WakeSpuriously(t)

Next == \E t \in Threads : Step(t)

Spec == Init /\ [][Next]_vars

(* A thread that can run does run, a mutex that stays free is given to     *)
(* whoever waits for it, and a transaction that runs ends (every body the  *)
(* harness runs is finite).  Nobody is obliged to start a transaction, so  *)
(* EnterLock has no fairness; nobody is promised a spurious wakeup; and no *)
(* thread is promised the mutex against others that keep taking it, so the *)
(* fairness is weak.                                                       *)
Fairness == \A t \in Threads :
  /\ WF_vars(TryOpen(t)) /\ WF_vars(Block(t))
  /\ WF_vars(Reacquire(t)) /\ WF_vars(Resume(t))
  /\ WF_vars(LeaveLock(t)) /\ WF_vars(LeaveNotLast(t))
  /\ WF_vars(LeaveLast(t)) /\ WF_vars(EndEpoch(t))

FairSpec == Spec /\ Fairness

-----------------------------------------------------------------------------
(* The threads that belong to the current batch.  A waiter joins at the    *)
(* moment it is woken, wherever it is in pthread_cond_wait.                *)
Batch == {t \in Threads :
            pc[t] \in {"inside", "woken", "resuming", "leaving", "cleanup"}}

(* Every variable has its type: the counters are never negative although   *)
(* they are ints the code decrements without a test.                       *)
TypeOK ==
  /\ counter \in 0 .. CounterModulus - 1
  /\ remaining \in Nat
  /\ blocked \in Nat
  /\ critsec \in Threads \cup {NoThread}
  /\ pc \in [Threads -> Location]
  /\ early \in Nat

(* The two counters are wrong by the spurious wakeups of this epoch and by  *)
(* nothing else: blocked counts the waiters and those who woke early,       *)
(* remaining the threads of the batch without as many (and, between the CAS *)
(* and the broadcast, what blocked counts).  leave_batcher finds the end of *)
(* an epoch by these numbers alone, and each end makes them right again: an *)
(* error never reaches the next epoch, however often the epochs change.     *)
Accounting ==
  /\ blocked = Cardinality(At("waiting")) + early
  /\ remaining = IF At("cleanup") = {} THEN Cardinality(Batch) - early
                                       ELSE Cardinality(At("waiting")) + early

(* epoch_cleanup works on memory that transactions access without critsec: *)
(* while it runs, as many other threads are inside a transaction, or on     *)
(* their way in or out of one, as pthread_cond_wait has let go early in     *)
(* this epoch; none, as long as it returns only when told to.               *)
QuiescentCleanup ==
  \A t \in At("cleanup") : Cardinality(Batch \ {t}) = early

(* A thread that is told to wait eventually runs its transaction: no lost  *)
(* wakeup, no waiter that a later batch leaves behind, even in an epoch in  *)
(* which spurious wakeups have put the counters wrong. That pthread_cond_wait *)
(* stops waking threads by itself at some time is needed: those it lets in  *)
(* uncounted can end one epoch after the other in place of a thread that    *)
(* has been woken and does not get the mutex.                                *)
WaiterEnters == \A t \in Threads :
  \/ []<><<\E u \in Threads : WakeSpuriously(u)>>_vars
  \/ pc[t] = "waiting" ~> pc[t] = "inside"

(* The batcher implements the gate of SpuriousGate.tla: a batch is the      *)
(* queue of the epoch before it, joined by those pthread_cond_wait lets go  *)
(* early and by nobody else, and the epoch ends when as many have left as   *)
(* it began with.  It ends for the gate when the waiters are released, so   *)
(* the CAS and the cleanup before it are still part of the old epoch.       *)
Gate == INSTANCE SpuriousGate WITH batch <- Batch, queue <- At("waiting")

RefinesGate == Gate!SpuriousSpec

(* The gate TM.tla composes: the batcher in the behaviours in which          *)
(* pthread_cond_wait returns only when it is told to.                        *)
Ideal == INSTANCE EpochGate WITH batch <- Batch, queue <- At("waiting")

==============================================================================

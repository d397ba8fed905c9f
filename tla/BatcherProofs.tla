---------------------------- MODULE BatcherProofs ----------------------------
(***************************************************************************)
(* Proofs about Batcher.tla, for every finite set of threads and any number *)
(* of spurious wakeups: the type invariant, what the counters and           *)
(* epoch_cleanup are off by, and that the batcher implements the gate of    *)
(* SpuriousGate.tla; and that of EpochGate.tla in the behaviours without a  *)
(* spurious wakeup. Then about Client.tla: the wrapper uses the batcher as  *)
(* Batcher.tla says it is used, so that all this holds under it, and knows  *)
(* which of its transactions the batcher still counts.                      *)
(***************************************************************************)
EXTENDS Client, FiniteSetTheorems, TLAPS

HoldingLocation == {"entering", "resuming", "leaving", "cleanup"}

(* A thread is in a critical section exactly when it owns the mutex.       *)
MutexOwner == \A t \in Threads : pc[t] \in HoldingLocation <=> critsec = t

(* A batcher that is free has nobody in it and nobody before it, spurious   *)
(* wakeups or not: remaining is 0 only after an epoch nobody waited for.    *)
IdleIsEmpty ==
  At("cleanup") = {} /\ remaining = 0 => Batch = {} /\ At("waiting") = {}

(* The inductive invariant.  The counters alone are not inductive: that    *)
(* remaining counts the batch while no one cleans up needs the mutex; that  *)
(* the batch is as large as remaining says when it is set to blocked needs  *)
(* QuiescentCleanup; and that remaining is not decremented below 0, and a   *)
(* batch is opened beside nobody, need IdleIsEmpty.                          *)
IInv == TypeOK /\ MutexOwner /\ Accounting /\ QuiescentCleanup /\ IdleIsEmpty

-----------------------------------------------------------------------------
(* Sets of threads are finite, so their cardinalities are numbers that     *)
(* move by one when a thread joins or leaves.                               *)
LEMMA FiniteThreads ==
  ASSUME NEW S \in SUBSET Threads
  PROVE  /\ IsFiniteSet(S)
         /\ Cardinality(S) \in Nat
         /\ Cardinality(S) = 0 <=> S = {}
         /\ \A t \in Threads : t \notin S => Cardinality(S \cup {t}) = Cardinality(S) + 1
         /\ \A t \in S : Cardinality(S \ {t}) = Cardinality(S) - 1
         /\ \A t \in S : Cardinality(S) = 1 => S = {t}
<1>1. IsFiniteSet(S)
  BY FS_Subset, BatcherAssumption
<1>2. Cardinality(S) \in Nat
  BY <1>1, FS_CardinalityType
<1>3. Cardinality(S) = 0 <=> S = {}
  BY <1>1, FS_EmptySet
<1>4. \A t \in Threads : t \notin S => Cardinality(S \cup {t}) = Cardinality(S) + 1
  BY <1>1, FS_AddElement
<1>5. \A t \in S : Cardinality(S \ {t}) = Cardinality(S) - 1
  BY <1>1, FS_RemoveElement
<1>6. \A t \in S : Cardinality(S) = 1 => S = {t}
  <2> SUFFICES ASSUME NEW t \in S, Cardinality(S) = 1 PROVE S = {t}
    OBVIOUS
  <2>1. Cardinality(S \ {t}) = 0
    BY <1>5
  <2>2. IsFiniteSet(S \ {t})
    BY <1>1, FS_RemoveElement
  <2>3. S \ {t} = {}
    BY <2>1, <2>2, FS_EmptySet
  <2>4. QED
    BY <2>3
<1>7. QED
  BY <1>1, <1>2, <1>3, <1>4, <1>5, <1>6

(* Two sets of threads without a common one add up. *)
LEMMA DisjointThreads ==
  ASSUME NEW S \in SUBSET Threads, NEW T \in SUBSET Threads, S \cap T = {}
  PROVE  Cardinality(S \cup T) = Cardinality(S) + Cardinality(T)
<1>1. IsFiniteSet(S) /\ IsFiniteSet(T)
  BY FiniteThreads
<1>2. Cardinality(S) \in Nat /\ Cardinality(T) \in Nat /\ Cardinality(S \cap T) = 0
  BY FiniteThreads
<1>3. Cardinality(S \cup T) = Cardinality(S) + Cardinality(T) - Cardinality(S \cap T)
  BY <1>1, FS_Union
<1>4. QED
  BY <1>2, <1>3

(* Before anybody has called the batcher the invariant holds. *)
LEMMA InitIInv == Init => IInv
<1> SUFFICES ASSUME Init PROVE IInv
  OBVIOUS
<1> USE BatcherAssumption DEF Init
<1>1. TypeOK
  BY DEF TypeOK, Location
<1>2. MutexOwner
  BY DEF MutexOwner, HoldingLocation
<1>3. At("waiting") = {} /\ At("cleanup") = {} /\ Batch = {}
  BY DEF At, Batch
<1>4. Accounting
  BY <1>3, FS_EmptySet DEF Accounting
<1>5. QuiescentCleanup
  BY <1>3 DEF QuiescentCleanup
<1>6. IdleIsEmpty
  BY <1>3 DEF IdleIsEmpty
<1>7. QED
  BY <1>1, <1>2, <1>4, <1>5, <1>6 DEF IInv

(* A step keeps every variable in its type: in particular remaining is      *)
(* never decremented below 0.                                               *)
LEMMA TypeStep == IInv /\ [Next]_vars => TypeOK'
<1> SUFFICES ASSUME IInv, [Next]_vars PROVE TypeOK'
  OBVIOUS
<1> USE BatcherAssumption DEF IInv, TypeOK, Location
<1>1. ASSUME NEW t \in Threads, EnterLock(t) \/ Reacquire(t) \/ LeaveLock(t)
      PROVE  TypeOK'
  BY <1>1 DEF EnterLock, Reacquire, LeaveLock, Lock
<1>2. ASSUME NEW t \in Threads, TryOpen(t) \/ Block(t) \/ Resume(t)
      PROVE  TypeOK'
  BY <1>2 DEF TryOpen, Block, Resume, Unlock
<1>3. ASSUME NEW t \in Threads, LeaveNotLast(t) PROVE TypeOK'
  <2>1. t \in Batch /\ At("cleanup") = {}
    BY <1>3 DEF LeaveNotLast, Unlock, Batch, At, MutexOwner, HoldingLocation
  <2>2. remaining # 0
    BY <2>1 DEF IdleIsEmpty
  <2>3. remaining - 1 \in Nat
    BY <2>2
  <2>4. QED
    BY <1>3, <2>3 DEF LeaveNotLast, Unlock
<1>4. ASSUME NEW t \in Threads, LeaveLast(t) PROVE TypeOK'
  BY <1>4 DEF LeaveLast
<1>5. ASSUME NEW t \in Threads, EndEpoch(t) PROVE TypeOK'
  <2>1. (counter + 1) % CounterModulus \in 0 .. CounterModulus - 1
    OBVIOUS
  <2>2. QED
    BY <1>5, <2>1 DEF EndEpoch
<1>6. ASSUME NEW t \in Threads, WakeSpuriously(t) PROVE TypeOK'
  BY <1>6 DEF WakeSpuriously
<1>7. CASE UNCHANGED vars
  BY <1>7 DEF vars
<1>8. QED
  BY <1>1, <1>2, <1>3, <1>4, <1>5, <1>6, <1>7 DEF Next, Step

(* A step leaves the mutex with the thread that is in a critical section.  *)
LEMMA MutexStep == IInv /\ [Next]_vars => MutexOwner'
<1> SUFFICES ASSUME IInv, [Next]_vars PROVE MutexOwner'
  OBVIOUS
<1> USE BatcherAssumption DEF IInv, TypeOK, MutexOwner, HoldingLocation
<1>1. ASSUME NEW t \in Threads, EnterLock(t) \/ Reacquire(t) \/ LeaveLock(t)
      PROVE  MutexOwner'
  BY <1>1 DEF EnterLock, Reacquire, LeaveLock, Lock
<1>2. ASSUME NEW t \in Threads,
             TryOpen(t) \/ Block(t) \/ Resume(t) \/ LeaveNotLast(t)
      PROVE  MutexOwner'
  BY <1>2 DEF TryOpen, Block, Resume, LeaveNotLast, Unlock
<1>3. ASSUME NEW t \in Threads, LeaveLast(t) \/ EndEpoch(t) \/ WakeSpuriously(t)
      PROVE  MutexOwner'
  BY <1>3 DEF LeaveLast, EndEpoch, WakeSpuriously
<1>4. CASE UNCHANGED vars
  BY <1>4 DEF vars
<1>5. QED
  BY <1>1, <1>2, <1>3, <1>4 DEF Next, Step

-----------------------------------------------------------------------------
(* What the two counted sets are after a step of thread t. *)
LEMMA Movement ==
  ASSUME TypeOK, NEW t \in Threads
  PROVE  /\ EnterLock(t) \/ Reacquire(t) \/ LeaveLock(t) \/ Resume(t)
              => /\ At("waiting")' = At("waiting")
                 /\ Batch' = Batch
         /\ TryOpen(t) => /\ At("waiting")' = At("waiting")
                          /\ Batch' = Batch \cup {t} /\ t \notin Batch
         /\ Block(t) => /\ At("waiting")' = At("waiting") \cup {t}
                        /\ t \notin At("waiting")
                        /\ Batch' = Batch
         /\ LeaveNotLast(t) => /\ At("waiting")' = At("waiting")
                               /\ Batch' = Batch \ {t} /\ t \in Batch
         /\ LeaveLast(t) => /\ At("waiting")' = At("waiting")
                            /\ Batch' = Batch /\ t \in Batch
         /\ EndEpoch(t) => /\ At("waiting")' = {}
                           /\ Batch' = (Batch \ {t}) \cup At("waiting")
         /\ WakeSpuriously(t) => /\ At("waiting")' = At("waiting") \ {t}
                                 /\ t \in At("waiting") /\ t \notin Batch
                                 /\ Batch' = Batch \cup {t}
<1> USE DEF TypeOK, At, Batch
<1>1. EnterLock(t) \/ Reacquire(t) \/ LeaveLock(t)
        => At("waiting")' = At("waiting") /\ Batch' = Batch
  BY DEF EnterLock, Reacquire, LeaveLock, Lock
<1>2. Resume(t) => At("waiting")' = At("waiting") /\ Batch' = Batch
  BY DEF Resume, Unlock
<1>3. TryOpen(t) => /\ At("waiting")' = At("waiting")
                    /\ Batch' = Batch \cup {t} /\ t \notin Batch
  BY DEF TryOpen, Unlock
<1>4. Block(t) => /\ At("waiting")' = At("waiting") \cup {t}
                  /\ t \notin At("waiting") /\ Batch' = Batch
  BY DEF Block, Unlock
<1>5. LeaveNotLast(t) => /\ At("waiting")' = At("waiting")
                         /\ Batch' = Batch \ {t} /\ t \in Batch
  BY DEF LeaveNotLast, Unlock
<1>6. LeaveLast(t) => /\ At("waiting")' = At("waiting")
                      /\ Batch' = Batch /\ t \in Batch
  BY DEF LeaveLast
<1>7. EndEpoch(t) => /\ At("waiting")' = {}
                     /\ Batch' = (Batch \ {t}) \cup At("waiting")
  BY DEF EndEpoch
<1>8. WakeSpuriously(t) => /\ At("waiting")' = At("waiting") \ {t}
                           /\ t \in At("waiting") /\ t \notin Batch
                           /\ Batch' = Batch \cup {t}
  BY DEF WakeSpuriously
<1>9. QED
  BY <1>1, <1>2, <1>3, <1>4, <1>5, <1>6, <1>7, <1>8

(* Nobody cleans up while another thread is in a critical section, and a   *)
(* thread begins or ends a cleanup only in LeaveLast and EndEpoch.          *)
LEMMA CleanupMovement ==
  ASSUME TypeOK, MutexOwner, NEW t \in Threads
  PROVE  /\ EnterLock(t) \/ Reacquire(t) \/ LeaveLock(t) \/ TryOpen(t) \/ Block(t)
              \/ Resume(t) \/ LeaveNotLast(t)
              => At("cleanup") = {} /\ At("cleanup")' = {}
         /\ LeaveLast(t) => At("cleanup") = {} /\ At("cleanup")' = {t}
         /\ EndEpoch(t) => At("cleanup") = {t} /\ At("cleanup")' = {}
         /\ WakeSpuriously(t) => At("cleanup")' = At("cleanup")
         /\ \A u, v \in At("cleanup") : u = v
<1> USE BatcherAssumption DEF TypeOK, At, MutexOwner, HoldingLocation
<1>1. EnterLock(t) \/ Reacquire(t) \/ LeaveLock(t)
        => At("cleanup") = {} /\ At("cleanup")' = {}
  BY DEF EnterLock, Reacquire, LeaveLock, Lock
<1>2. TryOpen(t) \/ Block(t) \/ Resume(t) \/ LeaveNotLast(t)
        => At("cleanup") = {} /\ At("cleanup")' = {}
  BY DEF TryOpen, Block, Resume, LeaveNotLast, Unlock
<1>3. LeaveLast(t) => At("cleanup") = {} /\ At("cleanup")' = {t}
  BY DEF LeaveLast
<1>4. EndEpoch(t) => At("cleanup") = {t} /\ At("cleanup")' = {}
  BY DEF EndEpoch
<1>5. WakeSpuriously(t) => At("cleanup")' = At("cleanup")
  BY DEF WakeSpuriously
<1>6. \A u, v \in At("cleanup") : u = v
  OBVIOUS
<1>7. QED
  BY <1>1, <1>2, <1>3, <1>4, <1>5, <1>6

(* The counters move with the sets they count. *)
LEMMA AccountingStep == IInv /\ [Next]_vars => Accounting'
<1> SUFFICES ASSUME IInv, [Next]_vars PROVE Accounting'
  OBVIOUS
<1> USE DEF IInv
<1> DEFINE W == At("waiting")
           C == At("cleanup")
<1>0. /\ W \in SUBSET Threads /\ W' \in SUBSET Threads
      /\ Batch \in SUBSET Threads /\ Batch' \in SUBSET Threads
  BY DEF At, Batch
<1>1. ASSUME NEW t \in Threads,
             EnterLock(t) \/ Reacquire(t) \/ LeaveLock(t) \/ Resume(t)
      PROVE  Accounting'
  <2>1. W' = W /\ Batch' = Batch /\ C = {} /\ C' = {}
    BY <1>1, Movement, CleanupMovement
  <2>2. UNCHANGED <<remaining, blocked, early>>
    BY <1>1 DEF EnterLock, Reacquire, LeaveLock, Resume
  <2>3. QED
    BY <2>1, <2>2 DEF Accounting
<1>2. ASSUME NEW t \in Threads, TryOpen(t) PROVE Accounting'
  <2>1. W' = W /\ Batch' = Batch \cup {t} /\ t \notin Batch /\ C = {} /\ C' = {}
    BY <1>2, Movement, CleanupMovement
  <2>2. remaining = 0 /\ remaining' = 1 /\ blocked' = blocked /\ early' = early
    BY <1>2 DEF TryOpen
  <2>3. Cardinality(Batch) \in Nat /\ Cardinality(Batch \cup {t}) = Cardinality(Batch) + 1
    BY <2>1, <1>0, FiniteThreads
  <2>4. QED
    BY <2>1, <2>2, <2>3 DEF Accounting, TypeOK
<1>3. ASSUME NEW t \in Threads, Block(t) PROVE Accounting'
  <2>1. W' = W \cup {t} /\ t \notin W /\ Batch' = Batch /\ C = {} /\ C' = {}
    BY <1>3, Movement, CleanupMovement
  <2>2. blocked' = blocked + 1 /\ remaining' = remaining /\ early' = early
    BY <1>3 DEF Block
  <2>3. Cardinality(W) \in Nat /\ Cardinality(W') = Cardinality(W) + 1
    BY <2>1, <1>0, FiniteThreads
  <2>4. QED
    BY <2>1, <2>2, <2>3 DEF Accounting, TypeOK
<1>4. ASSUME NEW t \in Threads, LeaveNotLast(t) PROVE Accounting'
  <2>1. W' = W /\ Batch' = Batch \ {t} /\ t \in Batch /\ C = {} /\ C' = {}
    BY <1>4, Movement, CleanupMovement
  <2>2. remaining' = remaining - 1 /\ blocked' = blocked /\ early' = early
    BY <1>4 DEF LeaveNotLast
  <2>3. Cardinality(Batch) \in Nat /\ Cardinality(Batch') = Cardinality(Batch) - 1
    BY <2>1, <1>0, FiniteThreads
  <2>4. QED
    BY <2>1, <2>2, <2>3 DEF Accounting, TypeOK
<1>5. ASSUME NEW t \in Threads, LeaveLast(t) PROVE Accounting'
  <2>1. W' = W /\ C' = {t}
    BY <1>5, Movement, CleanupMovement
  <2>2. remaining' = blocked /\ blocked' = blocked /\ early' = early
    BY <1>5 DEF LeaveLast
  <2>3. QED
    BY <2>1, <2>2 DEF Accounting
<1>6. ASSUME NEW t \in Threads, EndEpoch(t) PROVE Accounting'
  <2>1. W' = {} /\ Batch' = (Batch \ {t}) \cup W /\ C = {t} /\ C' = {}
    BY <1>6, Movement, CleanupMovement
  <2>2. Cardinality(Batch \ {t}) = early
    BY <2>1 DEF QuiescentCleanup
  <2>3. Cardinality(Batch') = early + Cardinality(W)
    BY <2>1, <2>2, <1>0, DisjointThreads DEF Batch, At
  <2>4. remaining' = Cardinality(W) + early /\ blocked' = 0 /\ early' = 0
    BY <1>6, <2>1 DEF EndEpoch, Accounting
  <2>5. Cardinality(W') = 0 /\ Cardinality(W) \in Nat
    BY <2>1, <1>0, FS_EmptySet, FiniteThreads
  <2>6. QED
    BY <2>1, <2>3, <2>4, <2>5 DEF Accounting, TypeOK
<1>7. ASSUME NEW t \in Threads, WakeSpuriously(t) PROVE Accounting'
  <2>1. /\ W' = W \ {t} /\ t \in W
        /\ Batch' = Batch \cup {t} /\ t \notin Batch /\ C' = C
    BY <1>7, Movement, CleanupMovement
  <2>2. remaining' = remaining /\ blocked' = blocked /\ early' = early + 1
    BY <1>7 DEF WakeSpuriously
  <2>3. /\ Cardinality(W) \in Nat /\ Cardinality(W') = Cardinality(W) - 1
        /\ Cardinality(Batch) \in Nat /\ Cardinality(Batch') = Cardinality(Batch) + 1
    BY <2>1, <1>0, FiniteThreads
  <2>4. QED
    BY <2>1, <2>2, <2>3 DEF Accounting, TypeOK
<1>8. CASE UNCHANGED vars
  BY <1>8 DEF vars, Accounting, At, Batch
<1>9. QED
  BY <1>1, <1>2, <1>3, <1>4, <1>5, <1>6, <1>7, <1>8 DEF Next, Step

(* The last of a batch finds remaining = 1 only when nobody but those who    *)
(* woke early is with it, and nobody else can get in while it holds the      *)
(* mutex.                                                                     *)
LEMMA QuiescentStep == IInv /\ [Next]_vars => QuiescentCleanup'
<1> SUFFICES ASSUME IInv, [Next]_vars PROVE QuiescentCleanup'
  OBVIOUS
<1> USE DEF IInv
<1>0. Batch \in SUBSET Threads
  BY DEF Batch
<1>1. ASSUME NEW t \in Threads,
             \/ EnterLock(t) \/ Reacquire(t) \/ LeaveLock(t) \/ TryOpen(t)
             \/ Block(t) \/ Resume(t) \/ LeaveNotLast(t) \/ EndEpoch(t)
      PROVE  QuiescentCleanup'
  <2>1. At("cleanup")' = {}
    BY <1>1, CleanupMovement
  <2>2. QED
    BY <2>1 DEF QuiescentCleanup
<1>2. ASSUME NEW t \in Threads, LeaveLast(t) PROVE QuiescentCleanup'
  <2>1. At("cleanup") = {} /\ At("cleanup")' = {t} /\ Batch' = Batch /\ t \in Batch
    BY <1>2, Movement, CleanupMovement
  <2>2. remaining = 1 /\ early' = early
    BY <1>2 DEF LeaveLast
  <2>3. Cardinality(Batch) \in Nat /\ Cardinality(Batch \ {t}) = Cardinality(Batch) - 1
    BY <2>1, <1>0, FiniteThreads
  <2>4. Cardinality(Batch' \ {t}) = early'
    BY <2>1, <2>2, <2>3 DEF Accounting, TypeOK
  <2>5. QED
    BY <2>1, <2>4 DEF QuiescentCleanup
<1>3. ASSUME NEW u \in Threads, WakeSpuriously(u) PROVE QuiescentCleanup'
  <2> SUFFICES ASSUME NEW t \in At("cleanup")' PROVE Cardinality(Batch' \ {t}) = early'
    BY DEF QuiescentCleanup
  <2>1. Batch' = Batch \cup {u} /\ u \notin Batch /\ t \in At("cleanup")
    BY <1>3, Movement, CleanupMovement
  <2>2. t \in Batch
    BY <2>1 DEF At, Batch
  <2>3. Batch' \ {t} = (Batch \ {t}) \cup {u} /\ u \notin Batch \ {t}
    BY <2>1, <2>2
  <2>4. Cardinality(Batch' \ {t}) = Cardinality(Batch \ {t}) + 1
    BY <2>3, <1>0, FiniteThreads
  <2>5. QED
    BY <1>3, <2>1, <2>4 DEF QuiescentCleanup, WakeSpuriously
<1>4. CASE UNCHANGED vars
  BY <1>4 DEF vars, QuiescentCleanup, At, Batch
<1>5. QED
  BY <1>1, <1>2, <1>3, <1>4 DEF Next, Step

(* remaining becomes 0 only when an epoch ends that nobody waits for: before *)
(* that the decrement to 0 is followed by the CAS in the same step.          *)
LEMMA IdleStep == IInv /\ [Next]_vars => IdleIsEmpty'
<1> SUFFICES ASSUME IInv, [Next]_vars, At("cleanup")' = {}, remaining' = 0
             PROVE  Batch' = {} /\ At("waiting")' = {}
  BY DEF IdleIsEmpty
<1> USE DEF IInv
<1>1. ASSUME NEW t \in Threads,
             EnterLock(t) \/ Reacquire(t) \/ LeaveLock(t) \/ Resume(t)
      PROVE  Batch' = {} /\ At("waiting")' = {}
  <2>1. /\ At("waiting")' = At("waiting") /\ Batch' = Batch
        /\ At("cleanup") = {} /\ remaining = 0
    BY <1>1, Movement, CleanupMovement DEF EnterLock, Reacquire, LeaveLock, Resume
  <2>2. QED
    BY <2>1 DEF IdleIsEmpty
<1>2. ASSUME NEW t \in Threads, TryOpen(t) \/ Block(t) PROVE FALSE
  BY <1>2 DEF TryOpen, Block
<1>3. ASSUME NEW t \in Threads, LeaveNotLast(t) PROVE FALSE
  BY <1>3 DEF LeaveNotLast, TypeOK
<1>4. ASSUME NEW t \in Threads, LeaveLast(t) PROVE FALSE
  BY <1>4, CleanupMovement
<1>5. ASSUME NEW t \in Threads, EndEpoch(t) PROVE Batch' = {} /\ At("waiting")' = {}
  <2>1. At("waiting")' = {} /\ At("cleanup") = {t} /\ Batch' \in SUBSET Threads
    BY <1>5, Movement, CleanupMovement DEF Batch
  <2>2. Cardinality(Batch') = remaining' + early' /\ early' = 0
    BY <1>5, AccountingStep, FiniteThreads, <2>1, TypeStep DEF Accounting, EndEpoch, TypeOK
  <2>3. QED
    BY <2>1, <2>2, FiniteThreads
<1>6. ASSUME NEW t \in Threads, WakeSpuriously(t) PROVE FALSE
  <2>1. t \in At("waiting") /\ At("cleanup") = {} /\ remaining = 0
    BY <1>6, Movement, CleanupMovement DEF WakeSpuriously
  <2>2. QED
    BY <2>1 DEF IdleIsEmpty
<1>7. CASE UNCHANGED vars
  BY <1>7 DEF vars, IdleIsEmpty, At, Batch
<1>8. QED
  BY <1>1, <1>2, <1>3, <1>4, <1>5, <1>6, <1>7 DEF Next, Step

-----------------------------------------------------------------------------
(* The inductive invariant holds in every behaviour. *)
THEOREM Inductive == Spec => []IInv
<1>1. IInv /\ [Next]_vars => IInv'
  BY TypeStep, MutexStep, AccountingStep, QuiescentStep, IdleStep DEF IInv
<1>2. QED
  BY InitIInv, <1>1, PTL DEF Spec

(* TypeOK: no counter is ever negative, for any number of threads.         *)
THEOREM TypeCorrect == Spec => []TypeOK
<1>1. IInv => TypeOK
  BY DEF IInv
<1>2. QED
  BY Inductive, <1>1, PTL

(* Accounting: blocked and remaining are off by the spurious wakeups of the *)
(* epoch, and by nothing that an epoch before has left.                      *)
THEOREM CountersAgree == Spec => []Accounting
<1>1. IInv => Accounting
  BY DEF IInv
<1>2. QED
  BY Inductive, <1>1, PTL

(* QuiescentCleanup: epoch_cleanup runs beside as many threads as woke      *)
(* early in its epoch.                                                      *)
THEOREM CleanupBesideEarly == Spec => []QuiescentCleanup
<1>1. IInv => QuiescentCleanup
  BY DEF IInv
<1>2. QED
  BY Inductive, <1>1, PTL

-----------------------------------------------------------------------------
(* The gate counts as the batcher does. *)
LEMMA SameCount == \A S : Gate!Cardinality(S) = Cardinality(S)
BY DEF Gate!Cardinality, Cardinality

(* Every step of the batcher is a step of the gate or changes nothing the  *)
(* gate shows.                                                             *)
LEMMA GateStep == IInv /\ [Next]_vars => [Gate!SpuriousNext]_(Gate!spuriousVars)
<1> SUFFICES ASSUME IInv, [Next]_vars PROVE [Gate!SpuriousNext]_(Gate!spuriousVars)
  OBVIOUS
<1> USE DEF IInv, Gate!spuriousVars, Gate!gateVars, Gate!SpuriousNext
<1> DEFINE W == At("waiting")
<1>0. Batch \in SUBSET Threads /\ W \in SUBSET Threads
  BY DEF Batch, At
<1>1. ASSUME NEW t \in Threads,
             EnterLock(t) \/ Reacquire(t) \/ LeaveLock(t) \/ Resume(t) \/ LeaveLast(t)
      PROVE  UNCHANGED Gate!spuriousVars
  <2>1. W' = W /\ Batch' = Batch
    BY <1>1, Movement
  <2>2. counter' = counter /\ early' = early
    BY <1>1 DEF EnterLock, Reacquire, LeaveLock, Resume, LeaveLast
  <2>3. QED
    BY <2>1, <2>2
<1>2. ASSUME NEW t \in Threads, TryOpen(t) PROVE Gate!Enter(t) /\ UNCHANGED early
  <2>1. W' = W /\ Batch' = Batch \cup {t} /\ t \notin Batch /\ At("cleanup") = {}
    BY <1>2, Movement, CleanupMovement
  <2>2. /\ remaining = 0 /\ counter' = counter /\ early' = early
        /\ pc[t] = "entering"
    BY <1>2 DEF TryOpen, Unlock
  <2>3. Batch = {}
    BY <2>1, <2>2 DEF IdleIsEmpty
  <2>4. QED
    BY <2>1, <2>2, <2>3 DEF Gate!Enter, At
<1>3. ASSUME NEW t \in Threads, Block(t) PROVE Gate!Enter(t) /\ UNCHANGED early
  <2>1. W' = W \cup {t} /\ t \notin W /\ Batch' = Batch /\ At("cleanup") = {}
    BY <1>3, Movement, CleanupMovement
  <2>2. /\ remaining # 0 /\ counter' = counter /\ early' = early
        /\ pc[t] = "entering"
    BY <1>3 DEF Block, Unlock
  <2>3. Cardinality(Batch) # 0
    BY <2>1, <2>2, <1>0, FiniteThreads DEF Accounting, TypeOK
  <2>4. Batch # {}
    BY <2>3, FS_EmptySet
  <2>5. t \notin Batch
    BY <2>2 DEF Batch
  <2>6. QED
    BY <2>1, <2>2, <2>4, <2>5 DEF Gate!Enter
<1>4. ASSUME NEW t \in Threads, LeaveNotLast(t) PROVE Gate!LeaveUncounted(t)
  <2>1. W' = W /\ Batch' = Batch \ {t} /\ t \in Batch /\ At("cleanup") = {}
    BY <1>4, Movement, CleanupMovement
  <2>2. remaining # 1 /\ remaining # 0 /\ counter' = counter /\ early' = early
    BY <1>4, <2>1 DEF LeaveNotLast, IdleIsEmpty
  <2>3. remaining = Cardinality(Batch) - early /\ Cardinality(Batch) \in Nat
    BY <2>1, <1>0, FiniteThreads DEF Accounting
  <2>4. Cardinality(Batch) > early + 1
    BY <2>2, <2>3 DEF TypeOK
  <2>5. Cardinality(Batch) # 1
    BY <2>4 DEF TypeOK
  <2>6. Batch # {t}
    BY <2>5, FS_Singleton
  <2>7. QED
    BY <2>1, <2>2, <2>4, <2>6, SameCount DEF Gate!LeaveUncounted, Gate!LeaveEarly
<1>5. ASSUME NEW t \in Threads, EndEpoch(t) PROVE Gate!LeaveCounted(t)
  <2>1. W' = {} /\ Batch' = (Batch \ {t}) \cup W /\ At("cleanup") = {t}
    BY <1>5, Movement, CleanupMovement
  <2>2. t \in Batch /\ Cardinality(Batch \ {t}) = early
    BY <2>1 DEF QuiescentCleanup, At, Batch
  <2>3. Cardinality(Batch) = early + 1
    BY <2>2, <1>0, FiniteThreads DEF TypeOK
  <2>4. counter' = (counter + 1) % CounterModulus /\ early' = 0
    BY <1>5 DEF EndEpoch
  <2>5. QED
    BY <2>1, <2>2, <2>3, <2>4, SameCount DEF Gate!LeaveCounted
<1>6. ASSUME NEW t \in Threads, WakeSpuriously(t) PROVE Gate!Leak(t)
  BY <1>6, Movement DEF WakeSpuriously, Gate!Leak
<1>7. CASE UNCHANGED vars
  BY <1>7 DEF vars, At, Batch
<1>8. QED
  BY <1>1, <1>2, <1>3, <1>4, <1>5, <1>6, <1>7 DEF Next, Step

(* RefinesGate: a mutex, a condition variable that also wakes threads by    *)
(* itself, and three counters implement the gate whose queue leaks, for any *)
(* finite number of threads.                                                *)
THEOREM Refinement == Spec => RefinesGate
<1>1. Init => Gate!SpuriousInit
  BY DEF Init, Gate!SpuriousInit, Gate!Init, Batch, At
<1>2. QED
  BY <1>1, Inductive, GateStep, PTL DEF Spec, RefinesGate, Gate!SpuriousSpec

(* pthread_cond_wait has woken nobody by itself in this epoch; and what      *)
(* epoch_cleanup then finds.                                                 *)
NoneEarly == early = 0
CleanupAlone == \A t \in At("cleanup") : Batch = {t}

(* As long as nothing has leaked, a step of that gate is one of the ideal    *)
(* gate: the batch has one member when one is still to leave.                *)
LEMMA IdealStep ==
  IInv /\ NoneEarly /\ NoneEarly' /\ [Next]_vars => [Ideal!Next]_(Ideal!gateVars)
<1> SUFFICES ASSUME IInv, early = 0, early' = 0, [Next]_vars
             PROVE  [Ideal!Next]_(Ideal!gateVars)
  BY DEF NoneEarly
<1>1. [Gate!SpuriousNext]_(Gate!spuriousVars)
  BY GateStep
<1>2. Batch \in SUBSET Threads
  BY DEF Batch
<1>3. ASSUME NEW t \in Threads, Gate!LeaveCounted(t) PROVE Ideal!LeaveLast(t)
  <2>1. t \in Batch /\ Cardinality(Batch) = 1
    BY <1>3, SameCount DEF Gate!LeaveCounted
  <2>2. Batch = {t}
    BY <1>2, <2>1, FiniteThreads
  <2>3. QED
    BY <1>3, <2>2 DEF Gate!LeaveCounted, Ideal!LeaveLast
<1>4. ASSUME NEW t \in Threads, Gate!Leak(t) PROVE FALSE
  BY <1>4 DEF Gate!Leak
<1>5. ASSUME NEW t \in Threads, Gate!LeaveUncounted(t) PROVE Ideal!LeaveEarly(t)
  BY <1>5 DEF Gate!LeaveUncounted, Gate!LeaveEarly, Ideal!LeaveEarly
<1>6. ASSUME NEW t \in Threads, Gate!Enter(t) PROVE Ideal!Enter(t)
  BY <1>6 DEF Gate!Enter, Ideal!Enter
<1>7. CASE UNCHANGED Gate!spuriousVars
  BY <1>7 DEF Gate!spuriousVars, Gate!gateVars, Ideal!gateVars
<1>8. QED
  BY <1>1, <1>3, <1>4, <1>5, <1>6, <1>7 DEF Gate!SpuriousNext, Ideal!Next

(* The ideal gate, which TM.tla composes: it is what the batcher implements *)
(* in the behaviours in which no thread wakes early, and only those: nobody  *)
(* joins a batch that runs, and epoch_cleanup runs alone.                    *)
THEOREM IdealGate == Spec /\ []NoneEarly => Ideal!Spec /\ []CleanupAlone
<1>1. Init => Ideal!Init
  BY DEF Init, Ideal!Init, Batch, At
<1>2. IInv /\ NoneEarly => CleanupAlone
  <2> SUFFICES ASSUME IInv, early = 0, NEW t \in At("cleanup") PROVE Batch = {t}
    BY DEF NoneEarly, CleanupAlone
  <2>1. t \in Batch /\ Batch \ {t} \in SUBSET Threads /\ Cardinality(Batch \ {t}) = 0
    BY DEF IInv, QuiescentCleanup, At, Batch
  <2>2. Batch \ {t} = {}
    BY <2>1, FiniteThreads
  <2>3. QED
    BY <2>1, <2>2
<1>3. QED
  BY <1>1, <1>2, Inductive, IdealStep, PTL DEF Spec, Ideal!Spec

-----------------------------------------------------------------------------
(* Client: the wrapper of transactional.hpp.                                *)

(* The wrapper's variables have their types. *)
ClientTypes ==
  /\ cpc \in [Threads -> ClientLocation]
  /\ aborted \in [Threads -> BOOLEAN]
  /\ caught \in [Threads -> {"none", "retry", "other"}]

(* Where the batcher has a thread, as far as the wrapper's place tells. In   *)
(* the body aborted is still unset: what Leave does relies on it.            *)
InStep(t) ==
  /\ cpc[t] \in {"idle", "try"} => pc[t] = "outside"
  /\ cpc[t] = "begin" => pc[t] \in {"entering", "waiting", "woken", "resuming", "inside"}
  /\ cpc[t] = "body" => pc[t] = "inside" /\ ~aborted[t]
  /\ cpc[t] \in {"refused", "ending"} => pc[t] \in {"leaving", "cleanup", "outside"}
  /\ cpc[t] = "unwind" => pc[t] = IF aborted[t] THEN "outside" ELSE "inside"
  /\ cpc[t] = "end" => pc[t] = "inside"

(* The inductive invariant: WrapperInStep says nothing of the threads that   *)
(* are on their way in or out, which is where its steps begin.               *)
ClientInv == ClientTypes /\ \A t \in Threads : InStep(t)

-----------------------------------------------------------------------------
(* The wrapper does nothing to the batcher but call it. *)
LEMMA ClientCalls == [ClientNext]_allVars => [Next]_vars
<1> SUFFICES ASSUME [ClientNext]_allVars PROVE [Next]_vars
  OBVIOUS
<1>1. ASSUME NEW t \in Threads, Begin(t) \/ Inside(t) \/ Spurious(t) \/ Refuse(t) \/ End(t)
      PROVE  Next
  <2>1. Step(t)
    BY <1>1 DEF Begin, Inside, Spurious, Refuse, End, Step
  <2>2. QED
    BY <2>1 DEF Next
<1>2. ASSUME NEW t \in Threads,
             Begun(t) \/ Refused(t) \/ Leave(t) \/ Destroy(t) \/ Ended(t)
      PROVE  UNCHANGED vars
  BY <1>2 DEF Begun, Refused, Leave, Destroy, Ended
<1>3. CASE UNCHANGED allVars
  BY <1>3 DEF allVars
<1>4. QED
  BY <1>1, <1>2, <1>3 DEF ClientNext, ClientStep

(* transactional() is a client the batcher was modelled for: what is proved *)
(* above of any use of it holds for this one.                                *)
THEOREM ClientUsesBatcher == ClientSpec => Spec
<1>1. ClientInit => Init
  BY DEF ClientInit
<1>2. QED
  BY <1>1, ClientCalls, PTL DEF ClientSpec, Spec

-----------------------------------------------------------------------------
(* What a step of thread t leaves alone: the other threads are where they    *)
(* were, except that the end of an epoch wakes those that wait.              *)
LEMMA OthersStay ==
  ASSUME TypeOK, ClientTypes, NEW t \in Threads, ClientStep(t),
         NEW u \in Threads, u # t
  PROVE  /\ cpc'[u] = cpc[u] /\ aborted'[u] = aborted[u]
         /\ pc'[u] = pc[u] \/ (pc[u] = "waiting" /\ pc'[u] = "woken")
<1> USE DEF TypeOK, ClientTypes
<1>1. cpc'[u] = cpc[u] /\ aborted'[u] = aborted[u]
  <2>1. CASE Begin(t) \/ Refuse(t) \/ Leave(t) \/ Destroy(t) \/ End(t) \/ Ended(t)
    BY <2>1 DEF Begin, Refuse, Leave, Destroy, End, Ended, Move
  <2>2. CASE Begun(t) \/ Refused(t)
    BY <2>2 DEF Begun, Refused, Move
  <2>3. CASE Inside(t) \/ Spurious(t)
    BY <2>3 DEF Inside, Spurious, clientVars
  <2>4. QED
    BY <2>1, <2>2, <2>3 DEF ClientStep
<1>2. pc'[u] = pc[u] \/ (pc[u] = "waiting" /\ pc'[u] = "woken")
  <2>1. CASE EnterLock(t) \/ Reacquire(t) \/ LeaveLock(t)
    BY <2>1 DEF EnterLock, Reacquire, LeaveLock, Lock
  <2>2. CASE TryOpen(t) \/ Block(t) \/ Resume(t) \/ LeaveNotLast(t)
    BY <2>2 DEF TryOpen, Block, Resume, LeaveNotLast, Unlock
  <2>3. CASE LeaveLast(t)
    BY <2>3 DEF LeaveLast
  <2>4. CASE EndEpoch(t)
    BY <2>4 DEF EndEpoch
  <2>5. CASE WakeSpuriously(t)
    BY <2>5 DEF WakeSpuriously
  <2>6. CASE UNCHANGED vars
    BY <2>6 DEF vars
  <2>7. QED
    BY <2>1, <2>2, <2>3, <2>4, <2>5, <2>6
       DEF ClientStep, Begin, Inside, Spurious, Begun, Refuse, Refused, Leave, Destroy, End, Ended
<1>3. QED
  BY <1>1, <1>2

(* A thread another one leaves alone, or wakes, stays in step. *)
LEMMA OthersInStep ==
  ASSUME TypeOK, ClientInv, NEW t \in Threads, ClientStep(t),
         NEW u \in Threads, u # t
  PROVE  InStep(u)'
<1>1. InStep(u)
  BY DEF ClientInv
<1>2. /\ cpc'[u] = cpc[u] /\ aborted'[u] = aborted[u]
      /\ pc'[u] = pc[u] \/ (pc[u] = "waiting" /\ pc'[u] = "woken")
  BY OthersStay DEF ClientInv
<1>3. QED
  BY <1>1, <1>2 DEF InStep

(* A step keeps its own thread in step. *)
LEMMA SelfInStep ==
  ASSUME TypeOK, ClientInv, NEW t \in Threads, ClientStep(t)
  PROVE  InStep(t)'
<1> USE DEF TypeOK, ClientTypes
<1>0. ClientTypes /\ InStep(t)
  BY DEF ClientInv
<1>1. CASE Begin(t)
  BY <1>0, <1>1 DEF Begin, Move, EnterLock, Lock, InStep
<1>2. CASE Inside(t)
  <2>1. cpc' = cpc /\ aborted' = aborted
    BY <1>2 DEF Inside, clientVars
  <2>2. \/ pc[t] = "entering" /\ pc'[t] \in {"inside", "waiting"}
        \/ pc[t] = "woken" /\ pc'[t] = "resuming"
        \/ pc[t] = "resuming" /\ pc'[t] = "inside"
        \/ pc[t] = "leaving" /\ pc'[t] \in {"outside", "cleanup"}
        \/ pc[t] = "cleanup" /\ pc'[t] = "outside"
    BY <1>2 DEF Inside, TryOpen, Block, Reacquire, Resume, LeaveNotLast, LeaveLast, EndEpoch,
                Lock, Unlock
  <2>3. QED
    BY <1>0, <2>1, <2>2 DEF InStep, ClientLocation
<1>3. CASE Begun(t)
  BY <1>0, <1>3 DEF Begun, Move, InStep, vars
<1>4. CASE Refuse(t)
  BY <1>0, <1>4 DEF Refuse, Move, LeaveLock, Lock, InStep
<1>5. CASE Refused(t)
  BY <1>0, <1>5 DEF Refused, Move, InStep, vars
<1>6. CASE Leave(t)
  BY <1>0, <1>6 DEF Leave, Move, InStep, vars
<1>7. CASE Destroy(t)
  BY <1>0, <1>7 DEF Destroy, Move, After, InStep, vars
<1>8. CASE End(t)
  BY <1>0, <1>8 DEF End, Move, LeaveLock, Lock, InStep
<1>9. CASE Ended(t)
  BY <1>0, <1>9 DEF Ended, Move, InStep, vars
<1>10. CASE Spurious(t)
  BY <1>0, <1>10 DEF Spurious, WakeSpuriously, clientVars, InStep
<1>11. QED
  BY <1>1, <1>2, <1>3, <1>4, <1>5, <1>6, <1>7, <1>8, <1>9, <1>10 DEF ClientStep

(* A step keeps the wrapper's variables in their types. *)
LEMMA ClientTypeStep ==
  ASSUME ClientTypes, NEW t \in Threads, ClientStep(t)
  PROVE  ClientTypes'
<1> USE DEF ClientTypes, ClientLocation
<1>1. CASE Begin(t) \/ Refuse(t) \/ End(t) \/ Ended(t)
  BY <1>1 DEF Begin, Refuse, End, Ended, Move
<1>2. CASE Begun(t) \/ Refused(t)
  BY <1>2 DEF Begun, Refused, Move
<1>3. CASE Leave(t) \/ Destroy(t)
  BY <1>3 DEF Leave, Destroy, Move, After
<1>4. CASE Inside(t) \/ Spurious(t)
  BY <1>4 DEF Inside, Spurious, clientVars
<1>5. QED
  BY <1>1, <1>2, <1>3, <1>4 DEF ClientStep

(* ClientInv is inductive on top of the batcher's types. *)
LEMMA ClientInvStep == TypeOK /\ ClientInv /\ [ClientNext]_allVars => ClientInv'
<1> SUFFICES ASSUME TypeOK, ClientInv, [ClientNext]_allVars PROVE ClientInv'
  OBVIOUS
<1>1. ASSUME NEW t \in Threads, ClientStep(t) PROVE ClientInv'
  <2>1. ClientTypes'
    BY <1>1, ClientTypeStep DEF ClientInv
  <2>2. ASSUME NEW u \in Threads PROVE InStep(u)'
    BY <1>1, SelfInStep, OthersInStep
  <2>3. QED
    BY <2>1, <2>2 DEF ClientInv
<1>2. CASE UNCHANGED allVars
  BY <1>2 DEF allVars, vars, clientVars, ClientInv, ClientTypes, InStep
<1>3. QED
  BY <1>1, <1>2 DEF ClientNext

LEMMA InitClientInv == ClientInit => ClientInv
BY DEF ClientInit, Init, ClientInv, ClientTypes, ClientLocation, InStep

(* The wrapper and the batcher stay in step in every behaviour. *)
THEOREM ClientInductive == ClientSpec => [](IInv /\ ClientInv)
<1>1. ClientSpec => []IInv
  BY ClientUsesBatcher, Inductive, PTL
<1>2. IInv /\ ClientInv /\ [ClientNext]_allVars => ClientInv'
  BY ClientInvStep DEF IInv
<1>3. QED
  BY InitClientInv, <1>1, <1>2, PTL DEF ClientSpec

(* WrapperInStep: no tm_end for a transaction that has left the batcher, and *)
(* none is forgotten, whatever the closures throw and the memory refuses.    *)
THEOREM WrapperKnows == ClientSpec => []WrapperInStep
<1>1. ClientInv => WrapperInStep
  BY DEF ClientInv, InStep, WrapperInStep
<1>2. QED
  BY ClientInductive, <1>1, PTL

(* Accounting and QuiescentCleanup under transactional(), whose refused      *)
(* calls leave the batcher in mid-body: neither a refused call nor a retry   *)
(* adds to what the spurious wakeups of the epoch put wrong.                 *)
THEOREM CountersAgreeWithClients == ClientSpec => [](Accounting /\ QuiescentCleanup)
<1>1. IInv => Accounting /\ QuiescentCleanup
  BY DEF IInv
<1>2. QED
  BY ClientInductive, <1>1, PTL

==============================================================================

-------------------------------- MODULE Client --------------------------------
(***************************************************************************)
(* grading/transactional.hpp: class Transaction and transactional(), the   *)
(* loop that repeats a transaction until it commits, over the batcher.     *)
(*                                                                         *)
(* There are two ways out of a transaction: tm_end, which the destructor of *)
(* Transaction calls, and a call the memory refuses, which leaves the       *)
(* batcher by itself. aborted is all that tells the destructor which of the *)
(* two it was. Nothing below asks the batcher where the thread is: what the *)
(* wrapper believes and what the batcher counts are compared afterwards.    *)
(***************************************************************************)
EXTENDS Batcher

VARIABLES
  cpc,      \* where each thread is in transactional(), see ClientLocation
  aborted,  \* Transaction::aborted of each thread, FALSE when there is no object
  caught    \* the exception that leaves the body: "none", "retry" or "other"

clientVars == <<cpc, aborted, caught>>
allVars    == <<vars, clientVars>>

ClientLocation == {
  "idle",     \* not in transactional(), or about to begin for the first time
  "try",      \* about to begin again, after TransactionRetry
  "begin",    \* Transaction's constructor, in tm_begin
  "body",     \* in the closure
  "refused",  \* in a tm_* call that fails
  "unwind",   \* out of the closure, before Transaction's destructor
  "end",      \* the destructor is about to call tm_end
  "ending" }  \* in tm_end

ClientInit ==
  /\ Init
  /\ cpc = [t \in Threads |-> "idle"]
  /\ aborted = [t \in Threads |-> FALSE]
  /\ caught = [t \in Threads |-> "none"]

Move(t, from, to) ==
  /\ cpc[t] = from
  /\ cpc' = [cpc EXCEPT ![t] = to]

-----------------------------------------------------------------------------
(* The batcher's steps while a thread is in tm_begin, tm_end or a call that *)
(* is refused.                                                              *)
Inside(t) ==
  /\ TryOpen(t) \/ Block(t) \/ Reacquire(t) \/ Resume(t)
       \/ LeaveNotLast(t) \/ LeaveLast(t) \/ EndEpoch(t)
  /\ UNCHANGED clientVars

(* pthread_cond_wait lets a thread in tm_begin go early. *)
Spurious(t) ==
  /\ WakeSpuriously(t)
  /\ UNCHANGED clientVars

(* Somebody calls transactional(), or it goes round once more. *)
Begin(t) ==
  /\ Move(t, "idle", "begin") \/ Move(t, "try", "begin")
  /\ EnterLock(t)
  /\ UNCHANGED <<aborted, caught>>

(* tm_begin returns; the number it returns is never invalid_tx (README).    *)
Begun(t) ==
  /\ pc[t] = "inside"
  /\ Move(t, "begin", "body")
  /\ aborted' = [aborted EXCEPT ![t] = FALSE]
  /\ UNCHANGED <<vars, caught>>

(* read, write: tm_read or tm_write finds a word, or a segment, of another  *)
(* transaction of this epoch, rolls back and leaves the batcher.            *)
Refuse(t) ==
  /\ Move(t, "body", "refused")
  /\ LeaveLock(t)
  /\ UNCHANGED <<aborted, caught>>

(* The refused call returns: aborted is set, TransactionRetry is thrown.    *)
Refused(t) ==
  /\ pc[t] = "outside"
  /\ Move(t, "refused", "unwind")
  /\ aborted' = [aborted EXCEPT ![t] = TRUE]
  /\ caught' = [caught EXCEPT ![t] = "retry"]
  /\ UNCHANGED vars

(* The closure returns, or throws an exception of its own, or alloc throws  *)
(* TransactionAlloc: the destructor does not tell these from one another.   *)
Leave(t) ==
  /\ Move(t, "body", "unwind")
  /\ \E x \in {"none", "other"} : caught' = [caught EXCEPT ![t] = x]
  /\ UNCHANGED <<vars, aborted>>

(* What catches the exception once the destructor is through: transactional() *)
(* repeats after TransactionRetry, and returns or passes it on otherwise.    *)
After(t) == IF caught[t] = "retry" THEN "try" ELSE "idle"

(* Faulty: an exception of its own leaves the transaction open.             *)
DestroyUnlessThrown(t) ==
  /\ Move(t, "unwind", IF aborted[t] \/ caught[t] # "none" THEN After(t) ELSE "end")
  /\ aborted' = [aborted EXCEPT ![t] = FALSE]
  /\ caught' = [caught EXCEPT ![t] = "none"]
  /\ UNCHANGED vars

Destroy(t) ==
  /\ Move(t, "unwind", IF aborted[t] THEN After(t) ELSE "end")
  /\ aborted' = [aborted EXCEPT ![t] = FALSE]
  /\ caught' = [caught EXCEPT ![t] = "none"]
  /\ UNCHANGED vars

End(t) ==
  /\ Move(t, "end", "ending")
  /\ LeaveLock(t)
  /\ UNCHANGED <<aborted, caught>>

(* tm_end has returned true, as it always does: nothing is thrown for it.   *)
Ended(t) ==
  /\ pc[t] = "outside"
  /\ Move(t, "ending", "idle")
  /\ UNCHANGED <<vars, aborted, caught>>

-----------------------------------------------------------------------------
ClientStep(t) ==
  \/ Begin(t) \/ Inside(t) \/ Spurious(t) \/ Begun(t) \/ Refuse(t)
  \/ Refused(t) \/ Leave(t) \/ Destroy(t) \/ End(t) \/ Ended(t)

ClientNext == \E t \in Threads : ClientStep(t)

(* Every thread that can go on does, and every body ends, well or not.      *)
(* Nobody is obliged to call transactional(), and nobody who wants to enter *)
(* is promised the mutex (Batcher.tla), so Begin has no fairness; nor has    *)
(* Spurious.                                                                 *)
ClientFairness == \A t \in Threads :
  /\ WF_allVars(Inside(t)) /\ WF_allVars(Begun(t))
  /\ WF_allVars(Leave(t) \/ Refuse(t)) /\ WF_allVars(Refused(t))
  /\ WF_allVars(Destroy(t)) /\ WF_allVars(End(t)) /\ WF_allVars(Ended(t))

ClientSpec == ClientInit /\ [][ClientNext]_allVars /\ ClientFairness

-----------------------------------------------------------------------------
(* The wrapper and the batcher agree on who is in a transaction: in the     *)
(* body, and until the destructor calls tm_end, the batcher counts the      *)
(* thread; once a call was refused, and before the next attempt, it does    *)
(* not. So no tm_end is called for a transaction that has left already, and *)
(* none is forgotten, which would keep its epoch open for good.             *)
WrapperInStep ==
  \A t \in Threads :
    /\ cpc[t] \in {"body", "end"} \/ (cpc[t] = "unwind" /\ ~aborted[t])
         => pc[t] = "inside"
    /\ cpc[t] \in {"idle", "try"} \/ (cpc[t] = "unwind" /\ aborted[t])
         => pc[t] = "outside"

==============================================================================

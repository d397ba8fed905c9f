----------------------------- MODULE CounterCheck -----------------------------
(***************************************************************************)
(* grading/workload.hpp: WorkloadBank::check, the last round of the bench, *)
(* with class Barrier of grading/common.hpp. One worker sets a shared      *)
(* counter, every worker takes one from it a number of times, and one      *)
(* worker looks whether it has come to zero. Three calls of Barrier::sync  *)
(* separate the parts.                                                     *)
(*                                                                         *)
(* A transaction is a step, which is what the memory promises and what     *)
(* transactional() makes of it by repeating it until it commits; of a      *)
(* memory that does not keep its promise any comparison may fail. Every    *)
(* access of the barrier to its two atomics is a step.                     *)
(***************************************************************************)
EXTENDS Integers, FiniteSets

CONSTANTS
  Workers,    \* the worker threads
  Zero,       \* the worker whose uid is 0
  nbtxperwrk  \* decrements per worker, 100 in the code

ASSUME CheckAssumption ==
  /\ IsFiniteSet(Workers)
  /\ Zero \in Workers
  /\ nbtxperwrk \in Nat

nbworkers == Cardinality(Workers)

VARIABLES
  sound,    \* whether the memory under test keeps its promise
  step,     \* Barrier::step
  mode,     \* Barrier::mode
  counter,  \* the shared word at the start of the memory
  pc,       \* where each worker is
  synced,   \* calls of sync each worker has begun
  passed,   \* calls of sync that have returned to it
  last,     \* the value it has read before its decrement
  left,     \* decrements it has still to do
  error     \* whether it has found the memory inconsistent

barrier == <<step, mode>>
calls   == <<synced, passed>>
program == <<last, left, error>>
vars    == <<sound, barrier, counter, pc, calls, program>>

Location == {
  "call",   \* about to call Barrier::sync
  "set",    \* uid 0, sets the counter
  "verify", \* uid 0, reads it back
  "read",   \* reads the counter
  "take",   \* takes one from it
  "look",   \* uid 0, reads the counter at the end
  "end",    \* check has returned
  "enter", "leaveMode", "waitLeave",  \* Barrier::sync, first half
  "leave", "enterMode", "waitEnter" } \* Barrier::sync, second half

Init ==
  /\ sound \in BOOLEAN
  /\ step = 0
  /\ mode = "enter"
  /\ counter = 0
  /\ pc = [w \in Workers |-> "call"]
  /\ synced = [w \in Workers |-> 0]
  /\ passed = [w \in Workers |-> 0]
  /\ last = [w \in Workers |-> 0]
  /\ left = [w \in Workers |-> nbtxperwrk]
  /\ error = [w \in Workers |-> FALSE]

Go(w, from, to) ==
  /\ pc[w] = from
  /\ pc' = [pc EXCEPT ![w] = to]

-----------------------------------------------------------------------------
(* Barrier::sync. The last to enter lets everybody leave, the last to leave *)
(* lets everybody enter the next time.                                      *)

Call(w) ==
  /\ Go(w, "call", "enter")
  /\ synced' = [synced EXCEPT ![w] = @ + 1]
  /\ UNCHANGED <<sound, barrier, counter, passed, program>>

Enter(w) ==
  /\ Go(w, "enter", IF step + 1 = nbworkers THEN "leaveMode" ELSE "waitLeave")
  /\ step' = step + 1
  /\ UNCHANGED <<sound, mode, counter, calls, program>>

LeaveMode(w) ==
  /\ Go(w, "leaveMode", "leave")
  /\ mode' = "leave"
  /\ UNCHANGED <<sound, step, counter, calls, program>>

WaitLeave(w) ==
  /\ mode = "leave"
  /\ Go(w, "waitLeave", "leave")
  /\ UNCHANGED <<sound, barrier, counter, calls, program>>

Leave(w) ==
  /\ Go(w, "leave", IF step - 1 = 0 THEN "enterMode" ELSE "waitEnter")
  /\ step' = step - 1
  /\ UNCHANGED <<sound, mode, counter, calls, program>>

(* Where check goes on when a call of sync returns. A worker with an error  *)
(* to return makes the remaining calls first, the others count on it.       *)
ResumeEarly(w) ==  \* Faulty: the others do not wait until the counter is set.
  CASE synced[w] = 1 /\ w = Zero                -> "set"
    [] left[w] > 0 /\ (synced[w] = 2 \/ w # Zero) -> "read"
    [] synced[w] = 3 /\ w = Zero                -> "look"
    [] synced[w] = 3 /\ w # Zero                -> "end"
    [] OTHER                                    -> "call"

ResumeOwing(w) ==  \* Faulty: returns the first error with a call still to make.
  CASE synced[w] = 1 /\ w = Zero                          -> "set"
    [] synced[w] = 2 /\ ~error[w] /\ left[w] > 0          -> "read"
    [] synced[w] = 3 /\ ~error[w] /\ w = Zero             -> "look"
    [] synced[w] > 1 /\ (error[w] \/ (synced[w] = 3 /\ w # Zero)) -> "end"
    [] OTHER                                              -> "call"

Resume(w) ==
  CASE synced[w] = 1 /\ w = Zero                          -> "set"
    [] synced[w] = 2 /\ ~error[w] /\ left[w] > 0          -> "read"
    [] synced[w] = 3 /\ ~error[w] /\ w = Zero             -> "look"
    [] synced[w] = 3 /\ (error[w] \/ w # Zero)            -> "end"
    [] OTHER                                              -> "call"

Return(w, from) ==
  /\ Go(w, from, Resume(w))
  /\ passed' = [passed EXCEPT ![w] = @ + 1]

EnterMode(w) ==
  /\ Return(w, "enterMode")
  /\ mode' = "enter"
  /\ UNCHANGED <<sound, step, counter, synced, program>>

(* Faulty: a barrier with one half, which returns as soon as all are in.     *)
WaitEnterNot(w) ==
  /\ Return(w, "waitEnter")
  /\ UNCHANGED <<sound, barrier, counter, synced, program>>

WaitEnter(w) ==
  /\ mode = "enter"
  /\ Return(w, "waitEnter")
  /\ UNCHANGED <<sound, barrier, counter, synced, program>>

-----------------------------------------------------------------------------
(* The transactions of check                                                *)

(* What a comparison of values from the memory comes to.                    *)
Finds(p) == IF sound THEN {p} ELSE BOOLEAN

Set(w) ==
  /\ Go(w, "set", "verify")
  /\ counter' = nbtxperwrk * nbworkers
  /\ UNCHANGED <<sound, barrier, calls, program>>

Verify(w) ==
  /\ Go(w, "verify", "call")
  /\ \E wrong \in Finds(counter # nbtxperwrk * nbworkers) :
       error' = [error EXCEPT ![w] = wrong]
  /\ UNCHANGED <<sound, barrier, counter, calls, last, left>>

Read(w) ==
  /\ Go(w, "read", "take")
  /\ last' = [last EXCEPT ![w] = counter]
  /\ UNCHANGED <<sound, barrier, counter, calls, left, error>>

(* Faulty: one decrement more than the counter was set for.                 *)
TakeOneMore(w) ==
  /\ Go(w, "take", IF left[w] > 0 THEN "read" ELSE "call")
  /\ counter' = counter - 1
  /\ left' = [left EXCEPT ![w] = @ - 1]
  /\ UNCHANGED <<sound, barrier, calls, last, error>>

Take(w) ==
  /\ \E wrong \in Finds(counter > last[w]) :
       IF wrong
         THEN /\ Go(w, "take", "call")
              /\ error' = [error EXCEPT ![w] = TRUE]
              /\ UNCHANGED <<counter, left>>
         ELSE /\ Go(w, "take", IF left[w] > 1 THEN "read" ELSE "call")
              /\ counter' = counter - 1
              /\ left' = [left EXCEPT ![w] = @ - 1]
              /\ UNCHANGED error
  /\ UNCHANGED <<sound, barrier, calls, last>>

Look(w) ==
  /\ Go(w, "look", "end")
  /\ \E wrong \in Finds(counter # 0) : error' = [error EXCEPT ![w] = wrong]
  /\ UNCHANGED <<sound, barrier, counter, calls, last, left>>

-----------------------------------------------------------------------------

Sync(w)  == \/ Call(w) \/ Enter(w) \/ LeaveMode(w) \/ WaitLeave(w)
            \/ Leave(w) \/ EnterMode(w) \/ WaitEnter(w)
Check(w) == Set(w) \/ Verify(w) \/ Read(w) \/ Take(w) \/ Look(w)

Next == \E w \in Workers : Sync(w) \/ Check(w)

Spec == Init /\ [][Next]_vars

-----------------------------------------------------------------------------
(* Types; step never exceeds the number of workers, nor goes below zero.    *)
TypeOK ==
  /\ sound \in BOOLEAN
  /\ step \in 0 .. nbworkers
  /\ mode \in {"enter", "leave"}
  /\ counter \in 0 .. nbtxperwrk * nbworkers
  /\ pc \in [Workers -> Location]
  /\ synced \in [Workers -> 0 .. 3]
  /\ passed \in [Workers -> 0 .. 3]
  /\ last \in [Workers -> 0 .. nbtxperwrk * nbworkers]
  /\ left \in [Workers -> 0 .. nbtxperwrk]
  /\ error \in [Workers -> BOOLEAN]

(* The barrier separates: when a call of sync returns to a worker, every    *)
(* worker has made that call, although a fast worker uses the barrier again  *)
(* while slow ones are still leaving it.                                    *)
BarrierSeparates ==
  \A v, w \in Workers : passed[w] <= synced[v]

(* With a memory whose transactions are atomic, check never reports an      *)
(* inconsistency: nobody takes from the counter before it is set, and it is *)
(* not looked at before everybody has taken its share.                      *)
NoFalseAlarm ==
  sound => \A w \in Workers : ~error[w]

(* check returns to every worker, also of a memory that fails it on any of  *)
(* its three ways out: none is left spinning in a barrier.                  *)
CheckReturns ==
  <>(\A w \in Workers : pc[w] = "end")

==============================================================================

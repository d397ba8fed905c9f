--------------------------------- MODULE Bank ---------------------------------
(***************************************************************************)
(* grading/workload.hpp: WorkloadBank::run, the rounds of measurements.    *)
(* Accounts are kept in a chain of segments in the shared memory. Workers  *)
(* move money, add and remove accounts at the end of the chain, and look   *)
(* whether the sum is right.                                               *)
(*                                                                         *)
(* A transaction that commits is a step, as the memory promises. One that  *)
(* is aborted leaves nothing in the memory, and transactional() runs its   *)
(* closure again; what the closure has done to captured variables stays.   *)
(***************************************************************************)
EXTENDS Integers, SequencesExt

CONSTANTS
  Workers,       \* the worker threads
  nbtxperwrk,    \* transactions per worker
  nbaccounts,    \* accounts at the beginning, and per segment
  init_balance   \* what a new account holds

VARIABLES
  bank,   \* the chain of AccountSegments; count is the length of balances
  doing,  \* what each worker is about to do
  togo,   \* transactions it has still to do
  count,  \* the number of accounts it knows of
  ids,    \* send_id and recv_id, captured by short_tx
  wrong   \* whether it has found an inconsistency

vars == <<bank, doing, togo, count, ids, wrong>>

NoIds == [send |-> 0, recv |-> 0]

(* What the round of initialisation leaves.                                 *)
Init ==
  /\ bank = <<[parity |-> 0, balances |-> [i \in 1 .. nbaccounts |-> init_balance]]>>
  /\ doing = [w \in Workers |-> "next"]
  /\ togo = [w \in Workers |-> nbtxperwrk]
  /\ count = [w \in Workers |-> nbaccounts]
  /\ ids = [w \in Workers |-> NoIds]
  /\ wrong = [w \in Workers |-> FALSE]

Go(w, from, to) ==
  /\ doing[w] = from
  /\ doing' = [doing EXCEPT ![w] = to]

(* One of the transactions of the loop in run.                              *)
Begin(w) ==
  /\ togo[w] > 0
  /\ togo' = [togo EXCEPT ![w] = @ - 1]

-----------------------------------------------------------------------------
(* long_tx                                                                  *)

Accounts == SumFunction([s \in DOMAIN bank |-> Len(bank[s].balances)])

Worth == SumFunction([s \in DOMAIN bank |-> bank[s].parity + SumFunction(bank[s].balances)])

Consistent ==
  /\ \A s \in DOMAIN bank : \A i \in DOMAIN bank[s].balances : bank[s].balances[i] >= 0
  /\ Worth = init_balance * Accounts

(* Also the last one, whose count is not used. One that fails ends run.      *)
Long(w) ==
  /\ \/ Begin(w) /\ Go(w, "next", IF Consistent THEN "next" ELSE "end")
     \/ togo[w] = 0 /\ Go(w, "next", "end") /\ UNCHANGED togo
  /\ count' = [count EXCEPT ![w] = Accounts]
  /\ wrong' = [wrong EXCEPT ![w] = ~Consistent]
  /\ UNCHANGED <<bank, ids>>

-----------------------------------------------------------------------------
(* alloc_tx                                                                 *)

Allocated ==
  IF Len(Last(bank).balances) < nbaccounts
    THEN [bank EXCEPT ![Len(bank)].balances = Append(@, init_balance)]
    ELSE Append(bank, [parity |-> 0, balances |-> <<init_balance>>])

(* The last account goes, and what it held above or below init_balance to   *)
(* the parity of its segment, or of the one before if that becomes empty.   *)
Deallocated ==
  LET parity == Last(bank).parity + Last(Last(bank).balances) - init_balance
  IN IF Len(Last(bank).balances) > 1
       THEN [bank EXCEPT ![Len(bank)] = [parity |-> parity, balances |-> Front(@.balances)]]
       ELSE [Front(bank) EXCEPT ![Len(bank) - 1].parity = @ + parity]

(* The trigger is any number: it decides for or against a deallocation, but *)
(* two accounts stay.                                                       *)
AllocTx(w) ==
  /\ Begin(w)
  /\ Go(w, "next", "next")
  /\ \/ bank' = Allocated
     \/ Accounts > 2 /\ bank' = Deallocated
  /\ UNCHANGED <<count, ids, wrong>>

-----------------------------------------------------------------------------
(* short_tx                                                                 *)

Draw(w) == \E s, r \in 0 .. count[w] - 1 : ids' = [ids EXCEPT ![w] = [send |-> s, recv |-> r]]

ShortTx(w) ==
  /\ Begin(w)
  /\ Go(w, "next", "short")
  /\ Draw(w)
  /\ UNCHANGED <<bank, count, wrong>>

(* The walk for an account, after k segments: the index left, and the       *)
(* segment where it is, 0 as long as it is not found.                       *)
Walk(id) ==
  LET after[k \in 0 .. Len(bank)] ==
        IF k = 0 THEN [id |-> id, segment |-> 0]
        ELSE LET p == after[k - 1] IN
             IF p.segment # 0 THEN p
             ELSE IF p.id < Len(bank[k].balances) THEN [p EXCEPT !.segment = k]
             ELSE [p EXCEPT !.id = @ - Len(bank[k].balances)]
  IN after

(* The attempt is aborted, at whichever segment: the closure has changed    *)
(* the indices of accounts it has not found yet.                            *)
Retry(w) ==
  /\ Go(w, "short", "short")
  /\ \E k \in 0 .. Len(bank) :
       ids' = [ids EXCEPT ![w] = [send |-> Walk(@.send)[k].id, recv |-> Walk(@.recv)[k].id]]
  /\ UNCHANGED <<bank, togo, count, wrong>>

Moved(b, a, n) == [b EXCEPT ![a.segment].balances[a.id + 1] = @ + n]

Transfer(w) ==
  LET sender == Walk(ids[w].send)[Len(bank)]
      recver == Walk(ids[w].recv)[Len(bank)]
  IN /\ sender.segment # 0 /\ recver.segment # 0
     /\ Go(w, "short", "next")
     /\ bank' = IF bank[sender.segment].balances[sender.id + 1] > 0
                  THEN Moved(Moved(bank, sender, -1), recver, 1)
                  ELSE bank
     /\ ids' = [ids EXCEPT ![w] = NoIds]
     /\ UNCHANGED <<togo, count, wrong>>

(* One of the accounts does not exist, any more or yet: run draws again.    *)
Redraw(w) ==
  /\ \/ Walk(ids[w].send)[Len(bank)].segment = 0
     \/ Walk(ids[w].recv)[Len(bank)].segment = 0
  /\ Go(w, "short", "short")
  /\ Draw(w)
  /\ UNCHANGED <<bank, togo, count, wrong>>

-----------------------------------------------------------------------------

Run(w) == Long(w) \/ AllocTx(w) \/ ShortTx(w) \/ Retry(w) \/ Transfer(w) \/ Redraw(w)

Next == \E w \in Workers : Run(w)

Spec == Init /\ [][Next]_vars

-----------------------------------------------------------------------------
(* Types. Every segment but the last is full and none is empty, or the last *)
(* account would not be found where accounts are added and removed.         *)
TypeOK ==
  /\ bank \in Seq([parity : Int, balances : Seq(Int)])
  /\ bank # <<>>
  /\ \A s \in DOMAIN bank : Len(bank[s].balances) \in
       IF s < Len(bank) THEN {nbaccounts} ELSE 1 .. nbaccounts
  /\ doing \in [Workers -> {"next", "short", "end"}]
  /\ togo \in [Workers -> 0 .. nbtxperwrk]
  /\ count \in [Workers -> Nat]
  /\ ids \in [Workers -> [send : Nat, recv : Nat]]
  /\ wrong \in [Workers -> BOOLEAN]

(* run finds nothing wrong in a memory that keeps its promise: whatever the *)
(* transactions, and however often their closures are run again, no account *)
(* is overdrawn and no money appears or is lost.                            *)
NothingWrong == Consistent /\ \A w \in Workers : ~wrong[w]

==============================================================================

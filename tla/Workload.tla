------------------------------- MODULE Workload -------------------------------
(***************************************************************************)
(* grading/workload.hpp: what the workers do in a round of the bench. In   *)
(* the first round each calls WorkloadBank::init, in another run, in the   *)
(* last check. Sync keeps rounds apart, so that a round of one kind never  *)
(* meets one of another; round says which it is. A round of checks uses    *)
(* nothing of the bank that an earlier round has left, and may follow at   *)
(* once. run and check each have an nbtxperwrk of their own.               *)
(***************************************************************************)
EXTENDS CounterCheck

CONSTANTS
  RunWorkers,  \* those of the workers that init and run have in the model
  RunTxs,      \* nbtxperwrk of run
  nbaccounts, init_balance, PointerBits, Blocks, Start  \* as in Accounts

VARIABLES
  round,                                \* "init", "run" or "check"
  mem, live, ready,                     \* those of Accounts
  bank, doing, togo, count, ids, wrong  \* those of Bank

Accounts == INSTANCE Accounts WITH Workers <- RunWorkers, nbtxperwrk <- RunTxs

ASSUME BankAssumption ==
  /\ RunWorkers \subseteq Workers /\ RunWorkers # {}
  /\ RunTxs \in Nat
  /\ nbaccounts \in Nat \ {0}
  /\ init_balance \in Nat
  /\ PointerBits \in Nat
  /\ IsFiniteSet(Blocks) /\ Blocks \subseteq Nat
  /\ Start \in Blocks /\ Accounts!Aligned(Start, Accounts!size)

(* A segment is not larger than the memory that pointers reach, and no      *)
(* block ends behind it.                                                    *)
ASSUME PointersReach ==
  /\ Accounts!seg_size(Accounts!size) <= 2 ^ PointerBits
  /\ \A block \in Blocks :
       block + Accounts!next_pow2(Accounts!seg_size(Accounts!size)) <= 2 ^ PointerBits

(* What the prover, which knows nothing of powers, has to be told of them.  *)
ASSUME PowersOfTwo ==
  \A e \in 0 .. PointerBits : 2 ^ e \in Nat /\ 2 ^ (e + 1) = 2 * 2 ^ e

accountVars == <<mem, live, ready, bank, doing, togo, count, ids, wrong>>
allVars     == <<round, accountVars, vars>>

WorkloadInit ==
  /\ round = "init"
  /\ Init
  /\ Accounts!Init

InitStep(w) ==
  /\ round = "init"
  /\ Accounts!InitWrite(w) \/ Accounts!InitLook(w)
  /\ UNCHANGED <<round, vars>>

NextRound ==
  /\ round = "init" /\ Accounts!Initialised
  /\ round' \in {"run", "check"}
  /\ UNCHANGED vars

RunStep(w) ==
  /\ round = "run"
  /\ Accounts!Run(w)
  /\ UNCHANGED <<round, vars>>

CheckStep(w) ==
  /\ round = "check"
  /\ Sync(w) \/ Check(w)
  /\ UNCHANGED <<round, accountVars>>

WorkloadNext ==
  \/ NextRound
  \/ \E w \in RunWorkers : InitStep(w) \/ RunStep(w)
  \/ \E w \in Workers : CheckStep(w)

(* Every worker in check that can go on does; its transactions commit in    *)
(* the end. run makes no such promise: it may draw in vain again and again. *)
WorkloadSpec ==
  /\ WorkloadInit
  /\ [][WorkloadNext]_allVars
  /\ \A w \in Workers : WF_allVars(CheckStep(w))

-----------------------------------------------------------------------------
(* The types of check and run.                                              *)
WorkloadTypeOK == TypeOK /\ Accounts!Bank!TypeOK

(* Bank!NothingWrong: run keeps the money together, and neither run nor     *)
(* init ever reports a memory that keeps its promise. Everything keeps its  *)
(* type, and every segment but the last one is full.                        *)
NothingWrong ==
  /\ WorkloadTypeOK
  /\ Accounts!Bank!NothingWrong
  /\ \A w \in RunWorkers : ready[w] # "wrong"

(* Pointers of the shared memory and segments of accounts in it.            *)
PointersLead == Accounts!PointersLead

(* The words of the shared memory are the bank: the round of initialisation *)
(* leaves the bank that run expects, although it writes neither parity nor  *)
(* next, and every transaction of run does to the words what it means for   *)
(* the accounts, in segments that come new or again from the allocator.     *)
RefinesBank == Accounts!Bank!Spec

(* check returns to every worker once a round of checks has begun, also of  *)
(* a memory that fails it on any of its three ways out (CheckReturns).      *)
EveryCheckReturns == [](round = "check" => CheckReturns)

==============================================================================

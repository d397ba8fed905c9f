-------------------------------- MODULE Bench --------------------------------
(***************************************************************************)
(* The life of a library in the bench: main() of grading/grading.cpp loads *)
(* one library after the other, creates a shared memory with it, measures  *)
(* it (Sync.tla), destroys the memory and unloads the library. Memory is   *)
(* created and destroyed by bounded_run of common.hpp, which gives a thread *)
(* of its own to the library and gives up on it after a time limit.         *)
(*                                                                         *)
(* A time limit may pass at any moment, before or after the answer; only   *)
(* the first library, the reference, is measured without one. A thread that *)
(* goes on using what is gone may crash the process.                        *)
(***************************************************************************)
EXTENDS Sync

CONSTANT Libraries  \* how many libraries the command line names

ASSUME BenchAssumption == Libraries \in Nat \ {0}

VARIABLES
  library,  \* which library main evaluates, 1 is the reference
  loaded,   \* whether its module is loaded
  memory,   \* its shared memory: "none", "made" or "destroyed"
  at,       \* where main is, see Place
  caller,   \* where main is in bounded_run, see Caller
  runner,   \* where bounded_run's thread is, see Runner
  lock,     \* bounded_run's mutex: who holds it
  exit,     \* how the process has ended
  faults    \* history: what went wrong

life      == <<library, loaded, memory, at, exit, faults>>
bounded   == <<caller, runner, lock>>
measured  == vars
benchVars == <<measured, life, bounded>>

Place  == {"load", "create", "measure", "rescue", "destroy", "unload"}
Caller == {
  "none",       \* not in bounded_run
  "started",    \* has started the runner, holds the mutex
  "waiting",    \* wait_for, has given the mutex up
  "notified",   \* wait_for, woken, has to take the mutex again
  "late",       \* wait_for, the time has passed, has to take the mutex again
  "joining" }   \* joins the runner, still holds the mutex
Runner == {
  "func",       \* in tm_create or tm_destroy
  "lock",       \* about to take the mutex
  "notify",     \* holds it
  "done" }
Exit   == {"none", "0", "1", "2", "terminate", "crash"}
Fault  == {"load", "create", "slow create", "slow destroy", "thread", "worker",
           "slow workers", "spurious"}

BenchInit ==
  /\ Init
  /\ library = 1
  /\ loaded = FALSE
  /\ memory = "none"
  /\ at = "load"
  /\ caller = "none"
  /\ runner = "done"
  /\ lock = "free"
  /\ exit = "none"
  /\ faults = {}

Running == exit = "none"

(* main goes from one place to the next. *)
MainGo(from, to) ==
  /\ Running
  /\ at = from
  /\ at' = to

(* bounded_run takes its mutex and starts the runner. *)
StartRunner ==
  /\ caller' = "started"
  /\ runner' = "func"
  /\ lock' = "caller"

-----------------------------------------------------------------------------
(* TransactionalLibrary's constructor; one that fails throws out of main's  *)
(* loop. Then the constructor of the workload creates the memory.           *)
Load ==
  /\ MainGo("load", "create")
  /\ loaded' = TRUE
  /\ memory' = "none"
  /\ StartRunner
  /\ UNCHANGED <<measured, library, exit, faults>>

LoadFails ==
  /\ MainGo("load", "load")
  /\ exit' = "1"
  /\ faults' = faults \cup {"load"}
  /\ UNCHANGED <<measured, library, loaded, memory, bounded>>

-----------------------------------------------------------------------------
(* bounded_run: the runner                                                  *)

InBounded == UNCHANGED <<measured, library, loaded, at>>

(* tm_create or tm_destroy returns. *)
RunFunc ==
  /\ Running /\ runner = "func" /\ at \in {"create", "destroy"}
  /\ memory' = IF at = "create" THEN "made" ELSE "destroyed"
  /\ runner' = "lock"
  /\ InBounded /\ UNCHANGED <<caller, lock, exit, faults>>

(* tm_create fails: TransactionCreate is thrown in the runner's own thread, *)
(* where nobody catches it.                                                 *)
CreateFails ==
  /\ Running /\ runner = "func" /\ at = "create"
  /\ exit' = "terminate"
  /\ faults' = faults \cup {"create"}
  /\ InBounded /\ UNCHANGED <<memory, bounded>>

RunnerLock ==
  /\ Running /\ runner = "lock" /\ caller # "none"
  /\ lock = "free"
  /\ lock' = "runner"
  /\ runner' = "notify"
  /\ InBounded /\ UNCHANGED <<memory, caller, exit, faults>>

(* cv.notify_all, and the mutex is given up. *)
RunnerNotify ==
  /\ Running /\ runner = "notify"
  /\ caller' = IF caller = "waiting" THEN "notified" ELSE caller
  /\ lock' = "free"
  /\ runner' = "done"
  /\ InBounded /\ UNCHANGED <<memory, exit, faults>>

(* bounded_run has thrown and left: the mutex, the closure and the object it *)
(* fills were on the stack of main, the code was in the module.              *)
RunnerStrays ==
  /\ Running /\ runner # "done" /\ caller = "none"
  /\ exit' = "crash"
  /\ InBounded /\ UNCHANGED <<memory, bounded, faults>>

-----------------------------------------------------------------------------
(* bounded_run: the caller                                                  *)

WaitFor ==
  /\ Running /\ caller = "started"
  /\ caller' = "waiting"
  /\ lock' = "free"
  /\ InBounded /\ UNCHANGED <<memory, runner, exit, faults>>

TimePasses ==
  /\ Running /\ caller = "waiting"
  /\ caller' = "late"
  /\ InBounded /\ UNCHANGED <<memory, runner, lock, exit, faults>>

(* A condition variable may wake a thread nobody has notified. *)
SpuriousWakeup ==
  /\ Running /\ caller = "waiting"
  /\ caller' = "notified"
  /\ faults' = faults \cup {"spurious"}
  /\ InBounded /\ UNCHANGED <<memory, runner, lock, exit>>

(* wait_for returns no_timeout, whoever has woken it. *)
NoTimeout ==
  /\ Running /\ caller = "notified"
  /\ lock = "free"
  /\ caller' = "joining"
  /\ lock' = "caller"
  /\ InBounded /\ UNCHANGED <<memory, runner, exit, faults>>

(* wait_for returns timeout, also if it was notified meanwhile. The runner  *)
(* is detached. The exception unwinds main's loop out of the constructor,   *)
(* but cannot leave ~TransactionalMemory, which is noexcept.                *)
Timeout ==
  /\ Running /\ caller \in {"notified", "late"}
  /\ lock = "free"
  /\ caller' = "none"
  /\ \/ /\ at = "create"
        /\ at' = "unload"
        /\ faults' = faults \cup {"slow create"}
        /\ UNCHANGED exit
     \/ /\ at = "destroy"
        /\ exit' = "terminate"
        /\ faults' = faults \cup {"slow destroy"}
        /\ UNCHANGED at
  /\ UNCHANGED <<measured, library, loaded, memory, runner, lock>>

(* measure() makes a Sync of its own. *)
NewSync ==
  /\ status' = "Done"
  /\ nbready' = 0
  /\ errmsg' = "none"
  /\ raised' = FALSE
  /\ started' = 0
  /\ total' = {}
  /\ wpc' = [w \in Workers |-> "wait"]
  /\ wround' = [w \in Workers |-> 0]
  /\ outcome' = [w \in Workers |-> "ok"]
  /\ mpc' = "notify"
  /\ mround' = 0
  /\ verdict' = "none"

(* The runner is joined, bounded_run returns; after the creation comes      *)
(* measure(), after the destruction the library goes.                       *)
JoinRunner ==
  /\ Running /\ caller = "joining"
  /\ runner = "done"
  /\ caller' = "none"
  /\ lock' = "free"
  /\ \/ MainGo("create", "measure") /\ NewSync
     \/ MainGo("destroy", "unload") /\ UNCHANGED measured
  /\ UNCHANGED <<library, loaded, memory, runner, exit, faults>>

-----------------------------------------------------------------------------
(* measure()                                                                *)

InMeasure(step) ==
  /\ Running /\ at = "measure"
  /\ step
  /\ UNCHANGED <<library, loaded, memory, at, exit, bounded>>

MeasureStep == InMeasure(Measure) /\ UNCHANGED faults

WorkersLate == library > 1 /\ InMeasure(Overrun) /\ faults' = faults \cup {"slow workers"}

(* Workers run while measure() does, and go on if it leaves them behind.    *)
BenchWorker(w) ==
  /\ Running /\ at \in {"measure", "rescue"}
  /\ Worker(w)
  /\ faults' = IF outcome'[w] = "ok" THEN faults ELSE faults \cup {"worker"}
  /\ UNCHANGED <<library, loaded, memory, at, exit, bounded>>

(* measure() cannot start all of its threads: it detaches those it has      *)
(* started, which wait for the first round, and throws.                     *)
ThreadFails ==
  /\ mround = 0
  /\ MainGo("measure", "rescue")
  /\ \E failed \in SUBSET Workers \ {{}} :
       wpc' = [w \in Workers |-> IF w \in failed THEN "gone" ELSE wpc[w]]
  /\ faults' = faults \cup {"thread"}
  /\ UNCHANGED <<status, nbready, errmsg, raised, clock, wround, outcome, master>>
  /\ UNCHANGED <<library, loaded, memory, exit, bounded>>

(* measure() throws: it detaches the workers, and its Sync is gone.         *)
MeasureThrows ==
  /\ mpc \in {"overrun", "unexpected"}
  /\ MainGo("measure", "rescue")
  /\ UNCHANGED <<measured, library, loaded, memory, exit, faults, bounded>>

WorkerStrays ==
  /\ Running /\ at = "rescue"
  /\ \E w \in Workers : wpc[w] # "gone"
  /\ exit' = "crash"
  /\ UNCHANGED <<measured, library, loaded, memory, at, faults, bounded>>

(* Faulty: main returns, and destroys what it has.                          *)
ReturnOne ==
  /\ MainGo("rescue", "destroy")
  /\ StartRunner
  /\ UNCHANGED <<measured, library, loaded, memory, exit, faults>>

(* quick_exit(2): nothing is destroyed. *)
QuickExit ==
  /\ MainGo("rescue", "rescue")
  /\ exit' = "2"
  /\ UNCHANGED <<measured, library, loaded, memory, faults, bounded>>

(* measure() returns times or an error; either way the memory goes next.    *)
Destroy ==
  /\ mpc = "end"
  /\ MainGo("measure", "destroy")
  /\ StartRunner
  /\ UNCHANGED <<measured, library, loaded, memory, exit, faults>>

-----------------------------------------------------------------------------
(* Faulty: the error measure() has returned is forgotten. *)
UnloadAnyhow ==
  /\ MainGo("unload", "load")
  /\ loaded' = FALSE
  /\ exit' = IF memory = "destroyed" THEN IF library = Libraries THEN "0" ELSE "none" ELSE "1"
  /\ library' = IF exit' = "none" THEN library + 1 ELSE library
  /\ UNCHANGED <<measured, memory, faults, bounded>>

(* dlclose. The next library, or the end: 1 after an exception of the       *)
(* constructor and after an error, 0 after the last library.                *)
Unload ==
  /\ MainGo("unload", "load")
  /\ loaded' = FALSE
  /\ exit' = IF "slow create" \in faults \/ verdict # "none" THEN "1"
             ELSE IF library = Libraries THEN "0" ELSE "none"
  /\ library' = IF exit' = "none" THEN library + 1 ELSE library
  /\ UNCHANGED <<measured, memory, faults, bounded>>

-----------------------------------------------------------------------------
Main ==
  \/ Load \/ MeasureStep \/ MeasureThrows \/ QuickExit \/ Destroy \/ Unload
  \/ WaitFor \/ NoTimeout \/ Timeout \/ JoinRunner
Thread == RunnerLock \/ RunnerNotify
Mishap ==
  \/ LoadFails \/ CreateFails \/ RunnerStrays \/ TimePasses \/ SpuriousWakeup
  \/ ThreadFails \/ WorkersLate \/ WorkerStrays

BenchNext ==
  \/ Main \/ Thread \/ RunFunc \/ Mishap
  \/ \E w \in Workers : BenchWorker(w)

(* main and every thread that can go on do, and every worker's part of a    *)
(* round ends; tm_create and tm_destroy need not end, but time passes.      *)
BenchSpec ==
  /\ BenchInit
  /\ [][BenchNext]_benchVars
  /\ WF_benchVars(Main) /\ WF_benchVars(Thread) /\ WF_benchVars(TimePasses)
  /\ \A w \in Workers : WF_benchVars(BenchWorker(w))

-----------------------------------------------------------------------------
(* The types of Sync and of what is new here. *)
BenchTypeOK ==
  /\ TypeOK
  /\ library \in 1 .. Libraries
  /\ loaded \in BOOLEAN
  /\ memory \in {"none", "made", "destroyed"}
  /\ at \in Place
  /\ caller \in Caller
  /\ runner \in Runner
  /\ lock \in {"free", "caller", "runner"}
  /\ exit \in Exit
  /\ faults \subseteq Fault

(* The two places of the code that throw Unreachable are: no worker is sent *)
(* into a round after the last one, no master woken by another status. Nor  *)
(* does any variable leave its type.                                        *)
NothingUnexpected ==
  /\ BenchTypeOK
  /\ mpc # "unexpected"
  /\ \A w \in Workers : wpc[w] # "unexpected"

(* Whatever a thread uses is there while the process lives: workers run on  *)
(* a memory that tm_create has returned and that tm_destroy has not been    *)
(* called for, by a library that is loaded; nobody else runs while the       *)
(* memory is created or destroyed; and the runner does not outlive          *)
(* bounded_run or the library. The exception is a creation given up at its   *)
(* limit: there the library is unloaded under the runner.                    *)
NothingPulledAway ==
  Running =>
    /\ \A w \in Workers : wpc[w] = "work" => loaded /\ memory = "made" /\ runner = "done"
    /\ runner # "done" => \/ loaded /\ caller # "none"
                          \/ "slow create" \in faults
    /\ at \in {"destroy", "unload"} => \/ \A w \in Workers : wpc[w] = "gone"
                                       \/ "slow create" \in faults

(* The exit code tells what happened: 0 only if every library was measured  *)
(* and no worker of any round of any library failed; 1 tells of failures    *)
(* with no worker left, 2 of workers that measure() had to leave behind.     *)
ExitTells ==
  /\ exit = "0" => library = Libraries /\ faults \subseteq {"spurious"} /\ ~loaded
  /\ exit = "1" => faults \cap {"load", "slow create", "worker"} # {}
  /\ exit = "2" => faults \cap {"thread", "slow workers"} # {}
  /\ exit = "terminate" => faults \cap {"create", "slow destroy"} # {}

(* The bench ends, however many workers fail and whatever takes too long.   *)
(* One thing can keep it: after a spurious wakeup bounded_run joins the     *)
(* runner and keeps the mutex that the runner needs.                        *)
BenchEnds == <>(exit # "none" \/ (caller = "joining" /\ runner # "done"))

==============================================================================

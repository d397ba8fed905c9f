--------------------------------- MODULE Sync ---------------------------------
(***************************************************************************)
(* grading/grading.cpp: class Sync and measure(), with class Latch of      *)
(* common.hpp. A master and its workers meet in rounds: one of             *)
(* initialisation, some of measurements, one of checks.                    *)
(*                                                                         *)
(* status, nbready and errmsg are atomics that are read and written one by *)
(* one, so every access is a step. What a worker does in a round (init,    *)
(* run or check of the workload) is one step that ends well, returns an    *)
(* error or throws.                                                        *)
(***************************************************************************)
EXTENDS Naturals, FiniteSets

CONSTANTS
  Workers,  \* the worker threads
  Rounds    \* 2 + nbrepeats

ASSUME SyncAssumption ==
  /\ IsFiniteSet(Workers)
  /\ Workers # {}
  /\ Rounds \in Nat \ {0}

VARIABLES
  status,   \* Sync::status
  nbready,  \* Sync::nbready
  errmsg,   \* Sync::errmsg
  raised,   \* Sync::donelatch, whether it is raised
  started,  \* Sync::runtime.local, the round in which the clock was started
  total,    \* Sync::runtime.total, the intervals <<start, stop>> it adds up
  wpc,      \* where each worker is
  wround,   \* rounds each worker has begun
  outcome,  \* how each worker's last round ended
  mpc,      \* where the master is
  mround,   \* rounds the master has begun
  verdict   \* what measure() will return

clock   == <<started, total>>
workers == <<wpc, wround, outcome>>
master  == <<mpc, mround, verdict>>
vars    == <<status, nbready, errmsg, raised, clock, workers, master>>

nbworkers == Cardinality(Workers)
Outcome   == {"ok", "error", "exception"}

WorkerLocation == {
  "wait",        \* worker_wait, spins until the next round or the end
  "arrive",      \* worker_wait, has seen Status::Wait
  "reset",       \* worker_wait, the latest to arrive
  "open",        \* worker_wait, the latest, has reset nbready
  "spin",        \* worker_wait, waits for the latest
  "work",        \* in Workload::init, run or check
  "report",      \* worker_notify, has an error to store
  "abort",       \* worker_notify, has stored it
  "count",       \* worker_notify, about to count itself
  "clear",       \* worker_notify, the latest to finish
  "judge",       \* worker_notify, the latest, has reset nbready
  "done", "fail",\* worker_notify, the latest, has read status
  "stop",        \* worker_notify, the latest, has published the status
  "raise",       \* worker_notify, the latest, has stopped the clock
  "unexpected",  \* throws Unreachable: there is no round after the last
  "gone" }       \* has returned

MasterLocation == {
  "notify",      \* about to begin a round
  "clock",       \* master_notify, has set Status::Wait
  "latch",       \* master_wait, waits for the latch
  "woken",       \* master_wait, the latch was raised
  "unexpected",  \* throws Unreachable: neither Done nor Fail
  "overrun",     \* threw BoundedOverrun, the time limit has passed
  "join",        \* master_join
  "joining",     \* joins the threads
  "end" }

Init ==
  /\ status = "Done"
  /\ nbready = 0
  /\ errmsg = "none"
  /\ raised = FALSE
  /\ started = 0
  /\ total = {}
  /\ wpc = [w \in Workers |-> "wait"]
  /\ wround = [w \in Workers |-> 0]
  /\ outcome = [w \in Workers |-> "ok"]
  /\ mpc = "notify"
  /\ mround = 0
  /\ verdict = "none"

Go(w, from, to) ==
  /\ wpc[w] = from
  /\ wpc' = [wpc EXCEPT ![w] = to]

-----------------------------------------------------------------------------
(* worker_wait                                                              *)

SeeWait(w) ==
  /\ status = "Wait"
  /\ Go(w, "wait", "arrive")
  /\ UNCHANGED <<status, nbready, errmsg, raised, clock, wround, outcome, master>>

SeeQuit(w) ==
  /\ status = "Quit"
  /\ Go(w, "wait", "gone")
  /\ UNCHANGED <<status, nbready, errmsg, raised, clock, wround, outcome, master>>

Arrive(w) ==
  /\ Go(w, "arrive", IF nbready + 1 = nbworkers THEN "reset" ELSE "spin")
  /\ nbready' = nbready + 1
  /\ UNCHANGED <<status, errmsg, raised, clock, wround, outcome, master>>

Reset(w) ==
  /\ Go(w, "reset", "open")
  /\ nbready' = 0
  /\ UNCHANGED <<status, errmsg, raised, clock, wround, outcome, master>>

(* worker_wait returns true; after the round of checks measure() throws.    *)
Proceed(w, from) ==
  /\ Go(w, from, IF wround[w] < Rounds THEN "work" ELSE "unexpected")
  /\ wround' = [wround EXCEPT ![w] = @ + 1]

Open(w) ==
  /\ Proceed(w, "open")
  /\ status' = "Run"
  /\ UNCHANGED <<nbready, errmsg, raised, clock, outcome, master>>

(* Faulty: the waiting workers miss a round that has aborted already.       *)
SpinForRun(w) ==
  /\ status = "Run"
  /\ Proceed(w, "spin")
  /\ UNCHANGED <<status, nbready, errmsg, raised, clock, outcome, master>>

(* Faulty: a worker that has arrived does not wait for the others.          *)
SpinNot(w) ==
  /\ status \in {"Wait", "Run", "Abort"}
  /\ Proceed(w, "spin")
  /\ UNCHANGED <<status, nbready, errmsg, raised, clock, outcome, master>>

Spin(w) ==
  /\ status \in {"Run", "Abort"}
  /\ Proceed(w, "spin")
  /\ UNCHANGED <<status, nbready, errmsg, raised, clock, outcome, master>>

-----------------------------------------------------------------------------
(* The worker's part of a round, and worker_notify                          *)

Work(w, o) ==
  /\ Go(w, "work", IF o = "ok" THEN "count" ELSE "report")
  /\ outcome' = [outcome EXCEPT ![w] = o]
  /\ UNCHANGED <<status, nbready, errmsg, raised, clock, wround, master>>

Report(w) ==
  /\ Go(w, "report", "abort")
  /\ errmsg' = outcome[w]
  /\ UNCHANGED <<status, nbready, raised, clock, wround, outcome, master>>

Abort(w) ==
  /\ Go(w, "abort", "count")
  /\ status' = "Abort"
  /\ UNCHANGED <<nbready, errmsg, raised, clock, wround, outcome, master>>

(* A thread that has caught an exception returns, the others go on.         *)
Onward(w) == IF outcome[w] = "exception" THEN "gone" ELSE "wait"

Count(w) ==
  /\ Go(w, "count", IF nbready + 1 = nbworkers THEN "clear" ELSE Onward(w))
  /\ nbready' = nbready + 1
  /\ UNCHANGED <<status, errmsg, raised, clock, wround, outcome, master>>

(* Faulty: nbready keeps counting through the next round.                   *)
ClearNot(w) ==
  /\ Go(w, "clear", "judge")
  /\ UNCHANGED <<status, nbready, errmsg, raised, clock, wround, outcome, master>>

Clear(w) ==
  /\ Go(w, "clear", "judge")
  /\ nbready' = 0
  /\ UNCHANGED <<status, errmsg, raised, clock, wround, outcome, master>>

(* Faulty: the latest looks at its own result instead of the status.        *)
JudgeOwn(w) ==
  /\ Go(w, "judge", IF outcome[w] = "ok" THEN "done" ELSE "fail")
  /\ UNCHANGED <<status, nbready, errmsg, raised, clock, wround, outcome, master>>

Judge(w) ==
  /\ Go(w, "judge", IF status = "Abort" THEN "fail" ELSE "done")
  /\ UNCHANGED <<status, nbready, errmsg, raised, clock, wround, outcome, master>>

Publish(w) ==
  /\ \/ Go(w, "done", "stop") /\ status' = "Done"
     \/ Go(w, "fail", "stop") /\ status' = "Fail"
  /\ UNCHANGED <<nbready, errmsg, raised, clock, wround, outcome, master>>

Stop(w) ==
  /\ Go(w, "stop", "raise")
  /\ total' = total \cup {<<started, wround[w]>>}
  /\ UNCHANGED <<status, nbready, errmsg, raised, started, wround, outcome, master>>

Raise(w) ==
  /\ Go(w, "raise", Onward(w))
  /\ raised' = TRUE
  /\ UNCHANGED <<status, nbready, errmsg, clock, wround, outcome, master>>

-----------------------------------------------------------------------------
(* The master: measure() with master_notify, master_wait and master_join    *)

MasterGo(from, to) ==
  /\ mpc = from
  /\ mpc' = to

Notify ==
  /\ MasterGo("notify", "clock")
  /\ status' = "Wait"
  /\ mround' = mround + 1
  /\ UNCHANGED <<nbready, errmsg, raised, clock, workers, verdict>>

StartClock ==
  /\ MasterGo("clock", "latch")
  /\ started' = mround
  /\ UNCHANGED <<status, nbready, errmsg, raised, total, workers, mround, verdict>>

(* Faulty: Latch::wait leaves the latch raised.                             *)
WakeNoReset ==
  /\ raised
  /\ MasterGo("latch", "woken")
  /\ UNCHANGED <<status, nbready, errmsg, raised, clock, workers, mround, verdict>>

Wake ==
  /\ raised
  /\ MasterGo("latch", "woken")
  /\ raised' = FALSE
  /\ UNCHANGED <<status, nbready, errmsg, clock, workers, mround, verdict>>

(* cv.wait_for with a predicate gives up only if the latch is not raised.   *)
Overrun ==
  /\ ~raised
  /\ MasterGo("latch", "overrun")
  /\ UNCHANGED <<status, nbready, errmsg, raised, clock, workers, mround, verdict>>

(* master_wait returns the time or the error, or throws if it finds another *)
(* status; measure() begins the next round, or ends.                        *)
Return ==
  /\ MasterGo("woken", IF status = "Done" /\ mround < Rounds THEN "notify"
                       ELSE IF status \in {"Done", "Fail"} THEN "join" ELSE "unexpected")
  /\ verdict' = IF status = "Fail" THEN errmsg ELSE verdict
  /\ UNCHANGED <<status, nbready, errmsg, raised, clock, workers, mround>>

Join ==
  /\ MasterGo("join", "joining")
  /\ status' = "Quit"
  /\ UNCHANGED <<nbready, errmsg, raised, clock, workers, mround, verdict>>

Joined ==
  /\ \A w \in Workers : wpc[w] = "gone"
  /\ MasterGo("joining", "end")
  /\ UNCHANGED <<status, nbready, errmsg, raised, clock, workers, mround, verdict>>

-----------------------------------------------------------------------------

WaitStep(w)   == SeeWait(w) \/ SeeQuit(w) \/ Arrive(w) \/ Reset(w) \/ Open(w) \/ Spin(w)
NotifyStep(w) == \/ Report(w) \/ Abort(w) \/ Count(w) \/ Clear(w) \/ Judge(w)
                 \/ Publish(w) \/ Stop(w) \/ Raise(w)
Worker(w)     == WaitStep(w) \/ (\E o \in Outcome : Work(w, o)) \/ NotifyStep(w)
Measure       == Notify \/ StartClock \/ Wake \/ Return \/ Join \/ Joined

Next == (\E w \in Workers : Worker(w)) \/ Measure \/ Overrun

Spec == Init /\ [][Next]_vars

-----------------------------------------------------------------------------
(* Types; nbready never exceeds the number of workers.                      *)
TypeOK ==
  /\ status \in {"Wait", "Run", "Abort", "Done", "Fail", "Quit"}
  /\ nbready \in 0 .. nbworkers
  /\ errmsg \in {"none", "error", "exception"}
  /\ raised \in BOOLEAN
  /\ started \in 0 .. Rounds
  /\ total \subseteq (0 .. Rounds) \X (0 .. Rounds)
  /\ wpc \in [Workers -> WorkerLocation]
  /\ wround \in [Workers -> 0 .. Rounds + 1]
  /\ outcome \in [Workers -> Outcome]
  /\ mpc \in MasterLocation
  /\ mround \in 0 .. Rounds
  /\ verdict \in {"none", "error", "exception"}

(* While a worker is in the workload, every other worker has arrived in the *)
(* same round, and the master has begun no other one: a fast worker neither *)
(* starts before a slow one is there nor gets a round ahead of it.          *)
RoundsDoNotOverlap ==
  \A w \in Workers : wpc[w] = "work" =>
    /\ mround = wround[w]
    /\ mpc \in {"clock", "latch", "overrun"}
    /\ \A v \in Workers :
         wround[v] = (IF wpc[v] = "spin" THEN wround[w] - 1 ELSE wround[w])

(* When the master is woken, every worker has finished the round, and the   *)
(* status says whether one of them failed; the message is of one that did.  *)
(* No failure of a worker is overwritten by another one's success.          *)
VerdictOfTheRound ==
  mpc = "woken" =>
    /\ \A w \in Workers : wround[w] = mround /\ wpc[w] \in {"wait", "gone"}
    /\ IF \A w \in Workers : outcome[w] = "ok"
       THEN status = "Done"
       ELSE status = "Fail" /\ \E w \in Workers : outcome[w] = errmsg

(* The comment of Sync::runtime: the runtime is the time "between           *)
(* 'master_notify' and when the last worker finished". It adds up the       *)
(* intervals of all rounds instead.                                         *)
RuntimeOfTheRound ==
  mpc = "woken" => \A i \in total : i[2] = mround

==============================================================================

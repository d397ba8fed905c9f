------------------------------ MODULE BenchProofs ------------------------------
(***************************************************************************)
(* Proofs about Sync.tla and Bench.tla, for any finite set of workers and   *)
(* any number of rounds and libraries: rounds do not overlap, the master's  *)
(* verdict is the round's, nothing the code calls unreachable is reached,   *)
(* nothing is pulled away from under a thread, and the exit code tells what *)
(* happened.                                                                *)
(***************************************************************************)
EXTENDS Bench, Integers, FiniteSetTheorems, TLAPS

-----------------------------------------------------------------------------
(* Sync: what a state of a round looks like, by Sync::status, which is       *)
(* written by four different hands.                                          *)

Failed(w) == outcome[w] # "ok"

Listening == mpc \in {"clock", "latch", "overrun"}

(* Status::Wait: the workers arrive, all the last round's outcomes are good. *)
Gathering ==
  /\ Listening /\ ~raised
  /\ \A w \in Workers : /\ wround[w] = mround - 1 /\ ~Failed(w)
                        /\ wpc[w] \in {"wait", "arrive", "spin", "reset", "open"}

(* Status::Run or Abort: each worker has still to leave worker_wait, is in   *)
(* the round, or through with it. It is Abort as soon as a worker that       *)
(* failed may have counted itself, and the message is that of a failed one.  *)
UnderWay ==
  /\ Listening /\ ~raised
  /\ \A w \in Workers :
       /\ \/ wpc[w] = "spin" /\ wround[w] = mround - 1
          \/ /\ wround[w] = mround
             /\ wpc[w] \in {"work", "report", "abort", "count", "clear", "judge",
                            "done", "fail", "wait", "gone"}
       /\ wpc[w] \in {"spin", "work"} => ~Failed(w)
       /\ wpc[w] \in {"report", "abort", "gone"} => Failed(w)
       /\ wpc[w] = "done" => status = "Run"
       /\ wpc[w] = "fail" => status = "Abort"
       /\ Failed(w) /\ wpc[w] # "report" => \E v \in Workers : outcome[v] = errmsg
       /\ Failed(w) /\ wpc[w] \notin {"report", "abort"} => status = "Abort"
  /\ status = "Abort" => \E w \in Workers : Failed(w)

(* Status::Done or Fail: all are through, but the latest may still have to   *)
(* raise the latch.                                                          *)
Closed ==
  /\ mpc \in {"notify", "clock", "latch", "overrun", "woken", "join"}
  /\ \A w \in Workers : /\ wround[w] = mround
                        /\ wpc[w] \in {"wait", "gone", "stop", "raise"}
                        /\ wpc[w] = "gone" => Failed(w)
                        /\ wpc[w] \in {"stop", "raise"} => Listening /\ ~raised
  /\ status = "Done" => \A w \in Workers : ~Failed(w)
  /\ status = "Fail" => \E w \in Workers : Failed(w) /\ outcome[w] = errmsg
  /\ raised => Listening
  /\ mpc = "notify" => status = "Done" /\ mround < Rounds

(* Status::Quit: the workers leave. *)
Quitting ==
  /\ mpc \in {"joining", "end"}
  /\ \A w \in Workers : wpc[w] \in {"wait", "gone"}
  /\ mpc = "end" => \A w \in Workers : wpc[w] = "gone"

Phase ==
  /\ status = "Wait" => Gathering
  /\ status \in {"Run", "Abort"} => UnderWay
  /\ status \in {"Done", "Fail"} => Closed
  /\ status = "Quit" => Quitting

(* The latest to arrive, and the latest to finish, is the only one left.     *)
Opener == {"reset", "open"}
Closer == {"clear", "judge", "done", "fail", "stop", "raise"}

Latest ==
  \A w, v \in Workers : w # v =>
    /\ wpc[w] \in Opener => wpc[v] = "spin"
    /\ wpc[w] \in Closer => wpc[v] \in {"wait", "gone"}

(* nbready counts the workers that have arrived while the round gathers, and *)
(* those that are through once it is under way; between, it is reset.        *)
Counted ==
  {w \in Workers : wpc[w] \in IF status = "Wait" THEN {"spin", "reset"}
                                                 ELSE {"wait", "gone", "clear"}}

WasReset ==
  \/ status \notin {"Wait", "Run", "Abort"}
  \/ \E w \in Workers : wpc[w] \in {"open", "judge", "done", "fail"}

Counting == nbready = IF WasReset THEN 0 ELSE Cardinality(Counted)

(* measure() has no error to return before it leaves its loop, and then one  *)
(* exactly if a worker has failed.                                           *)
Verdict ==
  /\ mpc \notin {"join", "joining", "end"} => verdict = "none"
  /\ mpc \in {"join", "joining", "end"} =>
       (verdict = "none" <=> \A w \in Workers : ~Failed(w))
  /\ mpc # "unexpected"
  /\ mpc # "notify" => mround > 0

(* The inductive invariant of Sync. *)
SyncInv == TypeOK /\ Phase /\ Latest /\ Counting /\ Verdict

-----------------------------------------------------------------------------
(* Sets of workers are finite. *)
LEMMA FiniteWorkers ==
  ASSUME NEW S \in SUBSET Workers
  PROVE  /\ Cardinality(S) \in 0 .. nbworkers
         /\ \A w \in Workers : w \notin S => Cardinality(S \cup {w}) = Cardinality(S) + 1
         /\ Cardinality(S) = nbworkers => S = Workers
<1>1. IsFiniteSet(S) /\ IsFiniteSet(Workers)
  BY FS_Subset, SyncAssumption
<1>2. Cardinality(S) \in Nat /\ nbworkers \in Nat /\ Cardinality(S) <= nbworkers
  BY <1>1, FS_CardinalityType, FS_Subset DEF nbworkers
<1>3. \A w \in Workers : w \notin S => Cardinality(S \cup {w}) = Cardinality(S) + 1
  BY <1>1, FS_AddElement
<1>4. Cardinality(S) = nbworkers => S = Workers
  BY <1>1, FS_Subset DEF nbworkers
<1>5. QED
  BY <1>2, <1>3, <1>4

LEMMA SomeWorkers == nbworkers \in Nat \ {0} /\ Cardinality({}) = 0
<1>1. nbworkers \in Nat /\ nbworkers # 0
  BY SyncAssumption, FS_CardinalityType, FS_EmptySet DEF nbworkers
<1>2. QED
  BY <1>1, FS_EmptySet

(* Where a worker is tells the status, and who else may be where. *)
LEMMA StatusOf ==
  ASSUME SyncInv, NEW w \in Workers
  PROVE  /\ wpc[w] \in {"arrive", "reset", "open"} => status = "Wait"
         /\ wpc[w] \in {"work", "report", "abort", "count", "clear", "judge", "done", "fail"}
              => status \in {"Run", "Abort"}
         /\ wpc[w] \in {"stop", "raise"} => status \in {"Done", "Fail"}
BY DEF SyncInv, TypeOK, Phase, Gathering, UnderWay, Closed, Quitting

(* Nobody is the latest while a worker has still to arrive or to finish. *)
LEMMA NoLatest ==
  ASSUME SyncInv, NEW w \in Workers,
         \/ wpc[w] \in {"arrive", "work", "report", "abort", "count"}
         \/ wpc[w] = "spin" /\ status \in {"Run", "Abort"}
         \/ wpc[w] = "wait" /\ status = "Wait"
  PROVE  \A v \in Workers : wpc[v] \notin Opener \cup Closer
<1>1. wpc[w] \notin Opener \cup Closer
  BY DEF Opener, Closer
<1>2. ASSUME NEW v \in Workers, v # w, wpc[v] \in Opener PROVE FALSE
  <2>1. wpc[w] = "spin" /\ status = "Wait"
    BY <1>2, StatusOf DEF SyncInv, Latest, Opener
  <2>2. QED
    BY <2>1
<1>3. ASSUME NEW v \in Workers, v # w, wpc[v] \in Closer PROVE FALSE
  <2>1. wpc[w] \in {"wait", "gone"} /\ status # "Wait"
    BY <1>3, StatusOf DEF SyncInv, Latest, Closer
  <2>2. QED
    BY <2>1
<1>4. QED
  BY <1>1, <1>2, <1>3

(* The types: that a round is never begun after the last one, and nbready    *)
(* never counts a worker twice, needs the whole invariant.                   *)
LEMMA CountedFits ==
  ASSUME SyncInv, NEW w \in Workers, wpc[w] \in {"arrive", "count"}
  PROVE  /\ ~WasReset /\ w \notin Counted /\ nbready = Cardinality(Counted)
         /\ nbready + 1 \in 0 .. nbworkers
         /\ nbready + 1 = nbworkers =>
              \A v \in Workers \ {w} : wpc[v] \in IF status = "Wait" THEN {"spin"}
                                                                     ELSE {"wait", "gone"}
<1>1. \A v \in Workers : wpc[v] \notin Opener \cup Closer
  BY NoLatest
<1>2. status \in {"Wait", "Run", "Abort"}
  BY StatusOf
<1>3. ~WasReset
  BY <1>1, <1>2 DEF WasReset, Opener, Closer
<1>4. nbready = Cardinality(Counted)
  BY <1>3 DEF SyncInv, Counting
<1>5. w \notin Counted
  BY DEF Counted
<1>6. Counted \in SUBSET Workers /\ Counted \cup {w} \in SUBSET Workers
  BY DEF Counted
<1>7. Cardinality(Counted \cup {w}) = nbready + 1
  BY <1>4, <1>5, <1>6, FiniteWorkers
<1>8. nbready + 1 \in 0 .. nbworkers
  BY <1>6, <1>7, FiniteWorkers
<1>9. ASSUME nbready + 1 = nbworkers, NEW v \in Workers \ {w}
      PROVE  wpc[v] \in IF status = "Wait" THEN {"spin"} ELSE {"wait", "gone"}
  <2>1. Counted \cup {w} = Workers
    BY <1>6, <1>7, <1>9, FiniteWorkers
  <2>2. v \in Counted
    BY <2>1
  <2>3. QED
    BY <2>2, <1>1 DEF Counted, Opener, Closer
<1>10. QED
  BY <1>3, <1>4, <1>5, <1>8, <1>9

LEMMA SyncTypeStep ==
  ASSUME SyncInv, Next
  PROVE  TypeOK'
<1> USE SyncAssumption, SomeWorkers DEF TypeOK, WorkerLocation, MasterLocation, Outcome
<1>0. TypeOK
  BY DEF SyncInv
<1>1. ASSUME NEW w \in Workers, SeeWait(w) \/ SeeQuit(w) PROVE TypeOK'
  BY <1>0, <1>1 DEF SeeWait, SeeQuit, Go, clock, workers, master
<1>2. ASSUME NEW w \in Workers, Arrive(w) PROVE TypeOK'
  <2>1. nbready' \in 0 .. nbworkers
    BY <1>2, CountedFits DEF Arrive, Go
  <2>2. QED
    BY <1>0, <1>2, <2>1 DEF Arrive, Go, clock, workers, master
<1>3. ASSUME NEW w \in Workers, Count(w) PROVE TypeOK'
  <2>1. nbready' \in 0 .. nbworkers
    BY <1>3, CountedFits DEF Count, Go
  <2>2. QED
    BY <1>0, <1>3, <2>1 DEF Count, Go, Onward, clock, workers, master
<1>4. ASSUME NEW w \in Workers, Reset(w) \/ Clear(w) PROVE TypeOK'
  BY <1>0, <1>4 DEF Reset, Clear, Go, clock, workers, master
<1>5. ASSUME NEW w \in Workers, Open(w) \/ Spin(w) PROVE TypeOK'
  <2>1. wround[w] = mround - 1
    BY <1>5, StatusOf DEF Open, Spin, Proceed, Go, SyncInv, Phase, Gathering, UnderWay
  <2>2. wround[w] + 1 \in 0 .. Rounds + 1
    BY <2>1, <1>0
  <2>3. QED
    BY <1>0, <1>5, <2>2 DEF Open, Spin, Proceed, Go, clock, workers, master
<1>6. ASSUME NEW w \in Workers, NEW o \in Outcome, Work(w, o) PROVE TypeOK'
  BY <1>0, <1>6 DEF Work, Go, clock, workers, master
<1>7. ASSUME NEW w \in Workers, Report(w) PROVE TypeOK'
  <2>1. outcome[w] # "ok"
    BY <1>7, StatusOf DEF Report, Go, SyncInv, Phase, UnderWay, Failed
  <2>2. QED
    BY <1>0, <1>7, <2>1 DEF Report, Go, clock, workers, master
<1>8. ASSUME NEW w \in Workers, Abort(w) \/ Judge(w) \/ Publish(w) \/ Raise(w) PROVE TypeOK'
  <2>1. CASE Abort(w) \/ Publish(w)
    BY <1>0, <2>1 DEF Abort, Publish, Go, clock, workers, master
  <2>2. CASE Judge(w) \/ Raise(w)
    BY <1>0, <2>2 DEF Judge, Raise, Go, Onward, clock, workers, master
  <2>3. QED
    BY <1>8, <2>1, <2>2
<1>9. ASSUME NEW w \in Workers, Stop(w) PROVE TypeOK'
  <2>1. wround[w] = mround
    BY <1>9, StatusOf DEF Stop, Go, SyncInv, Phase, Closed
  <2>2. QED
    BY <1>0, <1>9, <2>1 DEF Stop, Go, clock, workers, master
<1>10. ASSUME Notify PROVE TypeOK'
  <2>1. mround < Rounds
    BY <1>10 DEF Notify, MasterGo, SyncInv, TypeOK, Phase, Gathering, UnderWay, Closed,
                 Quitting, Listening
  <2>2. mround + 1 \in 0 .. Rounds
    BY <2>1, <1>0
  <2>3. QED
    BY <1>0, <1>10, <2>2 DEF Notify, MasterGo, clock, workers, master
<1>11. ASSUME StartClock \/ Wake \/ Overrun \/ Join \/ Joined PROVE TypeOK'
  BY <1>0, <1>11 DEF StartClock, Wake, Overrun, Join, Joined, MasterGo, clock, workers, master
<1>12. ASSUME Return PROVE TypeOK'
  BY <1>0, <1>12 DEF Return, MasterGo, clock, workers, master
<1>13. QED
  BY <1>1, <1>2, <1>3, <1>4, <1>5, <1>6, <1>7, <1>8, <1>9, <1>10, <1>11, <1>12
     DEF Next, Worker, WaitStep, NotifyStep, Measure

(* What follows shows for each step that the rest of the invariant holds     *)
(* after it. First worker_wait.                                              *)
Rest == Phase /\ Latest /\ Counting /\ Verdict

LEMMA SeeStep ==
  ASSUME SyncInv, NEW w \in Workers, SeeWait(w) \/ SeeQuit(w)
  PROVE  Rest'
<1> USE DEF Go
<1>1. CASE SeeWait(w)
  <2>0. \A v \in Workers : wpc[v] \notin Opener \cup Closer
    BY <1>1, NoLatest DEF SeeWait
  <2>1. Gathering /\ status' = "Wait"
    BY <1>1 DEF SeeWait, SyncInv, Phase
  <2>2. Gathering'
    BY <1>1, <2>1 DEF SeeWait, SyncInv, TypeOK, Gathering, Failed, Listening, master
  <2>3. Phase'
    BY <2>1, <2>2 DEF Phase
  <2>4. Latest'
    BY <1>1, <2>0 DEF SeeWait, SyncInv, TypeOK, Latest, Opener, Closer
  <2>5. Counted' = Counted
    BY <1>1 DEF SeeWait, SyncInv, TypeOK, Counted
  <2>6. WasReset' = WasReset
    BY <1>1, <2>0 DEF SeeWait, SyncInv, TypeOK, WasReset, Opener, Closer
  <2>7. Counting'
    BY <1>1, <2>5, <2>6 DEF SeeWait, SyncInv, Counting
  <2>8. Verdict'
    BY <1>1 DEF SeeWait, SyncInv, Verdict, Failed, master
  <2>9. QED
    BY <2>3, <2>4, <2>7, <2>8 DEF Rest
<1>2. CASE SeeQuit(w)
  <2>1. Quitting /\ status' = "Quit" /\ status = "Quit"
    BY <1>2 DEF SeeQuit, SyncInv, Phase
  <2>2. Quitting'
    BY <1>2, <2>1 DEF SeeQuit, SyncInv, TypeOK, Quitting, master
  <2>3. Phase'
    BY <2>1, <2>2 DEF Phase
  <2>4. Latest'
    BY <2>2 DEF Quitting, Latest, Opener, Closer
  <2>5. Counting'
    BY <1>2, <2>1 DEF SeeQuit, SyncInv, Counting, WasReset
  <2>6. Verdict'
    BY <1>2 DEF SeeQuit, SyncInv, Verdict, Failed, master
  <2>7. QED
    BY <2>3, <2>4, <2>5, <2>6 DEF Rest
<1>3. QED
  BY <1>1, <1>2

LEMMA ArriveStep ==
  ASSUME SyncInv, NEW w \in Workers, Arrive(w)
  PROVE  Rest'
<1> USE DEF Arrive, Go
<1>0. /\ \A v \in Workers : wpc[v] \notin Opener \cup Closer
      /\ status = "Wait" /\ Gathering
  BY NoLatest, StatusOf DEF SyncInv, Phase
<1>1. Gathering'
  BY <1>0 DEF SyncInv, TypeOK, Gathering, Failed, Listening, master
<1>2. Phase'
  BY <1>0, <1>1 DEF Phase
<1>3. Latest'
  <2>1. CASE nbready + 1 = nbworkers
    <3>1. \A v \in Workers \ {w} : wpc[v] = "spin"
      BY <2>1, <1>0, CountedFits
    <3>2. QED
      BY <2>1, <3>1 DEF SyncInv, TypeOK, Latest, Opener, Closer
  <2>2. CASE nbready + 1 # nbworkers
    BY <2>2, <1>0 DEF SyncInv, TypeOK, Latest, Opener, Closer
  <2>3. QED
    BY <2>1, <2>2
<1>4. Counted' = Counted \cup {w} /\ Counted \in SUBSET Workers
  BY <1>0 DEF SyncInv, TypeOK, Counted
<1>5. ~WasReset'
  BY <1>0 DEF SyncInv, TypeOK, WasReset, Opener, Closer
<1>6. nbready' = Cardinality(Counted) + 1 /\ w \notin Counted
  BY CountedFits
<1>7. Counting'
  BY <1>4, <1>5, <1>6, FiniteWorkers DEF Counting
<1>8. Verdict'
  BY DEF SyncInv, Verdict, Failed, master
<1>9. QED
  BY <1>2, <1>3, <1>7, <1>8 DEF Rest

LEMMA ResetStep ==
  ASSUME SyncInv, NEW w \in Workers, Reset(w)
  PROVE  Rest'
<1> USE DEF Reset, Go
<1>0. status = "Wait" /\ Gathering
  BY StatusOf DEF SyncInv, Phase
<1>1. Gathering'
  BY <1>0 DEF SyncInv, TypeOK, Gathering, Failed, Listening, master
<1>2. Phase'
  BY <1>0, <1>1 DEF Phase
<1>3. Latest'
  BY DEF SyncInv, TypeOK, Latest, Opener, Closer
<1>4. WasReset'
  BY DEF SyncInv, TypeOK, WasReset
<1>5. Counting'
  BY <1>4 DEF Counting
<1>6. Verdict'
  BY DEF SyncInv, Verdict, Failed, master
<1>7. QED
  BY <1>2, <1>3, <1>5, <1>6 DEF Rest

(* The round begins: all others wait for the latest, none of them is through. *)
LEMMA OpenStep ==
  ASSUME SyncInv, NEW w \in Workers, Open(w)
  PROVE  Rest'
<1> USE DEF Open, Proceed, Go
<1>0. /\ status = "Wait" /\ Gathering
      /\ \A v \in Workers \ {w} : wpc[v] = "spin"
  BY StatusOf DEF SyncInv, Phase, Latest, Opener
<1>1. wpc' = [wpc EXCEPT ![w] = "work"]
  <2>1. wround[w] = mround - 1
    BY <1>0 DEF Gathering
  <2>2. wround[w] < Rounds
    BY <2>1, SyncAssumption DEF SyncInv, TypeOK
  <2>3. QED
    BY <2>2
<1>2. UnderWay'
  <2>1. wround'[w] = mround
    BY <1>0 DEF SyncInv, TypeOK, Gathering
  <2>2. QED
    BY <1>0, <1>1, <2>1 DEF SyncInv, TypeOK, Gathering, UnderWay, Failed, Listening, master
<1>3. Phase'
  BY <1>2 DEF Phase
<1>4. Latest'
  BY <1>0, <1>1 DEF SyncInv, TypeOK, Latest, Opener, Closer
<1>5. Counted' = {} /\ nbready' = 0
  <2>1. WasReset
    BY DEF WasReset
  <2>2. nbready = 0
    BY <2>1 DEF SyncInv, Counting
  <2>3. QED
    BY <1>0, <1>1, <2>2 DEF SyncInv, TypeOK, Counted
<1>6. Counting'
  BY <1>5, SomeWorkers DEF Counting
<1>7. Verdict'
  BY DEF SyncInv, Verdict, Failed, master
<1>8. QED
  BY <1>3, <1>4, <1>6, <1>7 DEF Rest

LEMMA SpinStep ==
  ASSUME SyncInv, NEW w \in Workers, Spin(w)
  PROVE  Rest'
<1> USE DEF Spin, Proceed, Go
<1>0. /\ \A v \in Workers : wpc[v] \notin Opener \cup Closer
      /\ status \in {"Run", "Abort"} /\ UnderWay
  BY NoLatest DEF SyncInv, Phase
<1>1. wpc' = [wpc EXCEPT ![w] = "work"] /\ wround'[w] = mround
  <2>1. wround[w] = mround - 1
    BY <1>0 DEF UnderWay
  <2>2. wround[w] < Rounds
    BY <2>1, SyncAssumption DEF SyncInv, TypeOK
  <2>3. wround[w] + 1 = mround
    BY <2>1 DEF SyncInv, TypeOK
  <2>4. QED
    BY <2>2, <2>3 DEF SyncInv, TypeOK
<1>2. UnderWay'
  BY <1>0, <1>1 DEF SyncInv, TypeOK, UnderWay, Failed, Listening, master
<1>3. Phase'
  BY <1>0, <1>2 DEF Phase
<1>4. Latest'
  BY <1>0, <1>1 DEF SyncInv, TypeOK, Latest, Opener, Closer
<1>5. Counted' = Counted
  BY <1>0, <1>1 DEF SyncInv, TypeOK, Counted
<1>6. WasReset' = WasReset
  BY <1>0, <1>1 DEF SyncInv, TypeOK, WasReset, Opener, Closer
<1>7. Counting'
  BY <1>5, <1>6 DEF SyncInv, Counting
<1>8. Verdict'
  BY DEF SyncInv, Verdict, Failed, master
<1>9. QED
  BY <1>3, <1>4, <1>7, <1>8 DEF Rest

-----------------------------------------------------------------------------
(* The worker's part, and worker_notify. *)
LEMMA WorkStep ==
  ASSUME SyncInv, NEW w \in Workers, NEW o \in Outcome, Work(w, o)
  PROVE  Rest'
<1> USE DEF Work, Go
<1>0. /\ \A v \in Workers : wpc[v] \notin Opener \cup Closer
      /\ status \in {"Run", "Abort"} /\ UnderWay
  BY NoLatest, StatusOf DEF SyncInv, Phase
<1>1. ~Failed(w)
  BY <1>0 DEF UnderWay
<1>2. outcome'[w] = o /\ \A v \in Workers \ {w} : outcome'[v] = outcome[v] /\ wpc'[v] = wpc[v]
  BY DEF SyncInv, TypeOK
<1>3. wpc'[w] = IF o = "ok" THEN "count" ELSE "report"
  BY DEF SyncInv, TypeOK
<1>4. UnderWay'
  <2>1. errmsg # "ok" /\ errmsg' = errmsg /\ status' = status /\ wround' = wround /\ raised' = raised
    BY DEF SyncInv, TypeOK
  <2>2. (\E v \in Workers : outcome[v] = errmsg) => \E v \in Workers : outcome'[v] = errmsg
    BY <1>1, <1>2, <2>1 DEF Failed
  <2>3. (\E v \in Workers : Failed(v)) => \E v \in Workers : Failed(v)'
    BY <1>1, <1>2 DEF Failed
  <2>4. QED
    BY <1>0, <1>2, <1>3, <2>1, <2>2, <2>3 DEF UnderWay, Failed, Listening, master
<1>5. Phase'
  BY <1>0, <1>4 DEF Phase
<1>6. Latest'
  BY <1>0, <1>2, <1>3 DEF Latest, Opener, Closer
<1>7. Counted' = Counted /\ WasReset' = WasReset
  BY <1>0, <1>2, <1>3 DEF Counted, WasReset, Opener, Closer
<1>8. Counting'
  BY <1>7 DEF SyncInv, Counting
<1>9. Verdict'
  <2>1. mpc' = mpc /\ verdict' = verdict /\ mround' = mround /\ mpc \notin {"join", "joining", "end"}
    BY <1>0 DEF UnderWay, Listening, master
  <2>2. QED
    BY <2>1 DEF SyncInv, Verdict
<1>10. QED
  BY <1>5, <1>6, <1>8, <1>9 DEF Rest

LEMMA ReportStep ==
  ASSUME SyncInv, NEW w \in Workers, Report(w) \/ Abort(w)
  PROVE  Rest'
<1> USE DEF Go
<1>0. /\ \A v \in Workers : wpc[v] \notin Opener \cup Closer
      /\ status \in {"Run", "Abort"} /\ UnderWay
  BY NoLatest, StatusOf DEF SyncInv, Phase, Report, Abort
<1>1. /\ wpc' = [wpc EXCEPT ![w] = wpc'[w]] /\ wpc'[w] \in {"abort", "count"}
      /\ wpc[w] \in {"report", "abort"}
      /\ UNCHANGED <<nbready, raised, wround, outcome, master>>
  BY DEF Report, Abort, SyncInv, TypeOK
<1>2. UnderWay' /\ status' \in {"Run", "Abort"}
  <2>1. CASE Report(w)
    BY <1>0, <2>1 DEF SyncInv, TypeOK, Report, UnderWay, Failed, Listening, master
  <2>2. CASE Abort(w)
    BY <1>0, <2>2 DEF SyncInv, TypeOK, Abort, UnderWay, Failed, Listening, master, Closer
  <2>3. QED
    BY <2>1, <2>2
<1>3. Phase'
  BY <1>2 DEF Phase
<1>4. Latest'
  BY <1>0, <1>1 DEF SyncInv, TypeOK, Latest, Opener, Closer
<1>5. Counted' = Counted /\ WasReset' = WasReset
  BY <1>0, <1>1, <1>2 DEF SyncInv, TypeOK, Counted, WasReset, Opener, Closer
<1>6. Counting'
  BY <1>1, <1>5 DEF SyncInv, Counting
<1>7. Verdict'
  BY <1>1 DEF SyncInv, Verdict, Failed, master
<1>8. QED
  BY <1>3, <1>4, <1>6, <1>7 DEF Rest

LEMMA CountStep ==
  ASSUME SyncInv, NEW w \in Workers, Count(w)
  PROVE  Rest'
<1> USE DEF Count, Go
<1>0. /\ \A v \in Workers : wpc[v] \notin Opener \cup Closer
      /\ status \in {"Run", "Abort"} /\ UnderWay
  BY NoLatest, StatusOf DEF SyncInv, Phase
<1>1. wpc' = [wpc EXCEPT ![w] = wpc'[w]] /\ wpc'[w] \in {"clear", "gone", "wait"}
  BY DEF SyncInv, TypeOK, Onward
<1>2. UnderWay'
  <2>1. wpc'[w] = "gone" => Failed(w)
    BY DEF SyncInv, TypeOK, Onward, Failed
  <2>2. QED
    BY <1>0, <1>1, <2>1 DEF SyncInv, TypeOK, UnderWay, Failed, Listening, master
<1>3. Phase'
  BY <1>0, <1>2 DEF Phase
<1>4. Latest'
  <2>1. CASE nbready + 1 = nbworkers
    <3>1. \A v \in Workers \ {w} : wpc[v] \in {"wait", "gone"}
      BY <2>1, <1>0, CountedFits
    <3>2. QED
      BY <3>1, <1>1 DEF SyncInv, TypeOK, Latest, Opener, Closer
  <2>2. CASE nbready + 1 # nbworkers
    <3>1. wpc'[w] \in {"wait", "gone"}
      BY <2>2 DEF SyncInv, TypeOK, Onward
    <3>2. QED
      BY <3>1, <1>0, <1>1 DEF SyncInv, TypeOK, Latest, Opener, Closer
  <2>3. QED
    BY <2>1, <2>2
<1>5. Counted' = Counted \cup {w} /\ Counted \in SUBSET Workers
  BY <1>0, <1>1 DEF SyncInv, TypeOK, Counted
<1>6. ~WasReset'
  BY <1>0, <1>1 DEF SyncInv, TypeOK, WasReset, Opener, Closer
<1>7. nbready' = Cardinality(Counted) + 1 /\ w \notin Counted
  BY CountedFits
<1>8. Counting'
  BY <1>5, <1>6, <1>7, FiniteWorkers DEF Counting
<1>9. Verdict'
  BY DEF SyncInv, Verdict, Failed, master
<1>10. QED
  BY <1>3, <1>4, <1>8, <1>9 DEF Rest

(* The latest of the round, while the others are through. *)
LEMMA ClearStep ==
  ASSUME SyncInv, NEW w \in Workers, Clear(w) \/ Judge(w)
  PROVE  Rest'
<1> USE DEF Go
<1>0. status \in {"Run", "Abort"} /\ UnderWay
  BY StatusOf DEF SyncInv, Phase, Clear, Judge
<1>1. /\ wpc' = [wpc EXCEPT ![w] = wpc'[w]] /\ wpc'[w] \in {"judge", "done", "fail"}
      /\ wpc[w] \in {"clear", "judge"}
      /\ UNCHANGED <<status, errmsg, raised, wround, outcome, master>>
  BY DEF Clear, Judge, SyncInv, TypeOK
<1>2. UnderWay'
  <2>1. wpc'[w] = "done" => status = "Run"
    BY <1>0 DEF Clear, Judge, SyncInv, TypeOK
  <2>2. wpc'[w] = "fail" => status = "Abort"
    BY <1>0 DEF Clear, Judge, SyncInv, TypeOK
  <2>3. QED
    BY <1>0, <1>1, <2>1, <2>2 DEF SyncInv, TypeOK, UnderWay, Failed, Listening, master
<1>3. Phase'
  BY <1>0, <1>1, <1>2 DEF Phase
<1>4. Latest'
  BY <1>1 DEF SyncInv, TypeOK, Latest, Opener, Closer
<1>5. WasReset'
  BY <1>1 DEF SyncInv, TypeOK, WasReset
<1>6. nbready' = 0
  <2>1. CASE Clear(w)
    BY <2>1 DEF Clear
  <2>2. CASE Judge(w)
    BY <2>2 DEF Judge, SyncInv, Counting, WasReset
  <2>3. QED
    BY <2>1, <2>2
<1>7. Counting'
  BY <1>5, <1>6 DEF Counting
<1>8. Verdict'
  BY <1>1 DEF SyncInv, Verdict, Failed, master
<1>9. QED
  BY <1>3, <1>4, <1>7, <1>8 DEF Rest

LEMMA PublishStep ==
  ASSUME SyncInv, NEW w \in Workers, Publish(w)
  PROVE  Rest'
<1> USE DEF Publish, Go
<1>0. /\ status \in {"Run", "Abort"} /\ UnderWay
      /\ \A v \in Workers \ {w} : wpc[v] \in {"wait", "gone"}
  BY StatusOf DEF SyncInv, Phase, Latest, Closer
<1>1. wpc' = [wpc EXCEPT ![w] = "stop"] /\ status' \in {"Done", "Fail"}
  OBVIOUS
<1>2. status' = "Done" => \A v \in Workers : ~Failed(v)
  <2>1. status' = "Done" => status = "Run"
    BY <1>0 DEF UnderWay
  <2>2. QED
    BY <2>1, <1>0 DEF UnderWay
<1>3. status' = "Fail" => \E v \in Workers : Failed(v) /\ outcome[v] = errmsg
  <2> SUFFICES ASSUME status' = "Fail" PROVE \E v \in Workers : Failed(v) /\ outcome[v] = errmsg
    OBVIOUS
  <2>1. wpc[w] = "fail" /\ status = "Abort"
    BY <1>0 DEF UnderWay
  <2>2. PICK v \in Workers : Failed(v) /\ wpc[v] # "report"
    BY <2>1, <1>0 DEF UnderWay
  <2>3. PICK u \in Workers : outcome[u] = errmsg
    BY <2>2, <1>0 DEF UnderWay
  <2>4. errmsg # "ok"
    BY DEF SyncInv, TypeOK
  <2>5. QED
    BY <2>3, <2>4 DEF Failed
<1>4. Closed'
  BY <1>0, <1>1, <1>2, <1>3 DEF SyncInv, TypeOK, UnderWay, Closed, Failed, Listening, master
<1>5. Phase'
  BY <1>1, <1>4 DEF Phase
<1>6. Latest'
  BY <1>0, <1>1 DEF SyncInv, TypeOK, Latest, Opener, Closer
<1>7. nbready' = 0 /\ WasReset'
  BY <1>1 DEF SyncInv, Counting, WasReset
<1>8. Counting'
  BY <1>7 DEF Counting
<1>9. Verdict'
  BY DEF SyncInv, Verdict, Failed, master
<1>10. QED
  BY <1>5, <1>6, <1>8, <1>9 DEF Rest

LEMMA RaiseStep ==
  ASSUME SyncInv, NEW w \in Workers, Stop(w) \/ Raise(w)
  PROVE  Rest'
<1> USE DEF Go
<1>0. /\ status \in {"Done", "Fail"} /\ Closed
      /\ \A v \in Workers \ {w} : wpc[v] \in {"wait", "gone"}
  BY StatusOf DEF SyncInv, Phase, Latest, Closer, Stop, Raise
<1>1. /\ wpc' = [wpc EXCEPT ![w] = wpc'[w]] /\ wpc'[w] \in {"raise", "wait", "gone"}
      /\ UNCHANGED <<status, nbready, errmsg, wround, outcome, master>>
  BY DEF Stop, Raise, Onward, SyncInv, TypeOK
<1>2. Listening /\ wpc'[w] = "gone" => Failed(w)
  BY <1>0 DEF Stop, Raise, Onward, SyncInv, TypeOK, Closed, Failed
<1>3. (raised' = FALSE /\ ~raised) \/ wpc'[w] # "raise"
  BY <1>0 DEF Stop, Raise, Onward, SyncInv, TypeOK, Closed
<1>4. Listening
  BY <1>0 DEF Stop, Raise, Closed
<1>5. Closed'
  BY <1>0, <1>1, <1>2, <1>3, <1>4 DEF SyncInv, TypeOK, Closed, Failed, Listening, master
<1>6. Phase'
  BY <1>0, <1>1, <1>5 DEF Phase
<1>7. Latest'
  BY <1>0, <1>1 DEF SyncInv, TypeOK, Latest, Opener, Closer
<1>8. Counting'
  BY <1>0, <1>1 DEF SyncInv, Counting, WasReset
<1>9. Verdict'
  BY <1>1 DEF SyncInv, Verdict, Failed, master
<1>10. QED
  BY <1>6, <1>7, <1>8, <1>9 DEF Rest

-----------------------------------------------------------------------------
(* The master. Its steps leave the workers where they are.                   *)
LEMMA WorkersStay ==
  ASSUME SyncInv, UNCHANGED <<workers, nbready>>,
         status' = status \/ (~WasReset' /\ Counted' = {} /\ nbready = 0)
                          \/ (WasReset' /\ nbready = 0)
  PROVE  Latest' /\ Counting'
<1>1. UNCHANGED <<wpc, nbready>>
  BY DEF workers
<1>2. Latest'
  BY <1>1 DEF SyncInv, Latest
<1>3. CASE status' = status
  <2>1. Counted' = Counted /\ WasReset' = WasReset
    BY <1>1, <1>3 DEF Counted, WasReset
  <2>2. QED
    BY <1>1, <1>2, <2>1 DEF SyncInv, Counting
<1>4. CASE ~WasReset' /\ Counted' = {} /\ nbready = 0
  BY <1>1, <1>2, <1>4, SomeWorkers DEF Counting
<1>5. CASE WasReset' /\ nbready = 0
  BY <1>1, <1>2, <1>5 DEF Counting
<1>6. QED
  BY <1>3, <1>4, <1>5

(* A round begins: the workers of the last one are all back in worker_wait,  *)
(* and nbready is 0 again.                                                   *)
LEMMA NotifyStepKeeps ==
  ASSUME SyncInv, Notify
  PROVE  Rest'
<1> USE DEF Notify, MasterGo
<1>0. Closed /\ status = "Done" /\ mround \in Nat
  BY DEF SyncInv, TypeOK, Phase, Gathering, UnderWay, Closed, Quitting, Listening
<1>1. \A w \in Workers : wpc[w] = "wait" /\ ~Failed(w) /\ wround[w] = mround
  BY <1>0 DEF Closed, Listening
<1>2. Gathering'
  <2>1. Listening' /\ ~raised'
    BY <1>0 DEF Closed, Listening
  <2>2. mround' - 1 = mround
    BY <1>0
  <2>3. QED
    BY <1>1, <2>1, <2>2 DEF Gathering, Failed, workers
<1>3. Phase'
  BY <1>2 DEF Phase
<1>4. ~WasReset' /\ Counted' = {} /\ nbready = 0
  BY <1>0, <1>1 DEF WasReset, Counted, workers, SyncInv, Counting
<1>5. Latest' /\ Counting'
  BY <1>4, WorkersStay
<1>6. Verdict'
  BY <1>0 DEF SyncInv, Verdict
<1>7. QED
  BY <1>3, <1>5, <1>6 DEF Rest

LEMMA ListenStep ==
  ASSUME SyncInv, StartClock \/ Overrun \/ Wake
  PROVE  Rest'
<1> USE DEF MasterGo
<1>0. /\ UNCHANGED <<status, nbready, errmsg, workers, mround, verdict>>
      /\ Listening /\ mpc \notin {"notify", "join", "joining", "end"}
      /\ mpc' \in {"latch", "overrun", "woken"}
  BY DEF StartClock, Overrun, Wake, Listening
<1>1. CASE StartClock \/ Overrun
  <2>1. Listening' /\ raised' = raised
    BY <1>1 DEF StartClock, Overrun, Listening
  <2>2. Phase'
    BY <1>0, <2>1 DEF SyncInv, Phase, Gathering, UnderWay, Closed, Quitting, Failed, Listening,
                      workers
  <2>3. QED
    BY <1>0, <2>2, WorkersStay DEF Rest, SyncInv, Verdict
<1>2. CASE Wake
  <2>1. status \in {"Done", "Fail"} /\ Closed
    BY <1>0, <1>2 DEF Wake, SyncInv, TypeOK, Phase, Gathering, UnderWay, Quitting, Listening
  <2>2. \A w \in Workers : wpc[w] \in {"wait", "gone"}
    BY <1>2, <2>1 DEF Wake, Closed
  <2>3. Closed'
    BY <1>0, <1>2, <2>1, <2>2 DEF Wake, Closed, Failed, workers
  <2>4. Phase'
    BY <1>0, <2>1, <2>3 DEF Phase
  <2>5. QED
    BY <1>0, <2>4, WorkersStay DEF Rest, SyncInv, Verdict
<1>3. QED
  BY <1>1, <1>2

LEMMA ReturnStep ==
  ASSUME SyncInv, Return
  PROVE  Rest'
<1> USE DEF Return, MasterGo
<1>0. Closed /\ status \in {"Done", "Fail"}
  BY DEF SyncInv, TypeOK, Phase, Gathering, UnderWay, Quitting, Listening
<1>1. /\ UNCHANGED <<status, nbready, errmsg, raised, workers, mround>>
      /\ mpc' \in {"notify", "join"}
      /\ mpc' = "notify" => status = "Done" /\ mround < Rounds
  BY <1>0
<1>2. \A w \in Workers : wpc[w] \in {"wait", "gone"}
  BY <1>0 DEF Closed, Listening
<1>3. Closed'
  BY <1>0, <1>1, <1>2 DEF Closed, Failed, Listening, workers
<1>4. Phase'
  BY <1>0, <1>1, <1>3 DEF Phase
<1>5. Verdict'
  <2>1. verdict = "none" /\ mround > 0
    BY DEF SyncInv, Verdict
  <2>2. mpc' = "notify" => verdict' = "none"
    BY <1>1, <2>1
  <2>3. verdict' = "none" <=> \A w \in Workers : ~Failed(w)
    <3>1. CASE status = "Done"
      BY <3>1, <1>0, <2>1 DEF Closed
    <3>2. CASE status = "Fail"
      <4>1. PICK w \in Workers : Failed(w) /\ outcome[w] = errmsg
        BY <3>2, <1>0 DEF Closed
      <4>2. outcome[w] # "none"
        BY DEF SyncInv, TypeOK, Outcome
      <4>3. verdict' # "none"
        BY <3>2, <4>1, <4>2
      <4>4. QED
        BY <4>1, <4>3
    <3>3. QED
      BY <1>0, <3>1, <3>2
  <2>4. QED
    BY <1>1, <2>1, <2>2, <2>3 DEF Verdict, Failed, workers
<1>6. QED
  BY <1>1, <1>4, <1>5, WorkersStay DEF Rest

LEMMA JoinStep ==
  ASSUME SyncInv, Join \/ Joined
  PROVE  Rest'
<1> USE DEF MasterGo
<1>0. UNCHANGED <<nbready, errmsg, raised, workers, mround, verdict>> /\ status' = "Quit"
  BY DEF Join, Joined, SyncInv, TypeOK, Phase, Gathering, UnderWay, Closed, Listening
<1>1. nbready = 0
  <2>1. status \in {"Done", "Fail", "Quit"}
    BY DEF Join, Joined, SyncInv, TypeOK, Phase, Gathering, UnderWay, Listening
  <2>2. QED
    BY <2>1 DEF SyncInv, Counting, WasReset
<1>2. Quitting'
  <2>1. CASE Join
    <3>1. Closed
      BY <2>1 DEF Join, SyncInv, TypeOK, Phase, Gathering, UnderWay, Quitting, Listening
    <3>2. QED
      BY <2>1, <3>1, <1>0 DEF Join, Closed, Quitting, Listening, workers
  <2>2. CASE Joined
    BY <2>2, <1>0 DEF Joined, Quitting, workers
  <2>3. QED
    BY <2>1, <2>2
<1>3. Phase'
  BY <1>0, <1>2 DEF Phase
<1>4. Latest' /\ Counting'
  <2>1. WasReset'
    BY <1>0 DEF WasReset
  <2>2. QED
    BY <1>0, <1>1, <2>1, WorkersStay
<1>5. Verdict'
  BY <1>0 DEF Join, Joined, SyncInv, Verdict, Failed, workers
<1>6. QED
  BY <1>3, <1>4, <1>5 DEF Rest

-----------------------------------------------------------------------------
LEMMA WorkerInv ==
  ASSUME SyncInv, NEW w \in Workers, Worker(w)
  PROVE  SyncInv'
<1>1. TypeOK'
  BY SyncTypeStep DEF Next
<1>2. Rest'
  BY SeeStep, ArriveStep, ResetStep, OpenStep, SpinStep, WorkStep, ReportStep, CountStep,
     ClearStep, PublishStep, RaiseStep
     DEF Worker, WaitStep, NotifyStep
<1>3. QED
  BY <1>1, <1>2 DEF SyncInv, Rest

LEMMA MasterInv ==
  ASSUME SyncInv, Measure \/ Overrun
  PROVE  SyncInv'
<1>1. TypeOK'
  BY SyncTypeStep DEF Next
<1>2. Rest'
  BY NotifyStepKeeps, ListenStep, ReturnStep, JoinStep DEF Measure
<1>3. QED
  BY <1>1, <1>2 DEF SyncInv, Rest

LEMMA UnchangedInv == SyncInv /\ UNCHANGED vars => SyncInv'
BY DEF SyncInv, TypeOK, Phase, Gathering, UnderWay, Closed, Quitting, Failed, Listening,
       Latest, Counting, Counted, WasReset, Verdict, vars, clock, workers, master

LEMMA NextSyncInv == SyncInv /\ [Next]_vars => SyncInv'
BY WorkerInv, MasterInv, UnchangedInv DEF Next

(* A Sync as measure() makes it. *)
LEMMA InitSyncInv == Init => SyncInv
<1> SUFFICES ASSUME Init PROVE SyncInv
  OBVIOUS
<1> USE DEF Init
<1>1. TypeOK
  <2>1. 0 \in 0 .. nbworkers /\ 0 \in 0 .. Rounds /\ 0 \in 0 .. Rounds + 1
    BY SyncAssumption, SomeWorkers
  <2>2. QED
    BY <2>1 DEF TypeOK, WorkerLocation, MasterLocation, Outcome
<1>2. Closed
  BY SyncAssumption DEF Closed, Failed, Listening
<1>3. Phase
  BY <1>2 DEF Phase
<1>4. Latest
  BY DEF Latest, Opener, Closer
<1>5. Counting /\ Verdict
  BY DEF Counting, WasReset, Verdict
<1>6. QED
  BY <1>1, <1>3, <1>4, <1>5 DEF SyncInv

(* The invariant of a round holds in every behaviour of Sync. *)
THEOREM SyncInductive == Spec => []SyncInv
BY InitSyncInv, NextSyncInv, PTL DEF Spec

(* What the runs check of Sync follows from it. *)
LEMMA RoundsApart == SyncInv => RoundsDoNotOverlap
<1> SUFFICES ASSUME SyncInv, NEW w \in Workers, wpc[w] = "work"
             PROVE  /\ mround = wround[w]
                    /\ mpc \in {"clock", "latch", "overrun"}
                    /\ \A v \in Workers :
                         wround[v] = (IF wpc[v] = "spin" THEN wround[w] - 1 ELSE wround[w])
  BY DEF RoundsDoNotOverlap
<1>1. UnderWay
  BY StatusOf DEF SyncInv, Phase
<1>2. mround = wround[w] /\ Listening
  BY <1>1 DEF UnderWay
<1>3. ASSUME NEW v \in Workers
      PROVE  wround[v] = (IF wpc[v] = "spin" THEN wround[w] - 1 ELSE wround[w])
  <2>1. \/ wpc[v] = "spin" /\ wround[v] = mround - 1
        \/ wpc[v] # "spin" /\ wround[v] = mround
    BY <1>1 DEF UnderWay
  <2>2. QED
    BY <1>2, <2>1
<1>4. QED
  BY <1>2, <1>3 DEF Listening

LEMMA VerdictRight == SyncInv => VerdictOfTheRound
<1> SUFFICES ASSUME SyncInv, mpc = "woken" PROVE VerdictOfTheRound
  BY DEF VerdictOfTheRound
<1>1. Closed /\ status \in {"Done", "Fail"}
  BY DEF SyncInv, TypeOK, Phase, Gathering, UnderWay, Quitting, Listening
<1>2. \A w \in Workers : wround[w] = mround /\ wpc[w] \in {"wait", "gone"}
  BY <1>1 DEF Closed, Listening
<1>3. QED
  BY <1>1, <1>2 DEF Closed, Failed, VerdictOfTheRound

(* RoundsDoNotOverlap: no worker starts a round, or goes on to the next one, *)
(* before every other has arrived, for any number of workers and rounds.     *)
THEOREM RoundsSeparated == Spec => []RoundsDoNotOverlap
BY SyncInductive, RoundsApart, PTL

(* VerdictOfTheRound: the master learns of a failure of any worker, and of   *)
(* none if there was none, though status is written without a lock.          *)
THEOREM MasterIsTold == Spec => []VerdictOfTheRound
BY SyncInductive, VerdictRight, PTL

-----------------------------------------------------------------------------
(* Bench: measure() could not start its threads, nothing moves any more.     *)
Stranded ==
  /\ at = "rescue" /\ TypeOK
  /\ mpc = "notify" /\ status = "Done"
  /\ \A w \in Workers : wpc[w] \in {"wait", "gone"}

(* Where main is, the library and the memory are in the state it needs.      *)
InPlace ==
  Running =>
    /\ at = "load" => caller = "none" /\ runner = "done"
    /\ at \in {"create", "destroy"} => loaded /\ caller # "none"
    /\ at = "create" /\ runner # "func" => memory = "made"
    /\ at \in {"measure", "rescue"} =>
         loaded /\ memory = "made" /\ runner = "done" /\ caller = "none"
    /\ at = "unload" => caller = "none" /\ (runner = "done" \/ "slow create" \in faults)
    /\ at \notin {"measure", "rescue"} =>
         \A w \in Workers : wpc[w] \in {"wait", "gone"}
    /\ at = "destroy" => \A w \in Workers : wpc[w] = "gone"
    /\ at = "unload" => \/ \A w \in Workers : wpc[w] = "gone"
                        \/ "slow create" \in faults

(* What went wrong is known, in the end by the verdict alone.                *)
Blame ==
  Running =>
    /\ at \in {"load", "create"} => faults \subseteq {"spurious"}
    /\ at = "measure" =>
         /\ faults \subseteq {"spurious", "worker"} \cup
                             (IF mpc = "overrun" THEN {"slow workers"} ELSE {})
         /\ mpc = "overrun" => "slow workers" \in faults
         /\ "worker" \in faults <=> \E w \in Workers : Failed(w)
    /\ at = "rescue" => faults \cap {"thread", "slow workers"} # {}
    /\ at \in {"destroy", "unload"} =>
         \/ "slow create" \in faults
         \/ /\ faults \subseteq {"spurious", "worker"}
            /\ "worker" \in faults <=> verdict # "none"

(* The inductive invariant of Bench. *)
BenchInv ==
  /\ BenchTypeOK
  /\ SyncInv \/ Stranded
  /\ InPlace
  /\ Blame
  /\ ExitTells

-----------------------------------------------------------------------------
(* Each step of Bench keeps the part of the invariant that Sync has a share  *)
(* in: rounds go on only in measure(), and after it if it throws.            *)
SyncPart == SyncInv \/ Stranded

LEMMA NewSyncInv == NewSync => SyncInv'
<1>1. NewSync => Init'
  BY DEF NewSync, Init
<1>2. Init' => SyncInv'
  BY InitSyncInv, PTL
<1>3. QED
  BY <1>1, <1>2

(* Threads that could not be started leave the others in worker_wait.        *)
LEMMA NobodyMoves ==
  ASSUME Stranded, NEW w \in Workers
  PROVE  ~Worker(w)
BY DEF Stranded, Worker, WaitStep, NotifyStep, SeeWait, SeeQuit, Arrive, Reset, Open, Spin,
       Proceed, Work, Report, Abort, Count, Clear, Judge, Publish, Stop, Raise, Go

LEMMA SameSync == TypeOK /\ UNCHANGED vars => TypeOK'
BY DEF TypeOK, vars, clock, workers, master

LEMMA StrandedStays ==
  ASSUME Stranded, BenchNext
  PROVE  Stranded'
<1> USE DEF Stranded, MainGo
<1>1. CASE Main \/ Thread \/ RunFunc
  <2>1. UNCHANGED vars /\ at' = "rescue"
    BY <1>1 DEF Main, Thread, Load, MeasureStep, MeasureThrows, QuickExit, Destroy, Unload,
                WaitFor, NoTimeout, Timeout, JoinRunner, RunnerLock, RunnerNotify, RunFunc,
                InMeasure, InBounded, measured
  <2>2. QED
    BY <2>1, SameSync DEF vars, workers, master
<1>2. CASE Mishap
  <2>1. UNCHANGED vars /\ at' = "rescue"
    BY <1>2 DEF Mishap, LoadFails, CreateFails, RunnerStrays, TimePasses, SpuriousWakeup,
                ThreadFails, WorkersLate, WorkerStrays, InMeasure, InBounded, measured
  <2>2. QED
    BY <2>1, SameSync DEF vars, workers, master
<1>3. ASSUME NEW w \in Workers, BenchWorker(w) PROVE FALSE
  BY <1>3, NobodyMoves DEF BenchWorker
<1>4. QED
  BY <1>1, <1>2, <1>3 DEF BenchNext

(* measure() cannot start its threads: that happens before the first round.  *)
LEMMA ThreadFailsStrands ==
  ASSUME SyncInv, ThreadFails
  PROVE  Stranded'
<1>1. mpc = "notify" /\ status = "Done" /\ TypeOK
  BY DEF ThreadFails, SyncInv, Verdict, Phase, Gathering, UnderWay, Closed, Quitting, Listening,
         TypeOK
<1>2. \A w \in Workers : wpc[w] \in {"wait", "gone"}
  BY <1>1 DEF SyncInv, Phase, Closed, Listening
<1>3. PICK failed \in SUBSET Workers :
        wpc' = [w \in Workers |-> IF w \in failed THEN "gone" ELSE wpc[w]]
  BY DEF ThreadFails
<1>4. \A w \in Workers : wpc'[w] \in {"wait", "gone"}
  BY <1>2, <1>3
<1>5. TypeOK'
  BY <1>1, <1>2, <1>3 DEF ThreadFails, TypeOK, WorkerLocation, clock, master
<1>6. QED
  BY <1>1, <1>4, <1>5 DEF Stranded, ThreadFails, MainGo, master

LEMMA SyncPartStep ==
  ASSUME SyncPart, BenchNext
  PROVE  SyncPart'
<1>1. CASE Stranded
  BY <1>1, StrandedStays DEF SyncPart
<1>2. CASE SyncInv
  <2>1. CASE UNCHANGED vars
    BY <1>2, <2>1, UnchangedInv DEF SyncPart
  <2>2. CASE NewSync
    BY <2>2, NewSyncInv DEF SyncPart
  <2>3. CASE Measure \/ Overrun
    BY <1>2, <2>3, MasterInv DEF SyncPart
  <2>4. ASSUME NEW w \in Workers, Worker(w) PROVE SyncPart'
    BY <1>2, <2>4, WorkerInv DEF SyncPart
  <2>5. CASE ThreadFails
    BY <1>2, <2>5, ThreadFailsStrands DEF SyncPart
  <2>6. CASE Main \/ Thread \/ RunFunc
    <3>1. UNCHANGED vars \/ NewSync \/ Measure
      BY <2>6 DEF Main, Thread, Load, MeasureStep, MeasureThrows, QuickExit, Destroy, Unload,
                  WaitFor, NoTimeout, Timeout, JoinRunner, RunnerLock, RunnerNotify, RunFunc,
                  InMeasure, InBounded, measured
    <3>2. QED
      BY <3>1, <2>1, <2>2, <2>3
  <2>7. CASE Mishap
    <3>1. UNCHANGED vars \/ Overrun \/ ThreadFails
      BY <2>7 DEF Mishap, LoadFails, CreateFails, RunnerStrays, TimePasses, SpuriousWakeup,
                  WorkersLate, WorkerStrays, InMeasure, InBounded, measured
    <3>2. QED
      BY <3>1, <2>1, <2>3, <2>5
  <2>8. QED
    BY <2>4, <2>6, <2>7 DEF BenchNext, BenchWorker
<1>3. QED
  BY <1>1, <1>2 DEF SyncPart

-----------------------------------------------------------------------------
(* The rest of the invariant, step by step. *)
LifeTypes ==
  /\ library \in 1 .. Libraries
  /\ loaded \in BOOLEAN
  /\ memory \in {"none", "made", "destroyed"}
  /\ at \in Place
  /\ caller \in Caller
  /\ runner \in Runner
  /\ lock \in {"free", "caller", "runner"}
  /\ exit \in Exit
  /\ faults \subseteq Fault

Settled == LifeTypes /\ InPlace /\ Blame /\ ExitTells

(* bounded_run, while neither of its threads leaves it. *)
LEMMA BoundedStep ==
  ASSUME SyncPart, Settled,
         \/ RunFunc \/ RunnerLock \/ RunnerNotify \/ WaitFor
         \/ TimePasses \/ SpuriousWakeup \/ NoTimeout
  PROVE  Settled'
<1> USE DEF Settled
<1>0. /\ UNCHANGED <<vars, library, loaded, at, exit>> /\ Running /\ Running'
      /\ UNCHANGED <<wpc, outcome, mpc, verdict>>
      /\ at \in {"create", "destroy"} \/ (at = "unload" /\ "slow create" \in faults)
  BY DEF RunFunc, RunnerLock, RunnerNotify, WaitFor, TimePasses, SpuriousWakeup, NoTimeout,
         InBounded, Running, measured, vars, workers, master, InPlace, LifeTypes, Place
<1>1. LifeTypes'
  BY <1>0 DEF RunFunc, RunnerLock, RunnerNotify, WaitFor, TimePasses, SpuriousWakeup, NoTimeout,
              InBounded, LifeTypes, Caller, Runner, Fault
<1>2. InPlace'
  BY <1>0 DEF RunFunc, RunnerLock, RunnerNotify, WaitFor, TimePasses, SpuriousWakeup, NoTimeout,
              InBounded, InPlace
<1>3. faults' \in {faults, faults \cup {"spurious"}}
  BY DEF RunFunc, RunnerLock, RunnerNotify, WaitFor, TimePasses, SpuriousWakeup, NoTimeout
<1>4. Blame'
  BY <1>0, <1>3 DEF Blame
<1>5. ExitTells'
  BY <1>0 DEF ExitTells, Running
<1>6. QED
  BY <1>1, <1>2, <1>4, <1>5

(* The steps that end the process: each leaves the reason in faults. *)
LEMMA EndStep ==
  ASSUME SyncPart, Settled, exit' # "none",
         \/ LoadFails \/ CreateFails \/ RunnerStrays \/ WorkerStrays \/ QuickExit \/ Timeout
  PROVE  Settled'
<1> USE DEF Settled
<1>0. Running /\ ~Running'
  BY DEF LoadFails, CreateFails, RunnerStrays, WorkerStrays, QuickExit, Timeout, MainGo, Running
<1>1. LifeTypes'
  BY DEF LoadFails, CreateFails, RunnerStrays, WorkerStrays, QuickExit, Timeout, MainGo,
         InBounded, bounded, LifeTypes, Caller, Runner, Fault, Exit, Place
<1>2. InPlace' /\ Blame'
  BY <1>0 DEF InPlace, Blame
<1>3. ExitTells'
  <2>1. CASE LoadFails
    BY <2>1 DEF LoadFails, ExitTells
  <2>2. CASE CreateFails
    BY <2>2 DEF CreateFails, ExitTells
  <2>3. CASE RunnerStrays \/ WorkerStrays
    BY <2>3 DEF RunnerStrays, WorkerStrays, ExitTells
  <2>4. CASE QuickExit
    BY <2>4, <1>0 DEF QuickExit, MainGo, Blame, ExitTells
  <2>5. CASE Timeout
    BY <2>5, <1>0 DEF Timeout, ExitTells, Running
  <2>6. QED
    BY <2>1, <2>2, <2>3, <2>4, <2>5
<1>4. QED
  BY <1>1, <1>2, <1>3

LEMMA LoadStep ==
  ASSUME SyncPart, Settled, Load
  PROVE  Settled'
<1> USE DEF Settled, Load, MainGo, StartRunner
<1>0. Running /\ Running'
  BY DEF Running
<1>1. LifeTypes'
  BY DEF LifeTypes, Place, Caller, Runner
<1>2. InPlace'
  BY <1>0 DEF InPlace, measured, vars, workers
<1>3. Blame'
  BY <1>0 DEF Blame
<1>4. ExitTells'
  BY <1>0 DEF ExitTells, Running
<1>5. QED
  BY <1>1, <1>2, <1>3, <1>4

(* A creation is given up: the library goes, whatever its thread does. *)
LEMMA TimeoutStep ==
  ASSUME SyncPart, Settled, Timeout, exit' = "none"
  PROVE  Settled'
<1> USE DEF Settled, Timeout
<1>0. Running /\ Running' /\ at = "create" /\ at' = "unload" /\ "slow create" \in faults'
  BY DEF Running
<1>1. LifeTypes'
  BY <1>0 DEF LifeTypes, Place, Caller, Fault
<1>2. InPlace'
  BY <1>0 DEF InPlace, measured, vars, workers
<1>3. Blame'
  BY <1>0 DEF Blame
<1>4. ExitTells'
  BY <1>0 DEF ExitTells, Running
<1>5. QED
  BY <1>1, <1>2, <1>3, <1>4

LEMMA JoinRunnerStep ==
  ASSUME SyncPart, Settled, JoinRunner
  PROVE  Settled'
<1> USE DEF Settled, JoinRunner, MainGo
<1>0. Running /\ Running' /\ runner' = "done" /\ caller' = "none" /\ UNCHANGED <<memory, loaded, faults>>
  BY DEF Running
<1>1. LifeTypes'
  BY DEF LifeTypes, Place, Caller
<1>2. CASE at = "create"
  <2>1. NewSync /\ at' = "measure"
    BY <1>2
  <2>2. InPlace'
    BY <1>0, <1>2, <2>1 DEF InPlace
  <2>3. faults \subseteq {"spurious"} /\ mpc' = "notify"
    BY <1>0, <1>2, <2>1 DEF Blame, NewSync
  <2>4. \A w \in Workers : ~Failed(w)'
    BY <2>1 DEF NewSync, Failed
  <2>5. Blame'
    BY <1>0, <2>1, <2>3, <2>4 DEF Blame
  <2>6. QED
    BY <1>0, <1>1, <2>2, <2>5 DEF ExitTells, Running
<1>3. CASE at = "destroy"
  <2>1. at' = "unload" /\ UNCHANGED <<wpc, outcome, mpc, verdict>>
    BY <1>3 DEF measured, vars, workers, master
  <2>2. InPlace'
    BY <1>0, <1>3, <2>1 DEF InPlace
  <2>3. Blame'
    BY <1>0, <1>3, <2>1 DEF Blame
  <2>4. QED
    BY <1>0, <1>1, <2>2, <2>3 DEF ExitTells, Running
<1>4. QED
  BY <1>2, <1>3

(* Within a Sync nobody's failure is forgotten. *)
LEMMA FailuresStay ==
  ASSUME SyncInv, NEW w \in Workers, Worker(w)
  PROVE  /\ \A v \in Workers \ {w} : Failed(v)' <=> Failed(v)
         /\ Failed(w) => Failed(w)'
         /\ UNCHANGED master
<1>1. CASE WaitStep(w) \/ NotifyStep(w)
  <2>1. UNCHANGED <<outcome, master>>
    BY <1>1 DEF WaitStep, NotifyStep, SeeWait, SeeQuit, Arrive, Reset, Open, Spin, Report,
                Abort, Count, Clear, Judge, Publish, Stop, Raise
  <2>2. QED
    BY <2>1 DEF Failed
<1>2. ASSUME NEW o \in Outcome, Work(w, o)
      PROVE  /\ \A v \in Workers \ {w} : Failed(v)' <=> Failed(v)
             /\ Failed(w) => Failed(w)'
             /\ UNCHANGED master
  <2>1. wpc[w] = "work"
    BY <1>2 DEF Work, Go
  <2>2. ~Failed(w)
    BY <2>1, StatusOf DEF SyncInv, Phase, UnderWay
  <2>3. \A v \in Workers \ {w} : outcome'[v] = outcome[v]
    BY <1>2 DEF Work, SyncInv, TypeOK
  <2>4. UNCHANGED master
    BY <1>2 DEF Work
  <2>5. QED
    BY <2>2, <2>3, <2>4 DEF Failed
<1>3. QED
  BY <1>1, <1>2 DEF Worker

(* measure(), and the workers that go on after it. *)
LEMMA MeasureKeeps ==
  ASSUME SyncPart, Settled, MeasureStep \/ WorkersLate
  PROVE  Settled'
<1> USE DEF Settled, InMeasure
<1>0. /\ Running /\ Running' /\ at = "measure" /\ at' = "measure"
      /\ UNCHANGED <<library, loaded, memory, exit, caller, runner, lock, outcome>>
  BY DEF MeasureStep, WorkersLate, Running, Measure, Notify, StartClock, Wake, Return, Join,
         Joined, Overrun, bounded, workers
<1>1. LifeTypes'
  BY <1>0 DEF MeasureStep, WorkersLate, LifeTypes, Fault
<1>2. InPlace'
  BY <1>0 DEF InPlace
<1>3. CASE MeasureStep
  <2>1. mpc # "overrun" /\ mpc' # "overrun"
    BY <1>3 DEF MeasureStep, Measure, Notify, StartClock, Wake, Return, Join, Joined, MasterGo
  <2>2. faults' = faults
    BY <1>3 DEF MeasureStep
  <2>3. Blame'
    BY <1>0, <2>1, <2>2 DEF Blame, Failed
  <2>4. QED
    BY <1>0, <1>1, <1>2, <2>3 DEF ExitTells, Running
<1>4. CASE WorkersLate
  <2>1. mpc # "overrun" /\ mpc' = "overrun"
    BY <1>4 DEF WorkersLate, Overrun, MasterGo
  <2>2. faults' = faults \cup {"slow workers"}
    BY <1>4 DEF WorkersLate
  <2>3. Blame'
    BY <1>0, <2>1, <2>2 DEF Blame, Failed
  <2>4. QED
    BY <1>0, <1>1, <1>2, <2>3 DEF ExitTells, Running
<1>5. QED
  BY <1>3, <1>4

LEMMA BenchWorkerKeeps ==
  ASSUME SyncPart, Settled, NEW w \in Workers, BenchWorker(w)
  PROVE  Settled'
<1> USE DEF Settled
<1>0. /\ Running /\ Running' /\ at \in {"measure", "rescue"}
      /\ UNCHANGED <<library, loaded, memory, at, exit, caller, runner, lock>>
      /\ faults' = (IF outcome'[w] = "ok" THEN faults ELSE faults \cup {"worker"})
  BY DEF BenchWorker, Running, bounded
<1>1. LifeTypes'
  BY <1>0 DEF LifeTypes, Fault
<1>2. InPlace'
  BY <1>0 DEF InPlace
<1>3. SyncInv
  BY NobodyMoves DEF SyncPart, BenchWorker
<1>4. /\ \A v \in Workers \ {w} : Failed(v)' <=> Failed(v)
      /\ Failed(w) => Failed(w)'
      /\ mpc' = mpc
  BY <1>3, FailuresStay DEF BenchWorker, master
<1>5. Blame'
  <2>1. CASE at = "rescue"
    BY <2>1, <1>0 DEF Blame
  <2>2. CASE at = "measure"
    <3>1. "worker" \in faults <=> \E v \in Workers : Failed(v)
      BY <2>2, <1>0 DEF Blame
    <3>2. CASE Failed(w)'
      <4>1. faults' = faults \cup {"worker"}
        BY <3>2, <1>0 DEF Failed
      <4>2. QED
        BY <2>2, <3>2, <4>1, <1>0, <1>4 DEF Blame
    <3>3. CASE ~Failed(w)'
      <4>1. faults' = faults
        BY <3>3, <1>0 DEF Failed
      <4>2. (\E v \in Workers : Failed(v)') <=> \E v \in Workers : Failed(v)
        BY <3>3, <1>4
      <4>3. QED
        BY <2>2, <3>1, <4>1, <4>2, <1>0, <1>4 DEF Blame
    <3>4. QED
      BY <3>2, <3>3
  <2>3. QED
    BY <1>0, <2>1, <2>2
<1>6. ExitTells'
  BY <1>0 DEF ExitTells, Running
<1>7. QED
  BY <1>1, <1>2, <1>5, <1>6

(* measure() throws, and main is left with the workers. *)
LEMMA RescueStep ==
  ASSUME SyncPart, Settled, ThreadFails \/ MeasureThrows
  PROVE  Settled'
<1> USE DEF Settled, MainGo
<1>0. /\ Running /\ Running' /\ at = "measure" /\ at' = "rescue"
      /\ UNCHANGED <<library, loaded, memory, exit, caller, runner, lock>>
  BY DEF ThreadFails, MeasureThrows, Running, bounded
<1>1. LifeTypes'
  BY <1>0 DEF ThreadFails, MeasureThrows, LifeTypes, Place, Fault
<1>2. InPlace'
  BY <1>0 DEF InPlace
<1>3. CASE ThreadFails
  <2>1. Blame'
    BY <1>0, <1>3 DEF ThreadFails, Blame
  <2>2. QED
    BY <1>0, <1>1, <1>2, <2>1 DEF ExitTells, Running
<1>4. CASE MeasureThrows
  <2>1. mpc = "overrun"
    BY <1>0, <1>4 DEF MeasureThrows, SyncPart, Stranded, SyncInv, Verdict
  <2>2. "slow workers" \in faults /\ faults' = faults
    BY <2>1, <1>0, <1>4 DEF MeasureThrows, Blame
  <2>3. Blame'
    BY <1>0, <2>2 DEF Blame
  <2>4. QED
    BY <1>0, <1>1, <1>2, <2>3 DEF ExitTells, Running
<1>5. QED
  BY <1>3, <1>4

(* measure() returns: all workers are joined, and what it returns is known.  *)
LEMMA DestroyStep ==
  ASSUME SyncPart, Settled, Destroy
  PROVE  Settled'
<1> USE DEF Settled, Destroy, MainGo, StartRunner
<1>0. /\ Running /\ Running' /\ at = "measure" /\ at' = "destroy"
      /\ UNCHANGED <<library, loaded, memory, exit, faults, wpc, outcome, mpc, verdict>>
  BY DEF Running, measured, vars, workers, master
<1>1. LifeTypes'
  BY <1>0 DEF LifeTypes, Place, Caller, Runner
<1>2. SyncInv
  BY <1>0 DEF SyncPart, Stranded
<1>3. \A w \in Workers : wpc[w] = "gone"
  BY <1>2 DEF SyncInv, TypeOK, Phase, Gathering, UnderWay, Closed, Quitting, Listening
<1>4. InPlace'
  BY <1>0, <1>3 DEF InPlace
<1>5. verdict = "none" <=> \A w \in Workers : ~Failed(w)
  BY <1>2 DEF SyncInv, Verdict
<1>6. faults \subseteq {"spurious", "worker"} /\ ("worker" \in faults <=> verdict # "none")
  BY <1>0, <1>5 DEF Blame
<1>7. Blame'
  BY <1>0, <1>6 DEF Blame
<1>8. ExitTells'
  BY <1>0 DEF ExitTells, Running
<1>9. QED
  BY <1>1, <1>4, <1>7, <1>8

LEMMA NextLibrary ==
  ASSUME NEW n \in 1 .. Libraries, n # Libraries
  PROVE  n + 1 \in 1 .. Libraries
BY BenchAssumption

(* The library is unloaded, and main goes on or returns. *)
LEMMA UnloadStep ==
  ASSUME SyncPart, Settled, Unload
  PROVE  Settled'
<1> USE DEF Settled, MainGo
<1>0. /\ Running /\ at = "unload" /\ at' = "load" /\ loaded' = FALSE
      /\ UNCHANGED <<memory, faults, caller, runner, lock, wpc, outcome, mpc, verdict>>
      /\ library' = IF exit' = "none" THEN library + 1 ELSE library
  BY DEF Unload, bounded, measured, vars, workers, master
<1>1. library \in 1 .. Libraries
  BY DEF LifeTypes
<1>2. CASE "slow create" \in faults \/ verdict # "none"
  <2>1. exit' = "1"
    BY <1>2 DEF Unload
  <2>2. faults \cap {"load", "slow create", "worker"} # {}
    BY <1>0, <1>2 DEF Blame
  <2>3. LifeTypes'
    BY <1>0, <2>1 DEF LifeTypes, Place, Exit
  <2>4. QED
    BY <1>0, <2>1, <2>2, <2>3 DEF InPlace, Blame, ExitTells, Running
<1>3. CASE "slow create" \notin faults /\ verdict = "none" /\ library = Libraries
  <2>1. exit' = "0"
    BY <1>3 DEF Unload
  <2>2. faults \subseteq {"spurious"}
    BY <1>0, <1>3 DEF Blame
  <2>3. LifeTypes'
    BY <1>0, <2>1 DEF LifeTypes, Place, Exit
  <2>4. QED
    BY <1>0, <1>3, <2>1, <2>2, <2>3 DEF InPlace, Blame, ExitTells, Running
<1>4. CASE "slow create" \notin faults /\ verdict = "none" /\ library # Libraries
  <2>1. exit' = "none"
    BY <1>4 DEF Unload
  <2>2. faults \subseteq {"spurious"}
    BY <1>0, <1>4 DEF Blame
  <2>3. library + 1 \in 1 .. Libraries
    BY <1>1, <1>4, NextLibrary
  <2>4. LifeTypes'
    BY <1>0, <2>1, <2>3 DEF LifeTypes, Place, Exit
  <2>5. runner = "done" /\ caller = "none" /\ \A w \in Workers : wpc[w] = "gone"
    BY <1>0, <1>4 DEF InPlace
  <2>6. InPlace'
    BY <1>0, <2>5 DEF InPlace
  <2>7. Blame'
    BY <1>0, <2>2 DEF Blame
  <2>8. QED
    BY <2>1, <2>4, <2>6, <2>7 DEF ExitTells
<1>5. QED
  BY <1>2, <1>3, <1>4

-----------------------------------------------------------------------------
LEMMA SettledStep ==
  ASSUME SyncPart, Settled, BenchNext
  PROVE  Settled'
<1>1. CASE Main
  <2>1. CASE Timeout
    <3>1. CASE exit' = "none"
      BY <2>1, <3>1, TimeoutStep
    <3>2. CASE exit' # "none"
      BY <2>1, <3>2, EndStep
    <3>3. QED
      BY <3>1, <3>2
  <2>2. CASE QuickExit
    <3>1. exit' # "none"
      BY <2>2 DEF QuickExit
    <3>2. QED
      BY <2>2, <3>1, EndStep
  <2>3. QED
    BY <1>1, <2>1, <2>2, LoadStep, MeasureKeeps, RescueStep, DestroyStep, UnloadStep, BoundedStep,
       JoinRunnerStep DEF Main
<1>2. CASE Thread \/ RunFunc
  BY <1>2, BoundedStep DEF Thread
<1>3. CASE Mishap
  <2>1. CASE LoadFails \/ CreateFails \/ RunnerStrays \/ WorkerStrays
    <3>1. exit' # "none"
      BY <2>1 DEF LoadFails, CreateFails, RunnerStrays, WorkerStrays
    <3>2. QED
      BY <2>1, <3>1, EndStep
  <2>2. QED
    BY <1>3, <2>1, BoundedStep, RescueStep, MeasureKeeps DEF Mishap
<1>4. ASSUME NEW w \in Workers, BenchWorker(w) PROVE Settled'
  BY <1>4, BenchWorkerKeeps
<1>5. QED
  BY <1>1, <1>2, <1>3, <1>4 DEF BenchNext

LEMMA BenchParts == BenchInv <=> SyncPart /\ Settled
<1>1. SyncPart => TypeOK
  BY DEF SyncPart, SyncInv, Stranded
<1>2. QED
  BY <1>1 DEF BenchInv, SyncPart, Settled, LifeTypes, BenchTypeOK

LEMMA NextBenchInv == BenchInv /\ [BenchNext]_benchVars => BenchInv'
<1> SUFFICES ASSUME SyncPart, Settled, [BenchNext]_benchVars PROVE SyncPart' /\ Settled'
  <2>1. BenchInv' <=> SyncPart' /\ Settled'
    BY BenchParts, PTL
  <2>2. QED
    BY <2>1, BenchParts
<1>1. CASE BenchNext
  BY <1>1, SyncPartStep, SettledStep
<1>2. CASE UNCHANGED benchVars
  <2>1. UNCHANGED <<vars, library, loaded, memory, at, exit, faults, caller, runner, lock>>
    BY <1>2 DEF benchVars, measured, life, bounded
  <2>2. SyncPart'
    BY <2>1, UnchangedInv, SameSync DEF SyncPart, Stranded, vars, workers, master
  <2>3. Settled'
    <3>1. LifeTypes' /\ ExitTells'
      BY <2>1 DEF Settled, LifeTypes, ExitTells
    <3>2. UNCHANGED <<wpc, outcome, mpc, verdict>>
      BY <2>1 DEF vars, workers, master
    <3>3. InPlace'
      BY <2>1, <3>2 DEF Settled, InPlace, Running, Failed
    <3>4. Blame'
      BY <2>1, <3>2 DEF Settled, Blame, Running, Failed
    <3>5. QED
      BY <3>1, <3>3, <3>4 DEF Settled
  <2>4. QED
    BY <2>2, <2>3
<1>3. QED
  BY <1>1, <1>2

LEMMA InitBenchInv == BenchInit => BenchInv
<1> SUFFICES ASSUME BenchInit PROVE SyncPart /\ Settled
  BY BenchParts
<1> USE DEF BenchInit
<1>1. SyncPart
  BY InitSyncInv DEF SyncPart
<1>2. LifeTypes
  <2>1. 1 \in 1 .. Libraries
    BY BenchAssumption
  <2>2. QED
    BY <2>1 DEF LifeTypes, Place, Caller, Runner, Exit, Fault
<1>3. InPlace /\ Blame
  BY DEF InPlace, Blame, Init
<1>4. ExitTells
  BY DEF ExitTells
<1>5. QED
  BY <1>1, <1>2, <1>3, <1>4 DEF Settled

(* The invariant of the bench holds in every behaviour. *)
THEOREM BenchInductive == BenchSpec => []BenchInv
BY InitBenchInv, NextBenchInv, PTL DEF BenchSpec

(* RoundsDoNotOverlap, also where main has given the workers up. *)
THEOREM BenchRoundsSeparated == BenchSpec => []RoundsDoNotOverlap
<1>1. Stranded => RoundsDoNotOverlap
  BY DEF Stranded, RoundsDoNotOverlap
<1>2. BenchInv => RoundsDoNotOverlap
  BY <1>1, RoundsApart DEF BenchInv
<1>3. QED
  BY <1>2, BenchInductive, PTL

(* VerdictOfTheRound, for each of the Syncs a run of the bench makes. *)
THEOREM BenchMasterIsTold == BenchSpec => []VerdictOfTheRound
<1>1. Stranded => VerdictOfTheRound
  BY DEF Stranded, VerdictOfTheRound
<1>2. BenchInv => VerdictOfTheRound
  BY <1>1, VerdictRight DEF BenchInv
<1>3. QED
  BY <1>2, BenchInductive, PTL

(* NothingUnexpected: neither Unreachable is thrown, and nbready, which is   *)
(* reset twice a round, never exceeds the number of workers.                 *)
THEOREM UnreachableIsNot == BenchSpec => []NothingUnexpected
<1>1. SyncInv => mpc # "unexpected" /\ \A w \in Workers : wpc[w] # "unexpected"
  BY DEF SyncInv, TypeOK, Verdict, Phase, Gathering, UnderWay, Closed, Quitting
<1>2. Stranded => mpc # "unexpected" /\ \A w \in Workers : wpc[w] # "unexpected"
  BY DEF Stranded
<1>3. BenchInv => NothingUnexpected
  BY <1>1, <1>2 DEF BenchInv, NothingUnexpected
<1>4. QED
  BY <1>3, BenchInductive, PTL

(* NothingPulledAway: workers run on a memory that is made, by a library that *)
(* is loaded, and only a creation given up at its limit loses its library.   *)
THEOREM WhatIsUsedIsThere == BenchSpec => []NothingPulledAway
<1>1. BenchInv => NothingPulledAway
  <2> SUFFICES ASSUME BenchInv, Running PROVE NothingPulledAway
    BY DEF NothingPulledAway
  <2>1. at \in Place
    BY DEF BenchInv, BenchTypeOK
  <2>2. QED
    BY <2>1 DEF BenchInv, InPlace, NothingPulledAway, Place
<1>2. QED
  BY <1>1, BenchInductive, PTL

(* ExitTells: the exit code tells of every failure, for any number of        *)
(* libraries, rounds and workers.                                            *)
THEOREM ExitCodeIsRight == BenchSpec => []ExitTells
<1>1. BenchInv => ExitTells
  BY DEF BenchInv
<1>2. QED
  BY <1>1, BenchInductive, PTL
==============================================================================

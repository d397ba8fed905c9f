---------------------------------- MODULE TM ----------------------------------
(***************************************************************************)
(* template/tm.c: the transactional memory, with the handlers it calls in  *)
(* batcher.c, link.c and segment.c.                                        *)
(*                                                                         *)
(* One call of the tm.h interface is one step, rollback, leave_batcher and *)
(* epoch_cleanup included, so a rollback finds every mark of a call before   *)
(* it, and of its own call those in a dirty segment.  The threads of a batch *)
(* interleave at this granularity; the steps inside the calls, where a      *)
(* segment is not in the dirty list yet when its words are marked and       *)
(* stored, and the rollback misses them, are EpochSteps.tla and             *)
(* DirtyList.tla.                                                            *)
(*                                                                         *)
(* Entering and leaving is the gate of EpochGate.tla, and epoch_cleanup is  *)
(* part of the last leave: what the batcher gives when pthread_cond_wait     *)
(* wakes nobody early (IdealGate of BatcherProofs.tla).                      *)
(*                                                                         *)
(* Clients follow the rules of grading/transactional.hpp: read-only         *)
(* transactions do not write, allocate or free, and no call names a         *)
(* segment that does not exist.                                             *)
(***************************************************************************)
EXTENDS Integers, FiniteSets

CONSTANTS
  Threads,         \* the client threads
  Segs,            \* addresses that posix_memalign can return
  Start,           \* the segment tm_create allocates
  WordsPerSeg,     \* size / align
  Values,          \* what a word holds, 0 included
  MaxTx,           \* bound: number of transactions, far below 2^31
  CounterModulus

ASSUME TMAssumption ==
  /\ Start \in Segs
  /\ WordsPerSeg \in Nat \ {0}
  /\ 0 \in Values
  /\ MaxTx \in Nat
  /\ CounterModulus \in Nat \ {0}

Offsets == 0 .. WordsPerSeg - 1
Words == Segs \X Offsets
Txs == 1 .. MaxTx

VARIABLES
  counter, batch, queue,  \* the batcher, see EpochGate
  trans_counter,  \* the next transaction number
  tx,      \* tx[t]: the number of the transaction of t, 0 outside of one
  ro,      \* ro[t]: the read_only_tx bit of tx[t]
  region,  \* region_t: control, read and write of every word, seg of every segment
  log,     \* history: what transaction x has done in this epoch
  done     \* history: the read-write transactions that committed in this epoch

vars == <<counter, batch, queue, trans_counter, tx, ro, region, log, done>>

Gate == INSTANCE EpochGate

(* control_t; the lock in it is held only within a step. *)
INSTANCE ControlWord WITH NoTx <- 0

(* segment_t: list is the list the segment's link is in, which is also      *)
(* what its dirty flag says between two calls.                              *)
NoSegment == [list |-> "none", owner |-> 0, newly_alloc |-> FALSE,
              should_free |-> FALSE, rollback |-> FALSE]
CleanSegment == [list |-> "clean", owner |-> 0, newly_alloc |-> FALSE,
                 should_free |-> FALSE, rollback |-> FALSE]

Listed(r) == {s \in Segs : r.seg[s].list # "none"}
Dirty(r) == {s \in Segs : r.seg[s].list = "dirty"}

(* The history of one transaction: the words it read, with the value it     *)
(* last got; the words it wrote; the segments it allocated and freed.       *)
Nothing == [w \in {} |-> 0]
EmptyLog == [reads |-> Nothing, writes |-> Nothing, allocs |-> {}, frees |-> {}]

Overlay(f, g) ==
  [a \in DOMAIN f \cup DOMAIN g |-> IF a \in DOMAIN g THEN g[a] ELSE f[a]]

(* tm_create *)
Init ==
  /\ Gate!Init
  /\ trans_counter = 1
  /\ tx = [t \in Threads |-> 0]
  /\ ro = [t \in Threads |-> FALSE]
  /\ region = [control |-> [w \in Words |-> FreeWord],
               read |-> [w \in Words |-> 0],
               write |-> [w \in Words |-> 0],
               seg |-> [s \in Segs |-> IF s = Start THEN CleanSegment ELSE NoSegment]]
  /\ log = [x \in Txs |-> EmptyLog]
  /\ done = {}

-----------------------------------------------------------------------------
(* The loop over the words first .. last of a segment stops at the first    *)
(* one for which Can fails.                                                 *)
Spans(s) == {{s} \X (first .. last) : first, last \in Offsets} \ {{}}

Passed(r, x, W, Can(_, _)) ==
  {w \in W : \A v \in W : v[2] <= w[2] => Can(r.control[v], x)}

Reached(r, x, W, Can(_, _)) ==
  {w \in W : \A v \in W : v[2] < w[2] => Can(r.control[v], x)}

(* Faulty: the loop of _tm_read never advances to the next word. *)
MarkFirstRead(r, x, W) ==
  [r EXCEPT !.control = [w \in Words |->
     IF w \in W /\ \A v \in W : w[2] <= v[2] THEN ReadMark(@[w], x) ELSE @[w]]]

(* What the loop of _tm_read leaves behind. *)
MarkReads(r, x, W) ==
  LET reached == Reached(r, x, W, CanRead)
  IN  [r EXCEPT !.control = [w \in Words |->
         IF w \in reached THEN ReadMark(@[w], x) ELSE @[w]]]

(* What the loop of _tm_write leaves behind: a word is stored as soon as it *)
(* is granted.                                                              *)
MarkWrites(r, x, data) ==
  LET reached == Reached(r, x, DOMAIN data, CanWrite)
      passed == Passed(r, x, DOMAIN data, CanWrite)
  IN  [r EXCEPT
         !.control = [w \in Words |->
            IF w \in reached THEN WriteMark(@[w], x) ELSE @[w]],
         !.write = [w \in Words |-> IF w \in passed THEN data[w] ELSE @[w]]]

MoveToDirty(r, s) ==
  IF r.seg[s].list = "clean" THEN [r EXCEPT !.seg[s].list = "dirty"] ELSE r

(* rollback_transaction walks the dirty list only. *)
RolledBack(r, x) ==
  {w \in Words : /\ w[1] \in Dirty(r)
                 /\ IsUndoneBy(r.control[w], x)}

Rollback(r, x) ==
  [r EXCEPT
     !.control = [w \in Words |->
        IF w \in RolledBack(r, x) THEN HandBack(@[w]) ELSE @[w]],
     !.write = [w \in Words |-> IF w \in RolledBack(r, x) THEN r.read[w] ELSE @[w]],
     !.seg = [s \in Segs |->
        IF s \in Dirty(r) /\ @[s].owner = x THEN [@[s] EXCEPT !.rollback = TRUE]
                                            ELSE @[s]]]

ReleasedIfFreed(r) ==                      \* faulty: rollback is not tested
  {s \in Dirty(r) : r.seg[s].should_free \/ (r.seg[s].newly_alloc /\ r.seg[s].rollback)}

(* epoch_cleanup: success_free or failure_alloc. *)
Released(r) ==
  {s \in Dirty(r) : \/ ~r.seg[s].rollback /\ r.seg[s].should_free
                    \/ r.seg[s].rollback /\ r.seg[s].newly_alloc}

(* A released segment is gone; what its memory holds no longer matters, and *)
(* the model says 0, as alloc_segment will.                                 *)
EpochCleanup(r) ==
  [control |-> [w \in Words |-> IF w[1] \in Dirty(r) THEN FreeWord ELSE r.control[w]],
   read |-> [w \in Words |-> IF w[1] \in Released(r) THEN 0
                             ELSE IF w[1] \in Dirty(r) THEN r.write[w] ELSE r.read[w]],
   write |-> [w \in Words |-> IF w[1] \in Released(r) THEN 0 ELSE r.write[w]],
   seg |-> [s \in Segs |-> IF s \in Released(r) THEN NoSegment
                           ELSE IF s \in Dirty(r) THEN CleanSegment ELSE r.seg[s]]]

AllocSegment(r, x, s) ==
  [r EXCEPT !.seg[s] = [list |-> "dirty", owner |-> x, newly_alloc |-> TRUE,
                        should_free |-> FALSE, rollback |-> FALSE]]

FreeSegment(r, x, s) ==
  MoveToDirty([r EXCEPT !.seg[s].should_free = TRUE, !.seg[s].owner = x], s)

(* A transaction touches a segment that another one has just allocated. *)
Foreign(r, x, s) == r.seg[s].newly_alloc /\ r.seg[s].owner # x

-----------------------------------------------------------------------------
(* leave_batcher: r is the region the leaving thread has made, D the        *)
(* transactions of the epoch that have committed.                           *)
Leave(t, r, D) ==
  /\ tx' = [tx EXCEPT ![t] = 0]
  /\ ro' = [ro EXCEPT ![t] = FALSE]
  /\ \/ /\ Gate!LeaveEarly(t)
        /\ region' = r
        /\ done' = D
        /\ log' = [x \in Txs |-> IF x = tx[t] /\ x \notin D THEN EmptyLog ELSE log[x]]
     \/ /\ Gate!LeaveLast(t)
        /\ region' = EpochCleanup(r)
        /\ done' = {}
        /\ log' = [x \in Txs |-> EmptyLog]
  /\ UNCHANGED trans_counter

Abort(t, r) == Leave(t, Rollback(r, tx[t]), done)

Running(t) == t \in batch

InTx == UNCHANGED <<counter, batch, queue, trans_counter, tx, ro, done>>

(* Faulty: the number is read after the increment, and is not handed out yet.*)
BeginAddAndFetch(t, is_ro) ==
  /\ trans_counter <= MaxTx
  /\ trans_counter' = trans_counter + 1
  /\ tx' = [tx EXCEPT ![t] = trans_counter']
  /\ ro' = [ro EXCEPT ![t] = is_ro]
  /\ Gate!Enter(t)
  /\ UNCHANGED <<region, log, done>>

(* tm_begin.  Drawing the number and entering the batcher are two steps in *)
(* the code; numbers are only ever compared for equality.                   *)
Begin(t, is_ro) ==
  /\ trans_counter <= MaxTx
  /\ trans_counter' = trans_counter + 1
  /\ tx' = [tx EXCEPT ![t] = trans_counter]
  /\ ro' = [ro EXCEPT ![t] = is_ro]
  /\ Gate!Enter(t)
  /\ UNCHANGED <<region, log, done>>

(* Faulty: reads the copy that is being written. *)
ReadOnlyWriteCopy(t, s, W) ==
  /\ Running(t) /\ ro[t]
  /\ s \in Listed(region) /\ ~Foreign(region, tx[t], s)
  /\ log' = [log EXCEPT ![tx[t]].reads = Overlay(@, [w \in W |-> region.write[w]])]
  /\ UNCHANGED region
  /\ InTx

(* tm_read of a read-only transaction: the read copy, no control at all. *)
ReadOnly(t, s, W) ==
  /\ Running(t) /\ ro[t]
  /\ s \in Listed(region) /\ ~Foreign(region, tx[t], s)
  /\ log' = [log EXCEPT ![tx[t]].reads = Overlay(@, [w \in W |-> region.read[w]])]
  /\ UNCHANGED region
  /\ InTx

(* Faulty: a segment that is only read is not made dirty. *)
ReadStaysClean(t, s, W) ==
  LET x == tx[t] IN
  /\ Running(t) /\ ~ro[t]
  /\ s \in Listed(region) /\ ~Foreign(region, x, s)
  /\ \A w \in W : CanRead(region.control[w], x)
  /\ region' = MarkReads(region, x, W)
  /\ log' = [log EXCEPT ![x].reads = Overlay(@, [w \in W |-> region.write[w]])]
  /\ InTx

(* tm_read that succeeds: the write copy. *)
Read(t, s, W) ==
  LET x == tx[t] IN
  /\ Running(t) /\ ~ro[t]
  /\ s \in Listed(region) /\ ~Foreign(region, x, s)
  /\ \A w \in W : CanRead(region.control[w], x)
  /\ region' = MoveToDirty(MarkReads(region, x, W), s)
  /\ log' = [log EXCEPT ![x].reads = Overlay(@, [w \in W |-> region.write[w]])]
  /\ InTx

(* tm_read that fails on a word another transaction has written. *)
ReadConflict(t, s, W) ==
  LET x == tx[t] IN
  /\ Running(t) /\ ~ro[t]
  /\ s \in Listed(region) /\ ~Foreign(region, x, s)
  /\ \E w \in W : ~CanRead(region.control[w], x)
  /\ Abort(t, MarkReads(region, x, W))

(* tm_write that succeeds. *)
Write(t, s, data) ==
  LET x == tx[t] IN
  /\ Running(t) /\ ~ro[t]
  /\ s \in Listed(region) /\ ~Foreign(region, x, s)
  /\ \A w \in DOMAIN data : CanWrite(region.control[w], x)
  /\ region' = MoveToDirty(MarkWrites(region, x, data), s)
  /\ log' = [log EXCEPT ![x].writes = Overlay(@, data)]
  /\ InTx

(* tm_write that fails on a word another transaction has read or written. *)
WriteConflict(t, s, data) ==
  LET x == tx[t] IN
  /\ Running(t) /\ ~ro[t]
  /\ s \in Listed(region) /\ ~Foreign(region, x, s)
  /\ \E w \in DOMAIN data : ~CanWrite(region.control[w], x)
  /\ Abort(t, MarkWrites(region, x, data))

(* tm_read or tm_write in a segment another transaction has allocated. *)
AccessForeign(t, s) ==
  /\ Running(t)
  /\ s \in Listed(region) /\ Foreign(region, tx[t], s)
  /\ Abort(t, region)

(* tm_alloc that succeeds (one that fails changes nothing). *)
Alloc(t, s) ==
  /\ Running(t) /\ ~ro[t]
  /\ s \notin Listed(region)
  /\ region' = AllocSegment(region, tx[t], s)
  /\ log' = [log EXCEPT ![tx[t]].allocs = @ \cup {s}]
  /\ InTx

(* tm_free: no conflict is looked for and none is reported. *)
Free(t, s) ==
  /\ Running(t) /\ ~ro[t]
  /\ s \in Listed(region) \ {Start} /\ ~Foreign(region, tx[t], s)
  /\ region' = FreeSegment(region, tx[t], s)
  /\ log' = [log EXCEPT ![tx[t]].frees = @ \cup {s}]
  /\ InTx

(* A call of t on s that fails. *)
Failing(t, s) ==
  \/ AccessForeign(t, s)
  \/ \E W \in Spans(s) : ReadConflict(t, s, W)
  \/ \E W \in Spans(s) : \E data \in [W -> Values] : WriteConflict(t, s, data)

(* tm_end *)
End(t) ==
  /\ Running(t)
  /\ Leave(t, region, IF ro[t] THEN done ELSE done \cup {tx[t]})

Step(t) ==
  \/ \E is_ro \in BOOLEAN : Begin(t, is_ro)
  \/ \E s \in Segs : \E W \in Spans(s) :
       \/ ReadOnly(t, s, W)
       \/ Read(t, s, W)
       \/ ReadConflict(t, s, W)
       \/ \E data \in [W -> Values] : Write(t, s, data) \/ WriteConflict(t, s, data)
  \/ \E s \in Segs : AccessForeign(t, s) \/ Alloc(t, s) \/ Free(t, s)
  \/ End(t)

Next == \E t \in Threads : Step(t)

Spec == Init /\ [][Next]_vars
-----------------------------------------------------------------------------
(* The read-write transactions of the epoch whose effects count.           *)
Active == done \cup {tx[t] : t \in {u \in batch : ~ro[u]}}

(* The region, with n the largest transaction number in use. *)
Regions(n) ==
  [control : [Words -> [access : 0 .. n, written : BOOLEAN, many : BOOLEAN]],
   read : [Words -> Values],
   write : [Words -> Values],
   seg : [Segs -> [list : {"none", "clean", "dirty"}, owner : 0 .. n,
                   newly_alloc : BOOLEAN, should_free : BOOLEAN,
                   rollback : BOOLEAN]]]

PartialMemories == UNION {[S -> Values] : S \in SUBSET Words}
Logs == [reads : PartialMemories, writes : PartialMemories,
         allocs : SUBSET Segs, frees : SUBSET Segs]

(* Every variable has its type; a transaction number that is in use, in a   *)
(* thread, a control word or a segment, is one tm_begin has handed out.     *)
TypeOK ==
  /\ counter \in 0 .. CounterModulus - 1
  /\ batch \subseteq Threads
  /\ queue \subseteq Threads
  /\ trans_counter \in 1 .. MaxTx + 1
  /\ tx \in [Threads -> 0 .. trans_counter - 1]
  /\ ro \in [Threads -> BOOLEAN]
  /\ region \in Regions(trans_counter - 1)
  /\ log \in [Txs -> Logs]
  /\ done \subseteq 1 .. trans_counter - 1

(* Two transactions of an epoch that both run on or have committed never    *)
(* conflict: what one has written, the other has neither read nor written.  *)
(* This is what makes any serial order of the epoch's transactions explain  *)
(* what they read, and it has to survive rollbacks that hand words back.    *)
ConflictFree ==
  \A x, y \in Active : x # y =>
    DOMAIN log[x].writes \cap (DOMAIN log[y].reads \cup DOMAIN log[y].writes) = {}

(* Every mark is one that the end of the epoch will find: epoch_cleanup and *)
(* rollback_transaction look at dirty segments only, and a mark that stayed *)
(* would make a word unusable for good.                                     *)
MarksAreDirty ==
  \A w \in Words : region.control[w] # FreeWord => w[1] \in Dirty(region)

(* The step is the tm_end of t, and t commits by it: no failing call of t   *)
(* explains the same step.                                                  *)
Commits(t) == End(t) /\ ~ro[t] /\ \A s \in Segs : ~Failing(t, s)

(* Who has committed in the epoch, with this step.                          *)
Committed == done \cup {tx[t] : t \in {u \in batch : Commits(u)}}

(* A segment that a transaction was given stays until the last of the epoch *)
(* leaves, and then only two kinds of segments go: those a transaction that  *)
(* has committed, by this step or before, freed; and those allocated in this *)
(* epoch by none that has. Nobody loses a segment to a tm_free that was      *)
(* rolled back, nor one that a committed tm_alloc returned.                  *)
NoLostSegment ==
  [][\A s \in Listed(region) \ Listed(region)' :
       /\ \E t \in batch : Gate!LeaveLast(t)
       /\ \/ \E x \in Committed : s \in log[x].frees
          \/ region.seg[s].newly_alloc /\ \A x \in Committed : s \notin log[x].allocs]_vars

(* The transactional memory implements its specification. *)
Published == {s \in Listed(region) : ~region.seg[s].newly_alloc}

Memory == INSTANCE SnapshotTM WITH
  fresh <- trans_counter,
  alive <- Published,
  committed <- [w \in Words |-> IF w[1] \in Published THEN region.read[w] ELSE 0]

Implements == Memory!Spec

(* tests.c, test_free_is_commited: after a transaction that freed a segment *)
(* has committed and the epoch has ended, "mu_check(region->seg_links->next *)
(* == region->seg_links)", the segment is gone.  Stated for a segment that  *)
(* exactly one transaction freed, among those that did not abort.           *)
FreeIsCommitted ==
  [][counter' # counter =>
       \A x \in done : \A s \in log[x].frees :
         (\A y \in Active \ {x} : s \notin log[y].frees) => s \notin Listed(region)']_vars
==============================================================================

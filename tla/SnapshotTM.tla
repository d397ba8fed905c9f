----------------------------- MODULE SnapshotTM -----------------------------
(***************************************************************************)
(* What template/tm.c promises to the transactions that use it.            *)
(*                                                                         *)
(* All transactions of an epoch see the same committed memory.  A           *)
(* read-write transaction also sees its own writes and nobody else's; two   *)
(* read-write transactions of an epoch that both run on or commit never     *)
(* conflict: neither writes a word that the other has read or written.      *)
(* Everything a transaction did vanishes when it aborts.  What the          *)
(* committed ones did is published in one step, when the epoch ends.        *)
(*                                                                         *)
(* TM.tla implements this with two copies of every word, one control        *)
(* structure per word and the lists of clean and dirty segments.            *)
(***************************************************************************)
EXTENDS Integers

CONSTANTS
  Threads,         \* the client threads
  Segs,            \* the segments the memory can hold
  Start,           \* the segment every region starts with
  Offsets,         \* the words of a segment
  Values,          \* what a word holds; 0 in a new segment
  Txs,             \* transaction numbers
  CounterModulus

Words == Segs \X Offsets

(* What one transaction has done: the words it read, with the value it     *)
(* last got; the words it wrote; the segments it allocated and freed.       *)
Nothing == [w \in {} |-> 0]
EmptyLog == [reads |-> Nothing, writes |-> Nothing, allocs |-> {}, frees |-> {}]

VARIABLES
  counter, batch, queue,  \* the gate, see EpochGate
  tx,         \* tx[t]: the transaction t runs or waits to run, 0 for none
  ro,         \* ro[t]: that transaction is read-only
  fresh,      \* the next transaction number
  committed,  \* the published value of every word, 0 outside the memory
  alive,      \* the published segments
  log,        \* log[x]: what transaction x has done in this epoch
  done        \* the read-write transactions that committed in this epoch

vars == <<counter, batch, queue, tx, ro, fresh, committed, alive, log, done>>

Gate == INSTANCE EpochGate

Init ==
  /\ Gate!Init
  /\ tx = [t \in Threads |-> 0]
  /\ ro = [t \in Threads |-> FALSE]
  /\ fresh = 1
  /\ committed = [w \in Words |-> 0]
  /\ alive = {Start}
  /\ log = [x \in Txs |-> EmptyLog]
  /\ done = {}

-----------------------------------------------------------------------------
(* The read-write transactions of the epoch whose effects count: those     *)
(* that still run and those that have committed.                            *)
Active == done \cup {tx[t] : t \in {u \in batch : ~ro[u]}}

Touched(x) == DOMAIN log[x].reads \cup DOMAIN log[x].writes

(* x may read (write) w: no other active transaction wrote (touched) it.    *)
MayRead(x, w) == \A y \in Active \ {x} : w \notin DOMAIN log[y].writes
MayWrite(x, w) == \A y \in Active \ {x} : w \notin Touched(y)

(* f with the arguments of g mapped as g maps them. *)
Overlay(f, g) ==
  [a \in DOMAIN f \cup DOMAIN g |-> IF a \in DOMAIN g THEN g[a] ELSE f[a]]

View(t, w) == IF w \in DOMAIN log[tx[t]].writes THEN log[tx[t]].writes[w]
                                                ELSE committed[w]

Usable(t) == alive \cup log[tx[t]].allocs

Running(t) == t \in batch

memory == <<committed, alive>>

-----------------------------------------------------------------------------
Begin(t, isRo) ==
  /\ fresh \in Txs
  /\ fresh' = fresh + 1
  /\ tx' = [tx EXCEPT ![t] = fresh]
  /\ ro' = [ro EXCEPT ![t] = isRo]
  /\ Gate!Enter(t)
  /\ UNCHANGED <<memory, log, done>>

InTx == UNCHANGED <<counter, batch, queue, tx, ro, fresh, memory, done>>

Read(t, W) ==
  /\ Running(t)
  /\ \A w \in W : w[1] \in Usable(t) /\ (ro[t] \/ MayRead(tx[t], w))
  /\ log' = [log EXCEPT ![tx[t]].reads = Overlay(@, [w \in W |-> View(t, w)])]
  /\ InTx

Write(t, data) ==
  /\ Running(t) /\ ~ro[t]
  /\ \A w \in DOMAIN data : w[1] \in Usable(t) /\ MayWrite(tx[t], w)
  /\ log' = [log EXCEPT ![tx[t]].writes = Overlay(@, data)]
  /\ InTx

Alloc(t, s) ==
  /\ Running(t) /\ ~ro[t]
  /\ s \notin alive /\ \A x \in Txs : s \notin log[x].allocs
  /\ log' = [log EXCEPT ![tx[t]].allocs = @ \cup {s}]
  /\ InTx

Free(t, s) ==
  /\ Running(t) /\ ~ro[t]
  /\ s \in Usable(t) \ {Start}
  /\ log' = [log EXCEPT ![tx[t]].frees = @ \cup {s}]
  /\ InTx

(* The end of the epoch publishes what the transactions in D have done.     *)
(* Of the segments they freed, some may stay: a free can be lost, but no    *)
(* segment disappears that no committed transaction freed.                  *)
Publish(D) ==
  LET written(w) == {x \in D : w \in DOMAIN log[x].writes}
      frees == UNION {log[x].frees : x \in D}
  IN  /\ \E released \in SUBSET frees :
           alive' = (alive \cup UNION {log[x].allocs : x \in D}) \ released
      /\ committed' = [w \in Words |->
                         IF w[1] \notin alive' THEN 0
                         ELSE IF written(w) = {} THEN committed[w]
                         ELSE log[CHOOSE x \in written(w) : TRUE].writes[w]]

(* What has committed in this epoch when t leaves. *)
Committing(t, commits) == IF commits /\ ~ro[t] THEN done \cup {tx[t]} ELSE done

(* The transaction of t is over; it commits or aborts.                      *)
Leave(t, commits) ==
  /\ tx' = [tx EXCEPT ![t] = 0]
  /\ ro' = [ro EXCEPT ![t] = FALSE]
  /\ \/ /\ Gate!LeaveEarly(t)
        /\ done' = Committing(t, commits)
        /\ log' = [x \in Txs |->
                     IF x = tx[t] /\ x \notin Committing(t, commits) THEN EmptyLog ELSE log[x]]
        /\ UNCHANGED memory
     \/ /\ Gate!LeaveLast(t)
        /\ done' = {}
        /\ log' = [x \in Txs |-> EmptyLog]
        /\ Publish(Committing(t, commits))
  /\ UNCHANGED fresh

Abort(t) == Leave(t, FALSE)

Commit(t) == Leave(t, TRUE)

SpansOf(s) == {{s} \X (a .. b) : a, b \in Offsets} \ {{}}
Spans == UNION {SpansOf(s) : s \in Segs}

Next == \E t \in Threads :
  \/ \E isRo \in BOOLEAN : Begin(t, isRo)
  \/ \E W \in Spans : Read(t, W)
  \/ \E W \in Spans : \E data \in [W -> Values] : Write(t, data)
  \/ \E s \in Segs : Alloc(t, s) \/ Free(t, s)
  \/ Abort(t)
  \/ Commit(t)

Spec == Init /\ [][Next]_vars
==============================================================================

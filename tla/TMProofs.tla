------------------------------- MODULE TMProofs -------------------------------
(***************************************************************************)
(* Proofs about TM.tla, for any number of threads, segments, words, values *)
(* and transactions: first what the control words tell of the histories,   *)
(* then that no segment is lost and that TM.tla implements SnapshotTM.tla. *)
(***************************************************************************)
EXTENDS TM, TLAPS

USE TMAssumption DEF Txs

-----------------------------------------------------------------------------
(* Facts about the data. *)

(* Overlaying two partial memories gives a partial memory. *)
LEMMA OverlayType ==
  ASSUME NEW f \in PartialMemories, NEW g \in PartialMemories
  PROVE  /\ Overlay(f, g) \in PartialMemories
         /\ DOMAIN Overlay(f, g) = DOMAIN f \cup DOMAIN g
         /\ \A a \in DOMAIN f \cup DOMAIN g :
              Overlay(f, g)[a] = IF a \in DOMAIN g THEN g[a] ELSE f[a]
<1>1. PICK S \in SUBSET Words : f \in [S -> Values]
  BY DEF PartialMemories
<1>2. PICK T \in SUBSET Words : g \in [T -> Values]
  BY DEF PartialMemories
<1>3. DOMAIN f = S /\ DOMAIN g = T
  BY <1>1, <1>2
<1>4. Overlay(f, g) \in [S \cup T -> Values]
  BY <1>1, <1>2, <1>3 DEF Overlay
<1>5. S \cup T \in SUBSET Words
  OBVIOUS
<1>6. Overlay(f, g) \in PartialMemories
  BY <1>4, <1>5 DEF PartialMemories
<1>7. QED
  BY <1>3, <1>6 DEF Overlay

(* A function on some words is a partial memory. *)
LEMMA PartialType ==
  ASSUME NEW W \in SUBSET Words, NEW f \in [W -> Values]
  PROVE  f \in PartialMemories /\ DOMAIN f = W
BY DEF PartialMemories

(* The empty history. *)
LEMMA EmptyLogType ==
  /\ EmptyLog \in Logs
  /\ DOMAIN EmptyLog.reads = {} /\ DOMAIN EmptyLog.writes = {}
  /\ EmptyLog.allocs = {} /\ EmptyLog.frees = {}
<1>1. Nothing \in [{} -> Values]
  BY DEF Nothing
<1>2. Nothing \in PartialMemories /\ DOMAIN Nothing = {}
  BY <1>1, PartialType
<1>3. QED
  BY <1>2 DEF EmptyLog, Logs

(* A span is a set of words of its segment. *)
LEMMA SpanType ==
  ASSUME NEW s \in Segs, NEW W \in Spans(s)
  PROVE  W \in SUBSET Words /\ \A w \in W : w[1] = s
BY DEF Spans, Words, Offsets

(* Extending the history of transaction x. *)
LEMMA LogReads ==
  ASSUME NEW x \in Txs, log \in [Txs -> Logs], NEW W \in SUBSET Words,
         NEW f \in [W -> Values]
  PROVE  [log EXCEPT ![x].reads = Overlay(@, f)] \in [Txs -> Logs]
<1>1. f \in PartialMemories
  BY PartialType
<1>2. log[x].reads \in PartialMemories
  BY DEF Logs
<1>3. Overlay(log[x].reads, f) \in PartialMemories
  BY <1>1, <1>2, OverlayType
<1>4. QED
  BY <1>3 DEF Logs

LEMMA LogWrites ==
  ASSUME NEW x \in Txs, log \in [Txs -> Logs], NEW W \in SUBSET Words,
         NEW f \in [W -> Values]
  PROVE  [log EXCEPT ![x].writes = Overlay(@, f)] \in [Txs -> Logs]
<1>1. f \in PartialMemories
  BY PartialType
<1>2. log[x].writes \in PartialMemories
  BY DEF Logs
<1>3. Overlay(log[x].writes, f) \in PartialMemories
  BY <1>1, <1>2, OverlayType
<1>4. QED
  BY <1>3 DEF Logs

-----------------------------------------------------------------------------
(* What the operators make of a region r in which transaction numbers up   *)
(* to n are in use: the parts they change, and that it stays a region.      *)

LEMMA MarkReadsFacts ==
  ASSUME NEW n \in Nat, NEW r \in Regions(n), NEW x \in 0 .. n,
         NEW W \in SUBSET Words
  PROVE  LET q == MarkReads(r, x, W) IN
         /\ q \in Regions(n)
         /\ q.read = r.read /\ q.write = r.write /\ q.seg = r.seg
         /\ \A w \in Words : q.control[w] =
              IF w \in Reached(r, x, W, CanRead) THEN ReadMark(r.control[w], x)
                                                 ELSE r.control[w]
<1> DEFINE q == MarkReads(r, x, W)
           reached == Reached(r, x, W, CanRead)
           C == [access : 0 .. n, written : BOOLEAN, many : BOOLEAN]
<1>1. \A c \in C : ReadMark(c, x) \in C
  BY DEF ReadMark, Claim
<1>2. r.control \in [Words -> C]
  BY DEF Regions
<1>3. q = [r EXCEPT !.control = [w \in Words |->
             IF w \in reached THEN ReadMark(r.control[w], x) ELSE r.control[w]]]
  BY DEF MarkReads
<1> HIDE DEF reached, q
<1>4. [w \in Words |-> IF w \in reached THEN ReadMark(r.control[w], x)
                                        ELSE r.control[w]] \in [Words -> C]
  BY <1>1, <1>2
<1> DEFINE control == [w \in Words |-> IF w \in reached THEN ReadMark(r.control[w], x)
                                                        ELSE r.control[w]]
<1>5. \A w \in Words : control[w] =
        IF w \in reached THEN ReadMark(r.control[w], x) ELSE r.control[w]
  OBVIOUS
<1>6. q = [r EXCEPT !.control = control]
  BY <1>3
<1>7. control \in [Words -> C]
  BY <1>4
<1> HIDE DEF control
<1>8. /\ q \in Regions(n)
      /\ q.read = r.read /\ q.write = r.write /\ q.seg = r.seg
      /\ q.control = control
  BY <1>6, <1>7 DEF Regions
<1>9. QED
  BY <1>5, <1>8 DEF q, reached

LEMMA MarkWritesFacts ==
  ASSUME NEW n \in Nat, NEW r \in Regions(n), NEW x \in 0 .. n,
         NEW W \in SUBSET Words, NEW data \in [W -> Values]
  PROVE  LET q == MarkWrites(r, x, data) IN
         /\ q \in Regions(n)
         /\ q.read = r.read /\ q.seg = r.seg
         /\ \A w \in Words : q.control[w] =
              IF w \in Reached(r, x, W, CanWrite) THEN WriteMark(r.control[w], x)
                                                  ELSE r.control[w]
         /\ \A w \in Words : q.write[w] =
              IF w \in Passed(r, x, W, CanWrite) THEN data[w] ELSE r.write[w]
<1> DEFINE q == MarkWrites(r, x, data)
           reached == Reached(r, x, W, CanWrite)
           passed == Passed(r, x, W, CanWrite)
           C == [access : 0 .. n, written : BOOLEAN, many : BOOLEAN]
           control == [w \in Words |-> IF w \in reached THEN WriteMark(r.control[w], x)
                                                        ELSE r.control[w]]
           write == [w \in Words |-> IF w \in passed THEN data[w] ELSE r.write[w]]
<1>1. \A c \in C : WriteMark(c, x) \in C
  <2> SUFFICES ASSUME NEW c \in C PROVE WriteMark(c, x) \in C
    OBVIOUS
  <2>1. Claim(c, x) \in C
    BY DEF Claim
  <2>2. CanWrite(c, x) \in BOOLEAN
    BY DEF CanWrite
  <2>3. QED
    BY <2>1, <2>2 DEF WriteMark
<1>2. r.control \in [Words -> C] /\ r.write \in [Words -> Values]
  BY DEF Regions
<1>3. DOMAIN data = W /\ passed \subseteq W
  BY DEF Passed
<1>4. q = [r EXCEPT !.control = control, !.write = write]
  BY <1>3 DEF MarkWrites
<1> HIDE DEF reached, passed, q
<1>5. control \in [Words -> C]
  BY <1>1, <1>2
<1>6. write \in [Words -> Values]
  BY <1>2, <1>3
<1>7. QED
  <2>1. q \in Regions(n) /\ q.read = r.read /\ q.seg = r.seg
    BY <1>4, <1>5, <1>6 DEF Regions
  <2>2. q.control = control /\ q.write = write
    BY <1>4 DEF Regions
  <2>3. QED
    BY <2>1, <2>2 DEF q, reached, passed

SegmentType(n) ==
  [list : {"none", "clean", "dirty"}, owner : 0 .. n,
   newly_alloc : BOOLEAN, should_free : BOOLEAN, rollback : BOOLEAN]

WithSegment(r, s, v) == [r EXCEPT !.seg[s] = v]

(* Giving one segment a new state. *)
LEMMA SegmentUpdate ==
  ASSUME NEW n \in Nat, NEW r \in Regions(n), NEW s \in Segs, NEW v \in SegmentType(n)
  PROVE  LET q == WithSegment(r, s, v) IN
         /\ q \in Regions(n)
         /\ q.read = r.read /\ q.write = r.write /\ q.control = r.control
         /\ q.seg[s] = v
         /\ Dirty(q) = IF v.list = "dirty" THEN Dirty(r) \cup {s} ELSE Dirty(r) \ {s}
         /\ Listed(q) = IF v.list # "none" THEN Listed(r) \cup {s} ELSE Listed(r) \ {s}
<1> DEFINE q == WithSegment(r, s, v)
           f == [r.seg EXCEPT ![s] = v]
<1>1. r.seg \in [Segs -> SegmentType(n)]
  BY DEF Regions, SegmentType
<1>2. f \in [Segs -> SegmentType(n)]
  BY <1>1
<1>3. q = [r EXCEPT !.seg = f]
  BY DEF Regions, WithSegment
<1>4. \A u \in Segs : f[u] = IF u = s THEN v ELSE r.seg[u]
  BY <1>1
<1> HIDE DEF f, q
<1>5. /\ q \in Regions(n) /\ q.seg = f
      /\ q.read = r.read /\ q.write = r.write /\ q.control = r.control
  BY <1>2, <1>3 DEF Regions, SegmentType
<1>6. Dirty(q) = {u \in Segs : f[u].list = "dirty"}
  BY <1>5 DEF Dirty
<1>7. Listed(q) = {u \in Segs : f[u].list # "none"}
  BY <1>5 DEF Listed
<1>8. Dirty(q) = IF v.list = "dirty" THEN Dirty(r) \cup {s} ELSE Dirty(r) \ {s}
  BY <1>4, <1>6 DEF Dirty
<1>9. Listed(q) = IF v.list # "none" THEN Listed(r) \cup {s} ELSE Listed(r) \ {s}
  BY <1>4, <1>7 DEF Listed
<1>10. QED
  BY <1>4, <1>5, <1>8, <1>9 DEF q

LEMMA MoveToDirtyFacts ==
  ASSUME NEW n \in Nat, NEW r \in Regions(n), NEW s \in Segs
  PROVE  LET q == MoveToDirty(r, s) IN
         /\ q \in Regions(n)
         /\ q.read = r.read /\ q.write = r.write /\ q.control = r.control
         /\ Dirty(q) = IF s \in Listed(r) THEN Dirty(r) \cup {s} ELSE Dirty(r)
         /\ Listed(q) = Listed(r)
<1> DEFINE v == [r.seg[s] EXCEPT !.list = "dirty"]
<1>1. r.seg[s] \in SegmentType(n)
  BY DEF Regions, SegmentType
<1>2. v \in SegmentType(n) /\ v.list = "dirty"
  BY <1>1 DEF SegmentType
<1>3. CASE r.seg[s].list = "clean"
  <2>1. MoveToDirty(r, s) = WithSegment(r, s, v)
    BY <1>3 DEF MoveToDirty, Regions, WithSegment
  <2>2. s \in Listed(r)
    BY <1>3 DEF Listed
  <2> HIDE DEF v
  <2>3. /\ WithSegment(r, s, v) \in Regions(n)
        /\ WithSegment(r, s, v).read = r.read
        /\ WithSegment(r, s, v).write = r.write
        /\ WithSegment(r, s, v).control = r.control
        /\ Dirty(WithSegment(r, s, v)) = Dirty(r) \cup {s}
        /\ Listed(WithSegment(r, s, v)) = Listed(r) \cup {s}
    BY <1>2, SegmentUpdate
  <2>4. Listed(r) \cup {s} = Listed(r)
    BY <2>2
  <2>5. QED
    BY <2>1, <2>2, <2>3, <2>4
<1>4. CASE r.seg[s].list # "clean"
  <2>1. MoveToDirty(r, s) = r
    BY <1>4 DEF MoveToDirty
  <2>2. s \in Listed(r) => s \in Dirty(r)
    BY <1>1, <1>4 DEF Listed, Dirty, SegmentType
  <2>3. QED
    BY <2>1, <2>2
<1>5. QED
  BY <1>3, <1>4

LEMMA RollbackFacts ==
  ASSUME NEW n \in Nat, NEW r \in Regions(n), NEW x \in 0 .. n
  PROVE  LET q == Rollback(r, x) IN
         /\ q \in Regions(n)
         /\ q.read = r.read
         /\ \A w \in Words : q.control[w] =
              IF w \in RolledBack(r, x) THEN HandBack(r.control[w]) ELSE r.control[w]
         /\ \A w \in Words : q.write[w] =
              IF w \in RolledBack(r, x) THEN r.read[w] ELSE r.write[w]
         /\ Dirty(q) = Dirty(r)
         /\ Listed(q) = Listed(r)
<1> DEFINE q == Rollback(r, x)
           back == RolledBack(r, x)
           C == [access : 0 .. n, written : BOOLEAN, many : BOOLEAN]
           S == [list : {"none", "clean", "dirty"}, owner : 0 .. n,
                 newly_alloc : BOOLEAN, should_free : BOOLEAN, rollback : BOOLEAN]
           control == [w \in Words |->
             IF w \in back THEN HandBack(r.control[w]) ELSE r.control[w]]
           write == [w \in Words |-> IF w \in back THEN r.read[w] ELSE r.write[w]]
           seg == [s \in Segs |->
             IF s \in Dirty(r) /\ r.seg[s].owner = x
             THEN [r.seg[s] EXCEPT !.rollback = TRUE] ELSE r.seg[s]]
<1>1. /\ r.control \in [Words -> C] /\ r.seg \in [Segs -> S]
      /\ r.write \in [Words -> Values] /\ r.read \in [Words -> Values]
  BY DEF Regions
<1>2. q = [r EXCEPT !.control = control, !.write = write, !.seg = seg]
  BY DEF Rollback
<1> HIDE DEF q, back
<1>0. \A c \in C : HandBack(c) \in C
  BY DEF HandBack
<1>3. control \in [Words -> C] /\ write \in [Words -> Values]
  BY <1>0, <1>1
<1>4. seg \in [Segs -> S] /\ \A s \in Segs : seg[s].list = r.seg[s].list
  BY <1>1
<1>5. /\ q \in Regions(n) /\ q.read = r.read
      /\ q.control = control /\ q.write = write /\ q.seg = seg
  BY <1>2, <1>3, <1>4 DEF Regions
<1>6. \A w \in Words : control[w] =
        IF w \in back THEN HandBack(r.control[w]) ELSE r.control[w]
  OBVIOUS
<1> HIDE DEF seg, control, write
<1>7. Dirty(q) = Dirty(r) /\ Listed(q) = Listed(r)
  BY <1>4, <1>5 DEF Dirty, Listed
<1>8. QED
  BY <1>5, <1>6, <1>7 DEF q, back, write

LEMMA EpochCleanupFacts ==
  ASSUME NEW n \in Nat, NEW r \in Regions(n)
  PROVE  LET q == EpochCleanup(r) IN
         /\ q \in Regions(n)
         /\ \A w \in Words : w[1] \in Segs
         /\ \A w \in Words : q.control[w] =
              IF w[1] \in Dirty(r) THEN FreeWord ELSE r.control[w]
         /\ \A w \in Words : q.read[w] =
              IF w[1] \in Released(r) THEN 0
              ELSE IF w[1] \in Dirty(r) THEN r.write[w] ELSE r.read[w]
         /\ \A w \in Words : q.write[w] =
              IF w[1] \in Released(r) THEN 0 ELSE r.write[w]
         /\ Dirty(q) = {}
         /\ Listed(q) = Listed(r) \ Released(r)
<1> DEFINE q == EpochCleanup(r)
           S == [list : {"none", "clean", "dirty"}, owner : 0 .. n,
                 newly_alloc : BOOLEAN, should_free : BOOLEAN, rollback : BOOLEAN]
<1>1. FreeWord \in [access : 0 .. n, written : BOOLEAN, many : BOOLEAN]
  BY DEF FreeWord
<1>2. NoSegment \in S /\ CleanSegment \in S
  BY DEF NoSegment, CleanSegment
<1>3. q \in Regions(n)
  BY <1>1, <1>2 DEF EpochCleanup, Regions
<1>4. \A s \in Segs : q.seg[s].list =
        IF s \in Released(r) THEN "none"
        ELSE IF s \in Dirty(r) THEN "clean" ELSE r.seg[s].list
  BY DEF EpochCleanup, NoSegment, CleanSegment
<1>5. Released(r) \subseteq Dirty(r)
  BY DEF Released
<1>6. Dirty(q) = {} /\ Listed(q) = Listed(r) \ Released(r)
  BY <1>4, <1>5 DEF Dirty, Listed
<1>7. QED
  BY <1>3, <1>6 DEF EpochCleanup, Words

LEMMA AllocFacts ==
  ASSUME NEW n \in Nat, NEW r \in Regions(n), NEW x \in 0 .. n, NEW s \in Segs
  PROVE  LET q == AllocSegment(r, x, s) IN
         /\ q \in Regions(n)
         /\ q.read = r.read /\ q.write = r.write /\ q.control = r.control
         /\ Dirty(q) = Dirty(r) \cup {s}
         /\ Listed(q) = Listed(r) \cup {s}
<1> DEFINE v == [list |-> "dirty", owner |-> x, newly_alloc |-> TRUE,
                 should_free |-> FALSE, rollback |-> FALSE]
<1>1. v \in SegmentType(n) /\ v.list = "dirty"
  BY DEF SegmentType
<1>2. AllocSegment(r, x, s) = WithSegment(r, s, v)
  BY DEF AllocSegment, WithSegment
<1> HIDE DEF v
<1>3. QED
  BY <1>1, <1>2, SegmentUpdate

LEMMA FreeFacts ==
  ASSUME NEW n \in Nat, NEW r \in Regions(n), NEW x \in 0 .. n, NEW s \in Listed(r)
  PROVE  LET q == FreeSegment(r, x, s) IN
         /\ q \in Regions(n)
         /\ q.read = r.read /\ q.write = r.write /\ q.control = r.control
         /\ Dirty(q) = Dirty(r) \cup {s}
         /\ Listed(q) = Listed(r)
<1> DEFINE v == [r.seg[s] EXCEPT !.should_free = TRUE, !.owner = x]
           p == WithSegment(r, s, v)
<1>1. s \in Segs /\ r.seg[s] \in SegmentType(n) /\ r.seg[s].list # "none"
  BY DEF Listed, Regions, SegmentType
<1>2. v \in SegmentType(n) /\ v.list = r.seg[s].list
  BY <1>1 DEF SegmentType
<1>3. [r EXCEPT !.seg[s].should_free = TRUE, !.seg[s].owner = x] = p
  BY <1>1 DEF Regions, WithSegment
<1> HIDE DEF v
<1>4. /\ p \in Regions(n)
      /\ p.read = r.read /\ p.write = r.write /\ p.control = r.control
      /\ Dirty(p) = Dirty(r) /\ Listed(p) = Listed(r)
  <2>1. /\ p \in Regions(n)
        /\ p.read = r.read /\ p.write = r.write /\ p.control = r.control
        /\ Dirty(p) = IF v.list = "dirty" THEN Dirty(r) \cup {s} ELSE Dirty(r) \ {s}
        /\ Listed(p) = IF v.list # "none" THEN Listed(r) \cup {s} ELSE Listed(r) \ {s}
    <3>1. s \in Segs /\ v \in SegmentType(n)
      BY <1>1, <1>2
    <3>2. p \in Regions(n)
      BY <3>1, SegmentUpdate
    <3>3. p.read = r.read /\ p.write = r.write /\ p.control = r.control
      BY <3>1, SegmentUpdate
    <3>4. Dirty(p) = IF v.list = "dirty" THEN Dirty(r) \cup {s} ELSE Dirty(r) \ {s}
      BY <3>1, SegmentUpdate
    <3>5. Listed(p) = IF v.list # "none" THEN Listed(r) \cup {s} ELSE Listed(r) \ {s}
      BY <3>1, SegmentUpdate
    <3>6. QED
      BY <3>2, <3>3, <3>4, <3>5
  <2> HIDE DEF p
  <2>2. s \in Dirty(r) <=> v.list = "dirty"
    BY <1>1, <1>2 DEF Dirty
  <2>3. Dirty(p) = Dirty(r)
    BY <2>1, <2>2
  <2>4. v.list # "none"
    BY <1>1, <1>2
  <2>5. Listed(p) = Listed(r)
    BY <2>1, <2>4
  <2>6. QED
    BY <2>1, <2>3, <2>5
<1> HIDE DEF p
<1>5. FreeSegment(r, x, s) = MoveToDirty(p, s)
  BY <1>3 DEF FreeSegment
<1>6. QED
  BY <1>1, <1>4, <1>5, MoveToDirtyFacts
-----------------------------------------------------------------------------
(* Transaction numbers identify transactions: whoever is in the gate has    *)
(* one, nobody shares it, nobody who has committed in this epoch has it,    *)
(* and only the transactions of this epoch have a history.                  *)
IdInv ==
  /\ \A t \in Threads : tx[t] # 0 <=> t \in batch \cup queue
  /\ batch \cap queue = {}
  /\ \A t, u \in Threads : tx[t] = tx[u] /\ tx[t] # 0 => t = u
  /\ \A t \in Threads : tx[t] \notin done
  /\ \A x \in Txs : log[x] # EmptyLog => x \in done \/ \E t \in batch : tx[t] = x

(* A region in which numbers up to m are in use is one for any n >= m. *)
LEMMA RegionsGrow ==
  ASSUME NEW m \in Nat, NEW n \in Nat, m <= n, NEW r \in Regions(m)
  PROVE  r \in Regions(n)
<1>1. 0 .. m \subseteq 0 .. n
  OBVIOUS
<1>2. r = [control |-> r.control, read |-> r.read, write |-> r.write, seg |-> r.seg]
  BY DEF Regions
<1>3. r.control \in [Words -> [access : 0 .. n, written : BOOLEAN, many : BOOLEAN]]
  BY <1>1 DEF Regions
<1>4. r.seg \in [Segs -> SegmentType(n)]
  BY <1>1 DEF Regions, SegmentType
<1>5. r.read \in [Words -> Values] /\ r.write \in [Words -> Values]
  BY DEF Regions
<1>6. QED
  BY <1>2, <1>3, <1>4, <1>5 DEF Regions, SegmentType

(* The number of a transaction that runs. *)
LEMMA RunningTx ==
  ASSUME TypeOK, IdInv, NEW t \in Threads, Running(t)
  PROVE  /\ trans_counter - 1 \in Nat
         /\ tx[t] \in 0 .. trans_counter - 1
         /\ tx[t] \in 1 .. trans_counter - 1
         /\ tx[t] \in Txs
BY DEF TypeOK, IdInv, Running

(* tm_create *)
LEMMA InitType == Init => TypeOK
<1> SUFFICES ASSUME Init PROVE TypeOK
  OBVIOUS
<1>1. region \in Regions(0)
  <2>1. FreeWord \in [access : 0 .. 0, written : BOOLEAN, many : BOOLEAN]
    BY DEF FreeWord
  <2>2. NoSegment \in SegmentType(0) /\ CleanSegment \in SegmentType(0)
    BY DEF NoSegment, CleanSegment, SegmentType
  <2>3. QED
    BY <2>1, <2>2 DEF Init, Regions, SegmentType
<1>2. log \in [Txs -> Logs]
  BY EmptyLogType DEF Init
<1>3. trans_counter = 1 /\ trans_counter - 1 = 0
  BY DEF Init
<1>4. QED
  BY <1>1, <1>2, <1>3 DEF Init, TypeOK, Gate!Init

(* A thread leaves with a well-typed region. *)
LEMMA LeaveType ==
  ASSUME TypeOK, NEW t \in Threads, NEW r \in Regions(trans_counter - 1),
         NEW D \in SUBSET (1 .. trans_counter - 1), Leave(t, r, D)
  PROVE  TypeOK'
<1> USE DEF TypeOK
<1>1. /\ trans_counter' = trans_counter
      /\ tx' \in [Threads -> 0 .. trans_counter - 1]
      /\ ro' \in [Threads -> BOOLEAN]
  BY DEF Leave
<1>2. CASE Gate!LeaveEarly(t) /\ region' = r /\ done' = D
           /\ log' = [x \in Txs |-> IF x = tx[t] /\ x \notin D THEN EmptyLog ELSE log[x]]
  BY <1>1, <1>2, EmptyLogType DEF Gate!LeaveEarly
<1>3. CASE Gate!LeaveLast(t) /\ region' = EpochCleanup(r) /\ done' = {}
           /\ log' = [x \in Txs |-> EmptyLog]
  <2>1. EpochCleanup(r) \in Regions(trans_counter - 1)
    BY EpochCleanupFacts
  <2>2. (counter + 1) % CounterModulus \in 0 .. CounterModulus - 1
    OBVIOUS
  <2>3. QED
    BY <1>1, <1>3, <2>1, <2>2, EmptyLogType DEF Gate!LeaveLast
<1>4. QED
  BY <1>2, <1>3 DEF Leave

(* A call inside a transaction that changes its region and its history. *)
LEMMA InTxType ==
  ASSUME TypeOK, InTx, region' \in Regions(trans_counter - 1), log' \in [Txs -> Logs]
  PROVE  TypeOK'
BY DEF TypeOK, InTx

(* Every call keeps the types. *)
LEMMA TypeStep == TypeOK /\ IdInv /\ [Next]_vars => TypeOK'
<1> SUFFICES ASSUME TypeOK, IdInv, [Next]_vars PROVE TypeOK'
  OBVIOUS
<1> DEFINE n == trans_counter - 1
<1>a. /\ n \in Nat /\ region \in Regions(n) /\ log \in [Txs -> Logs]
      /\ done \subseteq 1 .. n
      /\ region.read \in [Words -> Values] /\ region.write \in [Words -> Values]
  BY DEF TypeOK, Regions
<1>b. ASSUME NEW t \in Threads, Running(t), NEW r \in Regions(n), Abort(t, r)
      PROVE  TypeOK'
  <2>1. Rollback(r, tx[t]) \in Regions(n)
    BY <1>a, <1>b, RunningTx, RollbackFacts
  <2>2. QED
    BY <1>a, <1>b, <2>1, LeaveType DEF Abort
<1>1. ASSUME NEW t \in Threads, NEW is_ro \in BOOLEAN, Begin(t, is_ro) PROVE TypeOK'
  <2>1. region \in Regions(trans_counter)
    BY <1>a, RegionsGrow DEF TypeOK
  <2>2. trans_counter' = trans_counter + 1 /\ trans_counter' - 1 = trans_counter
    BY <1>1 DEF Begin, TypeOK
  <2>3. /\ tx' \in [Threads -> 0 .. trans_counter]
        /\ ro' \in [Threads -> BOOLEAN]
        /\ trans_counter' \in 1 .. MaxTx + 1
        /\ done' \subseteq 1 .. trans_counter
        /\ log' = log /\ region' = region
    BY <1>1 DEF Begin, TypeOK
  <2>4. counter' = counter /\ batch' \subseteq Threads /\ queue' \subseteq Threads
    BY <1>1 DEF Begin, TypeOK, Gate!Enter
  <2>5. QED
    BY <2>1, <2>2, <2>3, <2>4 DEF TypeOK
<1>2. ASSUME NEW t \in Threads, NEW s \in Segs, NEW W \in Spans(s), ReadOnly(t, s, W)
      PROVE  TypeOK'
  <2>1. tx[t] \in Txs /\ W \in SUBSET Words
    BY <1>2, RunningTx, SpanType DEF ReadOnly
  <2>2. [w \in W |-> region.read[w]] \in [W -> Values]
    BY <1>a, <2>1
  <2>3. log' \in [Txs -> Logs]
    BY <1>2, <1>a, <2>1, <2>2, LogReads DEF ReadOnly
  <2>4. QED
    BY <1>2, <1>a, <2>3, InTxType DEF ReadOnly
<1>3. ASSUME NEW t \in Threads, NEW s \in Segs, NEW W \in Spans(s), Read(t, s, W)
      PROVE  TypeOK'
  <2>1. tx[t] \in Txs /\ tx[t] \in 0 .. n /\ W \in SUBSET Words
    BY <1>3, RunningTx, SpanType DEF Read
  <2>2. [w \in W |-> region.write[w]] \in [W -> Values]
    BY <1>a, <2>1
  <2>3. log' \in [Txs -> Logs]
    BY <1>3, <1>a, <2>1, <2>2, LogReads DEF Read
  <2>4. MarkReads(region, tx[t], W) \in Regions(n)
    BY <1>a, <2>1, MarkReadsFacts
  <2>5. region' \in Regions(n)
    BY <1>3, <1>a, <2>4, MoveToDirtyFacts DEF Read
  <2>6. QED
    BY <1>3, <2>3, <2>5, InTxType DEF Read
<1>4. ASSUME NEW t \in Threads, NEW s \in Segs, NEW W \in Spans(s), ReadConflict(t, s, W)
      PROVE  TypeOK'
  <2>1. Running(t) /\ Abort(t, MarkReads(region, tx[t], W))
    BY <1>4 DEF ReadConflict
  <2>2. MarkReads(region, tx[t], W) \in Regions(n)
    BY <1>a, <2>1, RunningTx, SpanType, MarkReadsFacts
  <2>3. QED
    BY <1>b, <2>1, <2>2
<1>5. ASSUME NEW t \in Threads, NEW s \in Segs, NEW W \in Spans(s),
             NEW data \in [W -> Values], Write(t, s, data)
      PROVE  TypeOK'
  <2>1. tx[t] \in Txs /\ tx[t] \in 0 .. n /\ W \in SUBSET Words
    BY <1>5, RunningTx, SpanType DEF Write
  <2>2. log' \in [Txs -> Logs]
    BY <1>5, <1>a, <2>1, LogWrites DEF Write
  <2>3. MarkWrites(region, tx[t], data) \in Regions(n)
    BY <1>a, <2>1, MarkWritesFacts
  <2>4. region' \in Regions(n)
    BY <1>5, <1>a, <2>3, MoveToDirtyFacts DEF Write
  <2>5. QED
    BY <1>5, <2>2, <2>4, InTxType DEF Write
<1>6. ASSUME NEW t \in Threads, NEW s \in Segs, NEW W \in Spans(s),
             NEW data \in [W -> Values], WriteConflict(t, s, data)
      PROVE  TypeOK'
  <2>1. Running(t) /\ Abort(t, MarkWrites(region, tx[t], data))
    BY <1>6 DEF WriteConflict
  <2>2. MarkWrites(region, tx[t], data) \in Regions(n)
    BY <1>a, <2>1, RunningTx, SpanType, MarkWritesFacts
  <2>3. QED
    BY <1>b, <2>1, <2>2
<1>7. ASSUME NEW t \in Threads, NEW s \in Segs, AccessForeign(t, s) PROVE TypeOK'
  BY <1>7, <1>a, <1>b DEF AccessForeign
<1>8. ASSUME NEW t \in Threads, NEW s \in Segs, Alloc(t, s) \/ Free(t, s) PROVE TypeOK'
  <2>1. Running(t) /\ InTx
    BY <1>8 DEF Alloc, Free
  <2>2. tx[t] \in Txs /\ tx[t] \in 0 .. n
    BY <2>1, RunningTx
  <2>3. log' \in [Txs -> Logs]
    <3>1. CASE Alloc(t, s)
      BY <3>1, <1>a, <2>2 DEF Alloc, Logs
    <3>2. CASE Free(t, s)
      BY <3>2, <1>a, <2>2 DEF Free, Logs
    <3>3. QED
      BY <1>8, <3>1, <3>2
  <2>4. region' \in Regions(n)
    BY <1>8, <1>a, <2>2, AllocFacts, FreeFacts DEF Alloc, Free
  <2>5. QED
    BY <2>1, <2>3, <2>4, InTxType
<1>9. ASSUME NEW t \in Threads, End(t) PROVE TypeOK'
  <2>1. tx[t] \in 1 .. n
    BY <1>9, RunningTx DEF End
  <2>2. (IF ro[t] THEN done ELSE done \cup {tx[t]}) \in SUBSET (1 .. n)
    BY <1>a, <2>1
  <2>3. QED
    BY <1>9, <1>a, <2>2, LeaveType DEF End
<1>10. CASE UNCHANGED vars
  BY <1>10 DEF vars, TypeOK
<1>11. QED
  BY <1>1, <1>2, <1>3, <1>4, <1>5, <1>6, <1>7, <1>8, <1>9, <1>10 DEF Next, Step
-----------------------------------------------------------------------------
(* Transaction numbers. *)

LEMMA InitId == Init => IdInv
BY DEF Init, IdInv, Gate!Init

(* A call inside a transaction changes at most the history of this one.    *)
LEMMA InTxId ==
  ASSUME TypeOK, IdInv, NEW t \in Threads, Running(t), InTx,
         \A y \in Txs \ {tx[t]} : log'[y] = log[y]
  PROVE  IdInv'
<1>1. \A x \in Txs : log'[x] # EmptyLog => x \in done \/ \E u \in batch : tx[u] = x
  <2> SUFFICES ASSUME NEW x \in Txs, log'[x] # EmptyLog
               PROVE  x \in done \/ \E u \in batch : tx[u] = x
    OBVIOUS
  <2>1. CASE x = tx[t]
    BY <2>1 DEF Running
  <2>2. CASE x # tx[t]
    BY <2>2 DEF IdInv
  <2>3. QED
    BY <2>1, <2>2
<1>2. UNCHANGED <<batch, queue, tx, done>>
  BY DEF InTx
<1>3. QED
  BY <1>1, <1>2 DEF IdInv

(* A transaction leaves; it may or may not have committed.                  *)
LEMMA LeaveId ==
  ASSUME TypeOK, IdInv, NEW t \in Threads, NEW r, NEW D, Leave(t, r, D),
         D = done \/ D = done \cup {tx[t]}
  PROVE  IdInv'
<1> USE DEF TypeOK
<1>1. tx' = [tx EXCEPT ![t] = 0] /\ t \in batch
  BY DEF Leave, Gate!LeaveEarly, Gate!LeaveLast
<1>2. /\ t \notin queue /\ tx[t] # 0
      /\ \A u \in Threads \ {t} : tx'[u] = tx[u] /\ (tx[u] # 0 => tx[u] # tx[t])
      /\ tx'[t] = 0
  BY <1>1 DEF IdInv
<1>3. 0 \notin D
  BY <1>2
<1>4. /\ \A u \in Threads : tx'[u] # 0 <=> u \in (batch \ {t}) \cup queue
      /\ (batch \ {t}) \cap queue = {}
      /\ \A u, v \in Threads : tx'[u] = tx'[v] /\ tx'[u] # 0 => u = v
  BY <1>2 DEF IdInv
<1>5. \A u \in Threads : tx'[u] \notin D
  BY <1>2, <1>3 DEF IdInv
<1>6. CASE /\ Gate!LeaveEarly(t) /\ done' = D
           /\ log' = [x \in Txs |-> IF x = tx[t] /\ x \notin D THEN EmptyLog ELSE log[x]]
  <2>1. batch' = batch \ {t} /\ queue' = queue
    BY <1>6 DEF Gate!LeaveEarly
  <2>2. ASSUME NEW x \in Txs, log'[x] # EmptyLog
        PROVE  x \in D \/ \E u \in batch \ {t} : tx'[u] = x
    <3>1. log[x] # EmptyLog /\ (x = tx[t] => x \in D)
      BY <1>6, <2>2
    <3>2. x \in done \/ \E u \in batch : tx[u] = x
      BY <3>1 DEF IdInv
    <3>3. QED
      BY <1>2, <3>1, <3>2
  <2>3. QED
    BY <1>4, <1>5, <1>6, <2>1, <2>2 DEF IdInv
<1>7. CASE /\ Gate!LeaveLast(t) /\ done' = {} /\ log' = [x \in Txs |-> EmptyLog]
  <2>1. batch' = queue /\ queue' = {} /\ batch = {t}
    BY <1>7 DEF Gate!LeaveLast
  <2>2. QED
    BY <1>4, <1>7, <2>1 DEF IdInv
<1>8. QED
  BY <1>6, <1>7 DEF Leave

(* tm_begin hands out a number nobody has. *)
LEMMA BeginId ==
  ASSUME TypeOK, IdInv, NEW t \in Threads, NEW is_ro \in BOOLEAN, Begin(t, is_ro)
  PROVE  IdInv'
<1> USE DEF TypeOK
<1>1. /\ tx' = [tx EXCEPT ![t] = trans_counter] /\ UNCHANGED <<log, done>>
      /\ trans_counter # 0
      /\ t \notin batch \cup queue
      /\ batch' \cup queue' = batch \cup queue \cup {t} /\ batch \subseteq batch'
      /\ batch' \cap queue' = {}
  BY DEF Begin, Gate!Enter, IdInv
<1>2. \A u \in Threads : tx[u] # trans_counter /\ trans_counter \notin done
  OBVIOUS
<1>3. \A u \in Threads : tx'[u] = IF u = t THEN trans_counter ELSE tx[u]
  BY <1>1
<1>4. \A u \in batch : u # t /\ tx'[u] = tx[u]
  BY <1>1, <1>3
<1>5. \A x \in Txs : log'[x] # EmptyLog => x \in done' \/ \E u \in batch' : tx'[u] = x
  BY <1>1, <1>4 DEF IdInv
<1>6. QED
  BY <1>1, <1>2, <1>3, <1>5 DEF IdInv

LEMMA IdStep == TypeOK /\ IdInv /\ [Next]_vars => IdInv'
<1> SUFFICES ASSUME TypeOK, IdInv, [Next]_vars PROVE IdInv'
  OBVIOUS
<1>1. ASSUME NEW t \in Threads, NEW is_ro \in BOOLEAN, Begin(t, is_ro) PROVE IdInv'
  BY <1>1, BeginId
<1>2. ASSUME NEW t \in Threads, NEW s \in Segs, NEW W \in Spans(s),
             ReadOnly(t, s, W) \/ Read(t, s, W)
      PROVE  IdInv'
  <2>1. Running(t) /\ InTx /\ \A y \in Txs \ {tx[t]} : log'[y] = log[y]
    BY <1>2 DEF ReadOnly, Read, TypeOK
  <2>2. QED
    BY <2>1, InTxId
<1>3. ASSUME NEW t \in Threads, NEW s \in Segs, NEW W \in Spans(s),
             NEW data \in [W -> Values], Write(t, s, data)
      PROVE  IdInv'
  <2>1. Running(t) /\ InTx /\ \A y \in Txs \ {tx[t]} : log'[y] = log[y]
    BY <1>3 DEF Write, TypeOK
  <2>2. QED
    BY <2>1, InTxId
<1>4. ASSUME NEW t \in Threads, NEW s \in Segs, Alloc(t, s) \/ Free(t, s) PROVE IdInv'
  <2>1. Running(t) /\ InTx /\ \A y \in Txs \ {tx[t]} : log'[y] = log[y]
    BY <1>4 DEF Alloc, Free, TypeOK
  <2>2. QED
    BY <2>1, InTxId
<1>5. ASSUME NEW t \in Threads, NEW s \in Segs, NEW W \in Spans(s), ReadConflict(t, s, W)
      PROVE  IdInv'
  BY <1>5, LeaveId DEF ReadConflict, Abort
<1>6. ASSUME NEW t \in Threads, NEW s \in Segs, NEW W \in Spans(s),
             NEW data \in [W -> Values], WriteConflict(t, s, data)
      PROVE  IdInv'
  BY <1>6, LeaveId DEF WriteConflict, Abort
<1>7. ASSUME NEW t \in Threads, NEW s \in Segs, AccessForeign(t, s) PROVE IdInv'
  BY <1>7, LeaveId DEF AccessForeign, Abort
<1>8. ASSUME NEW t \in Threads, End(t) PROVE IdInv'
  BY <1>8, LeaveId DEF End
<1>9. CASE UNCHANGED vars
  BY <1>9 DEF vars, IdInv
<1>10. QED
  BY <1>1, <1>2, <1>3, <1>4, <1>5, <1>6, <1>7, <1>8, <1>9 DEF Next, Step
-----------------------------------------------------------------------------
(* Marks and histories. *)

(* The control words of region r tell what the active transactions A have  *)
(* done according to their histories L.  A written word belongs to the one  *)
(* active transaction that wrote it; a word that is not written is the same *)
(* in both copies; and who has read a word either owns it or has left the   *)
(* many_accesses mark, which nobody may write over.                         *)
Marks(r, L, A) ==
  /\ \A w \in Words : r.control[w].written =>
       LET x == r.control[w].access IN
       /\ x \in A
       /\ ~r.control[w].many
       /\ w \in DOMAIN L[x].writes
       /\ r.write[w] = L[x].writes[w]
  /\ \A w \in Words : ~r.control[w].written => r.write[w] = r.read[w]
  /\ \A x \in A : \A w \in DOMAIN L[x].writes :
       r.control[w].written /\ r.control[w].access = x
  /\ \A x \in A : \A w \in DOMAIN L[x].reads :
       \/ r.control[w].access = x
       \/ r.control[w].many /\ ~r.control[w].written

MarksDirty(r) == \A w \in Words : r.control[w] # FreeWord => w[1] \in Dirty(r)

(* The domains of a history. *)
LEMMA LogDomains ==
  ASSUME NEW L \in [Txs -> Logs], NEW x \in Txs
  PROVE  /\ L[x].reads \in PartialMemories /\ DOMAIN L[x].reads \subseteq Words
         /\ L[x].writes \in PartialMemories /\ DOMAIN L[x].writes \subseteq Words
<1>1. L[x].reads \in PartialMemories /\ L[x].writes \in PartialMemories
  BY DEF Logs
<1>2. QED
  BY <1>1 DEF PartialMemories

(* The loops of _tm_read and _tm_write: a word is granted when the loop     *)
(* gets to it and the test succeeds.                                        *)
LEMMA WriteLoop ==
  ASSUME NEW r, NEW x, NEW s \in Segs, NEW W \in Spans(s), NEW w \in W
  PROVE  w \in Passed(r, x, W, CanWrite) <=>
           w \in Reached(r, x, W, CanWrite) /\ CanWrite(r.control[w], x)
<1>1. \A v \in W : v \in {s} \X Offsets
  BY DEF Spans, Offsets
<1>2. \A v \in W : v[2] \in Int /\ (v[2] = w[2] => v = w)
  BY <1>1 DEF Offsets
<1>3. \A v \in W : v[2] <= w[2] <=> v[2] < w[2] \/ v = w
  BY <1>2
<1>4. QED
  BY <1>3 DEF Passed, Reached

LEMMA WriteLoopSucceeds ==
  ASSUME NEW r, NEW x, NEW W, \A w \in W : CanWrite(r.control[w], x)
  PROVE  Passed(r, x, W, CanWrite) = W /\ Reached(r, x, W, CanWrite) = W
BY DEF Passed, Reached

LEMMA ReadLoopSucceeds ==
  ASSUME NEW r, NEW x, NEW W, \A w \in W : CanRead(r.control[w], x)
  PROVE  Reached(r, x, W, CanRead) = W
BY DEF Reached

(* A read mark disturbs nobody, and the reader is known by it. *)
LEMMA MarkReadsMarks ==
  ASSUME NEW n \in Nat, NEW r \in Regions(n), NEW x \in 1 .. n,
         NEW W \in SUBSET Words, NEW L \in [Txs -> Logs], NEW A \in SUBSET Txs,
         Marks(r, L, A)
  PROVE  LET q == MarkReads(r, x, W) IN
         /\ Marks(q, L, A)
         /\ (\A w \in W : CanRead(r.control[w], x)) =>
               \A w \in W : \/ q.control[w].access = x
                            \/ q.control[w].many /\ ~q.control[w].written
<1> DEFINE q == MarkReads(r, x, W)
<1>1. /\ q \in Regions(n) /\ q.read = r.read /\ q.write = r.write
      /\ \A w \in Words : q.control[w] =
           IF w \in Reached(r, x, W, CanRead) THEN ReadMark(r.control[w], x)
                                              ELSE r.control[w]
  BY MarkReadsFacts
<1> HIDE DEF q
<1>2. \A w \in Words : r.control[w] \in [access : 0 .. n, written : BOOLEAN, many : BOOLEAN]
  BY DEF Regions
<1>3. ASSUME NEW w \in Words
      PROVE  /\ q.control[w].written = r.control[w].written
             /\ r.control[w].written => q.control[w] = r.control[w]
             /\ r.control[w].access # 0 => q.control[w].access = r.control[w].access
             /\ r.control[w].many => q.control[w].many
             /\ w \in Reached(r, x, W, CanRead) /\ ~r.control[w].written =>
                  q.control[w].access = x \/ q.control[w].many
  BY <1>1, <1>2 DEF ReadMark, Claim
<1>4. 0 \notin A
  OBVIOUS
<1>5. Marks(q, L, A)
  <2>1. \A w \in Words : q.control[w].written =>
          LET y == q.control[w].access IN
          /\ y \in A /\ ~q.control[w].many
          /\ w \in DOMAIN L[y].writes /\ q.write[w] = L[y].writes[w]
    BY <1>1, <1>3 DEF Marks
  <2>2. \A w \in Words : ~q.control[w].written => q.write[w] = q.read[w]
    BY <1>1, <1>3 DEF Marks
  <2>3. \A y \in A : \A w \in DOMAIN L[y].writes :
          q.control[w].written /\ q.control[w].access = y
    BY <1>3, LogDomains DEF Marks
  <2>4. ASSUME NEW y \in A, NEW w \in DOMAIN L[y].reads
        PROVE  q.control[w].access = y \/ (q.control[w].many /\ ~q.control[w].written)
    <3>1. w \in Words /\ y # 0
      BY <1>4, LogDomains
    <3>2. r.control[w].access = y \/ (r.control[w].many /\ ~r.control[w].written)
      BY DEF Marks
    <3>3. QED
      BY <1>3, <3>1, <3>2
  <2>5. QED
    BY <2>1, <2>2, <2>3, <2>4 DEF Marks
<1>6. ASSUME \A w \in W : CanRead(r.control[w], x), NEW w \in W
      PROVE  q.control[w].access = x \/ (q.control[w].many /\ ~q.control[w].written)
  <2>1. w \in Reached(r, x, W, CanRead) /\ w \in Words /\ CanRead(r.control[w], x)
    BY <1>6, ReadLoopSucceeds
  <2>2. QED
    BY <1>3, <2>1 DEF CanRead
<1>7. QED
  BY <1>5, <1>6 DEF q

(* A write that gets as far as the words P adds P to the history of the     *)
(* writer: nobody else can have touched them.                               *)
LEMMA MarkWritesMarks ==
  ASSUME NEW n \in Nat, NEW r \in Regions(n), NEW A \in SUBSET Txs,
         NEW x \in A, x \in 1 .. n, NEW s \in Segs, NEW W \in Spans(s),
         NEW data \in [W -> Values], NEW L \in [Txs -> Logs], Marks(r, L, A)
  PROVE  LET P == Passed(r, x, W, CanWrite)
             g == [w \in P |-> data[w]]
         IN  Marks(MarkWrites(r, x, data),
                   [L EXCEPT ![x].writes = Overlay(@, g)], A)
<1> DEFINE q == MarkWrites(r, x, data)
           P == Passed(r, x, W, CanWrite)
           R == Reached(r, x, W, CanWrite)
           g == [w \in P |-> data[w]]
           M == [L EXCEPT ![x].writes = Overlay(@, g)]
<1>0. W \in SUBSET Words /\ x \in 0 .. n
  BY SpanType
<1>1. /\ q \in Regions(n) /\ q.read = r.read
      /\ \A w \in Words : q.control[w] =
           IF w \in R THEN WriteMark(r.control[w], x) ELSE r.control[w]
      /\ \A w \in Words : q.write[w] = IF w \in P THEN data[w] ELSE r.write[w]
  BY <1>0, MarkWritesFacts
<1>2. \A w \in Words : r.control[w] \in [access : 0 .. n, written : BOOLEAN, many : BOOLEAN]
  BY DEF Regions
<1>3. /\ P \subseteq R /\ R \subseteq W
      /\ \A w \in R : w \in P <=> CanWrite(r.control[w], x)
  BY WriteLoop DEF Passed, Reached
<1>4. g \in [P -> Values] /\ P \in SUBSET Words
  BY <1>0, <1>3
<1>5. /\ M \in [Txs -> Logs]
      /\ \A y \in Txs \ {x} : M[y] = L[y]
      /\ M[x].reads = L[x].reads
      /\ DOMAIN M[x].writes = DOMAIN L[x].writes \cup P
      /\ \A w \in DOMAIN L[x].writes \cup P :
           M[x].writes[w] = IF w \in P THEN data[w] ELSE L[x].writes[w]
  <2>1. L[x] \in Logs /\ L[x].writes \in PartialMemories
    BY LogDomains
  <2>2. g \in PartialMemories /\ DOMAIN g = P
    BY <1>4, PartialType
  <2> HIDE DEF P, g
  <2> DEFINE o == Overlay(L[x].writes, g)
  <2>3. /\ o \in PartialMemories /\ DOMAIN o = DOMAIN L[x].writes \cup P
        /\ \A w \in DOMAIN L[x].writes \cup P :
             o[w] = IF w \in P THEN g[w] ELSE L[x].writes[w]
    <3> DEFINE f == L[x].writes
    <3>1. f \in PartialMemories
      BY <2>1
    <3> HIDE DEF f
    <3>2. /\ Overlay(f, g) \in PartialMemories
          /\ DOMAIN Overlay(f, g) = DOMAIN f \cup DOMAIN g
          /\ \A w \in DOMAIN f \cup DOMAIN g :
               Overlay(f, g)[w] = IF w \in DOMAIN g THEN g[w] ELSE f[w]
      BY <2>2, <3>1, OverlayType
    <3>3. QED
      BY <2>2, <3>2 DEF f
  <2>a. \A w \in P : g[w] = data[w]
    BY DEF g
  <2> HIDE DEF o
  <2>4. M = [L EXCEPT ![x].writes = o]
    BY DEF o
  <2>5. /\ M \in [Txs -> Logs] /\ \A y \in Txs \ {x} : M[y] = L[y]
        /\ M[x].reads = L[x].reads /\ M[x].writes = o
    BY <2>1, <2>3, <2>4 DEF Logs
  <2>6. QED
    BY <2>3, <2>5, <2>a
<1> HIDE DEF q, P, R, g, M
<1>6. ASSUME NEW w \in P
      PROVE  /\ w \in Words
             /\ r.control[w].access \in {0, x} /\ ~r.control[w].many
             /\ r.control[w].written => r.control[w].access = x
             /\ q.control[w].written /\ q.control[w].access = x /\ ~q.control[w].many
  <2>1. w \in Words /\ CanWrite(r.control[w], x)
    BY <1>3, <1>4
  <2>2. q.control[w] = WriteMark(r.control[w], x)
    BY <1>1, <1>3, <2>1
  <2>3. QED
    BY <1>2, <2>1, <2>2 DEF CanWrite, WriteMark, Claim
<1>7. ASSUME NEW w \in Words \ P
      PROVE  /\ q.control[w].written = r.control[w].written
             /\ r.control[w].written => q.control[w] = r.control[w]
             /\ r.control[w].access # 0 => q.control[w].access = r.control[w].access
             /\ q.control[w].many = r.control[w].many
             /\ q.write[w] = r.write[w]
  <2>1. w \in R => ~CanWrite(r.control[w], x)
    BY <1>3
  <2>2. q.control[w] = r.control[w] \/ (q.control[w] = WriteMark(r.control[w], x) /\ w \in R)
    BY <1>1
  <2>3. CanWrite(r.control[w], x) \in BOOLEAN
    BY DEF CanWrite
  <2>4. QED
    BY <1>1, <1>2, <2>1, <2>2, <2>3 DEF WriteMark, Claim
<1>8. 0 \notin A
  OBVIOUS
<1>9. ASSUME NEW w \in Words, q.control[w].written
      PROVE  LET y == q.control[w].access IN
             /\ y \in A /\ ~q.control[w].many
             /\ w \in DOMAIN M[y].writes /\ q.write[w] = M[y].writes[w]
  <2>1. CASE w \in P
    BY <1>1, <1>5, <1>6, <2>1
  <2>2. CASE w \notin P
    <3> DEFINE y == r.control[w].access
    <3>1. r.control[w].written /\ q.control[w] = r.control[w] /\ q.write[w] = r.write[w]
      BY <1>7, <1>9, <2>2
    <3>2. /\ y \in A /\ ~r.control[w].many
          /\ w \in DOMAIN L[y].writes /\ r.write[w] = L[y].writes[w]
      BY <3>1 DEF Marks
    <3> HIDE DEF y
    <3>3. w \in DOMAIN M[y].writes /\ M[y].writes[w] = L[y].writes[w]
      BY <1>5, <2>2, <3>2
    <3>4. QED
      BY <3>1, <3>2, <3>3 DEF y
  <2>3. QED
    BY <2>1, <2>2
<1>10. ASSUME NEW w \in Words, ~q.control[w].written
       PROVE  q.write[w] = q.read[w]
  BY <1>1, <1>6, <1>7, <1>10 DEF Marks
<1>11. ASSUME NEW y \in A, NEW w \in DOMAIN M[y].writes
       PROVE  q.control[w].written /\ q.control[w].access = y
  <2>1. CASE w \in P
    <3>1. y = x
      <4> SUFFICES ASSUME y # x PROVE FALSE
        OBVIOUS
      <4>1. r.control[w].written /\ r.control[w].access = y
        BY <1>5 DEF Marks
      <4>2. QED
        BY <1>6, <2>1, <4>1
    <3>2. QED
      BY <1>6, <2>1, <3>1
  <2>2. CASE w \notin P
    <3>1. w \in DOMAIN L[y].writes
      BY <1>5, <2>2
    <3>2. w \in Words /\ r.control[w].written /\ r.control[w].access = y
      BY <3>1, LogDomains DEF Marks
    <3>3. QED
      BY <1>7, <2>2, <3>2
  <2>3. QED
    BY <2>1, <2>2
<1>12. ASSUME NEW y \in A, NEW w \in DOMAIN M[y].reads
       PROVE  q.control[w].access = y \/ (q.control[w].many /\ ~q.control[w].written)
  <2>1. w \in DOMAIN L[y].reads
    BY <1>5
  <2>2. w \in Words
    BY <2>1, LogDomains
  <2>3. r.control[w].access = y \/ (r.control[w].many /\ ~r.control[w].written)
    BY <2>1 DEF Marks
  <2>4. CASE w \in P
    BY <1>6, <1>8, <2>3, <2>4
  <2>5. CASE w \notin P
    BY <1>7, <1>8, <2>2, <2>3, <2>5
  <2>6. QED
    BY <2>4, <2>5
<1>13. Marks(q, M, A)
  BY <1>9, <1>10, <1>11, <1>12 DEF Marks
<1>14. QED
  BY <1>13 DEF q, M, g, P
(* Only the histories of active transactions count. *)
LEMMA MarksOnlyActive ==
  ASSUME NEW r, NEW L, NEW M, NEW A, \A x \in A : M[x] = L[x], Marks(r, L, A)
  PROVE  Marks(r, M, A)
BY DEF Marks

(* A transaction that has done nothing has no marks. *)
LEMMA MarksNewcomer ==
  ASSUME NEW r, NEW L, NEW A, NEW B, Marks(r, L, A), A \subseteq B,
         \A x \in B \ A : L[x] = EmptyLog
  PROVE  Marks(r, L, B)
<1>1. \A x \in B \ A : DOMAIN L[x].reads = {} /\ DOMAIN L[x].writes = {}
  BY EmptyLogType
<1>2. QED
  BY <1>1 DEF Marks

(* rollback_transaction takes back every word the transaction has written,  *)
(* because each of them is in a dirty segment, and no word of anybody else. *)
LEMMA RollbackMarks ==
  ASSUME NEW n \in Nat, NEW r \in Regions(n), NEW x \in 0 .. n,
         NEW L \in [Txs -> Logs], NEW A \in SUBSET Txs,
         Marks(r, L, A), MarksDirty(r)
  PROVE  Marks(Rollback(r, x), L, A \ {x}) /\ MarksDirty(Rollback(r, x))
<1> DEFINE q == Rollback(r, x)
           back == RolledBack(r, x)
<1>1. /\ q.read = r.read /\ Dirty(q) = Dirty(r)
      /\ \A w \in Words : q.control[w] =
           IF w \in back THEN HandBack(r.control[w]) ELSE r.control[w]
      /\ \A w \in Words : q.write[w] = IF w \in back THEN r.read[w] ELSE r.write[w]
  BY RollbackFacts
<1>2. \A w \in Words : r.control[w].written => r.control[w] # FreeWord
  BY DEF FreeWord
<1>3. \A w \in Words : w \in back <=> r.control[w].written /\ r.control[w].access = x
  BY <1>2 DEF RolledBack, IsUndoneBy, MarksDirty
<1> HIDE DEF q, back
<1>a. \A c : ~HandBack(c).written
  BY DEF HandBack
<1>4. \A w \in Words : w \in back => ~q.control[w].written
  BY <1>1, <1>a
<1>5. ASSUME NEW w \in Words, q.control[w].written
      PROVE  LET y == q.control[w].access IN
             /\ y \in A \ {x} /\ ~q.control[w].many
             /\ w \in DOMAIN L[y].writes /\ q.write[w] = L[y].writes[w]
  BY <1>1, <1>3, <1>4, <1>5 DEF Marks
<1>6. ASSUME NEW w \in Words, ~q.control[w].written
      PROVE  q.write[w] = q.read[w]
  BY <1>1, <1>6 DEF Marks
<1>7. ASSUME NEW y \in A \ {x}, NEW w \in DOMAIN L[y].writes
      PROVE  q.control[w].written /\ q.control[w].access = y
  <2>1. w \in Words /\ r.control[w].written /\ r.control[w].access = y
    BY LogDomains DEF Marks
  <2>2. QED
    BY <1>1, <1>3, <2>1
<1>8. ASSUME NEW y \in A \ {x}, NEW w \in DOMAIN L[y].reads
      PROVE  q.control[w].access = y \/ (q.control[w].many /\ ~q.control[w].written)
  <2>1. w \in Words
    BY LogDomains
  <2>2. r.control[w].access = y \/ (r.control[w].many /\ ~r.control[w].written)
    BY DEF Marks
  <2>3. QED
    BY <1>1, <1>3, <2>1, <2>2
<1>9. MarksDirty(q)
  <2> SUFFICES ASSUME NEW w \in Words, q.control[w] # FreeWord PROVE w[1] \in Dirty(q)
    BY DEF MarksDirty
  <2>1. w \in back => r.control[w] # FreeWord
    BY <1>2, <1>3
  <2>2. r.control[w] # FreeWord
    BY <1>1, <2>1
  <2>3. QED
    BY <1>1, <2>2 DEF MarksDirty
<1>10. QED
  BY <1>5, <1>6, <1>7, <1>8, <1>9 DEF Marks, q

(* epoch_cleanup leaves no mark and two equal copies. *)
LEMMA CleanupMarks ==
  ASSUME NEW n \in Nat, NEW r \in Regions(n), NEW L \in [Txs -> Logs],
         NEW A \in SUBSET Txs, Marks(r, L, A), MarksDirty(r),
         NEW M, NEW B, \A x \in B : M[x] = EmptyLog
  PROVE  Marks(EpochCleanup(r), M, B) /\ MarksDirty(EpochCleanup(r))
<1> DEFINE q == EpochCleanup(r)
<1>1. \A w \in Words : q.control[w] = FreeWord
  BY EpochCleanupFacts DEF MarksDirty
<1>2. ASSUME NEW w \in Words PROVE q.write[w] = q.read[w]
  <2>1. CASE w[1] \in Dirty(r)
    BY <2>1, EpochCleanupFacts
  <2>2. CASE w[1] \notin Dirty(r)
    <3>1. r.write[w] = r.read[w]
      BY <2>2 DEF MarksDirty, FreeWord, Marks
    <3>2. w[1] \notin Released(r)
      BY <2>2 DEF Released
    <3>3. QED
      BY <2>2, <3>1, <3>2, EpochCleanupFacts
  <2>3. QED
    BY <2>1, <2>2
<1>3. \A x \in B : DOMAIN M[x].reads = {} /\ DOMAIN M[x].writes = {}
  BY EmptyLogType
<1> HIDE DEF q
<1>4. \A w \in Words : ~q.control[w].written
  BY <1>1 DEF FreeWord
<1>5. Marks(q, M, B)
  BY <1>2, <1>3, <1>4 DEF Marks
<1>6. MarksDirty(q)
  BY <1>1 DEF MarksDirty
<1>7. QED
  BY <1>5, <1>6 DEF q

-----------------------------------------------------------------------------
(* The inductive invariant.  ConflictFree alone is not inductive: that a    *)
(* write is refused to whoever would conflict is known only through the    *)
(* marks, and that a rollback takes everything back only because every      *)
(* mark is in a dirty segment.                                              *)
MarksInv == Marks(region, log, Active) /\ MarksDirty(region)

IInv == TypeOK /\ IdInv /\ MarksInv

LEMMA ActiveTxs ==
  ASSUME TypeOK, IdInv
  PROVE  /\ Active \in SUBSET Txs
         /\ \A t \in batch : ~ro[t] => tx[t] \in Active
         /\ \A t \in batch : ro[t] => tx[t] \notin Active
<1>1. batch \subseteq Threads /\ done \subseteq Txs
  BY DEF TypeOK
<1>2. \A t \in batch : tx[t] \in Txs /\ tx[t] # 0
  BY <1>1 DEF TypeOK, IdInv
<1>3. Active \in SUBSET Txs
  BY <1>1, <1>2 DEF Active
<1>4. ASSUME NEW t \in batch, ro[t] PROVE tx[t] \notin Active
  <2>1. tx[t] \notin done
    BY <1>1 DEF IdInv
  <2>2. \A u \in batch : tx[u] = tx[t] => u = t
    BY <1>1, <1>2 DEF IdInv
  <2>3. QED
    BY <1>4, <2>1, <2>2 DEF Active
<1>5. QED
  BY <1>3, <1>4 DEF Active

LEMMA InitMarks == Init => MarksInv
<1> SUFFICES ASSUME Init PROVE MarksInv
  OBVIOUS
<1>1. Active = {}
  BY DEF Init, Gate!Init, Active
<1>2. \A w \in Words : /\ region.control[w] = FreeWord
                       /\ region.write[w] = region.read[w]
  BY DEF Init
<1>3. \A w \in Words : ~region.control[w].written
  BY <1>2 DEF FreeWord
<1>4. QED
  BY <1>1, <1>2, <1>3 DEF MarksInv, Marks, MarksDirty

(* Leaving with a region whose marks agree with who stays active. *)
LEMMA LeaveMarks ==
  ASSUME TypeOK, IdInv, NEW t \in Threads, NEW r \in Regions(trans_counter - 1),
         NEW D, D = done \/ D = done \cup {tx[t]}, Leave(t, r, D),
         NEW A \in SUBSET Txs, Marks(r, log, A), MarksDirty(r),
         A = D \cup {tx[u] : u \in {v \in batch \ {t} : ~ro[v]}}
  PROVE  MarksInv'
<1>1. trans_counter - 1 \in Nat /\ log \in [Txs -> Logs]
  BY DEF TypeOK
<1>2. CASE /\ Gate!LeaveEarly(t) /\ region' = r /\ done' = D
           /\ log' = [x \in Txs |-> IF x = tx[t] /\ x \notin D THEN EmptyLog ELSE log[x]]
  <2>1. \A u \in batch \ {t} : tx'[u] = tx[u] /\ ro'[u] = ro[u] /\ tx[u] # tx[t]
    BY DEF Leave, TypeOK, IdInv
  <2>2. batch' = batch \ {t}
    BY <1>2 DEF Gate!LeaveEarly
  <2>3. Active' = A
    BY <1>2, <2>1, <2>2 DEF Active
  <2>4. tx[t] \in A => tx[t] \in D
    BY <2>1
  <2>5. \A x \in A : log'[x] = log[x]
    BY <1>2, <2>4
  <2>6. Marks(r, log', A)
    BY <2>5, MarksOnlyActive
  <2>7. QED
    BY <1>2, <2>3, <2>6 DEF MarksInv
<1>3. CASE /\ Gate!LeaveLast(t) /\ region' = EpochCleanup(r) /\ done' = {}
           /\ log' = [x \in Txs |-> EmptyLog]
  <2>1. IdInv' /\ TypeOK'
    <3>1. D \in SUBSET (1 .. trans_counter - 1)
      BY DEF TypeOK, IdInv, Leave, Gate!LeaveEarly, Gate!LeaveLast
    <3>2. QED
      BY <3>1, LeaveId, LeaveType
  <2>2. Active' \subseteq Txs
    <3>1. batch' \subseteq Threads /\ done' \subseteq Txs
      BY <1>3 DEF TypeOK, Gate!LeaveLast
    <3>2. \A u \in batch' : tx'[u] \in Txs
      BY <2>1, <3>1 DEF TypeOK, IdInv
    <3>3. QED
      BY <3>1, <3>2 DEF Active
  <2>3. \A x \in Active' : log'[x] = EmptyLog
    BY <1>3, <2>2
  <2>4. Marks(EpochCleanup(r), log', Active') /\ MarksDirty(EpochCleanup(r))
    BY <1>1, <2>3, CleanupMarks
  <2>5. QED
    BY <1>3, <2>4 DEF MarksInv
<1>4. QED
  BY <1>2, <1>3 DEF Leave
(* Marks are about the words, not about the lists. *)
LEMMA MarksSameWords ==
  ASSUME NEW r, NEW q, NEW L, NEW A, Marks(r, L, A),
         q.control = r.control, q.read = r.read, q.write = r.write
  PROVE  Marks(q, L, A)
BY DEF Marks

(* Adding to a history words that the transaction is known to have read. *)
LEMMA MarksReadLog ==
  ASSUME NEW r, NEW A \in SUBSET Txs, NEW x \in A, NEW L \in [Txs -> Logs],
         Marks(r, L, A), NEW W \in SUBSET Words, NEW f \in [W -> Values],
         \A w \in W : \/ r.control[w].access = x
                      \/ r.control[w].many /\ ~r.control[w].written
  PROVE  Marks(r, [L EXCEPT ![x].reads = Overlay(@, f)], A)
<1> DEFINE o == Overlay(L[x].reads, f)
           M == [L EXCEPT ![x].reads = o]
<1>1. DOMAIN o = DOMAIN L[x].reads \cup W
  <2>1. f \in PartialMemories /\ DOMAIN f = W
    BY PartialType
  <2>2. L[x].reads \in PartialMemories
    BY LogDomains
  <2>3. QED
    BY <2>1, <2>2 DEF Overlay
<1> HIDE DEF o
<1>2. /\ \A y \in Txs \ {x} : M[y] = L[y]
      /\ M[x].reads = o /\ M[x].writes = L[x].writes
  BY LogDomains DEF Logs
<1>3. \A y \in Txs : M[y].writes = L[y].writes
  BY <1>2
<1>4. \A y \in Txs : DOMAIN M[y].reads =
        IF y = x THEN DOMAIN L[x].reads \cup W ELSE DOMAIN L[y].reads
  BY <1>1, <1>2
<1> HIDE DEF M
<1>5. ASSUME NEW w \in Words, r.control[w].written
      PROVE  LET y == r.control[w].access IN
             /\ y \in A /\ ~r.control[w].many
             /\ w \in DOMAIN M[y].writes /\ r.write[w] = M[y].writes[w]
  BY <1>3, <1>5 DEF Marks
<1>6. \A w \in Words : ~r.control[w].written => r.write[w] = r.read[w]
  BY DEF Marks
<1>7. ASSUME NEW y \in A, NEW w \in DOMAIN M[y].writes
      PROVE  r.control[w].written /\ r.control[w].access = y
  BY <1>3 DEF Marks
<1>8. ASSUME NEW y \in A, NEW w \in DOMAIN M[y].reads
      PROVE  r.control[w].access = y \/ (r.control[w].many /\ ~r.control[w].written)
  <2>1. w \in DOMAIN L[y].reads \/ (y = x /\ w \in W)
    BY <1>4
  <2>2. QED
    BY <2>1 DEF Marks
<1>9. Marks(r, M, A)
  BY <1>5, <1>6, <1>7, <1>8 DEF Marks
<1>10. QED
  BY <1>9 DEF M, o

(* Marks in a segment that is made dirty after its words were marked. *)
LEMMA MarkedIsDirty ==
  ASSUME NEW r, NEW q, NEW s, NEW W, MarksDirty(r), \A w \in W : w[1] = s,
         \A w \in Words \ W : q.control[w] = r.control[w],
         Dirty(r) \cup {s} \subseteq Dirty(q)
  PROVE  MarksDirty(q)
BY DEF MarksDirty

LEMMA ReadStep ==
  ASSUME TypeOK, IdInv, MarksInv, NEW t \in Threads, NEW s \in Segs,
         NEW W \in Spans(s), Read(t, s, W)
  PROVE  MarksInv'
<1> DEFINE n == trans_counter - 1
           x == tx[t]
           q == MarkReads(region, x, W)
           f == [w \in W |-> region.write[w]]
<1>1. /\ n \in Nat /\ x \in 0 .. n /\ x \in 1 .. n /\ x \in Active
      /\ region \in Regions(n) /\ log \in [Txs -> Logs] /\ Active \in SUBSET Txs
      /\ W \in SUBSET Words /\ \A w \in W : w[1] = s
  BY RunningTx, ActiveTxs, SpanType DEF Read, Running, TypeOK
<1>2. f \in [W -> Values]
  BY <1>1 DEF Regions
<1>3. /\ \A w \in W : CanRead(region.control[w], x)
      /\ s \in Listed(region)
      /\ region' = MoveToDirty(q, s)
      /\ log' = [log EXCEPT ![x].reads = Overlay(@, f)]
      /\ Active' = Active
  BY DEF Read, InTx, Active
<1>4. /\ q \in Regions(n) /\ q.seg = region.seg
      /\ \A w \in Words \ W : q.control[w] = region.control[w]
  BY <1>1, MarkReadsFacts DEF Reached
<1>5. /\ Marks(q, log, Active)
      /\ \A w \in W : \/ q.control[w].access = x
                      \/ q.control[w].many /\ ~q.control[w].written
  BY <1>1, <1>3, MarkReadsMarks DEF MarksInv
<1>6. Listed(q) = Listed(region) /\ Dirty(q) = Dirty(region)
  BY <1>4 DEF Listed, Dirty
<1> HIDE DEF q, f, n, x
<1>7. /\ region'.control = q.control /\ region'.read = q.read /\ region'.write = q.write
      /\ Dirty(region') = Dirty(region) \cup {s}
  BY <1>1, <1>3, <1>4, <1>6, MoveToDirtyFacts
<1>8. Marks(q, log', Active)
  BY <1>1, <1>2, <1>3, <1>5, MarksReadLog
<1>9. Marks(region', log', Active')
  BY <1>3, <1>7, <1>8, MarksSameWords
<1>10. MarksDirty(region')
  <2>1. \A w \in Words \ W : region'.control[w] = region.control[w]
    BY <1>4, <1>7
  <2>2. Dirty(region) \cup {s} \subseteq Dirty(region') /\ MarksDirty(region)
    BY <1>7 DEF MarksInv
  <2>3. QED
    BY <1>1, <2>1, <2>2, MarkedIsDirty
<1>11. QED
  BY <1>9, <1>10 DEF MarksInv

LEMMA WriteStep ==
  ASSUME TypeOK, IdInv, MarksInv, NEW t \in Threads, NEW s \in Segs,
         NEW W \in Spans(s), NEW data \in [W -> Values], Write(t, s, data)
  PROVE  MarksInv'
<1> DEFINE n == trans_counter - 1
           x == tx[t]
           q == MarkWrites(region, x, data)
<1>1. /\ n \in Nat /\ x \in 0 .. n /\ x \in 1 .. n /\ x \in Active
      /\ region \in Regions(n) /\ log \in [Txs -> Logs] /\ Active \in SUBSET Txs
      /\ W \in SUBSET Words /\ \A w \in W : w[1] = s
  BY RunningTx, ActiveTxs, SpanType DEF Write, Running, TypeOK
<1>2. /\ \A w \in W : CanWrite(region.control[w], x)
      /\ s \in Listed(region)
      /\ region' = MoveToDirty(q, s)
      /\ log' = [log EXCEPT ![x].writes = Overlay(@, data)]
      /\ Active' = Active
  BY DEF Write, InTx, Active
<1>3. Passed(region, x, W, CanWrite) = W /\ Reached(region, x, W, CanWrite) = W
  BY <1>2, WriteLoopSucceeds
<1>4. /\ q \in Regions(n) /\ q.seg = region.seg
      /\ \A w \in Words \ W : q.control[w] = region.control[w]
  BY <1>1, <1>3, MarkWritesFacts
<1>5. Marks(q, log', Active)
  <2> DEFINE P == Passed(region, x, W, CanWrite)
             g == [w \in P |-> data[w]]
  <2>1. Marks(q, [log EXCEPT ![x].writes = Overlay(@, g)], Active)
    BY <1>1, MarkWritesMarks DEF MarksInv
  <2>2. g = data
    BY <1>3
  <2> HIDE DEF g
  <2>3. QED
    BY <1>2, <2>1, <2>2
<1>6. Listed(q) = Listed(region) /\ Dirty(q) = Dirty(region)
  BY <1>4 DEF Listed, Dirty
<1> HIDE DEF q, n, x
<1>7. /\ region'.control = q.control /\ region'.read = q.read /\ region'.write = q.write
      /\ Dirty(region') = Dirty(region) \cup {s}
  BY <1>1, <1>2, <1>4, <1>6, MoveToDirtyFacts
<1>8. Marks(region', log', Active')
  BY <1>2, <1>5, <1>7, MarksSameWords
<1>9. MarksDirty(region')
  <2>1. \A w \in Words \ W : region'.control[w] = region.control[w]
    BY <1>4, <1>7
  <2>2. Dirty(region) \cup {s} \subseteq Dirty(region') /\ MarksDirty(region)
    BY <1>7 DEF MarksInv
  <2>3. QED
    BY <1>1, <2>1, <2>2, MarkedIsDirty
<1>10. QED
  BY <1>8, <1>9 DEF MarksInv

(* Who is left when the transaction of t goes without having committed.     *)
LEMMA OthersStay ==
  ASSUME TypeOK, IdInv, NEW t \in Threads, Running(t)
  PROVE  /\ Active \ {tx[t]} = done \cup {tx[u] : u \in {v \in batch \ {t} : ~ro[v]}}
         /\ tx[t] \notin done
         /\ \A u \in batch \ {t} : tx[u] # tx[t]
<1>1. tx[t] \notin done /\ tx[t] # 0
  BY RunningTx DEF IdInv, TypeOK
<1>2. \A u \in batch \ {t} : tx[u] # tx[t]
  BY <1>1 DEF IdInv, TypeOK
<1>3. QED
  BY <1>1, <1>2 DEF Active

(* A transaction aborts with a region r in which all its marks are known,  *)
(* those of the call that failed included (L says which).                   *)
LEMMA AbortStep ==
  ASSUME TypeOK, IdInv, NEW t \in Threads, Running(t),
         NEW r \in Regions(trans_counter - 1), NEW L \in [Txs -> Logs],
         \A y \in Txs \ {tx[t]} : L[y] = log[y],
         Marks(r, L, Active), MarksDirty(r), Abort(t, r)
  PROVE  MarksInv'
<1> DEFINE n == trans_counter - 1
           x == tx[t]
           q == Rollback(r, x)
           A == Active \ {x}
<1>1. n \in Nat /\ x \in 0 .. n /\ x \in Txs /\ Active \in SUBSET Txs
  BY RunningTx, ActiveTxs
<1>2. q \in Regions(n)
  BY <1>1, RollbackFacts
<1>3. Marks(q, L, A) /\ MarksDirty(q)
  BY <1>1, RollbackMarks
<1>4. Marks(q, log, A)
  BY <1>1, <1>3, MarksOnlyActive
<1>5. A = done \cup {tx[u] : u \in {v \in batch \ {t} : ~ro[v]}}
  BY OthersStay
<1>6. Leave(t, q, done)
  BY DEF Abort
<1> HIDE DEF q, A
<1>7. A \in SUBSET Txs
  BY <1>1 DEF A
<1>8. QED
  BY <1>2, <1>3, <1>4, <1>5, <1>6, <1>7, LeaveMarks

(* Every call that aborts does so with a region whose marks are known.  For *)
(* a tm_read or tm_write that fails, the word that refused has a mark, so   *)
(* its segment is dirty and the rollback gets to it.                        *)
LEMMA AbortRegion ==
  ASSUME TypeOK, IdInv, MarksInv, NEW t \in Threads, NEW s \in Segs, Failing(t, s)
  PROVE  \E r \in Regions(trans_counter - 1) : \E L \in [Txs -> Logs] :
           /\ Running(t) /\ Abort(t, r)
           /\ r.seg = region.seg /\ r.read = region.read
           /\ \A y \in Txs \ {tx[t]} : L[y] = log[y]
           /\ Marks(r, L, Active) /\ MarksDirty(r)
<1> DEFINE n == trans_counter - 1
           x == tx[t]
           Goal == \E r \in Regions(n) : \E L \in [Txs -> Logs] :
                     /\ Running(t) /\ Abort(t, r)
                     /\ r.seg = region.seg /\ r.read = region.read
                     /\ \A y \in Txs \ {x} : L[y] = log[y]
                     /\ Marks(r, L, Active) /\ MarksDirty(r)
<1>0. region \in Regions(n) /\ log \in [Txs -> Logs]
  BY DEF TypeOK
<1>1. ASSUME Running(t), ~ro[t]
      PROVE  /\ n \in Nat /\ x \in 0 .. n /\ x \in 1 .. n /\ x \in Active /\ x # 0
             /\ Active \in SUBSET Txs
             /\ \A W \in Spans(s) : W \in SUBSET Words /\ \A w \in W : w[1] = s
  BY <1>1, RunningTx, ActiveTxs, SpanType DEF Running
<1>2. ASSUME NEW W, \A w \in W : w[1] = s,
             NEW q, q.seg = region.seg, s \in Dirty(region),
             \A w \in Words \ W : q.control[w] = region.control[w]
      PROVE  MarksDirty(q)
  <2>1. Dirty(q) = Dirty(region)
    BY <1>2 DEF Dirty
  <2>2. Dirty(region) \cup {s} \subseteq Dirty(q)
    BY <1>2, <2>1
  <2>3. QED
    BY <1>2, <2>2, MarkedIsDirty DEF MarksInv
<1>3. ASSUME NEW W \in Spans(s), ReadConflict(t, s, W) PROVE Goal
  <2> DEFINE q == MarkReads(region, x, W)
  <2>1. /\ Running(t) /\ ~ro[t] /\ Abort(t, q)
        /\ \E w \in W : ~CanRead(region.control[w], x)
    BY <1>3 DEF ReadConflict
  <2>2. s \in Dirty(region)
    BY <1>1, <2>1 DEF CanRead, MarksInv, MarksDirty, FreeWord
  <2>3. /\ q \in Regions(n) /\ q.seg = region.seg /\ q.read = region.read
        /\ \A w \in Words \ W : q.control[w] = region.control[w]
    BY <1>0, <1>1, <2>1, MarkReadsFacts DEF Reached
  <2>4. Marks(q, log, Active)
    BY <1>0, <1>1, <2>1, MarkReadsMarks DEF MarksInv
  <2> HIDE DEF q
  <2>5. MarksDirty(q)
    BY <1>1, <1>2, <2>1, <2>2, <2>3
  <2>6. QED
    BY <1>0, <2>1, <2>3, <2>4, <2>5
<1>4. ASSUME NEW W \in Spans(s), NEW data \in [W -> Values], WriteConflict(t, s, data)
      PROVE  Goal
  <2> DEFINE q == MarkWrites(region, x, data)
             P == Passed(region, x, W, CanWrite)
             g == [w \in P |-> data[w]]
             L == [log EXCEPT ![x].writes = Overlay(@, g)]
  <2>1. /\ Running(t) /\ ~ro[t] /\ Abort(t, q)
        /\ \E w \in W : ~CanWrite(region.control[w], x)
    BY <1>4 DEF WriteConflict
  <2>2. s \in Dirty(region)
    BY <1>1, <2>1 DEF CanWrite, MarksInv, MarksDirty, FreeWord
  <2>3. /\ q \in Regions(n) /\ q.seg = region.seg /\ q.read = region.read
        /\ \A w \in Words \ W : q.control[w] = region.control[w]
    <3>1. Reached(region, x, W, CanWrite) \subseteq W
      BY DEF Reached
    <3> HIDE DEF x, n
    <3>2. QED
      BY <1>0, <1>1, <2>1, <3>1, MarkWritesFacts
  <2>4. Marks(q, L, Active)
    BY <1>0, <1>1, <2>1, MarkWritesMarks DEF MarksInv
  <2>5. P \in SUBSET Words /\ g \in [P -> Values]
    BY <1>1, <2>1 DEF Passed
  <2>6. L \in [Txs -> Logs] /\ \A y \in Txs \ {x} : L[y] = log[y]
    <3> HIDE DEF P, g
    <3>1. L \in [Txs -> Logs]
      BY <1>0, <1>1, <2>1, <2>5, LogWrites
    <3>2. \A y \in Txs \ {x} : L[y] = log[y]
      BY <1>0, <1>1, <2>1
    <3>3. QED
      BY <3>1, <3>2
  <2> HIDE DEF q, L
  <2>7. MarksDirty(q)
    BY <1>1, <1>2, <2>1, <2>2, <2>3
  <2>8. QED
    BY <2>1, <2>3, <2>4, <2>6, <2>7
<1>5. CASE AccessForeign(t, s)
  BY <1>0, <1>5 DEF AccessForeign, MarksInv
<1>6. QED
  BY <1>3, <1>4, <1>5 DEF Failing

LEMMA FailingStep ==
  ASSUME TypeOK, IdInv, MarksInv, NEW t \in Threads, NEW s \in Segs, Failing(t, s)
  PROVE  MarksInv'
<1>1. PICK r \in Regions(trans_counter - 1), L \in [Txs -> Logs] :
           /\ Running(t) /\ Abort(t, r)
           /\ \A y \in Txs \ {tx[t]} : L[y] = log[y]
           /\ Marks(r, L, Active) /\ MarksDirty(r)
  BY AbortRegion
<1>2. QED
  BY <1>1, AbortStep

(* Marks are about reads and writes, not about segments.                    *)
LEMMA MarksSameAccess ==
  ASSUME NEW r, NEW q, NEW L, NEW M, NEW A, Marks(r, L, A),
         q.control = r.control, q.read = r.read, q.write = r.write,
         \A x \in A : M[x].reads = L[x].reads /\ M[x].writes = L[x].writes
  PROVE  Marks(q, M, A)
<1>1. \A w \in Words : q.control[w].written =>
        LET x == q.control[w].access IN
        /\ x \in A /\ ~q.control[w].many
        /\ w \in DOMAIN M[x].writes /\ q.write[w] = M[x].writes[w]
  BY DEF Marks
<1>2. \A w \in Words : ~q.control[w].written => q.write[w] = q.read[w]
  BY DEF Marks
<1>3. \A x \in A : \A w \in DOMAIN M[x].writes :
        q.control[w].written /\ q.control[w].access = x
  BY DEF Marks
<1>4. \A x \in A : \A w \in DOMAIN M[x].reads :
        q.control[w].access = x \/ (q.control[w].many /\ ~q.control[w].written)
  BY DEF Marks
<1>5. QED
  BY <1>1, <1>2, <1>3, <1>4 DEF Marks

LEMMA BeginStep ==
  ASSUME TypeOK, IdInv, MarksInv, NEW t \in Threads, NEW is_ro \in BOOLEAN,
         Begin(t, is_ro)
  PROVE  MarksInv'
<1>1. /\ region' = region /\ log' = log /\ done' = done
      /\ t \notin batch \cup queue
      /\ batch' \in {batch, batch \cup {t}}
      /\ tx' = [tx EXCEPT ![t] = trans_counter]
      /\ ro' = [ro EXCEPT ![t] = is_ro]
      /\ trans_counter \in Txs
  BY DEF Begin, Gate!Enter, TypeOK
<1>2. \A u \in batch : u # t /\ tx'[u] = tx[u] /\ ro'[u] = ro[u]
  BY <1>1 DEF TypeOK
<1>3. tx'[t] = trans_counter
  BY <1>1 DEF TypeOK
<1>4. Active \subseteq Active' /\ \A x \in Active' \ Active : x = trans_counter
  BY <1>1, <1>2, <1>3 DEF Active
<1>5. log[trans_counter] = EmptyLog
  <2>1. trans_counter \notin done /\ \A u \in batch : tx[u] # trans_counter
    BY DEF TypeOK
  <2>2. QED
    BY <1>1, <2>1 DEF IdInv
<1>6. \A x \in Active' \ Active : log[x] = EmptyLog
  BY <1>4, <1>5
<1>7. Marks(region, log, Active')
  BY <1>4, <1>6, MarksNewcomer DEF MarksInv
<1>8. QED
  BY <1>1, <1>7 DEF MarksInv

LEMMA ReadOnlyStep ==
  ASSUME TypeOK, IdInv, MarksInv, NEW t \in Threads, NEW s \in Segs,
         NEW W \in Spans(s), ReadOnly(t, s, W)
  PROVE  MarksInv'
<1>1. tx[t] \notin Active
  BY ActiveTxs DEF ReadOnly, Running
<1>2. Active' = Active /\ region' = region
  BY DEF ReadOnly, InTx, Active
<1>3. \A x \in Active : log'[x] = log[x]
  BY <1>1, ActiveTxs DEF ReadOnly, TypeOK
<1>4. Marks(region, log', Active)
  BY <1>3, MarksOnlyActive DEF MarksInv
<1>5. QED
  BY <1>2, <1>4 DEF MarksInv

LEMMA AllocFreeStep ==
  ASSUME TypeOK, IdInv, MarksInv, NEW t \in Threads, NEW s \in Segs,
         Alloc(t, s) \/ Free(t, s)
  PROVE  MarksInv'
<1> DEFINE n == trans_counter - 1
<1>1. n \in Nat /\ tx[t] \in 0 .. n /\ region \in Regions(n)
  BY RunningTx DEF Alloc, Free, TypeOK
<1>2. /\ region'.control = region.control
      /\ region'.read = region.read /\ region'.write = region.write
      /\ Dirty(region') = Dirty(region) \cup {s}
  BY <1>1, AllocFacts, FreeFacts DEF Alloc, Free
<1>3. Active' = Active
  BY DEF Alloc, Free, InTx, Active
<1>4. \A x \in Active : log'[x].reads = log[x].reads /\ log'[x].writes = log[x].writes
  <2>1. ASSUME NEW x \in Active PROVE x \in Txs /\ log[x] \in Logs
    BY ActiveTxs DEF TypeOK
  <2>2. CASE Alloc(t, s)
    BY <2>1, <2>2 DEF Alloc, TypeOK, Logs
  <2>3. CASE Free(t, s)
    BY <2>1, <2>3 DEF Free, TypeOK, Logs
  <2>4. QED
    BY <2>2, <2>3
<1>5. Marks(region', log', Active)
  BY <1>2, <1>4, MarksSameAccess DEF MarksInv
<1>6. MarksDirty(region')
  BY <1>2 DEF MarksInv, MarksDirty
<1>7. QED
  BY <1>3, <1>5, <1>6 DEF MarksInv

(* tm_end: a read-write transaction stays active until the epoch ends.     *)
LEMMA EndStep ==
  ASSUME TypeOK, IdInv, MarksInv, NEW t \in Threads, End(t)
  PROVE  MarksInv'
<1> DEFINE D == IF ro[t] THEN done ELSE done \cup {tx[t]}
<1>1. t \in batch /\ Leave(t, region, D)
  BY DEF End, Running
<1>2. region \in Regions(trans_counter - 1) /\ Active \in SUBSET Txs
  BY ActiveTxs DEF TypeOK
<1>3. Active = D \cup {tx[u] : u \in {v \in batch \ {t} : ~ro[v]}}
  <2>1. CASE ro[t]
    BY <2>1 DEF Active
  <2>2. CASE ~ro[t]
    BY <1>1, <2>2 DEF Active
  <2>3. QED
    BY <2>1, <2>2
<1>4. D = done \/ D = done \cup {tx[t]}
  OBVIOUS
<1> HIDE DEF D
<1>5. QED
  BY <1>1, <1>2, <1>3, <1>4, LeaveMarks DEF MarksInv

LEMMA MarksStep == TypeOK /\ IdInv /\ MarksInv /\ [Next]_vars => MarksInv'
<1> SUFFICES ASSUME TypeOK, IdInv, MarksInv, [Next]_vars PROVE MarksInv'
  OBVIOUS
<1>1. ASSUME NEW t \in Threads, NEW is_ro \in BOOLEAN, Begin(t, is_ro) PROVE MarksInv'
  BY <1>1, BeginStep
<1>2. ASSUME NEW t \in Threads, NEW s \in Segs, NEW W \in Spans(s),
             ReadOnly(t, s, W) \/ Read(t, s, W)
      PROVE  MarksInv'
  BY <1>2, ReadOnlyStep, ReadStep
<1>3. ASSUME NEW t \in Threads, NEW s \in Segs, NEW W \in Spans(s),
             NEW data \in [W -> Values], Write(t, s, data)
      PROVE  MarksInv'
  BY <1>3, WriteStep
<1>4. ASSUME NEW t \in Threads, NEW s \in Segs, Alloc(t, s) \/ Free(t, s)
      PROVE  MarksInv'
  BY <1>4, AllocFreeStep
<1>5. ASSUME NEW t \in Threads, NEW s \in Segs, Failing(t, s) PROVE MarksInv'
  BY <1>5, FailingStep
<1>6. ASSUME NEW t \in Threads, End(t) PROVE MarksInv'
  BY <1>6, EndStep
<1>7. CASE UNCHANGED vars
  BY <1>7 DEF vars, MarksInv, Active
<1>8. QED
  BY <1>1, <1>2, <1>3, <1>4, <1>5, <1>6, <1>7 DEF Next, Step, Failing

-----------------------------------------------------------------------------
(* The inductive invariant holds in every behaviour. *)
THEOREM Inductive == Spec => []IInv
<1>1. Init => IInv
  BY InitType, InitId, InitMarks DEF IInv
<1>2. IInv /\ [Next]_vars => IInv'
  BY TypeStep, IdStep, MarksStep DEF IInv
<1>3. QED
  BY <1>1, <1>2, PTL DEF Spec

(* TypeOK, for every bound on the number of transactions.                   *)
THEOREM TypeCorrect == Spec => []TypeOK
<1>1. IInv => TypeOK
  BY DEF IInv
<1>2. QED
  BY Inductive, <1>1, PTL

(* ConflictFree: whatever the threads, the segments and the values, two    *)
(* transactions of an epoch that run on or commit do not conflict, however *)
(* many others abort beside them.                                           *)
THEOREM NoConflicts == Spec => []ConflictFree
<1>1. IInv => ConflictFree
  BY DEF IInv, MarksInv, Marks, ConflictFree
<1>2. QED
  BY Inductive, <1>1, PTL

(* MarksAreDirty: no control word outlives the epoch it was marked in.     *)
THEOREM MarksAreFound == Spec => []MarksAreDirty
<1>1. IInv => MarksAreDirty
  BY DEF IInv, MarksInv, MarksDirty, MarksAreDirty
<1>2. QED
  BY Inductive, <1>1, PTL

-----------------------------------------------------------------------------
(* What the flags of the segments tell of the histories, and the refinement *)
(* of SnapshotTM.tla.                                                       *)

(* The transactions of the epoch whose history counts, read-only ones      *)
(* included.                                                               *)
Members == done \cup {tx[t] : t \in batch}

PublishedIn(r) == {s \in Segs : r.seg[s].list # "none" /\ ~r.seg[s].newly_alloc}

(* The segments of region r tell what the transactions B have allocated     *)
(* and freed according to their histories L.  The flags of a segment that  *)
(* was not rolled back are the work of its owner, who is one of B; a new   *)
(* segment that was rolled back belongs to nobody; and what is not yet      *)
(* published reads as 0.                                                    *)
SegmentsTell(r, L, B) ==
  /\ \A s \in Segs \ Dirty(r) : r.seg[s] \in {NoSegment, CleanSegment}
  /\ \A s \in Segs : r.seg[s].newly_alloc /\ ~r.seg[s].rollback =>
       r.seg[s].owner \in B /\ s \in L[r.seg[s].owner].allocs
  /\ \A s \in Segs : r.seg[s].newly_alloc /\ r.seg[s].rollback => r.seg[s].owner \notin B
  /\ \A s \in Segs : r.seg[s].should_free /\ ~r.seg[s].rollback =>
       r.seg[s].owner \in B /\ s \in L[r.seg[s].owner].frees
  /\ \A x \in B : \A s \in L[x].allocs :
       /\ s \in Dirty(r) /\ r.seg[s].newly_alloc
       /\ r.seg[s].owner = x /\ ~r.seg[s].rollback
  /\ \A w \in Words : w[1] \notin PublishedIn(r) => r.read[w] = 0

(* A read-only transaction has written, allocated and freed nothing.        *)
ReadOnlyLogs ==
  \A t \in batch : ro[t] =>
    /\ DOMAIN log[tx[t]].writes = {}
    /\ log[tx[t]].allocs = {} /\ log[tx[t]].frees = {}

SegInv == SegmentsTell(region, log, Members) /\ ReadOnlyLogs

LEMMA MembersTxs ==
  ASSUME TypeOK, IdInv
  PROVE  Members \in SUBSET Txs /\ \A u \in batch : u \in Threads /\ tx[u] \in Txs
<1>1. done \subseteq Txs /\ batch \subseteq Threads
  BY DEF TypeOK
<1>2. \A u \in batch : tx[u] \in Txs
  BY <1>1 DEF TypeOK, IdInv
<1>3. QED
  BY <1>1, <1>2 DEF Members

-----------------------------------------------------------------------------
(* What the operators make of the segments. *)

(* Nothing but the list of a segment has changed, and from clean to dirty. *)
SameSegments(r, q) ==
  /\ q.read = r.read
  /\ \A s \in Segs :
       /\ q.seg[s].newly_alloc = r.seg[s].newly_alloc
       /\ q.seg[s].should_free = r.seg[s].should_free
       /\ q.seg[s].rollback = r.seg[s].rollback
       /\ q.seg[s].owner = r.seg[s].owner
       /\ q.seg[s].list = "none" <=> r.seg[s].list = "none"
       /\ s \in Dirty(q) \/ q.seg[s] = r.seg[s]
       /\ s \in Dirty(r) => s \in Dirty(q)

LEMMA MoveToDirtySame ==
  ASSUME NEW n \in Nat, NEW r \in Regions(n), NEW s \in Segs
  PROVE  SameSegments(r, MoveToDirty(r, s))
<1> DEFINE q == MoveToDirty(r, s)
<1>1. r.seg \in [Segs -> SegmentType(n)]
  BY DEF Regions, SegmentType
<1>2. CASE r.seg[s].list = "clean"
  <2> DEFINE f == [r.seg EXCEPT ![s].list = "dirty"]
  <2>1. q = [r EXCEPT !.seg = f]
    BY <1>2 DEF MoveToDirty, Regions
  <2>2. q.seg = f /\ q.read = r.read
    BY <2>1 DEF Regions
  <2>3. \A u \in Segs \ {s} : f[u] = r.seg[u]
    BY <1>1
  <2>4. /\ f[s].list = "dirty" /\ f[s].owner = r.seg[s].owner
        /\ f[s].newly_alloc = r.seg[s].newly_alloc
        /\ f[s].should_free = r.seg[s].should_free
        /\ f[s].rollback = r.seg[s].rollback
    BY <1>1 DEF SegmentType
  <2> HIDE DEF f, q
  <2>5. QED
    BY <1>2, <2>2, <2>3, <2>4 DEF SameSegments, Dirty, q
<1>3. CASE r.seg[s].list # "clean"
  BY <1>3 DEF MoveToDirty, SameSegments
<1>4. QED
  BY <1>2, <1>3

LEMMA SameSegmentsTell ==
  ASSUME NEW r, NEW q, SameSegments(r, q), NEW L, NEW M, NEW B, SegmentsTell(r, L, B),
         \A x \in B : M[x].allocs = L[x].allocs /\ M[x].frees = L[x].frees
  PROVE  SegmentsTell(q, M, B) /\ PublishedIn(q) = PublishedIn(r)
<1>1. PublishedIn(q) = PublishedIn(r)
  BY DEF SameSegments, PublishedIn
<1>2. \A s \in Segs \ Dirty(q) : q.seg[s] \in {NoSegment, CleanSegment}
  BY DEF SameSegments, SegmentsTell
<1>3. ASSUME NEW s \in Segs
      PROVE  /\ q.seg[s].newly_alloc /\ ~q.seg[s].rollback =>
                  q.seg[s].owner \in B /\ s \in M[q.seg[s].owner].allocs
             /\ q.seg[s].newly_alloc /\ q.seg[s].rollback => q.seg[s].owner \notin B
             /\ q.seg[s].should_free /\ ~q.seg[s].rollback =>
                  q.seg[s].owner \in B /\ s \in M[q.seg[s].owner].frees
  BY DEF SameSegments, SegmentsTell
<1>4. ASSUME NEW x \in B, NEW s \in M[x].allocs
      PROVE  /\ s \in Dirty(q) /\ q.seg[s].newly_alloc
             /\ q.seg[s].owner = x /\ ~q.seg[s].rollback
  <2>1. /\ s \in Dirty(r) /\ r.seg[s].newly_alloc
        /\ r.seg[s].owner = x /\ ~r.seg[s].rollback
    BY DEF SegmentsTell
  <2>2. s \in Segs
    BY <2>1 DEF Dirty
  <2>3. QED
    BY <2>1, <2>2 DEF SameSegments
<1>5. \A w \in Words : w[1] \notin PublishedIn(q) => q.read[w] = 0
  BY <1>1 DEF SameSegments, SegmentsTell
<1>6. QED
  BY <1>1, <1>2, <1>3, <1>4, <1>5 DEF SegmentsTell

(* rollback_transaction disowns what x has allocated and freed.             *)
LEMMA RollbackTell ==
  ASSUME NEW n \in Nat, NEW r \in Regions(n), NEW x \in 0 .. n,
         NEW L, NEW B, SegmentsTell(r, L, B)
  PROVE  LET q == Rollback(r, x) IN
         /\ SegmentsTell(q, L, B \ {x})
         /\ PublishedIn(q) = PublishedIn(r)
         /\ \A s \in Segs : q.seg[s].newly_alloc = r.seg[s].newly_alloc
<1> DEFINE q == Rollback(r, x)
           seg == [s \in Segs |->
             IF s \in Dirty(r) /\ r.seg[s].owner = x
             THEN [r.seg[s] EXCEPT !.rollback = TRUE] ELSE r.seg[s]]
<1>1. q \in Regions(n) /\ q.read = r.read /\ Dirty(q) = Dirty(r)
  BY RollbackFacts
<1>2. q.seg = seg
  BY DEF Rollback, Regions
<1>3. r.seg \in [Segs -> SegmentType(n)]
  BY DEF Regions, SegmentType
<1>4. \A s \in Segs :
        /\ q.seg[s].newly_alloc = r.seg[s].newly_alloc
        /\ q.seg[s].should_free = r.seg[s].should_free
        /\ q.seg[s].owner = r.seg[s].owner
        /\ q.seg[s].list = r.seg[s].list
        /\ q.seg[s].rollback =
             IF s \in Dirty(r) /\ r.seg[s].owner = x THEN TRUE ELSE r.seg[s].rollback
        /\ s \notin Dirty(r) => q.seg[s] = r.seg[s]
  BY <1>2, <1>3 DEF SegmentType
<1> HIDE DEF q, seg
<1>5. PublishedIn(q) = PublishedIn(r)
  BY <1>4 DEF PublishedIn
<1>6. \A s \in Segs \ Dirty(q) : q.seg[s] \in {NoSegment, CleanSegment}
  BY <1>1, <1>4 DEF SegmentsTell
<1>7. \A s \in Segs \ Dirty(r) : ~r.seg[s].newly_alloc /\ ~r.seg[s].should_free
  BY DEF SegmentsTell, NoSegment, CleanSegment
<1>8. ASSUME NEW s \in Segs
      PROVE  /\ q.seg[s].newly_alloc /\ ~q.seg[s].rollback =>
                  q.seg[s].owner \in B \ {x} /\ s \in L[q.seg[s].owner].allocs
             /\ q.seg[s].newly_alloc /\ q.seg[s].rollback => q.seg[s].owner \notin B \ {x}
             /\ q.seg[s].should_free /\ ~q.seg[s].rollback =>
                  q.seg[s].owner \in B \ {x} /\ s \in L[q.seg[s].owner].frees
  <2>1. CASE s \in Dirty(r) /\ r.seg[s].owner = x
    <3>1. q.seg[s].rollback /\ q.seg[s].owner = x
      BY <1>4, <2>1
    <3>2. QED
      BY <3>1
  <2>2. CASE s \in Dirty(r) /\ r.seg[s].owner # x
    <3>1. /\ q.seg[s].rollback = r.seg[s].rollback /\ q.seg[s].owner = r.seg[s].owner
          /\ q.seg[s].newly_alloc = r.seg[s].newly_alloc
          /\ q.seg[s].should_free = r.seg[s].should_free
      BY <1>4, <2>2
    <3>2. QED
      BY <2>2, <3>1 DEF SegmentsTell
  <2>3. CASE s \notin Dirty(r)
    BY <1>4, <1>7, <2>3
  <2>4. QED
    BY <2>1, <2>2, <2>3
<1>9. ASSUME NEW y \in B \ {x}, NEW s \in L[y].allocs
      PROVE  /\ s \in Dirty(q) /\ q.seg[s].newly_alloc
             /\ q.seg[s].owner = y /\ ~q.seg[s].rollback
  <2>1. /\ s \in Dirty(r) /\ r.seg[s].newly_alloc
        /\ r.seg[s].owner = y /\ ~r.seg[s].rollback
    BY DEF SegmentsTell
  <2>2. s \in Segs
    BY <2>1 DEF Dirty
  <2>3. QED
    BY <1>1, <1>4, <2>1, <2>2
<1>10. \A w \in Words : w[1] \notin PublishedIn(q) => q.read[w] = 0
  BY <1>1, <1>5 DEF SegmentsTell
<1>11. SegmentsTell(q, L, B \ {x})
  BY <1>6, <1>8, <1>9, <1>10 DEF SegmentsTell
<1>12. QED
  BY <1>4, <1>5, <1>11 DEF q

(* A transaction that has neither allocated nor freed is not missed.        *)
LEMMA TellWithout ==
  ASSUME NEW r, NEW L, NEW B, NEW x, SegmentsTell(r, L, B),
         L[x].allocs = {} /\ L[x].frees = {}
  PROVE  SegmentsTell(r, L, B \ {x})
BY DEF SegmentsTell

(* Nor is a new one that has done nothing yet. *)
LEMMA TellNewcomer ==
  ASSUME NEW n \in Nat, NEW r \in Regions(n), NEW L, NEW B, NEW C,
         SegmentsTell(r, L, B), B \subseteq C,
         \A x \in C \ B : L[x] = EmptyLog /\ x \notin 0 .. n
  PROVE  SegmentsTell(r, L, C)
<1>1. \A s \in Segs : r.seg[s].owner \in 0 .. n
  BY DEF Regions
<1>2. \A x \in C \ B : L[x].allocs = {}
  BY EmptyLogType
<1>3. QED
  BY <1>1, <1>2 DEF SegmentsTell

(* Only the histories of B count. *)
LEMMA TellOnly ==
  ASSUME NEW r, NEW L, NEW M, NEW B, SegmentsTell(r, L, B), \A x \in B : M[x] = L[x]
  PROVE  SegmentsTell(r, M, B)
BY DEF SegmentsTell

(* What epoch_cleanup publishes. *)
LEMMA CleanupPublishes ==
  ASSUME NEW n \in Nat, NEW r \in Regions(n), NEW L, NEW B, SegmentsTell(r, L, B)
  PROVE  LET q == EpochCleanup(r) IN
         /\ \A s \in Segs : q.seg[s] \in {NoSegment, CleanSegment}
         /\ \A s \in Segs : ~q.seg[s].newly_alloc /\ ~q.seg[s].should_free
         /\ PublishedIn(q) = Listed(r) \ Released(r)
<1> DEFINE q == EpochCleanup(r)
<1>1. \A s \in Segs : q.seg[s] = IF s \in Released(r) THEN NoSegment
                                 ELSE IF s \in Dirty(r) THEN CleanSegment ELSE r.seg[s]
  BY DEF EpochCleanup
<1>2. \A s \in Segs : q.seg[s] \in {NoSegment, CleanSegment}
  BY <1>1 DEF SegmentsTell
<1>3. \A s \in Segs : ~q.seg[s].newly_alloc /\ ~q.seg[s].should_free
  BY <1>2 DEF NoSegment, CleanSegment
<1>4. Listed(q) = Listed(r) \ Released(r)
  BY EpochCleanupFacts
<1>5. PublishedIn(q) = Listed(q)
  BY <1>3 DEF PublishedIn, Listed
<1>6. QED
  BY <1>2, <1>3, <1>4, <1>5

(* Every segment starts over.                                               *)
LEMMA CleanupTell ==
  ASSUME NEW n \in Nat, NEW r \in Regions(n), NEW L, NEW B, SegmentsTell(r, L, B),
         NEW M, NEW C, \A x \in C : M[x] = EmptyLog
  PROVE  SegmentsTell(EpochCleanup(r), M, C)
<1> DEFINE q == EpochCleanup(r)
<1>1. /\ \A s \in Segs : q.seg[s] \in {NoSegment, CleanSegment}
      /\ \A s \in Segs : ~q.seg[s].newly_alloc /\ ~q.seg[s].should_free
      /\ PublishedIn(q) = Listed(r) \ Released(r)
  BY CleanupPublishes
<1>6. \A x \in C : M[x].allocs = {}
  BY EmptyLogType
<1>7. ASSUME NEW w \in Words, w[1] \notin PublishedIn(q) PROVE q.read[w] = 0
  <2>1. q.read[w] = IF w[1] \in Released(r) THEN 0
                    ELSE IF w[1] \in Dirty(r) THEN r.write[w] ELSE r.read[w]
    BY EpochCleanupFacts
  <2>2. w[1] \notin Released(r) => w[1] \notin Listed(r)
    BY <1>1, <1>7
  <2>3. w[1] \notin Listed(r) => w[1] \notin Dirty(r) /\ w[1] \notin PublishedIn(r)
    BY DEF Listed, Dirty, PublishedIn
  <2>4. QED
    BY <2>1, <2>2, <2>3 DEF SegmentsTell
<1> HIDE DEF q
<1>8. SegmentsTell(q, M, C)
  BY <1>1, <1>6, <1>7 DEF SegmentsTell
<1>9. QED
  BY <1>8 DEF q

-----------------------------------------------------------------------------
(* Ways to leave. *)

(* What they have in common: r is the region the transaction leaves behind, *)
(* D the transactions that have committed in this epoch.  Whatever it has   *)
(* done to the words and the segments is in r as the histories of those who *)
(* stay, and of D, tell.                                                    *)
Departs(t, r, D) ==
  /\ Leave(t, r, D)
  /\ D = done \/ (D = done \cup {tx[t]} /\ ~ro[t])
  /\ r.read = region.read /\ Listed(r) = Listed(region)
  /\ \A s \in Segs : r.seg[s].newly_alloc = region.seg[s].newly_alloc
  /\ Marks(r, log, D \cup {tx[u] : u \in {v \in batch \ {t} : ~ro[v]}})
  /\ MarksDirty(r)
  /\ SegmentsTell(r, log, D \cup {tx[u] : u \in batch \ {t}})

LEMMA FailingDeparts ==
  ASSUME TypeOK, IdInv, MarksInv, SegInv, NEW t \in Threads, NEW s \in Segs, Failing(t, s)
  PROVE  Running(t) /\ \E r \in Regions(trans_counter - 1) : Departs(t, r, done)
<1> DEFINE n == trans_counter - 1
           x == tx[t]
<1>1. PICK r \in Regions(n), L \in [Txs -> Logs] :
           /\ Running(t) /\ Abort(t, r)
           /\ r.seg = region.seg /\ r.read = region.read
           /\ \A y \in Txs \ {x} : L[y] = log[y]
           /\ Marks(r, L, Active) /\ MarksDirty(r)
  BY AbortRegion
<1>2. n \in Nat /\ x \in 0 .. n /\ x \in Txs /\ Active \in SUBSET Txs
  BY <1>1, RunningTx, ActiveTxs
<1> DEFINE q == Rollback(r, x)
<1>3. q \in Regions(n) /\ q.read = region.read /\ Listed(q) = Listed(r)
  BY <1>1, <1>2, RollbackFacts
<1>4. Listed(q) = Listed(region)
  BY <1>1, <1>3 DEF Listed
<1>5. Marks(q, log, Active \ {x}) /\ MarksDirty(q)
  <2>1. Marks(q, L, Active \ {x}) /\ MarksDirty(q)
    BY <1>1, <1>2, RollbackMarks
  <2> HIDE DEF q
  <2>2. QED
    BY <1>1, <1>2, <2>1, MarksOnlyActive
<1>6. SegmentsTell(r, log, Members)
  BY <1>1 DEF SegInv, SegmentsTell, Dirty, PublishedIn
<1>7. /\ SegmentsTell(q, log, Members \ {x})
      /\ \A u \in Segs : q.seg[u].newly_alloc = region.seg[u].newly_alloc
  <2>1. /\ SegmentsTell(q, log, Members \ {x})
        /\ \A u \in Segs : q.seg[u].newly_alloc = r.seg[u].newly_alloc
    BY <1>2, <1>6, RollbackTell
  <2> HIDE DEF q
  <2>2. QED
    BY <1>1, <2>1
<1>8. Leave(t, q, done)
  BY <1>1 DEF Abort
<1> HIDE DEF q
<1>9. /\ Active \ {x} = done \cup {tx[u] : u \in {v \in batch \ {t} : ~ro[v]}}
      /\ Members \ {x} = done \cup {tx[u] : u \in batch \ {t}}
  BY <1>1, OthersStay DEF Members
<1>10. Departs(t, q, done)
  BY <1>3, <1>4, <1>5, <1>7, <1>8, <1>9 DEF Departs
<1>11. QED
  BY <1>1, <1>3, <1>10

LEMMA EndDeparts ==
  ASSUME TypeOK, IdInv, MarksInv, SegInv, NEW t \in Threads, End(t)
  PROVE  /\ Running(t) /\ region \in Regions(trans_counter - 1)
         /\ Departs(t, region, IF ro[t] THEN done ELSE done \cup {tx[t]})
<1>1. Running(t) /\ Leave(t, region, IF ro[t] THEN done ELSE done \cup {tx[t]})
  BY DEF End
<1>2. region \in Regions(trans_counter - 1) /\ t \in batch
  BY <1>1 DEF TypeOK, Running
<1>3. CASE ro[t]
  <2>1. Members \ {tx[t]} = done \cup {tx[u] : u \in batch \ {t}}
    BY <1>1, OthersStay DEF Members
  <2>2. SegmentsTell(region, log, Members \ {tx[t]})
    BY <1>2, <1>3, TellWithout DEF SegInv, ReadOnlyLogs
  <2>3. Active = done \cup {tx[u] : u \in {v \in batch \ {t} : ~ro[v]}}
    BY <1>3 DEF Active
  <2>4. QED
    BY <1>1, <1>2, <1>3, <2>1, <2>2, <2>3 DEF Departs, MarksInv
<1>4. CASE ~ro[t]
  <2> DEFINE D == done \cup {tx[t]}
  <2>1. Members = D \cup {tx[u] : u \in batch \ {t}}
    BY <1>2 DEF Members
  <2>2. Active = D \cup {tx[u] : u \in {v \in batch \ {t} : ~ro[v]}}
    BY <1>2, <1>4 DEF Active
  <2> HIDE DEF D
  <2>3. Leave(t, region, D) /\ D = done \cup {tx[t]}
    BY <1>1, <1>4 DEF D
  <2>4. Departs(t, region, D)
    BY <1>4, <2>1, <2>2, <2>3 DEF Departs, MarksInv, SegInv
  <2>5. QED
    BY <1>1, <1>2, <1>4, <2>3, <2>4
<1>5. QED
  BY <1>3, <1>4

-----------------------------------------------------------------------------
(* Every call keeps what the segments tell. *)

LEMMA InitTell == Init => SegInv
<1> SUFFICES ASSUME Init PROVE SegInv
  OBVIOUS
<1>1. Members = {} /\ batch = {}
  BY DEF Init, Gate!Init, Members
<1>2. /\ \A s \in Segs : region.seg[s] \in {NoSegment, CleanSegment}
      /\ \A w \in Words : region.read[w] = 0
  BY DEF Init
<1>3. \A s \in Segs : ~region.seg[s].newly_alloc /\ ~region.seg[s].should_free
  BY <1>2 DEF NoSegment, CleanSegment
<1>4. QED
  BY <1>1, <1>2, <1>3 DEF SegInv, SegmentsTell, ReadOnlyLogs

LEMMA DepartTell ==
  ASSUME TypeOK, IdInv, SegInv, NEW t \in Threads, Running(t),
         NEW r \in Regions(trans_counter - 1), NEW D, Departs(t, r, D)
  PROVE  SegInv'
<1> DEFINE n == trans_counter - 1
           B == D \cup {tx[u] : u \in batch \ {t}}
<1>1. /\ n \in Nat /\ tx[t] \in Txs /\ tx[t] \in 1 .. n
      /\ Leave(t, r, D) /\ SegmentsTell(r, log, B)
      /\ D = done \/ D = done \cup {tx[t]}
  BY RunningTx DEF Departs
<1>2. TypeOK' /\ IdInv'
  <2>1. D \in SUBSET (1 .. n)
    BY <1>1 DEF TypeOK
  <2>2. QED
    BY <1>1, <2>1, LeaveType, LeaveId
<1>3. \A u \in batch \ {t} : tx[u] # tx[t] /\ tx'[u] = tx[u] /\ ro'[u] = ro[u]
  <2>1. /\ tx' = [tx EXCEPT ![t] = 0] /\ ro' = [ro EXCEPT ![t] = FALSE]
        /\ \A u \in batch \ {t} : u \in Threads
    BY <1>1 DEF Leave, TypeOK
  <2>2. \A u \in batch \ {t} : tx'[u] = tx[u] /\ ro'[u] = ro[u]
    BY <2>1 DEF TypeOK
  <2>3. QED
    BY <2>2, OthersStay
<1>4. CASE /\ Gate!LeaveEarly(t) /\ region' = r /\ done' = D
           /\ log' = [x \in Txs |-> IF x = tx[t] /\ x \notin D THEN EmptyLog ELSE log[x]]
  <2>1. batch' = batch \ {t}
    BY <1>4 DEF Gate!LeaveEarly
  <2>2. Members' = B
    BY <1>3, <1>4, <2>1 DEF Members
  <2>3. \A x \in B : x \in Txs /\ (x = tx[t] => x \in D)
    <3>1. D \subseteq Txs /\ \A u \in batch : tx[u] \in Txs
      BY <1>1, MembersTxs DEF Members
    <3>2. QED
      BY <1>3, <3>1
  <2>4. \A x \in B : log'[x] = log[x]
    BY <1>4, <2>3
  <2>5. SegmentsTell(r, log', B)
    BY <1>1, <2>4, TellOnly
  <2>6. \A u \in batch \ {t} : log'[tx[u]] = log[tx[u]]
    BY <2>4
  <2>7. ReadOnlyLogs'
    BY <1>3, <2>1, <2>6 DEF SegInv, ReadOnlyLogs
  <2>8. QED
    BY <1>4, <2>2, <2>5, <2>7 DEF SegInv
<1>5. CASE /\ Gate!LeaveLast(t) /\ region' = EpochCleanup(r) /\ done' = {}
           /\ log' = [x \in Txs |-> EmptyLog]
  <2>1. \A u \in batch' : tx'[u] \in Txs
    BY <1>2 DEF TypeOK, IdInv
  <2>2. Members' \subseteq Txs
    BY <1>5, <2>1 DEF Members
  <2>3. \A x \in Members' : log'[x] = EmptyLog
    BY <1>5, <2>2
  <2>4. SegmentsTell(EpochCleanup(r), log', Members')
    BY <1>1, <2>3, CleanupTell
  <2>5. ReadOnlyLogs'
    BY <1>5, <2>1, EmptyLogType DEF ReadOnlyLogs
  <2>6. QED
    BY <1>5, <2>4, <2>5 DEF SegInv
<1>6. QED
  BY <1>1, <1>4, <1>5 DEF Leave

LEMMA BeginTell ==
  ASSUME TypeOK, IdInv, SegInv, NEW t \in Threads, NEW is_ro \in BOOLEAN, Begin(t, is_ro)
  PROVE  SegInv'
<1> DEFINE n == trans_counter - 1
<1>1. /\ region' = region /\ log' = log /\ done' = done
      /\ t \notin batch \cup queue
      /\ batch' \in {batch, batch \cup {t}}
      /\ tx' = [tx EXCEPT ![t] = trans_counter]
      /\ ro' = [ro EXCEPT ![t] = is_ro]
      /\ trans_counter \in Txs
  BY DEF Begin, Gate!Enter, TypeOK
<1>2. /\ n \in Nat /\ trans_counter \notin 0 .. n /\ region \in Regions(n)
      /\ \A u \in Threads : tx[u] # trans_counter
      /\ trans_counter \notin done
  BY DEF TypeOK
<1>3. \A u \in batch : u # t /\ tx'[u] = tx[u] /\ ro'[u] = ro[u]
  BY <1>1 DEF TypeOK
<1>4. tx'[t] = trans_counter
  BY <1>1 DEF TypeOK
<1>5. log[trans_counter] = EmptyLog
  BY <1>1, <1>2 DEF IdInv, TypeOK
<1>6. Members \subseteq Members' /\ \A x \in Members' \ Members : x = trans_counter
  BY <1>1, <1>3, <1>4 DEF Members
<1>7. SegmentsTell(region, log, Members')
  <2> DEFINE B == Members
             C == Members'
  <2>1. SegmentsTell(region, log, B)
    BY DEF SegInv
  <2>2. B \subseteq C /\ \A x \in C \ B : log[x] = EmptyLog /\ x \notin 0 .. n
    BY <1>2, <1>5, <1>6
  <2> HIDE DEF B, C
  <2>3. SegmentsTell(region, log, C)
    BY <1>2, <2>1, <2>2, TellNewcomer
  <2>4. QED
    BY <2>3 DEF C
<1>8. ReadOnlyLogs'
  <2>1. ASSUME NEW u \in batch', ro'[u]
        PROVE  /\ DOMAIN log[tx'[u]].writes = {}
               /\ log[tx'[u]].allocs = {} /\ log[tx'[u]].frees = {}
    <3>1. CASE u = t
      BY <1>4, <1>5, <3>1, EmptyLogType
    <3>2. CASE u # t
      BY <1>1, <1>3, <2>1, <3>2 DEF SegInv, ReadOnlyLogs
    <3>3. QED
      BY <3>1, <3>2
  <2>2. QED
    BY <1>1, <2>1 DEF ReadOnlyLogs
<1>9. QED
  BY <1>1, <1>7, <1>8 DEF SegInv

(* The histories of the read-only transactions stay as they are when a      *)
(* read-write one does something.                                           *)
LEMMA ReadOnlyLogsStay ==
  ASSUME TypeOK, IdInv, ReadOnlyLogs, NEW t \in Threads, Running(t), InTx,
         \A y \in Txs \ {tx[t]} : log'[y] = log[y],
         ~ro[t] \/ /\ log'[tx[t]].writes = log[tx[t]].writes
                   /\ log'[tx[t]].allocs = log[tx[t]].allocs
                   /\ log'[tx[t]].frees = log[tx[t]].frees
  PROVE  ReadOnlyLogs'
<1>1. UNCHANGED <<batch, tx, ro>>
  BY DEF InTx
<1>2. ASSUME NEW u \in batch, ro[u]
      PROVE  /\ DOMAIN log'[tx[u]].writes = {}
             /\ log'[tx[u]].allocs = {} /\ log'[tx[u]].frees = {}
  <2>1. CASE u = t
    BY <1>2, <2>1 DEF ReadOnlyLogs
  <2>2. CASE u # t
    <3>1. tx[u] # tx[t]
      BY <2>2, OthersStay
    <3>2. tx[u] \in Txs
      BY DEF TypeOK, IdInv
    <3>3. QED
      BY <1>2, <3>1, <3>2 DEF ReadOnlyLogs
  <2>3. QED
    BY <2>1, <2>2
<1>3. QED
  BY <1>1, <1>2 DEF ReadOnlyLogs

(* A region of the model, and the number of a transaction in it.            *)
Numbered(r, x) == \E n \in Nat : r \in Regions(n) /\ x \in 0 .. n

(* The loops of _tm_read and _tm_write change no segment and no read copy.  *)
LEMMA LoopsKeep ==
  ASSUME NEW r, NEW x, Numbered(r, x), NEW s \in Segs, NEW W \in Spans(s)
  PROVE  /\ SameSegments(r, MoveToDirty(MarkReads(r, x, W), s))
         /\ \A data \in [W -> Values] :
              SameSegments(r, MoveToDirty(MarkWrites(r, x, data), s))
<1>1. PICK n \in Nat : r \in Regions(n) /\ x \in 0 .. n
  BY DEF Numbered
<1>2. W \in SUBSET Words
  BY SpanType
<1>3. ASSUME NEW q \in Regions(n), q.seg = r.seg, q.read = r.read
      PROVE  SameSegments(r, MoveToDirty(q, s))
  <2>1. SameSegments(q, MoveToDirty(q, s))
    BY <1>3, MoveToDirtySame
  <2>2. QED
    BY <1>3, <2>1 DEF SameSegments, Dirty
<1>4. SameSegments(r, MoveToDirty(MarkReads(r, x, W), s))
  <2>1. /\ MarkReads(r, x, W) \in Regions(n)
        /\ MarkReads(r, x, W).seg = r.seg /\ MarkReads(r, x, W).read = r.read
    BY <1>1, <1>2, MarkReadsFacts
  <2>2. QED
    BY <1>3, <2>1
<1>5. ASSUME NEW data \in [W -> Values]
      PROVE  SameSegments(r, MoveToDirty(MarkWrites(r, x, data), s))
  <2>1. /\ MarkWrites(r, x, data) \in Regions(n)
        /\ MarkWrites(r, x, data).seg = r.seg /\ MarkWrites(r, x, data).read = r.read
    BY <1>1, <1>2, MarkWritesFacts
  <2>2. QED
    BY <1>3, <2>1
<1>6. QED
  BY <1>4, <1>5

(* tm_read and tm_write: the segment is moved to the dirty list at most.    *)
LEMMA AccessTell ==
  ASSUME TypeOK, IdInv, SegInv, NEW t \in Threads, NEW s \in Segs, NEW W \in Spans(s),
         \/ ReadOnly(t, s, W) \/ Read(t, s, W)
         \/ \E data \in [W -> Values] : Write(t, s, data)
  PROVE  /\ SegInv' /\ PublishedIn(region)' = PublishedIn(region)
         /\ SameSegments(region, region')
<1> DEFINE n == trans_counter - 1
           x == tx[t]
<1>1. /\ Running(t) /\ InTx
      /\ n \in Nat /\ x \in 0 .. n /\ x \in Txs
      /\ region \in Regions(n) /\ log \in [Txs -> Logs]
      /\ W \in SUBSET Words
  BY RunningTx, SpanType DEF ReadOnly, Read, Write, TypeOK
<1>2. /\ \A y \in Txs \ {x} : log'[y] = log[y]
      /\ \A y \in Txs : log'[y].allocs = log[y].allocs /\ log'[y].frees = log[y].frees
      /\ ~ro[t] \/ log'[x].writes = log[x].writes
  <2>1. CASE ReadOnly(t, s, W)
    BY <1>1, <2>1 DEF ReadOnly, Logs
  <2>2. CASE Read(t, s, W)
    BY <1>1, <2>2 DEF Read, Logs
  <2>3. ASSUME NEW data \in [W -> Values], Write(t, s, data)
        PROVE  /\ \A y \in Txs \ {x} : log'[y] = log[y]
               /\ \A y \in Txs : log'[y].allocs = log[y].allocs /\ log'[y].frees = log[y].frees
               /\ ~ro[t]
    BY <1>1, <2>3 DEF Write, Logs
  <2>4. QED
    BY <2>1, <2>2, <2>3
<1>3. SameSegments(region, region')
  <2>1. CASE ReadOnly(t, s, W)
    BY <2>1 DEF ReadOnly, SameSegments
  <2>2. Numbered(region, tx[t])
    BY <1>1 DEF Numbered
  <2>3. CASE Read(t, s, W)
    <3>1. region' = MoveToDirty(MarkReads(region, tx[t], W), s)
      BY <2>3 DEF Read
    <3>2. QED
      BY <2>2, <3>1, LoopsKeep
  <2>4. ASSUME NEW data \in [W -> Values], Write(t, s, data)
        PROVE  SameSegments(region, region')
    <3>1. region' = MoveToDirty(MarkWrites(region, tx[t], data), s)
      BY <2>4 DEF Write
    <3>2. QED
      BY <2>2, <3>1, LoopsKeep
  <2>5. QED
    BY <2>1, <2>3, <2>4
<1>4. Members \subseteq Txs /\ Members' = Members
  BY <1>1, MembersTxs DEF Members, InTx
<1>5. /\ SegmentsTell(region', log', Members)
      /\ PublishedIn(region') = PublishedIn(region)
  <2> DEFINE B == Members
  <2>1. SegmentsTell(region, log, B) /\ B \subseteq Txs
    BY <1>4 DEF SegInv
  <2> HIDE DEF B
  <2>2. \A y \in B : log'[y].allocs = log[y].allocs /\ log'[y].frees = log[y].frees
    BY <1>2, <2>1
  <2>3. SegmentsTell(region', log', B) /\ PublishedIn(region') = PublishedIn(region)
    BY <1>3, <2>1, <2>2, SameSegmentsTell
  <2>4. QED
    BY <2>3 DEF B
<1>6. ReadOnlyLogs'
  BY <1>1, <1>2, ReadOnlyLogsStay DEF SegInv
<1>7. PublishedIn(region)' = PublishedIn(region')
  BY DEF PublishedIn
<1>8. QED
  BY <1>3, <1>4, <1>5, <1>6, <1>7 DEF SegInv

(* tm_alloc *)
LEMMA AllocTell ==
  ASSUME TypeOK, IdInv, SegInv, NEW t \in Threads, NEW s \in Segs, Alloc(t, s)
  PROVE  /\ SegInv' /\ PublishedIn(region)' = PublishedIn(region)
         /\ region'.read = region.read
<1> DEFINE n == trans_counter - 1
           x == tx[t]
           B == Members
<1>1. /\ Running(t) /\ InTx /\ ~ro[t] /\ s \notin Listed(region)
      /\ n \in Nat /\ x \in 0 .. n /\ x \in Txs
      /\ region \in Regions(n) /\ log \in [Txs -> Logs]
  BY RunningTx DEF Alloc, TypeOK
<1>2. /\ \A y \in Txs \ {x} : log'[y] = log[y]
      /\ log'[x].allocs = log[x].allocs \cup {s}
      /\ log'[x].frees = log[x].frees
  BY <1>1 DEF Alloc, Logs
<1>3. /\ region'.seg[s] = [list |-> "dirty", owner |-> x, newly_alloc |-> TRUE,
                           should_free |-> FALSE, rollback |-> FALSE]
      /\ \A u \in Segs \ {s} : region'.seg[u] = region.seg[u]
      /\ region'.read = region.read
      /\ Dirty(region') = Dirty(region) \cup {s}
  <2>1. region' = AllocSegment(region, x, s)
    BY DEF Alloc
  <2>2. /\ region'.seg[s] = [list |-> "dirty", owner |-> x, newly_alloc |-> TRUE,
                             should_free |-> FALSE, rollback |-> FALSE]
        /\ \A u \in Segs \ {s} : region'.seg[u] = region.seg[u]
    BY <1>1, <2>1 DEF AllocSegment, Regions
  <2>3. region'.read = region.read /\ Dirty(region') = Dirty(region) \cup {s}
    BY <1>1, <2>1, AllocFacts
  <2>4. QED
    BY <2>2, <2>3
<1>4. B' = B /\ x \in B /\ B \subseteq Txs
  BY <1>1, MembersTxs DEF Members, InTx, Running
<1>5. SegmentsTell(region, log, B)
  BY DEF SegInv
<1>6. region.seg[s].list = "none"
  BY <1>1 DEF Listed
<1>7. PublishedIn(region') = PublishedIn(region)
  BY <1>3, <1>6 DEF PublishedIn
<1> HIDE DEF B, n, x
<1>8. \A u \in Segs \ Dirty(region') : region'.seg[u] \in {NoSegment, CleanSegment}
  BY <1>3, <1>5 DEF SegmentsTell
<1>9. ASSUME NEW u \in Segs
      PROVE  LET v == region'.seg[u] IN
             /\ v.newly_alloc /\ ~v.rollback => v.owner \in B /\ u \in log'[v.owner].allocs
             /\ v.newly_alloc /\ v.rollback => v.owner \notin B
             /\ v.should_free /\ ~v.rollback => v.owner \in B /\ u \in log'[v.owner].frees
  <2>1. CASE u = s
    BY <1>2, <1>3, <1>4, <2>1
  <2>2. CASE u # s
    <3>1. \A y \in B : /\ log[y].allocs \subseteq log'[y].allocs
                       /\ log[y].frees \subseteq log'[y].frees
      BY <1>2, <1>4
    <3>2. region'.seg[u] = region.seg[u]
      BY <1>3, <2>2
    <3>3. QED
      BY <1>5, <3>1, <3>2 DEF SegmentsTell
  <2>3. QED
    BY <2>1, <2>2
<1>10. ASSUME NEW y \in B, NEW u \in log'[y].allocs
       PROVE  /\ u \in Dirty(region') /\ region'.seg[u].newly_alloc
              /\ region'.seg[u].owner = y /\ ~region'.seg[u].rollback
  <2>1. CASE u \in log[y].allocs
    <3>1. /\ u \in Dirty(region) /\ region.seg[u].newly_alloc
          /\ region.seg[u].owner = y /\ ~region.seg[u].rollback
      BY <1>5, <2>1 DEF SegmentsTell
    <3>2. u # s /\ u \in Segs
      BY <1>6, <3>1 DEF Dirty
    <3>3. QED
      BY <1>3, <3>1, <3>2
  <2>2. CASE u \notin log[y].allocs
    <3>1. y = x /\ u = s
      BY <1>2, <1>4, <2>2
    <3>2. QED
      BY <1>3, <3>1
  <2>3. QED
    BY <2>1, <2>2
<1>11. \A w \in Words : w[1] \notin PublishedIn(region') => region'.read[w] = 0
  BY <1>3, <1>5, <1>7 DEF SegmentsTell
<1>12. SegmentsTell(region', log', B')
  BY <1>4, <1>8, <1>9, <1>10, <1>11 DEF SegmentsTell
<1>13. ReadOnlyLogs'
  BY <1>1, <1>2, ReadOnlyLogsStay DEF SegInv, x
<1>14. PublishedIn(region)' = PublishedIn(region')
  BY DEF PublishedIn
<1>15. QED
  BY <1>3, <1>7, <1>12, <1>13, <1>14 DEF SegInv, B

(* tm_free: the segment is now x's to free, whoever has tried before.       *)
LEMMA FreeTell ==
  ASSUME TypeOK, IdInv, SegInv, NEW t \in Threads, NEW s \in Segs, Free(t, s)
  PROVE  /\ SegInv' /\ PublishedIn(region)' = PublishedIn(region)
         /\ region'.read = region.read
<1> DEFINE n == trans_counter - 1
           x == tx[t]
           B == Members
<1>1. /\ Running(t) /\ InTx /\ ~ro[t] /\ s \in Listed(region) /\ ~Foreign(region, x, s)
      /\ n \in Nat /\ x \in 0 .. n /\ x \in Txs
      /\ region \in Regions(n) /\ log \in [Txs -> Logs]
  BY RunningTx DEF Free, TypeOK
<1>2. /\ \A y \in Txs \ {x} : log'[y] = log[y]
      /\ log'[x].frees = log[x].frees \cup {s}
      /\ log'[x].allocs = log[x].allocs
  BY <1>1 DEF Free, Logs
<1> DEFINE v == [region.seg[s] EXCEPT !.should_free = TRUE, !.owner = x]
           p == WithSegment(region, s, v)
<1>3. /\ p \in Regions(n) /\ region' = MoveToDirty(p, s)
      /\ p.seg[s] = v /\ p.read = region.read
      /\ \A u \in Segs \ {s} : p.seg[u] = region.seg[u]
  <2>1. region.seg[s] \in SegmentType(n)
    BY <1>1 DEF Listed, Regions, SegmentType
  <2>2. v \in SegmentType(n)
    BY <1>1, <2>1 DEF SegmentType
  <2>3. p = [region EXCEPT !.seg[s].should_free = TRUE, !.seg[s].owner = x]
    BY <1>1 DEF Regions, WithSegment
  <2>4. region' = MoveToDirty(p, s)
    BY <2>3 DEF Free, FreeSegment
  <2>5. \A u \in Segs \ {s} : p.seg[u] = region.seg[u]
    BY <1>1 DEF WithSegment, Regions
  <2> HIDE DEF v
  <2>6. p \in Regions(n) /\ p.seg[s] = v /\ p.read = region.read
    BY <1>1, <2>2, SegmentUpdate
  <2>7. QED
    BY <2>4, <2>5, <2>6
<1>4. SameSegments(p, region')
  <2> HIDE DEF p, n
  <2>1. QED
    BY <1>1, <1>3, MoveToDirtySame
<1>5. B' = B /\ x \in B /\ B \subseteq Txs
  BY <1>1, MembersTxs DEF Members, InTx, Running
<1>6. SegmentsTell(region, log, B)
  BY DEF SegInv
<1>7. /\ p.seg[s].should_free /\ p.seg[s].owner = x
      /\ p.seg[s].list = region.seg[s].list
      /\ p.seg[s].newly_alloc = region.seg[s].newly_alloc
      /\ p.seg[s].rollback = region.seg[s].rollback
  <2>1. region.seg[s] \in SegmentType(n)
    BY <1>1 DEF Listed, Regions, SegmentType
  <2>2. /\ v.should_free /\ v.owner = x /\ v.list = region.seg[s].list
        /\ v.newly_alloc = region.seg[s].newly_alloc
        /\ v.rollback = region.seg[s].rollback
    BY <2>1 DEF SegmentType
  <2> HIDE DEF v, p
  <2>3. QED
    BY <1>3, <2>2
<1>8. s \in Dirty(region') /\ \A u \in Segs \ {s} : u \in Dirty(p) <=> u \in Dirty(region)
  <2>1. \A u \in Segs \ {s} : u \in Dirty(p) <=> u \in Dirty(region)
    BY <1>3 DEF Dirty
  <2>2. s \in Listed(p)
    BY <1>1, <1>7 DEF Listed
  <2> HIDE DEF p, n
  <2>3. QED
    BY <1>1, <1>3, <2>1, <2>2, MoveToDirtyFacts
<1> HIDE DEF B, n, x, p, v
<1>9. region.seg[s].newly_alloc => region.seg[s].owner = x /\ ~region.seg[s].rollback
  BY <1>1, <1>5, <1>6 DEF Foreign, SegmentsTell
<1>10. ASSUME NEW u \in Segs
       PROVE  /\ region'.seg[u].newly_alloc = region.seg[u].newly_alloc
              /\ region'.seg[u].rollback = region.seg[u].rollback
              /\ region'.seg[u].list = "none" <=> region.seg[u].list = "none"
              /\ region'.seg[u].owner = IF u = s THEN x ELSE region.seg[u].owner
              /\ region'.seg[u].should_free = IF u = s THEN TRUE ELSE region.seg[u].should_free
              /\ u \in Dirty(region') \/ (u # s /\ region'.seg[u] = region.seg[u])
              /\ u \in Dirty(region) => u \in Dirty(region')
  <2>1. CASE u = s
    BY <1>4, <1>7, <1>8, <2>1 DEF SameSegments
  <2>2. CASE u # s
    BY <1>3, <1>4, <1>8, <2>2 DEF SameSegments
  <2>3. QED
    BY <2>1, <2>2
<1>11. PublishedIn(region') = PublishedIn(region)
  BY <1>10 DEF PublishedIn
<1>12. region'.read = region.read
  BY <1>3, <1>4 DEF SameSegments
<1>13. ASSUME NEW u \in Segs \ Dirty(region')
       PROVE  region'.seg[u] \in {NoSegment, CleanSegment}
  BY <1>6, <1>10 DEF SegmentsTell
<1>14. ASSUME NEW u \in Segs
       PROVE  LET c == region'.seg[u] IN
              /\ c.newly_alloc /\ ~c.rollback => c.owner \in B /\ u \in log'[c.owner].allocs
              /\ c.newly_alloc /\ c.rollback => c.owner \notin B
              /\ c.should_free /\ ~c.rollback => c.owner \in B /\ u \in log'[c.owner].frees
  <2>1. \A y \in B : /\ log[y].allocs = log'[y].allocs
                     /\ log[y].frees \subseteq log'[y].frees
    BY <1>2, <1>5
  <2>2. CASE u = s
    <3>1. region.seg[s].newly_alloc => s \in log'[x].allocs
      BY <1>2, <1>6, <1>9, <2>2 DEF SegmentsTell
    <3>2. s \in log'[x].frees
      BY <1>2
    <3>3. QED
      BY <1>5, <1>9, <1>10, <2>2, <3>1, <3>2
  <2>3. CASE u # s
    <3>1. /\ region'.seg[u].newly_alloc = region.seg[u].newly_alloc
          /\ region'.seg[u].rollback = region.seg[u].rollback
          /\ region'.seg[u].owner = region.seg[u].owner
          /\ region'.seg[u].should_free = region.seg[u].should_free
      BY <1>10, <2>3
    <3>2. QED
      BY <1>6, <2>1, <3>1 DEF SegmentsTell
  <2>4. QED
    BY <2>2, <2>3
<1>15. ASSUME NEW y \in B, NEW u \in log'[y].allocs
       PROVE  /\ u \in Dirty(region') /\ region'.seg[u].newly_alloc
              /\ region'.seg[u].owner = y /\ ~region'.seg[u].rollback
  <2>1. u \in log[y].allocs
    BY <1>2, <1>5
  <2>2. /\ u \in Dirty(region) /\ region.seg[u].newly_alloc
        /\ region.seg[u].owner = y /\ ~region.seg[u].rollback
    BY <1>6, <2>1 DEF SegmentsTell
  <2>3. u \in Segs /\ (u = s => y = x)
    BY <1>9, <2>2 DEF Dirty
  <2>4. QED
    BY <1>10, <2>2, <2>3
<1>16. \A w \in Words : w[1] \notin PublishedIn(region') => region'.read[w] = 0
  BY <1>6, <1>11, <1>12 DEF SegmentsTell
<1>17. SegmentsTell(region', log', B')
  BY <1>5, <1>13, <1>14, <1>15, <1>16 DEF SegmentsTell
<1>18. ReadOnlyLogs'
  BY <1>1, <1>2, ReadOnlyLogsStay DEF SegInv, x
<1>19. PublishedIn(region)' = PublishedIn(region')
  BY DEF PublishedIn
<1>20. QED
  BY <1>11, <1>12, <1>17, <1>18, <1>19 DEF SegInv, B

LEMMA TellStep == IInv /\ SegInv /\ [Next]_vars => SegInv'
<1> SUFFICES ASSUME TypeOK, IdInv, MarksInv, SegInv, [Next]_vars PROVE SegInv'
  BY DEF IInv
<1>1. ASSUME NEW t \in Threads, NEW is_ro \in BOOLEAN, Begin(t, is_ro) PROVE SegInv'
  BY <1>1, BeginTell
<1>2. ASSUME NEW t \in Threads, NEW s \in Segs, NEW W \in Spans(s),
             ReadOnly(t, s, W) \/ Read(t, s, W)
      PROVE  SegInv'
  BY <1>2, AccessTell
<1>3. ASSUME NEW t \in Threads, NEW s \in Segs, NEW W \in Spans(s),
             NEW data \in [W -> Values], Write(t, s, data)
      PROVE  SegInv'
  BY <1>3, AccessTell
<1>4. ASSUME NEW t \in Threads, NEW s \in Segs, Alloc(t, s) \/ Free(t, s)
      PROVE  SegInv'
  BY <1>4, AllocTell, FreeTell
<1>5. ASSUME NEW t \in Threads, NEW s \in Segs, Failing(t, s) PROVE SegInv'
  <2>1. PICK r \in Regions(trans_counter - 1) : Departs(t, r, done)
    BY <1>5, FailingDeparts
  <2>2. QED
    BY <1>5, <2>1, FailingDeparts, DepartTell
<1>6. ASSUME NEW t \in Threads, End(t) PROVE SegInv'
  BY <1>6, EndDeparts, DepartTell
<1>7. CASE UNCHANGED vars
  BY <1>7 DEF vars, SegInv, SegmentsTell, ReadOnlyLogs, Members, PublishedIn, Dirty
<1>8. QED
  BY <1>1, <1>2, <1>3, <1>4, <1>5, <1>6, <1>7 DEF Next, Step, Failing

(* What the segments tell is an invariant, on top of what the marks tell.   *)
THEOREM SegmentsInductive == Spec => [](IInv /\ SegInv)
<1>1. Init => IInv /\ SegInv
  BY InitType, InitId, InitMarks, InitTell DEF IInv
<1>2. IInv /\ SegInv /\ [Next]_vars => IInv' /\ SegInv'
  BY TypeStep, IdStep, MarksStep, TellStep DEF IInv
<1>3. QED
  BY <1>1, <1>2, PTL DEF Spec

-----------------------------------------------------------------------------
(* What the end of the epoch releases. *)

(* What goes because it was freed. *)
ReleasedFrees(r) == {s \in Dirty(r) : ~r.seg[s].rollback /\ r.seg[s].should_free}

(* Why segment s goes when the transactions of D have committed.             *)
Goes(s, D) ==
  \/ \E x \in D : s \in log[x].frees
  \/ region.seg[s].newly_alloc /\ \A x \in D : s \notin log[x].allocs

(* Every segment that goes does so when the epoch ends; it was allocated by  *)
(* a transaction that was rolled back, or freed by one of D.                 *)
LEMMA DepartLoses ==
  ASSUME TypeOK, IdInv, NEW t \in Threads, Running(t),
         NEW r \in Regions(trans_counter - 1), NEW D, Departs(t, r, D),
         NEW s \in Listed(region) \ Listed(region)'
  PROVE  Gate!LeaveLast(t) /\ Goes(s, D)
<1>1. /\ Leave(t, r, D) /\ Listed(r) = Listed(region)
      /\ r.seg[s].newly_alloc = region.seg[s].newly_alloc
      /\ s \in Segs
  BY DEF Departs, Listed
<1>2. ~Gate!LeaveEarly(t) \/ region' # r
  BY <1>1 DEF Listed
<1>3. Gate!LeaveLast(t) /\ region' = EpochCleanup(r)
  BY <1>1, <1>2 DEF Leave
<1>4. SegmentsTell(r, log, D)
  <2>1. batch \ {t} = {}
    BY <1>3 DEF Gate!LeaveLast
  <2>2. D \cup {tx[u] : u \in batch \ {t}} = D
    BY <2>1
  <2>3. QED
    BY <2>2 DEF Departs
<1>5. s \in Released(r)
  <2>1. Listed(EpochCleanup(r)) = Listed(r) \ Released(r)
    <3>1. trans_counter - 1 \in Nat
      BY DEF TypeOK
    <3>2. QED
      BY <3>1, EpochCleanupFacts
  <2>2. Listed(region)' = Listed(EpochCleanup(r))
    BY <1>3 DEF Listed
  <2>3. QED
    BY <1>1, <2>1, <2>2
<1>6. CASE ~r.seg[s].rollback /\ r.seg[s].should_free
  BY <1>1, <1>3, <1>4, <1>6 DEF SegmentsTell, Goes
<1>7. CASE r.seg[s].rollback /\ r.seg[s].newly_alloc
  <2>1. \A x \in D : s \notin log[x].allocs
    BY <1>4, <1>7 DEF SegmentsTell
  <2>2. QED
    BY <1>1, <1>3, <1>7, <2>1 DEF Goes
<1>8. QED
  BY <1>5, <1>6, <1>7 DEF Released

(* A call that fails adds nobody to those who have committed, and the last   *)
(* tm_end of an epoch the one that it ends.                                  *)
LEMMA CommittedByLast ==
  ASSUME NEW t \in batch, Gate!LeaveLast(t)
  PROVE  Committed = IF Commits(t) THEN done \cup {tx[t]} ELSE done
<1>1. batch = {t}
  BY DEF Gate!LeaveLast
<1>2. CASE Commits(t)
  BY <1>1, <1>2 DEF Committed
<1>3. CASE ~Commits(t)
  BY <1>1, <1>3 DEF Committed
<1>4. QED
  BY <1>2, <1>3

LEMMA NoLoss ==
  ASSUME IInv, SegInv, [Next]_vars, NEW s \in Listed(region) \ Listed(region)'
  PROVE  (\E t \in batch : Gate!LeaveLast(t)) /\ Goes(s, Committed)
<1> DEFINE Goal == (\E t \in batch : Gate!LeaveLast(t)) /\ Goes(s, Committed)
<1>0. TypeOK /\ IdInv /\ MarksInv /\ s \in Listed(region) /\ s \notin Listed(region)'
  BY DEF IInv
<1>1. ASSUME NEW t \in Threads, NEW is_ro \in BOOLEAN, Begin(t, is_ro) PROVE Goal
  BY <1>0, <1>1 DEF Begin, Listed
<1>2. ASSUME NEW t \in Threads, NEW u \in Segs, NEW W \in Spans(u),
             \/ ReadOnly(t, u, W) \/ Read(t, u, W)
             \/ \E data \in [W -> Values] : Write(t, u, data)
      PROVE  Goal
  <2>1. SameSegments(region, region')
    BY <1>0, <1>2, AccessTell
  <2>2. QED
    BY <1>0, <2>1 DEF SameSegments, Listed
<1>3. ASSUME NEW t \in Threads, NEW u \in Segs, Alloc(t, u) \/ Free(t, u) PROVE Goal
  <2>1. trans_counter - 1 \in Nat /\ tx[t] \in 0 .. trans_counter - 1
        /\ region \in Regions(trans_counter - 1)
    BY <1>0, <1>3, RunningTx DEF Alloc, Free, TypeOK
  <2>2. Listed(region) \subseteq Listed(region')
    BY <1>3, <2>1, AllocFacts, FreeFacts DEF Alloc, Free
  <2>3. QED
    BY <1>0, <2>2 DEF Listed
<1>4. ASSUME NEW t \in Threads, NEW u \in Segs, Failing(t, u) PROVE Goal
  <2>1. Running(t)
    BY <1>0, <1>4, FailingDeparts
  <2>2. PICK r \in Regions(trans_counter - 1) : Departs(t, r, done)
    BY <1>0, <1>4, FailingDeparts
  <2>3. Gate!LeaveLast(t) /\ Goes(s, done)
    BY <1>0, <2>1, <2>2, DepartLoses
  <2>4. t \in batch /\ ~Commits(t)
    BY <1>4, <2>1 DEF Running, Commits
  <2>5. Committed = done
    BY <2>3, <2>4, CommittedByLast
  <2>6. QED
    BY <2>3, <2>4, <2>5
<1>5. ASSUME NEW t \in Threads, End(t) PROVE Goal
  <2>1. CASE \E u \in Segs : Failing(t, u)
    BY <1>4, <2>1
  <2>2. CASE \A u \in Segs : ~Failing(t, u)
    <3> DEFINE D == IF ro[t] THEN done ELSE done \cup {tx[t]}
    <3>1. Running(t) /\ region \in Regions(trans_counter - 1) /\ Departs(t, region, D)
      BY <1>0, <1>5, EndDeparts
    <3>2. t \in batch /\ (Commits(t) <=> ~ro[t])
      BY <1>5, <2>2, <3>1 DEF Commits, Running
    <3> HIDE DEF D
    <3>3. Gate!LeaveLast(t) /\ Goes(s, D)
      BY <1>0, <3>1, DepartLoses
    <3>4. Committed = D
      BY <3>2, <3>3, CommittedByLast DEF D
    <3>5. QED
      BY <3>2, <3>3, <3>4
  <2>3. QED
    BY <2>1, <2>2
<1>6. CASE UNCHANGED vars
  BY <1>0, <1>6 DEF vars, Listed
<1>7. QED
  BY <1>1, <1>2, <1>3, <1>4, <1>5, <1>6 DEF Next, Step, Failing

(* NoLostSegment: a segment only ever goes when the last of an epoch leaves, *)
(* and only one that a transaction of the epoch freed and committed, or that *)
(* was allocated in it by none that committed: whoever else has freed it and *)
(* was rolled back, before or by the step that ends the epoch.               *)
THEOREM NothingIsLost == Spec => NoLostSegment
<1> DEFINE Losses == \A s \in Listed(region) \ Listed(region)' :
     /\ \E t \in batch : Gate!LeaveLast(t)
     /\ \/ \E x \in Committed : s \in log[x].frees
        \/ region.seg[s].newly_alloc /\ \A x \in Committed : s \notin log[x].allocs
<1>1. IInv /\ SegInv /\ [Next]_vars => [Losses]_vars
  BY NoLoss DEF Goes
<1>2. NoLostSegment <=> [][Losses]_vars
  BY DEF NoLostSegment
<1> HIDE DEF Losses
<1>3. QED
  BY <1>1, <1>2, SegmentsInductive, PTL DEF Spec

-----------------------------------------------------------------------------
(* The refinement, step by step. *)

LEMMA SameNames ==
  /\ Memory!EmptyLog = EmptyLog
  /\ Memory!Active = Active
  /\ \A f, g : Memory!Overlay(f, g) = Overlay(f, g)
  /\ Published = PublishedIn(region)
BY DEF Memory!EmptyLog, EmptyLog, Memory!Nothing, Nothing, Memory!Active, Active,
       Memory!Overlay, Overlay, Published, PublishedIn, Listed

(* Nothing is published before the epoch ends. *)
LEMMA MemoryStays ==
  ASSUME PublishedIn(region)' = PublishedIn(region), region'.read = region.read
  PROVE  UNCHANGED Memory!memory
<1>1. Published' = Published
  BY DEF Published, PublishedIn, Listed
<1>2. QED
  BY <1>1 DEF Memory!memory

(* What the published memory holds is the read copy. *)
LEMMA CommittedIsRead ==
  ASSUME SegInv, NEW w \in Words
  PROVE  (IF w[1] \in Published THEN region.read[w] ELSE 0) = region.read[w]
BY SameNames DEF SegInv, SegmentsTell

(* A transaction may use what is published and what it has allocated.       *)
LEMMA UsableSegment ==
  ASSUME TypeOK, IdInv, SegInv, NEW t \in Threads, Running(t),
         NEW s \in Listed(region), ~Foreign(region, tx[t], s)
  PROVE  s \in Memory!Usable(t)
<1>1. tx[t] \in Members /\ s \in Segs
  BY DEF Members, Running, Listed
<1>2. CASE ~region.seg[s].newly_alloc
  BY <1>1, <1>2 DEF Memory!Usable, Published
<1>3. CASE region.seg[s].newly_alloc
  <2>1. region.seg[s].owner = tx[t]
    BY <1>3 DEF Foreign
  <2>2. s \in log[tx[t]].allocs
    BY <1>1, <1>3, <2>1 DEF SegInv, SegmentsTell
  <2>3. QED
    BY <2>2 DEF Memory!Usable
<1>4. QED
  BY <1>2, <1>3

LEMMA SpanIsSpan ==
  ASSUME NEW s \in Segs, NEW W \in Spans(s)
  PROVE  W \in Memory!Spans
BY DEF Spans, Memory!Spans, Memory!SpansOf

LEMMA InitMaps == Init => Memory!Init
<1> SUFFICES ASSUME Init PROVE Memory!Init
  OBVIOUS
<1>1. Published = {Start}
  BY DEF Init, Published, Listed, NoSegment, CleanSegment
<1>2. \A w \in Words : region.read[w] = 0
  BY DEF Init
<1>3. [w \in Words |-> IF w[1] \in Published THEN region.read[w] ELSE 0]
        = [w \in Memory!Words |-> 0]
  BY <1>2 DEF Memory!Words, Words
<1>4. Memory!Gate!Init
  BY DEF Init, Gate!Init, Memory!Gate!Init
<1>5. QED
  BY <1>1, <1>3, <1>4, SameNames DEF Init, Memory!Init

LEMMA BeginMaps ==
  ASSUME TypeOK, NEW t \in Threads, NEW is_ro \in BOOLEAN, Begin(t, is_ro)
  PROVE  Memory!Begin(t, is_ro)
<1>1. UNCHANGED Memory!memory
  BY MemoryStays DEF Begin, PublishedIn
<1>2. Memory!Gate!Enter(t)
  BY DEF Begin, Gate!Enter, Memory!Gate!Enter
<1>3. trans_counter \in Txs
  BY DEF Begin, TypeOK
<1>4. QED
  BY <1>1, <1>2, <1>3 DEF Begin, Memory!Begin

(* tm_read: the copy the code reads is what the transaction is to see.      *)
LEMMA ReadMaps ==
  ASSUME TypeOK, IdInv, MarksInv, SegInv, NEW t \in Threads, NEW s \in Segs,
         NEW W \in Spans(s), ReadOnly(t, s, W) \/ Read(t, s, W)
  PROVE  Memory!Read(t, W)
<1> DEFINE x == tx[t]
<1>1. /\ Running(t) /\ InTx /\ t \in batch
      /\ W \in SUBSET Words /\ \A w \in W : w[1] = s
      /\ s \in Listed(region) /\ ~Foreign(region, x, s)
  BY SpanType DEF ReadOnly, Read, Running
<1>2. \A w \in W : w[1] \in Memory!Usable(t)
  BY <1>1, UsableSegment
<1>3. UNCHANGED Memory!memory
  <2>1. PublishedIn(region)' = PublishedIn(region) /\ SameSegments(region, region')
    BY AccessTell
  <2>2. QED
    BY <2>1, MemoryStays DEF SameSegments
<1>4. CASE ReadOnly(t, s, W)
  <2>1. ro[t] /\ DOMAIN log[x].writes = {}
    BY <1>1, <1>4 DEF ReadOnly, SegInv, ReadOnlyLogs
  <2>2. \A w \in W : Memory!View(t, w) = region.read[w]
    BY <1>1, <2>1, CommittedIsRead DEF Memory!View
  <2>3. [w \in W |-> Memory!View(t, w)] = [w \in W |-> region.read[w]]
    BY <2>2
  <2>4. log' = [log EXCEPT ![x].reads = Memory!Overlay(@, [w \in W |-> Memory!View(t, w)])]
    BY <1>4, <2>3, SameNames DEF ReadOnly
  <2>5. QED
    BY <1>1, <1>2, <1>3, <2>1, <2>4 DEF Memory!Read, Memory!Running, Memory!InTx, InTx
<1>5. CASE Read(t, s, W)
  <2>1. ~ro[t] /\ x \in Active /\ \A w \in W : CanRead(region.control[w], x)
    BY <1>1, <1>5, ActiveTxs DEF Read
  <2>2. \A w \in W : Memory!MayRead(x, w)
    BY <2>1, SameNames DEF Memory!MayRead, MarksInv, Marks, CanRead
  <2>3. ASSUME NEW w \in W PROVE Memory!View(t, w) = region.write[w]
    <3>1. CASE w \in DOMAIN log[x].writes
      BY <1>1, <2>1, <3>1 DEF Memory!View, MarksInv, Marks
    <3>2. CASE w \notin DOMAIN log[x].writes
      <4>1. ~region.control[w].written
        BY <1>1, <2>1, <3>2 DEF CanRead, MarksInv, Marks
      <4>2. region.write[w] = region.read[w]
        BY <1>1, <4>1 DEF MarksInv, Marks
      <4>3. QED
        BY <1>1, <3>2, <4>2, CommittedIsRead DEF Memory!View
    <3>3. QED
      BY <3>1, <3>2
  <2>4. [w \in W |-> Memory!View(t, w)] = [w \in W |-> region.write[w]]
    BY <2>3
  <2>5. log' = [log EXCEPT ![x].reads = Memory!Overlay(@, [w \in W |-> Memory!View(t, w)])]
    BY <1>5, <2>4, SameNames DEF Read
  <2>6. QED
    BY <1>1, <1>2, <1>3, <2>2, <2>5 DEF Memory!Read, Memory!Running, Memory!InTx, InTx
<1>6. QED
  BY <1>4, <1>5

(* tm_write: what the marks grant, no other active transaction has touched. *)
LEMMA WriteMaps ==
  ASSUME TypeOK, IdInv, MarksInv, SegInv, NEW t \in Threads, NEW s \in Segs,
         NEW W \in Spans(s), NEW data \in [W -> Values], Write(t, s, data)
  PROVE  Memory!Write(t, data)
<1> DEFINE x == tx[t]
<1>1. /\ Running(t) /\ InTx /\ ~ro[t] /\ t \in batch /\ x \in Active /\ x # 0
      /\ \A w \in W : w[1] = s /\ w \in Words
      /\ s \in Listed(region) /\ ~Foreign(region, x, s)
      /\ \A w \in W : CanWrite(region.control[w], x)
  BY SpanType, RunningTx, ActiveTxs DEF Write, Running
<1>2. \A w \in W : w[1] \in Memory!Usable(t)
  BY <1>1, UsableSegment
<1>3. UNCHANGED Memory!memory
  <2>1. PublishedIn(region)' = PublishedIn(region) /\ SameSegments(region, region')
    BY AccessTell
  <2>2. QED
    BY <2>1, MemoryStays DEF SameSegments
<1>4. ASSUME NEW w \in W, NEW y \in Active \ {x} PROVE w \notin Memory!Touched(y)
  <2>1. y # 0 /\ CanWrite(region.control[w], x)
    BY <1>1, ActiveTxs
  <2>2. w \notin DOMAIN log[y].writes
    BY <2>1 DEF CanWrite, MarksInv, Marks
  <2>3. w \notin DOMAIN log[y].reads
    BY <2>1 DEF CanWrite, MarksInv, Marks
  <2>4. QED
    BY <2>2, <2>3 DEF Memory!Touched
<1>5. \A w \in W : Memory!MayWrite(x, w)
  BY <1>4, SameNames DEF Memory!MayWrite
<1>6. log' = [log EXCEPT ![x].writes = Memory!Overlay(@, data)]
  BY SameNames DEF Write
<1>7. QED
  BY <1>1, <1>2, <1>3, <1>5, <1>6 DEF Memory!Write, Memory!Running, Memory!InTx, InTx

LEMMA AllocMaps ==
  ASSUME TypeOK, IdInv, SegInv, NEW t \in Threads, NEW s \in Segs, Alloc(t, s)
  PROVE  Memory!Alloc(t, s)
<1>1. UNCHANGED Memory!memory
  BY AllocTell, MemoryStays
<1>2. s \notin Published /\ s \notin Listed(region)
  BY DEF Alloc, Published
<1>3. ASSUME NEW x \in Txs PROVE s \notin log[x].allocs
  <2>1. CASE x \in Members
    BY <1>2, <2>1 DEF SegInv, SegmentsTell, Dirty, Listed
  <2>2. CASE x \notin Members
    BY <2>2, EmptyLogType DEF IdInv, Members
  <2>3. QED
    BY <2>1, <2>2
<1>4. QED
  BY <1>1, <1>2, <1>3 DEF Alloc, Memory!Alloc, Running, Memory!Running, InTx, Memory!InTx

LEMMA FreeMaps ==
  ASSUME TypeOK, IdInv, SegInv, NEW t \in Threads, NEW s \in Segs, Free(t, s)
  PROVE  Memory!Free(t, s)
<1>1. UNCHANGED Memory!memory
  BY FreeTell, MemoryStays
<1>2. s \in Memory!Usable(t)
  BY UsableSegment DEF Free
<1>3. QED
  BY <1>1, <1>2 DEF Free, Memory!Free, Running, Memory!Running, InTx, Memory!InTx

(* The end of the epoch publishes the writes of D, adds what D has          *)
(* allocated and takes away some of what D has freed.                       *)
LEMMA PublishMaps ==
  ASSUME TypeOK, IdInv, SegInv, NEW t \in Threads, Running(t),
         NEW r \in Regions(trans_counter - 1), NEW D, Departs(t, r, D),
         NEW commits \in BOOLEAN, D = Memory!Committing(t, commits),
         batch = {t}, region' = EpochCleanup(r)
  PROVE  Memory!Publish(Memory!Committing(t, commits))
<1> DEFINE n == trans_counter - 1
           q == EpochCleanup(r)
           C == Memory!Committing(t, commits)
           allocs == UNION {log[x].allocs : x \in C}
           frees == UNION {log[x].frees : x \in C}
           released == ReleasedFrees(r)
           written(w) == {x \in C : w \in DOMAIN log[x].writes}
<1>0. batch \ {t} = {}
  OBVIOUS
<1>1. /\ n \in Nat /\ r.read = region.read
      /\ Marks(r, log, C) /\ MarksDirty(r) /\ SegmentsTell(r, log, C)
      /\ PublishedIn(r) = Published
  <2>1. n \in Nat
    BY DEF TypeOK
  <2>2. PublishedIn(r) = {s \in Listed(r) : ~r.seg[s].newly_alloc}
    BY DEF PublishedIn, Listed
  <2>3. PublishedIn(r) = Published
    BY <2>2 DEF Departs, Published, Listed
  <2>4. /\ D \cup {tx[u] : u \in {v \in batch \ {t} : ~ro[v]}} = D
        /\ D \cup {tx[u] : u \in batch \ {t}} = D
    BY <1>0
  <2>5. Marks(r, log, D) /\ MarksDirty(r) /\ SegmentsTell(r, log, D)
    BY <2>4 DEF Departs
  <2>6. D = C
    OBVIOUS
  <2> HIDE DEF C
  <2>7. Marks(r, log, C) /\ SegmentsTell(r, log, C)
    BY <2>5, <2>6
  <2>8. QED
    BY <2>1, <2>3, <2>5, <2>7 DEF Departs
<1> HIDE DEF C
<1>2. Published' = Listed(r) \ Released(r)
  <2>1. PublishedIn(q) = Listed(r) \ Released(r)
    BY <1>1, CleanupPublishes
  <2>2. Published' = PublishedIn(q)
    BY DEF Published, PublishedIn, Listed
  <2>3. QED
    BY <2>1, <2>2
<1>3. released \in SUBSET frees
  <2>1. ASSUME NEW s \in released PROVE \E x \in C : s \in log[x].frees
    <3>1. s \in Segs /\ r.seg[s].should_free /\ ~r.seg[s].rollback
      BY DEF ReleasedFrees, Dirty
    <3>2. r.seg[s].owner \in C /\ s \in log[r.seg[s].owner].frees
      BY <1>1, <3>1 DEF SegmentsTell
    <3>3. QED
      BY <3>2
  <2> HIDE DEF released
  <2>2. QED
    BY <2>1
<1>4. Published' = (Published \cup allocs) \ released
  <2>1. ASSUME NEW s \in Segs
        PROVE  s \in Listed(r) \ Released(r) <=> s \in (Published \cup allocs) \ released
    <3>1. CASE r.seg[s].newly_alloc
      <4>1. s \in allocs <=> ~r.seg[s].rollback
        BY <1>1, <3>1 DEF SegmentsTell
      <4>2. s \in Dirty(r) /\ s \in Listed(r)
        BY <1>1, <3>1 DEF SegmentsTell, NoSegment, CleanSegment, Dirty, Listed
      <4>3. s \notin Published
        BY <1>1, <3>1 DEF PublishedIn
      <4>4. QED
        BY <3>1, <4>1, <4>2, <4>3 DEF Released, ReleasedFrees
    <3>2. CASE ~r.seg[s].newly_alloc
      <4>1. s \notin allocs
        BY <1>1, <3>2 DEF SegmentsTell
      <4>2. s \in Published <=> s \in Listed(r)
        BY <1>1, <3>2 DEF PublishedIn, Listed
      <4>3. s \in released <=> s \in Released(r)
        BY <3>2 DEF Released, ReleasedFrees
      <4>4. QED
        BY <4>1, <4>2, <4>3
    <3>3. QED
      BY <3>1, <3>2
  <2>2. Listed(r) \subseteq Segs /\ Published \subseteq Segs /\ allocs \subseteq Segs
    BY <1>1 DEF Listed, PublishedIn, SegmentsTell, Dirty
  <2>3. QED
    BY <1>2, <2>1, <2>2
<1>5. ASSUME NEW w \in Words, w[1] \in Published'
      PROVE  q.read[w] =
               IF written(w) = {}
               THEN (IF w[1] \in Published THEN region.read[w] ELSE 0)
               ELSE log[CHOOSE x \in written(w) : TRUE].writes[w]
  <2>1. q.read[w] = IF w[1] \in Dirty(r) THEN r.write[w] ELSE r.read[w]
    <3>1. w[1] \notin Released(r)
      BY <1>2, <1>5
    <3> HIDE DEF n
    <3>2. QED
      BY <1>1, <3>1, EpochCleanupFacts DEF n
  <2>2. CASE written(w) = {}
    <3>1. ~r.control[w].written
      BY <1>1, <2>2 DEF Marks
    <3>2. r.write[w] = r.read[w]
      BY <1>1, <3>1 DEF Marks
    <3>3. QED
      BY <1>1, <2>1, <2>2, <3>2, CommittedIsRead
  <2>3. CASE written(w) # {}
    <3> DEFINE x == CHOOSE y \in written(w) : TRUE
    <3>1. x \in written(w)
      BY <2>3
    <3> HIDE DEF x
    <3>2. r.control[w].written /\ r.control[w].access = x
      BY <1>1, <3>1 DEF Marks
    <3>3. r.write[w] = log[x].writes[w] /\ r.control[w] # FreeWord
      BY <1>1, <3>2 DEF Marks, FreeWord
    <3>4. w[1] \in Dirty(r)
      BY <1>1, <3>3 DEF MarksDirty
    <3>5. QED
      BY <2>1, <2>3, <3>3, <3>4 DEF x
  <2>4. QED
    BY <2>2, <2>3
<1> HIDE DEF q, released, allocs, frees
<1>6. ASSUME NEW w \in Words, w[1] \in Published'
      PROVE  region'.read[w] =
               IF written(w) = {}
               THEN (IF w[1] \in Published THEN region.read[w] ELSE 0)
               ELSE log[CHOOSE x \in written(w) : TRUE].writes[w]
  BY <1>5, <1>6 DEF q
<1> DEFINE committed == [w \in Words |-> IF w[1] \in Published THEN region.read[w] ELSE 0]
<1>7. committed' = [w \in Words |->
                      IF w[1] \notin Published' THEN 0
                      ELSE IF written(w) = {} THEN committed[w]
                      ELSE log[CHOOSE x \in written(w) : TRUE].writes[w]]
  <2>1. \A w \in Words : committed[w] = IF w[1] \in Published THEN region.read[w] ELSE 0
    OBVIOUS
  <2>2. committed' = [w \in Words |-> IF w[1] \in Published' THEN region'.read[w] ELSE 0]
    OBVIOUS
  <2> HIDE DEF committed, written
  <2>3. ASSUME NEW w \in Words
        PROVE  (IF w[1] \in Published' THEN region'.read[w] ELSE 0)
                 = IF w[1] \notin Published' THEN 0
                   ELSE IF written(w) = {} THEN committed[w]
                   ELSE log[CHOOSE x \in written(w) : TRUE].writes[w]
    BY <1>6, <2>1
  <2>4. QED
    BY <2>2, <2>3
<1>8. QED
  BY <1>3, <1>4, <1>7 DEF Memory!Publish, Memory!Words, Words, released, allocs, frees, C

LEMMA LeaveMaps ==
  ASSUME TypeOK, IdInv, SegInv, NEW t \in Threads, Running(t),
         NEW r \in Regions(trans_counter - 1), NEW D, Departs(t, r, D),
         NEW commits \in BOOLEAN, D = Memory!Committing(t, commits)
  PROVE  Memory!Leave(t, commits)
<1>1. Leave(t, r, D)
  BY DEF Departs
<1>2. CASE /\ Gate!LeaveEarly(t) /\ region' = r /\ done' = D
           /\ log' = [x \in Txs |-> IF x = tx[t] /\ x \notin D THEN EmptyLog ELSE log[x]]
  <2>1. PublishedIn(region)' = PublishedIn(region) /\ region'.read = region.read
    BY <1>2 DEF Departs, PublishedIn, Listed
  <2>2. UNCHANGED Memory!memory
    BY <2>1, MemoryStays
  <2>3. Memory!Gate!LeaveEarly(t)
    BY <1>2 DEF Gate!LeaveEarly, Memory!Gate!LeaveEarly
  <2>4. QED
    BY <1>1, <1>2, <2>2, <2>3, SameNames DEF Leave, Memory!Leave
<1>3. CASE /\ Gate!LeaveLast(t) /\ region' = EpochCleanup(r) /\ done' = {}
           /\ log' = [x \in Txs |-> EmptyLog]
  <2>1. batch = {t}
    BY <1>3 DEF Gate!LeaveLast
  <2>2. Memory!Publish(Memory!Committing(t, commits))
    BY <1>3, <2>1, PublishMaps
  <2>3. Memory!Gate!LeaveLast(t)
    BY <1>3 DEF Gate!LeaveLast, Memory!Gate!LeaveLast
  <2>4. QED
    BY <1>1, <1>3, <2>2, <2>3, SameNames DEF Leave, Memory!Leave
<1>4. QED
  BY <1>1, <1>2, <1>3 DEF Leave

LEMMA NextMaps == IInv /\ SegInv /\ [Next]_vars => [Memory!Next]_(Memory!vars)
<1> SUFFICES ASSUME TypeOK, IdInv, MarksInv, SegInv, [Next]_vars
             PROVE  Memory!Next \/ UNCHANGED Memory!vars
  BY DEF IInv
<1>1. ASSUME NEW t \in Threads, NEW is_ro \in BOOLEAN, Begin(t, is_ro) PROVE Memory!Next
  BY <1>1, BeginMaps DEF Memory!Next
<1>2. ASSUME NEW t \in Threads, NEW s \in Segs, NEW W \in Spans(s),
             ReadOnly(t, s, W) \/ Read(t, s, W)
      PROVE  Memory!Next
  BY <1>2, ReadMaps, SpanIsSpan DEF Memory!Next
<1>3. ASSUME NEW t \in Threads, NEW s \in Segs, NEW W \in Spans(s),
             NEW data \in [W -> Values], Write(t, s, data)
      PROVE  Memory!Next
  BY <1>3, WriteMaps, SpanIsSpan DEF Memory!Next
<1>4. ASSUME NEW t \in Threads, NEW s \in Segs, Alloc(t, s) \/ Free(t, s)
      PROVE  Memory!Next
  BY <1>4, AllocMaps, FreeMaps DEF Memory!Next
<1>5. ASSUME NEW t \in Threads, NEW s \in Segs, Failing(t, s) PROVE Memory!Next
  <2>1. Running(t)
    BY <1>5, FailingDeparts
  <2>2. PICK r \in Regions(trans_counter - 1) : Departs(t, r, done)
    BY <1>5, FailingDeparts
  <2>3. PICK D : D = done
    OBVIOUS
  <2>4. Departs(t, r, D)
    BY <2>2, <2>3 DEF Departs
  <2>5. D = Memory!Committing(t, FALSE)
    BY <2>3 DEF Memory!Committing
  <2>6. Memory!Abort(t)
    BY <2>1, <2>4, <2>5, LeaveMaps DEF Memory!Abort
  <2>7. QED
    BY <2>6 DEF Memory!Next
<1>6. ASSUME NEW t \in Threads, End(t) PROVE Memory!Next
  <2>1. /\ Running(t) /\ region \in Regions(trans_counter - 1)
        /\ Departs(t, region, IF ro[t] THEN done ELSE done \cup {tx[t]})
    BY <1>6, EndDeparts
  <2>2. PICK D : D = IF ro[t] THEN done ELSE done \cup {tx[t]}
    OBVIOUS
  <2>3. PICK r \in Regions(trans_counter - 1) : r = region
    BY <2>1
  <2>4. Departs(t, r, D)
    BY <2>1, <2>2, <2>3 DEF Departs
  <2>5. D = Memory!Committing(t, TRUE)
    BY <2>2 DEF Memory!Committing
  <2>6. Memory!Commit(t)
    BY <2>1, <2>4, <2>5, LeaveMaps DEF Memory!Commit
  <2>7. QED
    BY <2>6 DEF Memory!Next
<1>7. CASE UNCHANGED vars
  BY <1>7 DEF vars, Memory!vars, Memory!memory, Published, Listed
<1>8. QED
  BY <1>1, <1>2, <1>3, <1>4, <1>5, <1>6, <1>7 DEF Next, Step, Failing

(* Implements: whatever the transactions do, what they read is what         *)
(* SnapshotTM promises them, conflicting ones never both go on, and what    *)
(* the memory holds after an epoch is what its committed transactions made  *)
(* of it.                                                                   *)
THEOREM ImplementsSnapshot == Spec => Implements
<1>1. Spec => Memory!Init /\ [][Memory!Next]_(Memory!vars)
  BY InitMaps, NextMaps, SegmentsInductive, PTL DEF Spec
<1>2. QED
  BY <1>1 DEF Implements, Memory!Spec
=============================================================================

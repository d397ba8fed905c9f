--------------------------- MODULE EpochStepsProofs ---------------------------
(***************************************************************************)
(* Proofs about EpochSteps.tla, for any batch, any segments and any number  *)
(* of words: inside the calls of an epoch nobody races on a word, sees what *)
(* another writes, is granted what conflicts, or is refused without a        *)
(* conflict; and when the epoch ends, what was committed is published and    *)
(* nothing of it is left behind.                                             *)
(***************************************************************************)
EXTENDS EpochSteps, SequenceTheorems, TLAPS

-----------------------------------------------------------------------------
(* Where a thread is tells what its call looks like. *)
AccessCalls ==
  [kind : {"read", "write"}, seg : Segs, first : Offsets, last : Offsets, at : Offsets]

RollbackCalls ==
  [kind : {"rollback"}, link : Nat \ {0}, seg : Segs, first : Offsets, last : Offsets,
   at : Offsets]

Accessing == {"test", "store", "copy", "mark", "insert", "undo"}

CallOK(t) ==
  /\ pc[t] \in {"running"} \cup Finished => call[t] = NoCall
  /\ pc[t] \in Accessing => /\ call[t] \in AccessCalls
                            /\ call[t].first <= call[t].at /\ call[t].at <= call[t].last
  /\ pc[t] = "store" => call[t].kind = "write"
  /\ pc[t] = "copy" => call[t].kind = "read"
  /\ pc[t] = "walk" => /\ call[t] \in RollbackCalls
                       /\ call[t].first = 0 /\ call[t].last = WordsPerSeg - 1
                       /\ call[t].link <= Len(dirtyList)

Calls == call = [t \in Threads |-> call[t]] /\ \A t \in Threads : CallOK(t)

(* The words of its call that a thread has tested, with success. *)
Tested(t) ==
  {w \in Words : /\ pc[t] \in {"test", "store", "copy", "mark"}
                 /\ w[1] = call[t].seg /\ call[t].first <= w[2]
                 /\ \/ pc[t] = "test" /\ w[2] < call[t].at
                    \/ pc[t] = "store" /\ w[2] <= call[t].at
                    \/ pc[t] \in {"copy", "mark"} /\ w[2] <= call[t].last}

(* A control word: a word that is written is not read by others, and a word  *)
(* nobody has claimed is a free one.                                         *)
Marks ==
  \A w \in Words : /\ control[w].written => ~control[w].many
                   /\ control[w].access = NoTx => control[w] = FreeWord

(* What a transaction was granted is marked, as long as it does not abort;   *)
(* a read word either by its own number or as read by many.                  *)
Held ==
  \A t \in Threads : ~Doomed(t) => \A w \in Words :
    /\ w \in wr[t] => control[w].written /\ control[w].access = t
    /\ w \in rd[t] => control[w].access = t \/ control[w].many

Granted ==
  \A t \in Threads :
    /\ pc[t] = "store" => Word(t) \in wr[t]
    /\ pc[t] \in {"test", "copy"} /\ call[t].kind = "read" => Tested(t) \subseteq rd[t]

(* A word holds what was committed, or what its writer wrote. *)
Content ==
  \A w \in Words : /\ read[w] = NoTx
                   /\ \/ write[w] = NoTx
                      \/ control[w].written /\ write[w] = control[w].access

(* A word that was granted for writing is written, or is just about to be.   *)
Stored ==
  \A t \in Threads : ~Doomed(t) => \A w \in wr[t] :
    write[w] = t \/ (pc[t] = "store" /\ w = Word(t))

(* ... and its segment is dirty, or this very call will mark it.             *)
Tracked ==
  \A t \in Threads : ~Doomed(t) => \A w \in wr[t] :
    \/ dirty[w[1]]
    \/ pc[t] \in {"test", "store", "mark"} /\ call[t].kind = "write" /\ call[t].seg = w[1]

(* A dirty segment is in the list, or one thread is about to insert it.      *)
Inserting(t, s) == pc[t] = "insert" /\ call[t].seg = s

Listed(s) == \E i \in DOMAIN dirtyList : dirtyList[i] = s

Lists ==
  /\ \A s \in Segs : dirty[s] => Listed(s) \/ \E t \in Threads : Inserting(t, s)
  /\ \A t \in Threads, s \in Segs : Inserting(t, s) => dirty[s] /\ ~Listed(s)
  /\ \A t, u \in Threads, s \in Segs : Inserting(t, s) /\ Inserting(u, s) => t = u

(* A call that fails does not mark its segment dirty, though it leaves marks *)
(* on the words before the one it failed at. That these are cleaned up rests *)
(* on the order of the tests: words are tested upwards, so the thread that   *)
(* has the topmost mark of a clean segment cannot have failed in it. For     *)
(* every mark there is a thread still to come with a mark as high or higher. *)
Followed ==
  \A w \in Words : control[w].access # NoTx /\ ~dirty[w[1]] =>
    \E t \in Threads : \E x \in Tested(t) : x[1] = w[1] /\ w[2] <= x[2]

Ongoing ==
  /\ Calls /\ Marks /\ Held /\ Granted /\ Content
  /\ Stored /\ Tracked /\ Lists /\ Followed

(* The inductive invariant. When the epoch is over nothing moves any more,   *)
(* and what it promised holds.                                               *)
IInv ==
  /\ TypeOK
  /\ SnapshotReads
  /\ ~Over => Ongoing
  /\ Over => ConflictFree /\ Published /\ CleanSlate

-----------------------------------------------------------------------------
(* The tests of a control word, on any word that obeys Marks. *)
Control == [access : Threads \cup {NoTx}, written : BOOLEAN, many : BOOLEAN]

Marked(c) == (c.written => ~c.many) /\ (c.access = NoTx => c = FreeWord)

LEMMA FreeWordFacts == FreeWord \in Control /\ FreeWord.access = NoTx /\ ~FreeWord.written
BY DEF FreeWord, Control

LEMMA ReadMarkFacts ==
  ASSUME NEW c \in Control, Marked(c), NEW t \in Threads
  PROVE  LET d == ReadMark(c, t) IN
         /\ d \in Control /\ Marked(d)
         /\ d.written = c.written
         /\ c.access # NoTx => d.access = c.access
         /\ c.many => d.many
         /\ CanRead(c, t) => (d.access = t \/ d.many) /\ d.access # NoTx
         /\ ~CanRead(c, t) => d = c /\ c.access # NoTx
<1> USE EpochStepsAssumption DEF Control, Marked, FreeWord
<1>1. CASE c.written
  <2>1. ReadMark(c, t) = c
    BY <1>1 DEF ReadMark
  <2>2. c.access # NoTx /\ (CanRead(c, t) <=> c.access = t)
    BY <1>1 DEF CanRead
  <2>3. QED
    BY <1>1, <2>1, <2>2
<1>2. CASE ~c.written
  <2> DEFINE e == Claim(c, t)
  <2>1. /\ e \in Control /\ ~e.written /\ e.access # NoTx /\ e.many = c.many
        /\ c.access # NoTx => e = c
        /\ c.access = NoTx => e.access = t
    BY <1>2 DEF Claim
  <2> HIDE DEF e
  <2>2. ReadMark(c, t) = [e EXCEPT !.many = e.many \/ e.access # t]
    BY <1>2 DEF ReadMark, e
  <2>3. (e.many \/ e.access # t) \in BOOLEAN
    BY <2>1
  <2>4. QED
    BY <1>2, <2>1, <2>2, <2>3 DEF CanRead
<1>3. QED
  BY <1>1, <1>2

LEMMA WriteMarkFacts ==
  ASSUME NEW c \in Control, Marked(c), NEW t \in Threads
  PROVE  LET d == WriteMark(c, t) IN
         /\ d \in Control /\ Marked(d)
         /\ CanWrite(c, t) => /\ d.written /\ d.access = t /\ ~d.many /\ ~c.many
                              /\ c.access \in {NoTx, t}
         /\ ~CanWrite(c, t) => d = c /\ c.access # NoTx
<1> USE EpochStepsAssumption DEF Control, Marked, FreeWord
<1>1. CASE c.written
  BY <1>1 DEF WriteMark, CanWrite
<1>2. CASE ~c.written
  <2> DEFINE e == Claim(c, t)
  <2>1. /\ e \in Control /\ ~e.written /\ e.access # NoTx /\ e.many = c.many
        /\ c.access # NoTx => e = c
        /\ c.access = NoTx => e.access = t /\ ~c.many
    BY <1>2 DEF Claim
  <2> HIDE DEF e
  <2>2. WriteMark(c, t) = [e EXCEPT !.written = CanWrite(c, t)]
    BY <1>2 DEF WriteMark, e
  <2>3. CanWrite(c, t) \in BOOLEAN
    BY DEF CanWrite
  <2>4. CASE CanWrite(c, t)
    BY <1>2, <2>1, <2>2, <2>3, <2>4 DEF CanWrite
  <2>5. CASE ~CanWrite(c, t)
    <3>1. c.access # NoTx
      BY <1>2, <2>1, <2>5 DEF CanWrite
    <3>2. [e EXCEPT !.written = CanWrite(c, t)] = c
      BY <1>2, <2>1, <2>3, <2>5, <3>1
    <3>3. QED
      BY <2>2, <2>5, <3>1, <3>2
  <2>6. QED
    BY <2>4, <2>5
<1>3. QED
  BY <1>1, <1>2

LEMMA HandBackFacts ==
  ASSUME NEW c \in Control, Marked(c), NEW t \in Threads, IsUndoneBy(c, t)
  PROVE  HandBack(c) = FreeWord
BY DEF Control, Marked, IsUndoneBy, HandBack, FreeWord

(* Where the loop of a call is. *)
LEMMA WordOf ==
  ASSUME Calls, NEW t \in Threads, pc[t] \in Accessing \cup {"walk"}
  PROVE  /\ Word(t) \in Words /\ Word(t) = <<call[t].seg, call[t].at>>
         /\ Word(t)[1] = call[t].seg /\ Word(t)[2] = call[t].at
         /\ call[t].seg \in Segs /\ call[t].at \in Offsets /\ call[t].first \in Offsets
         /\ call[t].last \in Offsets
         /\ call[t].kind \in {"read", "write", "rollback"}
BY DEF Calls, CallOK, AccessCalls, RollbackCalls, Word, Words

LEMMA NumbersOfWords == /\ Offsets \subseteq Nat /\ 0 \in Offsets /\ WordsPerSeg - 1 \in Offsets
                        /\ \A n \in Offsets : n <= WordsPerSeg - 1
                        /\ \A m, n \in Offsets : m <= n /\ m # n => m + 1 \in Offsets /\ m + 1 <= n
BY EpochStepsAssumption DEF Offsets

LEMMA WordsAreOrdered ==
  /\ \A w \in Words : w[1] \in Segs /\ w[2] \in Nat
  /\ \A w \in Words, n \in Nat : w[2] <= n <=> w[2] < n \/ w[2] = n
<1>1. \A w \in Words : w[1] \in Segs /\ w[2] \in Offsets
  BY DEF Words
<1>2. \A w \in Words : w[1] \in Segs /\ w[2] \in Nat
  BY <1>1, NumbersOfWords
<1>3. ASSUME NEW m \in Nat, NEW n \in Nat PROVE m <= n <=> m < n \/ m = n
  OBVIOUS
<1>4. QED
  BY <1>2, <1>3

-----------------------------------------------------------------------------
(* A step of thread t leaves the other threads where they are. *)
LEMMA Frame ==
  ASSUME TypeOK, Calls, NEW t \in Threads, Step(t)
  PROVE  /\ pc' = [pc EXCEPT ![t] = pc'[t]] /\ pc'[t] \in Location
         /\ call' = [call EXCEPT ![t] = call'[t]]
         /\ \A u \in Threads \ {t} :
              /\ pc'[u] = pc[u] /\ call'[u] = call[u]
              /\ rd'[u] = rd[u] /\ wr'[u] = wr[u] /\ seen'[u] = seen[u]
         /\ pc[t] \notin Finished
<1> USE DEF TypeOK, Location, Finished
<1>0. DOMAIN call = Threads /\ call = [u \in Threads |-> call[u]]
  BY DEF Calls
<1>1. CASE \E kind \in Kinds, s \in Segs, first, last \in Offsets : Call(t, kind, s, first, last)
  BY <1>0, <1>1 DEF Call, GoTo, Memory, History
<1>2. CASE TestRead(t)
  BY <1>0, <1>2 DEF TestRead, NextWord, GoTo
<1>3. CASE TestWrite(t)
  BY <1>0, <1>3 DEF TestWrite, GoTo
<1>4. CASE Store(t) \/ Copy(t)
  BY <1>0, <1>4 DEF Store, Copy, NextWord, GoTo, History
<1>5. CASE Mark(t) \/ Insert(t)
  BY <1>0, <1>5 DEF Mark, Insert, Return, GoTo, History
<1>6. CASE Undo(t)
  BY <1>0, <1>6 DEF Undo, WalkTo, GoTo, History
<1>7. CASE Walk(t)
  BY <1>0, <1>7 DEF Walk, WalkOn, WalkTo, NextWord, GoTo, History
<1>8. CASE Commit(t) \/ Abort(t)
  BY <1>0, <1>8 DEF Commit, Abort, Leave, GoTo, History
<1>9. QED
  BY <1>1, <1>2, <1>3, <1>4, <1>5, <1>6, <1>7, <1>8 DEF Step

(* What a step makes of its thread's own call, and of the words it has       *)
(* tested: a granted test adds the word, the copies and stores go along.     *)
CallAny(t) ==
  \E kind \in Kinds, s \in Segs, first, last \in Offsets : Call(t, kind, s, first, last)

LEMMA CallCall ==
  ASSUME TypeOK, Calls, NEW t \in Threads, CallAny(t)
  PROVE  /\ CallOK(t)' /\ Tested(t)' = {} /\ pc'[t] = "test"
         /\ UNCHANGED <<Memory, History>>
<1> PICK kind \in Kinds, s \in Segs, first \in Offsets, last \in Offsets :
      Call(t, kind, s, first, last)
  BY DEF CallAny
<1>1. /\ pc'[t] = "test"
      /\ call'[t] = [kind |-> kind, seg |-> s, first |-> first, last |-> last, at |-> first]
      /\ first <= last
  BY DEF Call, GoTo, TypeOK, Calls
<1>2. kind \in {"read", "write"} /\ first \in Nat
  BY EpochStepsAssumption, NumbersOfWords
<1>3. call'[t] \in AccessCalls /\ call'[t].first <= call'[t].at /\ call'[t].at <= call'[t].last
  BY <1>1, <1>2 DEF AccessCalls
<1>4. CallOK(t)'
  BY <1>1, <1>3 DEF CallOK, Accessing, Finished
<1>5. Tested(t)' = {}
  <2> SUFFICES ASSUME NEW w \in Tested(t)' PROVE FALSE
    OBVIOUS
  <2>1. w \in Words /\ first <= w[2] /\ w[2] < first
    BY <1>1 DEF Tested
  <2>2. w[2] \in Nat
    BY <2>1, WordsAreOrdered
  <2>3. QED
    BY <2>1, <2>2, <1>2
<1>6. QED
  BY <1>1, <1>4, <1>5 DEF Call

(* The loop goes on in its segment, or starts again for what comes after.    *)
LEMMA NextWordCall ==
  ASSUME TypeOK, Calls, NEW t \in Threads, pc[t] \in {"test", "store", "copy"},
         NEW l \in {"test", "copy"}, NEW after \in {"copy", "mark"},
         NextWord(t, l, after), l = "copy" => call[t].kind = "read",
         after = "copy" => call[t].kind = "read"
  PROVE  /\ CallOK(t)'
         /\ call'[t].kind = call[t].kind /\ call'[t].seg = call[t].seg
         /\ pc'[t] \in {l, after}
         /\ \A w \in Words : w \in Tested(t)' <=>
              /\ w[1] = call[t].seg /\ call[t].first <= w[2]
              /\ w[2] <= IF l = "test" THEN call[t].at ELSE call[t].last
<1>0. /\ call[t] \in AccessCalls /\ call[t].first <= call[t].at /\ call[t].at <= call[t].last
      /\ DOMAIN call = Threads
  BY DEF Calls, CallOK, Accessing
<1>00. /\ call[t].first \in Nat /\ call[t].last \in Nat /\ call[t].at \in Nat
       /\ \A w \in Words : w[2] \in Nat
  BY <1>0, NumbersOfWords DEF AccessCalls, Words
<1>1. CASE call[t].at = call[t].last
  <2>1. pc'[t] = after /\ call'[t] = [call[t] EXCEPT !.at = call[t].first]
    BY <1>0, <1>1 DEF NextWord, GoTo, TypeOK
  <2>2. /\ call'[t] \in AccessCalls /\ call'[t].first = call[t].first
        /\ call'[t].last = call[t].last /\ call'[t].at = call[t].first
        /\ call'[t].kind = call[t].kind /\ call'[t].seg = call[t].seg
    BY <1>0, <2>1 DEF AccessCalls
  <2>3. call'[t].first <= call'[t].at /\ call'[t].at <= call'[t].last
    BY <1>0, <1>00, <2>2
  <2>4. CallOK(t)'
    BY <2>1, <2>2, <2>3 DEF CallOK, Accessing, Finished
  <2>5. \A w \in Words : w \in Tested(t)' <=>
              /\ w[1] = call[t].seg /\ call[t].first <= w[2]
              /\ w[2] <= call[t].last
    BY <2>1, <2>2 DEF Tested
  <2>6. QED
    BY <1>1, <2>1, <2>2, <2>4, <2>5
<1>2. CASE call[t].at # call[t].last
  <2>1. pc'[t] = l /\ call'[t] = [call[t] EXCEPT !.at = call[t].at + 1]
    BY <1>0, <1>2 DEF NextWord, GoTo, TypeOK
  <2>2. call[t].at + 1 \in Offsets /\ call[t].at + 1 <= call[t].last
    BY <1>0, <1>2, NumbersOfWords DEF AccessCalls
  <2>3. /\ call'[t] \in AccessCalls /\ call'[t].first = call[t].first
        /\ call'[t].last = call[t].last /\ call'[t].at = call[t].at + 1
        /\ call'[t].kind = call[t].kind /\ call'[t].seg = call[t].seg
    BY <1>0, <2>1, <2>2 DEF AccessCalls
  <2>4. call'[t].first <= call'[t].at /\ call'[t].at <= call'[t].last
    BY <1>0, <1>00, <2>2, <2>3
  <2>5. CallOK(t)'
    BY <2>1, <2>3, <2>4 DEF CallOK, Accessing, Finished
  <2>6. \A w \in Words : w[2] < call[t].at + 1 <=> w[2] <= call[t].at
    BY <1>00
  <2>7. \A w \in Words : w \in Tested(t)' <=>
              /\ w[1] = call[t].seg /\ call[t].first <= w[2]
              /\ w[2] <= IF l = "test" THEN call[t].at ELSE call[t].last
    BY <2>1, <2>3, <2>6 DEF Tested
  <2>8. QED
    BY <2>1, <2>3, <2>5, <2>7
<1>3. QED
  BY <1>1, <1>2

LEMMA GrantedReadCall ==
  ASSUME TypeOK, Calls, NEW t \in Threads, TestRead(t), CanRead(control[Word(t)], t)
  PROVE  /\ CallOK(t)' /\ Tested(t)' = Tested(t) \cup {Word(t)}
         /\ pc'[t] \in {"test", "copy"} /\ call'[t].kind = "read"
         /\ rd'[t] = rd[t] \cup {Word(t)} /\ wr'[t] = wr[t]
<1>0. /\ pc[t] = "test" /\ call[t].kind = "read" /\ NextWord(t, "test", "copy")
      /\ rd'[t] = rd[t] \cup {Word(t)} /\ wr' = wr
  BY DEF TestRead, TypeOK
<1>1. /\ CallOK(t)' /\ call'[t].kind = "read" /\ pc'[t] \in {"test", "copy"}
      /\ \A w \in Words : w \in Tested(t)' <=>
           w[1] = call[t].seg /\ call[t].first <= w[2] /\ w[2] <= call[t].at
  BY <1>0, NextWordCall
<1>2. /\ Word(t) \in Words /\ Word(t)[1] = call[t].seg /\ Word(t)[2] = call[t].at
      /\ call[t].at \in Nat /\ call[t].first <= call[t].at
  BY <1>0, WordOf, NumbersOfWords DEF Accessing, Calls, CallOK
<1>3. \A w \in Words : w \in Tested(t) <=>
        w[1] = call[t].seg /\ call[t].first <= w[2] /\ w[2] < call[t].at
  BY <1>0 DEF Tested
<1>4. \A w \in Words : w[2] <= call[t].at <=> w[2] < call[t].at \/ w[2] = call[t].at
  BY <1>2, WordsAreOrdered
<1>5. \A w \in Words : w[1] = call[t].seg /\ w[2] = call[t].at <=> w = Word(t)
  BY <1>2 DEF Words
<1>6. Tested(t)' \subseteq Words /\ Tested(t) \subseteq Words
  BY DEF Tested
<1>7. Tested(t)' = Tested(t) \cup {Word(t)}
  BY <1>1, <1>2, <1>3, <1>4, <1>5, <1>6
<1>8. QED
  BY <1>0, <1>1, <1>7

LEMMA GrantedWriteCall ==
  ASSUME TypeOK, Calls, NEW t \in Threads, TestWrite(t), CanWrite(control[Word(t)], t)
  PROVE  /\ CallOK(t)' /\ Tested(t)' = Tested(t) \cup {Word(t)}
         /\ pc'[t] = "store" /\ call' = call
         /\ wr'[t] = wr[t] \cup {Word(t)} /\ rd'[t] = rd[t]
<1>0. /\ pc[t] = "test" /\ call[t].kind = "write" /\ pc'[t] = "store" /\ call' = call
      /\ wr'[t] = wr[t] \cup {Word(t)} /\ rd' = rd
  BY DEF TestWrite, TypeOK, GoTo
<1>1. CallOK(t)'
  BY <1>0 DEF Calls, CallOK, Accessing, Finished
<1>2. /\ Word(t) \in Words /\ Word(t)[1] = call[t].seg /\ Word(t)[2] = call[t].at
      /\ call[t].at \in Nat /\ call[t].first <= call[t].at
  BY <1>0, WordOf, NumbersOfWords DEF Accessing, Calls, CallOK
<1>3. \A w \in Words :
        /\ w \in Tested(t) <=>
             w[1] = call[t].seg /\ call[t].first <= w[2] /\ w[2] < call[t].at
        /\ w \in Tested(t)' <=>
             w[1] = call[t].seg /\ call[t].first <= w[2] /\ w[2] <= call[t].at
  BY <1>0 DEF Tested
<1>4. \A w \in Words : w[2] <= call[t].at <=> w[2] < call[t].at \/ w[2] = call[t].at
  BY <1>2, WordsAreOrdered
<1>5. \A w \in Words : w[1] = call[t].seg /\ w[2] = call[t].at <=> w = Word(t)
  BY <1>2 DEF Words
<1>6. Tested(t)' \subseteq Words /\ Tested(t) \subseteq Words
  BY DEF Tested
<1>7. Tested(t)' = Tested(t) \cup {Word(t)}
  BY <1>2, <1>3, <1>4, <1>5, <1>6
<1>8. QED
  BY <1>0, <1>1, <1>7

LEMMA StoreCall ==
  ASSUME TypeOK, Calls, NEW t \in Threads, Store(t)
  PROVE  /\ CallOK(t)' /\ Tested(t)' = Tested(t)
         /\ pc'[t] \in {"test", "mark"} /\ call'[t].kind = "write"
         /\ call'[t].seg = call[t].seg
<1>0. pc[t] = "store" /\ call[t].kind = "write" /\ NextWord(t, "test", "mark")
  BY DEF Store, Calls, CallOK
<1>1. /\ CallOK(t)' /\ call'[t].kind = "write" /\ call'[t].seg = call[t].seg
      /\ pc'[t] \in {"test", "mark"}
      /\ \A w \in Words : w \in Tested(t)' <=>
           w[1] = call[t].seg /\ call[t].first <= w[2] /\ w[2] <= call[t].at
  BY <1>0, NextWordCall
<1>2. \A w \in Words : w \in Tested(t) <=>
        w[1] = call[t].seg /\ call[t].first <= w[2] /\ w[2] <= call[t].at
  BY <1>0 DEF Tested
<1>3. Tested(t)' \subseteq Words /\ Tested(t) \subseteq Words
  BY DEF Tested
<1>4. QED
  BY <1>1, <1>2, <1>3

LEMMA CopyCall ==
  ASSUME TypeOK, Calls, NEW t \in Threads, Copy(t)
  PROVE  /\ CallOK(t)' /\ Tested(t)' = Tested(t)
         /\ pc'[t] \in {"copy", "mark"} /\ call'[t].kind = "read"
<1>0. pc[t] = "copy" /\ call[t].kind = "read" /\ NextWord(t, "copy", "mark")
  BY DEF Copy, Calls, CallOK
<1>1. /\ CallOK(t)' /\ call'[t].kind = "read" /\ pc'[t] \in {"copy", "mark"}
      /\ \A w \in Words : w \in Tested(t)' <=>
           w[1] = call[t].seg /\ call[t].first <= w[2] /\ w[2] <= call[t].last
  BY <1>0, NextWordCall
<1>2. \A w \in Words : w \in Tested(t) <=>
        w[1] = call[t].seg /\ call[t].first <= w[2] /\ w[2] <= call[t].last
  BY <1>0 DEF Tested
<1>3. Tested(t)' \subseteq Words /\ Tested(t) \subseteq Words
  BY DEF Tested
<1>4. QED
  BY <1>1, <1>2, <1>3

(* The word to be copied is one of those that were tested. *)
LEMMA CopiedIsTested ==
  ASSUME Calls, NEW t \in Threads, pc[t] = "copy"
  PROVE  Word(t) \in Tested(t)
<1>1. /\ Word(t) \in Words /\ Word(t)[1] = call[t].seg /\ Word(t)[2] = call[t].at
      /\ call[t].first <= call[t].at /\ call[t].at <= call[t].last
  BY WordOf DEF Accessing, Calls, CallOK
<1>2. QED
  BY <1>1 DEF Tested

(* The steps that end a call, or go on with its rollback. *)
LEMMA OtherCalls ==
  ASSUME TypeOK, Calls, NEW t \in Threads
  PROVE  /\ TestRead(t) /\ ~CanRead(control[Word(t)], t) =>
              CallOK(t)' /\ pc'[t] = "undo" /\ call' = call /\ UNCHANGED <<rd, wr>>
         /\ TestWrite(t) /\ ~CanWrite(control[Word(t)], t) =>
              CallOK(t)' /\ pc'[t] = "undo" /\ call' = call /\ UNCHANGED <<rd, wr>>
         /\ Mark(t) => \/ CallOK(t)' /\ pc'[t] = "insert" /\ call' = call
                       \/ CallOK(t)' /\ pc'[t] = "running" /\ dirty' = dirty
         /\ Insert(t) => CallOK(t)' /\ pc'[t] = "running"
<1> USE DEF TypeOK, GoTo
<1>0. DOMAIN call = Threads
  BY DEF Calls
<1>1. ASSUME TestRead(t) \/ TestWrite(t), pc'[t] = "undo", call' = call PROVE CallOK(t)'
  BY <1>1 DEF TestRead, TestWrite, Calls, CallOK, Accessing, Finished
<1>2. TestRead(t) /\ ~CanRead(control[Word(t)], t) =>
        pc'[t] = "undo" /\ call' = call /\ UNCHANGED <<rd, wr>>
  BY DEF TestRead
<1>3. TestWrite(t) /\ ~CanWrite(control[Word(t)], t) =>
        pc'[t] = "undo" /\ call' = call /\ UNCHANGED <<rd, wr>>
  BY DEF TestWrite
<1>4. ASSUME Mark(t) PROVE \/ CallOK(t)' /\ pc'[t] = "insert" /\ call' = call
                           \/ CallOK(t)' /\ pc'[t] = "running" /\ dirty' = dirty
  <2>1. CASE dirty[call[t].seg]
    BY <1>0, <1>4, <2>1 DEF Mark, Return, CallOK, Accessing, Finished
  <2>2. CASE ~dirty[call[t].seg]
    BY <1>0, <1>4, <2>2 DEF Mark, Return, Calls, CallOK, Accessing, Finished
  <2>3. QED
    BY <2>1, <2>2
<1>5. ASSUME Insert(t) PROVE CallOK(t)' /\ pc'[t] = "running"
  BY <1>0, <1>5 DEF Insert, Return, CallOK, Accessing, Finished
<1>6. QED
  BY <1>1, <1>2, <1>3, <1>4, <1>5
(* The walk: the places it visits are places of the dirty list. *)
LEMMA AfterIsThere ==
  ASSUME dirtyList \in Seq(Segs), NEW i \in Nat \ {0}, i <= Len(dirtyList)
  PROVE  /\ After(i) \in Nat \ {0} /\ After(i) <= Len(dirtyList)
         /\ dirtyList[After(i)] \in Segs
<1>1. Len(dirtyList) \in Nat /\ \A j \in 1 .. Len(dirtyList) : dirtyList[j] \in Segs
  BY LenProperties, ElementOfSeq
<1>2. After(i) \in 1 .. Len(dirtyList)
  BY <1>1 DEF After
<1>3. QED
  BY <1>1, <1>2

LEMMA WalkToCall ==
  ASSUME TypeOK, Calls, NEW t \in Threads, NEW i \in Nat \ {0}, i <= Len(dirtyList),
         dirtyList' = dirtyList, WalkTo(t, After(i))
  PROVE  CallOK(t)' /\ pc'[t] = "walk"
<1>1. /\ After(i) \in Nat \ {0} /\ After(i) <= Len(dirtyList)
      /\ dirtyList[After(i)] \in Segs
  BY AfterIsThere DEF TypeOK
<1>2. /\ pc'[t] = "walk"
      /\ call'[t] = [kind |-> "rollback", link |-> After(i), seg |-> dirtyList[After(i)],
                     first |-> 0, last |-> WordsPerSeg - 1, at |-> 0]
  BY DEF WalkTo, GoTo, TypeOK, Calls
<1>3. /\ call'[t] \in RollbackCalls /\ call'[t].first = 0
      /\ call'[t].last = WordsPerSeg - 1 /\ call'[t].link = After(i)
  BY <1>1, <1>2, NumbersOfWords DEF RollbackCalls
<1>4. QED
  BY <1>1, <1>2, <1>3 DEF CallOK, Accessing, Finished

LEMMA UndoCall ==
  ASSUME TypeOK, Calls, NEW t \in Threads, Undo(t)
  PROVE  CallOK(t)' /\ pc'[t] \in {"walk", "leave"}
<1>1. CASE dirtyList = <<>> /\ GoTo(t, "leave") /\ UNCHANGED call
  BY <1>1 DEF CallOK, Accessing, Finished, GoTo, TypeOK
<1>2. CASE dirtyList # <<>> /\ WalkTo(t, After(1))
  <2>1. 1 \in Nat \ {0} /\ 1 <= Len(dirtyList) /\ dirtyList' = dirtyList
    BY <1>2, EmptySeq, LenProperties DEF TypeOK, Undo, Memory
  <2>2. QED
    BY <1>2, <2>1, WalkToCall
<1>3. QED
  BY <1>1, <1>2 DEF Undo

LEMMA WalkCall ==
  ASSUME TypeOK, Calls, NEW t \in Threads, Walk(t)
  PROVE  CallOK(t)' /\ pc'[t] \in {"walk", "leave"}
<1>0. /\ pc[t] = "walk" /\ dirtyList' = dirtyList /\ DOMAIN call = Threads
      /\ call[t] \in RollbackCalls /\ call[t].link <= Len(dirtyList)
      /\ call[t].first = 0 /\ call[t].last = WordsPerSeg - 1
  BY DEF Walk, Calls, CallOK
<1>1. CASE call[t].at # call[t].last /\ NextWord(t, "walk", "walk")
  <2>1. pc'[t] = "walk" /\ call'[t] = [call[t] EXCEPT !.at = call[t].at + 1]
    BY <1>0, <1>1 DEF NextWord, GoTo, TypeOK
  <2>2. call[t].at + 1 \in Offsets
    BY <1>0, <1>1, NumbersOfWords DEF RollbackCalls
  <2>3. /\ call'[t] \in RollbackCalls /\ call'[t].first = call[t].first
        /\ call'[t].last = call[t].last /\ call'[t].link = call[t].link
    BY <1>0, <2>1, <2>2 DEF RollbackCalls
  <2>4. QED
    BY <1>0, <2>1, <2>3 DEF CallOK, Accessing, Finished
<1>2. CASE GoTo(t, "leave") /\ UNCHANGED call
  BY <1>0, <1>2 DEF CallOK, Accessing, Finished, GoTo, TypeOK
<1>3. CASE WalkTo(t, After(call[t].link))
  <2>1. call[t].link \in Nat \ {0}
    BY <1>0 DEF RollbackCalls
  <2>2. QED
    BY <1>0, <1>3, <2>1, WalkToCall
<1>4. QED
  BY <1>1, <1>2, <1>3 DEF Walk, WalkOn

LEMMA LeaveCall ==
  ASSUME TypeOK, Calls, NEW t \in Threads, NEW fate \in Finished, Leave(t, fate)
  PROVE  CallOK(t)' /\ pc'[t] = fate /\ Tested(t)' = {}
<1>1. pc'[t] = fate /\ call'[t] = NoCall
  BY DEF Leave, GoTo, TypeOK, Calls
<1>2. QED
  BY <1>1 DEF CallOK, Accessing, Finished, Tested

-----------------------------------------------------------------------------
(* What a step of t leaves alone of the others. *)
LEMMA Others ==
  ASSUME TypeOK, Calls, NEW t \in Threads, Step(t), NEW u \in Threads, u # t
  PROVE  /\ pc'[u] = pc[u] /\ call'[u] = call[u]
         /\ rd'[u] = rd[u] /\ wr'[u] = wr[u] /\ seen'[u] = seen[u]
         /\ Doomed(u)' <=> Doomed(u)
         /\ Tested(u)' = Tested(u) /\ Word(u)' = Word(u)
         /\ \A s \in Segs : Inserting(u, s)' <=> Inserting(u, s)
<1>1. /\ pc'[u] = pc[u] /\ call'[u] = call[u]
      /\ rd'[u] = rd[u] /\ wr'[u] = wr[u] /\ seen'[u] = seen[u]
  BY Frame
<1>2. Tested(u)' = Tested(u)
  BY <1>1 DEF Tested
<1>3. QED
  BY <1>1, <1>2 DEF Doomed, Word, Inserting

LEMMA CallsStep ==
  ASSUME TypeOK, Calls, NEW t \in Threads, Step(t), CallOK(t)',
         \A i \in Nat : i <= Len(dirtyList) => i <= Len(dirtyList')
  PROVE  Calls'
<1>1. call' = [u \in Threads |-> call'[u]]
  BY Frame DEF Calls
<1>2. ASSUME NEW u \in Threads, u # t PROVE CallOK(u)'
  <2>1. CallOK(u) /\ pc'[u] = pc[u] /\ call'[u] = call[u]
    BY <1>2, Others DEF Calls
  <2>2. call[u] \in RollbackCalls => call[u].link \in Nat
    BY DEF RollbackCalls
  <2>3. QED
    BY <2>1, <2>2 DEF CallOK
<1>3. QED
  BY <1>1, <1>2 DEF Calls
-----------------------------------------------------------------------------
(* Each part of the invariant, for all the steps that disturb it as little   *)
(* as most do.                                                               *)
LEMMA MarksStep ==
  ASSUME TypeOK, Marks, NEW w \in Words, NEW d \in Control, Marked(d),
         control' = [control EXCEPT ![w] = d]
  PROVE  Marks'
BY DEF TypeOK, Marks, Marked, FreeWord

(* No mark is lost that another thread relies on. *)
KeepsMarks(u) ==
  \A w \in Words :
    /\ control[w].written /\ control[w].access = u =>
         control'[w].written /\ control'[w].access = u
    /\ control[w].access = u \/ control[w].many =>
         control'[w].access = u \/ control'[w].many

LEMMA HeldStep ==
  ASSUME TypeOK, Calls, Held, NEW t \in Threads, Step(t),
         \A u \in Threads \ {t} : ~Doomed(u) => KeepsMarks(u),
         ~Doomed(t)' => ~Doomed(t) /\ KeepsMarks(t),
         \A w \in wr'[t] \ wr[t] : control'[w].written /\ control'[w].access = t,
         \A w \in rd'[t] \ rd[t] : control'[w].access = t \/ control'[w].many
  PROVE  Held'
<1>1. ASSUME NEW u \in Threads, u # t, ~Doomed(u)', NEW w \in Words
      PROVE  /\ w \in wr'[u] => control'[w].written /\ control'[w].access = u
             /\ w \in rd'[u] => control'[w].access = u \/ control'[w].many
  <2>1. ~Doomed(u) /\ wr'[u] = wr[u] /\ rd'[u] = rd[u]
    BY <1>1, Others
  <2>2. QED
    BY <1>1, <2>1 DEF Held, KeepsMarks
<1>2. ASSUME ~Doomed(t)', NEW w \in Words
      PROVE  /\ w \in wr'[t] => control'[w].written /\ control'[w].access = t
             /\ w \in rd'[t] => control'[w].access = t \/ control'[w].many
  BY <1>2 DEF Held, KeepsMarks
<1>3. QED
  BY <1>1, <1>2 DEF Held

LEMMA GrantedStep ==
  ASSUME TypeOK, Calls, Granted, NEW t \in Threads, Step(t),
         pc'[t] = "store" => Word(t)' \in wr'[t],
         pc'[t] \in {"test", "copy"} /\ call'[t].kind = "read" => Tested(t)' \subseteq rd'[t]
  PROVE  Granted'
<1>1. ASSUME NEW u \in Threads, u # t
      PROVE  /\ pc'[u] = "store" => Word(u)' \in wr'[u]
             /\ pc'[u] \in {"test", "copy"} /\ call'[u].kind = "read" =>
                  Tested(u)' \subseteq rd'[u]
  BY <1>1, Others DEF Granted
<1>2. QED
  BY <1>1 DEF Granted

LEMMA ContentStep ==
  ASSUME Content, UNCHANGED <<read, write>>,
         \A w \in Words : control[w].written =>
           control'[w].written /\ control'[w].access = control[w].access
  PROVE  Content'
BY DEF Content

LEMMA StoredStep ==
  ASSUME TypeOK, Calls, Stored, NEW t \in Threads, Step(t),
         \A u \in Threads \ {t} : ~Doomed(u) =>
           \A w \in wr[u] : write[w] = u => write'[w] = u,
         ~Doomed(t)' =>
           \A w \in wr'[t] : write'[w] = t \/ (pc'[t] = "store" /\ w = Word(t)')
  PROVE  Stored'
<1>1. ASSUME NEW u \in Threads, u # t, ~Doomed(u)', NEW w \in wr'[u]
      PROVE  write'[w] = u \/ (pc'[u] = "store" /\ w = Word(u)')
  <2>1. ~Doomed(u) /\ wr'[u] = wr[u] /\ pc'[u] = pc[u] /\ Word(u)' = Word(u)
    BY <1>1, Others
  <2>2. QED
    BY <1>1, <2>1 DEF Stored
<1>2. QED
  BY <1>1 DEF Stored

LEMMA TrackedStep ==
  ASSUME TypeOK, Calls, Tracked, NEW t \in Threads, Step(t),
         \A s \in Segs : dirty[s] => dirty'[s],
         ~Doomed(t)' => \A w \in wr'[t] :
           \/ dirty'[w[1]]
           \/ /\ pc'[t] \in {"test", "store", "mark"}
              /\ call'[t].kind = "write" /\ call'[t].seg = w[1]
  PROVE  Tracked'
<1>1. ASSUME NEW u \in Threads, u # t, ~Doomed(u)', NEW w \in wr'[u]
      PROVE  \/ dirty'[w[1]]
             \/ /\ pc'[u] \in {"test", "store", "mark"}
                /\ call'[u].kind = "write" /\ call'[u].seg = w[1]
  <2>1. ~Doomed(u) /\ wr'[u] = wr[u] /\ pc'[u] = pc[u] /\ call'[u] = call[u]
    BY <1>1, Others
  <2>2. w \in Words /\ w[1] \in Segs
    BY <1>1, <2>1, WordsAreOrdered DEF TypeOK
  <2>3. QED
    BY <1>1, <2>1, <2>2 DEF Tracked
<1>2. QED
  BY <1>1 DEF Tracked

LEMMA ListsStep ==
  ASSUME TypeOK, Calls, Lists, NEW t \in Threads, Step(t), UNCHANGED <<dirty, dirtyList>>,
         pc[t] # "insert", pc'[t] # "insert"
  PROVE  Lists'
<1>1. \A s \in Segs : Listed(s)' <=> Listed(s)
  BY DEF Listed
<1>2. \A u \in Threads, s \in Segs : Inserting(u, s)' <=> Inserting(u, s)
  <2>1. \A s \in Segs : Inserting(t, s)' <=> Inserting(t, s)
    BY DEF Inserting
  <2>2. QED
    BY <2>1, Others
<1>3. QED
  BY <1>1, <1>2 DEF Lists

(* The thread that follows a mark stays the one, as long as the words it has *)
(* tested stay tested.                                                       *)
LEMMA FollowedStep ==
  ASSUME TypeOK, Calls, Followed, NEW t \in Threads, Step(t),
         \A s \in Segs : dirty[s] => dirty'[s],
         \A w \in Words : control'[w].access # NoTx =>
           control[w].access # NoTx \/ w \in Tested(t)',
         \A w \in Tested(t) : dirty'[w[1]] \/ w \in Tested(t)'
  PROVE  Followed'
<1> SUFFICES ASSUME NEW w \in Words, control'[w].access # NoTx, ~dirty'[w[1]]
             PROVE  \E u \in Threads : \E x \in Tested(u)' : x[1] = w[1] /\ w[2] <= x[2]
  BY DEF Followed
<1>0. w[1] \in Segs /\ ~dirty[w[1]] /\ w[2] <= w[2]
  BY WordsAreOrdered
<1>1. CASE w \in Tested(t)'
  BY <1>0, <1>1
<1>2. CASE control[w].access # NoTx
  <2>1. PICK u \in Threads : \E x \in Tested(u) : x[1] = w[1] /\ w[2] <= x[2]
    BY <1>0, <1>2 DEF Followed
  <2>2. PICK x \in Tested(u) : x[1] = w[1] /\ w[2] <= x[2]
    BY <2>1
  <2>3. x \in Tested(u)'
    BY <2>2, Others
  <2>4. QED
    BY <2>2, <2>3
<1>3. QED
  BY <1>1, <1>2
-----------------------------------------------------------------------------
(* Every step, up to the last one of the epoch. *)
Kept == TypeOK' /\ SnapshotReads' /\ Ongoing'

LEMMA SameSeen ==
  ASSUME SnapshotReads, seen' = seen
  PROVE  SnapshotReads'
BY DEF SnapshotReads

LEMMA SameControl ==
  ASSUME control' = control
  PROVE  /\ \A u \in Threads : KeepsMarks(u)
         /\ Marks => Marks'
         /\ UNCHANGED <<read, write>> /\ Content => Content'
BY DEF KeepsMarks, Marks, Content

LEMMA KeptByCall ==
  ASSUME TypeOK, SnapshotReads, Ongoing, NEW t \in Threads, CallAny(t)
  PROVE  Kept
<1> USE DEF Ongoing
<1>0. Step(t)
  BY DEF Step, CallAny
<1>1. /\ CallOK(t)' /\ Tested(t)' = {} /\ pc'[t] = "test" /\ pc[t] = "running"
      /\ UNCHANGED <<control, read, write, dirty, dirtyList, rd, wr, seen>>
  BY CallCall DEF CallAny, Call, Memory, History
<1>2. TypeOK' /\ SnapshotReads'
  BY <1>0, <1>1, Frame, SameSeen DEF TypeOK
<1>3. Tested(t) = {} /\ ~Doomed(t) /\ ~Doomed(t)'
  BY <1>1 DEF Tested, Doomed
<1>4. Calls'
  BY <1>0, <1>1, CallsStep
<1>5. Marks' /\ Content'
  BY <1>1, SameControl
<1>6. Held'
  BY <1>0, <1>1, <1>3, SameControl, HeldStep
<1>7. Granted'
  BY <1>0, <1>1, GrantedStep
<1>8. Stored'
  BY <1>0, <1>1, <1>3, StoredStep DEF Stored
<1>9. Tracked'
  BY <1>0, <1>1, <1>3, TrackedStep DEF Tracked
<1>10. Lists'
  BY <1>0, <1>1, ListsStep
<1>11. Followed'
  BY <1>0, <1>1, <1>3, FollowedStep
<1>12. QED
  BY <1>2, <1>4, <1>5, <1>6, <1>7, <1>8, <1>9, <1>10, <1>11 DEF Kept

(* can_read_word, granted. *)
LEMMA KeptByGrantedRead ==
  ASSUME TypeOK, SnapshotReads, Ongoing, NEW t \in Threads, TestRead(t),
         CanRead(control[Word(t)], t)
  PROVE  Kept
<1> USE DEF Ongoing
<1> DEFINE w == Word(t)
           d == ReadMark(control[w], t)
<1>0. Step(t)
  BY DEF Step
<1>1. /\ pc[t] = "test" /\ call[t].kind = "read" /\ w \in Words
      /\ control' = [control EXCEPT ![w] = d]
      /\ UNCHANGED <<read, write, dirty, dirtyList, wr, seen>>
  BY WordOf DEF TestRead, Accessing
<1>2. /\ CallOK(t)' /\ Tested(t)' = Tested(t) \cup {w}
      /\ pc'[t] \in {"test", "copy"} /\ call'[t].kind = "read"
      /\ rd'[t] = rd[t] \cup {w}
  BY GrantedReadCall
<1>3. control[w] \in Control /\ Marked(control[w]) /\ control' \in [Words -> [access : Threads \cup {NoTx}, written : BOOLEAN, many : BOOLEAN]]
  <2>1. control[w] \in Control /\ Marked(control[w])
    BY <1>1 DEF TypeOK, Control, Marks, Marked
  <2>2. d \in Control
    BY <2>1, ReadMarkFacts
  <2>3. QED
    BY <1>1, <2>1, <2>2 DEF TypeOK, Control
<1>4. /\ d \in Control /\ Marked(d) /\ d.written = control[w].written
      /\ control[w].access # NoTx => d.access = control[w].access
      /\ control[w].many => d.many
      /\ d.access = t \/ d.many
  BY <1>3, ReadMarkFacts
<1> HIDE DEF d, w
<1>5. TypeOK' /\ SnapshotReads'
  <2>1. rd' = [rd EXCEPT ![t] = @ \cup {w}]
    BY <1>1 DEF TestRead, w
  <2>2. rd' \in [Threads -> SUBSET Words]
    BY <1>1, <2>1 DEF TypeOK
  <2>3. pc' \in [Threads -> Location]
    BY <1>0, Frame DEF TypeOK
  <2>4. QED
    BY <1>1, <1>3, <2>2, <2>3, SameSeen DEF TypeOK
<1>6. ~Doomed(t) /\ ~Doomed(t)'
  BY <1>1, <1>2 DEF Doomed
<1>7. \A x \in Words : /\ x # w => control'[x] = control[x]
                       /\ x = w => control'[x] = d
  BY <1>1 DEF TypeOK
<1>8. \A u \in Threads : KeepsMarks(u)
  BY <1>4, <1>7, EpochStepsAssumption DEF KeepsMarks
<1>9. Calls'
  BY <1>0, <1>1, <1>2, CallsStep
<1>10. Marks'
  BY <1>1, <1>4, MarksStep
<1>11. Held'
  BY <1>0, <1>1, <1>2, <1>4, <1>6, <1>7, <1>8, HeldStep
<1>12. Granted'
  <2>1. Tested(t)' \subseteq rd'[t]
    BY <1>1, <1>2 DEF Granted
  <2>2. QED
    BY <1>0, <1>2, <2>1, GrantedStep
<1>13. Content'
  <2>1. \A x \in Words : control[x].written =>
          control'[x].written /\ control'[x].access = control[x].access
    BY <1>4, <1>7, EpochStepsAssumption DEF Marks, FreeWord
  <2>2. QED
    BY <1>1, <2>1, ContentStep
<1>14. Stored'
  BY <1>0, <1>1, <1>6, StoredStep DEF Stored
<1>15. Tracked'
  BY <1>0, <1>1, <1>6, TrackedStep DEF Tracked
<1>16. Lists'
  BY <1>0, <1>1, <1>2, ListsStep
<1>17. Followed'
  BY <1>0, <1>1, <1>2, <1>7, FollowedStep
<1>18. QED
  BY <1>5, <1>9, <1>10, <1>11, <1>12, <1>13, <1>14, <1>15, <1>16, <1>17 DEF Kept

(* can_write_word, granted. *)
LEMMA KeptByGrantedWrite ==
  ASSUME TypeOK, SnapshotReads, Ongoing, NEW t \in Threads, TestWrite(t),
         CanWrite(control[Word(t)], t)
  PROVE  Kept
<1> USE DEF Ongoing
<1> DEFINE w == Word(t)
           d == WriteMark(control[w], t)
<1>0. Step(t)
  BY DEF Step
<1>1. /\ pc[t] = "test" /\ call[t].kind = "write" /\ w \in Words
      /\ control' = [control EXCEPT ![w] = d]
      /\ UNCHANGED <<read, write, dirty, dirtyList, rd, seen>>
  BY WordOf DEF TestWrite, Accessing
<1>2. /\ CallOK(t)' /\ Tested(t)' = Tested(t) \cup {w}
      /\ pc'[t] = "store" /\ call' = call /\ wr'[t] = wr[t] \cup {w}
      /\ Word(t)' = w /\ call[t].seg = w[1]
  BY <1>1, GrantedWriteCall, WordOf DEF Word, Accessing
<1>3. control[w] \in Control /\ Marked(control[w])
  BY <1>1 DEF TypeOK, Control, Marks, Marked
<1>4. /\ d \in Control /\ Marked(d) /\ d.written /\ d.access = t
      /\ ~control[w].many /\ control[w].access \in {NoTx, t}
  BY <1>3, WriteMarkFacts
<1> HIDE DEF d, w
<1>5. TypeOK' /\ SnapshotReads'
  <2>1. wr' = [wr EXCEPT ![t] = @ \cup {w}]
    BY <1>4, <1>2 DEF TestWrite, w
  <2>2. wr' \in [Threads -> SUBSET Words]
    BY <1>1, <2>1 DEF TypeOK
  <2>3. pc' \in [Threads -> Location]
    BY <1>0, Frame DEF TypeOK
  <2>4. control' \in [Words -> [access : Threads \cup {NoTx}, written : BOOLEAN,
                                many : BOOLEAN]]
    BY <1>1, <1>4 DEF TypeOK, Control
  <2>5. QED
    BY <1>1, <2>2, <2>3, <2>4, SameSeen DEF TypeOK
<1>6. ~Doomed(t) /\ ~Doomed(t)'
  BY <1>1, <1>2 DEF Doomed
<1>7. \A x \in Words : /\ x # w => control'[x] = control[x]
                       /\ x = w => control'[x] = d
  BY <1>1 DEF TypeOK
<1>8. \A u \in Threads : KeepsMarks(u)
  BY <1>4, <1>7, EpochStepsAssumption DEF KeepsMarks
<1>9. Calls'
  BY <1>0, <1>1, <1>2, CallsStep
<1>10. Marks'
  BY <1>1, <1>4, MarksStep
<1>11. Held'
  BY <1>0, <1>1, <1>2, <1>4, <1>6, <1>7, <1>8, HeldStep
<1>12. Granted'
  BY <1>0, <1>2, GrantedStep
<1>13. Content'
  <2>1. \A x \in Words : control[x].written =>
          control'[x].written /\ control'[x].access = control[x].access
    BY <1>4, <1>7, EpochStepsAssumption DEF Marks, FreeWord
  <2>2. QED
    BY <1>1, <2>1, ContentStep
<1>14. Stored'
  BY <1>0, <1>1, <1>2, <1>6, StoredStep DEF Stored
<1>15. Tracked'
  BY <1>0, <1>1, <1>2, <1>6, TrackedStep DEF Tracked
<1>16. Lists'
  BY <1>0, <1>1, <1>2, ListsStep
<1>17. Followed'
  BY <1>0, <1>1, <1>2, <1>7, FollowedStep
<1>18. QED
  BY <1>5, <1>9, <1>10, <1>11, <1>12, <1>13, <1>14, <1>15, <1>16, <1>17 DEF Kept
(* A test that is refused changes no mark, and the word it was refused at is *)
(* followed by another thread, which takes over the words tested before it.  *)
LEMMA KeptByRefusal ==
  ASSUME TypeOK, SnapshotReads, Ongoing, NEW t \in Threads,
         \/ TestRead(t) /\ ~CanRead(control[Word(t)], t)
         \/ TestWrite(t) /\ ~CanWrite(control[Word(t)], t)
  PROVE  Kept
<1> USE DEF Ongoing
<1> DEFINE w == Word(t)
<1>0. Step(t)
  BY DEF Step
<1>1. /\ pc[t] = "test" /\ CallOK(t)' /\ pc'[t] = "undo"
      /\ UNCHANGED <<call, read, write, dirty, dirtyList, rd, wr, seen>>
  BY OtherCalls DEF TestRead, TestWrite
<1>2. /\ w \in Words /\ w[1] = call[t].seg /\ w[2] = call[t].at
      /\ control[w] \in Control /\ Marked(control[w])
  BY <1>1, WordOf DEF Accessing, TypeOK, Control, Marks, Marked
<1>3. control' = control /\ control[w].access # NoTx
  <2>1. CASE TestRead(t) /\ ~CanRead(control[w], t)
    <3>1. control' = [control EXCEPT ![w] = ReadMark(control[w], t)]
      BY <2>1 DEF TestRead
    <3>2. ReadMark(control[w], t) = control[w] /\ control[w].access # NoTx
      BY <1>2, <2>1, ReadMarkFacts
    <3>3. QED
      BY <1>2, <3>1, <3>2 DEF TypeOK
  <2>2. CASE TestWrite(t) /\ ~CanWrite(control[w], t)
    <3>1. control' = [control EXCEPT ![w] = WriteMark(control[w], t)]
      BY <2>2 DEF TestWrite
    <3>2. WriteMark(control[w], t) = control[w] /\ control[w].access # NoTx
      BY <1>2, <2>2, WriteMarkFacts
    <3>3. QED
      BY <1>2, <3>1, <3>2 DEF TypeOK
  <2>3. QED
    BY <2>1, <2>2
<1> HIDE DEF w
<1>4. TypeOK' /\ SnapshotReads'
  BY <1>0, <1>1, <1>3, Frame, SameSeen DEF TypeOK
<1>5. Doomed(t)' /\ Tested(t)' = {}
  BY <1>1 DEF Doomed, Tested
<1>6. Calls'
  BY <1>0, <1>1, CallsStep
<1>7. Marks' /\ Content'
  BY <1>1, <1>3, SameControl
<1>8. Held'
  BY <1>0, <1>1, <1>3, <1>5, SameControl, HeldStep
<1>9. Granted'
  BY <1>0, <1>1, GrantedStep
<1>10. Stored'
  BY <1>0, <1>1, <1>5, StoredStep
<1>11. Tracked'
  BY <1>0, <1>1, <1>5, TrackedStep
<1>12. Lists'
  BY <1>0, <1>1, ListsStep
<1>13. Followed'
  <2> SUFFICES ASSUME NEW x \in Words, control[x].access # NoTx, ~dirty[x[1]]
               PROVE  \E u \in Threads : \E z \in Tested(u)' : z[1] = x[1] /\ x[2] <= z[2]
    BY <1>1, <1>3 DEF Followed
  <2>1. PICK u \in Threads : \E z \in Tested(u) : z[1] = x[1] /\ x[2] <= z[2]
    BY DEF Followed
  <2>2. PICK z \in Tested(u) : z[1] = x[1] /\ x[2] <= z[2]
    BY <2>1
  <2>3. CASE u # t
    BY <1>0, <2>2, <2>3, Others
  <2>4. CASE u = t
    <3>1. z \in Words /\ z[1] = w[1] /\ z[2] < w[2]
      BY <1>1, <1>2, <2>2, <2>4 DEF Tested
    <3>2. PICK v \in Threads : \E y \in Tested(v) : y[1] = w[1] /\ w[2] <= y[2]
      BY <1>2, <1>3, <2>2, <3>1 DEF Followed
    <3>3. PICK y \in Tested(v) : y[1] = w[1] /\ w[2] <= y[2]
      BY <3>2
    <3>4. /\ x[2] \in Nat /\ y \in Words /\ y[2] \in Nat /\ w[2] \in Nat /\ z[2] \in Nat
      BY <1>2, <3>1, WordsAreOrdered DEF Tested
    <3>5. v # t
      <4>1. v = t => y[2] < w[2]
        BY <1>1, <1>2, <3>3 DEF Tested
      <4>2. QED
        BY <3>3, <3>4, <4>1
    <3>6. y[1] = x[1] /\ x[2] <= y[2]
      BY <2>2, <3>1, <3>3, <3>4
    <3>7. QED
      BY <1>0, <3>3, <3>5, <3>6, Others
  <2>5. QED
    BY <2>3, <2>4
<1>14. QED
  BY <1>4, <1>6, <1>7, <1>8, <1>9, <1>10, <1>11, <1>12, <1>13 DEF Kept

(* _tm_write, one word. *)
LEMMA KeptByStore ==
  ASSUME TypeOK, SnapshotReads, Ongoing, NEW t \in Threads, Store(t)
  PROVE  Kept
<1> USE DEF Ongoing
<1> DEFINE w == Word(t)
<1>0. Step(t)
  BY DEF Step
<1>1. /\ pc[t] = "store" /\ w \in Words /\ write' = [write EXCEPT ![w] = t]
      /\ call[t].kind = "write" /\ call[t].seg = w[1]
      /\ UNCHANGED <<control, read, dirty, dirtyList, rd, wr, seen>>
  BY WordOf DEF Store, Accessing, History, Calls, CallOK
<1>2. /\ CallOK(t)' /\ Tested(t)' = Tested(t) /\ pc'[t] \in {"test", "mark"}
      /\ call'[t].kind = "write" /\ call'[t].seg = call[t].seg
  BY StoreCall
<1> HIDE DEF w
<1>3. ~Doomed(t) /\ ~Doomed(t)'
  BY <1>1, <1>2 DEF Doomed
<1>4. w \in wr[t] /\ control[w].written /\ control[w].access = t
  BY <1>1, <1>3 DEF Granted, Held, w
<1>5. TypeOK' /\ SnapshotReads'
  BY <1>0, <1>1, Frame, SameSeen DEF TypeOK
<1>6. \A x \in Words : x # w => write'[x] = write[x]
  BY <1>1 DEF TypeOK
<1>7. write'[w] = t
  BY <1>1 DEF TypeOK
<1>8. Calls'
  BY <1>0, <1>1, <1>2, CallsStep
<1>9. Marks'
  BY <1>1, SameControl
<1>10. Held'
  BY <1>0, <1>1, <1>3, SameControl, HeldStep
<1>11. Granted'
  BY <1>0, <1>2, GrantedStep
<1>12. Content'
  BY <1>1, <1>4, <1>6, <1>7 DEF Content
<1>13. Stored'
  <2>1. ASSUME NEW u \in Threads, u # t, ~Doomed(u), NEW x \in wr[u], write[x] = u
        PROVE  write'[x] = u
    <3>1. x \in Words /\ control[x].access = u
      BY <2>1 DEF Held, TypeOK
    <3>2. QED
      BY <1>4, <1>6, <2>1, <3>1
  <2>2. ASSUME NEW x \in wr[t]
        PROVE  write'[x] = t
    <3>1. x \in Words /\ (write[x] = t \/ x = w)
      BY <1>3 DEF Stored, TypeOK, w
    <3>2. QED
      BY <1>6, <1>7, <3>1
  <2>3. QED
    BY <1>0, <1>1, <2>1, <2>2, StoredStep
<1>14. Tracked'
  <2>1. ASSUME NEW x \in wr[t] PROVE dirty[x[1]] \/ call[t].seg = x[1]
    BY <1>3 DEF Tracked
  <2>2. QED
    BY <1>0, <1>1, <1>2, <2>1, TrackedStep
<1>15. Lists'
  BY <1>0, <1>1, <1>2, ListsStep
<1>16. Followed'
  BY <1>0, <1>1, <1>2, FollowedStep
<1>17. QED
  BY <1>5, <1>8, <1>9, <1>10, <1>11, <1>12, <1>13, <1>14, <1>15, <1>16 DEF Kept

(* tm_read, one word: all of the call's words were granted before, so what   *)
(* the word holds is committed or the reader's own.                          *)
LEMMA KeptByCopy ==
  ASSUME TypeOK, SnapshotReads, Ongoing, NEW t \in Threads, Copy(t)
  PROVE  Kept
<1> USE DEF Ongoing
<1> DEFINE w == Word(t)
<1>0. Step(t)
  BY DEF Step
<1>1. /\ pc[t] = "copy" /\ w \in Words /\ seen' = [seen EXCEPT ![t] = @ \cup {write[w]}]
      /\ call[t].kind = "read"
      /\ UNCHANGED <<control, read, write, dirty, dirtyList, rd, wr>>
  BY WordOf DEF Copy, Accessing, Memory, Calls, CallOK
<1>2. /\ CallOK(t)' /\ Tested(t)' = Tested(t) /\ pc'[t] \in {"copy", "mark"}
      /\ call'[t].kind = "read"
  BY CopyCall
<1>3. ~Doomed(t) /\ ~Doomed(t)' /\ w \in Tested(t)
  BY <1>1, <1>2, CopiedIsTested DEF Doomed
<1> HIDE DEF w
<1>4. write[w] \in {NoTx, t}
  <2>1. w \in rd[t]
    BY <1>1, <1>3 DEF Granted
  <2>2. control[w].access = t \/ control[w].many
    BY <1>1, <1>3, <2>1 DEF Held
  <2>3. QED
    BY <1>1, <2>2 DEF Content, Marks
<1>5. SnapshotReads'
  BY <1>1, <1>4 DEF SnapshotReads, TypeOK
<1>6. TypeOK'
  <2>1. seen' \in [Threads -> SUBSET (Threads \cup {NoTx})]
    BY <1>1, <1>4 DEF TypeOK
  <2>2. pc' \in [Threads -> Location]
    BY <1>0, Frame DEF TypeOK
  <2>3. QED
    BY <1>1, <2>1, <2>2 DEF TypeOK
<1>7. Calls'
  BY <1>0, <1>1, <1>2, CallsStep
<1>8. Marks' /\ Content'
  BY <1>1, SameControl
<1>9. Held'
  BY <1>0, <1>1, <1>3, SameControl, HeldStep
<1>10. Granted'
  BY <1>0, <1>1, <1>2, GrantedStep DEF Granted
<1>11. Stored'
  BY <1>0, <1>1, <1>3, StoredStep DEF Stored
<1>12. Tracked'
  BY <1>0, <1>1, <1>3, TrackedStep DEF Tracked
<1>13. Lists'
  BY <1>0, <1>1, <1>2, ListsStep
<1>14. Followed'
  BY <1>0, <1>1, <1>2, FollowedStep
<1>15. QED
  BY <1>5, <1>6, <1>7, <1>8, <1>9, <1>10, <1>11, <1>12, <1>13, <1>14 DEF Kept
(* move_to_dirty: whoever's CAS succeeds will insert the segment. *)
LEMMA KeptByMark ==
  ASSUME TypeOK, SnapshotReads, Ongoing, NEW t \in Threads, Mark(t)
  PROVE  Kept
<1> USE DEF Ongoing
<1> DEFINE s == call[t].seg
<1>0. Step(t)
  BY DEF Step
<1>1. /\ pc[t] = "mark" /\ s \in Segs
      /\ UNCHANGED <<control, read, write, dirtyList, rd, wr, seen>>
  BY WordOf DEF Mark, Accessing, History
<1>2. /\ CallOK(t)' /\ pc'[t] \in {"insert", "running"}
      /\ pc'[t] = "insert" => call' = call
  BY OtherCalls
<1>3. /\ \A r \in Segs : dirty[r] => dirty'[r]
      /\ dirty'[s] /\ \A r \in Segs : r # s => dirty'[r] = dirty[r]
      /\ dirty' \in [Segs -> BOOLEAN]
  BY <1>1 DEF Mark, TypeOK
<1>4. /\ pc'[t] = "insert" => ~dirty[s]
      /\ pc'[t] = "running" => dirty' = dirty
  BY <1>1 DEF Mark, GoTo, Return, TypeOK
<1> HIDE DEF s
<1>5. TypeOK' /\ SnapshotReads'
  <2>1. \A i, j \in DOMAIN dirtyList :
          dirty'[dirtyList[i]] /\ (dirtyList[i] = dirtyList[j] => i = j)
    <3>1. \A i \in DOMAIN dirtyList : dirtyList[i] \in Segs
      BY ElementOfSeq, LenProperties DEF TypeOK
    <3>2. QED
      BY <1>3, <3>1 DEF TypeOK
  <2>2. pc' \in [Threads -> Location]
    BY <1>0, Frame DEF TypeOK
  <2>3. QED
    BY <1>1, <1>3, <2>1, <2>2, SameSeen DEF TypeOK
<1>6. ~Doomed(t) /\ ~Doomed(t)'
  BY <1>1, <1>2 DEF Doomed
<1>7. Calls'
  BY <1>0, <1>1, <1>2, CallsStep
<1>8. Marks' /\ Content'
  BY <1>1, SameControl
<1>9. Held'
  BY <1>0, <1>1, <1>6, SameControl, HeldStep
<1>10. Granted'
  BY <1>0, <1>2, GrantedStep
<1>11. Stored'
  BY <1>0, <1>1, <1>6, StoredStep DEF Stored
<1>12. Tracked'
  <2>1. ASSUME NEW w \in wr[t] PROVE dirty'[w[1]]
    <3>1. w \in Words /\ w[1] \in Segs
      BY WordsAreOrdered DEF TypeOK
    <3>2. dirty[w[1]] \/ s = w[1]
      BY <1>6 DEF Tracked, s
    <3>3. QED
      BY <1>3, <3>1, <3>2
  <2>2. QED
    BY <1>0, <1>1, <1>3, <2>1, TrackedStep
<1>13. Lists'
  <2>1. \A r \in Segs : Listed(r)' <=> Listed(r)
    BY <1>1 DEF Listed
  <2>2. CASE pc'[t] = "running"
    <3>1. \A u \in Threads, r \in Segs : Inserting(u, r)' <=> Inserting(u, r)
      <4>1. \A r \in Segs : ~Inserting(t, r)' /\ ~Inserting(t, r)
        BY <1>1, <2>2 DEF Inserting
      <4>2. QED
        BY <1>0, <4>1, Others
    <3>2. QED
      BY <1>4, <2>1, <2>2, <3>1 DEF Lists
  <2>3. CASE pc'[t] = "insert"
    <3>1. \A r \in Segs : Inserting(t, r)' <=> r = s
      BY <1>2, <2>3 DEF Inserting, s
    <3>2. \A u \in Threads \ {t}, r \in Segs : Inserting(u, r)' <=> Inserting(u, r)
      BY <1>0, Others
    <3>3. \A r \in Segs : ~Inserting(t, r)
      BY <1>1 DEF Inserting
    <3>4. ~dirty[s] /\ ~Listed(s) /\ \A u \in Threads : ~Inserting(u, s)
      BY <1>1, <1>4, <2>3 DEF Listed, TypeOK, Lists
    <3>5. ASSUME NEW r \in Segs, dirty'[r]
          PROVE  Listed(r)' \/ \E u \in Threads : Inserting(u, r)'
      <4>1. CASE r = s
        BY <3>1, <4>1
      <4>2. CASE r # s
        <5>1. Listed(r) \/ \E u \in Threads : Inserting(u, r)
          BY <1>3, <3>5, <4>2 DEF Lists
        <5>2. QED
          BY <2>1, <3>2, <3>3, <5>1
      <4>3. QED
        BY <4>1, <4>2
    <3>6. ASSUME NEW u \in Threads, NEW r \in Segs, Inserting(u, r)'
          PROVE  dirty'[r] /\ ~Listed(r)'
      <4>1. CASE u = t
        BY <1>3, <2>1, <3>1, <3>4, <3>6, <4>1
      <4>2. CASE u # t
        BY <1>3, <2>1, <3>2, <3>6, <4>2 DEF Lists
      <4>3. QED
        BY <4>1, <4>2
    <3>7. ASSUME NEW u \in Threads, NEW v \in Threads, NEW r \in Segs,
                 Inserting(u, r)', Inserting(v, r)'
          PROVE  u = v
      <4>1. CASE r = s
        BY <3>2, <3>4, <3>7, <4>1
      <4>2. CASE r # s
        BY <3>1, <3>2, <3>7, <4>2 DEF Lists
      <4>3. QED
        BY <4>1, <4>2
    <3>8. QED
      BY <3>5, <3>6, <3>7 DEF Lists
  <2>4. QED
    BY <1>2, <2>2, <2>3
<1>14. Followed'
  <2>1. \A w \in Tested(t) : dirty'[w[1]]
    BY <1>3 DEF Tested, s
  <2>2. QED
    BY <1>0, <1>1, <1>3, <2>1, FollowedStep
<1>15. QED
  BY <1>5, <1>7, <1>8, <1>9, <1>10, <1>11, <1>12, <1>13, <1>14 DEF Kept

(* link_remove and _link_insert. *)
LEMMA KeptByInsert ==
  ASSUME TypeOK, SnapshotReads, Ongoing, NEW t \in Threads, Insert(t)
  PROVE  Kept
<1> USE DEF Ongoing
<1>0. Step(t)
  BY DEF Step
<1>s. PICK s \in Segs : s = call[t].seg
  BY WordOf DEF Insert, Accessing
<1>1. /\ pc[t] = "insert" /\ dirtyList' = Append(dirtyList, s)
      /\ UNCHANGED <<control, read, write, dirty, rd, wr, seen>>
  BY <1>s DEF Insert, History
<1>2. /\ CallOK(t)' /\ pc'[t] = "running"
      /\ Tested(t) = {} /\ ~Doomed(t) /\ ~Doomed(t)'
  BY <1>1, OtherCalls DEF Tested, Doomed
<1>3. \A r \in Segs : Inserting(t, r) <=> r = s
  BY <1>1, <1>s DEF Inserting
<1>4. dirty[s] /\ ~Listed(s)
  BY <1>1, <1>3 DEF Lists
<1>5. /\ dirtyList' \in Seq(Segs) /\ Len(dirtyList') = Len(dirtyList) + 1
      /\ Len(dirtyList) \in Nat
      /\ DOMAIN dirtyList = 1 .. Len(dirtyList) /\ DOMAIN dirtyList' = 1 .. Len(dirtyList')
      /\ \A i \in 1 .. Len(dirtyList) : dirtyList'[i] = dirtyList[i]
      /\ dirtyList'[Len(dirtyList) + 1] = s
  BY <1>1, AppendProperties, LenProperties DEF TypeOK
<1>6. \A i \in DOMAIN dirtyList' :
        \/ i \in DOMAIN dirtyList /\ dirtyList'[i] = dirtyList[i]
        \/ i = Len(dirtyList') /\ i \notin DOMAIN dirtyList /\ dirtyList'[i] = s
  BY <1>5
<1>7. DOMAIN dirtyList \subseteq DOMAIN dirtyList' /\ Len(dirtyList') \in DOMAIN dirtyList'
  BY <1>5
<1>8. TypeOK' /\ SnapshotReads'
  <2>1. \A i, j \in DOMAIN dirtyList' :
          dirty[dirtyList'[i]] /\ (dirtyList'[i] = dirtyList'[j] => i = j)
    BY <1>4, <1>6 DEF TypeOK, Listed
  <2>2. pc' \in [Threads -> Location]
    BY <1>0, Frame DEF TypeOK
  <2>3. QED
    BY <1>1, <1>5, <2>1, <2>2, SameSeen DEF TypeOK
<1>9. Calls'
  <2>1. \A i \in Nat : i <= Len(dirtyList) => i <= Len(dirtyList')
    BY <1>5
  <2>2. QED
    BY <1>0, <1>2, <2>1, CallsStep
<1>10. Marks' /\ Content'
  BY <1>1, SameControl
<1>11. Held'
  BY <1>0, <1>1, <1>2, SameControl, HeldStep
<1>12. Granted'
  BY <1>0, <1>2, GrantedStep
<1>13. Stored'
  BY <1>0, <1>1, <1>2, StoredStep DEF Stored
<1>14. Tracked'
  BY <1>0, <1>1, <1>2, TrackedStep DEF Tracked
<1>15. Lists'
  <2>1. \A r \in Segs : Listed(r)' <=> Listed(r) \/ r = s
    <3>1. \A r \in Segs : Listed(r)' => Listed(r) \/ r = s
      BY <1>6 DEF Listed
    <3>2. \A r \in Segs : Listed(r) => Listed(r)'
      BY <1>5, <1>7 DEF Listed
    <3>3. Listed(s)'
      BY <1>5, <1>7 DEF Listed
    <3>4. QED
      BY <3>1, <3>2, <3>3
  <2>2. \A r \in Segs : ~Inserting(t, r)'
    BY <1>2 DEF Inserting
  <2>3. \A u \in Threads \ {t}, r \in Segs : Inserting(u, r)' <=> Inserting(u, r)
    BY <1>0, Others
  <2>4. \A u \in Threads \ {t} : ~Inserting(u, s)
    BY <1>1, <1>3 DEF Lists
  <2>5. ASSUME NEW r \in Segs, dirty'[r]
        PROVE  Listed(r)' \/ \E u \in Threads : Inserting(u, r)'
    <3>1. Listed(r) \/ \E u \in Threads : Inserting(u, r)
      BY <1>1, <2>5 DEF Lists
    <3>2. QED
      BY <1>3, <2>1, <2>3, <3>1
  <2>6. ASSUME NEW u \in Threads, NEW r \in Segs, Inserting(u, r)'
        PROVE  dirty'[r] /\ ~Listed(r)'
    BY <1>1, <2>1, <2>2, <2>3, <2>4, <2>6 DEF Lists
  <2>7. ASSUME NEW u \in Threads, NEW v \in Threads, NEW r \in Segs,
               Inserting(u, r)', Inserting(v, r)'
        PROVE  u = v
    BY <2>2, <2>3, <2>7 DEF Lists
  <2>8. QED
    BY <2>5, <2>6, <2>7 DEF Lists
<1>16. Followed'
  BY <1>0, <1>1, <1>2, FollowedStep
<1>17. QED
  BY <1>8, <1>9, <1>10, <1>11, <1>12, <1>13, <1>14, <1>15, <1>16 DEF Kept

(* rollback_transaction *)
LEMMA KeptByUndo ==
  ASSUME TypeOK, SnapshotReads, Ongoing, NEW t \in Threads, Undo(t)
  PROVE  Kept
<1> USE DEF Ongoing
<1>0. Step(t)
  BY DEF Step
<1>1. /\ pc[t] = "undo"
      /\ UNCHANGED <<control, read, write, dirty, dirtyList, rd, wr, seen>>
  BY DEF Undo, Memory, History
<1>2. CallOK(t)' /\ pc'[t] \in {"walk", "leave"}
  BY UndoCall
<1>3. Doomed(t)' /\ Tested(t) = {}
  BY <1>1, <1>2 DEF Doomed, Tested
<1>4. TypeOK' /\ SnapshotReads'
  BY <1>0, <1>1, Frame, SameSeen DEF TypeOK
<1>5. Calls'
  BY <1>0, <1>1, <1>2, CallsStep
<1>6. Marks' /\ Content'
  BY <1>1, SameControl
<1>7. Held'
  BY <1>0, <1>1, <1>3, SameControl, HeldStep
<1>8. Granted'
  BY <1>0, <1>2, GrantedStep
<1>9. Stored'
  BY <1>0, <1>1, <1>3, StoredStep
<1>10. Tracked'
  BY <1>0, <1>1, <1>3, TrackedStep
<1>11. Lists'
  BY <1>0, <1>1, <1>2, ListsStep
<1>12. Followed'
  BY <1>0, <1>1, <1>3, FollowedStep
<1>13. QED
  BY <1>4, <1>5, <1>6, <1>7, <1>8, <1>9, <1>10, <1>11, <1>12 DEF Kept

(* One word of the walk: what is taken back is t's own, so nobody else loses *)
(* a mark or a value.                                                        *)
LEMMA KeptByWalk ==
  ASSUME TypeOK, SnapshotReads, Ongoing, NEW t \in Threads, Walk(t)
  PROVE  Kept
<1> USE DEF Ongoing
<1> DEFINE w == Word(t)
<1>0. Step(t)
  BY DEF Step
<1>1. /\ pc[t] = "walk" /\ w \in Words
      /\ UNCHANGED <<read, dirty, dirtyList, rd, wr, seen>>
  BY WordOf DEF Walk, History
<1>2. CallOK(t)' /\ pc'[t] \in {"walk", "leave"}
  BY WalkCall
<1>3. Doomed(t)' /\ Tested(t) = {}
  BY <1>1, <1>2 DEF Doomed, Tested
<1>4. \/ UNCHANGED <<control, write>>
      \/ /\ control[w].written /\ control[w].access = t
         /\ control' = [control EXCEPT ![w] = FreeWord]
         /\ write' = [write EXCEPT ![w] = read[w]]
  <2>1. CASE ~Undone(w, t)
    BY <2>1 DEF Walk
  <2>2. CASE Undone(w, t)
    <3>1. control[w] \in Control /\ Marked(control[w]) /\ IsUndoneBy(control[w], t)
      BY <1>1, <2>2 DEF TypeOK, Control, Marks, Marked, Undone
    <3>2. HandBack(control[w]) = FreeWord
      BY <3>1, HandBackFacts
    <3>3. /\ control' = [control EXCEPT ![w] = HandBack(control[w])]
          /\ write' = [write EXCEPT ![w] = read[w]]
      BY <2>2 DEF Walk
    <3>4. QED
      BY <3>1, <3>2, <3>3 DEF IsUndoneBy
  <2>3. QED
    BY <2>1, <2>2
<1> HIDE DEF w
<1>5. /\ \A x \in Words : x # w => control'[x] = control[x] /\ write'[x] = write[x]
      /\ \/ UNCHANGED <<control, write>>
         \/ /\ control[w].written /\ control[w].access = t
            /\ control'[w] = FreeWord /\ write'[w] = read[w]
  BY <1>1, <1>4 DEF TypeOK
<1>6. TypeOK' /\ SnapshotReads'
  <2>1. control' \in [Words -> [access : Threads \cup {NoTx}, written : BOOLEAN,
                                many : BOOLEAN]]
    BY <1>1, <1>4, FreeWordFacts DEF TypeOK, Control
  <2>2. write' \in [Words -> Threads \cup {NoTx}]
    BY <1>1, <1>4 DEF TypeOK
  <2>3. pc' \in [Threads -> Location]
    BY <1>0, Frame DEF TypeOK
  <2>4. QED
    BY <1>1, <2>1, <2>2, <2>3, SameSeen DEF TypeOK
<1>7. Calls'
  BY <1>0, <1>1, <1>2, CallsStep
<1>8. Marks'
  BY <1>5, FreeWordFacts DEF Marks
<1>9. \A u \in Threads \ {t} : KeepsMarks(u)
  BY <1>1, <1>5 DEF KeepsMarks, Marks
<1>10. Held'
  BY <1>0, <1>1, <1>3, <1>9, HeldStep
<1>11. Granted'
  BY <1>0, <1>2, GrantedStep
<1>12. Content'
  BY <1>1, <1>5 DEF Content
<1>13. Stored'
  <2>1. ASSUME NEW u \in Threads, u # t, ~Doomed(u), NEW x \in wr[u], write[x] = u
        PROVE  write'[x] = u
    <3>1. x \in Words /\ control[x].access = u
      BY <2>1 DEF Held, TypeOK
    <3>2. QED
      BY <1>5, <2>1, <3>1
  <2>2. QED
    BY <1>0, <1>3, <2>1, StoredStep
<1>14. Tracked'
  BY <1>0, <1>1, <1>3, TrackedStep
<1>15. Lists'
  BY <1>0, <1>1, <1>2, ListsStep
<1>16. Followed'
  <2>1. \A x \in Words : control'[x].access # NoTx => control[x].access # NoTx
    BY <1>5, FreeWordFacts
  <2>2. QED
    BY <1>0, <1>1, <1>3, <2>1, FollowedStep
<1>17. QED
  BY <1>6, <1>7, <1>8, <1>10, <1>11, <1>12, <1>13, <1>14, <1>15, <1>16 DEF Kept

(* tm_end, or the end of an abort, while others of the batch are at work.    *)
LEMMA KeptByLeave ==
  ASSUME TypeOK, SnapshotReads, Ongoing, NEW t \in Threads, Commit(t) \/ Abort(t),
         ~(\A u \in Threads \ {t} : pc[u] \in Finished)
  PROVE  Kept
<1> USE DEF Ongoing
<1>0. Step(t)
  BY DEF Step
<1>1. PICK fate \in Finished :
        /\ Leave(t, fate)
        /\ \/ pc[t] = "running" /\ fate = "committed"
           \/ pc[t] = "leave" /\ fate = "aborted"
  <2>1. "committed" \in Finished /\ "aborted" \in Finished
    BY DEF Finished
  <2>2. CASE Commit(t)
    BY <2>1, <2>2 DEF Commit
  <2>3. CASE Abort(t)
    BY <2>1, <2>3 DEF Abort
  <2>4. QED
    BY <2>2, <2>3
<1>2. UNCHANGED <<control, read, write, dirty, dirtyList, rd, wr, seen>>
  BY <1>1 DEF Leave, History
<1>3. CallOK(t)' /\ pc'[t] = fate
  BY <1>1, LeaveCall
<1>4. Tested(t) = {} /\ (~Doomed(t)' => ~Doomed(t) /\ pc[t] = "running")
  BY <1>1, <1>3 DEF Doomed, Tested
<1>5. TypeOK' /\ SnapshotReads'
  BY <1>0, <1>2, Frame, SameSeen DEF TypeOK
<1>6. Calls'
  BY <1>0, <1>2, <1>3, CallsStep
<1>7. Marks' /\ Content'
  BY <1>2, SameControl
<1>8. Held'
  BY <1>0, <1>2, <1>4, SameControl, HeldStep
<1>9. Granted'
  BY <1>0, <1>3, GrantedStep DEF Finished
<1>10. Stored'
  BY <1>0, <1>2, <1>4, StoredStep DEF Stored
<1>11. Tracked'
  BY <1>0, <1>2, <1>4, TrackedStep DEF Tracked
<1>12. Lists'
  BY <1>0, <1>1, <1>2, <1>3, ListsStep DEF Finished
<1>13. Followed'
  BY <1>0, <1>2, <1>4, FollowedStep
<1>14. QED
  BY <1>5, <1>6, <1>7, <1>8, <1>9, <1>10, <1>11, <1>12, <1>13 DEF Kept
-----------------------------------------------------------------------------
(* What the invariant says of the transactions that do not abort: they hold  *)
(* what they were granted, so no two of them conflict.                        *)
LEMMA GrantsDoNotConflict ==
  ASSUME TypeOK, Ongoing
  PROVE  ConflictFree
<1> SUFFICES ASSUME NEW t \in Threads, NEW u \in Threads, t # u, ~Doomed(t), ~Doomed(u),
                    NEW w \in wr[t], w \in rd[u] \/ w \in wr[u]
             PROVE  FALSE
  BY DEF ConflictFree
<1>1. w \in Words /\ control[w].written /\ control[w].access = t
  BY DEF TypeOK, Ongoing, Held
<1>2. CASE w \in wr[u]
  BY <1>1, <1>2 DEF Ongoing, Held
<1>3. CASE w \in rd[u]
  BY <1>1, <1>3 DEF Ongoing, Held, Marks
<1>4. QED
  BY <1>2, <1>3

(* The last of the batch finds every mark in a dirty segment, and every      *)
(* dirty segment in the list.                                                *)
LEMMA AllAccountedFor ==
  ASSUME TypeOK, Ongoing, \A u \in Threads : pc[u] \in Finished \cup {"running", "leave"}
  PROVE  /\ \A s \in Segs : dirty[s] <=> Listed(s)
         /\ \A w \in Words : ~dirty[w[1]] => control[w] = FreeWord /\ write[w] = NoTx
         /\ \A u \in Threads : ~Doomed(u) =>
              \A w \in wr[u] : w \in Words /\ write[w] = u /\ dirty[w[1]]
<1>1. \A u \in Threads : Tested(u) = {} /\ \A s \in Segs : ~Inserting(u, s)
  BY DEF Tested, Inserting, Finished
<1>2. \A s \in Segs : dirty[s] <=> Listed(s)
  BY <1>1 DEF Listed, TypeOK, Ongoing, Lists
<1>3. ASSUME NEW w \in Words, ~dirty[w[1]]
      PROVE  control[w] = FreeWord /\ write[w] = NoTx
  <2>1. control[w].access = NoTx
    <3>1. control[w].access # NoTx =>
            \E u \in Threads : \E x \in Tested(u) : x[1] = w[1] /\ w[2] <= x[2]
      BY <1>3 DEF Ongoing, Followed
    <3>2. QED
      BY <1>1, <3>1
  <2>2. control[w] = FreeWord
    BY <2>1 DEF Ongoing, Marks
  <2>3. QED
    BY <2>2, FreeWordFacts DEF Ongoing, Content
<1>4. ASSUME NEW u \in Threads, ~Doomed(u), NEW w \in wr[u]
      PROVE  w \in Words /\ write[w] = u /\ dirty[w[1]]
  BY <1>4 DEF TypeOK, Ongoing, Stored, Tracked, Finished
<1>5. QED
  BY <1>2, <1>3, <1>4

LEMMA LastLeaves ==
  ASSUME TypeOK, SnapshotReads, Ongoing, NEW t \in Threads, Commit(t) \/ Abort(t),
         \A u \in Threads \ {t} : pc[u] \in Finished
  PROVE  TypeOK' /\ SnapshotReads' /\ Over' /\ ConflictFree' /\ Published' /\ CleanSlate'
<1>0. Step(t) /\ Calls
  BY DEF Step, Ongoing
<1>1. PICK fate \in Finished :
        /\ Leave(t, fate)
        /\ \/ pc[t] = "running" /\ fate = "committed"
           \/ pc[t] = "leave" /\ fate = "aborted"
  <2>1. "committed" \in Finished /\ "aborted" \in Finished
    BY DEF Finished
  <2>2. CASE Commit(t)
    BY <2>1, <2>2 DEF Commit
  <2>3. CASE Abort(t)
    BY <2>1, <2>3 DEF Abort
  <2>4. QED
    BY <2>2, <2>3
<1>2. EpochCleanup /\ UNCHANGED <<write, rd, wr, seen>>
  BY <1>1 DEF Leave, History
<1>3. pc'[t] = fate
  BY <1>0, <1>1, LeaveCall
<1>4. \A u \in Threads \ {t} : pc'[u] = pc[u]
  BY <1>0, Frame
<1>5. Over'
  BY <1>1, <1>3, <1>4 DEF Over
<1>6. \A u \in Threads : pc[u] \in Finished \cup {"running", "leave"}
  BY <1>1
<1>7. /\ \A s \in Segs : dirty[s] <=> Listed(s)
      /\ \A w \in Words : ~dirty[w[1]] => control[w] = FreeWord /\ write[w] = NoTx
      /\ \A u \in Threads : ~Doomed(u) =>
           \A w \in wr[u] : w \in Words /\ write[w] = u /\ dirty[w[1]]
  BY <1>6, AllAccountedFor
<1>8. \A w \in Words : w[1] \in Segs /\ (InDirtyList(w) <=> dirty[w[1]])
  BY <1>7, WordsAreOrdered DEF InDirtyList, Listed
<1>9. \A s \in Segs : InDirtyList(<<s, 0>>) <=> dirty[s]
  BY <1>7 DEF InDirtyList, Listed
<1>10. control' = [w \in Words |-> FreeWord]
  BY <1>2, <1>7, <1>8 DEF EpochCleanup
<1>11. read' = write'
  <2>1. \A w \in Words : read[w] = NoTx
    BY DEF Ongoing, Content
  <2>2. read' = [w \in Words |-> write[w]]
    BY <1>2, <1>7, <1>8, <2>1 DEF EpochCleanup
  <2>3. write = [w \in Words |-> write[w]]
    BY DEF TypeOK
  <2>4. QED
    BY <1>2, <2>2, <2>3
<1>12. dirty' = [s \in Segs |-> FALSE]
  BY <1>2, <1>9 DEF EpochCleanup
<1>13. CleanSlate'
  BY <1>10, <1>11, <1>12 DEF CleanSlate
<1>14. \A u \in Threads : ~Doomed(u)' => ~Doomed(u)
  BY <1>1, <1>3, <1>4 DEF Doomed
<1>15. Published'
  <2>1. ASSUME NEW u \in Threads, pc'[u] = "committed", NEW w \in wr'[u]
        PROVE  read'[w] = u
    <3>1. ~Doomed(u)
      BY <1>14, <2>1 DEF Doomed
    <3>2. QED
      BY <1>2, <1>7, <1>11, <2>1, <3>1
  <2>2. QED
    BY <2>1 DEF Published
<1>16. ConflictFree'
  BY <1>2, <1>14, GrantsDoNotConflict DEF ConflictFree
<1>17. SnapshotReads'
  BY <1>2, SameSeen
<1>18. TypeOK'
  <2>1. control' \in [Words -> [access : Threads \cup {NoTx}, written : BOOLEAN,
                                many : BOOLEAN]]
    BY <1>10, FreeWordFacts DEF Control
  <2>2. read' \in [Words -> Threads \cup {NoTx}]
    BY <1>2, <1>11 DEF TypeOK
  <2>3. dirty' \in [Segs -> BOOLEAN]
    BY <1>12
  <2>4. dirtyList' = <<>> /\ dirtyList' \in Seq(Segs) /\ DOMAIN dirtyList' = {}
    BY <1>2, EmptySeq DEF EpochCleanup
  <2>5. pc' \in [Threads -> Location]
    BY <1>0, Frame DEF TypeOK
  <2>6. QED
    BY <1>2, <2>1, <2>2, <2>3, <2>4, <2>5 DEF TypeOK
<1>19. QED
  BY <1>5, <1>13, <1>15, <1>16, <1>17, <1>18

-----------------------------------------------------------------------------
LEMMA InitHolds == Init => IInv
<1> SUFFICES ASSUME Init PROVE IInv
  OBVIOUS
<1> USE DEF Init
<1>1. TypeOK
  <2>1. control \in [Words -> [access : Threads \cup {NoTx}, written : BOOLEAN,
                               many : BOOLEAN]]
    BY FreeWordFacts DEF Control
  <2>2. dirtyList \in Seq(Segs) /\ DOMAIN dirtyList = {}
    BY EmptySeq
  <2>3. QED
    BY <2>1, <2>2 DEF TypeOK, Location
<1>2. SnapshotReads
  BY DEF SnapshotReads
<1>3. Ongoing
  <2>1. Calls
    BY DEF Calls, CallOK, Accessing, Finished
  <2>2. Marks /\ Content
    BY FreeWordFacts DEF Marks, Content, FreeWord
  <2>3. Held /\ Granted /\ Stored /\ Tracked
    BY DEF Held, Granted, Stored, Tracked
  <2>4. Lists
    BY DEF Lists, Inserting
  <2>5. Followed
    BY FreeWordFacts DEF Followed
  <2>6. QED
    BY <2>1, <2>2, <2>3, <2>4, <2>5 DEF Ongoing
<1>4. ConflictFree
  BY DEF ConflictFree
<1>5. Published
  BY DEF Published
<1>6. CleanSlate
  BY DEF CleanSlate
<1>7. QED
  BY <1>1, <1>2, <1>3, <1>4, <1>5, <1>6 DEF IInv

(* A step that leaves its thread in the middle of the epoch. *)
LEMMA StillGoing ==
  ASSUME Kept, NEW t \in Threads, pc'[t] \notin Finished
  PROVE  IInv'
BY DEF Kept, IInv, Over

(* Whoever takes a step is still in the epoch. *)
LEMMA NotOver == ASSUME NEW t \in Threads, Step(t) PROVE ~Over
<1>1. CASE CallAny(t)
  BY <1>1 DEF CallAny, Call, Over, Finished
<1>2. CASE TestRead(t) \/ TestWrite(t) \/ Store(t) \/ Copy(t) \/ Mark(t) \/ Insert(t)
  BY <1>2 DEF TestRead, TestWrite, Store, Copy, Mark, Insert, Over, Finished
<1>3. CASE Undo(t) \/ Walk(t) \/ Commit(t) \/ Abort(t)
  BY <1>3 DEF Undo, Walk, Commit, Abort, Over, Finished
<1>4. QED
  BY <1>1, <1>2, <1>3 DEF Step, CallAny

LEMMA StepHolds == IInv /\ [Next]_vars => IInv'
<1> SUFFICES ASSUME IInv, [Next]_vars PROVE IInv'
  OBVIOUS
<1>1. CASE UNCHANGED vars
  BY <1>1 DEF vars, IInv, TypeOK, SnapshotReads, Over, ConflictFree, Doomed, Published,
              CleanSlate, Ongoing, Calls, CallOK, Marks, Held, Granted, Tested, Word, Content,
              Stored, Tracked, Lists, Listed, Inserting, Followed
<1>2. CASE Next
  <2>1. PICK t \in Threads : Step(t)
    BY <1>2 DEF Next
  <2>2. TypeOK /\ SnapshotReads /\ Ongoing
    <3>1. ~Over
      BY <2>1, NotOver
    <3>2. QED
      BY <3>1 DEF IInv
  <2>3. Calls
    BY <2>2 DEF Ongoing
  <2>4. CASE CallAny(t)
    BY <2>2, <2>3, <2>4, CallCall, KeptByCall, StillGoing DEF Finished
  <2>5. CASE TestRead(t) /\ CanRead(control[Word(t)], t)
    BY <2>2, <2>3, <2>5, GrantedReadCall, KeptByGrantedRead, StillGoing DEF Finished
  <2>6. CASE TestWrite(t) /\ CanWrite(control[Word(t)], t)
    BY <2>2, <2>3, <2>6, GrantedWriteCall, KeptByGrantedWrite, StillGoing DEF Finished
  <2>7. CASE \/ TestRead(t) /\ ~CanRead(control[Word(t)], t)
             \/ TestWrite(t) /\ ~CanWrite(control[Word(t)], t)
    BY <2>2, <2>3, <2>7, OtherCalls, KeptByRefusal, StillGoing DEF Finished
  <2>8. CASE Store(t)
    BY <2>2, <2>3, <2>8, StoreCall, KeptByStore, StillGoing DEF Finished
  <2>9. CASE Copy(t)
    BY <2>2, <2>3, <2>9, CopyCall, KeptByCopy, StillGoing DEF Finished
  <2>10. CASE Mark(t)
    BY <2>2, <2>3, <2>10, OtherCalls, KeptByMark, StillGoing DEF Finished
  <2>11. CASE Insert(t)
    BY <2>2, <2>3, <2>11, OtherCalls, KeptByInsert, StillGoing DEF Finished
  <2>12. CASE Undo(t)
    BY <2>2, <2>3, <2>12, UndoCall, KeptByUndo, StillGoing DEF Finished
  <2>13. CASE Walk(t)
    BY <2>2, <2>3, <2>13, WalkCall, KeptByWalk, StillGoing DEF Finished
  <2>14. CASE Commit(t) \/ Abort(t)
    <3>1. CASE \A u \in Threads \ {t} : pc[u] \in Finished
      BY <2>2, <2>14, <3>1, LastLeaves DEF IInv
    <3>2. CASE ~(\A u \in Threads \ {t} : pc[u] \in Finished)
      <4>1. PICK u \in Threads \ {t} : pc[u] \notin Finished
        BY <3>2
      <4>2. Kept
        BY <2>2, <2>14, <3>2, KeptByLeave
      <4>3. pc'[u] = pc[u]
        BY <2>1, <2>2, <2>3, Frame
      <4>4. QED
        BY <4>1, <4>2, <4>3, StillGoing
    <3>3. QED
      BY <3>1, <3>2
  <2>15. QED
    BY <2>1, <2>4, <2>5, <2>6, <2>7, <2>8, <2>9, <2>10, <2>11, <2>12, <2>13, <2>14
       DEF Step, CallAny
<1>3. QED
  BY <1>1, <1>2

(* The invariant holds in every state of every epoch.                        *)
THEOREM Inductive == Spec => []IInv
BY InitHolds, StepHolds, PTL DEF Spec

(* Whatever a call is in the middle of, every variable is as it should be,   *)
(* and move_to_dirty puts a segment on the dirty list at most once.          *)
THEOREM TypeCorrect == Spec => []TypeOK
<1>1. IInv => TypeOK
  BY DEF IInv
<1>2. QED
  BY Inductive, <1>1, PTL

(* No transaction of a batch ever sees what another one of it wrote: every   *)
(* tm_read of template/tm.c copies what was committed or the reader's own.   *)
THEOREM NobodySeesAnother == Spec => []SnapshotReads
<1>1. IInv => SnapshotReads
  BY DEF IInv
<1>2. QED
  BY Inductive, <1>1, PTL

(* What can_read_word and can_write_word have granted to transactions that   *)
(* are not aborting never conflicts, while others roll back or after them.   *)
THEOREM NoConflictIsGranted == Spec => []ConflictFree
<1>1. IInv => ConflictFree
  BY GrantsDoNotConflict DEF IInv
<1>2. QED
  BY Inductive, <1>1, PTL

(* At the end of an epoch everything that was committed is in the read copy. *)
THEOREM CommittedIsPublished == Spec => []Published
<1>1. IInv => Published
  BY DEF IInv, Published
<1>2. QED
  BY Inductive, <1>1, PTL

(* Nothing of an epoch is left for the next: no mark, no dirty segment, no   *)
(* difference between the copies, though a failed call marks no segment.     *)
THEOREM NothingIsLeft == Spec => []CleanSlate
<1>1. IInv => CleanSlate
  BY DEF IInv, CleanSlate
<1>2. QED
  BY Inductive, <1>1, PTL

(* The copies of a word are made outside its spinlock and yet never race.    *)
LEMMA MarksKeepCopiesApart == IInv => NoRace
<1> SUFFICES ASSUME IInv, NEW t \in Threads, NEW u \in Threads, t # u, NEW w \in Words,
                    w \in Writing(t), w \in Writing(u) \/ w \in Reading(u)
             PROVE  FALSE
  BY DEF NoRace, Writing, Reading
<1>1. TypeOK /\ Ongoing
  BY DEF IInv, Over, Writing, Finished
<1>2. ASSUME NEW v \in Threads, w \in Writing(v)
      PROVE  control[w].written /\ control[w].access = v
  <2>1. CASE pc[v] = "store"
    BY <1>1, <1>2, <2>1 DEF Writing, Ongoing, Granted, Held, Doomed
  <2>2. CASE pc[v] # "store"
    BY <1>2, <2>2 DEF Writing, IsUndoneBy
  <2>3. QED
    BY <2>1, <2>2
<1>3. CASE w \in Writing(u)
  BY <1>2, <1>3
<1>4. CASE w \in Reading(u)
  <2>1. pc[u] = "copy" /\ w = Word(u) /\ call[u].kind = "read"
    BY <1>1, <1>4 DEF Reading, Ongoing, Calls, CallOK
  <2>2. w \in rd[u] /\ ~Doomed(u)
    BY <1>1, <2>1, CopiedIsTested DEF Ongoing, Granted, Doomed
  <2>3. control[w].access = u \/ control[w].many
    BY <1>1, <2>2 DEF Ongoing, Held
  <2>4. QED
    BY <1>1, <1>2, <2>3 DEF Ongoing, Marks
<1>5. QED
  BY <1>3, <1>4

(* No two threads of a batch copy to the same word at once, or one to it and *)
(* another from it, the rollback included.                                   *)
THEOREM CopiesDoNotRace == Spec => []NoRace
BY Inductive, MarksKeepCopiesApart, PTL

-----------------------------------------------------------------------------
(* Who is refused, and for what. *)

(* Every mark is the work of a call that was granted: the number at a word   *)
(* is that of a transaction that wrote it, or, while nobody has, that read   *)
(* it; and a word that is read by many was granted to two at least.          *)
Authored(w) ==
  /\ control[w].access # NoTx =>
       w \in IF control[w].written THEN wr[control[w].access] ELSE rd[control[w].access]
  /\ control[w].many => \E x, y \in Threads : x # y /\ w \in rd[x] \cap rd[y]

RefusalInv == (\A w \in Words : Authored(w)) /\ RefusedForConflict

(* What is granted stays granted in the histories, so a mark that stays, or  *)
(* goes, has the author it had.                                              *)
LEMMA AuthorStays ==
  ASSUME TypeOK, NEW w \in Words, Authored(w),
         control'[w] = control[w] \/ control'[w] = FreeWord,
         \A u \in Threads : rd[u] \subseteq rd'[u] /\ wr[u] \subseteq wr'[u]
  PROVE  Authored(w)'
<1>1. control[w].access \in Threads \cup {NoTx}
  BY DEF TypeOK
<1>2. CASE control'[w] = control[w]
  BY <1>1, <1>2 DEF Authored
<1>3. CASE control'[w] = FreeWord
  BY <1>3 DEF Authored, FreeWord
<1>4. QED
  BY <1>2, <1>3

(* Nobody loses a word from the histories. *)
LEMMA GrantsGrow ==
  ASSUME TypeOK, Calls, NEW t \in Threads, Step(t)
  PROVE  \A u \in Threads : rd[u] \subseteq rd'[u] /\ wr[u] \subseteq wr'[u]
<1>1. \A u \in Threads \ {t} : rd'[u] = rd[u] /\ wr'[u] = wr[u]
  BY Frame
<1>2. rd[t] \subseteq rd'[t] /\ wr[t] \subseteq wr'[t]
  <2> USE DEF TypeOK
  <2>1. CASE CallAny(t)
    BY <2>1 DEF CallAny, Call, History
  <2>2. CASE TestRead(t) \/ TestWrite(t)
    BY <2>2 DEF TestRead, TestWrite
  <2>3. CASE Store(t) \/ Copy(t) \/ Mark(t) \/ Insert(t)
    BY <2>3 DEF Store, Copy, Mark, Insert, History
  <2>4. CASE Undo(t) \/ Walk(t) \/ Commit(t) \/ Abort(t)
    BY <2>4 DEF Undo, Walk, Commit, Abort, Leave, History
  <2>5. QED
    BY <2>1, <2>2, <2>3, <2>4 DEF Step, CallAny
<1>3. QED
  BY <1>1, <1>2

(* The mark of a granted read. *)
LEMMA ReadAuthored ==
  ASSUME TypeOK, Marks, NEW t \in Threads, NEW w \in Words, Authored(w),
         CanRead(control[w], t), control'[w] = ReadMark(control[w], t),
         rd' = [rd EXCEPT ![t] = @ \cup {w}], wr' = wr
  PROVE  Authored(w)'
<1> USE EpochStepsAssumption DEF TypeOK
<1>1. w \in rd'[t] /\ \A u \in Threads : rd[u] \subseteq rd'[u]
  OBVIOUS
<1>2. CASE control[w].written
  <2>1. control'[w] = control[w]
    BY <1>2 DEF ReadMark
  <2>2. QED
    BY <1>1, <2>1, AuthorStays
<1>3. CASE ~control[w].written /\ control[w].access = NoTx
  <2>1. control[w] = FreeWord
    BY <1>3 DEF Marks
  <2> DEFINE e == Claim(control[w], t)
  <2>2. ~e.written /\ e.access = t /\ ~e.many
    BY <2>1 DEF Claim, FreeWord
  <2>3. control'[w] = [e EXCEPT !.many = e.many \/ e.access # t]
    BY <1>3 DEF ReadMark
  <2>4. e \in Control
    BY DEF Claim, Control
  <2> HIDE DEF e
  <2>5. ~control'[w].written /\ control'[w].access = t /\ ~control'[w].many
    BY <2>2, <2>3, <2>4 DEF Control
  <2>6. QED
    BY <1>1, <2>5 DEF Authored
<1>4. CASE ~control[w].written /\ control[w].access # NoTx
  <2> DEFINE x == control[w].access
  <2>1. x \in Threads /\ w \in rd[x]
    BY <1>4 DEF Authored
  <2>2. /\ ~control'[w].written /\ control'[w].access = x
        /\ control'[w].many => control[w].many \/ x # t
    BY <1>4 DEF ReadMark, Claim
  <2>3. control'[w].many => \E u, v \in Threads : u # v /\ w \in rd'[u] \cap rd'[v]
    BY <1>1, <2>1, <2>2 DEF Authored
  <2>4. QED
    BY <1>1, <2>1, <2>2, <2>3, EpochStepsAssumption DEF Authored
<1>5. QED
  BY <1>2, <1>3, <1>4

(* A step of an epoch that goes on: only a granted test makes a new mark.    *)
LEMMA AuthoredStep ==
  ASSUME TypeOK, Ongoing, \A w \in Words : Authored(w), NEW t \in Threads, Step(t),
         NEW w \in Words
  PROVE  Authored(w)'
<1>0. Calls /\ Marks /\ control[w] \in Control /\ Marked(control[w]) /\ Authored(w)
  BY DEF Ongoing, TypeOK, Control, Marks, Marked
<1>1. \A u \in Threads : rd[u] \subseteq rd'[u] /\ wr[u] \subseteq wr'[u]
  BY <1>0, GrantsGrow
<1>2. CASE control'[w] = control[w] \/ control'[w] = FreeWord
  BY <1>0, <1>1, <1>2, AuthorStays
<1>3. CASE TestRead(t) /\ w = Word(t) /\ CanRead(control[w], t)
  <2>1. rd' = [rd EXCEPT ![t] = @ \cup {w}] /\ wr' = wr
    BY <1>3 DEF TestRead
  <2>2. control'[w] = ReadMark(control[w], t)
    BY <1>3 DEF TestRead, TypeOK
  <2>3. QED
    BY <1>0, <1>3, <2>1, <2>2, ReadAuthored
<1>4. CASE TestWrite(t) /\ w = Word(t) /\ CanWrite(control[w], t)
  <2>1. control'[w] = WriteMark(control[w], t) /\ w \in wr'[t]
    BY <1>4 DEF TestWrite, TypeOK
  <2>2. control'[w].written /\ control'[w].access = t /\ ~control'[w].many
    BY <1>0, <1>4, <2>1, WriteMarkFacts
  <2>3. QED
    BY <2>1, <2>2 DEF Authored
<1>5. CASE TestRead(t) /\ ~(w = Word(t) /\ CanRead(control[w], t))
  <2>1. control' = [control EXCEPT ![Word(t)] = ReadMark(control[Word(t)], t)]
    BY <1>5 DEF TestRead
  <2>2. ~CanRead(control[w], t) => ReadMark(control[w], t) = control[w]
    BY <1>0, ReadMarkFacts
  <2>3. control'[w] = control[w]
    BY <1>5, <2>1, <2>2 DEF TypeOK
  <2>4. QED
    BY <1>2, <2>3
<1>6. CASE TestWrite(t) /\ ~(w = Word(t) /\ CanWrite(control[w], t))
  <2>1. control' = [control EXCEPT ![Word(t)] = WriteMark(control[Word(t)], t)]
    BY <1>6 DEF TestWrite
  <2>2. ~CanWrite(control[w], t) => WriteMark(control[w], t) = control[w]
    BY <1>0, WriteMarkFacts
  <2>3. control'[w] = control[w]
    BY <1>6, <2>1, <2>2 DEF TypeOK
  <2>4. QED
    BY <1>2, <2>3
<1>7. CASE Walk(t)
  <2>1. CASE Undone(Word(t), t) /\ w = Word(t)
    <3>1. control'[w] = HandBack(control[w])
      BY <1>7, <2>1 DEF Walk, TypeOK, Undone
    <3>2. HandBack(control[w]) = FreeWord
      BY <1>0, <2>1, HandBackFacts DEF Undone
    <3>3. QED
      BY <1>2, <3>1, <3>2
  <2>2. CASE ~(Undone(Word(t), t) /\ w = Word(t))
    <3>1. control'[w] = control[w]
      BY <1>7, <2>2 DEF Walk, TypeOK, Undone
    <3>2. QED
      BY <1>2, <3>1
  <2>3. QED
    BY <2>1, <2>2
<1>8. CASE CallAny(t) \/ Store(t) \/ Copy(t) \/ Mark(t) \/ Insert(t) \/ Undo(t)
  <2>1. control' = control
    BY <1>8 DEF CallAny, Call, Store, Copy, Mark, Insert, Undo, Memory
  <2>2. QED
    BY <1>2, <2>1
<1>9. CASE Commit(t) \/ Abort(t)
  <2>1. control'[w] = control[w] \/ control'[w] = FreeWord
    BY <1>9 DEF Commit, Abort, Leave, EpochCleanup
  <2>2. QED
    BY <1>2, <2>1
<1>10. QED
  BY <1>3, <1>4, <1>5, <1>6, <1>7, <1>8, <1>9 DEF Step, CallAny

(* A test that refuses finds the mark of another transaction at the word.    *)
LEMMA RefusedByAuthor ==
  ASSUME TypeOK, Marks, NEW t \in Threads, NEW w \in Words, Authored(w),
         ~CanWrite(control[w], t)
  PROVE  \E u \in Threads \ {t} : w \in wr[u] \cup rd[u]
<1>1. /\ control[w].access \in Threads \cup {NoTx}
      /\ control[w].access = NoTx => control[w] = FreeWord
  BY DEF TypeOK, Marks
<1>2. control[w].access # NoTx
  BY <1>1 DEF CanWrite, FreeWord
<1>3. CASE control[w].access # t
  BY <1>1, <1>2, <1>3 DEF Authored
<1>4. CASE control[w].access = t
  <2>1. control[w].many
    BY <1>4 DEF CanWrite
  <2>2. QED
    BY <2>1 DEF Authored
<1>5. QED
  BY <1>3, <1>4

LEMMA RefusalStep ==
  ASSUME TypeOK, Ongoing, RefusalInv, NEW t \in Threads, Step(t)
  PROVE  RefusedForConflict'
<1>0. Calls /\ Marks /\ \A w \in Words : Authored(w)
  BY DEF Ongoing, RefusalInv
<1> DEFINE Cause(u) == \E v \in Threads \ {u} :
                         \/ Word(u) \in wr[v]
                         \/ call[u].kind = "write" /\ Word(u) \in rd[v]
<1>1. \A u \in Threads : rd[u] \subseteq rd'[u] /\ wr[u] \subseteq wr'[u]
  BY <1>0, GrantsGrow
<1>2. ASSUME NEW u \in Threads \ {t}, pc'[u] = "undo" PROVE Cause(u)'
  <2>1. pc[u] = "undo" /\ call'[u] = call[u] /\ Word(u)' = Word(u)
    BY <1>0, <1>2, Others
  <2>2. Cause(u)
    BY <2>1 DEF RefusalInv, RefusedForConflict
  <2>3. QED
    BY <1>1, <2>1, <2>2
<1>3. ASSUME pc'[t] = "undo" PROVE Cause(t)'
  <2>1. \/ TestRead(t) /\ ~CanRead(control[Word(t)], t)
        \/ TestWrite(t) /\ ~CanWrite(control[Word(t)], t)
    <3> USE <1>3 DEF TypeOK
    <3>1. CASE CallAny(t)
      BY <3>1 DEF CallAny, Call, GoTo
    <3>2. CASE TestRead(t) \/ TestWrite(t)
      BY <3>2 DEF TestRead, TestWrite, NextWord, GoTo
    <3>3. CASE Store(t) \/ Copy(t)
      BY <3>3 DEF Store, Copy, NextWord, GoTo
    <3>4. CASE Mark(t) \/ Insert(t)
      BY <3>4 DEF Mark, Insert, Return, GoTo
    <3>5. CASE Undo(t) \/ Walk(t)
      BY <3>5 DEF Undo, Walk, WalkOn, WalkTo, NextWord, GoTo
    <3>6. CASE Commit(t) \/ Abort(t)
      BY <3>6 DEF Commit, Abort, Leave, GoTo
    <3>7. QED
      BY <3>1, <3>2, <3>3, <3>4, <3>5, <3>6 DEF Step, CallAny
  <2>2. call' = call /\ Word(t)' = Word(t) /\ Word(t) \in Words
    <3>1. call' = call
      BY <1>3, <2>1 DEF TestRead, TestWrite
    <3>2. pc[t] \in Accessing
      BY <2>1 DEF TestRead, TestWrite, Accessing
    <3>3. QED
      BY <1>0, <3>1, <3>2, WordOf DEF Word
  <2> DEFINE w == Word(t)
  <2>3. CASE TestRead(t) /\ ~CanRead(control[w], t)
    <3>1. control[w].written /\ control[w].access # t
      BY <2>3 DEF CanRead
    <3>2. control[w].access \in Threads
      BY <1>0, <2>2, <3>1 DEF TypeOK, Marks, FreeWord
    <3>3. control[w].access # NoTx
      BY <3>2, EpochStepsAssumption
    <3>4. w \in wr[control[w].access]
      BY <1>0, <2>2, <3>1, <3>3 DEF Authored
    <3>5. QED
      BY <1>1, <2>2, <3>1, <3>2, <3>4
  <2>4. CASE TestWrite(t) /\ ~CanWrite(control[w], t)
    <3>1. PICK u \in Threads \ {t} : w \in wr[u] \cup rd[u]
      BY <1>0, <2>2, <2>4, RefusedByAuthor
    <3>2. call[t].kind = "write"
      BY <2>4 DEF TestWrite
    <3>3. QED
      BY <1>1, <2>2, <3>1, <3>2
  <2>5. QED
    BY <2>1, <2>3, <2>4
<1>4. QED
  BY <1>2, <1>3 DEF RefusedForConflict

(* The epoch that is over has no marks, and nobody is in a call.             *)
LEMMA RefusalInvStep == IInv /\ RefusalInv /\ [Next]_vars => RefusalInv'
<1> SUFFICES ASSUME IInv, RefusalInv, [Next]_vars PROVE RefusalInv'
  OBVIOUS
<1>1. CASE UNCHANGED vars
  BY <1>1 DEF vars, RefusalInv, Authored, RefusedForConflict, Word
<1>2. CASE Next
  <2>1. PICK t \in Threads : Step(t)
    BY <1>2 DEF Next
  <2>2. TypeOK /\ Ongoing
    BY <2>1, NotOver DEF IInv
  <2>3. QED
    BY <2>1, <2>2, AuthoredStep, RefusalStep DEF RefusalInv
<1>3. QED
  BY <1>1, <1>2

(* A call is refused only for what another transaction of the epoch was       *)
(* granted, whatever was rolled back at the word before.                     *)
THEOREM RefusalsHaveCause == Spec => []RefusedForConflict
<1>1. Init => RefusalInv
  BY DEF Init, RefusalInv, Authored, RefusedForConflict, FreeWord
<1>2. RefusalInv => RefusedForConflict
  BY DEF RefusalInv
<1>3. QED
  BY Inductive, <1>1, <1>2, RefusalInvStep, PTL DEF Spec
===============================================================================

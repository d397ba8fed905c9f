------------------------------- MODULE EpochSteps -------------------------------
(***************************************************************************)
(* One epoch of template/tm.c, inside the calls.                           *)
(*                                                                         *)
(* TM.tla takes a call of tm_read or tm_write as one step.  Here a step is *)
(* what the code does without another thread being able to look: a test of *)
(* a control word with its spinlock held, the copy of one word, the CAS on *)
(* a segment's dirty flag, the move of a segment's link with link_lock     *)
(* held, the rollback of one word.  The module begins when a batch has     *)
(* been let in and ends when its last thread has run epoch_cleanup; every  *)
(* member of the batch runs exactly one transaction in between, so the     *)
(* thread stands for its transaction.                                      *)
(*                                                                         *)
(* Transactions read and write only: tm_alloc and tm_free, which add to    *)
(* the dirty list and set flags, are in TM.tla.  What a word holds is who  *)
(* wrote it, NoTx for what was committed in an earlier epoch.               *)
(***************************************************************************)
EXTENDS Integers, Sequences

CONSTANTS
  Threads,      \* the members of the batch
  NoTx,
  Segs,         \* the segments, all clean when the epoch begins
  WordsPerSeg,
  Kinds         \* the calls transactions make

ASSUME EpochStepsAssumption ==
  /\ NoTx \notin Threads
  /\ WordsPerSeg \in Nat \ {0}
  /\ Kinds \subseteq {"read", "write"}

Offsets == 0 .. WordsPerSeg - 1
Words == Segs \X Offsets

VARIABLES
  control,    \* control_t of every word
  read,       \* the read copy: what was committed
  write,      \* the write copy
  dirty,      \* segment_t.dirty
  dirtyList,  \* region_t.dirty_seg_links, from its base along the next pointers
  pc,         \* where each thread is, see Location
  call,       \* call[t]: the parameters and loop variables of the call t is in
  rd, wr,     \* history: the words each transaction was granted
  seen        \* history: the authors of what each transaction has read

vars == <<control, read, write, dirty, dirtyList, pc, call, rd, wr, seen>>

INSTANCE ControlWord

Location == {
  "running",    \* between two calls
  "test",       \* _tm_read, _tm_write: about to test the word at "at"
  "store",      \* _tm_write: the word is granted, not stored yet
  "copy",       \* tm_read: about to copy the word at "at" to the target
  "mark",       \* move_to_dirty: about to do the CAS on dirty
  "insert",     \* move_to_dirty: the CAS succeeded, about to move the link
  "undo",       \* rollback_transaction: about to look at the dirty list
  "walk",       \* rollback_transaction: at the word "at" of segment "link"
  "leave",      \* after the rollback, about to call leave_batcher
  "committed", "aborted" }

Finished == {"committed", "aborted"}
Over == \A t \in Threads : pc[t] \in Finished

NoCall == [kind |-> "none"]

Init ==
  /\ control = [w \in Words |-> FreeWord]
  /\ read = [w \in Words |-> NoTx]
  /\ write = [w \in Words |-> NoTx]
  /\ dirty = [s \in Segs |-> FALSE]
  /\ dirtyList = <<>>
  /\ pc = [t \in Threads |-> "running"]
  /\ call = [t \in Threads |-> NoCall]
  /\ rd = [t \in Threads |-> {}]
  /\ wr = [t \in Threads |-> {}]
  /\ seen = [t \in Threads |-> {}]

Memory == <<control, read, write, dirty, dirtyList>>
History == <<rd, wr, seen>>

Word(t) == <<call[t].seg, call[t].at>>

GoTo(t, l) == pc' = [pc EXCEPT ![t] = l]

(* The end of a loop body: the next word at location l, or after the last  *)
(* one the location after, at the first word again.                         *)
NextWord(t, l, after) ==
  IF call[t].at = call[t].last
  THEN GoTo(t, after) /\ call' = [call EXCEPT ![t].at = call[t].first]
  ELSE GoTo(t, l) /\ call' = [call EXCEPT ![t].at = @ + 1]

Return(t) == GoTo(t, "running") /\ call' = [call EXCEPT ![t] = NoCall]

-----------------------------------------------------------------------------
(* A thread calls tm_read or tm_write on the words first .. last of s.      *)
Call(t, kind, s, first, last) ==
  /\ pc[t] = "running"
  /\ first <= last
  /\ call' = [call EXCEPT ![t] = [kind |-> kind, seg |-> s, first |-> first,
                                  last |-> last, at |-> first]]
  /\ GoTo(t, "test")
  /\ UNCHANGED <<Memory, History>>

(* can_read_word, which grants the word or not. *)
TestRead(t) ==
  LET w == Word(t) IN
  /\ pc[t] = "test" /\ call[t].kind = "read"
  /\ control' = [control EXCEPT ![w] = ReadMark(@, t)]
  /\ \/ /\ CanRead(control[w], t)
        /\ rd' = [rd EXCEPT ![t] = @ \cup {w}]
        /\ NextWord(t, "test", "copy")
     \/ /\ ~CanRead(control[w], t)
        /\ GoTo(t, "undo")
        /\ UNCHANGED <<rd, call>>
  /\ UNCHANGED <<read, write, dirty, dirtyList, wr, seen>>

(* can_write_word *)
TestWrite(t) ==
  LET w == Word(t) IN
  /\ pc[t] = "test" /\ call[t].kind = "write"
  /\ control' = [control EXCEPT ![w] = WriteMark(@, t)]
  /\ \/ /\ CanWrite(control[w], t)
        /\ wr' = [wr EXCEPT ![t] = @ \cup {w}]
        /\ GoTo(t, "store")
     \/ /\ ~CanWrite(control[w], t)
        /\ GoTo(t, "undo")
        /\ UNCHANGED wr
  /\ UNCHANGED <<read, write, dirty, dirtyList, call, rd, seen>>

(* _tm_write: memcpy of one word, the spinlock already released. *)
Store(t) ==
  /\ pc[t] = "store"
  /\ write' = [write EXCEPT ![Word(t)] = t]
  /\ NextWord(t, "test", "mark")
  /\ UNCHANGED <<control, read, dirty, dirtyList, History>>

CopyStaysClean(t) ==              \* faulty: a segment that is read stays clean
  /\ pc[t] = "copy"
  /\ seen' = [seen EXCEPT ![t] = @ \cup {write[Word(t)]}]
  /\ \/ call[t].at = call[t].last /\ Return(t)
     \/ call[t].at # call[t].last /\ NextWord(t, "copy", "mark")
  /\ UNCHANGED <<Memory, rd, wr>>

(* tm_read: memcpy of one word, after all of them have been tested. *)
Copy(t) ==
  /\ pc[t] = "copy"
  /\ seen' = [seen EXCEPT ![t] = @ \cup {write[Word(t)]}]
  /\ NextWord(t, "copy", "mark")
  /\ UNCHANGED <<Memory, rd, wr>>

MarkTwice(t) ==                   \* faulty: a test and a store, not a CAS
  /\ pc[t] = "mark"
  /\ dirty' = [dirty EXCEPT ![call[t].seg] = TRUE]
  /\ GoTo(t, "insert")
  /\ UNCHANGED <<control, read, write, dirtyList, call, History>>

(* move_to_dirty: CAS(&seg->dirty, 0, 1) *)
Mark(t) ==
  /\ pc[t] = "mark"
  /\ \/ /\ ~dirty[call[t].seg]
        /\ dirty' = [dirty EXCEPT ![call[t].seg] = TRUE]
        /\ GoTo(t, "insert")
        /\ UNCHANGED call
     \/ /\ dirty[call[t].seg]
        /\ Return(t)
        /\ UNCHANGED dirty
  /\ UNCHANGED <<control, read, write, dirtyList, History>>

(* link_remove and _link_insert with link_lock held: the link goes behind  *)
(* the last of the dirty list.                                              *)
Insert(t) ==
  /\ pc[t] = "insert"
  /\ dirtyList' = Append(dirtyList, call[t].seg)
  /\ Return(t)
  /\ UNCHANGED <<control, read, write, dirty, History>>

-----------------------------------------------------------------------------
(* rollback_transaction goes along the dirty list without link_lock, from  *)
(* the segment after the base around to the base.                           *)
After(i) == IF i < Len(dirtyList) THEN i + 1 ELSE 1

WalkTo(t, i) ==
  /\ call' = [call EXCEPT ![t] = [kind |-> "rollback", link |-> i,
                                  seg |-> dirtyList[i], first |-> 0,
                                  last |-> WordsPerSeg - 1, at |-> 0]]
  /\ GoTo(t, "walk")

Undo(t) ==
  /\ pc[t] = "undo"
  /\ \/ dirtyList = <<>> /\ GoTo(t, "leave") /\ UNCHANGED call
     \/ dirtyList # <<>> /\ WalkTo(t, After(1))
  /\ UNCHANGED <<Memory, History>>

(* What follows the last word of a segment: the walk ends at the base.      *)
WalkOn(t) ==
  \/ call[t].link = 1 /\ GoTo(t, "leave") /\ UNCHANGED call
  \/ call[t].link # 1 /\ WalkTo(t, After(call[t].link))

UndoneWhoever(w, t) == control[w].written   \* faulty: others' writes as well

Undone(w, t) == IsUndoneBy(control[w], t)

(* One word, its spinlock held. *)
Walk(t) ==
  LET w == Word(t) IN
  /\ pc[t] = "walk"
  /\ \/ /\ Undone(w, t)
        /\ control' = [control EXCEPT ![w] = HandBack(@)]
        /\ write' = [write EXCEPT ![w] = read[w]]
     \/ ~Undone(w, t) /\ UNCHANGED <<control, write>>
  /\ \/ call[t].at # call[t].last /\ NextWord(t, "walk", "walk")
     \/ call[t].at = call[t].last /\ WalkOn(t)
  /\ UNCHANGED <<read, dirty, dirtyList, History>>

-----------------------------------------------------------------------------
InDirtyList(w) == \E i \in DOMAIN dirtyList : dirtyList[i] = w[1]

EpochCleanup ==
  /\ control' = [w \in Words |-> IF InDirtyList(w) THEN FreeWord ELSE control[w]]
  /\ read' = [w \in Words |-> IF InDirtyList(w) THEN write[w] ELSE read[w]]
  /\ dirty' = [s \in Segs |-> dirty[s] /\ ~InDirtyList(<<s, 0>>)]
  /\ dirtyList' = <<>>

(* leave_batcher; the last of the batch cleans up. *)
Leave(t, fate) ==
  /\ GoTo(t, fate)
  /\ call' = [call EXCEPT ![t] = NoCall]
  /\ IF \A u \in Threads \ {t} : pc[u] \in Finished
     THEN EpochCleanup
     ELSE UNCHANGED <<control, read, dirty, dirtyList>>
  /\ UNCHANGED <<write, History>>

(* tm_end *)
Commit(t) == pc[t] = "running" /\ Leave(t, "committed")

Abort(t) == pc[t] = "leave" /\ Leave(t, "aborted")

Step(t) ==
  \/ \E kind \in Kinds, s \in Segs, first, last \in Offsets :
       Call(t, kind, s, first, last)
  \/ TestRead(t) \/ TestWrite(t) \/ Store(t) \/ Copy(t) \/ Mark(t) \/ Insert(t)
  \/ Undo(t) \/ Walk(t) \/ Commit(t) \/ Abort(t)

Next == \E t \in Threads : Step(t)

Spec == Init /\ [][Next]_vars
-----------------------------------------------------------------------------
(* Every variable has its type, and a segment is in the dirty list at most  *)
(* once, and only after its dirty flag is set.                              *)
TypeOK ==
  /\ control \in [Words -> [access : Threads \cup {NoTx}, written : BOOLEAN,
                            many : BOOLEAN]]
  /\ read \in [Words -> Threads \cup {NoTx}]
  /\ write \in [Words -> Threads \cup {NoTx}]
  /\ dirty \in [Segs -> BOOLEAN]
  /\ dirtyList \in Seq(Segs)
  /\ \A i, j \in DOMAIN dirtyList :
       dirty[dirtyList[i]] /\ (dirtyList[i] = dirtyList[j] => i = j)
  /\ pc \in [Threads -> Location]
  /\ rd \in [Threads -> SUBSET Words]
  /\ wr \in [Threads -> SUBSET Words]
  /\ seen \in [Threads -> SUBSET (Threads \cup {NoTx})]

(* The copies of a word are made outside of its spinlock; the marks alone   *)
(* keep two threads from writing it, or reading and writing it, at once.    *)
Writing(t) ==
  {w \in Words : /\ call[t].kind # "none" /\ w = Word(t)
                 /\ \/ pc[t] = "store"
                    \/ pc[t] = "walk" /\ IsUndoneBy(control[w], t)}

Reading(t) == {w \in Words : pc[t] = "copy" /\ w = Word(t)}

NoRace ==
  \A t, u \in Threads : t # u => Writing(t) \cap (Writing(u) \cup Reading(u)) = {}

(* The words granted to two transactions, neither of which is aborting, do  *)
(* not conflict, whatever the steps of the rollbacks in between.            *)
Doomed(t) == pc[t] \in {"undo", "walk", "leave", "aborted"}

ConflictFree ==
  \A t, u \in Threads : t # u /\ ~Doomed(t) /\ ~Doomed(u) =>
    wr[t] \cap (rd[u] \cup wr[u]) = {}

(* No transaction ever sees what another one of its epoch wrote, not even   *)
(* one that will abort.                                                      *)
SnapshotReads == \A t \in Threads : seen[t] \subseteq {NoTx, t}

(* A call is refused only for a word that another transaction of the epoch  *)
(* was granted, to write it, or to read it if the call writes. That one may  *)
(* have aborted since, as reads are not handed back. No call is refused for  *)
(* what its transaction has done itself, or for what a test that refused a   *)
(* word has left in it. So a transaction that has an epoch to itself is not  *)
(* refused at all, which is all the code has against retrying for ever.      *)
RefusedForConflict ==
  \A t \in Threads : pc[t] = "undo" =>
    \E u \in Threads \ {t} :
      \/ Word(t) \in wr[u]
      \/ call[t].kind = "write" /\ Word(t) \in rd[u]

(* At the end of the epoch everything that committed transactions wrote is  *)
(* in the read copy, whoever was the one to mark the segment dirty.          *)
Published ==
  Over => \A t \in Threads : pc[t] = "committed" => \A w \in wr[t] : read[w] = t

(* The next epoch starts like this one: no mark is left on any word and     *)
(* both copies agree.  A call that fails does not mark the segment dirty,   *)
(* so this rests on whoever made it fail.                                   *)
CleanSlate ==
  Over => /\ control = [w \in Words |-> FreeWord]
          /\ dirty = [s \in Segs |-> FALSE]
          /\ write = read

(* tests.c, test_failed_write_is_rolledback: after a write that failed, the *)
(* next transaction reads the old text, "mu_check(strncmp(target, "some      *)
(* text", 9) == 0)".                                                         *)
AbortedWritesVanish ==
  Over => \A w \in Words : read[w] # NoTx => pc[read[w]] = "committed"
===============================================================================

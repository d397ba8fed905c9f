--------------------------------- MODULE RefTM ---------------------------------
(***************************************************************************)
(* reference/tm.c: the transactional memory the bench compares with. A     *)
(* transaction holds one lock from its begin to its end; it never aborts.  *)
(*                                                                         *)
(* The lock is one of four, chosen when the library is compiled; kind says *)
(* which. The ticket lock and the test-and-test-and-set lock are modelled  *)
(* access by access, the POSIX locks by what they promise. The latter lock *)
(* is also the one of template/lock.c.                                     *)
(***************************************************************************)
EXTENDS Naturals, FiniteSets

CONSTANTS
  Threads,        \* the client threads
  Kinds,          \* the locks to look at
  TicketModulus,  \* 2^64 in the code: tickets are unsigned long
  Segs,           \* where segments can be allocated
  Start,          \* the first segment, in no list; its link stands for allocs
  Values,         \* what a segment can hold; one word stands for all
  NoSegment       \* there is no segment at this place

ASSUME RefAssumption ==
  /\ IsFiniteSet(Threads)
  /\ Kinds \subseteq {"mutex", "ticket", "rw", "ttas"}
  /\ TicketModulus \in Nat \ {0} /\ TicketModulus >= Cardinality(Threads)
  /\ Start \in Segs
  /\ 0 \in Values
  /\ NoSegment \notin Values

VARIABLES
  kind,     \* which lock the library was compiled with
  take,     \* ticket lock: the ticket the next thread takes
  pass,     \* ticket lock: the ticket that has the lock
  locked,   \* test-and-test-and-set lock
  holders,  \* POSIX locks: who holds it
  pc,       \* where each thread is
  is_ro,    \* whether its transaction is read-only
  ticket,   \* the ticket it has drawn
  mem,      \* the shared memory
  link,     \* prev and next of every struct link; allocs is the base of the list
  view      \* history: what the transaction has found at its begin, and written since

lock   == <<take, pass, locked, holders>>
client == <<is_ro, ticket>>
memory == <<mem, link>>
vars   == <<kind, lock, pc, client, memory, view>>

Location == {
  "idle",     \* runs no transaction
  "acquire",  \* in tm_begin, about to take a ticket or to try the lock
  "spin",     \* in tm_begin, waits for its ticket or for the lock to be free
  "running",  \* runs its transaction
  "gone" }    \* will not come back: tm_destroy has been called

Created == [s \in Segs |-> IF s = Start THEN 0 ELSE NoSegment]  \* by tm_create

Init ==
  /\ kind \in Kinds
  /\ take = 0
  /\ pass = 0
  /\ locked = FALSE
  /\ holders = {}
  /\ pc = [t \in Threads |-> "idle"]
  /\ is_ro = [t \in Threads |-> FALSE]
  /\ ticket = [t \in Threads |-> 0]
  /\ mem = Created
  /\ link = [prev |-> [s \in Segs |-> Start], next |-> [s \in Segs |-> Start]]
  /\ view = [t \in Threads |-> Created]

Go(t, from, to) ==
  /\ pc[t] = from
  /\ pc' = [pc EXCEPT ![t] = to]

(* lock_acquire returns, and with it tm_begin.                              *)
Acquired(t, from) ==
  /\ Go(t, from, "running")
  /\ view' = [view EXCEPT ![t] = mem]

Begin(t, ro) ==
  /\ Go(t, "idle", "acquire")
  /\ is_ro' = [is_ro EXCEPT ![t] = ro]
  /\ UNCHANGED <<kind, lock, ticket, memory, view>>

-----------------------------------------------------------------------------
(* Ticket lock                                                              *)

(* Faulty: a load and a store instead of a fetch_add.                       *)
DrawTwice(t) ==
  /\ kind = "ticket"
  /\ Go(t, "acquire", "spin")
  /\ ticket' = [ticket EXCEPT ![t] = take]
  /\ take' \in {take, (take + 1) % TicketModulus}
  /\ UNCHANGED <<kind, pass, locked, holders, is_ro, memory, view>>

Draw(t) ==
  /\ kind = "ticket"
  /\ Go(t, "acquire", "spin")
  /\ ticket' = [ticket EXCEPT ![t] = take]
  /\ take' = (take + 1) % TicketModulus
  /\ UNCHANGED <<kind, pass, locked, holders, is_ro, memory, view>>

(* Faulty: whoever finds that nobody runs goes first.                       *)
ServedIfFree(t) ==
  /\ kind = "ticket"
  /\ \A u \in Threads : pc[u] # "running"
  /\ Acquired(t, "spin")
  /\ UNCHANGED <<kind, lock, client, memory>>

Served(t) ==
  /\ kind = "ticket"
  /\ pass = ticket[t]
  /\ Acquired(t, "spin")
  /\ UNCHANGED <<kind, lock, client, memory>>

(* Test-and-test-and-set lock. A weak compare-and-exchange may also fail    *)
(* when the lock is free.                                                   *)

(* Faulty: an exchange that does not look at what it replaces.              *)
TryExchange(t) ==
  /\ kind = "ttas"
  /\ locked' = TRUE
  /\ Acquired(t, "acquire")
  /\ UNCHANGED <<kind, take, pass, holders, client, memory>>

TrySucceeds(t) ==
  /\ kind = "ttas"
  /\ ~locked
  /\ locked' = TRUE
  /\ Acquired(t, "acquire")
  /\ UNCHANGED <<kind, take, pass, holders, client, memory>>

TryFails(t) ==
  /\ kind = "ttas"
  /\ Go(t, "acquire", "spin")
  /\ UNCHANGED <<kind, lock, client, memory, view>>

SeesFree(t) ==
  /\ kind = "ttas"
  /\ ~locked
  /\ Go(t, "spin", "acquire")
  /\ UNCHANGED <<kind, lock, client, memory, view>>

(* The POSIX locks are given to one thread, or to readers only.             *)
Hold(t) ==
  /\ holders' = holders \cup {t}
  /\ Acquired(t, "acquire")
  /\ UNCHANGED <<kind, take, pass, locked, client, memory>>

MutexGranted(t) == kind = "mutex" /\ holders = {} /\ Hold(t)

WriteGranted(t) == kind = "rw" /\ ~is_ro[t] /\ holders = {} /\ Hold(t)

ReadGranted(t) == kind = "rw" /\ is_ro[t] /\ (\A u \in holders : is_ro[u]) /\ Hold(t)

(* pthread_rwlock_rdlock may refuse a reader: tm_begin returns invalid_tx.  *)
Refused(t) ==
  /\ kind = "rw" /\ is_ro[t]
  /\ Go(t, "acquire", "idle")
  /\ is_ro' = [is_ro EXCEPT ![t] = FALSE]
  /\ UNCHANGED <<kind, lock, ticket, memory, view>>

(* lock_release and lock_release_shared, in tm_end. What is local to the    *)
(* transaction is forgotten.                                                *)
End(t) ==
  /\ Go(t, "running", "idle")
  /\ pass' = IF kind = "ticket" THEN (pass + 1) % TicketModulus ELSE pass
  /\ locked' = FALSE
  /\ holders' = holders \ {t}
  /\ is_ro' = [is_ro EXCEPT ![t] = FALSE]
  /\ ticket' = [ticket EXCEPT ![t] = 0]
  /\ view' = [view EXCEPT ![t] = Created]
  /\ UNCHANGED <<kind, take, memory>>

-----------------------------------------------------------------------------
(* The calls of a transaction. tm_read changes nothing: it returns mem.     *)

Put(t, s, v) ==
  /\ pc[t] = "running"
  /\ ~is_ro[t]
  /\ mem' = [mem EXCEPT ![s] = v]
  /\ view' = [view EXCEPT ![t][s] = v]
  /\ UNCHANGED <<kind, lock, pc, client>>

Write(t, s, v) == mem[s] # NoSegment /\ Put(t, s, v) /\ UNCHANGED link

(* link_ref_insert, before the base.                                        *)
Inserted(l, s) ==
  [l EXCEPT !.prev[s] = l.prev[Start], !.next[s] = Start,
            !.prev[Start] = s, !.next[l.prev[Start]] = s]

(* Faulty: only the way forward leaves the link out.                        *)
RemovedForward(l, s) == [l EXCEPT !.next[l.prev[s]] = l.next[s]]

(* link_ref_remove; the link itself keeps its pointers.                     *)
Removed(l, s) == [l EXCEPT !.next[l.prev[s]] = l.next[s], !.prev[l.next[s]] = l.prev[s]]

(* An allocation that fails changes nothing.                                *)
Alloc(t, s) == mem[s] = NoSegment /\ Put(t, s, 0) /\ link' = Inserted(link, s)

Free(t, s) ==
  /\ s # Start /\ mem[s] # NoSegment
  /\ Put(t, s, NoSegment)
  /\ link' = Removed(link, s)

-----------------------------------------------------------------------------
(* tm_destroy, called when no transaction runs and none will                *)

Destroyed == \A t \in Threads : pc[t] = "gone"

Destroy ==
  /\ \A t \in Threads : pc[t] = "idle"
  /\ pc' = [t \in Threads |-> "gone"]
  /\ UNCHANGED <<kind, lock, client, memory, view>>

(* A segment of the list is freed, or the first one when the list is empty. *)
DestroyAlloc ==
  LET alloc == link.next[Start]
  IN /\ Destroyed /\ mem[alloc] # NoSegment
     /\ mem' = [mem EXCEPT ![alloc] = NoSegment]
     /\ link' = IF alloc = Start THEN link ELSE Removed(link, alloc)
     /\ UNCHANGED <<kind, lock, pc, client, view>>

-----------------------------------------------------------------------------

Acquire(t) == \/ Draw(t) \/ Served(t)
              \/ TrySucceeds(t) \/ TryFails(t) \/ SeesFree(t)
              \/ MutexGranted(t) \/ WriteGranted(t) \/ ReadGranted(t) \/ Refused(t)

Access(t) == \E s \in Segs :
  \/ \E v \in Values : Write(t, s, v)
  \/ Alloc(t, s)
  \/ Free(t, s)

Next == \E t \in Threads :
  \/ \E ro \in BOOLEAN : Begin(t, ro)
  \/ Acquire(t)
  \/ Access(t)
  \/ End(t)
  \/ Destroy
  \/ DestroyAlloc

Spec == Init /\ [][Next]_vars

(* A thread in tm_begin or tm_destroy runs, and a transaction ends. Nobody  *)
(* has to begin, or to destroy the memory.                                  *)
FairSpec ==
  /\ Spec
  /\ \A t \in Threads : WF_vars(Acquire(t)) /\ WF_vars(End(t))
  /\ WF_vars(DestroyAlloc)

-----------------------------------------------------------------------------
(* Whatever the lock, a transaction that runs finds in the memory what was  *)
(* there when it began and what it has written itself, nothing else:        *)
(* transactions take place one after the other.                             *)
Isolated ==
  \A t \in Threads : pc[t] = "running" => mem = view[t]

(* The tickets between pass and take are those of the threads that wait or  *)
(* run, one each, also when the numbers have wrapped around.                *)
TicketsInUse ==
  kind = "ticket" =>
    LET inUse == {t \in Threads : pc[t] \in {"spin", "running"}}
    IN /\ take < TicketModulus /\ pass < TicketModulus
       /\ (take + TicketModulus - pass) % TicketModulus
            = Cardinality(inUse) % TicketModulus
       /\ \A t, u \in inUse : ticket[t] = ticket[u] => t = u
       /\ \A t \in inUse : pc[t] = "running" => ticket[t] = pass

(* With the ticket lock everybody who begins a transaction gets to run it.  *)
(* The other locks do not promise that.                                     *)
TicketIsServed ==
  \A t \in Threads : (kind = "ticket" /\ pc[t] = "acquire") ~> (pc[t] = "running")

(* tm_destroy ends, and frees every segment that transactions have          *)
(* allocated and not freed, and the first one after them, none of them      *)
(* twice: in whatever order segments came and went, the list has them all.  *)
DestroyFreesAll ==
  Destroyed ~> (\A s \in Segs : mem[s] = NoSegment)

==============================================================================

------------------------------- MODULE DirtyList -------------------------------
(***************************************************************************)
(* template/link.c pointer by pointer: the two circular lists of segments, *)
(* the moves between them, and the walk of rollback_transaction (tm.c),    *)
(* which follows next pointers without link_lock.                          *)
(*                                                                         *)
(* A segment has one link, so a link is named by its segment. With         *)
(* link_lock held a thread writes pointers that nobody but a walk can see; *)
(* a walk looks at the base of the dirty list and at next of its links.    *)
(* link_remove and _link_insert are split where such a write takes place.  *)
(*                                                                         *)
(* A transaction touches, allocates and frees segments and ends or is      *)
(* rolled back; when all have left, epoch_cleanup runs alone.              *)
(***************************************************************************)
CONSTANTS
  Threads,   \* one transaction of each in an epoch
  NoThread,  \* nobody holds link_lock
  Segs,      \* addresses of segments
  Start,     \* the segment of tm_create, which clients do not free
  Null,      \* the null pointer
  Wild       \* what malloc leaves in a new link

ASSUME DirtyListAssumption ==
  /\ Threads # {} /\ NoThread \notin Threads
  /\ Start \in Segs
  /\ Null \notin Segs /\ Wild \notin Segs /\ Null # Wild

Pointer == Segs \cup {Null, Wild}

ListName == {"clean", "dirty"}

VARIABLES
  list,        \* next and prev of link_t, and the two bases in region_t
  dirty,       \* segment_t.dirty; FALSE where there is no segment
  link_lock,   \* who holds it
  pc,          \* where each thread is
  moving,      \* the segment whose link it moves or inserts
  at, stop,    \* the walk: the link it looks at, and the base it has remembered
  owed,        \* history: links of the dirty list that a walk has still to look at
  cleaner      \* epoch_cleanup or tm_destroy: the link it comes to next, else Null

walk == <<at, stop, owed>>
vars == <<list, dirty, link_lock, pc, moving, walk, cleaner>>

Location == {
  "running",  \* in its transaction, between calls
  "claimed",  \* move_to_dirty, the compare-and-swap has succeeded
  "remove",   \* holds link_lock, about to take the link out of the clean list
  "allocated",\* tm_alloc, has a new segment
  "insert",   \* holds link_lock, about to put the link into the dirty list
  "close",    \* holds link_lock, has written the first of the pointers
  "first",    \* rollback_transaction, has found the dirty list not empty
  "walk",     \* rollback_transaction, looks at a link
  "left",     \* has left the batch
  "gone" }    \* will not come back: tm_destroy has been called

Init ==
  /\ list = LET link == [s \in Segs |-> IF s = Start THEN Start ELSE Wild]
            IN [next |-> link, prev |-> link,
                base |-> [b \in ListName |-> IF b = "clean" THEN Start ELSE Null]]
  /\ dirty = [s \in Segs |-> FALSE]
  /\ link_lock = NoThread
  /\ pc = [t \in Threads |-> "running"]
  /\ moving = [t \in Threads |-> Null]
  /\ at = [t \in Threads |-> Null]
  /\ stop = [t \in Threads |-> Null]
  /\ owed = [t \in Threads |-> {}]
  /\ cleaner = Null

Go(t, from, to) ==
  /\ pc[t] = from
  /\ pc' = [pc EXCEPT ![t] = to]

-----------------------------------------------------------------------------
(* The lists                                                                *)

(* The links met from a base on, following next: those in every set that    *)
(* has the base and, with a link, its next.                                 *)
Met(b) ==
  LET closed == {C \in SUBSET Pointer :
                   list.base[b] \in C /\ \A s \in C \cap Segs : list.next[s] \in C}
  IN  {p \in Pointer : \A C \in closed : p \in C}

In(s, b) == s \in Met(b)

(* Following next one comes back to the base.                               *)
IsRing(b) == \E s \in Met(b) \cap Segs : list.next[s] = list.base[b]

(* There is a segment at this address: its link is in a list or on its way. *)
Exists(s) == In(s, "clean") \/ In(s, "dirty") \/ \E t \in Threads : moving[t] = s

(* Faulty: the base stays when its link leaves the list.                    *)
RemovedKeepsBase(l, s, b) ==
  [next |-> [l.next EXCEPT ![l.prev[s]] = l.next[s]],
   prev |-> [l.prev EXCEPT ![l.next[s]] = l.prev[s]],
   base |-> [l.base EXCEPT ![b] = IF l.prev[s] = s THEN Null ELSE @]]

(* link_remove                                                              *)
Removed(l, s, b) ==
  [next |-> [l.next EXCEPT ![l.prev[s]] = l.next[s]],
   prev |-> [l.prev EXCEPT ![l.next[s]] = l.prev[s]],
   base |-> [l.base EXCEPT ![b] = IF l.prev[s] = s THEN Null
                                  ELSE IF @ = s THEN l.next[s] ELSE @]]

(* _link_insert up to the first write a walk can see, and the rest.         *)
Opened(l, s, b) ==
  IF l.base[b] = Null
    THEN [l EXCEPT !.base = [@ EXCEPT ![b] = s]]
    ELSE [next |-> [l.next EXCEPT ![s] = l.base[b]],
          prev |-> [l.prev EXCEPT ![s] = l.prev[l.base[b]], ![l.base[b]] = s],
          base |-> l.base]

(* Faulty: the first link of a list is not linked to itself.                *)
ClosedAlone(l, s, b) ==
  IF l.base[b] = s THEN l ELSE [l EXCEPT !.next = [@ EXCEPT ![l.prev[s]] = s]]

Closed(l, s, b) ==
  IF l.base[b] = s
    THEN [next |-> [l.next EXCEPT ![s] = s],
          prev |-> [l.prev EXCEPT ![s] = s],
          base |-> l.base]
    ELSE [l EXCEPT !.next = [@ EXCEPT ![l.prev[s]] = s]]

-----------------------------------------------------------------------------
(* move_to_dirty, called at the end of tm_read, tm_write and tm_free        *)

Claim(t, s) ==
  /\ In(s, "clean")
  /\ ~dirty[s]
  /\ Go(t, "running", "claimed")
  /\ dirty' = [dirty EXCEPT ![s] = TRUE]
  /\ moving' = [moving EXCEPT ![t] = s]
  /\ UNCHANGED <<list, link_lock, walk, cleaner>>

Lock(t) ==
  /\ link_lock = NoThread
  /\ link_lock' = t
  /\ \/ Go(t, "claimed", "remove")
     \/ Go(t, "allocated", "insert")
  /\ UNCHANGED <<list, dirty, moving, walk, cleaner>>

Remove(t) ==
  /\ Go(t, "remove", "insert")
  /\ list' = Removed(list, moving[t], "clean")
  /\ UNCHANGED <<dirty, link_lock, moving, walk, cleaner>>

(* tm_alloc: alloc_segment and the malloc of link_insert.                   *)
Alloc(t, s) ==
  /\ ~Exists(s)
  /\ Go(t, "running", "allocated")
  /\ dirty' = [dirty EXCEPT ![s] = TRUE]
  /\ moving' = [moving EXCEPT ![t] = s]
  /\ UNCHANGED <<list, link_lock, walk, cleaner>>

Insert(t) ==
  /\ Go(t, "insert", "close")
  /\ list' = Opened(list, moving[t], "dirty")
  /\ UNCHANGED <<dirty, link_lock, moving, walk, cleaner>>

(* The last pointer, and the unlock.                                        *)
Close(t) ==
  /\ Go(t, "close", "running")
  /\ list' = Closed(list, moving[t], "dirty")
  /\ link_lock' = NoThread
  /\ moving' = [moving EXCEPT ![t] = Null]
  /\ UNCHANGED <<dirty, walk, cleaner>>

-----------------------------------------------------------------------------
(* tm_end, and the rollback of a call that was refused                      *)

End(t) ==
  /\ Go(t, "running", "left")
  /\ UNCHANGED <<list, dirty, link_lock, moving, walk, cleaner>>

(* dirty_seg_links does not change any more once it is not NULL, so that    *)
(* one load stands for all.                                                 *)
Rollback(t) ==
  /\ list.base["dirty"] # Null
  /\ Go(t, "running", "first")
  /\ stop' = [stop EXCEPT ![t] = list.base["dirty"]]
  /\ owed' = [owed EXCEPT ![t] = IF IsRing("dirty") THEN Met("dirty") ELSE {}]
  /\ UNCHANGED <<list, dirty, link_lock, moving, at, cleaner>>

RollbackFirst(t) ==
  /\ Go(t, "first", "walk")
  /\ at' = [at EXCEPT ![t] = list.next[stop[t]]]
  /\ UNCHANGED <<list, dirty, link_lock, moving, stop, owed, cleaner>>

(* Faulty: it ends before the base instead of with it.                      *)
RollbackLinkShort(t) ==
  /\ at[t] \in Segs
  /\ owed' = [owed EXCEPT ![t] = @ \ {at[t]}]
  /\ IF list.next[at[t]] = stop[t]
       THEN /\ Go(t, "walk", "left")
            /\ at' = [at EXCEPT ![t] = Null]
            /\ stop' = [stop EXCEPT ![t] = Null]
       ELSE /\ Go(t, "walk", "walk")
            /\ at' = [at EXCEPT ![t] = list.next[at[t]]]
            /\ UNCHANGED stop
  /\ UNCHANGED <<list, dirty, link_lock, moving, cleaner>>

(* Faulty: it waits for the base of the other list.                         *)
RollbackLinkClean(t) ==
  /\ at[t] \in Segs
  /\ owed' = [owed EXCEPT ![t] = @ \ {at[t]}]
  /\ IF at[t] = list.base["clean"]
       THEN /\ Go(t, "walk", "left")
            /\ at' = [at EXCEPT ![t] = Null]
            /\ stop' = [stop EXCEPT ![t] = Null]
       ELSE /\ Go(t, "walk", "walk")
            /\ at' = [at EXCEPT ![t] = list.next[at[t]]]
            /\ UNCHANGED stop
  /\ UNCHANGED <<list, dirty, link_lock, moving, cleaner>>

(* One link of the walk. A walk that follows a wild pointer goes nowhere.   *)
RollbackLink(t) ==
  /\ at[t] \in Segs
  /\ owed' = [owed EXCEPT ![t] = @ \ {at[t]}]
  /\ IF at[t] = stop[t]
       THEN /\ Go(t, "walk", "left")
            /\ at' = [at EXCEPT ![t] = Null]
            /\ stop' = [stop EXCEPT ![t] = Null]
       ELSE /\ Go(t, "walk", "walk")
            /\ at' = [at EXCEPT ![t] = list.next[at[t]]]
            /\ UNCHANGED stop
  /\ UNCHANGED <<list, dirty, link_lock, moving, cleaner>>

-----------------------------------------------------------------------------
(* epoch_cleanup, run by the last transaction to leave                      *)

Destroyed == \A t \in Threads : pc[t] = "gone"

NextBatch == [t \in Threads |-> "running"]

(* The loop starts behind the base and ends with it.                        *)
CleanupBegin ==
  /\ \A t \in Threads : pc[t] = "left"
  /\ cleaner = Null
  /\ IF list.base["dirty"] = Null
       THEN pc' = NextBatch /\ UNCHANGED cleaner
       ELSE cleaner' = list.next[list.base["dirty"]] /\ UNCHANGED pc
  /\ UNCHANGED <<list, dirty, link_lock, moving, walk>>

(* Faulty: it ends before the base instead of with it.                      *)
CleanupLinkShort(lists) ==
  /\ cleaner # Null /\ ~Destroyed
  /\ list' = lists
  /\ dirty' = [dirty EXCEPT ![cleaner] = FALSE]
  /\ IF list.next[cleaner] = list.base["dirty"]
       THEN cleaner' = Null /\ pc' = NextBatch
       ELSE cleaner' = list.next[cleaner] /\ UNCHANGED pc
  /\ UNCHANGED <<link_lock, moving, walk>>

(* What the loop does to one link, and which it takes next.                 *)
CleanupLink(lists) ==
  /\ cleaner # Null /\ ~Destroyed
  /\ list' = lists
  /\ dirty' = [dirty EXCEPT ![cleaner] = FALSE]
  /\ IF cleaner = list.base["dirty"]
       THEN cleaner' = Null /\ pc' = NextBatch
       ELSE cleaner' = list.next[cleaner] /\ UNCHANGED pc
  /\ UNCHANGED <<link_lock, moving, walk>>

(* A link without its segment, which are freed together.                    *)
Freed(l, s) ==
  [next |-> [l.next EXCEPT ![s] = Wild],
   prev |-> [l.prev EXCEPT ![s] = Wild],
   base |-> l.base]

(* The segment and its link are freed, if a transaction that committed has  *)
(* freed it or one that was rolled back has allocated it.                   *)
CleanupFree ==
  /\ cleaner # Start
  /\ CleanupLink(Freed(Removed(list, cleaner, "dirty"), cleaner))

(* move_to_clean moves the link if the segment was dirty.                   *)
CleanupMove ==
  CleanupLink(IF cleaner \in Segs /\ dirty[cleaner]
    THEN LET l == Removed(list, cleaner, "dirty")
         IN Closed(Opened(l, cleaner, "clean"), cleaner, "clean")
    ELSE list)

-----------------------------------------------------------------------------
(* tm_destroy, called when no transaction runs and none will                *)

Destroy ==
  /\ \A t \in Threads : pc[t] = "left"
  /\ cleaner = Null /\ list.base["dirty"] = Null
  /\ pc' = [t \in Threads |-> "gone"]
  /\ cleaner' = list.next[list.base["clean"]]
  /\ UNCHANGED <<list, dirty, link_lock, moving, walk>>

(* Faulty: it looks for the base when the link is no longer in the list.    *)
DestroyLinkLate ==
  /\ Destroyed /\ cleaner \in Segs
  /\ list' = Freed(Removed(list, cleaner, "clean"), cleaner)
  /\ cleaner' = IF cleaner = list'.base["clean"] THEN Null ELSE list.next[cleaner]
  /\ UNCHANGED <<dirty, link_lock, pc, moving, walk>>

(* Whether the link is the last one, and which is the next, is read before  *)
(* the link is removed and freed. A wild pointer leads nowhere.             *)
DestroyLink ==
  /\ Destroyed /\ cleaner \in Segs
  /\ list' = Freed(Removed(list, cleaner, "clean"), cleaner)
  /\ cleaner' = IF cleaner = list.base["clean"] THEN Null ELSE list.next[cleaner]
  /\ UNCHANGED <<dirty, link_lock, pc, moving, walk>>

-----------------------------------------------------------------------------

Move(t)  == Lock(t) \/ Remove(t) \/ Insert(t) \/ Close(t)
Walk(t)  == RollbackFirst(t) \/ RollbackLink(t)
Cleanup  == CleanupBegin \/ CleanupFree \/ CleanupMove

Next ==
  \/ \E t \in Threads :
       \/ \E s \in Segs : Claim(t, s) \/ Alloc(t, s)
       \/ Move(t)
       \/ End(t)
       \/ Rollback(t)
       \/ Walk(t)
  \/ Cleanup
  \/ Destroy
  \/ DestroyLink

Spec == Init /\ [][Next]_vars

(* Threads run, and link_lock is given to one that waits for it. Nobody has *)
(* to make a call, or to end, or to destroy the memory.                     *)
FairSpec ==
  /\ Spec
  /\ \A t \in Threads : WF_vars(Move(t)) /\ WF_vars(Walk(t))
  /\ WF_vars(DestroyLink)

-----------------------------------------------------------------------------
TypeOK ==
  /\ list \in [next : [Segs -> Pointer], prev : [Segs -> Pointer],
              base : [ListName -> Segs \cup {Null}]]
  /\ dirty \in [Segs -> BOOLEAN]
  /\ link_lock \in Threads \cup {NoThread}
  /\ pc \in [Threads -> Location]
  /\ moving \in [Threads -> Segs \cup {Null}]
  /\ at \in [Threads -> Pointer]
  /\ stop \in [Threads -> Segs \cup {Null}]
  /\ owed \in [Threads -> SUBSET Segs]
  /\ cleaner \in Segs \cup {Null}

(* A list is empty, or a ring, and prev is the way back.                    *)
Circular(b) ==
  list.base[b] # Null =>
    /\ IsRing(b)
    /\ \A s \in Met(b) : list.prev[list.next[s]] = s /\ list.next[list.prev[s]] = s

(* Whenever nobody holds link_lock, both lists are circular and have no     *)
(* link in common; the dirty list has the segments whose flag is set, but   *)
(* for those on their way into it. The segment of tm_create is not lost.    *)
(* At any time everything has its type.                                     *)
ListsWellFormed ==
  /\ TypeOK
  /\ link_lock = NoThread =>
       /\ Circular("clean") /\ Circular("dirty")
       /\ Met("clean") \cap Met("dirty") \subseteq {Null}
       /\ \A s \in Segs : In(s, "dirty") <=>
            dirty[s] /\ ~\E t \in Threads : moving[t] = s
       /\ Exists(Start) \/ Destroyed

(* When a batch begins, nothing is left in the dirty list, and no segment   *)
(* is flagged that is not in it.                                            *)
BatchBeginsClean ==
  [][cleaner # Null /\ cleaner' = Null =>
       list'.base["dirty"] = Null /\ ~\E s \in Segs : dirty'[s]]_vars

(* tm_destroy comes to an end, whatever the epochs before have made of the  *)
(* order of the clean list and of its base, with every segment freed, and   *)
(* none of them twice or looked at when it is gone.                         *)
DestroyFreesAll ==
  Destroyed ~> /\ list.base["clean"] = Null /\ cleaner = Null
               /\ ~\E s \in Segs : list.next[s] # Wild

(* A rollback that has ended has looked at every link that was in the dirty *)
(* list when it began, whatever was inserted meanwhile.                     *)
RollbackSeesAll ==
  \A t \in Threads : pc[t] = "left" => owed[t] = {}

(* A rollback that has set foot in the dirty list ends, even if the list    *)
(* grows behind it again and again.                                         *)
WalkReturns ==
  \A t \in Threads :
    (pc[t] = "walk" /\ IsRing("dirty") /\ In(at[t], "dirty")) ~> (pc[t] = "left")

(* Every rollback ends, so that the refused call returns as tests.c:188     *)
(* expects. (What a walk does that meets an uninitialised pointer is        *)
(* another question, and left out here.)                                    *)
RollbackReturns ==
  \A t \in Threads : pc[t] = "first" ~> (pc[t] = "left" \/ at[t] = Wild)

==============================================================================

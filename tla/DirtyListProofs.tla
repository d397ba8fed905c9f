---------------------------- MODULE DirtyListProofs ----------------------------
(***************************************************************************)
(* Proofs about DirtyList.tla, for any threads and any set of addresses:    *)
(* both lists stay rings of links and share none, a rollback that walks     *)
(* along the dirty list without the lock looks at every link it owes, and a *)
(* batch begins with nothing dirty.                                         *)
(*                                                                         *)
(* That a set of links is one ring, and not several, is said without        *)
(* counting: no part of it but the whole is closed under next.              *)
(***************************************************************************)
EXTENDS DirtyList, TLAPS

ListType == [next : [Segs -> Pointer], prev : [Segs -> Pointer],
             base : [ListName -> Segs \cup {Null}]]

(* The links S form one ring, and prev is the way back.                     *)
Ring(next, prev, S) ==
  /\ \A s \in S : /\ next[s] \in S /\ prev[next[s]] = s
                  /\ prev[s] \in S /\ next[prev[s]] = s
  /\ \A E \in SUBSET S : E # {} /\ (\A e \in E : next[e] \in E) => E = S

(* List b of l has the links S.                                             *)
Holds(l, b, S) ==
  /\ IF S = {} THEN l.base[b] = Null ELSE l.base[b] \in S
  /\ Ring(l.next, l.prev, S)

WellFormed(l, C, D) ==
  /\ l \in ListType /\ C \in SUBSET Segs /\ D \in SUBSET Segs /\ C \cap D = {}
  /\ Holds(l, "clean", C)
  /\ Holds(l, "dirty", D)

(* Segments on their way to the dirty list. *)
Taken == {s \in Segs : \E t \in Threads : moving[t] = s}

Moving  == {"claimed", "remove", "allocated", "insert", "close"}
Holding == {"remove", "insert", "close"}

(* The lists have links C and D. While an insertion is under way, they are  *)
(* a pair of such lists with the insertion's first step done.               *)
Links(C, D) ==
  \/ (\A t \in Threads : pc[t] # "close") /\ WellFormed(list, C, D)
  \/ \E t \in Threads : /\ pc[t] = "close"
                        /\ \E l \in ListType : /\ WellFormed(l, C, D)
                                               /\ list = Opened(l, moving[t], "dirty")

(* Where a thread is tells where the link is that it moves, and what the    *)
(* link still says.                                                         *)
Mover(t, C, D) ==
  /\ moving[t] # Null <=> pc[t] \in Moving
  /\ link_lock = t <=> pc[t] \in Holding
  /\ pc[t] \in {"claimed", "remove"} => moving[t] \in C
  /\ pc[t] \in {"allocated", "insert", "close"} => moving[t] \notin C \cup D
  /\ pc[t] = "allocated" => list.next[moving[t]] = Wild
  /\ pc[t] = "insert" \/ (pc[t] = "close" /\ list.base["dirty"] = moving[t]) =>
       list.next[moving[t]] \in C \cup {moving[t], Wild}

Movers(C, D) ==
  /\ \A t \in Threads : Mover(t, C, D)
  /\ \A t, u \in Threads : moving[t] = moving[u] /\ moving[t] # Null => t = u
  /\ \A s \in Segs \ (C \cup D \cup Taken) : list.next[s] = Wild

(* The flags. *)
Flags(C, D) ==
  /\ D \cap Taken = {}
  /\ \A s \in Segs : dirty[s] <=> s \in D \cup Taken
  /\ Start \in C \cup D \cup Taken \/ Destroyed

(* The link a walk comes to next.                                           *)
Here(t) == IF pc[t] = "first" THEN list.next[list.base["dirty"]] ELSE at[t]

(* The links a walk can meet in the dirty list; the first one joins it      *)
(* before the list is closed.                                               *)
Way(D) == D \cup ({list.base["dirty"]} \ {Null})

(* What a walk owes lies ahead: it is in every part of the list that has    *)
(* the link it comes to and goes on up to the base.                         *)
LiesAhead(t, D) ==
  LET base == list.base["dirty"] IN
  /\ pc[t] \in {"first", "walk"}
  /\ stop[t] = base /\ base # Null
  /\ list.next[base] \in Way(D) /\ Here(t) \in Way(D)
  /\ \A E \in SUBSET Way(D) :
       Here(t) \in E /\ (\A e \in E \ {base} : list.next[e] \in E) => owed[t] \subseteq E

Ahead(D) == \A t \in Threads : owed[t] # {} => LiesAhead(t, D)

(* epoch_cleanup and tm_destroy take the link behind the base until it is   *)
(* the base.                                                                *)
Cleaning(C, D) ==
  /\ cleaner # Null /\ ~Destroyed =>
       /\ \A t \in Threads : pc[t] = "left"
       /\ D # {} /\ cleaner = list.next[list.base["dirty"]]
  /\ cleaner # Null /\ Destroyed => C # {} /\ cleaner = list.next[list.base["clean"]]
  /\ (\E t \in Threads : pc[t] = "gone") => Destroyed
  /\ Destroyed => D = {}

Parts(C, D) ==
  Links(C, D) /\ Movers(C, D) /\ Flags(C, D) /\ Ahead(D) /\ Cleaning(C, D)

(* A walk that has found the list not empty has remembered its base.        *)
Remembered == \A t \in Threads : pc[t] = "first" => stop[t] # Null

(* The inductive invariant. *)
IInv == TypeOK /\ Remembered /\ \E C, D \in SUBSET Segs : Parts(C, D)

-----------------------------------------------------------------------------
(* What the operators of link.c make of the pointers. *)

LEMMA RemovedFacts ==
  ASSUME NEW l \in ListType, NEW b \in ListName,
         NEW s \in Segs, l.prev[s] \in Segs, l.next[s] \in Segs
  PROVE  LET r == Removed(l, s, b) IN
         /\ r \in ListType
         /\ \A x \in Segs : r.next[x] = IF x = l.prev[s] THEN l.next[s] ELSE l.next[x]
         /\ \A x \in Segs : r.prev[x] = IF x = l.next[s] THEN l.prev[s] ELSE l.prev[x]
         /\ r.base[b] = (IF l.prev[s] = s THEN Null
                         ELSE IF l.base[b] = s THEN l.next[s] ELSE l.base[b])
         /\ \A d \in ListName : d # b => r.base[d] = l.base[d]
BY DEF Removed, ListType, Pointer

LEMMA OpenedFacts ==
  ASSUME NEW l \in ListType, NEW b \in ListName, NEW s \in Segs
  PROVE  LET r == Opened(l, s, b) IN
         /\ l.base[b] = Null => /\ r \in ListType
                                /\ r.next = l.next /\ r.prev = l.prev /\ r.base[b] = s
         /\ l.base[b] # Null /\ s # l.base[b] =>
              /\ r \in ListType
              /\ \A x \in Segs : r.next[x] = IF x = s THEN l.base[b] ELSE l.next[x]
              /\ \A x \in Segs : r.prev[x] = IF x = s THEN l.prev[l.base[b]]
                                             ELSE IF x = l.base[b] THEN s ELSE l.prev[x]
              /\ r.base[b] = l.base[b]
         /\ \A d \in ListName : d # b => r.base[d] = l.base[d]
<1> DEFINE r == Opened(l, s, b)
<1>1. CASE l.base[b] = Null
  <2> DEFINE f == [l.base EXCEPT ![b] = s]
  <2>1. r = [l EXCEPT !.base = f]
    BY <1>1 DEF Opened
  <2>2. /\ f \in [ListName -> Segs \cup {Null}] /\ f[b] = s
        /\ \A d \in ListName : d # b => f[d] = l.base[d]
    BY DEF ListType
  <2> HIDE DEF f
  <2>3. r = [next |-> l.next, prev |-> l.prev, base |-> f]
    BY <2>1, <2>2 DEF ListType
  <2>4. QED
    BY <1>1, <2>2, <2>3 DEF ListType
<1>2. CASE l.base[b] # Null
  BY <1>2 DEF Opened, ListType, Pointer
<1>3. QED
  BY <1>1, <1>2

LEMMA ClosedFacts ==
  ASSUME NEW l \in ListType, NEW b \in ListName, NEW s \in Segs
  PROVE  LET r == Closed(l, s, b) IN
         /\ l.base[b] = s =>
              /\ r \in ListType
              /\ \A x \in Segs : r.next[x] = IF x = s THEN s ELSE l.next[x]
              /\ \A x \in Segs : r.prev[x] = IF x = s THEN s ELSE l.prev[x]
         /\ l.base[b] # s /\ l.prev[s] \in Segs =>
              /\ r \in ListType
              /\ \A x \in Segs : r.next[x] = IF x = l.prev[s] THEN s ELSE l.next[x]
              /\ r.prev = l.prev
         /\ r.base = l.base
<1> DEFINE r == Closed(l, s, b)
<1>1. CASE l.base[b] = s
  BY <1>1 DEF Closed, ListType, Pointer
<1>2. CASE l.base[b] # s
  <2> DEFINE f == [l.next EXCEPT ![l.prev[s]] = s]
  <2>1. r = [l EXCEPT !.next = f]
    BY <1>2 DEF Closed
  <2>2. /\ f \in [Segs -> Pointer]
        /\ l.prev[s] \in Segs => \A x \in Segs : f[x] = IF x = l.prev[s] THEN s ELSE l.next[x]
    BY DEF ListType, Pointer
  <2> HIDE DEF f
  <2>3. r = [next |-> f, prev |-> l.prev, base |-> l.base]
    BY <2>1, <2>2 DEF ListType
  <2>4. QED
    BY <1>2, <2>2, <2>3 DEF ListType
<1>3. QED
  BY <1>1, <1>2

-----------------------------------------------------------------------------
(* Rings: a link taken out, a link put in behind the last one. *)

LEMMA RingSame ==
  ASSUME NEW S, NEW n, NEW p, NEW n2, NEW p2, Ring(n, p, S),
         \A x \in S : n2[x] = n[x] /\ p2[x] = p[x]
  PROVE  Ring(n2, p2, S)
BY DEF Ring

LEMMA RingSingle ==
  ASSUME NEW S, NEW n, NEW p, Ring(n, p, S), NEW s \in S, n[s] = s \/ p[s] = s
  PROVE  S = {s}
<1>1. n[s] = s
  BY DEF Ring
<1>2. {s} \in SUBSET S /\ {s} # {} /\ \A e \in {s} : n[e] \in {s}
  BY <1>1
<1>3. QED
  BY <1>2 DEF Ring

LEMMA RingRemove ==
  ASSUME NEW S, NEW n, NEW p, NEW n2, NEW p2, Ring(n, p, S), NEW s \in S, p[s] # s,
         \A x \in S \ {s} : n2[x] = IF x = p[s] THEN n[s] ELSE n[x],
         \A x \in S \ {s} : p2[x] = IF x = n[s] THEN p[s] ELSE p[x]
  PROVE  Ring(n2, p2, S \ {s})
<1> DEFINE R == S \ {s}
<1>1. /\ n[s] \in R /\ p[s] \in R /\ p[n[s]] = s /\ n[p[s]] = s
      /\ \A x \in R : n[x] = s => x = p[s]
      /\ \A x \in R : p[x] = s => x = n[s]
  BY DEF Ring
<1>2. ASSUME NEW x \in R
      PROVE  /\ n2[x] \in R /\ p2[n2[x]] = x
             /\ p2[x] \in R /\ n2[p2[x]] = x
  BY <1>1 DEF Ring
<1>3. ASSUME NEW E \in SUBSET R, E # {}, \A e \in E : n2[e] \in E
      PROVE  E = R
  <2>1. CASE p[s] \in E
    <3> DEFINE F == E \cup {s}
    <3>1. n[s] \in E
      BY <1>3, <2>1
    <3>2. \A e \in F : n[e] \in F
      BY <1>1, <1>3, <3>1
    <3>3. F \in SUBSET S /\ F # {}
      BY <1>3
    <3>4. F = S
      BY <3>2, <3>3 DEF Ring
    <3>5. QED
      BY <1>3, <3>4
  <2>2. CASE p[s] \notin E
    <3>1. \A e \in E : n[e] \in E
      BY <1>3, <2>2
    <3>2. E = S
      BY <1>3, <3>1 DEF Ring
    <3>3. QED
      BY <3>2
  <2>3. QED
    BY <2>1, <2>2
<1>4. QED
  BY <1>2, <1>3 DEF Ring

LEMMA RingInsert ==
  ASSUME NEW S, NEW n, NEW p, NEW n2, NEW p2, Ring(n, p, S), NEW b \in S, NEW s, s \notin S,
         \A x \in S : n2[x] = IF x = p[b] THEN s ELSE n[x], n2[s] = b,
         \A x \in S : p2[x] = IF x = b THEN s ELSE p[x], p2[s] = p[b]
  PROVE  Ring(n2, p2, S \cup {s})
<1> DEFINE R == S \cup {s}
<1>1. /\ p[b] \in S /\ n[p[b]] = b
      /\ \A x \in S : n[x] = b => x = p[b]
      /\ \A x \in S : p[x] = p[b] => x = b
  BY DEF Ring
<1>2. ASSUME NEW x \in R
      PROVE  /\ n2[x] \in R /\ p2[n2[x]] = x
             /\ p2[x] \in R /\ n2[p2[x]] = x
  <2>1. CASE x = s
    BY <1>1, <2>1
  <2>2. CASE x # s
    BY <1>1, <2>2 DEF Ring
  <2>3. QED
    BY <2>1, <2>2
<1>3. ASSUME NEW E \in SUBSET R, E # {}, \A e \in E : n2[e] \in E
      PROVE  E = R
  <2> DEFINE F == E \ {s}
  <2>1. F \in SUBSET S
    BY <1>3
  <2>2. F # {}
    BY <1>3, <1>1
  <2>3. \A e \in F : n[e] \in F
    <3>1. ASSUME NEW e \in F, e = p[b]
          PROVE  n[e] \in F
      <4>1. s \in E
        BY <1>3, <2>1, <3>1
      <4>2. QED
        BY <1>1, <1>3, <3>1, <4>1
    <3>2. ASSUME NEW e \in F, e # p[b]
          PROVE  n[e] \in F
      <4>1. n[e] \in S
        BY <2>1 DEF Ring
      <4>2. QED
        BY <1>3, <2>1, <3>2, <4>1
    <3>3. QED
      BY <3>1, <3>2
  <2>4. F = S
    BY <2>1, <2>2, <2>3 DEF Ring
  <2>5. s \in E
    BY <1>1, <1>3, <2>4
  <2>6. QED
    BY <2>4, <2>5
<1>4. QED
  BY <1>2, <1>3 DEF Ring

-----------------------------------------------------------------------------
(* The same for a list with its base. *)

LEMMA HoldsSame ==
  ASSUME NEW l, NEW r, NEW b, NEW S, Holds(l, b, S), r.base[b] = l.base[b],
         \A x \in S : r.next[x] = l.next[x] /\ r.prev[x] = l.prev[x]
  PROVE  Holds(r, b, S)
<1>1. Ring(r.next, r.prev, S)
  BY RingSame DEF Holds
<1>2. QED
  BY <1>1 DEF Holds

(* Without s, which is one of the links S of list b, l becomes r.           *)
TakesOut(l, r, b, S, s) ==
  /\ r \in ListType /\ Holds(r, b, S \ {s})
  /\ \A x \in Segs \ S : r.next[x] = l.next[x] /\ r.prev[x] = l.prev[x]
  /\ r.next[s] = l.next[s] /\ l.next[s] \in S /\ r.next[l.prev[s]] = l.next[s]
  /\ \A d \in ListName : d # b => r.base[d] = l.base[d]
  /\ l.base[b] # s => r.base[b] = l.base[b]

(* link_remove *)
LEMMA RemoveHolds ==
  ASSUME NEW l \in ListType, NEW b \in ListName, NEW S \in SUBSET Segs, Holds(l, b, S),
         NEW s \in S
  PROVE  TakesOut(l, Removed(l, s, b), b, S, s)
<1> DEFINE r == Removed(l, s, b)
<1>1. /\ l.base[b] \in S /\ Ring(l.next, l.prev, S)
      /\ l.next[s] \in S /\ l.prev[s] \in S /\ l.next[l.prev[s]] = s /\ l.prev[l.next[s]] = s
  BY DEF Holds, Ring
<1>2. /\ r \in ListType
      /\ \A x \in Segs : r.next[x] = IF x = l.prev[s] THEN l.next[s] ELSE l.next[x]
      /\ \A x \in Segs : r.prev[x] = IF x = l.next[s] THEN l.prev[s] ELSE l.prev[x]
      /\ r.base[b] = (IF l.prev[s] = s THEN Null
                      ELSE IF l.base[b] = s THEN l.next[s] ELSE l.base[b])
      /\ \A d \in ListName : d # b => r.base[d] = l.base[d]
  BY <1>1, RemovedFacts
<1> HIDE DEF r
<1>3. Holds(r, b, S \ {s})
  <2>1. CASE l.prev[s] = s
    <3>1. S = {s}
      BY <1>1, <2>1, RingSingle
    <3>2. QED
      BY <1>2, <2>1, <3>1 DEF Holds, Ring
  <2>2. CASE l.prev[s] # s
    <3>1. Ring(r.next, r.prev, S \ {s})
      <4>1. /\ \A x \in S \ {s} : r.next[x] = IF x = l.prev[s] THEN l.next[s] ELSE l.next[x]
            /\ \A x \in S \ {s} : r.prev[x] = IF x = l.next[s] THEN l.prev[s] ELSE l.prev[x]
        BY <1>2
      <4>2. QED
        BY <1>1, <2>2, <4>1, RingRemove
    <3>2. l.next[s] # s
      BY <1>1, <2>2
    <3>3. QED
      BY <1>1, <1>2, <2>2, <3>1, <3>2 DEF Holds
  <2>3. QED
    BY <2>1, <2>2
<1>4. /\ \A x \in Segs \ S : r.next[x] = l.next[x] /\ r.prev[x] = l.prev[x]
      /\ r.next[s] = l.next[s] /\ r.next[l.prev[s]] = l.next[s]
  BY <1>1, <1>2
<1>5. l.base[b] # s => r.base[b] = l.base[b]
  <2>1. ASSUME l.base[b] # s
        PROVE  l.prev[s] # s
    <3>1. l.prev[s] = s => S = {s}
      BY <1>1, RingSingle
    <3>2. QED
      BY <1>1, <2>1, <3>1
  <2>2. QED
    BY <1>2, <2>1
<1>6. QED
  BY <1>1, <1>2, <1>3, <1>4, <1>5 DEF r, TakesOut

(* _link_insert, up to the first pointer a walk can see. *)
LEMMA OpenHolds ==
  ASSUME NEW l \in ListType, NEW b \in ListName, NEW S \in SUBSET Segs, Holds(l, b, S),
         NEW s \in Segs \ S
  PROVE  LET o == Opened(l, s, b) IN
         /\ o \in ListType
         /\ \A x \in Segs \ {s} : o.next[x] = l.next[x]
         /\ \A x \in Segs \ (S \cup {s}) : o.prev[x] = l.prev[x]
         /\ \A d \in ListName : d # b => o.base[d] = l.base[d]
         /\ S = {} => o.base[b] = s /\ o.next[s] = l.next[s]
         /\ S # {} => /\ o.base[b] = l.base[b] /\ o.base[b] \in S /\ o.next[s] = l.base[b]
                      /\ o.prev[s] = l.prev[l.base[b]] /\ o.prev[s] \in S
                      /\ \A x \in S : o.prev[x] = IF x = l.base[b] THEN s ELSE l.prev[x]
<1> DEFINE o == Opened(l, s, b)
<1>1. CASE S = {}
  <2>1. l.base[b] = Null
    BY <1>1 DEF Holds
  <2>2. QED
    BY <1>1, <2>1, OpenedFacts
<1>2. CASE S # {}
  <2>1. l.base[b] \in S /\ l.prev[l.base[b]] \in S
    BY <1>2 DEF Holds, Ring
  <2>2. l.base[b] # Null /\ s # l.base[b]
    BY <2>1, DirtyListAssumption
  <2>3. /\ o \in ListType
        /\ \A x \in Segs : o.next[x] = IF x = s THEN l.base[b] ELSE l.next[x]
        /\ \A x \in Segs : o.prev[x] = IF x = s THEN l.prev[l.base[b]]
                                       ELSE IF x = l.base[b] THEN s ELSE l.prev[x]
        /\ o.base[b] = l.base[b]
        /\ \A d \in ListName : d # b => o.base[d] = l.base[d]
    BY <2>2, OpenedFacts
  <2> HIDE DEF o
  <2>4. QED
    BY <1>2, <2>1, <2>2, <2>3 DEF o
<1>3. QED
  BY <1>1, <1>2

(* With s behind the last one of the links S of list b, l becomes r.        *)
PutsIn(l, r, b, S, s) ==
  /\ r \in ListType /\ Holds(r, b, S \cup {s})
  /\ \A x \in Segs \ (S \cup {s}) : r.next[x] = l.next[x] /\ r.prev[x] = l.prev[x]
  /\ \A d \in ListName : d # b => r.base[d] = l.base[d]
  /\ S = {} => r.base[b] = s /\ r.next[s] = s
  /\ S # {} => /\ r.base[b] = l.base[b] /\ r.next[s] = l.base[b]
               /\ \A x \in S : r.next[x] = IF l.next[x] = l.base[b] THEN s ELSE l.next[x]

(* _link_insert *)
LEMMA InsertHolds ==
  ASSUME NEW l \in ListType, NEW b \in ListName, NEW S \in SUBSET Segs, Holds(l, b, S),
         NEW s \in Segs \ S
  PROVE  PutsIn(l, Closed(Opened(l, s, b), s, b), b, S, s)
<1> DEFINE o == Opened(l, s, b)
           r == Closed(o, s, b)
<1>1. /\ o \in ListType
      /\ \A x \in Segs \ {s} : o.next[x] = l.next[x]
      /\ \A x \in Segs \ (S \cup {s}) : o.prev[x] = l.prev[x]
      /\ \A d \in ListName : d # b => o.base[d] = l.base[d]
      /\ S = {} => o.base[b] = s /\ o.next[s] = l.next[s]
      /\ S # {} => /\ o.base[b] = l.base[b] /\ o.base[b] \in S /\ o.next[s] = l.base[b]
                   /\ o.prev[s] = l.prev[l.base[b]] /\ o.prev[s] \in S
                   /\ \A x \in S : o.prev[x] = IF x = l.base[b] THEN s ELSE l.prev[x]
  BY OpenHolds
<1> HIDE DEF o
<1>2. /\ o.base[b] = s =>
           /\ r \in ListType
           /\ \A x \in Segs : r.next[x] = IF x = s THEN s ELSE o.next[x]
           /\ \A x \in Segs : r.prev[x] = IF x = s THEN s ELSE o.prev[x]
      /\ o.base[b] # s /\ o.prev[s] \in Segs =>
           /\ r \in ListType
           /\ \A x \in Segs : r.next[x] = IF x = o.prev[s] THEN s ELSE o.next[x]
           /\ r.prev = o.prev
      /\ r.base = o.base
  BY <1>1, ClosedFacts
<1> HIDE DEF r
<1>3. CASE S = {}
  <2>1. /\ r \in ListType /\ r.next[s] = s /\ r.prev[s] = s /\ r.base[b] = s
        /\ \A x \in Segs \ {s} : r.next[x] = l.next[x] /\ r.prev[x] = l.prev[x]
    BY <1>1, <1>2, <1>3
  <2>2. Holds(r, b, S \cup {s})
    <3>1. S \cup {s} = {s}
      BY <1>3
    <3>2. Ring(r.next, r.prev, {s})
      BY <2>1 DEF Ring
    <3>3. QED
      BY <2>1, <3>1, <3>2 DEF Holds
  <2>3. QED
    BY <1>1, <1>2, <1>3, <2>1, <2>2 DEF o, r, PutsIn
<1>4. CASE S # {}
  <2> DEFINE c == l.base[b]
  <2>1. c \in S /\ l.prev[c] \in S /\ Ring(l.next, l.prev, S)
    BY <1>4 DEF Holds, Ring
  <2>2. /\ r \in ListType /\ r.base[b] = c
        /\ \A x \in S : r.next[x] = IF x = l.prev[c] THEN s ELSE l.next[x]
        /\ \A x \in S : r.prev[x] = IF x = c THEN s ELSE l.prev[x]
        /\ r.next[s] = c /\ r.prev[s] = l.prev[c]
        /\ \A x \in Segs \ (S \cup {s}) : r.next[x] = l.next[x] /\ r.prev[x] = l.prev[x]
    <3>1. o.base[b] # s /\ o.prev[s] \in Segs
      BY <1>1, <1>4
    <3>2. QED
      BY <1>1, <1>2, <1>4, <2>1, <3>1
  <2> HIDE DEF c
  <2>3. Ring(r.next, r.prev, S \cup {s})
    BY <2>1, <2>2, RingInsert
  <2>4. Holds(r, b, S \cup {s})
    BY <2>1, <2>2, <2>3 DEF Holds
  <2>5. \A x \in S : l.next[x] = c <=> x = l.prev[c]
    BY <2>1 DEF Ring
  <2>6. QED
    BY <1>1, <1>2, <1>4, <2>2, <2>4, <2>5 DEF o, r, c, PutsIn
<1>5. QED
  BY <1>3, <1>4

-----------------------------------------------------------------------------
(* What one meets following next. *)

LEMMA MetNothing ==
  ASSUME NEW b, list.base[b] = Null
  PROVE  Met(b) = {Null}
<1>1. \A C \in SUBSET Pointer : list.base[b] \in C => Null \in C
  OBVIOUS
<1>2. /\ {Null} \in SUBSET Pointer /\ list.base[b] \in {Null}
      /\ \A s \in {Null} \cap Segs : list.next[s] \in {Null}
  BY DirtyListAssumption DEF Pointer
<1>3. Null \in Pointer
  BY DEF Pointer
<1>4. QED
  BY <1>1, <1>2, <1>3 DEF Met

LEMMA MetWithin ==
  ASSUME NEW b, NEW S \in SUBSET Pointer, list.base[b] \in S,
         \A s \in S \cap Segs : list.next[s] \in S
  PROVE  Met(b) \subseteq S
BY DEF Met

LEMMA MetRing ==
  ASSUME NEW b, NEW S \in SUBSET Segs, list.base[b] \in S,
         \A s \in S : list.next[s] \in S,
         \A E \in SUBSET S : E # {} /\ (\A e \in E : list.next[e] \in E) => E = S
  PROVE  Met(b) = S
<1>1. Met(b) \subseteq S
  BY MetWithin DEF Pointer
<1>2. ASSUME NEW s \in S, NEW C \in SUBSET Pointer, list.base[b] \in C,
             \A x \in C \cap Segs : list.next[x] \in C
      PROVE  s \in C
  <2> DEFINE E == C \cap S
  <2>1. E \in SUBSET S /\ E # {} /\ \A e \in E : list.next[e] \in E
    BY <1>2
  <2>2. E = S
    BY <2>1
  <2>3. QED
    BY <2>2
<1>3. S \subseteq Met(b)
  BY <1>2 DEF Met, Pointer
<1>4. QED
  BY <1>1, <1>3

-----------------------------------------------------------------------------
(* What the invariant says of the lists at any time. *)

LEMMA View ==
  ASSUME TypeOK, NEW C \in SUBSET Segs, NEW D \in SUBSET Segs, Links(C, D), Movers(C, D)
  PROVE  /\ list \in ListType /\ C \cap D = {} /\ Holds(list, "clean", C)
         /\ list.base["dirty"] \in Segs \cup {Null} /\ list.base["dirty"] \notin C
         /\ D # {} => list.base["dirty"] \in D
         /\ \A s \in D : list.next[s] \in D
         /\ \A E \in SUBSET D : E # {} /\ (\A e \in E : list.next[e] \in E) => E = D
         /\ D = {} => \/ list.base["dirty"] = Null
                      \/ \E t \in Threads : pc[t] = "close" /\ list.base["dirty"] = moving[t]
         /\ (\A t \in Threads : pc[t] # "close") => WellFormed(list, C, D)
<1>1. list \in ListType
  BY DEF TypeOK, ListType
<1>2. CASE (\A t \in Threads : pc[t] # "close") /\ WellFormed(list, C, D)
  <2>1. C \cap D = {} /\ Holds(list, "clean", C) /\ Holds(list, "dirty", D)
    BY <1>2 DEF WellFormed
  <2>2. D # {} => list.base["dirty"] \in D
    BY <2>1 DEF Holds
  <2>3. D = {} => list.base["dirty"] = Null
    BY <2>1 DEF Holds
  <2>4. list.base["dirty"] \in Segs \cup {Null} /\ list.base["dirty"] \notin C
    BY <2>1, <2>2, <2>3, DirtyListAssumption
  <2>5. QED
    BY <1>1, <1>2, <2>1, <2>2, <2>3, <2>4 DEF Holds, Ring
<1>3. ASSUME NEW t \in Threads, pc[t] = "close", NEW l \in ListType, WellFormed(l, C, D),
             list = Opened(l, moving[t], "dirty")
      PROVE  /\ C \cap D = {} /\ Holds(list, "clean", C)
             /\ list.base["dirty"] \in Segs \cup {Null} /\ list.base["dirty"] \notin C
             /\ D # {} => list.base["dirty"] \in D
             /\ \A s \in D : list.next[s] \in D
             /\ \A E \in SUBSET D : E # {} /\ (\A e \in E : list.next[e] \in E) => E = D
             /\ D = {} => list.base["dirty"] = moving[t]
  <2> DEFINE m == moving[t]
  <2>1. m \in Segs /\ m \notin C \cup D
    BY <1>3 DEF Movers, Mover, TypeOK, Moving
  <2> HIDE DEF m
  <2>2. C \cap D = {} /\ Holds(l, "clean", C) /\ Holds(l, "dirty", D)
    BY <1>3 DEF WellFormed
  <2>3. "clean" \in ListName /\ "dirty" \in ListName
    BY DEF ListName
  <2>4. list = Opened(l, m, "dirty")
    BY <1>3 DEF m
  <2>5. /\ \A x \in Segs \ {m} : list.next[x] = l.next[x]
        /\ \A x \in Segs \ (D \cup {m}) : list.prev[x] = l.prev[x]
        /\ \A d \in ListName : d # "dirty" => list.base[d] = l.base[d]
        /\ D = {} => list.base["dirty"] = m
        /\ D # {} => list.base["dirty"] \in D
    BY <2>1, <2>2, <2>3, <2>4, OpenHolds
  <2>6. Holds(list, "clean", C)
    <3>1. \A x \in C : list.next[x] = l.next[x] /\ list.prev[x] = l.prev[x]
      BY <2>1, <2>2, <2>5
    <3>2. list.base["clean"] = l.base["clean"]
      BY <2>3, <2>5
    <3>3. QED
      BY <2>2, <3>1, <3>2, HoldsSame
  <2>7. \A x \in D : list.next[x] = l.next[x]
    BY <2>1, <2>5
  <2>8. QED
    BY <2>1, <2>2, <2>5, <2>6, <2>7 DEF Holds, Ring, m
<1>4. QED
  BY <1>1, <1>2, <1>3 DEF Links

(* A segment is met in the clean list exactly if it is one of C. *)
LEMMA InClean ==
  ASSUME TypeOK, NEW C \in SUBSET Segs, NEW D \in SUBSET Segs, Links(C, D), Movers(C, D)
  PROVE  /\ \A s \in Segs : In(s, "clean") <=> s \in C
         /\ Met("clean") = IF C = {} THEN {Null} ELSE C
<1>1. Holds(list, "clean", C)
  BY View
<1>2. CASE C = {}
  <2>1. Met("clean") = {Null}
    BY <1>1, <1>2, MetNothing DEF Holds
  <2>2. QED
    BY <1>2, <2>1, DirtyListAssumption DEF In
<1>3. CASE C # {}
  <2>1. Met("clean") = C
    BY <1>1, <1>3, MetRing DEF Holds, Ring
  <2>2. QED
    BY <1>3, <2>1 DEF In
<1>4. QED
  BY <1>2, <1>3

(* The links of the dirty list are met, whatever else is.                   *)
LEMMA InDirty ==
  ASSUME TypeOK, NEW C \in SUBSET Segs, NEW D \in SUBSET Segs, Links(C, D), Movers(C, D)
  PROVE  /\ D # {} => Met("dirty") = D
         /\ \A s \in D : In(s, "dirty")
<1>1. D # {} => Met("dirty") = D
  BY View, MetRing
<1>2. QED
  BY <1>1 DEF In

-----------------------------------------------------------------------------
(* Steps that leave the lists alone. *)

LEMMA LinksStay ==
  ASSUME TypeOK, NEW C, NEW D, Links(C, D), list' = list,
         \A t \in Threads : pc[t] = "close" <=> pc'[t] = "close",
         \A t \in Threads : pc[t] = "close" => moving'[t] = moving[t]
  PROVE  Links(C, D)'
BY DEF Links

(* Steps that leave all walks alone but perhaps one. *)
LEMMA AheadBut ==
  ASSUME TypeOK, NEW D, Ahead(D), list' = list, NEW t,
         \A u \in Threads : u # t =>
           owed'[u] = owed[u] /\ pc'[u] = pc[u] /\ stop'[u] = stop[u] /\ at'[u] = at[u],
         t \in Threads /\ owed'[t] # {} => LiesAhead(t, D)'
  PROVE  Ahead(D)'
<1>1. Way(D)' = Way(D)
  BY DEF Way
<1>2. ASSUME NEW u \in Threads, u # t, owed'[u] # {}
      PROVE  LiesAhead(u, D)'
  <2>1. /\ owed'[u] = owed[u] /\ pc'[u] = pc[u] /\ stop'[u] = stop[u]
        /\ Here(u)' = Here(u)
    BY <1>2 DEF Here
  <2>2. QED
    BY <1>1, <1>2, <2>1 DEF Ahead, LiesAhead
<1>3. QED
  BY <1>2 DEF Ahead

LEMMA AheadStays ==
  ASSUME NEW D, Ahead(D), list' = list,
         \A t \in Threads : owed'[t] # {} =>
           owed'[t] = owed[t] /\ pc'[t] = pc[t] /\ stop'[t] = stop[t] /\ at'[t] = at[t]
  PROVE  Ahead(D)'
<1>1. Way(D)' = Way(D)
  BY DEF Way
<1>2. ASSUME NEW t \in Threads, owed'[t] # {}
      PROVE  LiesAhead(t, D)'
  <2>1. /\ owed'[t] = owed[t] /\ pc'[t] = pc[t] /\ stop'[t] = stop[t]
        /\ Here(t)' = Here(t)
    BY <1>2 DEF Here
  <2>2. QED
    BY <1>1, <1>2, <2>1 DEF Ahead, LiesAhead
<1>3. QED
  BY <1>2 DEF Ahead

(* As long as a transaction runs, nobody cleans up.                         *)
LEMMA CleaningWaits ==
  ASSUME TypeOK, NEW C, NEW D, Cleaning(C, D), NEW t \in Threads,
         pc[t] \notin {"left", "gone"}, NEW to, to # "gone",
         pc' = [pc EXCEPT ![t] = to], cleaner' = cleaner
  PROVE  /\ cleaner = Null /\ ~Destroyed /\ ~Destroyed'
         /\ \A E, F : Cleaning(E, F)'
<1>1. ~Destroyed /\ ~Destroyed' /\ \A u \in Threads : pc'[u] # "gone"
  BY DEF Destroyed, Cleaning, TypeOK
<1>2. cleaner = Null
  BY <1>1 DEF Cleaning
<1>3. QED
  BY <1>1, <1>2 DEF Cleaning

LEMMA TakenGrows ==
  ASSUME TypeOK, NEW t \in Threads, moving[t] = Null, NEW s \in Segs,
         moving' = [moving EXCEPT ![t] = s]
  PROVE  Taken' = Taken \cup {s}
BY DirtyListAssumption DEF Taken, TypeOK

LEMMA TakenShrinks ==
  ASSUME TypeOK, NEW C, NEW D, Movers(C, D), NEW t \in Threads, moving[t] # Null,
         moving' = [moving EXCEPT ![t] = Null]
  PROVE  Taken' = Taken \ {moving[t]} /\ moving[t] \in Taken
<1>1. moving[t] \in Segs
  BY DEF TypeOK
<1>2. \A u \in Threads : u # t => moving'[u] = moving[u] /\ moving[u] # moving[t]
  BY DEF TypeOK, Movers
<1>3. moving'[t] = Null /\ Null \notin Segs
  BY DirtyListAssumption DEF TypeOK
<1>4. QED
  BY <1>1, <1>2, <1>3 DEF Taken

LEMMA InitHolds == Init => IInv
<1> SUFFICES ASSUME Init PROVE IInv
  OBVIOUS
<1>1. TypeOK
  BY DirtyListAssumption DEF Init, TypeOK, ListName, Pointer, Location
<1>2. /\ list.next = [s \in Segs |-> IF s = Start THEN Start ELSE Wild]
      /\ list.prev = [s \in Segs |-> IF s = Start THEN Start ELSE Wild]
      /\ list.base["clean"] = Start /\ list.base["dirty"] = Null
  BY DEF Init, ListName
<1>3. list \in ListType
  BY <1>1 DEF TypeOK, ListType
<1>4. WellFormed(list, {Start}, {})
  <2>1. Holds(list, "clean", {Start}) /\ Holds(list, "dirty", {})
    BY <1>2, DirtyListAssumption DEF Holds, Ring
  <2>2. QED
    BY <1>3, <2>1, DirtyListAssumption DEF WellFormed
<1>5. Taken = {}
  BY DirtyListAssumption DEF Init, Taken
<1>6. ~Destroyed
  BY DirtyListAssumption DEF Init, Destroyed
<1>7. Links({Start}, {})
  BY <1>4 DEF Links, Init
<1>8. Movers({Start}, {})
  BY <1>2, <1>5, DirtyListAssumption DEF Movers, Mover, Init, Moving, Holding
<1>9. Flags({Start}, {}) /\ Ahead({}) /\ Cleaning({Start}, {})
  BY <1>5, <1>6 DEF Flags, Ahead, Cleaning, Init
<1>10. {Start} \in SUBSET Segs /\ {} \in SUBSET Segs
  BY DirtyListAssumption
<1>11. Remembered
  BY DEF Init, Remembered
<1>12. QED
  BY <1>1, <1>7, <1>8, <1>9, <1>10, <1>11 DEF IInv, Parts

LEMMA ClaimKeeps ==
  ASSUME TypeOK, NEW C \in SUBSET Segs, NEW D \in SUBSET Segs, Parts(C, D),
         NEW t \in Threads, NEW s \in Segs, Claim(t, s)
  PROVE  TypeOK' /\ Parts(C, D)'
<1>1. /\ Links(C, D) /\ Movers(C, D) /\ Flags(C, D) /\ Ahead(D) /\ Cleaning(C, D)
      /\ pc[t] = "running" /\ pc' = [pc EXCEPT ![t] = "claimed"]
      /\ moving' = [moving EXCEPT ![t] = s] /\ dirty' = [dirty EXCEPT ![s] = TRUE] /\ ~dirty[s]
      /\ UNCHANGED <<list, link_lock, walk, cleaner>>
  BY DEF Parts, Claim, Go
<1>2. moving[t] = Null
  BY <1>1 DEF Movers, Mover, Moving
<1>3. Taken' = Taken \cup {s}
  BY <1>1, <1>2, TakenGrows
<1>4. s \in C /\ s \notin D /\ s \notin Taken
  BY <1>1, InClean, View DEF Claim, Flags
<1>5. TypeOK'
  BY <1>1 DEF TypeOK, Location, walk
<1>6. Links(C, D)'
  BY <1>1, LinksStay DEF TypeOK
<1>7. Movers(C, D)'
  <2>1. ASSUME NEW u \in Threads
        PROVE  Mover(u, C, D)'
    <3>1. CASE u = t
      BY <1>1, <1>4, <3>1, DirtyListAssumption DEF Movers, Mover, TypeOK, Moving, Holding
    <3>2. CASE u # t
      BY <1>1, <3>2 DEF Movers, Mover, TypeOK
    <3>3. QED
      BY <3>1, <3>2
  <2>2. ASSUME NEW u \in Threads, NEW v \in Threads, moving'[u] = moving'[v], moving'[u] # Null
        PROVE  u = v
    <3>1. \A w \in Threads : moving[w] # s
      BY <1>4 DEF Taken
    <3>2. QED
      BY <1>1, <2>2, <3>1 DEF Movers, TypeOK
  <2>3. \A x \in Segs \ (C \cup D \cup Taken') : list'.next[x] = Wild
    BY <1>1, <1>3 DEF Movers
  <2>4. QED
    BY <2>1, <2>2, <2>3 DEF Movers
<1>8. Flags(C, D)'
  <2>1. Destroyed => Destroyed'
    BY <1>1, DirtyListAssumption DEF Destroyed
  <2>2. QED
    BY <1>1, <1>3, <1>4, <2>1 DEF Flags, TypeOK
<1>9. Ahead(D)'
  <2>1. owed[t] = {}
    BY <1>1 DEF Ahead, LiesAhead
  <2>2. QED
    BY <1>1, <2>1, AheadStays DEF walk, TypeOK
<1>10. Cleaning(C, D)'
  BY <1>1, CleaningWaits
<1>11. QED
  BY <1>5, <1>6, <1>7, <1>8, <1>9, <1>10 DEF Parts

LEMMA AllocKeeps ==
  ASSUME TypeOK, NEW C \in SUBSET Segs, NEW D \in SUBSET Segs, Parts(C, D),
         NEW t \in Threads, NEW s \in Segs, Alloc(t, s)
  PROVE  TypeOK' /\ Parts(C, D)'
<1>1. /\ Links(C, D) /\ Movers(C, D) /\ Flags(C, D) /\ Ahead(D) /\ Cleaning(C, D)
      /\ pc[t] = "running" /\ pc' = [pc EXCEPT ![t] = "allocated"]
      /\ moving' = [moving EXCEPT ![t] = s] /\ dirty' = [dirty EXCEPT ![s] = TRUE]
      /\ UNCHANGED <<list, link_lock, walk, cleaner>>
  BY DEF Parts, Alloc, Go
<1>2. moving[t] = Null
  BY <1>1 DEF Movers, Mover, Moving
<1>3. Taken' = Taken \cup {s}
  BY <1>1, <1>2, TakenGrows
<1>4. s \notin C /\ s \notin D /\ s \notin Taken /\ list.next[s] = Wild
  <2>1. s \notin C \cup D \cup Taken
    BY <1>1, InClean, InDirty DEF Alloc, Exists, Taken
  <2>2. QED
    BY <1>1, <2>1 DEF Movers
<1>5. TypeOK'
  BY <1>1 DEF TypeOK, Location, walk
<1>6. Links(C, D)'
  BY <1>1, LinksStay DEF TypeOK
<1>7. Movers(C, D)'
  <2>1. ASSUME NEW u \in Threads
        PROVE  Mover(u, C, D)'
    <3>1. CASE u = t
      BY <1>1, <1>4, <3>1, DirtyListAssumption DEF Movers, Mover, TypeOK, Moving, Holding
    <3>2. CASE u # t
      BY <1>1, <3>2 DEF Movers, Mover, TypeOK
    <3>3. QED
      BY <3>1, <3>2
  <2>2. ASSUME NEW u \in Threads, NEW v \in Threads, moving'[u] = moving'[v], moving'[u] # Null
        PROVE  u = v
    <3>1. \A w \in Threads : moving[w] # s
      BY <1>4 DEF Taken
    <3>2. QED
      BY <1>1, <2>2, <3>1 DEF Movers, TypeOK
  <2>3. \A x \in Segs \ (C \cup D \cup Taken') : list'.next[x] = Wild
    BY <1>1, <1>3 DEF Movers
  <2>4. QED
    BY <2>1, <2>2, <2>3 DEF Movers
<1>8. Flags(C, D)'
  <2>1. Destroyed => Destroyed'
    BY <1>1, DirtyListAssumption DEF Destroyed
  <2>2. QED
    BY <1>1, <1>3, <1>4, <2>1 DEF Flags, TypeOK
<1>9. Ahead(D)'
  <2>1. owed[t] = {}
    BY <1>1 DEF Ahead, LiesAhead
  <2>2. QED
    BY <1>1, <2>1, AheadStays DEF walk, TypeOK
<1>10. Cleaning(C, D)'
  BY <1>1, CleaningWaits
<1>11. QED
  BY <1>5, <1>6, <1>7, <1>8, <1>9, <1>10 DEF Parts

LEMMA LockKeeps ==
  ASSUME TypeOK, NEW C \in SUBSET Segs, NEW D \in SUBSET Segs, Parts(C, D),
         NEW t \in Threads, Lock(t)
  PROVE  TypeOK' /\ Parts(C, D)'
<1>1. PICK to \in {"remove", "insert"} :
        /\ pc[t] = (IF to = "remove" THEN "claimed" ELSE "allocated")
        /\ pc' = [pc EXCEPT ![t] = to]
  BY DEF Lock, Go
<1>2. /\ Links(C, D) /\ Movers(C, D) /\ Flags(C, D) /\ Ahead(D) /\ Cleaning(C, D)
      /\ link_lock = NoThread /\ link_lock' = t
      /\ UNCHANGED <<list, dirty, moving, walk, cleaner>>
  BY DEF Parts, Lock
<1>3. TypeOK'
  BY <1>1, <1>2 DEF TypeOK, Location, walk
<1>4. Links(C, D)'
  BY <1>1, <1>2, LinksStay DEF TypeOK
<1>5. Taken' = Taken
  BY <1>2 DEF Taken
<1>6. Movers(C, D)'
  <2>1. ASSUME NEW u \in Threads
        PROVE  Mover(u, C, D)'
    <3>1. CASE u = t
      BY <1>1, <1>2, <3>1 DEF Movers, Mover, TypeOK, Moving, Holding
    <3>2. CASE u # t
      BY <1>1, <1>2, <3>2, DirtyListAssumption DEF Movers, Mover, TypeOK
    <3>3. QED
      BY <3>1, <3>2
  <2>2. QED
    BY <1>2, <1>5, <2>1 DEF Movers
<1>7. Cleaning(C, D)' /\ ~Destroyed
  BY <1>1, <1>2, CleaningWaits
<1>8. Flags(C, D)'
  BY <1>2, <1>5, <1>7 DEF Flags
<1>9. Ahead(D)'
  <2>1. owed[t] = {}
    BY <1>1, <1>2 DEF Ahead, LiesAhead
  <2>2. QED
    BY <1>1, <1>2, <2>1, AheadStays DEF walk, TypeOK
<1>10. QED
  BY <1>3, <1>4, <1>6, <1>7, <1>8, <1>9 DEF Parts

(* A transaction that walks, or has nothing to do with the lists.           *)
LEMMA WalkerKeeps ==
  ASSUME TypeOK, NEW C \in SUBSET Segs, NEW D \in SUBSET Segs, Parts(C, D),
         NEW t \in Threads, pc[t] \in {"running", "first", "walk"},
         NEW to \in {"first", "walk", "left"}, pc' = [pc EXCEPT ![t] = to],
         UNCHANGED <<list, dirty, link_lock, moving, cleaner>>
  PROVE  Links(C, D)' /\ Movers(C, D)' /\ Flags(C, D)' /\ Cleaning(C, D)'
<1>1. Links(C, D) /\ Movers(C, D) /\ Flags(C, D) /\ Cleaning(C, D)
  BY DEF Parts
<1>2. Links(C, D)'
  BY <1>1, LinksStay DEF TypeOK
<1>3. Taken' = Taken
  BY DEF Taken
<1>4. Movers(C, D)'
  <2>1. ASSUME NEW u \in Threads
        PROVE  Mover(u, C, D)'
    <3>1. CASE u = t
      BY <1>1, <3>1 DEF Movers, Mover, TypeOK, Moving, Holding
    <3>2. CASE u # t
      BY <1>1, <3>2 DEF Movers, Mover, TypeOK
    <3>3. QED
      BY <3>1, <3>2
  <2>2. QED
    BY <1>1, <1>3, <2>1 DEF Movers
<1>5. Cleaning(C, D)' /\ ~Destroyed
  BY <1>1, CleaningWaits
<1>6. Flags(C, D)'
  BY <1>1, <1>3, <1>5 DEF Flags
<1>7. QED
  BY <1>2, <1>4, <1>5, <1>6

LEMMA EndKeeps ==
  ASSUME TypeOK, NEW C \in SUBSET Segs, NEW D \in SUBSET Segs, Parts(C, D),
         NEW t \in Threads, End(t)
  PROVE  TypeOK' /\ Parts(C, D)'
<1>1. /\ pc[t] = "running" /\ pc' = [pc EXCEPT ![t] = "left"] /\ Ahead(D)
      /\ UNCHANGED <<list, dirty, link_lock, moving, walk, cleaner>>
  BY DEF End, Go, Parts
<1>2. Links(C, D)' /\ Movers(C, D)' /\ Flags(C, D)' /\ Cleaning(C, D)'
  BY <1>1, WalkerKeeps
<1>3. TypeOK'
  BY <1>1 DEF TypeOK, Location, walk
<1>4. Ahead(D)'
  <2>1. owed[t] = {}
    BY <1>1 DEF Ahead, LiesAhead
  <2>2. QED
    BY <1>1, <2>1, AheadStays DEF walk, TypeOK
<1>5. QED
  BY <1>2, <1>3, <1>4 DEF Parts

-----------------------------------------------------------------------------
(* The walk. *)

(* Where a walk begins, it owes what lies ahead of it. The base of a list   *)
(* that is not closed yet is followed only if it has been alone before.     *)
LEMMA RingAhead ==
  ASSUME TypeOK, NEW C \in SUBSET Segs, NEW D \in SUBSET Segs, Links(C, D), Movers(C, D),
         list.base["dirty"] # Null, IsRing("dirty")
  PROVE  LET base == list.base["dirty"] IN
         /\ Met("dirty") \subseteq Way(D) /\ list.next[base] \in Way(D)
         /\ \A E \in SUBSET Way(D) :
              list.next[base] \in E /\ (\A e \in E \ {base} : list.next[e] \in E)
                => Met("dirty") \subseteq E
<1> DEFINE base == list.base["dirty"]
<1>1. CASE D # {}
  <2>1. /\ base \in D /\ Way(D) = D
        /\ \A s \in D : list.next[s] \in D
        /\ \A E \in SUBSET D : E # {} /\ (\A e \in E : list.next[e] \in E) => E = D
    BY <1>1, View DEF Way
  <2>2. Met("dirty") = D
    BY <1>1, InDirty
  <2> HIDE DEF base
  <2>3. ASSUME NEW E \in SUBSET D, list.next[base] \in E,
               \A e \in E \ {base} : list.next[e] \in E
        PROVE  E = D
    <3>1. \A e \in E : list.next[e] \in E
      BY <2>3
    <3>2. QED
      BY <2>1, <2>3, <3>1
  <2>4. QED
    BY <2>1, <2>2, <2>3 DEF base
<1>2. CASE D = {}
  <2>1. PICK m \in Threads : pc[m] = "close" /\ base = moving[m]
    BY <1>2, View
  <2>2. /\ base \in Segs /\ base \notin C
        /\ list.next[base] \in C \cup {base, Wild} /\ Way(D) = {base}
    BY <1>2, <2>1, View DEF Movers, Mover, Way
  <2>3. /\ \A s \in C : list.next[s] \in C
    BY View DEF Holds, Ring
  <2> HIDE DEF base
  <2>4. Met("dirty") \subseteq C \cup {base, Wild}
    <3>1. C \cup {base, Wild} \in SUBSET Pointer
      BY <2>2 DEF Pointer
    <3>2. \A s \in (C \cup {base, Wild}) \cap Segs : list.next[s] \in C \cup {base, Wild}
      BY <2>2, <2>3, DirtyListAssumption
    <3>3. QED
      BY <3>1, <3>2, MetWithin DEF base
  <2>5. PICK s \in Met("dirty") \cap Segs : list.next[s] = base
    BY DEF IsRing, base
  <2>6. s = base
    BY <2>2, <2>3, <2>4, <2>5, DirtyListAssumption
  <2>7. Met("dirty") \subseteq {base}
    <3>1. {base} \in SUBSET Pointer /\ \A x \in {base} \cap Segs : list.next[x] \in {base}
      BY <2>2, <2>5, <2>6 DEF Pointer
    <3>2. QED
      BY <3>1, MetWithin DEF base
  <2>8. QED
    BY <2>2, <2>5, <2>6, <2>7 DEF base
<1>3. QED
  BY <1>1, <1>2

LEMMA RollbackKeeps ==
  ASSUME TypeOK, NEW C \in SUBSET Segs, NEW D \in SUBSET Segs, Parts(C, D),
         NEW t \in Threads, Rollback(t)
  PROVE  TypeOK' /\ Parts(C, D)'
<1> DEFINE base == list.base["dirty"]
<1>1. /\ pc[t] = "running" /\ pc' = [pc EXCEPT ![t] = "first"] /\ Ahead(D)
      /\ base # Null /\ stop' = [stop EXCEPT ![t] = base]
      /\ owed' = [owed EXCEPT ![t] = IF IsRing("dirty") THEN Met("dirty") ELSE {}]
      /\ UNCHANGED <<list, dirty, link_lock, moving, at, cleaner>>
  BY DEF Rollback, Go, Parts
<1>2. Links(C, D)' /\ Movers(C, D)' /\ Flags(C, D)' /\ Cleaning(C, D)'
  BY <1>1, WalkerKeeps
<1>3. Links(C, D) /\ Movers(C, D)
  BY DEF Parts
<1>4. base \in Segs /\ Way(D) \subseteq Segs
  BY <1>1, <1>3, View DEF Way
<1>5. owed' = [owed EXCEPT ![t] = IF IsRing("dirty") THEN Met("dirty") ELSE {}]
      /\ (IsRing("dirty") => Met("dirty") \subseteq Segs)
  BY <1>1, <1>3, <1>4, RingAhead
<1>6. TypeOK'
  BY <1>1, <1>4, <1>5 DEF TypeOK, Location
<1>7. Ahead(D)'
  <2>1. ASSUME owed'[t] # {}
        PROVE  LiesAhead(t, D)'
    <3>1. IsRing("dirty") /\ owed'[t] = Met("dirty")
      BY <1>1, <2>1 DEF TypeOK
    <3>2. /\ Here(t)' = list.next[base] /\ pc'[t] = "first" /\ stop'[t] = base
          /\ Way(D)' = Way(D)
      BY <1>1 DEF Here, TypeOK, Way
    <3>3. QED
      BY <1>1, <1>3, <3>1, <3>2, RingAhead DEF LiesAhead
  <2>2. QED
    BY <1>1, <2>1, AheadBut DEF TypeOK
<1>8. QED
  BY <1>2, <1>6, <1>7 DEF Parts

LEMMA RollbackFirstKeeps ==
  ASSUME TypeOK, NEW C \in SUBSET Segs, NEW D \in SUBSET Segs, Parts(C, D),
         NEW t \in Threads, RollbackFirst(t), stop[t] # Null
  PROVE  TypeOK' /\ Parts(C, D)'
<1>1. /\ pc[t] = "first" /\ pc' = [pc EXCEPT ![t] = "walk"] /\ Ahead(D)
      /\ at' = [at EXCEPT ![t] = list.next[stop[t]]]
      /\ UNCHANGED <<list, dirty, link_lock, moving, stop, owed, cleaner>>
  BY DEF RollbackFirst, Go, Parts
<1>2. Links(C, D)' /\ Movers(C, D)' /\ Flags(C, D)' /\ Cleaning(C, D)'
  BY <1>1, WalkerKeeps
<1>3. TypeOK'
  BY <1>1 DEF TypeOK, Location
<1>4. Ahead(D)'
  <2>1. ASSUME owed'[t] # {}
        PROVE  LiesAhead(t, D)'
    <3>1. LiesAhead(t, D) /\ owed'[t] = owed[t]
      BY <1>1, <2>1 DEF Ahead
    <3>2. Here(t)' = Here(t) /\ pc'[t] = "walk" /\ Way(D)' = Way(D)
      BY <1>1, <3>1 DEF Here, TypeOK, Way, LiesAhead
    <3>3. QED
      BY <1>1, <3>1, <3>2 DEF LiesAhead
  <2>2. QED
    BY <1>1, <2>1, AheadBut DEF TypeOK
<1>5. QED
  BY <1>2, <1>3, <1>4 DEF Parts

LEMMA RollbackLinkKeeps ==
  ASSUME TypeOK, NEW C \in SUBSET Segs, NEW D \in SUBSET Segs, Parts(C, D),
         NEW t \in Threads, RollbackLink(t)
  PROVE  TypeOK' /\ Parts(C, D)'
<1>1. PICK to \in {"walk", "left"} :
        /\ pc[t] = "walk" /\ pc' = [pc EXCEPT ![t] = to]
        /\ to = "left" => at[t] = stop[t]
        /\ to = "walk" => /\ at[t] # stop[t] /\ stop' = stop
                          /\ at' = [at EXCEPT ![t] = list.next[at[t]]]
        /\ to = "left" => /\ at' = [at EXCEPT ![t] = Null]
                          /\ stop' = [stop EXCEPT ![t] = Null]
  BY DEF RollbackLink, Go
<1>2. /\ at[t] \in Segs /\ owed' = [owed EXCEPT ![t] = @ \ {at[t]}] /\ Ahead(D)
      /\ UNCHANGED <<list, dirty, link_lock, moving, cleaner>>
  BY DEF RollbackLink, Parts
<1>3. Links(C, D)' /\ Movers(C, D)' /\ Flags(C, D)' /\ Cleaning(C, D)'
  BY <1>1, <1>2, WalkerKeeps
<1>4. TypeOK'
  BY <1>1, <1>2 DEF TypeOK, Location, Pointer
<1>5. Ahead(D)'
  <2>1. ASSUME owed'[t] # {}
        PROVE  LiesAhead(t, D)'
    <3> DEFINE base == list.base["dirty"]
    <3>1. owed'[t] = owed[t] \ {at[t]}
      BY <1>2 DEF TypeOK
    <3>2. LiesAhead(t, D) /\ Here(t) = at[t]
      BY <1>1, <1>2, <2>1, <3>1 DEF Ahead, Here
    <3>3. to = "walk"
      <4>1. CASE at[t] = base
        <5>1. {base} \in SUBSET Way(D)
          BY <3>2, <4>1 DEF LiesAhead
        <5>2. owed[t] \subseteq {base}
          BY <3>2, <4>1, <5>1 DEF LiesAhead
        <5>3. QED
          BY <2>1, <3>1, <4>1, <5>2
      <4>2. CASE at[t] # base
        BY <1>1, <3>2, <4>2 DEF LiesAhead
      <4>3. QED
        BY <4>1, <4>2
    <3>4. /\ at[t] # base /\ Here(t)' = list.next[at[t]] /\ pc'[t] = "walk"
          /\ stop'[t] = base /\ Way(D)' = Way(D)
      BY <1>1, <1>2, <3>2, <3>3 DEF LiesAhead, Here, Way, TypeOK
    <3>5. list.next[at[t]] \in Way(D)
      <4>1. Links(C, D) /\ Movers(C, D)
        BY DEF Parts
      <4>2. \A s \in D : list.next[s] \in D
        BY <4>1, View
      <4>3. QED
        BY <3>2, <3>4, <4>2 DEF LiesAhead, Way
    <3>6. ASSUME NEW E \in SUBSET Way(D), list.next[at[t]] \in E,
                 \A e \in E \ {base} : list.next[e] \in E
          PROVE  owed'[t] \subseteq E
      <4> DEFINE F == E \cup {at[t]}
      <4>1. F \in SUBSET Way(D) /\ at[t] \in F
        BY <3>2 DEF LiesAhead
      <4>2. \A e \in F \ {base} : list.next[e] \in F
        BY <3>6
      <4> HIDE DEF F
      <4>3. owed[t] \subseteq F
        BY <3>2, <4>1, <4>2 DEF LiesAhead
      <4>4. QED
        BY <3>1, <4>3 DEF F
    <3>7. QED
      BY <1>2, <3>2, <3>4, <3>5, <3>6 DEF LiesAhead
  <2>2. QED
    BY <1>1, <1>2, <2>1, AheadBut DEF TypeOK
<1>6. QED
  BY <1>3, <1>4, <1>5 DEF Parts

-----------------------------------------------------------------------------
(* Steps that move a link, with link_lock held. *)

(* Walks keep going where the way they are on stays as it is.               *)
LEMMA AheadKept ==
  ASSUME NEW D, NEW D2, Ahead(D), Way(D2)' = Way(D), UNCHANGED walk,
         list.base["dirty"] # Null => list'.base["dirty"] = list.base["dirty"],
         list.base["dirty"] # Null => \A x \in Way(D) : list'.next[x] = list.next[x],
         \A t \in Threads : pc[t] \in {"first", "walk"} => pc'[t] = pc[t]
  PROVE  Ahead(D2)'
<1>1. ASSUME NEW t \in Threads, owed'[t] # {}
      PROVE  LiesAhead(t, D2)'
  <2>1. LiesAhead(t, D) /\ owed'[t] = owed[t] /\ stop'[t] = stop[t] /\ at'[t] = at[t]
    BY <1>1 DEF Ahead, walk
  <2>2. /\ list.base["dirty"] # Null /\ list.base["dirty"] \in Way(D)
        /\ pc'[t] = pc[t] /\ list'.base["dirty"] = list.base["dirty"]
        /\ \A x \in Way(D) : list'.next[x] = list.next[x]
    BY <2>1 DEF LiesAhead, Way
  <2>3. Here(t)' = Here(t)
    BY <2>1, <2>2 DEF Here
  <2>4. QED
    BY <2>1, <2>2, <2>3 DEF LiesAhead
<1>2. QED
  BY <1>1 DEF Ahead

(* The thread that holds link_lock is the only one in its part of the code. *)
LEMMA LockAlone ==
  ASSUME NEW C, NEW D, Movers(C, D), NEW t \in Threads, pc[t] \in Holding
  PROVE  /\ link_lock = t
         /\ \A u \in Threads : u # t => pc[u] \notin Holding
BY DEF Movers, Mover

LEMMA CleanTakenOut ==
  ASSUME NEW C, C \in SUBSET Segs, NEW m, m \in C, NEW E, E = C \ {m}, list \in ListType,
         Holds(list, "clean", C), list' = Removed(list, m, "clean")
  PROVE  /\ list' \in ListType /\ Holds(list', "clean", E)
         /\ \A x \in Segs \ C : list'.next[x] = list.next[x] /\ list'.prev[x] = list.prev[x]
         /\ list'.next[m] = list.next[m] /\ list.next[m] \in C
         /\ list'.base["dirty"] = list.base["dirty"]
<1>1. "clean" \in ListName /\ "dirty" \in ListName
  BY DEF ListName
<1>2. TakesOut(list, list', "clean", C, m)
  BY <1>1, RemoveHolds
<1>3. QED
  BY <1>1, <1>2 DEF TakesOut

LEMMA RemoveKeeps ==
  ASSUME TypeOK, NEW C \in SUBSET Segs, NEW D \in SUBSET Segs, Parts(C, D),
         NEW t \in Threads, Remove(t), NEW m, m = moving[t], NEW E, E = C \ {m}
  PROVE  TypeOK' /\ Parts(E, D)'
<1>1. /\ Links(C, D) /\ Movers(C, D) /\ Flags(C, D) /\ Ahead(D) /\ Cleaning(C, D)
      /\ pc[t] = "remove" /\ pc' = [pc EXCEPT ![t] = "insert"]
      /\ list' = Removed(list, m, "clean")
      /\ UNCHANGED <<dirty, link_lock, moving, walk, cleaner>>
  BY DEF Parts, Remove, Go
<1>2. \A u \in Threads : u # t => pc[u] \notin Holding
  BY <1>1, LockAlone DEF Holding
<1>3. m \in C /\ m \in Taken /\ m \notin D /\ C \cap D = {}
  BY <1>1, View DEF Movers, Mover, Taken
<1>4. WellFormed(list, C, D)
  BY <1>1, <1>2, View DEF Holding
<1>5. "clean" \in ListName /\ "dirty" \in ListName
  BY DEF ListName
<1>6. /\ list' \in ListType /\ Holds(list', "clean", E)
      /\ \A x \in Segs \ C : list'.next[x] = list.next[x] /\ list'.prev[x] = list.prev[x]
      /\ list'.next[m] = list.next[m] /\ list.next[m] \in C
      /\ list'.base["dirty"] = list.base["dirty"]
  <2>1. list \in ListType /\ Holds(list, "clean", C)
    BY <1>4 DEF WellFormed
  <2>2. list' = Removed(list, m, "clean") /\ E = C \ {m} /\ m \in C
    BY <1>1, <1>3
  <2>3. C \in SUBSET Segs
    OBVIOUS
  <2>4. QED
    BY <1>5, <2>1, <2>2, <2>3, CleanTakenOut
<1>7. WellFormed(list', E, D)
  <2>1. Holds(list', "dirty", D)
    BY <1>3, <1>4, <1>6, HoldsSame DEF WellFormed
  <2>2. QED
    BY <1>3, <1>6, <2>1 DEF WellFormed
<1>8. TypeOK'
  BY <1>1, <1>6 DEF TypeOK, ListType, Location, walk
<1>9. Links(E, D)'
  BY <1>1, <1>2, <1>7 DEF Links, Holding, TypeOK
<1>10. Taken' = Taken
  BY <1>1 DEF Taken
<1>11. Movers(E, D)'
  <2>1. ASSUME NEW u \in Threads
        PROVE  Mover(u, E, D)'
    <3>1. CASE u = t
      BY <1>1, <1>3, <1>6, <3>1 DEF Movers, Mover, TypeOK, Moving, Holding
    <3>2. CASE u # t
      <4>1. /\ pc'[u] = pc[u] /\ moving'[u] = moving[u] /\ Mover(u, C, D)
            /\ pc[u] \notin Holding /\ (moving[u] # Null => moving[u] # m)
        BY <1>1, <1>2, <3>2 DEF Movers, TypeOK
      <4>2. moving[u] # Null => moving[u] \in Segs
        BY DEF TypeOK
      <4>3. QED
        BY <1>1, <1>6, <4>1, <4>2 DEF Mover, Moving, Holding
    <3>3. QED
      BY <3>1, <3>2
  <2>2. \A x \in Segs \ (E \cup D \cup Taken) : list'.next[x] = Wild
    BY <1>1, <1>3, <1>6 DEF Movers
  <2>3. QED
    BY <1>1, <1>10, <2>1, <2>2 DEF Movers
<1>12. Cleaning(E, D)' /\ ~Destroyed
  BY <1>1, CleaningWaits
<1>13. Flags(E, D)'
  BY <1>1, <1>3, <1>10, <1>12 DEF Flags
<1>14. Ahead(D)'
  <2>1. Way(D)' = Way(D)
    BY <1>6 DEF Way
  <2>2. list.base["dirty"] # Null => Way(D) \subseteq Segs \ C
    BY <1>3, <1>4, View DEF Way, WellFormed, Holds
  <2>3. QED
    BY <1>1, <1>6, <2>1, <2>2, AheadKept DEF TypeOK
<1>15. QED
  BY <1>8, <1>9, <1>11, <1>12, <1>13, <1>14 DEF Parts

LEMMA InsertKeeps ==
  ASSUME TypeOK, NEW C \in SUBSET Segs, NEW D \in SUBSET Segs, Parts(C, D),
         NEW t \in Threads, Insert(t), NEW m, m = moving[t]
  PROVE  TypeOK' /\ Parts(C, D)'
<1>1. /\ Links(C, D) /\ Movers(C, D) /\ Flags(C, D) /\ Ahead(D) /\ Cleaning(C, D)
      /\ pc[t] = "insert" /\ pc' = [pc EXCEPT ![t] = "close"]
      /\ list' = Opened(list, m, "dirty")
      /\ UNCHANGED <<dirty, link_lock, moving, walk, cleaner>>
  BY DEF Parts, Insert, Go
<1>2. \A u \in Threads : u # t => pc[u] \notin Holding
  BY <1>1, LockAlone DEF Holding
<1>3. m \in Segs /\ m \notin C \cup D /\ m \in Taken
  BY <1>1 DEF Movers, Mover, Moving, Taken, TypeOK
<1>4. WellFormed(list, C, D)
  BY <1>1, <1>2, View DEF Holding
<1>5. "clean" \in ListName /\ "dirty" \in ListName
  BY DEF ListName
<1>6. /\ list' \in ListType
      /\ \A x \in Segs \ {m} : list'.next[x] = list.next[x]
      /\ D = {} => list'.base["dirty"] = m /\ list'.next[m] = list.next[m]
      /\ D # {} => list'.base["dirty"] = list.base["dirty"] /\ list'.base["dirty"] \in D
  BY <1>1, <1>3, <1>4, <1>5, OpenHolds DEF WellFormed
<1>7. TypeOK'
  BY <1>1, <1>6 DEF TypeOK, ListType, Location, walk
<1>8. Links(C, D)'
  <2>1. pc'[t] = "close" /\ list \in ListType /\ list' = Opened(list, moving'[t], "dirty")
    BY <1>1, <1>4 DEF TypeOK, WellFormed
  <2>2. QED
    BY <1>4, <2>1 DEF Links
<1>9. Taken' = Taken
  BY <1>1 DEF Taken
<1>10. Movers(C, D)'
  <2>1. ASSUME NEW u \in Threads
        PROVE  Mover(u, C, D)'
    <3>1. CASE u = t
      BY <1>1, <1>3, <1>6, <3>1 DEF Movers, Mover, TypeOK, Moving, Holding
    <3>2. CASE u # t
      <4>1. /\ pc'[u] = pc[u] /\ moving'[u] = moving[u] /\ Mover(u, C, D)
            /\ pc[u] \notin Holding /\ (moving[u] # Null => moving[u] # m)
        BY <1>1, <1>2, <3>2 DEF Movers, TypeOK
      <4>2. moving[u] # Null => moving[u] \in Segs
        BY DEF TypeOK
      <4>3. QED
        BY <1>1, <1>6, <4>1, <4>2 DEF Mover, Moving, Holding
    <3>3. QED
      BY <3>1, <3>2
  <2>2. \A x \in Segs \ (C \cup D \cup Taken) : list'.next[x] = Wild
    BY <1>1, <1>3, <1>6 DEF Movers
  <2>3. QED
    BY <1>1, <1>9, <2>1, <2>2 DEF Movers
<1>11. Cleaning(C, D)' /\ ~Destroyed
  BY <1>1, CleaningWaits
<1>12. Flags(C, D)'
  BY <1>1, <1>9, <1>11 DEF Flags
<1>13. Ahead(D)'
  <2>1. CASE D = {}
    <3>1. list.base["dirty"] = Null
      BY <1>4, <2>1 DEF WellFormed, Holds
    <3>2. \A u \in Threads : owed[u] = {}
      BY <1>1, <3>1 DEF Ahead, LiesAhead
    <3>3. QED
      BY <1>1, <3>2 DEF Ahead, walk
  <2>2. CASE D # {}
    <3>1. Way(D)' = Way(D) /\ Way(D) \subseteq D
      BY <1>6, <2>2 DEF Way
    <3>2. QED
      BY <1>1, <1>3, <1>6, <2>2, <3>1, AheadKept DEF TypeOK
  <2>3. QED
    BY <2>1, <2>2
<1>14. QED
  BY <1>7, <1>8, <1>10, <1>11, <1>12, <1>13 DEF Parts

LEMMA DirtyPutIn ==
  ASSUME NEW l, l \in ListType, NEW C, C \in SUBSET Segs, NEW D, D \in SUBSET Segs,
         C \cap D = {}, Holds(l, "clean", C), Holds(l, "dirty", D),
         NEW m, m \in Segs, m \notin C \cup D, NEW D2, D2 = D \cup {m},
         list = Opened(l, m, "dirty"), list' = Closed(list, m, "dirty")
  PROVE  /\ list' \in ListType /\ Holds(list', "clean", C) /\ Holds(list', "dirty", D2)
         /\ \A x \in Segs \ D2 : list'.next[x] = list.next[x]
         /\ list'.base["dirty"] = list.base["dirty"]
         /\ D = {} => list.base["dirty"] = m /\ list'.next[m] = m
         /\ D # {} => /\ list.base["dirty"] \in D /\ list'.next[m] = list.base["dirty"]
                      /\ \A x \in D : list'.next[x] = IF list.next[x] = list.base["dirty"]
                                                        THEN m ELSE list.next[x]
<1>1. "clean" \in ListName /\ "dirty" \in ListName
  BY DEF ListName
<1>2. /\ \A x \in Segs \ {m} : list.next[x] = l.next[x]
      /\ D = {} => list.base["dirty"] = m
      /\ D # {} => list.base["dirty"] = l.base["dirty"] /\ list.base["dirty"] \in D
  BY <1>1, OpenHolds
<1>3. PutsIn(l, list', "dirty", D, m)
  BY <1>1, InsertHolds
<1>4. Holds(list', "clean", C)
  BY <1>1, <1>3, HoldsSame DEF PutsIn
<1>5. QED
  BY <1>2, <1>3, <1>4 DEF PutsIn

(* A link that joins the end of the list lies ahead of every walk, as long  *)
(* as the walk has the base before it.                                      *)
LEMMA AheadGrows ==
  ASSUME NEW D, D \in SUBSET Segs, Ahead(D), NEW m, m \in Segs, m \notin D,
         NEW D2, D2 = D \cup {m}, list.base["dirty"] \in D, \A x \in D : list.next[x] \in D,
         UNCHANGED walk, list'.base["dirty"] = list.base["dirty"],
         list'.next[m] = list.base["dirty"],
         \A x \in D : list'.next[x] = IF list.next[x] = list.base["dirty"] THEN m
                                                                     ELSE list.next[x],
         \A t \in Threads : pc[t] \in {"first", "walk"} => pc'[t] = pc[t]
  PROVE  Ahead(D2)'
<1> DEFINE base == list.base["dirty"]
<1>1. Way(D) = D /\ Way(D2)' = D2
  BY DirtyListAssumption DEF Way
<1>2. base # m /\ base \in D /\ base \in Segs
  OBVIOUS
<1>3. ASSUME NEW t \in Threads, owed'[t] # {}
      PROVE  LiesAhead(t, D2)'
  <2>1. /\ LiesAhead(t, D) /\ owed'[t] = owed[t] /\ stop'[t] = stop[t] /\ at'[t] = at[t]
        /\ pc'[t] = pc[t]
    BY <1>3 DEF Ahead, walk, LiesAhead
  <2>2. Here(t) \in D /\ stop[t] = base /\ base # Null
    BY <1>1, <2>1 DEF LiesAhead
  <2>3. Here(t)' = Here(t) \/ (Here(t)' = m /\ Here(t) = base)
    BY <2>1 DEF Here
  <2>4. Here(t)' \in D2 /\ list'.next[base] \in D2
    BY <1>2, <2>2, <2>3
  <2>5. ASSUME NEW E \in SUBSET D2, Here(t)' \in E, \A e \in E \ {base} : list'.next[e] \in E
        PROVE  owed[t] \subseteq E
    <3> DEFINE F == E \cap D
    <3>1. m \in E => base \in E
      BY <1>2, <2>5
    <3>2. Here(t) \in F
      BY <2>2, <2>3, <2>5, <3>1
    <3>3. \A e \in F \ {base} : list.next[e] \in F
      BY <2>5, <3>1
    <3>4. F \in SUBSET D
      OBVIOUS
    <3> HIDE DEF F
    <3>5. owed[t] \subseteq F
      BY <1>1, <2>1, <3>2, <3>3, <3>4 DEF LiesAhead
    <3>6. QED
      BY <3>5 DEF F
  <2>6. QED
    BY <1>1, <2>1, <2>2, <2>4, <2>5 DEF LiesAhead
<1>4. QED
  BY <1>3 DEF Ahead

LEMMA CloseKeeps ==
  ASSUME TypeOK, NEW C \in SUBSET Segs, NEW D \in SUBSET Segs, Parts(C, D),
         NEW t \in Threads, Close(t), NEW m, m = moving[t], NEW D2, D2 = D \cup {m}
  PROVE  TypeOK' /\ Parts(C, D2)'
<1>1. /\ Links(C, D) /\ Movers(C, D) /\ Flags(C, D) /\ Ahead(D) /\ Cleaning(C, D)
      /\ pc[t] = "close" /\ pc' = [pc EXCEPT ![t] = "running"]
      /\ list' = Closed(list, m, "dirty") /\ link_lock' = NoThread
      /\ moving' = [moving EXCEPT ![t] = Null]
      /\ UNCHANGED <<dirty, walk, cleaner>>
  BY DEF Parts, Close, Go
<1>2. \A u \in Threads : u # t => pc[u] \notin Holding
  BY <1>1, LockAlone DEF Holding
<1>3. m \in Segs /\ m \notin C \cup D /\ m # Null
  BY <1>1, DirtyListAssumption DEF Movers, Mover, Moving, TypeOK
<1>4. PICK l \in ListType : WellFormed(l, C, D) /\ list = Opened(l, m, "dirty")
  <2>1. PICK u \in Threads :
          pc[u] = "close" /\ \E l \in ListType : /\ WellFormed(l, C, D)
                                               /\ list = Opened(l, moving[u], "dirty")
    BY <1>1 DEF Links
  <2>2. u = t
    BY <1>2, <2>1 DEF Holding
  <2>3. QED
    BY <2>1, <2>2
<1>5. /\ list' \in ListType /\ Holds(list', "clean", C) /\ Holds(list', "dirty", D2)
      /\ \A x \in Segs \ D2 : list'.next[x] = list.next[x]
      /\ list'.base["dirty"] = list.base["dirty"]
      /\ D = {} => list.base["dirty"] = m /\ list'.next[m] = m
      /\ D # {} => /\ list.base["dirty"] \in D /\ list'.next[m] = list.base["dirty"]
                   /\ \A x \in D : list'.next[x] = IF list.next[x] = list.base["dirty"]
                                                     THEN m ELSE list.next[x]
  <2>1. C \cap D = {} /\ Holds(l, "clean", C) /\ Holds(l, "dirty", D)
    BY <1>4 DEF WellFormed
  <2>2. QED
    BY <1>1, <1>3, <1>4, <2>1, DirtyPutIn
<1>6. D2 \in SUBSET Segs /\ C \cap D2 = {}
  BY <1>3, <1>4 DEF WellFormed
<1>7. TypeOK'
  BY <1>1, <1>5 DEF TypeOK, ListType, Location, walk
<1>8. Links(C, D2)'
  <2>1. WellFormed(list', C, D2)
    BY <1>5, <1>6 DEF WellFormed
  <2>2. \A u \in Threads : pc'[u] # "close"
    BY <1>1, <1>2 DEF Holding, TypeOK
  <2>3. QED
    BY <2>1, <2>2 DEF Links
<1>9. Taken' = Taken \ {m} /\ m \in Taken
  BY <1>1, <1>3, TakenShrinks
<1>10. Movers(C, D2)'
  <2>1. ASSUME NEW u \in Threads
        PROVE  Mover(u, C, D2)'
    <3>1. CASE u = t
      BY <1>1, <3>1, DirtyListAssumption DEF Mover, TypeOK, Moving, Holding
    <3>2. CASE u # t
      <4>1. /\ pc'[u] = pc[u] /\ moving'[u] = moving[u] /\ Mover(u, C, D)
            /\ pc[u] \notin Holding /\ (moving[u] # Null => moving[u] # m)
        BY <1>1, <1>2, <3>2 DEF Movers, TypeOK
      <4>2. moving[u] # Null => moving[u] \in Segs
        BY DEF TypeOK
      <4>3. link_lock' # u
        BY <1>1, DirtyListAssumption
      <4>4. pc[u] = "allocated" =>
              moving[u] \notin D2 /\ list'.next[moving[u]] = list.next[moving[u]]
        BY <1>5, <4>1, <4>2 DEF Mover, Moving
      <4>5. QED
        BY <1>1, <4>1, <4>3, <4>4 DEF Mover, Moving, Holding
    <3>3. QED
      BY <3>1, <3>2
  <2>2. ASSUME NEW u \in Threads, NEW v \in Threads, moving'[u] = moving'[v], moving'[u] # Null
        PROVE  u = v
    BY <1>1, <2>2 DEF Movers, TypeOK
  <2>3. \A x \in Segs \ (C \cup D2 \cup Taken') : list'.next[x] = Wild
    BY <1>1, <1>5, <1>9 DEF Movers
  <2>4. QED
    BY <2>1, <2>2, <2>3 DEF Movers
<1>11. Cleaning(C, D2)' /\ ~Destroyed
  BY <1>1, CleaningWaits
<1>12. Flags(C, D2)'
  BY <1>1, <1>9, <1>11 DEF Flags
<1>13. Ahead(D2)'
  <2>1. \A u \in Threads : pc[u] \in {"first", "walk"} => pc'[u] = pc[u]
    BY <1>1 DEF TypeOK
  <2>2. CASE D # {}
    <3>1. \A x \in D : list.next[x] \in D
      BY <1>1, View
    <3>2. QED
      BY <1>1, <1>3, <1>5, <2>1, <2>2, <3>1, AheadGrows
  <2>3. CASE D = {} /\ \A u \in Threads : owed[u] = {}
    BY <1>1, <2>3 DEF Ahead, walk
  <2>4. CASE D = {} /\ \E u \in Threads : owed[u] # {}
    <3>1. PICK u \in Threads : LiesAhead(u, D)
      BY <1>1, <2>4 DEF Ahead
    <3>2. Way(D) = {m} /\ Way(D2)' = {m}
      BY <1>3, <1>5, <2>4 DEF Way
    <3>3. list.next[m] = m
      BY <1>5, <2>4, <3>1, <3>2 DEF LiesAhead
    <3>4. QED
      BY <1>1, <1>5, <2>1, <2>4, <3>2, <3>3, AheadKept
  <2>5. QED
    BY <2>2, <2>3, <2>4
<1>14. QED
  BY <1>7, <1>8, <1>10, <1>11, <1>12, <1>13 DEF Parts

-----------------------------------------------------------------------------
(* epoch_cleanup and tm_destroy. *)

(* c, the link behind the base of list b, with links S, is removed from l   *)
(* and freed: l becomes k.                                                  *)
BaseFreed(l, k, b, S, c) ==
  c \in S /\ c = l.next[l.base[b]] /\ k = Freed(Removed(l, c, b), c)

(* What k then holds in the place of l.                                     *)
BaseGone(l, k, b, S, c) ==
  /\ \A x \in Segs \ S : k.next[x] = l.next[x]
  /\ k.next[c] = Wild
  /\ c = l.base[b] => S \ {c} = {}
  /\ c # l.base[b] => S \ {c} # {} /\ l.next[c] = k.next[k.base[b]]

(* o is the other list, with links O.                                       *)
LEMMA LinkFreed ==
  ASSUME list \in ListType, NEW b, b \in ListName, NEW o, o \in ListName, o # b,
         NEW S, S \in SUBSET Segs, NEW O, O \in SUBSET Segs, S \cap O = {},
         Holds(list, b, S), Holds(list, o, O),
         NEW c, BaseFreed(list, list', b, S, c), NEW S2, S2 = S \ {c}
  PROVE  /\ list' \in ListType /\ Holds(list', b, S2) /\ Holds(list', o, O)
         /\ BaseGone(list, list', b, S, c)
<1> DEFINE base == list.base[b]
           r == Removed(list, c, b)
<1>1. c \in S /\ c = list.next[base] /\ list' = Freed(r, c)
  BY DEF BaseFreed
<1>2. TakesOut(list, r, b, S, c)
  BY <1>1, RemoveHolds
<1> HIDE DEF r
<1>3. /\ base \in S /\ list.prev[c] = base
      /\ c = base => S = {c}
  <2>1. base \in S /\ Ring(list.next, list.prev, S)
    BY <1>1 DEF Holds
  <2>2. list.prev[list.next[base]] = base
    BY <2>1 DEF Ring
  <2>3. c = base => list.next[base] = base
    BY <1>1
  <2>4. c = base => S = {base}
    BY <2>1, <2>3, RingSingle
  <2>5. QED
    BY <1>1, <2>1, <2>2, <2>4
<1>4. /\ r \in ListType /\ Holds(r, b, S2)
      /\ \A x \in Segs \ S : r.next[x] = list.next[x] /\ r.prev[x] = list.prev[x]
      /\ r.next[base] = list.next[c]
      /\ r.base[o] = list.base[o]
      /\ base # c => r.base[b] = base
  BY <1>3, <1>1, <1>2 DEF TakesOut
<1>5. /\ list' \in ListType /\ list'.base = r.base
      /\ \A x \in Segs : list'.next[x] = IF x = c THEN Wild ELSE r.next[x]
      /\ \A x \in Segs : list'.prev[x] = IF x = c THEN Wild ELSE r.prev[x]
  BY <1>4, <1>1 DEF Freed, ListType, Pointer
<1>6. Holds(list', b, S2)
  <2>1. \A x \in S2 : list'.next[x] = r.next[x] /\ list'.prev[x] = r.prev[x]
    BY <1>5
  <2>2. QED
    BY <1>4, <1>5, <2>1, HoldsSame
<1>7. Holds(list', o, O)
  <2>1. \A x \in O : x \in Segs \ S /\ x # c
    BY <1>1
  <2>2. \A x \in O : list'.next[x] = list.next[x] /\ list'.prev[x] = list.prev[x]
    BY <1>4, <1>5, <2>1
  <2>3. list'.base[o] = list.base[o]
    BY <1>4, <1>5
  <2>4. QED
    BY <2>2, <2>3, HoldsSame
<1>8. c # base => S2 # {} /\ list.next[c] = list'.next[list'.base[b]]
  <2>1. c # base => base \in S2 /\ base \in Segs
    BY <1>3
  <2>2. QED
    BY <1>4, <1>5, <1>1, <2>1
<1>9. c = base => S2 = {}
  BY <1>3, <1>1
<1>10. /\ \A x \in Segs \ S : list'.next[x] = list.next[x]
      /\ list'.next[c] = Wild
  BY <1>4, <1>5, <1>1
<1>11. BaseGone(list, list', b, S, c)
  BY <1>1, <1>8, <1>9, <1>10 DEF BaseGone
<1>12. QED
  BY <1>5, <1>6, <1>7, <1>11

(* The link behind the base of the dirty list is moved to the clean one.    *)
LEMMA LinkMoved ==
  ASSUME list \in ListType,
         NEW C, C \in SUBSET Segs, NEW D, D \in SUBSET Segs, C \cap D = {},
         Holds(list, "clean", C), Holds(list, "dirty", D),
         NEW c, c \in D, c = list.next[list.base["dirty"]],
         NEW C2, C2 = C \cup {c}, NEW D2, D2 = D \ {c},
         NEW r, TakesOut(list, r, "dirty", D, c),
         PutsIn(r, list', "clean", C, c)
  PROVE  /\ list' \in ListType /\ Holds(list', "clean", C2) /\ Holds(list', "dirty", D2)
         /\ \A x \in Segs \ (C \cup D) : list'.next[x] = list.next[x]
         /\ c = list.base["dirty"] => D2 = {}
         /\ c # list.base["dirty"] =>
              D2 # {} /\ list.next[c] = list'.next[list'.base["dirty"]]
<1> DEFINE base == list.base["dirty"]
<1>1. /\ base \in D /\ list.prev[c] = base
      /\ c = base => D = {c}
  <2>1. base \in D /\ Ring(list.next, list.prev, D)
    BY DEF Holds
  <2>2. QED
    BY <2>1, RingSingle DEF Ring
<1>2. "clean" \in ListName /\ "dirty" \in ListName
  BY DEF ListName
<1>3. /\ r \in ListType /\ Holds(r, "dirty", D2)
      /\ \A x \in Segs \ D : r.next[x] = list.next[x] /\ r.prev[x] = list.prev[x]
      /\ r.next[base] = list.next[c]
      /\ r.base["clean"] = list.base["clean"]
      /\ base # c => r.base["dirty"] = base
  BY <1>1, <1>2 DEF TakesOut
<1>4. /\ list' \in ListType /\ Holds(list', "clean", C2)
      /\ \A x \in Segs \ C2 : list'.next[x] = r.next[x] /\ list'.prev[x] = r.prev[x]
      /\ list'.base["dirty"] = r.base["dirty"]
  BY <1>2 DEF PutsIn
<1>5. Holds(list', "dirty", D2)
  <2>1. \A x \in D2 : list'.next[x] = r.next[x] /\ list'.prev[x] = r.prev[x]
    BY <1>4
  <2>2. QED
    BY <1>3, <1>4, <2>1, HoldsSame
<1>6. \A x \in Segs \ (C \cup D) : list'.next[x] = list.next[x]
  BY <1>3, <1>4
<1>7. c # base => D2 # {} /\ list.next[c] = list'.next[list'.base["dirty"]]
  <2>1. c # base => base \in D2 /\ base \in Segs \ C2
    BY <1>1
  <2>2. QED
    BY <1>3, <1>4, <2>1
<1>8. QED
  BY <1>1, <1>4, <1>5, <1>6, <1>7

(* When every transaction has left, no link is on its way and no walk owes  *)
(* anything.                                                                *)
LEMMA AllLeft ==
  ASSUME TypeOK, NEW C \in SUBSET Segs, NEW D \in SUBSET Segs, Parts(C, D),
         \A t \in Threads : pc[t] \in {"left", "gone"}
  PROVE  /\ Taken = {} /\ \A t \in Threads : moving[t] = Null /\ owed[t] = {} /\ link_lock # t
         /\ WellFormed(list, C, D)
         /\ \A s \in Segs : dirty[s] <=> s \in D
<1>1. Links(C, D) /\ Movers(C, D) /\ Flags(C, D) /\ Ahead(D)
  BY DEF Parts
<1>2. \A t \in Threads : moving[t] = Null /\ owed[t] = {} /\ link_lock # t
  BY <1>1 DEF Movers, Mover, Moving, Holding, Ahead, LiesAhead
<1>3. Taken = {}
  BY <1>2, DirtyListAssumption DEF Taken
<1>4. WellFormed(list, C, D)
  BY <1>1, View
<1>5. QED
  BY <1>1, <1>2, <1>3, <1>4 DEF Flags

(* ... and so it stays until one begins anew.                               *)
LEMMA AloneKeeps ==
  ASSUME TypeOK, NEW C \in SUBSET Segs, NEW D \in SUBSET Segs, Parts(C, D),
         \A t \in Threads : pc[t] \in {"left", "gone"},
         NEW C2 \in SUBSET Segs, NEW D2 \in SUBSET Segs, WellFormed(list', C2, D2),
         \A x \in Segs \ (C2 \cup D2) : list'.next[x] = Wild,
         \A s \in Segs : dirty'[s] <=> s \in D2, dirty' \in [Segs -> BOOLEAN],
         pc' \in [Threads -> {"running", "left", "gone"}], cleaner' \in Segs \cup {Null},
         UNCHANGED <<link_lock, moving, walk>>,
         Start \in C2 \cup D2 \/ Destroyed', Cleaning(C2, D2)'
  PROVE  TypeOK' /\ Parts(C2, D2)'
<1>1. Taken = {} /\ \A t \in Threads : moving[t] = Null /\ owed[t] = {} /\ link_lock # t
  BY AllLeft
<1>2. Taken' = {}
  BY <1>1 DEF Taken
<1>3. TypeOK'
  BY DEF TypeOK, WellFormed, ListType, Location, walk
<1>4. Links(C2, D2)'
  BY DEF Links
<1>5. Movers(C2, D2)'
  <2>1. ASSUME NEW u \in Threads
        PROVE  Mover(u, C2, D2)'
    BY <1>1 DEF Mover, Moving, Holding
  <2>2. QED
    BY <1>1, <1>2, <2>1 DEF Movers
<1>6. Flags(C2, D2)'
  BY <1>2 DEF Flags
<1>7. Ahead(D2)'
  BY <1>1 DEF Ahead, walk
<1>8. QED
  BY <1>3, <1>4, <1>5, <1>6, <1>7 DEF Parts

(* What the loop of epoch_cleanup leaves behind, whether it has freed the   *)
(* link or moved it. At its end nothing is dirty any more.                  *)
LEMMA CleanupLinkKeeps ==
  ASSUME TypeOK, NEW C \in SUBSET Segs, NEW D \in SUBSET Segs, Parts(C, D),
         CleanupLink(list'), NEW C2 \in SUBSET Segs, NEW D2 \in SUBSET Segs,
         WellFormed(list', C2, D2), D2 = D \ {cleaner},
         \A x \in Segs \ (C2 \cup D2) : list'.next[x] = Wild, Start \in C2 \cup D2,
         cleaner = list.base["dirty"] => D2 = {},
         cleaner # list.base["dirty"] =>
           D2 # {} /\ list.next[cleaner] = list'.next[list'.base["dirty"]]
  PROVE  /\ TypeOK' /\ Parts(C2, D2)'
         /\ cleaner' = Null => list'.base["dirty"] = Null /\ \A s \in Segs : ~dirty'[s]
<1>1. /\ cleaner # Null /\ ~Destroyed /\ dirty' = [dirty EXCEPT ![cleaner] = FALSE]
      /\ cleaner = list.base["dirty"] => cleaner' = Null /\ pc' = NextBatch
      /\ cleaner # list.base["dirty"] => cleaner' = list.next[cleaner] /\ pc' = pc
      /\ UNCHANGED <<link_lock, moving, walk>>
  BY DEF CleanupLink
<1>2. /\ \A t \in Threads : pc[t] = "left"
      /\ D # {} /\ cleaner = list.next[list.base["dirty"]]
  BY <1>1 DEF Parts, Cleaning
<1>3. WellFormed(list, C, D) /\ \A s \in Segs : dirty[s] <=> s \in D
  BY <1>2, AllLeft
<1>4. cleaner \in Segs /\ dirty \in [Segs -> BOOLEAN]
  BY <1>1 DEF TypeOK
<1>5. dirty' \in [Segs -> BOOLEAN] /\ \A s \in Segs : dirty'[s] <=> s \in D2
  BY <1>1, <1>3, <1>4
<1>6. cleaner # list.base["dirty"] => cleaner' \in Segs
  <2>1. cleaner # list.base["dirty"] => list'.base["dirty"] \in D2
    BY DEF WellFormed, Holds
  <2>2. \A s \in D2 : list'.next[s] \in D2
    BY DEF WellFormed, Holds, Ring
  <2>3. QED
    BY <1>1, <2>1, <2>2
<1>7. pc' \in [Threads -> {"running", "left", "gone"}] /\ \A t \in Threads : pc'[t] # "gone"
  BY <1>1, <1>2 DEF NextBatch, TypeOK
<1>8. Cleaning(C2, D2)'
  <2>1. ~Destroyed'
    BY <1>7, DirtyListAssumption DEF Destroyed
  <2>2. cleaner # list.base["dirty"] => \A t \in Threads : pc'[t] = "left"
    BY <1>1, <1>2
  <2>3. QED
    BY <1>1, <1>7, <2>1, <2>2 DEF Cleaning
<1>9. TypeOK' /\ Parts(C2, D2)'
  <2>1. cleaner' \in Segs \cup {Null}
    BY <1>1, <1>6
  <2>2. QED
    BY <1>1, <1>2, <1>5, <1>7, <1>8, <2>1, AloneKeeps
<1>10. cleaner' = Null => list'.base["dirty"] = Null /\ \A s \in Segs : ~dirty'[s]
  <2>1. ASSUME cleaner' = Null
        PROVE  D2 = {}
    BY <1>1, <1>6, <2>1, DirtyListAssumption
  <2>2. D2 = {} => list'.base["dirty"] = Null
    BY DEF WellFormed, Holds
  <2>3. QED
    BY <1>5, <2>1, <2>2
<1>11. QED
  BY <1>9, <1>10

(* What epoch_cleanup finds. *)
LEMMA CleanupFinds ==
  ASSUME TypeOK, NEW C \in SUBSET Segs, NEW D \in SUBSET Segs, Parts(C, D),
         cleaner # Null, ~Destroyed
  PROVE  /\ cleaner \in D /\ cleaner = list.next[list.base["dirty"]]
         /\ WellFormed(list, C, D) /\ \A s \in Segs : dirty[s] <=> s \in D
         /\ \A x \in Segs \ (C \cup D) : list.next[x] = Wild
         /\ Start \in C \cup D
<1>1. /\ \A t \in Threads : pc[t] = "left"
      /\ D # {} /\ cleaner = list.next[list.base["dirty"]]
  BY DEF Parts, Cleaning
<1>2. Taken = {} /\ WellFormed(list, C, D) /\ \A s \in Segs : dirty[s] <=> s \in D
  BY <1>1, AllLeft
<1>3. cleaner \in D
  BY <1>1, <1>2 DEF WellFormed, Holds, Ring
<1>4. /\ \A x \in Segs \ (C \cup D) : list.next[x] = Wild
      /\ Start \in C \cup D
  BY <1>2 DEF Parts, Movers, Flags
<1>5. QED
  BY <1>1, <1>2, <1>3, <1>4

LEMMA CleanupFreeKeeps ==
  ASSUME TypeOK, NEW C \in SUBSET Segs, NEW D \in SUBSET Segs, Parts(C, D), CleanupFree,
         NEW c, c = cleaner, NEW D2, D2 = D \ {c}
  PROVE  /\ TypeOK' /\ Parts(C, D2)'
         /\ cleaner' = Null => list'.base["dirty"] = Null /\ \A s \in Segs : ~dirty'[s]
<1>1. /\ c # Start /\ cleaner # Null /\ ~Destroyed /\ CleanupLink(list')
      /\ list' = Freed(Removed(list, c, "dirty"), c)
  BY DEF CleanupFree, CleanupLink
<1>2. /\ c \in D /\ c = list.next[list.base["dirty"]] /\ WellFormed(list, C, D)
      /\ \A x \in Segs \ (C \cup D) : list.next[x] = Wild
      /\ Start \in C \cup D
  BY <1>1, CleanupFinds
<1>3. /\ list \in ListType /\ C \cap D = {} /\ Holds(list, "clean", C) /\ Holds(list, "dirty", D)
      /\ "clean" \in ListName /\ "dirty" \in ListName
  BY <1>2 DEF WellFormed, ListName
<1>4. BaseFreed(list, list', "dirty", D, c)
  BY <1>1, <1>2 DEF BaseFreed
<1>5. D \cap C = {} /\ "clean" # "dirty"
  BY <1>3
<1>6. /\ list' \in ListType /\ Holds(list', "dirty", D2) /\ Holds(list', "clean", C)
      /\ \A x \in Segs \ D : list'.next[x] = list.next[x]
      /\ list'.next[c] = Wild
      /\ c = list.base["dirty"] => D2 = {}
      /\ c # list.base["dirty"] =>
           D2 # {} /\ list.next[c] = list'.next[list'.base["dirty"]]
  <2>1. /\ list' \in ListType /\ Holds(list', "dirty", D2) /\ Holds(list', "clean", C)
        /\ BaseGone(list, list', "dirty", D, c)
    BY <1>3, <1>4, <1>5, LinkFreed
  <2>2. QED
    BY <2>1 DEF BaseGone
<1>7. D2 \in SUBSET Segs /\ WellFormed(list', C, D2)
  BY <1>3, <1>6 DEF WellFormed
<1>8. \A x \in Segs \ (C \cup D2) : list'.next[x] = Wild
  BY <1>2, <1>6
<1>9. Start \in C \cup D2
  BY <1>1, <1>2
<1>10. QED
  BY <1>1, <1>6, <1>7, <1>8, <1>9, CleanupLinkKeeps

LEMMA CleanupMoveKeeps ==
  ASSUME TypeOK, NEW C \in SUBSET Segs, NEW D \in SUBSET Segs, Parts(C, D), CleanupMove,
         NEW c, c = cleaner, NEW C2, C2 = C \cup {c}, NEW D2, D2 = D \ {c}
  PROVE  /\ TypeOK' /\ Parts(C2, D2)'
         /\ cleaner' = Null => list'.base["dirty"] = Null /\ \A s \in Segs : ~dirty'[s]
<1>1. cleaner # Null /\ ~Destroyed /\ CleanupLink(list')
  BY DEF CleanupMove, CleanupLink
<1>2. /\ c \in D /\ c = list.next[list.base["dirty"]] /\ WellFormed(list, C, D)
      /\ \A s \in Segs : dirty[s] <=> s \in D
      /\ \A x \in Segs \ (C \cup D) : list.next[x] = Wild
      /\ Start \in C \cup D
  BY <1>1, CleanupFinds
<1>3. /\ list \in ListType /\ C \cap D = {} /\ Holds(list, "clean", C) /\ Holds(list, "dirty", D)
      /\ "clean" \in ListName /\ "dirty" \in ListName
  BY <1>2 DEF WellFormed, ListName
<1> DEFINE r == Removed(list, c, "dirty")
<1>4. list' = Closed(Opened(r, c, "clean"), c, "clean")
  BY <1>2 DEF CleanupMove, CleanupLink
<1>5. TakesOut(list, r, "dirty", D, c)
  BY <1>2, <1>3, RemoveHolds
<1> HIDE DEF r
<1>6. r \in ListType /\ Holds(r, "clean", C)
  <2>1. \A x \in C : r.next[x] = list.next[x] /\ r.prev[x] = list.prev[x]
    BY <1>3, <1>5 DEF TakesOut
  <2>2. r \in ListType /\ r.base["clean"] = list.base["clean"]
    BY <1>3, <1>5 DEF TakesOut
  <2>3. QED
    BY <1>3, <2>1, <2>2, HoldsSame
<1>7. PutsIn(r, list', "clean", C, c)
  <2>1. c \in Segs \ C
    BY <1>2, <1>3
  <2>2. QED
    BY <1>3, <1>4, <1>6, <2>1, InsertHolds
<1>8. /\ list' \in ListType /\ Holds(list', "clean", C2) /\ Holds(list', "dirty", D2)
      /\ \A x \in Segs \ (C \cup D) : list'.next[x] = list.next[x]
      /\ c = list.base["dirty"] => D2 = {}
      /\ c # list.base["dirty"] =>
           D2 # {} /\ list.next[c] = list'.next[list'.base["dirty"]]
  BY <1>2, <1>3, <1>5, <1>7, LinkMoved
<1>9. C2 \in SUBSET Segs /\ D2 \in SUBSET Segs /\ WellFormed(list', C2, D2)
  BY <1>2, <1>3, <1>8 DEF WellFormed
<1>10. \A x \in Segs \ (C2 \cup D2) : list'.next[x] = Wild
  BY <1>2, <1>8
<1>11. Start \in C2 \cup D2
  BY <1>2
<1>12. QED
  BY <1>1, <1>8, <1>9, <1>10, <1>11, CleanupLinkKeeps

LEMMA CleanupBeginKeeps ==
  ASSUME TypeOK, NEW C \in SUBSET Segs, NEW D \in SUBSET Segs, Parts(C, D), CleanupBegin
  PROVE  TypeOK' /\ Parts(C, D)'
<1>1. /\ \A t \in Threads : pc[t] = "left"
      /\ cleaner = Null
      /\ list.base["dirty"] = Null => pc' = NextBatch /\ cleaner' = cleaner
      /\ list.base["dirty"] # Null => cleaner' = list.next[list.base["dirty"]] /\ pc' = pc
      /\ UNCHANGED <<list, dirty, link_lock, moving, walk>>
  BY DEF CleanupBegin
<1>2. Taken = {} /\ WellFormed(list, C, D) /\ \A s \in Segs : dirty[s] <=> s \in D
  BY <1>1, AllLeft
<1>3. ~Destroyed
  BY <1>1, DirtyListAssumption DEF Destroyed
<1>4. /\ \A x \in Segs \ (C \cup D) : list.next[x] = Wild
      /\ Start \in C \cup D
  BY <1>2, <1>3 DEF Parts, Movers, Flags
<1>5. list.base["dirty"] # Null => D # {} /\ list.next[list.base["dirty"]] \in Segs
  BY <1>2 DEF WellFormed, Holds, Ring
<1>6. pc' \in [Threads -> {"running", "left", "gone"}] /\ \A t \in Threads : pc'[t] # "gone"
  BY <1>1 DEF NextBatch, TypeOK
<1>7. Cleaning(C, D)'
  <2>1. ~Destroyed'
    BY <1>6, DirtyListAssumption DEF Destroyed
  <2>2. list.base["dirty"] # Null => \A t \in Threads : pc'[t] = "left"
    BY <1>1
  <2>3. QED
    BY <1>1, <1>5, <1>6, <2>1, <2>2 DEF Cleaning
<1>8. cleaner' \in Segs \cup {Null}
  BY <1>1, <1>5
<1>9. dirty' \in [Segs -> BOOLEAN] /\ \A s \in Segs : dirty'[s] <=> s \in D
  BY <1>1, <1>2 DEF TypeOK
<1>10. WellFormed(list', C, D) /\ \A x \in Segs \ (C \cup D) : list'.next[x] = Wild
  BY <1>1, <1>2, <1>4
<1>11. QED
  BY <1>1, <1>4, <1>6, <1>7, <1>8, <1>9, <1>10, AloneKeeps

LEMMA DestroyKeeps ==
  ASSUME TypeOK, NEW C \in SUBSET Segs, NEW D \in SUBSET Segs, Parts(C, D), Destroy
  PROVE  TypeOK' /\ Parts(C, D)'
<1>1. /\ \A t \in Threads : pc[t] = "left"
      /\ list.base["dirty"] = Null /\ pc' = [t \in Threads |-> "gone"]
      /\ cleaner' = list.next[list.base["clean"]]
      /\ UNCHANGED <<list, dirty, link_lock, moving, walk>>
  BY DEF Destroy
<1>2. Taken = {} /\ WellFormed(list, C, D) /\ \A s \in Segs : dirty[s] <=> s \in D
  BY <1>1, AllLeft
<1>3. ~Destroyed
  BY <1>1, DirtyListAssumption DEF Destroyed
<1>4. /\ \A x \in Segs \ (C \cup D) : list.next[x] = Wild
      /\ Start \in C \cup D
  BY <1>2, <1>3 DEF Parts, Movers, Flags
<1>5. D = {} /\ C # {} /\ list.next[list.base["clean"]] \in Segs
  <2>1. D = {}
    BY <1>1, <1>2, DirtyListAssumption DEF WellFormed, Holds
  <2>2. QED
    BY <1>2, <1>4, <2>1 DEF WellFormed, Holds, Ring
<1>6. Destroyed' /\ pc' \in [Threads -> {"running", "left", "gone"}]
  BY <1>1 DEF Destroyed
<1>7. Cleaning(C, D)'
  BY <1>1, <1>5, <1>6 DEF Cleaning
<1>8. dirty' \in [Segs -> BOOLEAN] /\ \A s \in Segs : dirty'[s] <=> s \in D
  BY <1>1, <1>2 DEF TypeOK
<1>9. WellFormed(list', C, D) /\ \A x \in Segs \ (C \cup D) : list'.next[x] = Wild
  BY <1>1, <1>2, <1>4
<1>10. cleaner' \in Segs \cup {Null}
  BY <1>1, <1>5
<1>11. QED
  BY <1>1, <1>6, <1>7, <1>8, <1>9, <1>10, AloneKeeps

(* Until the last link, which is the base, is gone.                         *)
LEMMA DestroyLinkKeeps ==
  ASSUME TypeOK, NEW C \in SUBSET Segs, NEW D \in SUBSET Segs, Parts(C, D), DestroyLink,
         NEW c, c = cleaner, NEW C2, C2 = C \ {c}
  PROVE  /\ TypeOK' /\ Parts(C2, D)'
         /\ list'.base["dirty"] = Null /\ \A s \in Segs : ~dirty'[s]
<1>1. /\ Destroyed /\ c \in Segs /\ cleaner # Null
      /\ list' = Freed(Removed(list, c, "clean"), c)
      /\ c = list.base["clean"] => cleaner' = Null
      /\ c # list.base["clean"] => cleaner' = list.next[c]
      /\ UNCHANGED <<dirty, link_lock, pc, moving, walk>>
  BY DirtyListAssumption DEF DestroyLink
<1>2. /\ \A t \in Threads : pc[t] \in {"left", "gone"}
      /\ D = {} /\ C # {} /\ c = list.next[list.base["clean"]]
  BY <1>1 DEF Parts, Cleaning, Destroyed
<1>3. Taken = {} /\ WellFormed(list, C, D) /\ \A s \in Segs : dirty[s] <=> s \in D
  BY <1>2, AllLeft
<1>4. /\ list \in ListType /\ C \cap D = {} /\ Holds(list, "clean", C) /\ Holds(list, "dirty", D)
      /\ "clean" \in ListName /\ "dirty" \in ListName
      /\ \A x \in Segs \ (C \cup D) : list.next[x] = Wild
  BY <1>3 DEF WellFormed, ListName, Parts, Movers
<1>5. c \in C
  BY <1>2, <1>4 DEF Holds, Ring
<1>6. BaseFreed(list, list', "clean", C, c)
  BY <1>1, <1>2, <1>5 DEF BaseFreed
<1>7. "dirty" # "clean"
  OBVIOUS
<1>8. /\ list' \in ListType /\ Holds(list', "clean", C2) /\ Holds(list', "dirty", D)
      /\ \A x \in Segs \ C : list'.next[x] = list.next[x]
      /\ list'.next[c] = Wild
      /\ c # list.base["clean"] =>
           C2 # {} /\ list.next[c] = list'.next[list'.base["clean"]]
  <2>1. /\ list' \in ListType /\ Holds(list', "clean", C2) /\ Holds(list', "dirty", D)
        /\ BaseGone(list, list', "clean", C, c)
    BY <1>4, <1>6, <1>7, LinkFreed
  <2>2. QED
    BY <2>1 DEF BaseGone
<1>9. C2 \in SUBSET Segs /\ WellFormed(list', C2, D)
  BY <1>4, <1>8 DEF WellFormed
<1>10. \A x \in Segs \ (C2 \cup D) : list'.next[x] = Wild
  BY <1>4, <1>8
<1>11. cleaner' \in Segs \cup {Null}
  BY <1>1, <1>4, <1>5 DEF Holds, Ring
<1>12. Destroyed' /\ pc' \in [Threads -> {"running", "left", "gone"}]
  BY <1>1, <1>2 DEF Destroyed, TypeOK
<1>13. Cleaning(C2, D)'
  BY <1>1, <1>2, <1>8, <1>12 DEF Cleaning
<1>14. dirty' \in [Segs -> BOOLEAN] /\ \A s \in Segs : dirty'[s] <=> s \in D
  BY <1>1, <1>3 DEF TypeOK
<1>15. TypeOK' /\ Parts(C2, D)'
  BY <1>1, <1>2, <1>9, <1>10, <1>11, <1>12, <1>13, <1>14, AloneKeeps
<1>16. list'.base["dirty"] = Null /\ \A s \in Segs : ~dirty'[s]
  BY <1>2, <1>8, <1>14 DEF Holds
<1>17. QED
  BY <1>15, <1>16

-----------------------------------------------------------------------------
(* Every step. *)

LEMMA RememberedKept ==
  ASSUME TypeOK, Remembered, [Next]_vars
  PROVE  Remembered'
<1>1. ASSUME NEW u \in Threads, pc'[u] = "first"
      PROVE  stop'[u] # Null
  <2>1. CASE pc[u] = "first" /\ stop' = stop
    BY <2>1 DEF Remembered
  <2>2. ASSUME NEW t \in Threads, Rollback(t)
        PROVE  stop'[u] # Null
    BY <1>1, <2>2 DEF Remembered, Rollback, Go, TypeOK
  <2>3. ASSUME NEW t \in Threads, RollbackLink(t)
        PROVE  stop'[u] # Null
    BY <1>1, <2>3 DEF Remembered, RollbackLink, Go, TypeOK
  <2>4. ASSUME NEW t \in Threads, NEW s \in Segs,
               Claim(t, s) \/ Alloc(t, s) \/ Move(t) \/ End(t) \/ RollbackFirst(t)
        PROVE  pc[u] = "first" /\ stop' = stop
    <3>1. PICK to \in Location \ {"first"} : pc' = [pc EXCEPT ![t] = to]
      BY <2>4 DEF Claim, Alloc, Move, Lock, Remove, Insert, Close, End, RollbackFirst, Go,
                  Location
    <3>2. stop' = stop
      BY <2>4 DEF Claim, Alloc, Move, Lock, Remove, Insert, Close, End, RollbackFirst, walk
    <3>3. QED
      BY <1>1, <3>1, <3>2 DEF TypeOK
  <2>5. CASE Cleanup \/ Destroy \/ DestroyLink \/ UNCHANGED vars
    <3>1. pc' = pc \/ pc' = NextBatch \/ pc' = [t \in Threads |-> "gone"]
      BY <2>5 DEF Cleanup, CleanupBegin, CleanupFree, CleanupMove, CleanupLink, Destroy,
                  DestroyLink, vars
    <3>2. stop' = stop
      BY <2>5 DEF Cleanup, CleanupBegin, CleanupFree, CleanupMove, CleanupLink, Destroy,
                  DestroyLink, vars, walk
    <3>3. pc[u] = "first"
      BY <1>1, <3>1 DEF NextBatch
    <3>4. QED
      BY <2>1, <3>2, <3>3
  <2>6. QED
    BY <2>1, <2>2, <2>3, <2>4, <2>5, DirtyListAssumption DEF Next, Walk
<1>2. QED
  BY <1>1 DEF Remembered

LEMMA ThreadKeeps ==
  ASSUME TypeOK, Remembered, NEW C \in SUBSET Segs, NEW D \in SUBSET Segs, Parts(C, D),
         NEW t \in Threads,
         \/ \E s \in Segs : Claim(t, s) \/ Alloc(t, s)
         \/ Move(t) \/ End(t) \/ Rollback(t) \/ Walk(t)
  PROVE  TypeOK' /\ \E C2, D2 \in SUBSET Segs : Parts(C2, D2)'
<1>1. CASE \E s \in Segs : Claim(t, s) \/ Alloc(t, s)
  BY <1>1, ClaimKeeps, AllocKeeps
<1>2. CASE Lock(t)
  BY <1>2, LockKeeps
<1>3. CASE Remove(t)
  <2>1. PICK m \in Segs \cup {Null} : m = moving[t]
    BY DEF TypeOK
  <2>2. PICK C2 \in SUBSET Segs : C2 = C \ {m}
    OBVIOUS
  <2>3. TypeOK' /\ Parts(C2, D)'
    BY <1>3, <2>1, <2>2, RemoveKeeps
  <2>4. QED
    BY <2>3
<1>4. CASE Insert(t)
  BY <1>4, InsertKeeps
<1>5. CASE Close(t)
  <2>1. PICK m \in Segs : m = moving[t]
    BY <1>5 DEF TypeOK, Parts, Movers, Mover, Moving, Close, Go
  <2>2. PICK D2 \in SUBSET Segs : D2 = D \cup {m}
    OBVIOUS
  <2>3. TypeOK' /\ Parts(C, D2)'
    BY <1>5, <2>1, <2>2, CloseKeeps
  <2>4. QED
    BY <2>3
<1>6. CASE End(t)
  BY <1>6, EndKeeps
<1>7. CASE Rollback(t)
  BY <1>7, RollbackKeeps
<1>8. CASE RollbackFirst(t)
  <2>1. stop[t] # Null
    BY <1>8 DEF Remembered, RollbackFirst, Go
  <2>2. QED
    BY <1>8, <2>1, RollbackFirstKeeps
<1>9. CASE RollbackLink(t)
  BY <1>9, RollbackLinkKeeps
<1>10. QED
  BY <1>1, <1>2, <1>3, <1>4, <1>5, <1>6, <1>7, <1>8, <1>9 DEF Move, Walk

LEMMA StepHolds == IInv /\ [Next]_vars => IInv'
<1> SUFFICES ASSUME IInv, [Next]_vars
             PROVE  IInv'
  OBVIOUS
<1>1. TypeOK /\ Remembered
  BY DEF IInv
<1>2. PICK C \in SUBSET Segs, D \in SUBSET Segs : Parts(C, D)
  BY DEF IInv
<1>3. TypeOK' /\ \E C2, D2 \in SUBSET Segs : Parts(C2, D2)'
  <2>1. ASSUME NEW t \in Threads,
               \/ \E s \in Segs : Claim(t, s) \/ Alloc(t, s)
               \/ Move(t) \/ End(t) \/ Rollback(t) \/ Walk(t)
        PROVE  TypeOK' /\ \E C2, D2 \in SUBSET Segs : Parts(C2, D2)'
    BY <1>1, <1>2, <2>1, ThreadKeeps
  <2>2. CASE CleanupBegin
    BY <1>1, <1>2, <2>2, CleanupBeginKeeps
  <2>3. ASSUME CleanupFree \/ CleanupMove \/ DestroyLink
        PROVE  TypeOK' /\ \E C2, D2 \in SUBSET Segs : Parts(C2, D2)'
    <3>1. PICK c \in Segs : c = cleaner
      BY <1>1, <2>3, DirtyListAssumption
         DEF TypeOK, CleanupFree, CleanupMove, CleanupLink, DestroyLink
    <3>2. PICK C2 \in SUBSET Segs : C2 = C \cup {c}
      OBVIOUS
    <3>3. PICK D2 \in SUBSET Segs : D2 = D \ {c}
      OBVIOUS
    <3>4. PICK C3 \in SUBSET Segs : C3 = C \ {c}
      OBVIOUS
    <3>5. CASE CleanupFree
      BY <1>1, <1>2, <3>1, <3>3, <3>5, CleanupFreeKeeps
    <3>6. CASE CleanupMove
      BY <1>1, <1>2, <3>1, <3>2, <3>3, <3>6, CleanupMoveKeeps
    <3>7. CASE DestroyLink
      BY <1>1, <1>2, <3>1, <3>4, <3>7, DestroyLinkKeeps
    <3>8. QED
      BY <2>3, <3>5, <3>6, <3>7
  <2>4. CASE Destroy
    BY <1>1, <1>2, <2>4, DestroyKeeps
  <2>5. CASE UNCHANGED vars
    <3>1. TypeOK'
      BY <1>1, <2>5 DEF vars, walk, TypeOK
    <3>2. Parts(C, D)'
      BY <1>2, <2>5 DEF vars, walk, Parts, Links, Movers, Mover, Taken, Flags, Destroyed,
                        Ahead, LiesAhead, Way, Here, Cleaning
    <3>3. QED
      BY <3>1, <3>2
  <2>6. QED
    BY <2>1, <2>2, <2>3, <2>4, <2>5 DEF Next, Cleanup
<1>4. Remembered'
  BY <1>1, RememberedKept
<1>5. QED
  BY <1>3, <1>4 DEF IInv

LEMMA Invariance == Spec => []IInv
<1>1. QED
  BY InitHolds, StepHolds, PTL DEF Spec

-----------------------------------------------------------------------------

(* Outside link_lock a list is empty or a ring.                             *)
LEMMA HeldCircular ==
  ASSUME NEW b, NEW S \in SUBSET Segs, Holds(list, b, S)
  PROVE  Circular(b) /\ Met(b) = IF S = {} THEN {Null} ELSE S
<1>1. CASE S = {}
  BY <1>1, MetNothing DEF Holds, Circular
<1>2. CASE S # {}
  <2>1. list.base[b] \in S /\ Ring(list.next, list.prev, S)
    BY <1>2 DEF Holds
  <2>2. Met(b) = S
    BY <2>1, MetRing DEF Ring
  <2>3. IsRing(b)
    <3>1. /\ list.prev[list.base[b]] \in Met(b) \cap Segs
          /\ list.next[list.prev[list.base[b]]] = list.base[b]
      BY <2>1, <2>2 DEF Ring
    <3>2. QED
      BY <3>1 DEF IsRing
  <2>4. QED
    BY <1>2, <2>1, <2>2, <2>3 DEF Circular, Ring
<1>3. QED
  BY <1>1, <1>2

LEMMA InvListsWellFormed == IInv => ListsWellFormed
<1> SUFFICES ASSUME IInv
             PROVE  ListsWellFormed
  OBVIOUS
<1>1. TypeOK
  BY DEF IInv
<1>2. PICK C \in SUBSET Segs, D \in SUBSET Segs : Parts(C, D)
  BY DEF IInv
<1>3. ASSUME link_lock = NoThread
      PROVE  /\ Circular("clean") /\ Circular("dirty")
             /\ Met("clean") \cap Met("dirty") \subseteq {Null}
             /\ \A s \in Segs : In(s, "dirty") <=>
                  dirty[s] /\ ~\E t \in Threads : moving[t] = s
             /\ Exists(Start) \/ Destroyed
  <2>1. Links(C, D) /\ Movers(C, D) /\ Flags(C, D)
    BY <1>2 DEF Parts
  <2>2. \A t \in Threads : pc[t] # "close"
    BY <1>3, <2>1, DirtyListAssumption DEF Movers, Mover, Holding
  <2>3. C \cap D = {} /\ Holds(list, "clean", C) /\ Holds(list, "dirty", D)
    BY <1>1, <2>1, <2>2, View DEF WellFormed
  <2>4. /\ Circular("clean") /\ Circular("dirty")
        /\ Met("clean") = IF C = {} THEN {Null} ELSE C
        /\ Met("dirty") = IF D = {} THEN {Null} ELSE D
    BY <2>3, HeldCircular
  <2>5. Met("clean") \cap Met("dirty") \subseteq {Null}
    BY <2>3, <2>4, DirtyListAssumption
  <2>6. /\ \A s \in Segs : In(s, "clean") <=> s \in C
        /\ \A s \in Segs : In(s, "dirty") <=> s \in D
    BY <2>4, DirtyListAssumption DEF In
  <2>7. \A s \in Segs : s \in Taken <=> \E t \in Threads : moving[t] = s
    BY DEF Taken
  <2>8. \A s \in Segs : In(s, "dirty") <=> dirty[s] /\ ~\E t \in Threads : moving[t] = s
    <3>1. ASSUME NEW s \in Segs
          PROVE  s \in D <=> dirty[s] /\ s \notin Taken
      BY <2>1 DEF Flags
    <3>2. QED
      BY <2>6, <2>7, <3>1
  <2>9. Exists(Start) \/ Destroyed
    BY <2>1, <2>6, <2>7, DirtyListAssumption DEF Flags, Exists
  <2>10. QED
    BY <2>4, <2>5, <2>8, <2>9
<1>4. QED
  BY <1>1, <1>3 DEF ListsWellFormed

(* link_insert and link_remove keep both lists rings, with prev the way     *)
(* back, however the calls of move_to_dirty and tm_alloc interleave, and    *)
(* so do epoch_cleanup and tm_destroy. The lists share no link, and the     *)
(* dirty list has the segments that are flagged.                            *)
THEOREM ListsAreRings == Spec => []ListsWellFormed
<1>1. QED
  BY Invariance, InvListsWellFormed, PTL

(* The loop of rollback_transaction takes no lock and meets links that are  *)
(* inserted while it runs; it still looks at each that was in the dirty     *)
(* list when it began, before it ends with the base.                        *)
THEOREM WalksSeeAll == Spec => []RollbackSeesAll
<1>1. IInv => RollbackSeesAll
  BY DEF IInv, Parts, Ahead, LiesAhead, RollbackSeesAll
<1>2. QED
  BY <1>1, Invariance, PTL

(* epoch_cleanup empties the dirty list, and with move_to_clean or with the *)
(* segment itself every flag goes, before the next batch can begin; what    *)
(* tm_destroy takes apart has no dirty segment either.                      *)
THEOREM BatchesBeginClean == Spec => BatchBeginsClean
<1>1. IInv /\ [Next]_vars =>
        (cleaner # Null /\ cleaner' = Null =>
           list'.base["dirty"] = Null /\ ~\E s \in Segs : dirty'[s])
  <2> SUFFICES ASSUME IInv, [Next]_vars, cleaner # Null, cleaner' = Null
               PROVE  list'.base["dirty"] = Null /\ \A s \in Segs : ~dirty'[s]
    OBVIOUS
  <2>1. TypeOK
    BY DEF IInv
  <2>2. PICK C \in SUBSET Segs, D \in SUBSET Segs : Parts(C, D)
    BY DEF IInv
  <2>3. CleanupFree \/ CleanupMove \/ DestroyLink
    <3>1. ASSUME NEW t \in Threads, NEW s \in Segs,
                 \/ Claim(t, s) \/ Alloc(t, s)
                 \/ Move(t) \/ End(t) \/ Rollback(t) \/ Walk(t)
          PROVE  FALSE
      BY <3>1 DEF Claim, Alloc, Move, Lock, Remove, Insert, Close, End, Rollback, Walk,
                  RollbackFirst, RollbackLink
    <3>2. ~CleanupBegin /\ ~Destroy /\ ~UNCHANGED vars
      BY DEF CleanupBegin, Destroy, vars
    <3>3. QED
      BY <3>1, <3>2, DirtyListAssumption DEF Next, Cleanup
  <2>4. CASE CleanupFree
    BY <2>1, <2>2, <2>4, CleanupFreeKeeps
  <2>5. CASE CleanupMove
    BY <2>1, <2>2, <2>5, CleanupMoveKeeps
  <2>6. CASE DestroyLink
    BY <2>1, <2>2, <2>6, DestroyLinkKeeps
  <2>7. QED
    BY <2>3, <2>4, <2>5, <2>6
<1>2. QED
  BY <1>1, Invariance, PTL DEF Spec, BatchBeginsClean

==============================================================================

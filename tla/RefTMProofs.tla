------------------------------ MODULE RefTMProofs ------------------------------
(***************************************************************************)
(* Proofs about RefTM.tla, for every number of threads, segments and values *)
(* and every modulus of the tickets that lets each thread have one: each of *)
(* the four locks isolates transactions, and tickets survive a wrap-around. *)
(***************************************************************************)
EXTENDS RefTM, Integers, FiniteSetTheorems, TLAPS

Running == {t \in Threads : pc[t] = "running"}
InUse   == {t \in Threads : pc[t] \in {"spin", "running"}}

Content == Values \cup {NoSegment}
Ticket  == 0 .. TicketModulus - 1

(* How many tickets are drawn from b on until a is.                         *)
Distance(a, b) == IF a >= b THEN a - b ELSE a + TicketModulus - b

Types ==
  /\ kind \in {"mutex", "ticket", "rw", "ttas"}
  /\ take \in Ticket /\ pass \in Ticket
  /\ locked \in BOOLEAN
  /\ pc \in [Threads -> Location]
  /\ is_ro \in [Threads -> BOOLEAN]
  /\ ticket \in [Threads -> Ticket]
  /\ mem \in [Segs -> Content]
  /\ view \in [Threads -> [Segs -> Content]]

(* What each lock knows of who runs.                                        *)
LockInv ==
  /\ kind \in {"mutex", "rw"} => holders = Running
  /\ kind = "ttas" => (Running # {} => locked)

(* Tickets between pass and take: those in use lie there, each once, and    *)
(* there are as many as the distance says, which can be told from none at   *)
(* all only by their number when all are in use.                            *)
TicketInv ==
  kind = "ticket" =>
    /\ Distance(take, pass) = (IF Cardinality(InUse) = TicketModulus THEN 0
                                                                    ELSE Cardinality(InUse))
    /\ \A t \in InUse : Distance(ticket[t], pass) < Cardinality(InUse)
    /\ \A t, u \in InUse : ticket[t] = ticket[u] => t = u
    /\ \A t \in Running : ticket[t] = pass

(* Who may write runs alone.                                                *)
Exclusion ==
  \A t, u \in Running : t # u => kind = "rw" /\ is_ro[t] /\ is_ro[u]

IInv == Types /\ LockInv /\ TicketInv /\ Exclusion /\ Isolated

-----------------------------------------------------------------------------
(* Counting the threads that have a ticket.                                 *)
LEMMA CountInUse ==
  ASSUME NEW S \in SUBSET Threads
  PROVE  /\ Cardinality(S) \in Nat /\ Cardinality(S) <= TicketModulus
         /\ Cardinality(S) = 0 <=> S = {}
         /\ \A t \in Threads : t \notin S => Cardinality(S \cup {t}) = Cardinality(S) + 1
         /\ \A t \in S : Cardinality(S \ {t}) = Cardinality(S) - 1
<1>1. IsFiniteSet(S) /\ Cardinality(S) <= Cardinality(Threads)
  BY FS_Subset, RefAssumption
<1>2. Cardinality(S) \in Nat /\ Cardinality(Threads) \in Nat
  BY <1>1, FS_CardinalityType, RefAssumption
<1>3. Cardinality(S) <= TicketModulus
  BY <1>1, <1>2, RefAssumption
<1>4. Cardinality(S) = 0 <=> S = {}
  BY <1>1, FS_EmptySet
<1>5. \A t \in Threads : t \notin S => Cardinality(S \cup {t}) = Cardinality(S) + 1
  BY <1>1, FS_AddElement
<1>6. \A t \in S : Cardinality(S \ {t}) = Cardinality(S) - 1
  BY <1>1, FS_RemoveElement
<1>7. QED
  BY <1>2, <1>3, <1>4, <1>5, <1>6

(* The ticket after a.                                                      *)
LEMMA NextTicket ==
  ASSUME NEW a \in Ticket
  PROVE  (a + 1) % TicketModulus = IF a + 1 = TicketModulus THEN 0 ELSE a + 1
<1>1. a + 1 = TicketModulus => (a + 1) % TicketModulus = 0
  BY RefAssumption DEF Ticket
<1>2. a + 1 # TicketModulus => (a + 1) % TicketModulus = a + 1
  BY RefAssumption DEF Ticket
<1>3. QED
  BY <1>1, <1>2

-----------------------------------------------------------------------------
LEMMA InitIInv == Init => IInv
<1> SUFFICES ASSUME Init PROVE IInv
  OBVIOUS
<1>1. TicketModulus \in Nat \ {0} /\ 0 \in Ticket
  BY RefAssumption DEF Ticket
<1>2. InUse = {} /\ Running = {}
  BY DEF Init, InUse, Running
<1>3. Types
  BY <1>1, RefAssumption DEF Init, Types, Location, Created, Content
<1>4. TicketInv
  BY <1>1, <1>2, CountInUse DEF Init, TicketInv, Distance
<1>5. QED
  BY <1>2, <1>3, <1>4 DEF Init, IInv, LockInv, Exclusion, Isolated
LEMMA TypesStep == IInv /\ [Next]_vars => Types'
<1> SUFFICES ASSUME IInv, [Next]_vars PROVE Types'
  OBVIOUS
<1> USE DEF Types
<1>0. Types /\ \A a \in Ticket : (a + 1) % TicketModulus \in Ticket
  BY NextTicket, RefAssumption DEF IInv, Ticket
<1>1. ASSUME NEW t \in Threads, NEW ro \in BOOLEAN, Begin(t, ro) PROVE Types'
  BY <1>0, <1>1 DEF Begin, Go, lock, memory, Location
<1>2. ASSUME NEW t \in Threads, Acquire(t) PROVE Types'
  <2>1. CASE Draw(t)
    BY <1>0, <2>1 DEF Draw, Go, memory, Location
  <2>2. CASE Served(t)
    BY <1>0, <2>2 DEF Served, Acquired, Go, lock, client, memory, Location
  <2>3. CASE TrySucceeds(t)
    BY <1>0, <2>3 DEF TrySucceeds, Acquired, Go, client, memory, Location
  <2>4. CASE TryFails(t) \/ SeesFree(t) \/ Refused(t)
    BY <1>0, <2>4 DEF TryFails, SeesFree, Refused, Go, lock, client, memory, Location
  <2>5. CASE MutexGranted(t) \/ WriteGranted(t) \/ ReadGranted(t)
    BY <1>0, <2>5 DEF MutexGranted, WriteGranted, ReadGranted, Hold, Acquired, Go, client,
                      memory, Location
  <2>6. QED
    BY <1>2, <2>1, <2>2, <2>3, <2>4, <2>5 DEF Acquire
<1>3. ASSUME NEW t \in Threads, Access(t) PROVE Types'
  <2>1. PICK s \in Segs, v \in Content : Put(t, s, v)
    BY <1>3, RefAssumption DEF Access, Write, Alloc, Free, Content
  <2>2. QED
    BY <1>0, <2>1 DEF Put, lock, client
<1>4. ASSUME NEW t \in Threads, End(t) PROVE Types'
  <2>1. Created \in [Segs -> Content] /\ 0 \in Ticket
    BY RefAssumption DEF Created, Content, Ticket
  <2>2. QED
    BY <1>0, <1>4, <2>1 DEF End, Go, memory, Location
<1>5. CASE Destroy
  BY <1>0, <1>5 DEF Destroy, lock, client, memory, Location
<1>6. CASE DestroyAlloc
  BY <1>0, <1>6 DEF DestroyAlloc, lock, client, Content
<1>7. CASE UNCHANGED vars
  BY <1>0, <1>7 DEF vars, lock, client, memory
<1>8. QED
  BY <1>1, <1>2, <1>3, <1>4, <1>5, <1>6, <1>7 DEF Next

(* A thread on its way to the lock: nobody begins or ends to run.           *)
LEMMA ApproachStep ==
  ASSUME IInv, NEW t \in Threads,
         (\E ro \in BOOLEAN : Begin(t, ro)) \/ TryFails(t) \/ SeesFree(t) \/ Refused(t)
  PROVE  LockInv' /\ TicketInv' /\ Exclusion' /\ Isolated'
<1>1. /\ Types /\ LockInv /\ TicketInv /\ Exclusion /\ Isolated
      /\ UNCHANGED <<kind, take, pass, locked, holders, ticket, mem, view>>
      /\ pc[t] \in {"idle", "acquire", "spin"} /\ pc' = [pc EXCEPT ![t] = pc'[t]]
      /\ pc'[t] \in {"idle", "acquire", "spin"}
      /\ kind = "ticket" => pc[t] = "idle" /\ pc'[t] = "acquire"
      /\ is_ro' = [is_ro EXCEPT ![t] = is_ro'[t]]
  BY DEF IInv, Types, Begin, TryFails, SeesFree, Refused, Go, lock, client, memory
<1>2. Running' = Running /\ t \notin Running
  BY <1>1 DEF Running, Types
<1>3. kind = "ticket" => InUse' = InUse
  BY <1>1 DEF InUse, Types
<1>4. LockInv' /\ TicketInv'
  BY <1>1, <1>2, <1>3 DEF LockInv, TicketInv, Distance
<1>5. \A u \in Running : is_ro'[u] = is_ro[u]
  BY <1>1, <1>2 DEF Types, Running
<1>6. Exclusion'
  BY <1>1, <1>2, <1>5 DEF Exclusion
<1>7. Isolated'
  BY <1>1, <1>2 DEF Isolated, Running
<1>8. QED
  BY <1>4, <1>6, <1>7

(* A ticket is drawn that is not in use.                                    *)
LEMMA DrawStep ==
  ASSUME IInv, NEW t \in Threads, Draw(t)
  PROVE  LockInv' /\ TicketInv' /\ Exclusion' /\ Isolated'
<1>1. /\ Types /\ LockInv /\ TicketInv /\ Exclusion /\ Isolated
      /\ kind = "ticket" /\ pc[t] = "acquire" /\ pc' = [pc EXCEPT ![t] = "spin"]
      /\ ticket' = [ticket EXCEPT ![t] = take]
      /\ take' = (take + 1) % TicketModulus
      /\ UNCHANGED <<kind, pass, locked, holders, is_ro, mem, view>>
  BY DEF IInv, Draw, Go, memory
<1>2. Running' = Running /\ t \notin Running
  BY <1>1 DEF Running, Types
<1>3. InUse' = InUse \cup {t} /\ t \notin InUse
  BY <1>1 DEF InUse, Types
<1> DEFINE n == Cardinality(InUse)
<1>4. n \in Nat /\ Cardinality(InUse') = n + 1 /\ n + 1 <= TicketModulus
  <2>1. InUse \in SUBSET Threads /\ InUse' \in SUBSET Threads
    BY DEF InUse
  <2>2. QED
    BY <1>3, <2>1, CountInUse
<1> HIDE DEF n
<1>5. /\ Distance(take, pass) = n
      /\ \A u \in InUse : Distance(ticket[u], pass) < n
  BY <1>1, <1>4, RefAssumption DEF TicketInv, n
<1>6. \A u \in InUse : ticket'[u] = ticket[u] /\ ticket[u] # take
  BY <1>1, <1>3, <1>4, <1>5 DEF Types
<1>7. ticket'[t] = take
  BY <1>1 DEF Types
<1>8. Distance(take', pass) = IF n + 1 = TicketModulus THEN 0 ELSE n + 1
  <2>1. take' = IF take + 1 = TicketModulus THEN 0 ELSE take + 1
    BY <1>1, NextTicket DEF Types
  <2>2. take \in 0 .. TicketModulus - 1 /\ pass \in 0 .. TicketModulus - 1
    BY <1>1 DEF Types, Ticket
  <2>3. QED
    BY <1>4, <1>5, <2>1, <2>2, RefAssumption DEF Distance
<1>9. ASSUME NEW u \in InUse' PROVE Distance(ticket'[u], pass) < n + 1
  <2>1. CASE u = t
    BY <1>4, <1>5, <1>7, <2>1
  <2>2. CASE u # t
    <3>1. u \in InUse /\ Distance(ticket'[u], pass) < n
      BY <1>3, <1>5, <1>6, <2>2
    <3>2. Distance(ticket'[u], pass) \in Int
      BY <1>1, <1>6, <3>1, RefAssumption DEF Types, Ticket, Distance, InUse
    <3>3. QED
      BY <1>4, <3>1, <3>2
  <2>3. QED
    BY <2>1, <2>2
<1>10. TicketInv'
  <2>1. kind' = kind /\ pass' = pass
    BY <1>1
  <2>2. Distance(take, pass)' = IF n + 1 = TicketModulus THEN 0 ELSE n + 1
    BY <1>8, <2>1 DEF Distance
  <2>3. \A u \in InUse' : Distance(ticket[u], pass)' < n + 1
    BY <1>9, <2>1 DEF Distance
  <2>4. \A u, v \in InUse' : ticket'[u] = ticket'[v] => u = v
    BY <1>1, <1>3, <1>6, <1>7 DEF TicketInv
  <2>5. \A u \in Running' : ticket'[u] = pass'
    BY <1>1, <1>2, <1>6, <2>1 DEF TicketInv, Running, InUse
  <2>6. QED
    BY <1>4, <2>2, <2>3, <2>4, <2>5 DEF TicketInv
<1>11. LockInv' /\ Exclusion' /\ Isolated'
  BY <1>1, <1>2 DEF LockInv, Exclusion, Isolated, Running
<1>12. QED
  BY <1>10, <1>11

(* A thread gets the lock. What the lock looks at says that nobody runs, or *)
(* readers only if it is one itself.                                        *)
LEMMA AcquiredStep ==
  ASSUME IInv, NEW t \in Threads,
         Served(t) \/ TrySucceeds(t) \/ MutexGranted(t) \/ WriteGranted(t) \/ ReadGranted(t)
  PROVE  LockInv' /\ TicketInv' /\ Exclusion' /\ Isolated'
<1>1. /\ Types /\ LockInv /\ TicketInv /\ Exclusion /\ Isolated
      /\ pc[t] \in {"acquire", "spin"} /\ (kind = "ticket" => pc[t] = "spin" /\ ticket[t] = pass)
      /\ pc' = [pc EXCEPT ![t] = "running"]
      /\ view' = [view EXCEPT ![t] = mem]
      /\ UNCHANGED <<kind, take, pass, is_ro, ticket, mem>>
  BY DEF IInv, Served, TrySucceeds, MutexGranted, WriteGranted, ReadGranted, Hold, Acquired,
         Go, lock, client, memory
<1>2. Running' = Running \cup {t} /\ t \notin Running
  BY <1>1 DEF Running, Types
<1>3. Running = {} \/ (kind = "rw" /\ is_ro[t] /\ \A u \in Running : is_ro[u])
  <2>1. CASE Served(t)
    <3>1. kind = "ticket" /\ t \in InUse
      BY <2>1, <1>1 DEF Served, InUse
    <3>2. ASSUME NEW u \in Running PROVE FALSE
      <4>1. u \in InUse /\ ticket[u] = ticket[t] /\ u # t
        BY <1>1, <1>2, <3>1, <3>2 DEF TicketInv, Running, InUse
      <4>2. QED
        BY <1>1, <3>1, <4>1 DEF TicketInv
    <3>3. QED
      BY <3>2
  <2>2. CASE TrySucceeds(t)
    BY <1>1, <2>2 DEF TrySucceeds, LockInv
  <2>3. CASE MutexGranted(t) \/ WriteGranted(t) \/ ReadGranted(t)
    BY <1>1, <2>3 DEF MutexGranted, WriteGranted, ReadGranted, LockInv
  <2>4. QED
    BY <2>1, <2>2, <2>3
<1>4. LockInv'
  BY <1>1, <1>2 DEF LockInv, Served, TrySucceeds, MutexGranted, WriteGranted, ReadGranted, Hold
<1>5. TicketInv'
  <2>1. kind = "ticket" => InUse' = InUse
    BY <1>1 DEF InUse, Types
  <2>2. QED
    BY <1>1, <1>2, <2>1 DEF TicketInv, Distance
<1>6. Exclusion'
  BY <1>1, <1>2, <1>3 DEF Exclusion
<1>7. Isolated'
  BY <1>1, <1>2 DEF Isolated, Running, Types
<1>8. QED
  BY <1>4, <1>5, <1>6, <1>7

(* A transaction writes, allocates or frees: it runs alone.                 *)
LEMMA AccessStep ==
  ASSUME IInv, NEW t \in Threads, Access(t)
  PROVE  LockInv' /\ TicketInv' /\ Exclusion' /\ Isolated'
<1>1. /\ Types /\ LockInv /\ TicketInv /\ Exclusion /\ Isolated
  BY DEF IInv
<1>2. PICK s \in Segs, v \in Content : Put(t, s, v)
  BY RefAssumption DEF Access, Write, Alloc, Free, Content
<1>3. /\ t \in Running /\ ~is_ro[t]
      /\ mem' = [mem EXCEPT ![s] = v] /\ view' = [view EXCEPT ![t][s] = v]
      /\ UNCHANGED <<kind, take, pass, locked, holders, pc, is_ro, ticket>>
  BY <1>2 DEF Put, Running, lock, client
<1>4. Running = {t} /\ Running' = Running /\ InUse' = InUse
  BY <1>1, <1>3 DEF Exclusion, Running, InUse
<1>5. mem' = view'[t]
  BY <1>1, <1>3 DEF Isolated, Running, Types
<1>6. LockInv' /\ TicketInv' /\ Exclusion'
  BY <1>1, <1>3, <1>4 DEF LockInv, TicketInv, Exclusion, Distance
<1>7. Isolated'
  BY <1>4, <1>5 DEF Isolated, Running
<1>8. QED
  BY <1>6, <1>7

(* The lock goes on to the next ticket, or is free.                         *)
LEMMA EndStep ==
  ASSUME IInv, NEW t \in Threads, End(t)
  PROVE  LockInv' /\ TicketInv' /\ Exclusion' /\ Isolated'
<1>1. /\ Types /\ LockInv /\ TicketInv /\ Exclusion /\ Isolated
      /\ pc[t] = "running" /\ pc' = [pc EXCEPT ![t] = "idle"]
      /\ pass' = (IF kind = "ticket" THEN (pass + 1) % TicketModulus ELSE pass)
      /\ locked' = FALSE /\ holders' = holders \ {t}
      /\ is_ro' = [is_ro EXCEPT ![t] = FALSE]
      /\ ticket' = [ticket EXCEPT ![t] = 0]
      /\ view' = [view EXCEPT ![t] = Created]
      /\ UNCHANGED <<kind, take, mem>>
  BY DEF IInv, End, Go, memory
<1>2. Running' = Running \ {t} /\ t \in Running
  BY <1>1 DEF Running, Types
<1>3. kind # "rw" => Running' = {}
  BY <1>1, <1>2 DEF Exclusion
<1>4. LockInv'
  BY <1>1, <1>2, <1>3 DEF LockInv
<1>5. TicketInv'
  <2> SUFFICES ASSUME kind = "ticket" PROVE TicketInv'
    BY <1>1 DEF TicketInv
  <2>1. InUse' = InUse \ {t} /\ t \in InUse /\ ticket[t] = pass
    BY <1>1, <1>2 DEF InUse, Types, TicketInv
  <2> DEFINE n == Cardinality(InUse)
  <2>2. n \in Nat \ {0} /\ n <= TicketModulus /\ Cardinality(InUse') = n - 1
    <3>1. InUse \in SUBSET Threads
      BY DEF InUse
    <3>2. QED
      BY <2>1, <3>1, CountInUse
  <2> HIDE DEF n
  <2>3. /\ Distance(take, pass) = (IF n = TicketModulus THEN 0 ELSE n)
        /\ \A u \in InUse : Distance(ticket[u], pass) < n
        /\ \A u, v \in InUse : ticket[u] = ticket[v] => u = v
    BY <1>1 DEF TicketInv, n
  <2>4. pass' = IF pass + 1 = TicketModulus THEN 0 ELSE pass + 1
    BY <1>1, NextTicket DEF Types
  <2>5. take \in Ticket /\ pass \in Ticket
    BY <1>1 DEF Types
  <2>6. Distance(take, pass') = n - 1
    BY <2>2, <2>3, <2>4, <2>5, RefAssumption DEF Distance, Ticket
  <2>7. ASSUME NEW u \in InUse'
        PROVE  ticket'[u] = ticket[u] /\ u \in InUse /\ Distance(ticket[u], pass') < n - 1
    <3>1. u \in InUse /\ u # t /\ ticket'[u] = ticket[u] /\ ticket[u] \in Ticket
      BY <1>1, <2>1 DEF Types, InUse
    <3>2. ticket[u] # pass
      BY <2>1, <2>3, <3>1
    <3>3. QED
      BY <2>2, <2>3, <2>4, <2>5, <3>1, <3>2, RefAssumption DEF Distance, Ticket
  <2>8. QED
    <3>1. n - 1 # TicketModulus
      BY <2>2, RefAssumption
    <3>2. take' = take /\ kind' = kind /\ Running' = {}
      BY <1>1, <1>3
    <3>3. Distance(take, pass)' = n - 1
      BY <2>6, <3>2 DEF Distance
    <3>4. \A u \in InUse' : Distance(ticket[u], pass)' < n - 1
      BY <2>7 DEF Distance
    <3>5. \A u, v \in InUse' : ticket'[u] = ticket'[v] => u = v
      BY <2>3, <2>7
    <3>6. QED
      BY <2>2, <3>1, <3>2, <3>3, <3>4, <3>5 DEF TicketInv
<1>6. Exclusion'
  BY <1>1, <1>2 DEF Exclusion, Running, Types
<1>7. Isolated'
  BY <1>1, <1>2 DEF Isolated, Running, Types
<1>8. QED
  BY <1>4, <1>5, <1>6, <1>7

(* Nobody runs when the memory is destroyed.                                *)
LEMMA DestroyStep ==
  ASSUME IInv, NEW t \in Threads, Destroy \/ DestroyAlloc
  PROVE  LockInv' /\ TicketInv' /\ Exclusion' /\ Isolated'
<1>1. /\ LockInv /\ TicketInv
      /\ Running = {} /\ Running' = {} /\ InUse = {} /\ InUse' = {}
      /\ UNCHANGED <<kind, take, pass, locked, holders, ticket>>
  BY DEF IInv, Destroy, DestroyAlloc, Destroyed, lock, client, Running, InUse
<1>2. QED
  BY <1>1 DEF LockInv, TicketInv, Exclusion, Isolated, Distance, Running

LEMMA NextIInv == IInv /\ [Next]_vars => IInv'
<1> SUFFICES ASSUME IInv, [Next]_vars PROVE IInv'
  OBVIOUS
<1>1. Types'
  BY TypesStep
<1>2. CASE \E t \in Threads : (\E ro \in BOOLEAN : Begin(t, ro)) \/ Acquire(t) \/ Access(t)
                               \/ End(t) \/ Destroy \/ DestroyAlloc
  BY <1>1, <1>2, ApproachStep, DrawStep, AcquiredStep, AccessStep, EndStep, DestroyStep
     DEF Acquire, IInv
<1>3. CASE UNCHANGED vars
  BY <1>1, <1>3 DEF vars, lock, client, memory, IInv, LockInv, TicketInv, Exclusion, Isolated,
                    Distance, Running, InUse
<1>4. QED
  BY <1>2, <1>3 DEF Next

THEOREM Inductive == Spec => []IInv
<1>1. QED
  BY InitIInv, NextIInv, PTL DEF Spec

(* Isolated: with each of the four locks a transaction finds in the memory  *)
(* what was there when it began, and its own writes.                        *)
THEOREM Isolation == Spec => []Isolated
<1>1. IInv => Isolated
  BY DEF IInv
<1>2. QED
  BY Inductive, <1>1, PTL

(* TicketsInUse: the tickets from pass to take are those of the threads     *)
(* that wait or run, one each, for every modulus that is not smaller than   *)
(* the number of threads.                                                   *)
THEOREM TicketsAreDistinct == Spec => []TicketsInUse
<1>1. IInv => TicketsInUse
  <2> SUFFICES ASSUME IInv, kind = "ticket" PROVE TicketsInUse
    BY DEF TicketsInUse
  <2>1. take \in Ticket /\ pass \in Ticket /\ TicketInv
    BY DEF IInv, Types
  <2> DEFINE n == Cardinality(InUse)
  <2>2. n \in Nat /\ n <= TicketModulus
    <3>1. InUse \in SUBSET Threads
      BY DEF InUse
    <3>2. QED
      BY <3>1, CountInUse
  <2>3. Distance(take, pass) = IF n = TicketModulus THEN 0 ELSE n
    BY <2>1 DEF TicketInv
  <2> HIDE DEF n
  <2>4. (take + TicketModulus - pass) % TicketModulus = Distance(take, pass)
    <3>1. CASE take >= pass
      <4>1. take - pass \in 0 .. TicketModulus - 1
        BY <2>1, <3>1, RefAssumption DEF Ticket
      <4>2. ((take - pass) + TicketModulus) % TicketModulus = take - pass
        BY <4>1, RefAssumption
      <4>3. (take - pass) + TicketModulus = take + TicketModulus - pass
        BY <2>1, RefAssumption DEF Ticket
      <4>4. QED
        BY <3>1, <4>2, <4>3 DEF Distance
    <3>2. CASE ~(take >= pass)
      BY <2>1, <3>2, RefAssumption DEF Ticket, Distance
    <3>3. QED
      BY <3>1, <3>2
  <2>5. n % TicketModulus = IF n = TicketModulus THEN 0 ELSE n
    BY <2>2, RefAssumption
  <2>6. take < TicketModulus /\ pass < TicketModulus
    BY <2>1, RefAssumption DEF Ticket
  <2>7. QED
    BY <2>1, <2>3, <2>4, <2>5, <2>6 DEF TicketsInUse, TicketInv, InUse, Running, n
<1>2. QED
  BY Inductive, <1>1, PTL

===============================================================================

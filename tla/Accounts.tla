------------------------------- MODULE Accounts -------------------------------
(***************************************************************************)
(* The bank of grading/workload.hpp word by word: AccountSegments and the  *)
(* Shared values of grading/transactional.hpp in the shared memory, at the *)
(* opaque pointers that template/segment.h makes and takes apart.          *)
(*                                                                         *)
(* Bank.tla is what this implements. Transactions that commit are steps    *)
(* here, too; which words they read and write, and through which pointers, *)
(* is what is added, with the round of initialisation that comes before.   *)
(***************************************************************************)
EXTENDS Integers, FiniteSets, SequencesExt

CONSTANTS
  Workers,       \* the worker threads
  nbtxperwrk,    \* transactions per worker
  nbaccounts,    \* accounts at the beginning, and per segment
  init_balance,  \* what a new account holds
  PointerBits,   \* the bits of a pointer below the exponent
  Blocks,        \* addresses posix_memalign may find free
  Start          \* the one that tm_create gets

VARIABLES
  mem,    \* the words of every block, by their offset in the read copy
  live,   \* the blocks that are allocated
  ready,  \* where each worker is in the round of initialisation
  bank,   \* what the words say of the accounts: always AccountsIn(mem)
  doing, togo, count, ids, wrong  \* those of Bank

Bank == INSTANCE Bank

vars == <<mem, live, ready, bank, doing, togo, count, ids, wrong>>

(* AccountSegment::size and ::align, with four words of eight bytes.        *)
Word == 8
size == 3 * Word + nbaccounts * Word
INSTANCE Layout WITH align <- Word

(* What memory that nobody has written holds.                               *)
Garbage == 1
Offsets == {Word * i : i \in 0 .. size \div Word - 1}

start == cons_opaque_ptr_for_seg(Start, size)  \* TransactionalMemory::get_start
nullptr == 0

-----------------------------------------------------------------------------
(* Shared::after and Shared::operator[]; the fields of AccountSegment.      *)
after(address) == address + Word
count_of(segment) == segment
next_of(segment) == after(count_of(segment))
parity_of(segment) == after(next_of(segment))
account_of(segment, i) == after(parity_of(segment)) + i * Word

(* Shared::read and Shared::write, with the decoding in tm_read, tm_write.  *)
(* A pointer that leads to no word of the memory reads and writes another's. *)
Leads(address) ==
  /\ get_opaque_ptr_seg(address) \in Blocks
  /\ get_opaque_ptr_word_offset(address, size) \in Offsets

Read(m, address) ==
  IF Leads(address)
    THEN m[get_opaque_ptr_seg(address)][get_opaque_ptr_word_offset(address, size)]
    ELSE Garbage

Write(m, address, value) ==
  IF Leads(address)
    THEN [m EXCEPT ![get_opaque_ptr_seg(address)][get_opaque_ptr_word_offset(address, size)] = value]
    ELSE m

(* The segments that the walks of all transactions meet, first to last.     *)
Chain(m) ==
  LET walk[k \in 1 .. Cardinality(Blocks)] ==
        IF k = 1 THEN <<start>>
        ELSE LET passed == walk[k - 1]
                 next == Read(m, next_of(Last(passed)))
             IN IF next = nullptr THEN passed ELSE Append(passed, next)
  IN walk[Cardinality(Blocks)]

AccountSegment(m, segment) ==
  [parity |-> Read(m, parity_of(segment)),
   balances |-> [i \in 1 .. Read(m, count_of(segment)) |->
                   Read(m, account_of(segment, i - 1))]]

AccountsIn(m) == LET chain == Chain(m) IN [k \in DOMAIN chain |-> AccountSegment(m, chain[k])]

(* tm_create zeroes the first segment.                                      *)
Zeroed(m, block) == [m EXCEPT ![block] = [o \in Offsets |-> 0]]

Init ==
  /\ mem = Zeroed([b \in Blocks |-> [o \in Offsets |-> Garbage]], Start)
  /\ live = {Start}
  /\ ready = [w \in Workers |-> "write"]
  /\ Bank!Init

-----------------------------------------------------------------------------
(* WorkloadBank::init, which every worker calls. Neither parity nor next    *)
(* are written: the memory is zero before.                                  *)

Prepare(w, from, to) ==
  /\ ready[w] = from
  /\ ready' = [ready EXCEPT ![w] = to]
  /\ UNCHANGED <<live, bank, doing, togo, count, ids, wrong>>

InitWrite(w) ==
  /\ Prepare(w, "write", "look")
  /\ mem' = LET counted == Write(mem, count_of(start), nbaccounts)
            IN FoldFunctionOnSet(LAMBDA i, m : Write(m, account_of(start, i), init_balance),
                                 counted, [i \in 0 .. nbaccounts - 1 |-> i],
                                 0 .. nbaccounts - 1)

InitLook(w) ==
  /\ Prepare(w, "look", IF Read(mem, account_of(start, 0)) = init_balance THEN "done" ELSE "wrong")
  /\ UNCHANGED mem

(* The round is over; from here on the words are what run finds.            *)
Initialised ==
  /\ \A w \in Workers : ready[w] = "done"
  /\ bank' = AccountsIn(mem)
  /\ UNCHANGED <<mem, live, ready, doing, togo, count, ids, wrong>>

-----------------------------------------------------------------------------
(* alloc_tx, at the last segment of the chain                               *)

(* There is room in the segment, which has c accounts.                      *)
AddAccount(segment, c) ==
  /\ c < nbaccounts
  /\ mem' = Write(Write(mem, account_of(segment, c), init_balance), count_of(segment), c + 1)
  /\ UNCHANGED live

(* Faulty: tm_alloc leaves in a segment what was there.                     *)
FreshUnzeroed(m, block) == m

(* alloc_segment zeroes both copies.                                        *)
Fresh(m, block) == Zeroed(m, block)

(* Shared::alloc writes the pointer to where it has read null. The model    *)
(* has enough blocks for the longest chain; tm_alloc does not fail.         *)
AddSegment(segment, c) ==
  /\ c = nbaccounts
  /\ \E block \in Blocks \ live :
       /\ Aligned(block, size)
       /\ \A other \in live : Apart(block, other, size)
       /\ LET new == cons_opaque_ptr_for_seg(block, size)
              linked == Write(Fresh(mem, block), next_of(segment), new)
          IN mem' = Write(Write(linked, count_of(new), 1), account_of(new, 0), init_balance)
       /\ live' = live \cup {block}

(* Faulty: the parity of a segment is lost with the segment.                *)
RemoveAccountLosing(prev, segment, c) ==
  LET parity == Read(mem, parity_of(segment)) + Read(mem, account_of(segment, c - 1))
                  - init_balance
  IN \/ /\ c > 1
        /\ mem' = Write(Write(mem, count_of(segment), c - 1), parity_of(segment), parity)
        /\ UNCHANGED live
     \/ /\ c = 1
        /\ mem' = Write(mem, next_of(prev), nullptr)
        /\ live' = live \ {get_opaque_ptr_seg(segment)}

(* The segment's last account goes; the segment with it, if it is the only  *)
(* one: Shared::free frees what next points to and writes null there.       *)
RemoveAccount(prev, segment, c) ==
  LET parity == Read(mem, parity_of(segment)) + Read(mem, account_of(segment, c - 1))
                  - init_balance
      unlinked == Write(mem, next_of(prev), nullptr)
  IN \/ /\ c > 1
        /\ mem' = Write(Write(mem, count_of(segment), c - 1), parity_of(segment), parity)
        /\ UNCHANGED live
     \/ /\ c = 1
        /\ mem' = Write(unlinked, parity_of(prev), Read(unlinked, parity_of(prev)) + parity)
        /\ live' = live \ {get_opaque_ptr_seg(segment)}

AllocTx(w) ==
  /\ Bank!Begin(w)
  /\ Bank!Go(w, "next", "next")
  /\ LET chain == Chain(mem)
         segment == Last(chain)
         prev == chain[Len(chain) - 1]
         c == Read(mem, count_of(segment))
     IN \/ AddAccount(segment, c)
        \/ AddSegment(segment, c)
        \/ Bank!Accounts > 2 /\ RemoveAccount(prev, segment, c)
  /\ bank' = AccountsIn(mem')
  /\ UNCHANGED <<ready, count, ids, wrong>>

-----------------------------------------------------------------------------
(* short_tx that finds both accounts; send_ptr and recv_ptr.                *)

Found(id) ==
  LET place == Bank!Walk(id)[Len(bank)]
  IN IF place.segment = 0 THEN nullptr ELSE account_of(Chain(mem)[place.segment], place.id)

Transfer(w) ==
  LET sender == Found(ids[w].send)
      recver == Found(ids[w].recv)
      taken  == Write(mem, sender, Read(mem, sender) - 1)
  IN /\ Bank!Go(w, "short", "next")
     /\ sender # nullptr /\ recver # nullptr
     /\ mem' = IF Read(mem, sender) > 0
                 THEN Write(taken, recver, Read(taken, recver) + 1)
                 ELSE mem
     /\ bank' = AccountsIn(mem')
     /\ ids' = [ids EXCEPT ![w] = Bank!NoIds]
     /\ UNCHANGED <<live, ready, togo, count, wrong>>

(* What only reads the bank. *)
Look(w) ==
  /\ UNCHANGED <<mem, live, ready>>
  /\ Bank!Long(w) \/ Bank!ShortTx(w) \/ Bank!Retry(w) \/ Bank!Redraw(w)

Run(w) == AllocTx(w) \/ Transfer(w) \/ Look(w)

-----------------------------------------------------------------------------
(* Every pointer leads to the segment and the word it was made for: the     *)
(* addresses of all words of all live segments, as their fields count them, *)
(* are taken apart to that segment and to offsets that differ, inside of    *)
(* the read copy; and neither copy reaches into another segment's block.    *)
PointersLead ==
  \A block \in live :
    LET segment == cons_opaque_ptr_for_seg(block, size)
        end == write(block, size) + size
    IN /\ \A o \in Offsets : /\ get_opaque_ptr_seg(segment + o) = block
                             /\ get_opaque_ptr_word_offset(segment + o, size) = o
       /\ \A other \in live \ {block} : block < other => end <= other

==============================================================================

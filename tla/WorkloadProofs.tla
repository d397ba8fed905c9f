---------------------------- MODULE WorkloadProofs ----------------------------
(***************************************************************************)
(* Proofs about Workload.tla and what it is composed of, Accounts.tla and  *)
(* CounterCheck.tla, for every set of workers and of blocks and every      *)
(* number of accounts and transactions: opaque pointers lead to their      *)
(* words, the words of the shared memory are the bank of Bank.tla, and     *)
(* neither init nor run nor check reports a memory that keeps its promise. *)
(***************************************************************************)
EXTENDS BankProofs

(* Opaque pointers.                                                         *)

Size == Accounts!size
Whole == Accounts!next_pow2(Accounts!seg_size(Size))   \* bytes of a block
Ptr(b) == Accounts!cons_opaque_ptr_for_seg(b, Size)    \* what leads to it

(* Layout of a segment of nbaccounts accounts.                              *)
LEMMA Sizes ==
  /\ Size = 24 + 8 * nbaccounts
  /\ Accounts!seg_size(Size) = 208 + 32 * nbaccounts
  /\ \A b \in Nat : /\ Accounts!read(b, Size) = b + 160 + 16 * nbaccounts
                    /\ Accounts!write(b, Size) = b + 184 + 24 * nbaccounts
  /\ \A o \in Accounts!Offsets : o \in Nat /\ o < Size
<1>1. Size = 24 + 8 * nbaccounts
  BY BankAssumption DEF Size, Accounts!size, Accounts!Word
<1>2. Accounts!fst_aligned_offset = 112
  BY DEF Accounts!fst_aligned_offset, Accounts!sizeof_segment_t, Accounts!Word
<1>3. Size \div 8 = 3 + nbaccounts
  BY <1>1, BankAssumption
<1>4. Accounts!control_size(Size) = 48 + 16 * nbaccounts
  BY <1>3, BankAssumption DEF Accounts!control_size, Accounts!Word, Accounts!sizeof_control_t
<1>5. Accounts!seg_size(Size) = 208 + 32 * nbaccounts
  BY <1>1, <1>2, <1>4, BankAssumption DEF Accounts!seg_size
<1>6. \A b \in Nat : /\ Accounts!read(b, Size) = b + 160 + 16 * nbaccounts
                     /\ Accounts!write(b, Size) = b + 184 + 24 * nbaccounts
  BY <1>1, <1>2, <1>4, BankAssumption DEF Accounts!read, Accounts!write, Accounts!control
<1>7. \A o \in Accounts!Offsets : o \in Nat /\ o < Size
  BY <1>1, <1>3, BankAssumption DEF Accounts!Offsets, Accounts!Word, Size
<1>8. QED
  BY <1>1, <1>5, <1>6, <1>7

(* A block has a size, and its exponent is found.                           *)
LEMMA BlockSize ==
  LET e == Accounts!pow2_exp(Accounts!seg_size(Size))
  IN  /\ e \in 0 .. PointerBits /\ Whole = 2 ^ e
      /\ Whole \in Nat /\ Accounts!seg_size(Size) <= Whole
<1> DEFINE x == Accounts!seg_size(Size)
           S == {n \in Nat : n <= PointerBits /\ x <= 2 ^ n =>
                               \E e \in 0 .. PointerBits : x <= 2 ^ e /\ 2 ^ e < 2 * x}
<1>1. x \in Nat /\ x > 1 /\ x <= 2 ^ PointerBits
  BY Sizes, BankAssumption, PointersReach DEF Size
<1> HIDE DEF x
<1>2. 0 \in S
  <2>1. 2 ^ 0 = 1
    OBVIOUS
  <2>2. QED
    BY <1>1, <2>1
<1>3. ASSUME NEW n \in Nat, n \in S PROVE n + 1 \in S
  <2>1. SUFFICES ASSUME n + 1 <= PointerBits, x <= 2 ^ (n + 1)
                 PROVE  \E e \in 0 .. PointerBits : x <= 2 ^ e /\ 2 ^ e < 2 * x
    OBVIOUS
  <2>2. n \in 0 .. PointerBits /\ n + 1 \in 0 .. PointerBits
    BY <2>1, BankAssumption
  <2>3. 2 ^ n \in Nat /\ 2 ^ (n + 1) = 2 * 2 ^ n
    BY <2>2, PowersOfTwo
  <2>4. CASE x <= 2 ^ n
    BY <1>3, <2>2, <2>4
  <2>5. CASE ~ (x <= 2 ^ n)
    <3>1. 2 ^ (n + 1) < 2 * x
      BY <1>1, <2>3, <2>5
    <3>2. QED
      BY <2>1, <2>2, <3>1
  <2>6. QED
    BY <2>4, <2>5
<1> HIDE DEF S
<1>4. Nat \subseteq S
  BY <1>2, <1>3, SetInduction
<1>5. PointerBits \in Nat /\ PointerBits \in S
  BY <1>4, BankAssumption
<1>6. \E e \in 0 .. PointerBits : x <= 2 ^ e /\ 2 ^ e < 2 * x
  BY <1>1, <1>5 DEF S
<1> DEFINE e == Accounts!pow2_exp(x)
<1>7. e \in 0 .. PointerBits /\ x <= 2 ^ e
  BY <1>6 DEF Accounts!pow2_exp
<1>8. Whole = 2 ^ e
  BY DEF Whole, Accounts!next_pow2, x
<1> HIDE DEF e
<1>9. 2 ^ e \in Nat
  BY <1>7, PowersOfTwo
<1>10. QED
  BY <1>7, <1>8, <1>9 DEF e, x

(* A number below M and a multiple of M are taken apart again ...           *)
LEMMA Remainder ==
  ASSUME NEW M \in Nat, NEW a \in 0 .. M - 1, NEW q \in Nat
  PROVE  (a + q * M) \div M = q /\ (a + q * M) % M = a
OBVIOUS

(* ... and a number below M is the rest above a multiple of M.              *)
LEMMA RemainderOfMultiple ==
  ASSUME NEW M \in Nat, NEW n \in Nat, n % M = 0, NEW a \in 0 .. M - 1
  PROVE  (n + a) % M = a
<1>1. PICK q \in Nat : n = q * M
  <2>1. n = (n \div M) * M /\ n \div M \in Nat
    OBVIOUS
  <2>2. QED
    BY <2>1
<1>2. q * M \in Nat /\ n + a = a + q * M
  BY <1>1
<1>3. QED
  BY <1>2, Remainder

(* A pointer to a word of an aligned block is taken apart to the block and  *)
(* the word, and is not null.                                               *)
LEMMA PointerLeadsBack ==
  ASSUME NEW b \in Blocks, Accounts!Aligned(b, Size), NEW o \in Nat, o < Size
  PROVE  /\ Ptr(b) \in Nat /\ Ptr(b) # 0
         /\ Accounts!get_opaque_ptr_seg(Ptr(b) + o) = b
         /\ Accounts!get_opaque_ptr_word_offset(Ptr(b) + o, Size) = o
<1> DEFINE E == Accounts!pow2_exp(Accounts!seg_size(Size))
           A == 2 ^ PointerBits
           r == Accounts!read(b, Size)
<1>1. /\ b \in Nat /\ r = b + 160 + 16 * nbaccounts /\ nbaccounts \in Nat
      /\ Size = 24 + 8 * nbaccounts /\ Accounts!seg_size(Size) = 208 + 32 * nbaccounts
  BY Sizes, BankAssumption
<1>2. /\ E \in Nat /\ Whole = 2 ^ E /\ Whole \in Nat /\ Accounts!seg_size(Size) <= Whole
  BY BlockSize
<1>3. A \in Nat /\ b + Whole <= A
  BY BankAssumption, PowersOfTwo, PointersReach DEF Whole, Size
<1>4. b % Whole = 0
  BY DEF Accounts!Aligned, Whole
<1>5. Ptr(b) = r + E * A
  BY DEF Ptr, Accounts!cons_opaque_ptr_for_seg, Accounts!cons_opaque_ptr
<1> HIDE DEF E, A, r
<1> DEFINE word == r + o
<1>6. /\ word \in Nat /\ word \in 0 .. A - 1
      /\ word - b \in 0 .. Whole - 1 /\ word = b + (word - b)
  BY <1>1, <1>2, <1>3
<1>7. E * A \in Nat /\ Ptr(b) + o = word + E * A
  BY <1>1, <1>2, <1>3, <1>5
<1>8. (Ptr(b) + o) \div A = E /\ (Ptr(b) + o) % A = word
  <2> HIDE DEF word
  <2>1. QED
    BY <1>2, <1>3, <1>6, <1>7, Remainder
<1>9. word % Whole = word - b
  <2> DEFINE a == word - b
  <2>1. a \in 0 .. Whole - 1 /\ word = b + a
    BY <1>6
  <2> HIDE DEF a, word
  <2>2. (b + a) % Whole = a
    BY <1>1, <1>2, <1>4, <2>1, RemainderOfMultiple
  <2>3. QED
    BY <2>1, <2>2 DEF a
<1>10. Accounts!get_opaque_ptr_word(Ptr(b) + o) = word
  BY <1>8 DEF Accounts!get_opaque_ptr_word, A
<1>11. Accounts!get_opaque_ptr_seg(Ptr(b) + o) = word - (word % Whole)
  <2> HIDE DEF word
  <2>1. QED
    BY <1>2, <1>8, <1>10 DEF Accounts!get_opaque_ptr_seg, A
<1>12. Accounts!get_opaque_ptr_seg(Ptr(b) + o) = b
  BY <1>1, <1>6, <1>9, <1>11
<1>13. Accounts!get_opaque_ptr_word_offset(Ptr(b) + o, Size) = o
  <2>1. word - r = o
    BY <1>1
  <2> HIDE DEF word
  <2>2. QED
    BY <1>10, <1>12, <2>1 DEF Accounts!get_opaque_ptr_word_offset, r
<1>14. Ptr(b) \in Nat /\ Ptr(b) # 0
  BY <1>1, <1>5, <1>7
<1>15. QED
  BY <1>12, <1>13, <1>14

-----------------------------------------------------------------------------
(* Words of the shared memory.                                              *)

Offsets == Accounts!Offsets
Memory == [Blocks -> [Offsets -> Int]]
Aligned(b) == Accounts!Aligned(b, Size)
AccountAt(i) == 24 + 8 * i

(* The fields of a segment are words of its own.                            *)
LEMMA Words ==
  /\ 0 \in Offsets /\ 8 \in Offsets /\ 16 \in Offsets
  /\ \A i \in 0 .. nbaccounts - 1 : AccountAt(i) \in Offsets
  /\ \A o \in Offsets : o \in Nat /\ o < Size
<1>1. Offsets = {8 * i : i \in 0 .. nbaccounts + 2}
  <2>1. Size \div 8 - 1 = nbaccounts + 2
    BY Sizes, BankAssumption
  <2>2. QED
    BY <2>1 DEF Offsets, Accounts!Offsets, Accounts!Word, Size
<1>2. nbaccounts \in Nat \ {0}
  BY BankAssumption
<1>3. 8 * 0 \in Offsets /\ 8 * 1 \in Offsets /\ 8 * 2 \in Offsets
  BY <1>1, <1>2
<1>4. \A i \in 0 .. nbaccounts - 1 : AccountAt(i) \in Offsets
  <2> TAKE i \in 0 .. nbaccounts - 1
  <2>1. i + 3 \in 0 .. nbaccounts + 2 /\ AccountAt(i) = 8 * (i + 3)
    BY <1>2 DEF AccountAt
  <2>2. QED
    BY <1>1, <2>1
<1>5. QED
  BY <1>3, <1>4, Sizes DEF Offsets

(* The addresses of the fields of an AccountSegment.                        *)
LEMMA Fields ==
  ASSUME NEW s \in Nat
  PROVE  /\ Accounts!count_of(s) = s + 0
         /\ Accounts!next_of(s) = s + 8
         /\ Accounts!parity_of(s) = s + 16
         /\ \A i \in Int : Accounts!account_of(s, i) = s + AccountAt(i)
BY DEF Accounts!count_of, Accounts!next_of, Accounts!parity_of, Accounts!account_of, Accounts!after,
       Accounts!Word, AccountAt

(* Opaque pointers are numbers, and not null.                               *)
LEMMA PtrType ==
  ASSUME NEW b \in Blocks, Aligned(b)
  PROVE  Ptr(b) \in Nat /\ Ptr(b) # 0
BY PointerLeadsBack, Sizes, BankAssumption DEF Aligned

(* What is read and written at a word of an aligned block.                  *)
LEMMA ReadWord ==
  ASSUME NEW m, NEW b \in Blocks, Aligned(b), NEW o \in Offsets
  PROVE  Accounts!Read(m, Ptr(b) + o) = m[b][o]
<1>1. /\ Accounts!get_opaque_ptr_seg(Ptr(b) + o) = b
      /\ Accounts!get_opaque_ptr_word_offset(Ptr(b) + o, Size) = o
  BY PointerLeadsBack, Words DEF Aligned
<1>2. QED
  BY <1>1 DEF Accounts!Read, Accounts!Leads, Size, Offsets

(* Shared::write at a pointer changes that word.                            *)
LEMMA WriteWord ==
  ASSUME NEW m \in Memory, NEW b \in Blocks, Aligned(b), NEW o \in Offsets, NEW v
  PROVE  Accounts!Write(m, Ptr(b) + o, v) = [m EXCEPT ![b] = [m[b] EXCEPT ![o] = v]]
<1>1. /\ Accounts!get_opaque_ptr_seg(Ptr(b) + o) = b
      /\ Accounts!get_opaque_ptr_word_offset(Ptr(b) + o, Size) = o
  BY PointerLeadsBack, Words DEF Aligned
<1>2. QED
  BY <1>1 DEF Accounts!Write, Accounts!Leads, Size, Offsets

(* m with another value in one word, which is what Write makes of it.       *)
Put(m, b, o, v) == [m EXCEPT ![b] = [m[b] EXCEPT ![o] = v]]

(* No other word of the block changes, and no other block.                  *)
LEMMA PutWord ==
  ASSUME NEW m \in Memory, NEW b \in Blocks, NEW o \in Offsets, NEW v \in Int
  PROVE  /\ Put(m, b, o, v) \in Memory
         /\ Put(m, b, o, v)[b][o] = v
         /\ \A p \in Offsets : p # o => Put(m, b, o, v)[b][p] = m[b][p]
         /\ \A d \in Blocks : d # b => Put(m, b, o, v)[d] = m[d]
BY DEF Put, Memory

(* Shared::read of the fields of a segment ...                              *)
LEMMA ReadFields ==
  ASSUME NEW m, NEW b \in Blocks, Aligned(b)
  PROVE  /\ Accounts!Read(m, Accounts!count_of(Ptr(b))) = m[b][0]
         /\ Accounts!Read(m, Accounts!next_of(Ptr(b))) = m[b][8]
         /\ Accounts!Read(m, Accounts!parity_of(Ptr(b))) = m[b][16]
         /\ \A i \in 0 .. nbaccounts - 1 :
              Accounts!Read(m, Accounts!account_of(Ptr(b), i)) = m[b][AccountAt(i)]
<1>1. Ptr(b) \in Nat
  BY PtrType
<1>2. \A o \in Offsets : Accounts!Read(m, Ptr(b) + o) = m[b][o]
  BY ReadWord
<1>3. \A i \in 0 .. nbaccounts - 1 : i \in Int
  BY BankAssumption
<1>4. QED
  BY <1>1, <1>2, <1>3, Words, Fields

(* ... and Shared::write of them.                                           *)
LEMMA WriteFields ==
  ASSUME NEW m \in Memory, NEW b \in Blocks, Aligned(b), NEW v
  PROVE  /\ Accounts!Write(m, Accounts!count_of(Ptr(b)), v) = Put(m, b, 0, v)
         /\ Accounts!Write(m, Accounts!next_of(Ptr(b)), v) = Put(m, b, 8, v)
         /\ Accounts!Write(m, Accounts!parity_of(Ptr(b)), v) = Put(m, b, 16, v)
         /\ \A i \in 0 .. nbaccounts - 1 :
              Accounts!Write(m, Accounts!account_of(Ptr(b), i), v) = Put(m, b, AccountAt(i), v)
<1>1. Ptr(b) \in Nat
  BY PtrType
<1>2. \A o \in Offsets : Accounts!Write(m, Ptr(b) + o, v) = Put(m, b, o, v)
  BY WriteWord DEF Put
<1>3. \A i \in 0 .. nbaccounts - 1 : i \in Int
  BY BankAssumption
<1>4. QED
  BY <1>1, <1>2, <1>3, Words, Fields

-----------------------------------------------------------------------------
(* The chain of segments.                                                   *)

(* The chain c of blocks: the words of memory m lead from each to the next. *)
Chained(c, m) ==
  /\ c \in Seq(Blocks) /\ c # <<>> /\ c[1] = Start
  /\ \A i, j \in DOMAIN c : c[i] = c[j] => i = j
  /\ \A k \in DOMAIN c : Aligned(c[k])
  /\ \A k \in DOMAIN c : m[c[k]][8] = IF k < Len(c) THEN Ptr(c[k + 1]) ELSE 0

Ptrs(c, n) == [k \in 1 .. n |-> Ptr(c[k])]

(* The chain is not longer than there are blocks.                           *)
LEMMA ChainFits ==
  ASSUME NEW c, NEW m, Chained(c, m)
  PROVE  /\ Len(c) \in 1 .. Cardinality(Blocks) /\ Cardinality(Blocks) \in Nat
         /\ Len(c) \in Nat \ {0} /\ DOMAIN c = 1 .. Len(c)
         /\ \A k \in 1 .. Len(c) : c[k] \in Blocks /\ Ptr(c[k]) \in Nat /\ Ptr(c[k]) # 0
<1>1. c \in Seq(Blocks) /\ c # <<>> /\ IsFiniteSet(Blocks)
  BY BankAssumption DEF Chained
<1> DEFINE n == Len(c)
<1>2. n \in Nat \ {0} /\ c \in [1 .. n -> Blocks] /\ DOMAIN c = 1 .. n
  BY <1>1, LenProperties, EmptySeq
<1>3. c \in Injection(1 .. n, Blocks)
  BY <1>2 DEF Injection, IsInjective, Chained
<1>4. Cardinality(1 .. n) = n
  <2> HIDE DEF n
  <2>1. QED
    BY <1>2, FS_Interval
<1>5. n <= Cardinality(Blocks) /\ Cardinality(Blocks) \in Nat
  BY <1>1, <1>3, <1>4, FS_Injection, FS_CardinalityType
<1>6. \A k \in 1 .. n : c[k] \in Blocks /\ Ptr(c[k]) \in Nat /\ Ptr(c[k]) # 0
  <2> TAKE k \in 1 .. n
  <2>1. c[k] \in Blocks /\ Aligned(c[k])
    BY <1>2 DEF Chained
  <2>2. QED
    BY <2>1, PtrType
<1>7. QED
  BY <1>2, <1>5, <1>6

(* A walk that has come to a block goes on to the next.                     *)
LEMMA ChainStep ==
  ASSUME NEW c, NEW m, Chained(c, m), NEW k \in 1 .. Len(c)
  PROVE  /\ Accounts!Last(Ptrs(c, k)) = Ptr(c[k])
         /\ Accounts!Read(m, Accounts!next_of(Accounts!Last(Ptrs(c, k)))) =
              IF k < Len(c) THEN Ptr(c[k + 1]) ELSE 0
         /\ k < Len(c) => Append(Ptrs(c, k), Ptr(c[k + 1])) = Ptrs(c, k + 1)
<1>1. k \in Nat \ {0} /\ Len(c) \in Nat /\ DOMAIN c = 1 .. Len(c)
      /\ \A j \in 1 .. Len(c) : c[j] \in Blocks /\ Ptr(c[j]) \in Nat
  BY ChainFits
<1>2. Ptrs(c, k) \in [1 .. k -> Nat]
  BY <1>1 DEF Ptrs
<1>3. Ptrs(c, k) \in Seq(Nat) /\ Len(Ptrs(c, k)) = k
  BY <1>1, <1>2
<1>4. Accounts!Last(Ptrs(c, k)) = Ptr(c[k])
  BY <1>1, <1>3 DEF Accounts!Last, Ptrs
<1>5. Accounts!Read(m, Accounts!next_of(Ptr(c[k]))) = m[c[k]][8]
  <2>1. c[k] \in Blocks /\ Aligned(c[k])
    BY <1>1 DEF Chained
  <2>2. QED
    BY <2>1, ReadFields
<1>6. ASSUME k < Len(c) PROVE Append(Ptrs(c, k), Ptr(c[k + 1])) = Ptrs(c, k + 1)
  <2>1. k + 1 \in 1 .. Len(c) /\ Ptr(c[k + 1]) \in Nat
    BY <1>1, <1>6
  <2>2. Ptrs(c, k + 1) \in [1 .. k + 1 -> Nat]
    BY <1>1, <2>1 DEF Ptrs
  <2> DEFINE s == Append(Ptrs(c, k), Ptr(c[k + 1]))
             t == Ptrs(c, k + 1)
  <2>3. t \in Seq(Nat) /\ Len(t) = k + 1
    BY <1>1, <2>2
  <2>4. /\ s \in Seq(Nat) /\ Len(s) = k + 1
        /\ \A j \in 1 .. k : s[j] = Ptrs(c, k)[j]
        /\ s[k + 1] = Ptr(c[k + 1])
    BY <1>3, <2>1, AppendProperties
  <2>5. \A j \in 1 .. k + 1 : s[j] = t[j]
    <3> TAKE j \in 1 .. k + 1
    <3>1. t[j] = Ptr(c[j])
      BY DEF Ptrs
    <3>2. CASE j = k + 1
      BY <2>4, <3>1, <3>2
    <3>3. CASE j # k + 1
      <4>1. j \in 1 .. k
        BY <1>1, <3>3
      <4>2. QED
        BY <2>4, <3>1, <4>1 DEF Ptrs
    <3>4. QED
      BY <3>2, <3>3
  <2> HIDE DEF s, t
  <2>6. s = t
    BY <2>3, <2>4, <2>5, SeqEqual
  <2>7. QED
    BY <2>6 DEF s, t
<1>7. QED
  BY <1>1, <1>4, <1>5, <1>6 DEF Chained

(* The segments that all walks meet are those of the chain.                 *)
LEMMA ChainOf ==
  ASSUME NEW c, NEW m, Chained(c, m)
  PROVE  Accounts!Chain(m) = Ptrs(c, Len(c))
<1> DEFINE N == Cardinality(Blocks)
           n == Len(c)
           least(k) == IF k < n THEN k ELSE n
           On(s) == LET next == Accounts!Read(m, Accounts!next_of(Accounts!Last(s)))
                    IN IF next = 0 THEN s ELSE Append(s, next)
           G(f) == [k \in 1 .. N |-> IF k = 1 THEN <<Accounts!start>> ELSE On(f[k - 1])]
           W == CHOOSE f : f = G(f)
           h == [k \in 1 .. N |-> Ptrs(c, least(k))]
<1>1. Accounts!Chain(m) = W[N]
  <2>1. Accounts!Cardinality(Blocks) = Cardinality(Blocks)
    BY DEF Accounts!Cardinality, Cardinality
  <2>2. QED
    BY <2>1 DEF Accounts!Chain, Accounts!nullptr
<1>2. n \in Nat \ {0} /\ N \in Nat /\ n <= N
  <2>1. N \in Nat /\ n \in Nat \ {0} /\ n \in 1 .. N
    BY ChainFits
  <2> HIDE DEF n, N
  <2>2. QED
    BY <2>1
<1>3. Ptrs(c, least(1)) = <<Accounts!start>>
  <2>1. least(1) = 1
    BY <1>2
  <2>2. Accounts!start = Ptr(c[1])
    BY DEF Chained, Accounts!start, Ptr, Size
  <2>3. QED
    BY <2>1, <2>2 DEF Ptrs
<1>4. ASSUME NEW k \in 1 .. N, k # 1
      PROVE  On(Ptrs(c, least(k - 1))) = Ptrs(c, least(k))
  <2> DEFINE j == least(k - 1)
  <2>1. j \in 1 .. n /\ k \in Nat
    BY <1>2, <1>4
  <2>2. /\ Accounts!Read(m, Accounts!next_of(Accounts!Last(Ptrs(c, j)))) =
             IF j < Len(c) THEN Ptr(c[j + 1]) ELSE 0
        /\ j < Len(c) => Append(Ptrs(c, j), Ptr(c[j + 1])) = Ptrs(c, j + 1)
    <3> HIDE DEF least
    <3>1. QED
      BY <2>1, ChainStep
  <2>3. CASE k - 1 < n
    <3>1. j = k - 1 /\ j < n /\ j + 1 = k /\ j + 1 = least(k) /\ j + 1 \in 1 .. n
      BY <1>2, <2>1, <2>3
    <3> HIDE DEF j, least
    <3>2. Ptr(c[j + 1]) # 0
      BY <3>1, ChainFits
    <3>3. On(Ptrs(c, j)) = Ptrs(c, j + 1)
      BY <2>2, <3>1, <3>2
    <3>4. QED
      BY <3>1, <3>3 DEF j
  <2>4. CASE ~ (k - 1 < n)
    <3>1. j = n /\ least(k) = n
      BY <1>2, <2>1, <2>4
    <3> HIDE DEF j, least
    <3>2. On(Ptrs(c, j)) = Ptrs(c, j)
      BY <1>2, <2>2, <3>1
    <3>3. QED
      BY <3>1, <3>2 DEF j
  <2>5. QED
    BY <2>3, <2>4
<1> HIDE DEF On, least
<1>5. h = G(h)
  <2>1. \A k \in 1 .. N : Ptrs(c, least(k)) = IF k = 1 THEN <<Accounts!start>> ELSE On(h[k - 1])
    <3> TAKE k \in 1 .. N
    <3>1. CASE k = 1
      BY <1>3, <3>1
    <3>2. CASE k # 1
      <4>1. k - 1 \in 1 .. N
        BY <1>2, <3>2
      <4>2. QED
        BY <1>4, <3>2, <4>1
    <3>3. QED
      BY <3>1, <3>2
  <2>2. QED
    BY <2>1
<1>6. W = G(W)
  <2> HIDE DEF h, G
  <2>1. QED
    BY <1>5
<1> HIDE DEF W
<1> DEFINE S == {k \in Nat : k + 1 <= N => W[k + 1] = Ptrs(c, least(k + 1))}
<1>7. 0 \in S
  BY <1>2, <1>3, <1>6
<1>8. ASSUME NEW k \in Nat, k \in S PROVE k + 1 \in S
  <2>1. SUFFICES ASSUME (k + 1) + 1 <= N PROVE W[(k + 1) + 1] = Ptrs(c, least((k + 1) + 1))
    OBVIOUS
  <2> DEFINE i == (k + 1) + 1
  <2>2. i \in 1 .. N /\ i # 1 /\ i - 1 = k + 1 /\ k + 1 <= N
    BY <1>2, <2>1
  <2>3. W[i - 1] = Ptrs(c, least(i - 1))
    BY <1>8, <2>2
  <2> HIDE DEF i
  <2>4. W[i] = On(W[i - 1])
    BY <1>6, <2>2
  <2>5. W[i] = Ptrs(c, least(i))
    BY <1>4, <2>2, <2>3, <2>4
  <2>6. QED
    BY <2>5 DEF i
<1> HIDE DEF S
<1>9. Nat \subseteq S
  BY <1>7, <1>8, SetInduction
<1>10. N - 1 \in S /\ (N - 1) + 1 = N
  BY <1>2, <1>9
<1>11. W[N] = Ptrs(c, least(N))
  BY <1>2, <1>10 DEF S
<1>12. least(N) = n
  BY <1>2 DEF least
<1>13. QED
  BY <1>1, <1>11, <1>12

(* What the words of a block say of the accounts of a segment.              *)
SegmentIn(m, b) ==
  [parity |-> m[b][16], balances |-> [i \in 1 .. m[b][0] |-> m[b][AccountAt(i - 1)]]]

BankOf(c, m) == [k \in DOMAIN c |-> SegmentIn(m, c[k])]

(* No segment of the chain is without accounts, or has too many.            *)
Held(c, m) ==
  /\ m \in Memory
  /\ \A k \in DOMAIN c : m[c[k]][0] \in 1 .. nbaccounts

(* AccountSegment reads the segment that the words say.                     *)
LEMMA SegmentRead ==
  ASSUME NEW m \in Memory, NEW b \in Blocks, Aligned(b), m[b][0] \in 1 .. nbaccounts
  PROVE  /\ Accounts!AccountSegment(m, Ptr(b)) = SegmentIn(m, b)
         /\ SegmentIn(m, b) \in Segment
         /\ Len(SegmentIn(m, b).balances) = m[b][0]
         /\ DOMAIN SegmentIn(m, b).balances = 1 .. m[b][0]
         /\ \A i \in 1 .. m[b][0] : SegmentIn(m, b).balances[i] = m[b][AccountAt(i - 1)]
<1> DEFINE c == m[b][0]
           t == [i \in 1 .. c |-> m[b][AccountAt(i - 1)]]
<1>1. c \in Nat /\ \A i \in 1 .. c : i - 1 \in 0 .. nbaccounts - 1
  <2>1. c \in 1 .. nbaccounts /\ nbaccounts \in Nat
    BY BankAssumption
  <2> HIDE DEF c
  <2>2. QED
    BY <2>1
<1>2. \A i \in 1 .. c : Accounts!Read(m, Accounts!account_of(Ptr(b), i - 1)) = m[b][AccountAt(i - 1)]
  BY <1>1, ReadFields
<1>3. Accounts!AccountSegment(m, Ptr(b)) = SegmentIn(m, b)
  BY <1>2, ReadFields DEF Accounts!AccountSegment, SegmentIn
<1>4. \A i \in 1 .. c : m[b][AccountAt(i - 1)] \in Int
  BY <1>1, Words DEF Memory
<1>5. t \in Seq(Int) /\ Len(t) = c /\ DOMAIN t = 1 .. c
  <2> HIDE DEF c
  <2>1. t \in [1 .. c -> Int]
    BY <1>4
  <2>2. QED
    BY <1>1, <2>1
<1>6. m[b][16] \in Int
  BY Words DEF Memory
<1>7. SegmentIn(m, b).balances = t /\ SegmentIn(m, b).parity = m[b][16]
  BY DEF SegmentIn
<1>8. SegmentIn(m, b) = [parity |-> m[b][16], balances |-> t]
  BY DEF SegmentIn
<1>9. SegmentIn(m, b) \in Segment
  <2> HIDE DEF t
  <2>1. QED
    BY <1>5, <1>6, <1>8 DEF Segment
<1>10. QED
  BY <1>3, <1>5, <1>7, <1>9

(* AccountsIn reads the bank along the chain.                               *)
LEMMA BankIn ==
  ASSUME NEW c, NEW m, Chained(c, m), Held(c, m)
  PROVE  /\ Accounts!AccountsIn(m) = BankOf(c, m)
         /\ BankOf(c, m) \in Seq(Segment) /\ Len(BankOf(c, m)) = Len(c)
         /\ DOMAIN BankOf(c, m) = 1 .. Len(c)
         /\ \A k \in 1 .. Len(c) :
              /\ BankOf(c, m)[k] = SegmentIn(m, c[k])
              /\ Len(BankOf(c, m)[k].balances) = m[c[k]][0]
<1> DEFINE n == Len(c)
           p == Ptrs(c, n)
<1>1. n \in Nat \ {0} /\ DOMAIN c = 1 .. n /\ \A k \in 1 .. n : c[k] \in Blocks
  BY ChainFits
<1>2. Accounts!Chain(m) = p
  BY ChainOf
<1>3. DOMAIN p = 1 .. n /\ \A k \in 1 .. n : p[k] = Ptr(c[k])
  BY DEF Ptrs
<1>4. \A k \in 1 .. n : /\ Accounts!AccountSegment(m, Ptr(c[k])) = SegmentIn(m, c[k])
                        /\ SegmentIn(m, c[k]) \in Segment
                        /\ Len(SegmentIn(m, c[k]).balances) = m[c[k]][0]
  <2> TAKE k \in 1 .. n
  <2>1. c[k] \in Blocks /\ Aligned(c[k]) /\ m \in Memory /\ m[c[k]][0] \in 1 .. nbaccounts
    BY <1>1 DEF Chained, Held
  <2>2. QED
    BY <2>1, SegmentRead
<1> HIDE DEF p, n
<1>5. Accounts!AccountsIn(m) = [k \in 1 .. n |-> SegmentIn(m, c[k])]
  <2>1. Accounts!AccountsIn(m) = [k \in DOMAIN p |-> Accounts!AccountSegment(m, p[k])]
    BY <1>2 DEF Accounts!AccountsIn
  <2>2. QED
    BY <1>3, <1>4, <2>1
<1>6. BankOf(c, m) = [k \in 1 .. n |-> SegmentIn(m, c[k])]
  BY <1>1 DEF BankOf
<1>7. BankOf(c, m) \in [1 .. n -> Segment]
  BY <1>4, <1>6
<1>8. BankOf(c, m) \in Seq(Segment) /\ Len(BankOf(c, m)) = n /\ DOMAIN BankOf(c, m) = 1 .. n
  BY <1>1, <1>7
<1>9. QED
  BY <1>4, <1>5, <1>6, <1>8 DEF n

(* Words written in one block ...                                           *)
OnlyAt(c, k, m, q) == \A j \in DOMAIN c : j # k => q[c[j]] = m[c[j]]

(* ... change what the bank has in one segment.                             *)
LEMMA OneSegment ==
  ASSUME NEW c, NEW m, NEW q, NEW k \in DOMAIN c, OnlyAt(c, k, m, q)
  PROVE  BankOf(c, q) = [BankOf(c, m) EXCEPT ![k] = SegmentIn(q, c[k])]
<1>1. \A j \in DOMAIN c : j # k => SegmentIn(q, c[j]) = SegmentIn(m, c[j])
  BY DEF SegmentIn, OnlyAt
<1> HIDE DEF SegmentIn
<1>2. QED
  BY <1>1 DEF BankOf

(* The chain and its segments, as the words, the blocks and the bank say.   *)
Reads(c) ==
  /\ Chained(c, mem) /\ Held(c, mem)
  /\ live = {c[k] : k \in DOMAIN c}
  /\ \A b, d \in live : b # d => Accounts!Apart(b, d, Size)
  /\ bank = BankOf(c, mem)

-----------------------------------------------------------------------------
(* alloc_tx and short_tx, on the words.                                     *)

(* What the transactions find at the end of the chain.                      *)
LEMMA EndOf ==
  ASSUME NEW c, Reads(c)
  PROVE  LET n == Len(c) b == c[n] IN
         /\ n \in Nat \ {0} /\ DOMAIN c = 1 .. n /\ Len(bank) = n /\ DOMAIN bank = 1 .. n
         /\ bank \in Seq(Segment) /\ bank # <<>> /\ mem \in Memory
         /\ b \in Blocks /\ b \in live /\ Aligned(b)
         /\ Accounts!Last(Accounts!Chain(mem)) = Ptr(b)
         /\ Accounts!Read(mem, Accounts!count_of(Ptr(b))) = mem[b][0]
         /\ mem[b][0] \in 1 .. nbaccounts /\ mem[b][0] \in Nat
         /\ Last(bank) = bank[n] /\ bank[n] = SegmentIn(mem, b)
         /\ Len(bank[n].balances) = mem[b][0]
<1> DEFINE n == Len(c)
           b == c[n]
<1>1. Chained(c, mem) /\ Held(c, mem) /\ live = {c[k] : k \in DOMAIN c} /\ bank = BankOf(c, mem)
  BY DEF Reads
<1>2. n \in Nat \ {0} /\ DOMAIN c = 1 .. n /\ n \in 1 .. n /\ b \in Blocks
  BY <1>1, ChainFits
<1>3. /\ Len(bank) = n /\ bank \in Seq(Segment) /\ DOMAIN bank = 1 .. n
      /\ bank[n] = SegmentIn(mem, b) /\ Len(bank[n].balances) = mem[b][0]
  BY <1>1, <1>2, BankIn
<1>4. Aligned(b) /\ mem[b][0] \in 1 .. nbaccounts /\ mem \in Memory /\ b \in live
  BY <1>1, <1>2 DEF Chained, Held
<1>5. Accounts!Last(Accounts!Chain(mem)) = Ptr(b)
  BY <1>1, <1>2, ChainOf, ChainStep
<1>6. Accounts!Read(mem, Accounts!count_of(Ptr(b))) = mem[b][0]
  BY <1>2, <1>4, ReadFields
<1>7. bank # <<>> /\ Last(bank) = bank[n]
  BY <1>2, <1>3 DEF Last
<1>8. mem[b][0] \in Nat
  BY <1>4, BankAssumption
<1> HIDE DEF n, b
<1>9. QED
  BY <1>2, <1>3, <1>4, <1>5, <1>6, <1>7, <1>8 DEF n, b

(* Other words in the blocks of the chain, but the same pointers and other  *)
(* numbers of accounts.                                                     *)
LEMMA ChainStays ==
  ASSUME NEW c, NEW m, NEW q, Chained(c, m), q \in Memory,
         \A k \in DOMAIN c : q[c[k]][8] = m[c[k]][8] /\ q[c[k]][0] \in 1 .. nbaccounts
  PROVE  Chained(c, q) /\ Held(c, q)
BY DEF Chained, Held

(* m with other values in two words of a block.                             *)
Wrote(q, m, b, o, v, p, w) ==
  /\ q \in Memory /\ q[b][o] = v /\ q[b][p] = w
  /\ \A r \in Offsets : r # o /\ r # p => q[b][r] = m[b][r]
  /\ \A d \in Blocks : d # b => q[d] = m[d]

(* Two words are written one after the other.                               *)
LEMMA WroteTwo ==
  ASSUME NEW m \in Memory, NEW b \in Blocks, NEW o \in Offsets, NEW p \in Offsets, o # p,
         NEW v \in Int, NEW w \in Int
  PROVE  Wrote(Put(Put(m, b, o, v), b, p, w), m, b, o, v, p, w)
<1> DEFINE z == Put(m, b, o, v)
           q == Put(z, b, p, w)
<1>1. /\ z \in Memory /\ z[b][o] = v
      /\ \A r \in Offsets : r # o => z[b][r] = m[b][r]
      /\ \A d \in Blocks : d # b => z[d] = m[d]
  BY PutWord
<1> HIDE DEF z
<1>2. /\ q \in Memory /\ q[b][p] = w
      /\ \A r \in Offsets : r # p => q[b][r] = z[b][r]
      /\ \A d \in Blocks : d # b => q[d] = z[d]
  BY <1>1, PutWord
<1> HIDE DEF q
<1>3. Wrote(q, m, b, o, v, p, w)
  BY <1>1, <1>2 DEF Wrote
<1>4. QED
  BY <1>3 DEF q, z

(* The offsets of accounts and of the other fields differ.                  *)
LEMMA AccountOffsets ==
  \A i \in 0 .. nbaccounts - 1 :
    /\ AccountAt(i) \in Offsets /\ AccountAt(i) # 0 /\ AccountAt(i) # 8 /\ AccountAt(i) # 16
    /\ \A j \in 0 .. nbaccounts - 1 : i # j => AccountAt(i) # AccountAt(j)
BY Words, BankAssumption DEF AccountAt

(* AddAccount adds an account to the last segment of the bank.              *)
LEMMA AddAccountStep ==
  ASSUME NEW c, Reads(c), Accounts!AddAccount(Ptr(c[Len(c)]), mem[c[Len(c)]][0]),
         bank' = Accounts!AccountsIn(mem')
  PROVE  Reads(c)' /\ bank' = Accounts!Bank!Allocated
<1> DEFINE n == Len(c)
           b == c[n]
           a == mem[b][0]
           q == mem'
           s == bank[n]
           x == SegmentIn(q, b)
<1>1. /\ n \in Nat \ {0} /\ DOMAIN c = 1 .. n /\ Len(bank) = n /\ DOMAIN bank = 1 .. n
      /\ mem \in Memory /\ b \in Blocks /\ Aligned(b)
      /\ a \in 1 .. nbaccounts /\ a \in Nat
      /\ Last(bank) = s /\ s = SegmentIn(mem, b) /\ Len(s.balances) = a
  BY EndOf
<1>2. /\ Chained(c, mem) /\ Held(c, mem) /\ bank = BankOf(c, mem)
      /\ \A k \in DOMAIN c : c[k] \in Blocks
      /\ \A i, j \in DOMAIN c : c[i] = c[j] => i = j
  BY <1>1, ChainFits DEF Reads, Chained
<1>3. a < nbaccounts /\ UNCHANGED live /\ init_balance \in Int /\ nbaccounts \in Nat
      /\ a \in 0 .. nbaccounts - 1
  BY <1>1, BankAssumption DEF Accounts!AddAccount
<1> HIDE DEF a, n, b
<1>4. Wrote(q, mem, b, AccountAt(a), init_balance, 0, a + 1)
  <2> DEFINE z == Put(mem, b, AccountAt(a), init_balance)
  <2>1. Accounts!Write(mem, Accounts!account_of(Ptr(b), a), init_balance) = z
    BY <1>1, <1>3, WriteFields
  <2>2. AccountAt(a) \in Offsets /\ AccountAt(a) # 0 /\ 0 \in Offsets
    BY <1>3, AccountOffsets, Words
  <2>3. z \in Memory
    BY <1>1, <1>3, <2>2, PutWord
  <2> HIDE DEF z
  <2>4. Accounts!Write(z, Accounts!count_of(Ptr(b)), a + 1) = Put(z, b, 0, a + 1)
    BY <1>1, <2>3, WriteFields
  <2>5. q = Put(z, b, 0, a + 1)
    BY <2>1, <2>4 DEF Accounts!AddAccount, a, b, n
  <2>6. a + 1 \in Int
    BY <1>1
  <2>7. Wrote(Put(Put(mem, b, AccountAt(a), init_balance), b, 0, a + 1),
              mem, b, AccountAt(a), init_balance, 0, a + 1)
    BY <1>1, <1>3, <2>2, <2>6, WroteTwo
  <2>8. QED
    BY <2>5, <2>7 DEF z
<1> HIDE DEF q
<1>5. q \in Memory /\ q[b][0] = a + 1 /\ \A d \in Blocks : d # b => q[d] = mem[d]
  BY <1>4 DEF Wrote
<1>8. /\ q[b][8] = mem[b][8] /\ q[b][16] = mem[b][16]
      /\ q[b][AccountAt(a)] = init_balance
      /\ \A i \in 0 .. nbaccounts - 1 : i # a => q[b][AccountAt(i)] = mem[b][AccountAt(i)]
  BY <1>3, <1>4, AccountOffsets, Words DEF Wrote
<1>9. \A k \in DOMAIN c : k # n => q[c[k]] = mem[c[k]]
  BY <1>1, <1>2, <1>5 DEF b
<1>10. Chained(c, q) /\ Held(c, q)
  <2>1. ASSUME NEW k \in DOMAIN c
        PROVE  q[c[k]][8] = mem[c[k]][8] /\ q[c[k]][0] \in 1 .. nbaccounts
    <3>1. CASE k = n
      <4>1. a + 1 \in 1 .. nbaccounts
        BY <1>1, <1>3
      <4>2. QED
        BY <1>5, <1>8, <3>1, <4>1 DEF b
    <3>2. CASE k # n
      BY <1>2, <1>9, <3>2 DEF Held
    <3>3. QED
      BY <3>1, <3>2
  <2>2. QED
    BY <1>2, <1>5, <2>1, ChainStays
<1>11. BankOf(c, q) = [bank EXCEPT ![n] = x]
  <2>1. n \in DOMAIN c
    BY <1>1
  <2>2. BankOf(c, q) = [BankOf(c, mem) EXCEPT ![n] = SegmentIn(q, c[n])]
    <3>1. OnlyAt(c, n, mem, q)
      BY <1>9 DEF OnlyAt
    <3>2. QED
      BY <2>1, <3>1, OneSegment
  <2>3. QED
    BY <1>2, <2>2 DEF b
<1>12. bank' = BankOf(c, q)
  BY <1>10, BankIn DEF q
<1>13. Reads(c)'
  BY <1>3, <1>10, <1>12 DEF Reads, q
<1>14. x = [s EXCEPT !.balances = Append(s.balances, init_balance)]
  <2> DEFINE t == s.balances
             v == x.balances
             y == Append(t, init_balance)
  <2>1. /\ s \in Segment /\ t \in Seq(Int) /\ Len(t) = a /\ DOMAIN t = 1 .. a
        /\ \A i \in 1 .. a : t[i] = mem[b][AccountAt(i - 1)]
    BY <1>1, SegmentRead, SegmentTypes DEF a
  <2>2. /\ x \in Segment /\ v \in Seq(Int) /\ Len(v) = a + 1
        /\ \A i \in 1 .. a + 1 : v[i] = q[b][AccountAt(i - 1)]
    <3>1. q[b][0] \in 1 .. nbaccounts
      BY <1>1, <1>3, <1>5
    <3>2. /\ x \in Segment /\ Len(v) = q[b][0]
          /\ \A i \in 1 .. q[b][0] : v[i] = q[b][AccountAt(i - 1)]
      BY <1>1, <1>5, <3>1, SegmentRead
    <3>3. QED
      BY <1>5, <3>2, SegmentTypes
  <2>3. x.parity = s.parity
    BY <1>1, <1>8 DEF SegmentIn
  <2> HIDE DEF s, x, t, v
  <2>4. y \in Seq(Int) /\ Len(y) = a + 1 /\ y[a + 1] = init_balance /\ \A i \in 1 .. a : y[i] = t[i]
    BY <1>3, <2>1, AppendProperties
  <2>5. \A i \in 1 .. a + 1 : v[i] = y[i]
    <3> TAKE i \in 1 .. a + 1
    <3>1. CASE i = a + 1
      <4>1. (a + 1) - 1 = a
        BY <1>1
      <4>2. QED
        BY <1>8, <2>2, <2>4, <3>1, <4>1
    <3>2. CASE i # a + 1
      <4>1. i \in 1 .. a /\ i - 1 \in 0 .. nbaccounts - 1 /\ i - 1 # a
        BY <1>1, <1>3, <3>2
      <4>2. QED
        BY <1>8, <2>1, <2>2, <2>4, <4>1
    <3>3. QED
      BY <3>1, <3>2
  <2> HIDE DEF y
  <2>6. v = y
    BY <2>2, <2>4, <2>5, SeqEqual
  <2>7. QED
    BY <2>1, <2>2, <2>3, <2>6 DEF v, t, y, Segment
<1>15. Accounts!Bank!Allocated = [bank EXCEPT ![n] = x]
  <2>1. Accounts!Bank!Last(bank) = s /\ Len(bank) = n
    BY <1>1, SameHelpers
  <2>2. Accounts!Bank!Allocated = [bank EXCEPT ![n].balances = Append(@, init_balance)]
    BY <1>1, <1>3, <2>1 DEF Accounts!Bank!Allocated
  <2> HIDE DEF x
  <2>3. [bank EXCEPT ![n].balances = Append(@, init_balance)] = [bank EXCEPT ![n] = x]
    BY <1>1, <1>14
  <2>4. QED
    BY <2>2, <2>3
<1>16. QED
  BY <1>11, <1>12, <1>13, <1>15

(* Facts of both steps that take the last account of the chain away: c has  *)
(* a accounts in the last block b.                                          *)
LEMMA TakenAccount ==
  ASSUME NEW m \in Memory, NEW b \in Blocks, Aligned(b), m[b][0] \in 1 .. nbaccounts
  PROVE  LET a == m[b][0] IN
         /\ a \in Nat /\ a - 1 \in 0 .. nbaccounts - 1
         /\ Accounts!Read(m, Accounts!parity_of(Ptr(b)))
              + Accounts!Read(m, Accounts!account_of(Ptr(b), a - 1)) - init_balance
            = m[b][16] + m[b][AccountAt(a - 1)] - init_balance
         /\ m[b][16] + m[b][AccountAt(a - 1)] - init_balance \in Int
         /\ Last(SegmentIn(m, b).balances) = m[b][AccountAt(a - 1)]
         /\ SegmentIn(m, b).parity = m[b][16]
<1> DEFINE a == m[b][0]
<1>1. a \in Nat /\ a - 1 \in 0 .. nbaccounts - 1 /\ a \in 1 .. a
  <2>1. a \in 1 .. nbaccounts
    OBVIOUS
  <2> HIDE DEF a
  <2>2. QED
    BY <2>1, BankAssumption
<1>2. m[b][16] \in Int /\ m[b][AccountAt(a - 1)] \in Int
  BY <1>1, Words DEF Memory
<1>3. Len(SegmentIn(m, b).balances) = a /\ SegmentIn(m, b).balances[a] = m[b][AccountAt(a - 1)]
  BY <1>1, SegmentRead
<1>4. /\ Accounts!Read(m, Accounts!parity_of(Ptr(b))) = m[b][16]
      /\ Accounts!Read(m, Accounts!account_of(Ptr(b), a - 1)) = m[b][AccountAt(a - 1)]
  BY <1>1, ReadFields
<1>5. Last(SegmentIn(m, b).balances) = m[b][AccountAt(a - 1)]
  BY <1>3 DEF Last
<1>6. SegmentIn(m, b).parity = m[b][16]
  BY DEF SegmentIn
<1> HIDE DEF a
<1>7. m[b][16] + m[b][AccountAt(a - 1)] - init_balance \in Int
  BY <1>2, BankAssumption
<1>8. QED
  BY <1>1, <1>4, <1>5, <1>6, <1>7 DEF a

(* RemoveAccount, of a segment with other accounts.                         *)
LEMMA TruncateStep ==
  ASSUME NEW c, Reads(c), mem[c[Len(c)]][0] > 1, UNCHANGED live,
         LET b == c[Len(c)]
             segment == Ptr(b)
             a == mem[b][0]
             parity == Accounts!Read(mem, Accounts!parity_of(segment))
                         + Accounts!Read(mem, Accounts!account_of(segment, a - 1)) - init_balance
         IN mem' = Accounts!Write(Accounts!Write(mem, Accounts!count_of(segment), a - 1),
                                  Accounts!parity_of(segment), parity),
         bank' = Accounts!AccountsIn(mem')
  PROVE  Reads(c)' /\ bank' = Accounts!Bank!Deallocated
<1> DEFINE n == Len(c)
           b == c[n]
           a == mem[b][0]
           q == mem'
           s == bank[n]
           x == SegmentIn(q, b)
           parity == mem[b][16] + mem[b][AccountAt(a - 1)] - init_balance
<1>1. /\ n \in Nat \ {0} /\ DOMAIN c = 1 .. n /\ Len(bank) = n /\ DOMAIN bank = 1 .. n
      /\ mem \in Memory /\ b \in Blocks /\ Aligned(b)
      /\ a \in 1 .. nbaccounts /\ a \in Nat /\ a > 1
      /\ Last(bank) = s /\ s = SegmentIn(mem, b) /\ Len(s.balances) = a
  BY EndOf
<1>2. /\ Chained(c, mem) /\ Held(c, mem) /\ bank = BankOf(c, mem)
      /\ \A k \in DOMAIN c : c[k] \in Blocks
      /\ \A i, j \in DOMAIN c : c[i] = c[j] => i = j
  BY <1>1, ChainFits DEF Reads, Chained
<1>3. /\ parity \in Int /\ a - 1 \in Nat
      /\ Last(s.balances) = mem[b][AccountAt(a - 1)] /\ s.parity = mem[b][16]
      /\ q = Accounts!Write(Accounts!Write(mem, Accounts!count_of(Ptr(b)), a - 1),
                            Accounts!parity_of(Ptr(b)), parity)
  BY <1>1, TakenAccount
<1> HIDE DEF a, n, b, parity
<1>4. Wrote(q, mem, b, 0, a - 1, 16, parity)
  <2> DEFINE z == Put(mem, b, 0, a - 1)
  <2>1. Accounts!Write(mem, Accounts!count_of(Ptr(b)), a - 1) = z
    BY <1>1, WriteFields
  <2>2. 16 \in Offsets /\ 0 \in Offsets /\ a - 1 \in Int
    BY <1>3, Words
  <2>3. z \in Memory
    BY <1>1, <2>2, PutWord
  <2> HIDE DEF z
  <2>4. Accounts!Write(z, Accounts!parity_of(Ptr(b)), parity) = Put(z, b, 16, parity)
    BY <1>1, <2>3, WriteFields
  <2>5. q = Put(z, b, 16, parity)
    BY <1>3, <2>1, <2>4
  <2>6. Wrote(Put(Put(mem, b, 0, a - 1), b, 16, parity), mem, b, 0, a - 1, 16, parity)
    BY <1>1, <1>3, <2>2, WroteTwo
  <2>7. QED
    BY <2>5, <2>6 DEF z
<1> HIDE DEF q
<1>5. /\ q \in Memory /\ q[b][0] = a - 1 /\ q[b][16] = parity
      /\ \A d \in Blocks : d # b => q[d] = mem[d]
  BY <1>4 DEF Wrote
<1>6. /\ q[b][8] = mem[b][8]
      /\ \A i \in 0 .. nbaccounts - 1 : q[b][AccountAt(i)] = mem[b][AccountAt(i)]
  BY <1>4, AccountOffsets, Words DEF Wrote
<1>7. \A k \in DOMAIN c : k # n => q[c[k]] = mem[c[k]]
  BY <1>1, <1>2, <1>5 DEF b
<1>8. a - 1 \in 1 .. nbaccounts
  BY <1>1, BankAssumption
<1>9. Chained(c, q) /\ Held(c, q)
  <2>1. ASSUME NEW k \in DOMAIN c
        PROVE  q[c[k]][8] = mem[c[k]][8] /\ q[c[k]][0] \in 1 .. nbaccounts
    <3>1. CASE k = n
      BY <1>5, <1>6, <1>8, <3>1 DEF b
    <3>2. CASE k # n
      BY <1>2, <1>7, <3>2 DEF Held
    <3>3. QED
      BY <3>1, <3>2
  <2>2. QED
    BY <1>2, <1>5, <2>1, ChainStays
<1>10. BankOf(c, q) = [bank EXCEPT ![n] = x]
  <2>1. n \in DOMAIN c
    BY <1>1
  <2>2. BankOf(c, q) = [BankOf(c, mem) EXCEPT ![n] = SegmentIn(q, c[n])]
    <3>1. OnlyAt(c, n, mem, q)
      BY <1>7 DEF OnlyAt
    <3>2. QED
      BY <2>1, <3>1, OneSegment
  <2>3. QED
    BY <1>2, <2>2 DEF b
<1>11. bank' = BankOf(c, q)
  BY <1>9, BankIn DEF q
<1>12. Reads(c)'
  BY <1>9, <1>11 DEF Reads, q
<1>13. x = [parity |-> parity, balances |-> Front(s.balances)]
  <2> DEFINE t == s.balances
             v == x.balances
             y == Front(t)
  <2>1. /\ t \in Seq(Int) /\ Len(t) = a /\ DOMAIN t = 1 .. a
        /\ \A i \in 1 .. a : t[i] = mem[b][AccountAt(i - 1)]
    BY <1>1, SegmentRead, SegmentTypes DEF a
  <2>2. /\ x \in Segment /\ v \in Seq(Int) /\ Len(v) = a - 1
        /\ \A i \in 1 .. a - 1 : v[i] = q[b][AccountAt(i - 1)]
    <3>1. q[b][0] \in 1 .. nbaccounts
      BY <1>5, <1>8
    <3>2. /\ x \in Segment /\ Len(v) = q[b][0]
          /\ \A i \in 1 .. q[b][0] : v[i] = q[b][AccountAt(i - 1)]
      BY <1>1, <1>5, <3>1, SegmentRead
    <3>3. QED
      BY <1>5, <3>2, SegmentTypes
  <2>3. x.parity = parity
    BY <1>5 DEF SegmentIn
  <2> HIDE DEF s, x, t, v
  <2>4. y \in Seq(Int) /\ Len(y) = a - 1 /\ \A i \in 1 .. a - 1 : y[i] = t[i]
    BY <1>1, <2>1 DEF Front
  <2>5. \A i \in 1 .. a - 1 : v[i] = y[i]
    <3> TAKE i \in 1 .. a - 1
    <3>1. i \in 1 .. a /\ i - 1 \in 0 .. nbaccounts - 1
      BY <1>1, <1>8, BankAssumption
    <3>2. QED
      BY <1>6, <2>1, <2>2, <2>4, <3>1
  <2> HIDE DEF y
  <2>6. v = y
    BY <2>2, <2>4, <2>5, SeqEqual
  <2>7. QED
    BY <2>2, <2>3, <2>6 DEF v, t, y, Segment
<1>14. Accounts!Bank!Deallocated = [bank EXCEPT ![n] = x]
  <2>1. Last(bank) = bank[Len(bank)] /\ Len(Last(bank).balances) > 1
    BY <1>1
  <2>2. Accounts!Bank!Deallocated =
          [bank EXCEPT ![n] = [parity |-> s.parity + Last(s.balances) - init_balance,
                               balances |-> Front(s.balances)]]
    BY <1>1, <2>1, DeallocatedIs
  <2>3. s.parity + Last(s.balances) - init_balance = parity
    BY <1>3 DEF parity
  <2> HIDE DEF s, x
  <2>4. QED
    BY <1>13, <2>2, <2>3
<1>15. QED
  BY <1>10, <1>11, <1>12, <1>14

(* One balance, in the words and in the bank.                               *)
LEMMA MovedWord ==
  ASSUME NEW c, NEW m, Chained(c, m), Held(c, m), NEW p,
         p.segment \in 1 .. Len(c), p.id \in 0 .. nbaccounts - 1,
         p.id < m[c[p.segment]][0], NEW d \in Int
  PROVE  LET address == Accounts!account_of(Ptr(c[p.segment]), p.id)
             q == Accounts!Write(m, address, Accounts!Read(m, address) + d)
         IN /\ address # 0
            /\ Accounts!Read(m, address) = BankOf(c, m)[p.segment].balances[p.id + 1]
            /\ Accounts!Read(m, address) \in Int
            /\ Chained(c, q) /\ Held(c, q)
            /\ BankOf(c, q) = Accounts!Bank!Moved(BankOf(c, m), p, d)
            /\ \A k \in DOMAIN c : q[c[k]][0] = m[c[k]][0]
<1> DEFINE k == p.segment
           i == p.id
           b == c[k]
           a == m[b][0]
           o == AccountAt(i)
           address == Accounts!account_of(Ptr(b), i)
           q == Accounts!Write(m, address, Accounts!Read(m, address) + d)
           s == BankOf(c, m)[k]
           x == SegmentIn(q, b)
<1>1. /\ k \in DOMAIN c /\ k \in 1 .. Len(c) /\ b \in Blocks /\ Aligned(b)
      /\ m \in Memory /\ a \in 1 .. nbaccounts /\ a \in Nat /\ i \in 0 .. nbaccounts - 1 /\ i < a
      /\ Ptr(b) \in Nat /\ Ptr(b) # 0
      /\ \A j \in DOMAIN c : c[j] \in Blocks
      /\ \A j, h \in DOMAIN c : c[j] = c[h] => j = h
  <2>1. k \in DOMAIN c /\ b \in Blocks /\ Ptr(b) \in Nat /\ Ptr(b) # 0
        /\ \A j \in DOMAIN c : c[j] \in Blocks
    BY ChainFits
  <2>2. Aligned(b) /\ m \in Memory /\ a \in 1 .. nbaccounts
        /\ \A j, h \in DOMAIN c : c[j] = c[h] => j = h
    BY <2>1 DEF Chained, Held
  <2>3. a \in Nat
    BY <2>2, BankAssumption
  <2>4. QED
    BY <2>1, <2>2, <2>3
<1>2. s = SegmentIn(m, b)
  BY <1>1, BankIn
<1> HIDE DEF k, i, b, a
<1>3. o \in Offsets /\ o # 0 /\ o # 8 /\ o # 16 /\ o \in Nat
  BY <1>1, AccountOffsets, Words
<1>4. address = Ptr(b) + o /\ address # 0
  <2>1. i \in Int
    BY <1>1, BankAssumption
  <2>2. address = Ptr(b) + o
    BY <1>1, <2>1, Fields
  <2> HIDE DEF address, o
  <2>3. QED
    BY <1>1, <1>3, <2>2
<1>5. Accounts!Read(m, address) = m[b][o] /\ m[b][o] \in Int
  BY <1>1, <1>3, <1>4, ReadWord DEF Memory
<1> HIDE DEF address, o
<1>6. q = Put(m, b, o, m[b][o] + d)
  <2>1. Accounts!Write(m, Ptr(b) + o, m[b][o] + d) = Put(m, b, o, m[b][o] + d)
    BY <1>1, <1>3, WriteWord DEF Put
  <2>2. QED
    BY <1>4, <1>5, <2>1
<1> DEFINE u == m[b][o] + d
<1>7. /\ q \in Memory /\ q[b][o] = m[b][o] + d
      /\ \A r \in Offsets : r # o => q[b][r] = m[b][r]
      /\ \A e \in Blocks : e # b => q[e] = m[e]
  <2>1. u \in Int /\ q = Put(m, b, o, u)
    BY <1>5, <1>6
  <2> HIDE DEF q, u
  <2>2. /\ q \in Memory /\ q[b][o] = u
        /\ \A r \in Offsets : r # o => q[b][r] = m[b][r]
        /\ \A e \in Blocks : e # b => q[e] = m[e]
    <3>1. m \in Memory /\ b \in Blocks /\ o \in Offsets
      BY <1>1, <1>3
    <3> DEFINE f == Put(m, b, o, u)
    <3>2. /\ f \in Memory /\ f[b][o] = u
          /\ \A r \in Offsets : r # o => f[b][r] = m[b][r]
          /\ \A e \in Blocks : e # b => f[e] = m[e]
      BY <2>1, <3>1, PutWord
    <3> HIDE DEF f
    <3>3. q = f
      BY <2>1 DEF f
    <3>4. QED
      BY <3>2, <3>3
  <2>3. QED
    BY <2>2 DEF u
<1>8. /\ q[b][8] = m[b][8] /\ q[b][0] = a /\ q[b][16] = m[b][16]
      /\ \A j \in 0 .. nbaccounts - 1 : j # i => q[b][AccountAt(j)] = m[b][AccountAt(j)]
  <2>1. \A j \in 0 .. nbaccounts - 1 : j # i => AccountAt(j) \in Offsets /\ AccountAt(j) # o
    BY <1>1, AccountOffsets DEF o
  <2> HIDE DEF q
  <2>2. QED
    BY <1>3, <1>7, <2>1, Words DEF a
<1> HIDE DEF q, address
<1>9. \A j \in DOMAIN c : j # k => q[c[j]] = m[c[j]]
  BY <1>1, <1>7 DEF b
<1>10. \A j \in DOMAIN c : q[c[j]][8] = m[c[j]][8] /\ q[c[j]][0] = m[c[j]][0]
  <2> TAKE j \in DOMAIN c
  <2>1. CASE j = k
    BY <1>8, <2>1 DEF a, b
  <2>2. CASE j # k
    BY <1>9, <2>2
  <2>3. QED
    BY <2>1, <2>2
<1>11. Chained(c, q) /\ Held(c, q)
  BY <1>7, <1>10 DEF Chained, Held
<1>12. BankOf(c, q) = [BankOf(c, m) EXCEPT ![k] = x]
  <2>1. OnlyAt(c, k, m, q)
    BY <1>9 DEF OnlyAt
  <2>2. QED
    BY <1>1, <2>1, OneSegment DEF b
<1> DEFINE t == s.balances
           v == x.balances
           y == [t EXCEPT ![i + 1] = t[i + 1] + d]
<1>13. /\ s \in Segment /\ t \in Seq(Int) /\ Len(t) = a /\ DOMAIN t = 1 .. a
       /\ \A j \in 1 .. a : t[j] = m[b][AccountAt(j - 1)]
  BY <1>1, <1>2, SegmentRead, SegmentTypes DEF a
<1>14. /\ x \in Segment /\ v \in Seq(Int) /\ Len(v) = a
       /\ \A j \in 1 .. a : v[j] = q[b][AccountAt(j - 1)]
  <2>1. q[b][0] \in 1 .. nbaccounts
    BY <1>1, <1>8
  <2>2. /\ x \in Segment /\ Len(v) = q[b][0]
        /\ \A j \in 1 .. q[b][0] : v[j] = q[b][AccountAt(j - 1)]
    BY <1>1, <1>7, <2>1, SegmentRead
  <2>3. QED
    BY <1>8, <2>2, SegmentTypes
<1>15. x.parity = s.parity
  BY <1>2, <1>8 DEF SegmentIn
<1>16. i + 1 \in 1 .. a /\ (i + 1) - 1 = i /\ t[i + 1] = m[b][o]
  <2>1. i + 1 \in 1 .. a /\ (i + 1) - 1 = i
    BY <1>1, BankAssumption
  <2>2. t[i + 1] = m[b][AccountAt(i)]
    BY <1>13, <2>1
  <2>3. QED
    BY <2>1, <2>2 DEF o
<1> HIDE DEF s, x, t, v
<1>17. y \in Seq(Int) /\ Len(y) = a /\ y[i + 1] = m[b][o] + d
       /\ \A j \in 1 .. a : j # i + 1 => y[j] = t[j]
  <2>1. t[i + 1] + d \in Int
    BY <1>5, <1>16
  <2>2. QED
    BY <1>1, <1>13, <1>16, <2>1, ExceptSeq
<1>18. \A j \in 1 .. a : v[j] = y[j]
  <2> TAKE j \in 1 .. a
  <2>1. CASE j = i + 1
    <3>1. v[j] = q[b][AccountAt(i)]
      BY <1>14, <1>16, <2>1
    <3>2. QED
      BY <1>7, <1>17, <2>1, <3>1 DEF o
  <2>2. CASE j # i + 1
    <3>1. j - 1 \in 0 .. nbaccounts - 1 /\ j - 1 # i
      BY <1>1, <2>2, BankAssumption
    <3>2. QED
      BY <1>8, <1>13, <1>14, <1>17, <2>2, <3>1
  <2>3. QED
    BY <2>1, <2>2
<1> HIDE DEF y
<1>19. v = y
  BY <1>14, <1>17, <1>18, SeqEqual
<1>20. x = [s EXCEPT !.balances = y]
  BY <1>13, <1>14, <1>15, <1>19 DEF v, t, Segment
<1>21. Accounts!Bank!Moved(BankOf(c, m), p, d) = [BankOf(c, m) EXCEPT ![k] = x]
  <2>1. Accounts!Bank!Moved(BankOf(c, m), p, d) =
          [BankOf(c, m) EXCEPT ![k] = [s EXCEPT !.balances = y]]
    BY DEF Accounts!Bank!Moved, k, i, s, y, t
  <2>2. QED
    BY <1>20, <2>1
<1>22. BankOf(c, q) = Accounts!Bank!Moved(BankOf(c, m), p, d)
  BY <1>12, <1>21
<1>23. Accounts!Read(m, address) = BankOf(c, m)[p.segment].balances[p.id + 1]
  BY <1>5, <1>16 DEF t, s, k, i
<1>24. QED
  BY <1>4, <1>5, <1>10, <1>11, <1>22, <1>23 DEF q, address, k, i, b

(* Where a walk for an account comes to.                                    *)
LEMMA FoundAt ==
  ASSUME NEW c, Reads(c), Good(bank), NEW id \in Nat
  PROVE  LET p == Accounts!Bank!Walk(id)[Len(bank)] IN
         /\ p.segment = 0 => Accounts!Found(id) = 0
         /\ p.segment # 0 =>
              /\ Accounts!Found(id) = Accounts!account_of(Ptr(c[p.segment]), p.id)
              /\ Accounts!Found(id) # 0
              /\ p.segment \in 1 .. Len(c) /\ p.id \in 0 .. nbaccounts - 1
              /\ p.id < mem[c[p.segment]][0]
              /\ p.segment \in DOMAIN c
<1> DEFINE p == Accounts!Bank!Walk(id)[Len(bank)]
<1>1. Chained(c, mem) /\ Held(c, mem) /\ bank = BankOf(c, mem)
  BY DEF Reads
<1>2. Len(bank) = Len(c) /\ DOMAIN c = 1 .. Len(c)
      /\ \A k \in 1 .. Len(c) : Len(bank[k].balances) = mem[c[k]][0]
  BY <1>1, BankIn, ChainFits
<1>3. p.segment = 0 => Accounts!Found(id) = 0
  BY DEF Accounts!Found, Accounts!nullptr
<1>4. ASSUME p.segment # 0
      PROVE  /\ Accounts!Found(id) = Accounts!account_of(Ptr(c[p.segment]), p.id)
             /\ Accounts!Found(id) # 0
             /\ p.segment \in 1 .. Len(c) /\ p.id \in 0 .. nbaccounts - 1
             /\ p.id < mem[c[p.segment]][0]
             /\ p.segment \in DOMAIN c
  <2>1. p.segment \in 1 .. Len(c) /\ p.id \in 0 .. nbaccounts - 1
        /\ p.id < Len(bank[p.segment].balances)
    BY <1>2, <1>4, PlaceOf
  <2>2. Accounts!Found(id) = Accounts!account_of(Accounts!Chain(mem)[p.segment], p.id)
    BY <1>4 DEF Accounts!Found
  <2> HIDE DEF p
  <2>3. Accounts!Chain(mem)[p.segment] = Ptr(c[p.segment])
    BY <1>1, <2>1, ChainOf DEF Ptrs
  <2>4. Accounts!account_of(Ptr(c[p.segment]), p.id) # 0
    BY <1>1, <1>2, <2>1, MovedWord
  <2>5. QED
    BY <1>2, <2>1, <2>2, <2>3, <2>4
<1>5. QED
  BY <1>3, <1>4

(* Transfer on the words is Transfer in the bank, also from an account to   *)
(* itself.                                                                  *)
LEMMA TransferStep ==
  ASSUME NEW c, Reads(c), BankInv, NEW w \in RunWorkers, Accounts!Transfer(w)
  PROVE  Reads(c)' /\ Accounts!Bank!Transfer(w)
<1> DEFINE W(id) == Accounts!Bank!Walk(id)[Len(bank)]
           s == W(ids[w].send)
           r == W(ids[w].recv)
           from == Accounts!account_of(Ptr(c[s.segment]), s.id)
           to == Accounts!account_of(Ptr(c[r.segment]), r.id)
           taken == Accounts!Write(mem, from, Accounts!Read(mem, from) - 1)
           given == Accounts!Write(taken, to, Accounts!Read(taken, to) + 1)
<1>1. ids[w].send \in Nat /\ ids[w].recv \in Nat /\ Good(bank)
  BY DEF BankInv, BankTypes
<1>2. Chained(c, mem) /\ Held(c, mem) /\ bank = BankOf(c, mem)
  BY DEF Reads
<1>3. /\ s.segment # 0 /\ r.segment # 0
      /\ Accounts!Found(ids[w].send) = from /\ Accounts!Found(ids[w].recv) = to
      /\ s.segment \in 1 .. Len(c) /\ s.id \in 0 .. nbaccounts - 1
      /\ s.id < mem[c[s.segment]][0]
      /\ r.segment \in 1 .. Len(c) /\ r.id \in 0 .. nbaccounts - 1
      /\ r.id < mem[c[r.segment]][0] /\ r.segment \in DOMAIN c
  <2>1. Accounts!Found(ids[w].send) # 0 /\ Accounts!Found(ids[w].recv) # 0
    BY DEF Accounts!Transfer, Accounts!nullptr
  <2>2. s.segment # 0 /\ r.segment # 0
    BY <1>1, <2>1, FoundAt
  <2>3. QED
    BY <1>1, <2>2, FoundAt
<1>4. /\ Accounts!Bank!Go(w, "short", "next")
      /\ mem' = IF Accounts!Read(mem, from) > 0 THEN given ELSE mem
      /\ bank' = Accounts!AccountsIn(mem')
      /\ ids' = [ids EXCEPT ![w] = Accounts!Bank!NoIds]
      /\ UNCHANGED <<live, togo, count, wrong>>
  BY <1>3 DEF Accounts!Transfer
<1> HIDE DEF s, r
<1>5. /\ Accounts!Read(mem, from) = bank[s.segment].balances[s.id + 1]
      /\ Accounts!Read(mem, from) \in Int
      /\ Chained(c, taken) /\ Held(c, taken)
      /\ BankOf(c, taken) = Accounts!Bank!Moved(bank, s, -1)
      /\ \A k \in DOMAIN c : taken[c[k]][0] = mem[c[k]][0]
  <2> DEFINE other == Accounts!Write(mem, from, Accounts!Read(mem, from) + (-1))
  <2>1. /\ Accounts!Read(mem, from) = bank[s.segment].balances[s.id + 1]
        /\ Accounts!Read(mem, from) \in Int
        /\ Chained(c, other) /\ Held(c, other)
        /\ BankOf(c, other) = Accounts!Bank!Moved(bank, s, -1)
        /\ \A k \in DOMAIN c : other[c[k]][0] = mem[c[k]][0]
    <3> DEFINE d == -1
               some == Accounts!Write(mem, from, Accounts!Read(mem, from) + d)
    <3>1. d \in Int
      OBVIOUS
    <3> HIDE DEF d
    <3>2. /\ Accounts!Read(mem, from) = BankOf(c, mem)[s.segment].balances[s.id + 1]
          /\ Accounts!Read(mem, from) \in Int
          /\ Chained(c, some) /\ Held(c, some)
          /\ BankOf(c, some) = Accounts!Bank!Moved(BankOf(c, mem), s, d)
          /\ \A k \in DOMAIN c : some[c[k]][0] = mem[c[k]][0]
      BY <1>2, <1>3, <3>1, MovedWord
    <3>3. QED
      BY <1>2, <3>2 DEF d
  <2>2. Accounts!Read(mem, from) + (-1) = Accounts!Read(mem, from) - 1
    BY <2>1
  <2>3. other = taken
    BY <2>2
  <2> HIDE DEF other, taken
  <2>4. QED
    BY <2>1, <2>3
<1> HIDE DEF taken, from
<1>6. /\ Chained(c, given) /\ Held(c, given)
      /\ BankOf(c, given) = Accounts!Bank!Moved(Accounts!Bank!Moved(bank, s, -1), r, 1)
  <2>1. r.id < taken[c[r.segment]][0]
    BY <1>3, <1>5
  <2>2. 1 \in Int
    OBVIOUS
  <2>3. QED
    BY <1>3, <1>5, <2>1, <2>2, MovedWord
<1> HIDE DEF given
<1>7. Chained(c, mem') /\ Held(c, mem')
  BY <1>2, <1>4, <1>6
<1>8. bank' = BankOf(c, mem')
  BY <1>4, <1>7, BankIn
<1>9. Reads(c)'
  BY <1>4, <1>7, <1>8 DEF Reads
<1>10. bank' = IF bank[s.segment].balances[s.id + 1] > 0
                 THEN Accounts!Bank!Moved(Accounts!Bank!Moved(bank, s, -1), r, 1)
                 ELSE bank
  BY <1>2, <1>4, <1>5, <1>6, <1>8
<1>11. Accounts!Bank!Transfer(w)
  BY <1>3, <1>4, <1>10 DEF Accounts!Bank!Transfer, s, r
<1>12. QED
  BY <1>9, <1>11

(* The words of a block but next, from which its accounts are read.         *)
SameAccounts(m, q, b) ==
  /\ q[b][0] = m[b][0] /\ q[b][16] = m[b][16]
  /\ \A i \in 0 .. nbaccounts - 1 : q[b][AccountAt(i)] = m[b][AccountAt(i)]

(* Such a block says the same segment.                                      *)
LEMMA SameSegment ==
  ASSUME NEW m, NEW q, NEW b, SameAccounts(m, q, b), m[b][0] \in 1 .. nbaccounts
  PROVE  SegmentIn(q, b) = SegmentIn(m, b)
<1> DEFINE a == m[b][0]
<1>1. q[b][0] = a /\ q[b][16] = m[b][16]
  BY DEF SameAccounts
<1>2. \A i \in 1 .. a : q[b][AccountAt(i - 1)] = m[b][AccountAt(i - 1)]
  <2>1. a \in 1 .. nbaccounts /\ nbaccounts \in Nat
    BY BankAssumption
  <2> HIDE DEF a
  <2>2. \A i \in 1 .. a : i - 1 \in 0 .. nbaccounts - 1
    BY <2>1
  <2>3. QED
    BY <2>2 DEF SameAccounts
<1> HIDE DEF a
<1>3. SegmentIn(q, b) = [parity |-> m[b][16],
                         balances |-> [i \in 1 .. a |-> m[b][AccountAt(i - 1)]]]
  BY <1>1, <1>2 DEF SegmentIn
<1>4. QED
  BY <1>3 DEF SegmentIn, a

(* A block that is linked to the end of the chain.                          *)
Linked(c, m, b, q) ==
  /\ Chained(c, m) /\ Held(c, m) /\ q \in Memory
  /\ b \in Blocks /\ Aligned(b) /\ \A k \in DOMAIN c : c[k] # b
  /\ q[b][8] = 0 /\ q[b][0] \in 1 .. nbaccounts
  /\ q[c[Len(c)]][8] = Ptr(b)
  /\ \A k \in DOMAIN c : SameAccounts(m, q, c[k])
  /\ \A k \in DOMAIN c : k # Len(c) => q[c[k]][8] = m[c[k]][8]

(* It is the new end of the chain, and of the bank.                         *)
LEMMA LinkedChain ==
  ASSUME NEW c, NEW m, NEW b, NEW q, Linked(c, m, b, q)
  PROVE  /\ Chained(Append(c, b), q) /\ Held(Append(c, b), q)
         /\ {Append(c, b)[k] : k \in DOMAIN Append(c, b)} = {c[k] : k \in DOMAIN c} \cup {b}
         /\ BankOf(Append(c, b), q) = Append(BankOf(c, m), SegmentIn(q, b))
<1> DEFINE n == Len(c)
           d == Append(c, b)
<1>1. /\ n \in Nat \ {0} /\ DOMAIN c = 1 .. n
      /\ \A k \in 1 .. n : c[k] \in Blocks
      /\ c \in Seq(Blocks) /\ c # <<>>
  BY ChainFits DEF Linked, Chained
<1>2. /\ d \in Seq(Blocks) /\ d # <<>> /\ Len(d) = n + 1 /\ DOMAIN d = 1 .. n + 1
      /\ d[n + 1] = b /\ \A k \in 1 .. n : d[k] = c[k]
  <2>1. b \in Blocks
    BY DEF Linked
  <2>2. QED
    BY <1>1, <2>1, AppendProperties, LenProperties
<1> HIDE DEF n, d
<1>3. n \in 1 .. n /\ n + 1 \in 1 .. n + 1 /\ 1 \in 1 .. n
      /\ \A k \in 1 .. n + 1 : k = n + 1 \/ k \in 1 .. n
  BY <1>1
<1>4. Chained(d, q)
  <2>1. d[1] = Start
    BY <1>2, <1>3 DEF Linked, Chained
  <2>2. \A i, j \in DOMAIN d : d[i] = d[j] => i = j
    BY <1>1, <1>2, <1>3 DEF Linked, Chained
  <2>3. \A k \in DOMAIN d : Aligned(d[k])
    BY <1>1, <1>2, <1>3 DEF Linked, Chained
  <2>4. ASSUME NEW k \in DOMAIN d
        PROVE  q[d[k]][8] = IF k < Len(d) THEN Ptr(d[k + 1]) ELSE 0
    <3>1. CASE k = n + 1
      <4>1. ~ (k < n + 1)
        BY <1>1, <3>1
      <4>2. QED
        BY <1>2, <3>1, <4>1 DEF Linked
    <3>2. CASE k = n
      <4>1. k < n + 1 /\ k \in 1 .. n /\ k + 1 = n + 1
        BY <1>1, <3>2
      <4>2. QED
        BY <1>2, <3>2, <4>1 DEF Linked, n
    <3>3. CASE k # n /\ k # n + 1
      <4>1. k \in 1 .. n /\ k + 1 \in 1 .. n /\ k < n /\ k < n + 1
        BY <1>1, <1>2, <3>3
      <4>2. q[c[k]][8] = m[c[k]][8] /\ m[c[k]][8] = Ptr(c[k + 1])
        BY <1>1, <3>3, <4>1 DEF Linked, Chained, n
      <4>3. QED
        BY <1>2, <4>1, <4>2
    <3>4. QED
      BY <3>1, <3>2, <3>3
  <2>5. QED
    BY <1>2, <2>1, <2>2, <2>3, <2>4 DEF Chained
<1>5. Held(d, q)
  BY <1>1, <1>2, <1>3 DEF Linked, Held, SameAccounts
<1>6. {d[k] : k \in DOMAIN d} = {c[k] : k \in DOMAIN c} \cup {b}
  BY <1>1, <1>2, <1>3
<1> DEFINE s == BankOf(d, q)
           t == Append(BankOf(c, m), SegmentIn(q, b))
<1>7. /\ s \in Seq(Segment) /\ Len(s) = n + 1 /\ \A k \in 1 .. n + 1 : s[k] = SegmentIn(q, d[k])
  BY <1>2, <1>4, <1>5, BankIn
<1>8. /\ BankOf(c, m) \in Seq(Segment) /\ Len(BankOf(c, m)) = n
      /\ \A k \in 1 .. n : BankOf(c, m)[k] = SegmentIn(m, c[k])
  BY BankIn DEF Linked, n
<1>9. SegmentIn(q, b) \in Segment
  BY SegmentRead DEF Linked
<1>10. /\ t \in Seq(Segment) /\ Len(t) = n + 1 /\ t[n + 1] = SegmentIn(q, b)
       /\ \A k \in 1 .. n : t[k] = SegmentIn(m, c[k])
  BY <1>8, <1>9, AppendProperties
<1>11. \A k \in 1 .. n : SegmentIn(q, c[k]) = SegmentIn(m, c[k])
  <2> TAKE k \in 1 .. n
  <2>1. SameAccounts(m, q, c[k]) /\ m[c[k]][0] \in 1 .. nbaccounts
    BY <1>1 DEF Linked, Held
  <2>2. QED
    BY <2>1, SameSegment
<1> HIDE DEF s, t
<1>12. \A k \in 1 .. n + 1 : s[k] = t[k]
  BY <1>2, <1>3, <1>7, <1>10, <1>11
<1>13. s = t
  BY <1>7, <1>10, <1>12, SeqEqual
<1>14. QED
  BY <1>4, <1>5, <1>6, <1>13 DEF s, t, d

(* q is m with value v in a word.                                           *)
PutHere(q, m, b, o, v) ==
  /\ q \in Memory /\ q[b][o] = v
  /\ \A r \in Offsets : r # o => q[b][r] = m[b][r]
  /\ \A x \in Blocks : x # b => q[x] = m[x]

(* Put does no more than that.                                              *)
LEMMA PutIs ==
  ASSUME NEW m \in Memory, NEW b \in Blocks, NEW o \in Offsets, NEW v \in Int
  PROVE  PutHere(Put(m, b, o, v), m, b, o, v)
BY PutWord DEF PutHere

(* A new block, linked to a chain that ends with e, with its first account. *)
LEMMA NewSegment ==
  ASSUME NEW m \in Memory, NEW b \in Blocks, Aligned(b), NEW e \in Blocks, Aligned(e), e # b,
         NEW q,
         LET linked == Accounts!Write(Accounts!Fresh(m, b), Accounts!next_of(Ptr(e)), Ptr(b))
         IN q = Accounts!Write(Accounts!Write(linked, Accounts!count_of(Ptr(b)), 1),
                               Accounts!account_of(Ptr(b), 0), init_balance)
  PROVE  /\ q \in Memory
         /\ q[b][0] = 1 /\ q[b][8] = 0 /\ q[b][16] = 0 /\ q[b][AccountAt(0)] = init_balance
         /\ q[e][8] = Ptr(b)
         /\ \A o \in Offsets : o # 8 => q[e][o] = m[e][o]
         /\ \A x \in Blocks : x # b /\ x # e => q[x] = m[x]
<1> DEFINE o == AccountAt(0)
           p == Ptr(b)
           z == Accounts!Fresh(m, b)
           u == Put(z, e, 8, p)
           v == Put(u, b, 0, 1)
           w == Put(v, b, o, init_balance)
<1>1. /\ 0 \in Offsets /\ 8 \in Offsets /\ 16 \in Offsets /\ o \in Offsets
      /\ o # 0 /\ o # 8 /\ o # 16 /\ 0 # 8 /\ 0 # 16 /\ 8 # 16
  <2>1. 0 \in 0 .. nbaccounts - 1
    BY BankAssumption
  <2>2. QED
    BY <2>1, Words, AccountOffsets
<1>2. p \in Int /\ 1 \in Int /\ init_balance \in Int /\ 0 \in Int
  BY PtrType, BankAssumption
<1> HIDE DEF o, p
<1>3. /\ z \in Memory /\ \A r \in Offsets : z[b][r] = 0
      /\ \A x \in Blocks : x # b => z[x] = m[x]
  <2>1. z = [m EXCEPT ![b] = [r \in Offsets |-> 0]]
    BY DEF Accounts!Fresh, Accounts!Zeroed, Offsets
  <2> HIDE DEF z
  <2>2. [r \in Offsets |-> 0] \in [Offsets -> Int]
    BY <1>2
  <2>3. QED
    BY <2>1, <2>2 DEF Memory
<1>4. Accounts!Write(z, Accounts!next_of(Ptr(e)), p) = u
  BY <1>3, WriteFields
<1> HIDE DEF z
<1>5. /\ u \in Memory /\ u[e][8] = p
      /\ \A r \in Offsets : r # 8 => u[e][r] = z[e][r]
      /\ \A x \in Blocks : x # e => u[x] = z[x]
  <2>1. PutHere(u, z, e, 8, p)
    BY <1>1, <1>2, <1>3, PutIs
  <2> HIDE DEF u
  <2>2. QED
    BY <2>1 DEF PutHere
<1>6. Accounts!Write(u, Accounts!count_of(Ptr(b)), 1) = v
  BY <1>5, WriteFields
<1> HIDE DEF u
<1>7. /\ v \in Memory /\ v[b][0] = 1
      /\ \A r \in Offsets : r # 0 => v[b][r] = u[b][r]
      /\ \A x \in Blocks : x # b => v[x] = u[x]
  <2>1. PutHere(v, u, b, 0, 1)
    BY <1>1, <1>2, <1>5, PutIs
  <2> HIDE DEF v
  <2>2. QED
    BY <2>1 DEF PutHere
<1>8. Accounts!Write(v, Accounts!account_of(Ptr(b), 0), init_balance) = w
  <2>1. 0 \in 0 .. nbaccounts - 1
    BY BankAssumption
  <2>2. QED
    BY <1>7, <2>1, WriteFields DEF o
<1> HIDE DEF v
<1>9. /\ w \in Memory /\ w[b][o] = init_balance
      /\ \A r \in Offsets : r # o => w[b][r] = v[b][r]
      /\ \A x \in Blocks : x # b => w[x] = v[x]
  <2>1. PutHere(w, v, b, o, init_balance)
    BY <1>1, <1>2, <1>7, PutIs
  <2> HIDE DEF w
  <2>2. QED
    BY <2>1 DEF PutHere
<1>10. q = w
  BY <1>4, <1>6, <1>8 DEF z, p
<1> HIDE DEF w
<1>11. w[b][0] = 1 /\ w[b][8] = 0 /\ w[b][16] = 0
  BY <1>1, <1>3, <1>5, <1>7, <1>9
<1>12. w[e][8] = p /\ \A r \in Offsets : r # 8 => w[e][r] = m[e][r]
  BY <1>1, <1>3, <1>5, <1>7, <1>9
<1>13. \A x \in Blocks : x # b /\ x # e => w[x] = m[x]
  BY <1>3, <1>5, <1>7, <1>9
<1>14. QED
  BY <1>9, <1>10, <1>11, <1>12, <1>13 DEF o, p

(* AddSegment adds a segment with one account to the bank. It must have     *)
(* been zeroed: only two of its fields and one account are written.         *)
LEMMA AddSegmentStep ==
  ASSUME NEW c, Reads(c), Accounts!AddSegment(Ptr(c[Len(c)]), mem[c[Len(c)]][0]),
         bank' = Accounts!AccountsIn(mem')
  PROVE  (\E d : Reads(d)') /\ bank' = Accounts!Bank!Allocated
<1> DEFINE n == Len(c)
           e == c[n]
           q == mem'
<1>1. PICK b \in Blocks \ live :
        /\ Aligned(b)
        /\ \A other \in live : Accounts!Apart(b, other, Size)
        /\ LET linked == Accounts!Write(Accounts!Fresh(mem, b), Accounts!next_of(Ptr(c[Len(c)])), Ptr(b))
           IN mem' = Accounts!Write(Accounts!Write(linked, Accounts!count_of(Ptr(b)), 1),
                                    Accounts!account_of(Ptr(b), 0), init_balance)
        /\ live' = live \cup {b}
  BY DEF Accounts!AddSegment, Aligned, Size, Ptr
<1>2. /\ n \in Nat \ {0} /\ DOMAIN c = 1 .. n /\ Len(bank) = n
      /\ mem \in Memory /\ e \in Blocks /\ e \in live /\ Aligned(e)
      /\ Last(bank) = bank[n] /\ Len(bank[n].balances) = mem[e][0]
  BY EndOf
<1>3. /\ Chained(c, mem) /\ Held(c, mem) /\ bank = BankOf(c, mem)
      /\ live = {c[k] : k \in DOMAIN c}
      /\ \A x, y \in live : x # y => Accounts!Apart(x, y, Size)
      /\ \A i, j \in DOMAIN c : c[i] = c[j] => i = j
      /\ \A k \in DOMAIN c : c[k] \in Blocks
      /\ mem[e][0] = nbaccounts
  BY <1>2, ChainFits DEF Reads, Chained, Accounts!AddSegment
<1>4. \A k \in DOMAIN c : c[k] # b
  BY <1>1, <1>3
<1> HIDE DEF n
<1>5. /\ q \in Memory
      /\ q[b][0] = 1 /\ q[b][8] = 0 /\ q[b][16] = 0 /\ q[b][AccountAt(0)] = init_balance
      /\ q[e][8] = Ptr(b)
      /\ \A o \in Offsets : o # 8 => q[e][o] = mem[e][o]
      /\ \A x \in Blocks : x # b /\ x # e => q[x] = mem[x]
  <2>1. e # b
    BY <1>1, <1>2
  <2>2. QED
    BY <1>1, <1>2, <2>1, NewSegment DEF n
<1> HIDE DEF q, e
<1>6. \A k \in DOMAIN c : SameAccounts(mem, q, c[k]) /\ (k # n => q[c[k]][8] = mem[c[k]][8])
  <2> TAKE k \in DOMAIN c
  <2>1. CASE k = n
    <3>1. \A o \in Offsets : o # 8 => q[c[k]][o] = mem[c[k]][o]
      BY <1>5, <2>1 DEF e
    <3>2. QED
      BY <2>1, <3>1, Words, AccountOffsets DEF SameAccounts
  <2>2. CASE k # n
    <3>1. n \in DOMAIN c
      BY <1>2
    <3>2. c[k] # e /\ c[k] # b
      BY <1>3, <1>4, <2>2, <3>1 DEF e
    <3>3. q[c[k]] = mem[c[k]]
      BY <1>3, <1>5, <3>2
    <3>4. QED
      BY <3>3 DEF SameAccounts
  <2>3. QED
    BY <2>1, <2>2
<1>7. Linked(c, mem, b, q)
  <2>1. 1 \in 1 .. nbaccounts
    BY BankAssumption
  <2>2. QED
    BY <1>1, <1>3, <1>4, <1>5, <1>6, <2>1 DEF Linked, e, n
<1> DEFINE d == Append(c, b)
<1>8. /\ Chained(d, q) /\ Held(d, q)
      /\ {d[k] : k \in DOMAIN d} = live'
      /\ BankOf(d, q) = Append(bank, SegmentIn(q, b))
  BY <1>1, <1>3, <1>7, LinkedChain
<1> HIDE DEF d
<1>9. bank' = BankOf(d, q)
  BY <1>8, BankIn DEF q
<1>10. \A x, y \in live' : x # y => Accounts!Apart(x, y, Size)
  BY <1>1, <1>3 DEF Accounts!Apart
<1>11. Reads(d)'
  BY <1>8, <1>9, <1>10 DEF Reads, q
<1>12. SegmentIn(q, b) = [parity |-> 0, balances |-> <<init_balance>>]
  <2>1. \A i \in 1 .. 1 : i - 1 = 0
    OBVIOUS
  <2>2. [i \in 1 .. 1 |-> q[b][AccountAt(i - 1)]] = <<init_balance>>
    BY <1>5, <2>1
  <2>3. QED
    BY <1>5, <2>2 DEF SegmentIn
<1>13. Accounts!Bank!Allocated = Append(bank, [parity |-> 0, balances |-> <<init_balance>>])
  <2>1. Accounts!Bank!Last(bank) = bank[n]
    BY <1>2, SameHelpers
  <2>2. ~ (Len(bank[n].balances) < nbaccounts)
    BY <1>2, <1>3, BankAssumption
  <2>3. QED
    BY <2>1, <2>2 DEF Accounts!Bank!Allocated
<1>14. QED
  BY <1>8, <1>9, <1>11, <1>12, <1>13

(* What Front leaves.                                                       *)
LEMMA FrontIs ==
  ASSUME NEW A, NEW s \in Seq(A), Len(s) > 1
  PROVE  /\ Front(s) \in Seq(A) /\ Front(s) # <<>> /\ Len(Front(s)) = Len(s) - 1
         /\ DOMAIN Front(s) = 1 .. Len(s) - 1
         /\ \A k \in 1 .. Len(s) - 1 : Front(s)[k] = s[k]
<1> DEFINE n == Len(s)
           f == Front(s)
<1>1. n \in Nat /\ n > 1 /\ n - 1 \in Nat /\ \A k \in 1 .. n - 1 : s[k] \in A
  <2>1. n \in Nat /\ n > 1 /\ \A k \in 1 .. n : s[k] \in A
    BY LenProperties, ElementOfSeq
  <2> HIDE DEF n
  <2>2. QED
    BY <2>1
<1>2. f = [k \in 1 .. n - 1 |-> s[k]]
  <2>1. f = SubSeq(s, 1, n - 1)
    BY DEF Front
  <2> HIDE DEF n, f
  <2>2. QED
    BY <1>1, <2>1
<1> HIDE DEF n, f
<1>3. f \in [1 .. n - 1 -> A]
  BY <1>1, <1>2
<1>4. f \in Seq(A) /\ Len(f) = n - 1 /\ DOMAIN f = 1 .. n - 1
  BY <1>1, <1>3
<1>5. f # <<>>
  BY <1>1, <1>4
<1>6. QED
  BY <1>2, <1>4, <1>5 DEF f, n

(* The last block of the chain is linked to it no more.                     *)
Unlinked(c, m, q) ==
  /\ Chained(c, m) /\ Held(c, m) /\ q \in Memory /\ Len(c) > 1
  /\ q[c[Len(c) - 1]][8] = 0
  /\ \A k \in DOMAIN c : q[c[k]][0] = m[c[k]][0]
  /\ \A k \in DOMAIN c : k < Len(c) - 1 => q[c[k]] = m[c[k]]

(* The chain and the bank end before it.                                    *)
LEMMA UnlinkedChain ==
  ASSUME NEW c, NEW m, NEW q, Unlinked(c, m, q)
  PROVE  /\ Chained(Front(c), q) /\ Held(Front(c), q)
         /\ {Front(c)[k] : k \in DOMAIN Front(c)} = {c[k] : k \in DOMAIN c} \ {c[Len(c)]}
         /\ BankOf(Front(c), q) =
              [Front(BankOf(c, m)) EXCEPT ![Len(c) - 1] = SegmentIn(q, c[Len(c) - 1])]
<1> DEFINE n == Len(c)
           p == n - 1
           d == Front(c)
           s == BankOf(c, m)
<1>1. /\ n \in Nat /\ n > 1 /\ DOMAIN c = 1 .. n /\ c \in Seq(Blocks)
      /\ \A i, j \in DOMAIN c : c[i] = c[j] => i = j
  BY ChainFits DEF Unlinked, Chained
<1>2. d \in Seq(Blocks) /\ d # <<>> /\ Len(d) = p /\ DOMAIN d = 1 .. p
      /\ \A k \in 1 .. p : d[k] = c[k]
  BY <1>1, FrontIs
<1>3. s \in Seq(Segment) /\ Len(s) = n /\ \A k \in 1 .. n : s[k] = SegmentIn(m, c[k])
  BY BankIn DEF Unlinked
<1>4. /\ DOMAIN Front(s) = 1 .. p
      /\ \A k \in 1 .. p : Front(s)[k] = s[k]
      /\ Front(s) \in Seq(Segment)
  <2>1. s \in Seq(Segment) /\ Len(s) = n /\ n > 1
    BY <1>1, <1>3
  <2> HIDE DEF n, s
  <2>2. QED
    BY <2>1, FrontIs
<1> HIDE DEF n, d, s
<1>5. /\ p \in Nat /\ p # 0 /\ p \in 1 .. p /\ 1 \in 1 .. p /\ n \in 1 .. n
      /\ \A k \in 1 .. n : k = n \/ k \in 1 .. p
      /\ \A k \in 1 .. p : k \in 1 .. n /\ k # n
  BY <1>1
<1>6. Chained(d, q)
  <2>1. d[1] = Start
    BY <1>2, <1>5 DEF Unlinked, Chained
  <2>2. \A i, j \in DOMAIN d : d[i] = d[j] => i = j
    BY <1>1, <1>2, <1>5
  <2>3. \A k \in DOMAIN d : Aligned(d[k])
    BY <1>1, <1>2, <1>5 DEF Unlinked, Chained
  <2>4. ASSUME NEW k \in DOMAIN d
        PROVE  q[d[k]][8] = IF k < Len(d) THEN Ptr(d[k + 1]) ELSE 0
    <3>1. CASE k = p
      <4>1. ~ (k < p)
        BY <1>5, <3>1
      <4>2. q[c[p]][8] = 0
        BY DEF Unlinked, n
      <4>3. QED
        BY <1>2, <1>5, <3>1, <4>1, <4>2
    <3>2. CASE k # p
      <4>1. k \in 1 .. n /\ k < p /\ k \in 1 .. p /\ k + 1 \in 1 .. p /\ k < n
        BY <1>1, <1>2, <1>5, <3>2
      <4>2. q[c[k]] = m[c[k]] /\ m[c[k]][8] = Ptr(c[k + 1])
        BY <1>1, <4>1 DEF Unlinked, Chained, n
      <4>3. QED
        BY <1>2, <4>1, <4>2
    <3>3. QED
      BY <3>1, <3>2
  <2> HIDE DEF p
  <2>5. QED
    BY <1>2, <2>1, <2>2, <2>3, <2>4 DEF Chained
<1>7. Held(d, q)
  BY <1>1, <1>2, <1>5 DEF Unlinked, Held
<1>8. {d[k] : k \in DOMAIN d} = {c[k] : k \in DOMAIN c} \ {c[n]}
  BY <1>1, <1>2, <1>5
<1>9. BankOf(d, q) = [BankOf(d, m) EXCEPT ![p] = SegmentIn(q, d[p])]
  <2>1. OnlyAt(d, p, m, q)
    <3>1. \A k \in DOMAIN d : k # p => k \in DOMAIN c /\ k < p /\ d[k] = c[k]
      BY <1>1, <1>2, <1>5
    <3>2. QED
      BY <3>1 DEF OnlyAt, Unlinked, n
  <2>2. p \in DOMAIN d
    BY <1>2, <1>5
  <2> HIDE DEF p
  <2>3. QED
    BY <2>1, <2>2, OneSegment
<1>10. BankOf(d, m) = Front(s)
  <2>1. BankOf(d, m) = [k \in 1 .. p |-> SegmentIn(m, c[k])]
    BY <1>2 DEF BankOf
  <2>2. Front(s) = [k \in 1 .. p |-> Front(s)[k]]
    BY <1>4
  <2>3. \A k \in 1 .. p : Front(s)[k] = SegmentIn(m, c[k])
    BY <1>3, <1>4, <1>5
  <2>4. QED
    BY <2>1, <2>2, <2>3
<1>11. d[p] = c[p]
  BY <1>2, <1>5
<1>12. QED
  BY <1>6, <1>7, <1>8, <1>9, <1>10, <1>11 DEF d, n, s

(* RemoveAccount, of a segment with no other: its parity goes to the        *)
(* segment before it, and its block is free again.                          *)
LEMMA DropStep ==
  ASSUME NEW c, Reads(c), Len(c) > 1, mem[c[Len(c)]][0] = 1,
         LET segment == Ptr(c[Len(c)])
             prev == Ptr(c[Len(c) - 1])
             parity == Accounts!Read(mem, Accounts!parity_of(segment))
                         + Accounts!Read(mem, Accounts!account_of(segment, 1 - 1)) - init_balance
             unlinked == Accounts!Write(mem, Accounts!next_of(prev), 0)
         IN /\ mem' = Accounts!Write(unlinked, Accounts!parity_of(prev),
                                     Accounts!Read(unlinked, Accounts!parity_of(prev)) + parity)
            /\ live' = live \ {Accounts!get_opaque_ptr_seg(segment)},
         bank' = Accounts!AccountsIn(mem')
  PROVE  Reads(Front(c))' /\ bank' = Accounts!Bank!Deallocated
<1> DEFINE n == Len(c)
           b == c[n]
           e == c[n - 1]
           q == mem'
           s == bank[n]
           r == bank[n - 1]
           parity == mem[b][16] + mem[b][AccountAt(1 - 1)] - init_balance
<1>1. /\ n \in Nat \ {0} /\ DOMAIN c = 1 .. n /\ Len(bank) = n /\ DOMAIN bank = 1 .. n
      /\ mem \in Memory /\ b \in Blocks /\ Aligned(b) /\ mem[b][0] \in 1 .. nbaccounts
      /\ Last(bank) = s /\ s = SegmentIn(mem, b) /\ Len(s.balances) = 1
      /\ bank \in Seq(Segment)
  BY EndOf
<1>2. /\ Chained(c, mem) /\ Held(c, mem) /\ bank = BankOf(c, mem)
      /\ \A k \in DOMAIN c : c[k] \in Blocks /\ Aligned(c[k]) /\ mem[c[k]][0] \in 1 .. nbaccounts
      /\ \A i, j \in DOMAIN c : c[i] = c[j] => i = j
      /\ live = {c[k] : k \in DOMAIN c}
      /\ \A x, y \in live : x # y => Accounts!Apart(x, y, Size)
  BY <1>1, ChainFits DEF Reads, Chained, Held
<1>3. /\ parity \in Int
      /\ Last(s.balances) = mem[b][AccountAt(1 - 1)] /\ s.parity = mem[b][16]
      /\ Accounts!Read(mem, Accounts!parity_of(Ptr(b)))
           + Accounts!Read(mem, Accounts!account_of(Ptr(b), 1 - 1)) - init_balance = parity
  BY <1>1, TakenAccount
<1>4. n > 1 /\ n - 1 \in DOMAIN c /\ n - 1 # n /\ n \in DOMAIN c
  <2>1. n > 1
    OBVIOUS
  <2> HIDE DEF n
  <2>2. QED
    BY <1>1, <2>1
<1>5. e \in Blocks /\ Aligned(e) /\ mem[e][0] \in 1 .. nbaccounts /\ e # b
      /\ r = SegmentIn(mem, e)
  <2>1. e \in Blocks /\ Aligned(e) /\ mem[e][0] \in 1 .. nbaccounts /\ e # b
    BY <1>2, <1>4
  <2>2. n - 1 \in 1 .. n
    BY <1>1, <1>4
  <2>3. r = SegmentIn(mem, e)
    BY <1>2, <2>2, BankIn
  <2>4. QED
    BY <2>1, <2>3
<1>6. live' = live \ {b}
  <2>1. Ptr(b) + 0 = Ptr(b) /\ Accounts!get_opaque_ptr_seg(Ptr(b) + 0) = b
    <3>1. 0 \in Nat /\ 0 < Size
      BY Sizes, BankAssumption
    <3>2. QED
      BY <1>1, <3>1, PointerLeadsBack DEF Aligned
  <2>2. QED
    BY <2>1
<1> DEFINE u == Put(mem, e, 8, 0)
           v == mem[e][16] + parity
<1>7. mem[e][16] \in Int /\ v \in Int /\ 8 \in Offsets /\ 16 \in Offsets /\ 0 \in Offsets
  <2>1. mem[e][16] \in Int /\ 8 \in Offsets /\ 16 \in Offsets /\ 0 \in Offsets
    BY <1>1, <1>5, Words DEF Memory
  <2> HIDE DEF parity
  <2>2. QED
    BY <1>3, <2>1
<1>8. Accounts!Write(mem, Accounts!next_of(Ptr(e)), 0) = u
  BY <1>1, <1>5, WriteFields
<1> HIDE DEF b, e, n, parity
<1>9. PutHere(u, mem, e, 8, 0)
  BY <1>1, <1>5, <1>7, PutIs
<1>10. u \in Memory /\ u[e][16] = mem[e][16]
  BY <1>7, <1>9 DEF PutHere
<1>11. q = Put(u, e, 16, v)
  <2>1. Accounts!Read(u, Accounts!parity_of(Ptr(e))) = mem[e][16]
    BY <1>5, <1>10, ReadFields
  <2>2. q = Accounts!Write(u, Accounts!parity_of(Ptr(e)), v)
    BY <1>3, <1>8, <2>1 DEF b, e, n
  <2> HIDE DEF u, v
  <2>3. QED
    BY <1>5, <1>10, <2>2, WriteFields
<1>12. Wrote(q, mem, e, 8, 0, 16, v)
  <2>1. 0 \in Int
    OBVIOUS
  <2> HIDE DEF v
  <2>2. Wrote(Put(Put(mem, e, 8, 0), e, 16, v), mem, e, 8, 0, 16, v)
    BY <1>1, <1>5, <1>7, <2>1, WroteTwo
  <2>3. QED
    BY <1>11, <2>2
<1> HIDE DEF q, v, u
<1>13. /\ q \in Memory /\ q[e][8] = 0 /\ q[e][16] = v /\ q[e][0] = mem[e][0]
       /\ \A i \in 0 .. nbaccounts - 1 : q[e][AccountAt(i)] = mem[e][AccountAt(i)]
       /\ \A x \in Blocks : x # e => q[x] = mem[x]
  BY <1>7, <1>12, AccountOffsets DEF Wrote
<1>14. Unlinked(c, mem, q)
  <2>1. \A k \in DOMAIN c : c[k] # e => q[c[k]] = mem[c[k]]
    BY <1>2, <1>13
  <2>2. \A k \in DOMAIN c : q[c[k]][0] = mem[c[k]][0]
    BY <1>13, <2>1
  <2>3. ASSUME NEW k \in DOMAIN c, k < n - 1 PROVE q[c[k]] = mem[c[k]]
    <3>1. k # n - 1
      BY <1>1, <2>3
    <3>2. c[k] # e
      BY <1>2, <1>4, <3>1 DEF e
    <3>3. QED
      BY <2>1, <3>2
  <2>4. QED
    BY <1>2, <1>4, <1>13, <2>2, <2>3 DEF Unlinked, e, n
<1> DEFINE d == Front(c)
<1>15. /\ Chained(d, q) /\ Held(d, q)
       /\ {d[k] : k \in DOMAIN d} = live \ {b}
       /\ BankOf(d, q) = [Front(bank) EXCEPT ![n - 1] = SegmentIn(q, e)]
  BY <1>2, <1>14, UnlinkedChain DEF b, e, n
<1> HIDE DEF d
<1>16. bank' = BankOf(d, q)
  BY <1>15, BankIn DEF q
<1>17. Reads(d)'
  BY <1>2, <1>6, <1>15, <1>16 DEF Reads, q
<1>18. SegmentIn(q, e) = [r EXCEPT !.parity = r.parity + parity]
  <2> DEFINE a == mem[e][0]
  <2>1. \A i \in 1 .. a : q[e][AccountAt(i - 1)] = mem[e][AccountAt(i - 1)]
    <3>1. a \in 1 .. nbaccounts /\ nbaccounts \in Nat
      BY <1>5, BankAssumption
    <3> HIDE DEF a
    <3>2. \A i \in 1 .. a : i - 1 \in 0 .. nbaccounts - 1
      BY <3>1
    <3>3. QED
      BY <1>13, <3>2
  <2> HIDE DEF a
  <2> DEFINE t == [i \in 1 .. a |-> mem[e][AccountAt(i - 1)]]
  <2>2. SegmentIn(q, e) = [parity |-> v, balances |-> t]
    BY <1>13, <2>1 DEF SegmentIn, a
  <2>3. r = [parity |-> mem[e][16], balances |-> t]
    BY <1>5 DEF SegmentIn, a
  <2> HIDE DEF t, r
  <2>4. QED
    BY <2>2, <2>3 DEF v
<1>19. Accounts!Bank!Deallocated = [Front(bank) EXCEPT ![n - 1] = SegmentIn(q, e)]
  <2>1. Last(bank) = bank[Len(bank)] /\ ~ (Len(Last(bank).balances) > 1)
    BY <1>1
  <2>2. Accounts!Bank!Deallocated =
          [Front(bank) EXCEPT ![n - 1].parity = @ + (s.parity + Last(s.balances) - init_balance)]
    BY <1>1, <2>1, DeallocatedIs
  <2>3. s.parity + Last(s.balances) - init_balance = parity
    BY <1>3 DEF parity
  <2>4. Front(bank)[n - 1] = r
    <3>1. n - 1 \in 1 .. n - 1 /\ Len(bank) > 1
      BY <1>1, <1>4
    <3>2. QED
      BY <1>1, <3>1, FrontIs
  <2> HIDE DEF s, r
  <2>5. QED
    BY <1>18, <2>2, <2>3, <2>4
<1>20. QED
  BY <1>15, <1>16, <1>17, <1>19 DEF d

(* alloc_tx on the words is alloc_tx in the bank.                           *)
LEMMA AllocStep ==
  ASSUME NEW c, Reads(c), BankInv, NEW w \in RunWorkers, Accounts!AllocTx(w)
  PROVE  (\E d : Reads(d)') /\ Accounts!Bank!AllocTx(w)
<1> DEFINE n == Len(c)
           b == c[n]
           a == mem[b][0]
           chain == Accounts!Chain(mem)
           prev == chain[Len(chain) - 1]
<1>1. /\ Accounts!Bank!Begin(w) /\ Accounts!Bank!Go(w, "next", "next")
      /\ UNCHANGED <<count, ids, wrong>>
      /\ bank' = Accounts!AccountsIn(mem')
  BY DEF Accounts!AllocTx
<1>2. /\ n \in Nat \ {0} /\ Len(bank) = n /\ a \in Nat /\ a \in 1 .. nbaccounts
      /\ Accounts!Last(chain) = Ptr(b)
      /\ Accounts!Read(mem, Accounts!count_of(Ptr(b))) = a
      /\ Last(bank) = bank[n] /\ Len(bank[n].balances) = a
  BY EndOf
<1>3. \/ Accounts!AddAccount(Ptr(b), a)
      \/ Accounts!AddSegment(Ptr(b), a)
      \/ Accounts!Bank!Accounts > 2 /\ Accounts!RemoveAccount(prev, Ptr(b), a)
  <2>1. LET segment == Accounts!Last(chain)
            count_1 == Accounts!Read(mem, Accounts!count_of(segment))
        IN \/ Accounts!AddAccount(segment, count_1)
           \/ Accounts!AddSegment(segment, count_1)
           \/ Accounts!Bank!Accounts > 2 /\ Accounts!RemoveAccount(prev, segment, count_1)
    BY DEF Accounts!AllocTx
  <2> HIDE DEF prev, chain, a, b
  <2>2. QED
    BY <1>2, <2>1
<1>4. CASE Accounts!AddAccount(Ptr(b), a)
  <2>1. Reads(c)' /\ bank' = Accounts!Bank!Allocated
    BY <1>1, <1>4, AddAccountStep
  <2>2. QED
    BY <1>1, <2>1 DEF Accounts!Bank!AllocTx
<1>5. CASE Accounts!AddSegment(Ptr(b), a)
  <2>1. (\E d : Reads(d)') /\ bank' = Accounts!Bank!Allocated
    BY <1>1, <1>5, AddSegmentStep
  <2>2. QED
    BY <1>1, <2>1 DEF Accounts!Bank!AllocTx
<1>6. CASE Accounts!Bank!Accounts > 2 /\ Accounts!RemoveAccount(prev, Ptr(b), a)
  <2>1. SUFFICES (\E d : Reads(d)') /\ bank' = Accounts!Bank!Deallocated
    BY <1>1, <1>6 DEF Accounts!Bank!AllocTx
  <2>2. a > 1 \/ a = 1
    BY <1>6 DEF Accounts!RemoveAccount
  <2>3. CASE a > 1
    <3>1. /\ UNCHANGED live
          /\ LET parity == Accounts!Read(mem, Accounts!parity_of(Ptr(b)))
                             + Accounts!Read(mem, Accounts!account_of(Ptr(b), a - 1)) - init_balance
             IN mem' = Accounts!Write(Accounts!Write(mem, Accounts!count_of(Ptr(b)), a - 1),
                                      Accounts!parity_of(Ptr(b)), parity)
      <4> HIDE DEF a, prev
      <4>1. a # 1
        BY <1>2, <2>3
      <4>2. QED
        BY <1>6, <4>1 DEF Accounts!RemoveAccount
    <3>2. Reads(c)' /\ bank' = Accounts!Bank!Deallocated
      BY <1>1, <2>3, <3>1, TruncateStep
    <3>3. QED
      BY <3>2
  <2>4. CASE a = 1
    <3>1. n > 1
      <4>1. Len(Last(bank).balances) = 1 /\ Good(bank)
        BY <1>2, <2>4 DEF BankInv
      <4>2. QED
        BY <1>2, <1>6, <4>1, SegmentBefore
    <3>2. chain = Ptrs(c, n) /\ Len(chain) = n
      <4>1. chain = Ptrs(c, n)
        BY ChainOf DEF Reads
      <4>2. n \in Nat
        BY <1>2
      <4> HIDE DEF chain, n
      <4>3. Len(Ptrs(c, n)) = n
        BY <4>2 DEF Ptrs
      <4>4. QED
        BY <4>1, <4>3
    <3>3. prev = Ptr(c[n - 1])
      <4>1. n - 1 \in 1 .. n
        <5>1. n \in Nat /\ n > 1
          BY <1>2, <3>1
        <5> HIDE DEF n
        <5>2. QED
          BY <5>1
      <4> HIDE DEF chain, n
      <4>2. QED
        BY <3>2, <4>1 DEF Ptrs
    <3>4. LET segment == Ptr(b)
              before == Ptr(c[n - 1])
              parity == Accounts!Read(mem, Accounts!parity_of(segment))
                          + Accounts!Read(mem, Accounts!account_of(segment, 1 - 1)) - init_balance
              unlinked == Accounts!Write(mem, Accounts!next_of(before), 0)
          IN /\ mem' = Accounts!Write(unlinked, Accounts!parity_of(before),
                                      Accounts!Read(unlinked, Accounts!parity_of(before)) + parity)
             /\ live' = live \ {Accounts!get_opaque_ptr_seg(segment)}
      <4>1. Accounts!RemoveAccount(Ptr(c[n - 1]), Ptr(b), 1)
        <5> HIDE DEF a, prev, n, b
        <5>1. QED
          BY <1>6, <2>4, <3>3
      <4> HIDE DEF n, b
      <4>2. ~ (1 > 1)
        OBVIOUS
      <4>3. QED
        BY <4>1, <4>2 DEF Accounts!RemoveAccount, Accounts!nullptr
    <3>5. Reads(Front(c))' /\ bank' = Accounts!Bank!Deallocated
      BY <1>1, <2>4, <3>1, <3>4, DropStep
    <3>6. QED
      BY <3>5
  <2>5. QED
    BY <2>2, <2>3, <2>4
<1>7. QED
  BY <1>3, <1>4, <1>5, <1>6

(* What only reads the bank leaves the words as they are.                   *)
LEMMA LookStep ==
  ASSUME NEW c, Reads(c), BankInv, NEW w \in RunWorkers, Accounts!Look(w)
  PROVE  Reads(c)' /\ Accounts!Bank!Run(w)
<1>1. UNCHANGED <<mem, live>>
  BY DEF Accounts!Look
<1>2. Accounts!Bank!Run(w)
  BY DEF Accounts!Look, Accounts!Bank!Run
<1>3. UNCHANGED bank
  BY DEF Accounts!Look, Accounts!Bank!Long, Accounts!Bank!ShortTx, Accounts!Bank!Retry,
         Accounts!Bank!Redraw
<1>4. QED
  BY <1>1, <1>2, <1>3 DEF Reads

(* Every transaction of run on the words is one of the bank.                *)
LEMMA RunSteps ==
  ASSUME NEW c, Reads(c), BankInv, NEW w \in RunWorkers, Accounts!Run(w)
  PROVE  (\E d : Reads(d)') /\ Accounts!Bank!Next /\ UNCHANGED ready
<1>1. UNCHANGED ready
  BY DEF Accounts!Run, Accounts!AllocTx, Accounts!Transfer, Accounts!Look
<1>2. (\E d : Reads(d)') /\ Accounts!Bank!Run(w)
  BY AllocStep, TransferStep, LookStep DEF Accounts!Run, Accounts!Bank!Run
<1>3. QED
  BY <1>1, <1>2 DEF Accounts!Bank!Next

-----------------------------------------------------------------------------
(* The round of initialisation.                                             *)

FirstAccounts == 0 .. nbaccounts - 1

(* The words after init has written the first segment's number of accounts  *)
(* and those of its accounts that are in T.                                 *)
Begun(m, T) ==
  /\ m \in Memory
  /\ m[Start][0] = nbaccounts /\ m[Start][8] = 0 /\ m[Start][16] = 0
  /\ \A i \in T : m[Start][AccountAt(i)] = init_balance

FirstAddress(i) == Accounts!account_of(Accounts!start, i)

(* The first segment and its accounts.                                      *)
LEMMA StartIs ==
  /\ Start \in Blocks /\ Aligned(Start) /\ Accounts!start = Ptr(Start)
  /\ IsFiniteSet(FirstAccounts) /\ 0 \in FirstAccounts
BY BankAssumption, FS_Interval DEF Aligned, Accounts!start, Ptr, Size, FirstAccounts

(* init writes one account.                                                 *)
LEMMA WriteAccount ==
  ASSUME NEW m \in Memory, NEW i \in FirstAccounts
  PROVE  /\ Accounts!Write(m, FirstAddress(i), init_balance)
              = Put(m, Start, AccountAt(i), init_balance)
         /\ Put(m, Start, AccountAt(i), init_balance) \in Memory
<1>1. init_balance \in Int /\ AccountAt(i) \in Offsets
  BY AccountOffsets, BankAssumption DEF FirstAccounts
<1>2. Put(m, Start, AccountAt(i), init_balance) \in Memory
  BY <1>1, StartIs, PutWord
<1>3. Accounts!Write(m, Accounts!account_of(Ptr(Start), i), init_balance)
        = Put(m, Start, AccountAt(i), init_balance)
  BY StartIs, WriteFields DEF FirstAccounts
<1>4. FirstAddress(i) = Accounts!account_of(Ptr(Start), i)
  BY StartIs DEF FirstAddress
<1>5. QED
  BY <1>2, <1>3, <1>4

(* One more account has been written.                                       *)
LEMMA BegunMore ==
  ASSUME NEW m, NEW T, T \subseteq FirstAccounts, NEW i \in FirstAccounts, Begun(m, T)
  PROVE  Begun(Accounts!Write(m, FirstAddress(i), init_balance), T \cup {i})
<1> DEFINE q == Put(m, Start, AccountAt(i), init_balance)
<1>1. /\ m \in Memory /\ init_balance \in Int /\ Start \in Blocks
      /\ AccountAt(i) \in Offsets /\ AccountAt(i) # 0 /\ AccountAt(i) # 8 /\ AccountAt(i) # 16
      /\ 0 \in Offsets /\ 8 \in Offsets /\ 16 \in Offsets
      /\ \A j \in FirstAccounts :
           AccountAt(j) \in Offsets /\ (j # i => AccountAt(j) # AccountAt(i))
  BY AccountOffsets, Words, BankAssumption DEF FirstAccounts, Begun
<1>2. PutHere(q, m, Start, AccountAt(i), init_balance)
  BY <1>1, PutIs
<1>3. Accounts!Write(m, FirstAddress(i), init_balance) = q
  BY <1>1, WriteAccount
<1> HIDE DEF q
<1>4. q \in Memory /\ q[Start][0] = nbaccounts /\ q[Start][8] = 0 /\ q[Start][16] = 0
  BY <1>1, <1>2 DEF PutHere, Begun
<1>5. ASSUME NEW j \in T \cup {i} PROVE q[Start][AccountAt(j)] = init_balance
  <2>1. CASE j = i
    BY <1>2, <2>1 DEF PutHere
  <2>2. CASE j # i
    <3>1. q[Start][AccountAt(j)] = m[Start][AccountAt(j)]
      BY <1>1, <1>2, <2>2 DEF PutHere
    <3>2. QED
      BY <2>2, <3>1 DEF Begun
  <2>3. QED
    BY <2>1, <2>2
<1>6. QED
  BY <1>3, <1>4, <1>5 DEF Begun

(* What a worker writes in init, in whatever order.                         *)
LEMMA InitWrites ==
  ASSUME NEW m \in Memory, m[Start][8] = 0, m[Start][16] = 0
  PROVE  Begun(Accounts!FoldFunctionOnSet(
                 LAMBDA i, q : Accounts!Write(q, FirstAddress(i), init_balance),
                 Accounts!Write(m, Accounts!count_of(Accounts!start), nbaccounts),
                 [i \in FirstAccounts |-> i], FirstAccounts), FirstAccounts)
<1> DEFINE S == FirstAccounts
           counted == Accounts!Write(m, Accounts!count_of(Accounts!start), nbaccounts)
           own == [i \in S |-> i]
           One(i, q) == Accounts!Write(q, FirstAddress(i), init_balance)
           Step(u) == [T \in SUBSET S |-> IF T = {} THEN counted
                                          ELSE One(own[Some(T)], u[T \ {Some(T)}])]
           iter == CHOOSE u : u = Step(u)
<1>1. Accounts!FoldFunctionOnSet(
        LAMBDA i, q : Accounts!Write(q, FirstAddress(i), init_balance),
        counted, own, S) = iter[S]
  BY DEF Accounts!FoldFunctionOnSet, Accounts!MapThenFoldSet, Some
<1>2. Begun(counted, {})
  <2>1. counted = Put(m, Start, 0, nbaccounts)
    BY StartIs, WriteFields
  <2>2. PutHere(Put(m, Start, 0, nbaccounts), m, Start, 0, nbaccounts)
    BY StartIs, Words, BankAssumption, PutIs
  <2> HIDE DEF counted
  <2>3. QED
    BY <2>1, <2>2, Words DEF PutHere, Begun
<1> HIDE DEF counted
<1>3. \A T \in SUBSET S : T # {} => Some(T) \in T /\ own[Some(T)] = Some(T)
  BY DEF Some
<1> HIDE DEF own, One, S
<1>4. \E u : u = Step(u)
  <2> DEFINE F == [p \in S \X Memory |-> One(p[1], p[2])]
  <2>1. Fold(S, Memory, counted, F)
    <3>1. \A i \in S, q \in Memory : One(i, q) \in Memory
      BY WriteAccount DEF S, One
    <3>2. QED
      BY <1>2, <3>1, StartIs DEF Fold, Begun, S
  <2> HIDE DEF F
  <2>2. PICK u \in [SUBSET S -> Memory] : \A T \in SUBSET S :
          u[T] = IF T = {} THEN counted ELSE F[<<Some(T), u[T \ {Some(T)}]>>]
    <3>1. PICK u : FoldOf(S, Memory, counted, F, u)
      BY <2>1, FoldExists
    <3>2. QED
      BY <3>1 DEF FoldOf
  <2>3. ASSUME NEW T \in SUBSET S, T # {}
        PROVE  u[T] = One(own[Some(T)], u[T \ {Some(T)}])
    <3>1. Some(T) \in S /\ u[T \ {Some(T)}] \in Memory /\ own[Some(T)] = Some(T)
      BY <1>3, <2>3
    <3>2. F[<<Some(T), u[T \ {Some(T)}]>>] = One(Some(T), u[T \ {Some(T)}])
      BY <3>1 DEF F
    <3>3. QED
      BY <2>2, <2>3, <3>1, <3>2
  <2>4. u = Step(u)
    BY <2>2, <2>3
  <2>5. QED
    BY <2>4
<1>5. iter = Step(iter)
  BY <1>4
<1> HIDE DEF iter
<1> DEFINE P == {T \in SUBSET S : Begun(iter[T], T)}
<1>6. {} \in P
  BY <1>2, <1>5
<1>7. ASSUME NEW T \in SUBSET S, T # {}, \A x \in T : T \ {x} \in P
      PROVE  T \in P
  <2> DEFINE x == Some(T)
             U == T \ {x}
  <2>1. x \in T /\ x \in S /\ own[x] = x /\ U \cup {x} = T /\ U \in P /\ U \subseteq S
    BY <1>3, <1>7
  <2>2. iter[T] = One(own[x], iter[U])
    BY <1>5, <1>7
  <2> HIDE DEF x, U
  <2>3. Begun(iter[U], U) /\ iter[T] = One(x, iter[U])
    BY <2>1, <2>2
  <2>4. Begun(One(x, iter[U]), U \cup {x})
    BY <2>1, <2>3, BegunMore DEF One, S
  <2>5. QED
    BY <2>1, <2>3, <2>4
<1> HIDE DEF P
<1>8. SUBSET S \subseteq P
  BY <1>6, <1>7, StartIs, SubsetInduction DEF S
<1>9. Begun(iter[S], S)
  BY <1>8 DEF P
<1>10. QED
  BY <1>1, <1>9 DEF S, counted, own

(* The round of initialisation.                                             *)
InitInv ==
  /\ live = {Start} /\ mem \in Memory /\ mem[Start][8] = 0 /\ mem[Start][16] = 0
  /\ ready \in [RunWorkers -> {"write", "look", "done"}]
  /\ (\E w \in RunWorkers : ready[w] # "write") => Begun(mem, FirstAccounts)
  /\ Accounts!Bank!Init

(* tm_create leaves zeroes.                                                 *)
LEMMA InitInitInv == Accounts!Init => InitInv
<1> SUFFICES ASSUME Accounts!Init PROVE InitInv
  OBVIOUS
<1>1. mem = [[b \in Blocks |-> [o \in Offsets |-> 1]] EXCEPT ![Start] = [o \in Offsets |-> 0]]
  BY DEF Accounts!Init, Accounts!Zeroed, Accounts!Garbage, Offsets
<1>2. mem \in Memory /\ mem[Start][8] = 0 /\ mem[Start][16] = 0
  <2>1. 0 \in Int /\ 1 \in Int
    OBVIOUS
  <2>2. QED
    BY <1>1, <2>1, StartIs, Words DEF Memory
<1>3. ready = [w \in RunWorkers |-> "write"] /\ live = {Start} /\ Accounts!Bank!Init
  BY DEF Accounts!Init
<1>4. QED
  BY <1>2, <1>3 DEF InitInv

(* The round of initialisation does not touch what run begins with.         *)
LEMMA BankStaysInit ==
  ASSUME Accounts!Bank!Init, UNCHANGED <<bank, doing, togo, count, ids, wrong>>
  PROVE  Accounts!Bank!Init'
BY DEF Accounts!Bank!Init

(* A worker writes what others may have written before.                     *)
LEMMA InitWriteStep ==
  ASSUME InitInv, NEW w \in RunWorkers, Accounts!InitWrite(w)
  PROVE  InitInv'
<1>1. /\ ready' = [ready EXCEPT ![w] = "look"]
      /\ UNCHANGED <<live, bank, doing, togo, count, ids, wrong>>
  BY DEF Accounts!InitWrite, Accounts!Prepare
<1>2. mem' = Accounts!FoldFunctionOnSet(
                 LAMBDA i, q : Accounts!Write(q, FirstAddress(i), init_balance),
                 Accounts!Write(mem, Accounts!count_of(Accounts!start), nbaccounts),
                 [i \in FirstAccounts |-> i], FirstAccounts)
  BY DEF Accounts!InitWrite, FirstAddress, FirstAccounts
<1>3. Begun(mem', FirstAccounts)
  BY <1>2, InitWrites DEF InitInv
<1>4. Accounts!Bank!Init'
  BY <1>1, BankStaysInit DEF InitInv
<1>5. ready' \in [RunWorkers -> {"write", "look", "done"}]
  BY <1>1 DEF InitInv
<1>6. QED
  BY <1>1, <1>3, <1>4, <1>5 DEF InitInv, Begun

(* A worker looks, when at least itself has written.                        *)
LEMMA InitLookStep ==
  ASSUME InitInv, NEW w \in RunWorkers, Accounts!InitLook(w)
  PROVE  InitInv'
<1>1. /\ ready[w] = "look"
      /\ ready' = [ready EXCEPT ![w] =
           IF Accounts!Read(mem, FirstAddress(0)) = init_balance THEN "done" ELSE "wrong"]
      /\ UNCHANGED <<mem, live, bank, doing, togo, count, ids, wrong>>
  BY DEF Accounts!InitLook, Accounts!Prepare, FirstAddress
<1>2. Begun(mem, FirstAccounts)
  BY <1>1 DEF InitInv
<1>3. Accounts!Read(mem, FirstAddress(0)) = init_balance
  BY <1>2, StartIs, ReadFields DEF Begun, FirstAddress, FirstAccounts
<1>4. Accounts!Bank!Init'
  BY <1>1, BankStaysInit DEF InitInv
<1>5. ready' \in [RunWorkers -> {"write", "look", "done"}]
  BY <1>1, <1>3 DEF InitInv
<1>6. QED
  BY <1>1, <1>2, <1>4, <1>5 DEF InitInv

(* When the round is over, the words are the bank that run begins with.     *)
LEMMA InitialisedStep ==
  ASSUME InitInv, Accounts!Initialised
  PROVE  Reads(<<Start>>)' /\ UNCHANGED Accounts!Bank!vars /\ UNCHANGED ready
<1> DEFINE c == <<Start>>
<1>1. /\ bank' = Accounts!AccountsIn(mem)
      /\ UNCHANGED <<mem, live, ready, doing, togo, count, ids, wrong>>
  BY DEF Accounts!Initialised
<1>2. Begun(mem, FirstAccounts) /\ live = {Start} /\ Accounts!Bank!Init
  BY BankAssumption DEF InitInv, Accounts!Initialised
<1>3. c \in Seq(Blocks) /\ c # <<>> /\ Len(c) = 1 /\ DOMAIN c = {1} /\ c[1] = Start
  BY StartIs
<1> HIDE DEF c
<1>4. Chained(c, mem)
  BY <1>2, <1>3, StartIs DEF Chained, Begun
<1>5. Held(c, mem)
  BY <1>2, <1>3, BankAssumption DEF Held, Begun
<1>6. Accounts!AccountsIn(mem) = BankOf(c, mem)
  BY <1>4, <1>5, BankIn
<1>7. SegmentIn(mem, Start) = [parity |-> 0, balances |-> [i \in 1 .. nbaccounts |-> init_balance]]
  <2>1. \A i \in 1 .. nbaccounts : i - 1 \in FirstAccounts
    BY BankAssumption DEF FirstAccounts
  <2>2. QED
    BY <1>2, <2>1 DEF SegmentIn, Begun
<1>8. BankOf(c, mem) = <<[parity |-> 0, balances |-> [i \in 1 .. nbaccounts |-> init_balance]]>>
  <2> DEFINE x == [parity |-> 0, balances |-> [i \in 1 .. nbaccounts |-> init_balance]]
  <2>1. BankOf(c, mem) = [k \in {1} |-> x]
    BY <1>3, <1>7 DEF BankOf
  <2> HIDE DEF x
  <2>2. <<x>> = [k \in {1} |-> x]
    OBVIOUS
  <2>3. QED
    BY <2>1, <2>2 DEF x
<1>9. bank' = bank
  BY <1>1, <1>2, <1>6, <1>8 DEF Accounts!Bank!Init
<1>10. Reads(c)'
  BY <1>1, <1>2, <1>3, <1>4, <1>5, <1>6 DEF Reads
<1>11. QED
  BY <1>1, <1>9, <1>10 DEF c, Accounts!Bank!vars

-----------------------------------------------------------------------------
(* check: class Barrier separates its parts, and it never reports a memory  *)
(* that keeps its promise.                                                  *)

(* Where a worker is not in Barrier::sync.                                  *)
Outside == {"call", "set", "verify", "read", "take", "look", "end"}

(* Those whom step counts: they have entered, and not begun to leave.       *)
Counted == {w \in Workers : pc[w] \in {"waitLeave", "leaveMode", "leave"}}

Types ==
  /\ step \in Nat
  /\ pc \in [Workers -> Location]
  /\ synced \in [Workers -> Nat]
  /\ passed \in [Workers -> Nat]
  /\ error \in [Workers -> BOOLEAN]

(* In enter mode a worker has not called the barrier for the next time, or  *)
(* has and waits, or has still to return from the last time.                *)
EnterSide(w, r) ==
  \/ pc[w] \in Outside /\ synced[w] = r /\ passed[w] = r
  \/ pc[w] \in {"enter", "waitLeave", "leaveMode"} /\ synced[w] = r + 1 /\ passed[w] = r
  \/ pc[w] = "waitEnter" /\ synced[w] = r /\ passed[w] = r - 1

(* In leave mode everybody is in the same call.                             *)
LeaveSide(w, r) ==
  /\ pc[w] \in {"waitLeave", "leave", "waitEnter", "enterMode"}
  /\ synced[w] = r + 1
  /\ passed[w] = r

(* After r uses of the barrier. Whoever is about to change the mode is the  *)
(* only one, and all have entered, or left.                                 *)
Entering(r) ==
  /\ mode = "enter"
  /\ \A w \in Workers : EnterSide(w, r)
  /\ \A w \in Workers : pc[w] = "leaveMode" =>
       Counted = Workers /\ \A v \in Workers : pc[v] = "leaveMode" => v = w

Leaving(r) ==
  /\ mode = "leave"
  /\ \A w \in Workers : LeaveSide(w, r)
  /\ \A w \in Workers : pc[w] = "enterMode" =>
       Counted = {} /\ \A v \in Workers : pc[v] = "enterMode" => v = w

IInv ==
  /\ Types
  /\ step = Cardinality(Counted)
  /\ \E r \in Nat : Entering(r) \/ Leaving(r)

-----------------------------------------------------------------------------
(* Sets of workers are finite; step is at its limits only if all are        *)
(* counted, or none.                                                        *)
LEMMA FiniteWorkers ==
  ASSUME NEW S \in SUBSET Workers
  PROVE  /\ Cardinality(S) \in Nat
         /\ Cardinality(S) = 0 => S = {}
         /\ Cardinality(S) = nbworkers => S = Workers
         /\ \A w \in Workers : w \notin S => Cardinality(S \cup {w}) = Cardinality(S) + 1
         /\ \A w \in S : Cardinality(S \ {w}) = Cardinality(S) - 1
<1>1. IsFiniteSet(S) /\ (Cardinality(S) = nbworkers => S = Workers)
  BY FS_Subset, CheckAssumption DEF nbworkers
<1>2. Cardinality(S) \in Nat
  BY <1>1, FS_CardinalityType
<1>3. Cardinality(S) = 0 => S = {}
  BY <1>1, FS_EmptySet
<1>4. \A w \in Workers : w \notin S => Cardinality(S \cup {w}) = Cardinality(S) + 1
  BY <1>1, FS_AddElement
<1>5. \A w \in S : Cardinality(S \ {w}) = Cardinality(S) - 1
  BY <1>1, FS_RemoveElement
<1>6. QED
  BY <1>1, <1>2, <1>3, <1>4, <1>5

(* A call of sync returns to a place outside of the barrier.                *)
LEMMA ResumeOutside == \A w \in Workers : Resume(w) \in Outside
BY DEF Resume, Outside

(* Before check is called the invariant holds.                              *)
LEMMA InitIInv == Init => IInv
<1> SUFFICES ASSUME Init PROVE IInv
  OBVIOUS
<1>1. Types
  BY DEF Init, Types, Location
<1>2. Counted = {}
  BY DEF Init, Counted
<1>3. step = Cardinality(Counted)
  BY <1>2, FS_EmptySet DEF Init
<1>4. Entering(0)
  BY DEF Init, Entering, EnterSide, Outside
<1>5. QED
  BY <1>1, <1>3, <1>4 DEF IInv

(* A transaction of check, or a call of sync up to its first access, leaves *)
(* the barrier as it is.                                                    *)
LEMMA OutsideStep ==
  ASSUME IInv, NEW w \in Workers, Call(w) \/ Check(w)
  PROVE  IInv'
<1> USE DEF IInv, Types
<1>1. /\ pc[w] \in Outside /\ pc' = [pc EXCEPT ![w] = pc'[w]]
      /\ UNCHANGED <<step, mode, passed>>
      /\ \/ pc'[w] \in Outside /\ synced' = synced
         \/ pc'[w] = "enter" /\ synced' = [synced EXCEPT ![w] = @ + 1]
  BY DEF Call, Check, Set, Verify, Read, Take, Look, Go, Finds, Outside, barrier,
         calls, program
<1>2. Types'
  <2>1. error' \in [Workers -> BOOLEAN]
    <3>1. CASE Call(w) \/ Set(w) \/ Read(w)
      BY <3>1 DEF Call, Set, Read, program
    <3>2. CASE Verify(w)
      BY <3>2 DEF Verify, Finds
    <3>3. CASE Take(w)
      BY <3>3 DEF Take
    <3>4. CASE Look(w)
      BY <3>4 DEF Look, Finds
    <3>5. QED
      BY <3>1, <3>2, <3>3, <3>4 DEF Check
  <2>2. synced' \in [Workers -> Nat]
    BY <1>1
  <2>3. pc'[w] \in Location
    BY <1>1 DEF Outside, Location
  <2>4. pc' \in [Workers -> Location]
    BY <1>1, <2>3
  <2>5. QED
    BY <1>1, <2>1, <2>2, <2>4
<1>3. Counted' = Counted
  BY <1>1 DEF Counted, Outside
<1>4. PICK r \in Nat : Entering(r) \/ Leaving(r)
  OBVIOUS
<1>5. Entering(r)
  BY <1>1, <1>4 DEF Leaving, LeaveSide, Outside
<1>6. Entering(r)'
  BY <1>1, <1>3, <1>5 DEF Entering, EnterSide, Outside
<1>7. QED
  BY <1>1, <1>2, <1>3, <1>6

(* The first half of sync.                                                  *)
LEMMA EnterStep ==
  ASSUME IInv, NEW w \in Workers, Enter(w)
  PROVE  IInv'
<1> USE DEF IInv, Types
<1>1. /\ pc[w] = "enter" /\ pc' = [pc EXCEPT ![w] = pc'[w]]
      /\ pc'[w] = (IF step + 1 = nbworkers THEN "leaveMode" ELSE "waitLeave")
      /\ step' = step + 1
      /\ UNCHANGED <<mode, synced, passed, error>>
  BY DEF Enter, Go, calls, program
<1>2. Types'
  BY <1>1 DEF Location
<1>3. Counted' = Counted \cup {w} /\ w \notin Counted
  BY <1>1 DEF Counted
<1>4. step' = Cardinality(Counted')
  BY <1>1, <1>3, FiniteWorkers DEF Counted
<1>5. PICK r \in Nat : Entering(r) \/ Leaving(r)
  OBVIOUS
<1>6. Entering(r)
  BY <1>1, <1>5 DEF Leaving, LeaveSide
<1>7. \A v \in Workers : pc[v] # "leaveMode"
  BY <1>3, <1>6 DEF Entering
<1>8. pc'[w] = "leaveMode" => Counted' = Workers
  <2> HAVE pc'[w] = "leaveMode"
  <2>1. Cardinality(Counted') = nbworkers
    BY <1>1, <1>4
  <2>2. QED
    BY <2>1, FiniteWorkers, <1>3 DEF Counted
<1>9. Entering(r)'
  BY <1>1, <1>6, <1>7, <1>8 DEF Entering, EnterSide, Outside
<1>10. QED
  BY <1>2, <1>4, <1>9

(* The last to enter lets the others leave.                                 *)
LEMMA LeaveModeStep ==
  ASSUME IInv, NEW w \in Workers, LeaveMode(w)
  PROVE  IInv'
<1> USE DEF IInv, Types
<1>1. /\ pc[w] = "leaveMode" /\ pc' = [pc EXCEPT ![w] = "leave"]
      /\ mode' = "leave"
      /\ UNCHANGED <<step, synced, passed, error>>
  BY DEF LeaveMode, Go, calls, program
<1>2. Types'
  BY <1>1 DEF Location
<1>3. Counted' = Counted
  BY <1>1 DEF Counted
<1>4. PICK r \in Nat : Entering(r) \/ Leaving(r)
  OBVIOUS
<1>5. Entering(r)
  BY <1>1, <1>4 DEF Leaving, LeaveSide
<1>6. \A v \in Workers \ {w} : pc[v] = "waitLeave"
  BY <1>1, <1>5 DEF Entering, EnterSide, Counted, Outside
<1>7. Leaving(r)'
  BY <1>1, <1>5, <1>6 DEF Entering, EnterSide, Leaving, LeaveSide, Outside
<1>8. QED
  BY <1>1, <1>2, <1>3, <1>7

(* A worker sees that it may leave.                                         *)
LEMMA WaitLeaveStep ==
  ASSUME IInv, NEW w \in Workers, WaitLeave(w)
  PROVE  IInv'
<1> USE DEF IInv, Types
<1>1. /\ mode = "leave" /\ pc[w] = "waitLeave" /\ pc' = [pc EXCEPT ![w] = "leave"]
      /\ UNCHANGED <<step, mode, synced, passed, error>>
  BY DEF WaitLeave, Go, barrier, calls, program
<1>2. Types'
  BY <1>1 DEF Location
<1>3. Counted' = Counted
  BY <1>1 DEF Counted
<1>4. PICK r \in Nat : Leaving(r)
  BY <1>1 DEF Entering
<1>5. Leaving(r)'
  BY <1>1, <1>3, <1>4 DEF Leaving, LeaveSide
<1>6. QED
  BY <1>1, <1>2, <1>3, <1>5

(* The second half of sync.                                                 *)
LEMMA LeaveStep ==
  ASSUME IInv, NEW w \in Workers, Leave(w)
  PROVE  IInv'
<1> USE DEF IInv, Types
<1>1. /\ pc[w] = "leave" /\ pc' = [pc EXCEPT ![w] = pc'[w]]
      /\ pc'[w] = (IF step - 1 = 0 THEN "enterMode" ELSE "waitEnter")
      /\ step' = step - 1
      /\ UNCHANGED <<mode, synced, passed, error>>
  BY DEF Leave, Go, calls, program
<1>2. Counted' = Counted \ {w} /\ w \in Counted
  BY <1>1 DEF Counted
<1>3. step' = Cardinality(Counted') /\ step' \in Nat
  BY <1>1, <1>2, FiniteWorkers DEF Counted
<1>4. Types'
  BY <1>1, <1>3 DEF Location
<1>5. PICK r \in Nat : Entering(r) \/ Leaving(r)
  OBVIOUS
<1>6. Leaving(r)
  BY <1>1, <1>5 DEF Entering, EnterSide, Outside
<1>7. \A v \in Workers : pc[v] # "enterMode"
  BY <1>2, <1>6 DEF Leaving
<1>8. pc'[w] = "enterMode" => Counted' = {}
  BY <1>1, <1>2, <1>3, FiniteWorkers DEF Counted
<1>9. Leaving(r)'
  BY <1>1, <1>6, <1>7, <1>8 DEF Leaving, LeaveSide
<1>10. QED
  BY <1>3, <1>4, <1>9

(* The last to leave lets the others enter.                                 *)
LEMMA EnterModeStep ==
  ASSUME IInv, NEW w \in Workers, EnterMode(w)
  PROVE  IInv'
<1> USE DEF IInv, Types
<1>1. /\ pc[w] = "enterMode" /\ pc' = [pc EXCEPT ![w] = pc'[w]] /\ pc'[w] \in Outside
      /\ mode' = "enter"
      /\ passed' = [passed EXCEPT ![w] = @ + 1]
      /\ UNCHANGED <<step, synced, error>>
  BY ResumeOutside DEF EnterMode, Return, Go, program
<1>2. Types'
  BY <1>1 DEF Location, Outside
<1>3. Counted' = Counted
  BY <1>1 DEF Counted, Outside
<1>4. PICK r \in Nat : Entering(r) \/ Leaving(r)
  OBVIOUS
<1>5. Leaving(r)
  BY <1>1, <1>4 DEF Entering, EnterSide, Outside
<1>6. \A v \in Workers \ {w} : pc[v] = "waitEnter"
  BY <1>1, <1>5 DEF Leaving, LeaveSide, Counted
<1>7. Entering(r + 1)'
  BY <1>1, <1>5, <1>6 DEF Entering, EnterSide, Leaving, LeaveSide, Outside
<1>8. QED
  BY <1>1, <1>2, <1>3, <1>7

(* A worker sees that all have left.                                        *)
LEMMA WaitEnterStep ==
  ASSUME IInv, NEW w \in Workers, WaitEnter(w)
  PROVE  IInv'
<1> USE DEF IInv, Types
<1>1. /\ mode = "enter"
      /\ pc[w] = "waitEnter" /\ pc' = [pc EXCEPT ![w] = pc'[w]] /\ pc'[w] \in Outside
      /\ passed' = [passed EXCEPT ![w] = @ + 1]
      /\ UNCHANGED <<step, mode, synced, error>>
  BY ResumeOutside DEF WaitEnter, Return, Go, barrier, program
<1>2. Types'
  BY <1>1 DEF Location, Outside
<1>3. Counted' = Counted
  BY <1>1 DEF Counted, Outside
<1>4. PICK r \in Nat : Entering(r)
  BY <1>1 DEF Leaving
<1>5. Entering(r)'
  BY <1>1, <1>3, <1>4 DEF Entering, EnterSide, Outside
<1>6. QED
  BY <1>1, <1>2, <1>3, <1>5

(* IInv is inductive.                                                       *)
LEMMA NextIInv == IInv /\ [Next]_vars => IInv'
<1> SUFFICES ASSUME IInv, [Next]_vars PROVE IInv'
  OBVIOUS
<1>1. ASSUME NEW w \in Workers, Sync(w) PROVE IInv'
  BY <1>1, OutsideStep, EnterStep, LeaveModeStep, WaitLeaveStep, LeaveStep,
     EnterModeStep, WaitEnterStep DEF Sync
<1>2. ASSUME NEW w \in Workers, Check(w) PROVE IInv'
  BY <1>2, OutsideStep
<1>3. CASE UNCHANGED vars
  BY <1>3 DEF vars, barrier, calls, program, IInv, Types, Counted, Entering, EnterSide,
              Leaving, LeaveSide
<1>4. QED
  BY <1>1, <1>2, <1>3 DEF Next

(* The barrier separates: no worker has returned from a call of sync that   *)
(* another one has not made, for any number of workers, although step and   *)
(* mode are two atomics and the barrier is used again at once.              *)
THEOREM Separation == Spec => []BarrierSeparates
<1>1. IInv => BarrierSeparates
  <2> SUFFICES ASSUME IInv, NEW v \in Workers, NEW w \in Workers
               PROVE  passed[w] <= synced[v]
    BY DEF BarrierSeparates
  <2>1. PICK r \in Nat : Entering(r) \/ Leaving(r)
    BY DEF IInv
  <2>2. QED
    BY <2>1 DEF Entering, EnterSide, Leaving, LeaveSide
<1>2. QED
  BY InitIInv, NextIInv, <1>1, PTL DEF Spec

-----------------------------------------------------------------------------
(* What check does between the calls of sync, on top of IInv.               *)

Total == nbtxperwrk * nbworkers

(* The decrements that are still to be made, one by one.                    *)
Shares == {d \in Workers \X (1 .. nbtxperwrk) : d[2] <= left[d[1]]}

(* Worker zero has set the counter.                                         *)
IsSet ==
  \/ synced[Zero] >= 2
  \/ synced[Zero] = 1 /\ pc[Zero] \in {"verify", "call"}

(* Which call of sync comes before and after each part, and what is left to *)
(* do there: all before the second call has returned, nothing after the     *)
(* part with the decrements unless an error was found.                      *)
Part(w) ==
  /\ synced[w] <= 3
  /\ pc[w] = "call" => synced[w] <= 2
  /\ pc[w] \in {"set", "verify"} => w = Zero /\ synced[w] = 1
  /\ pc[w] \in {"read", "take"} => synced[w] = 2 /\ ~error[w] /\ left[w] > 0
  /\ pc[w] = "look" => w = Zero /\ synced[w] = 3 /\ ~error[w]
  /\ pc[w] = "end" => synced[w] = 3
  /\ synced[w] <= 1 \/ (synced[w] = 2 /\ passed[w] = 1) => left[w] = nbtxperwrk
  /\ synced[w] = 3 \/ (synced[w] = 2 /\ passed[w] = 2 /\ pc[w] = "call")
       => error[w] \/ left[w] = 0

CheckTypes ==
  /\ sound \in BOOLEAN
  /\ counter \in 0 .. Total
  /\ last \in [Workers -> 0 .. Total]
  /\ left \in [Workers -> 0 .. nbtxperwrk]

CheckInv ==
  /\ CheckTypes
  /\ \A w \in Workers : Part(w)
  /\ IsSet => counter = Cardinality(Shares)
  /\ \A w \in Workers : pc[w] = "take" => counter <= last[w]
  /\ NoFalseAlarm

(* What IInv says to a worker: a call of sync has begun and not returned    *)
(* exactly while it is in the barrier, and no worker is two calls ahead.    *)
LEMMA SyncCalls ==
  ASSUME IInv
  PROVE  /\ Types
         /\ \A w \in Workers :
              synced[w] = (IF pc[w] \in Outside THEN passed[w] ELSE passed[w] + 1)
         /\ \A v, w \in Workers : passed[w] <= synced[v]
<1>1. PICK r \in Nat : Entering(r) \/ Leaving(r)
  BY DEF IInv
<1>2. ASSUME NEW w \in Workers
      PROVE  synced[w] = (IF pc[w] \in Outside THEN passed[w] ELSE passed[w] + 1)
  BY <1>1 DEF Entering, EnterSide, Leaving, LeaveSide, Outside, IInv, Types
<1>3. ASSUME NEW v \in Workers, NEW w \in Workers PROVE passed[w] <= synced[v]
  BY <1>1 DEF Entering, EnterSide, Leaving, LeaveSide, IInv, Types
<1>4. QED
  BY <1>2, <1>3 DEF IInv

(* The shares are finitely many, all of them in the beginning, and one less *)
(* when a worker takes one.                                                 *)
LEMMA FiniteShares ==
  /\ nbworkers \in Nat /\ Total \in Nat /\ nbtxperwrk \in Nat
  /\ IsFiniteSet(Workers \X (1 .. nbtxperwrk))
  /\ Cardinality(Workers \X (1 .. nbtxperwrk)) = Total
  /\ IsFiniteSet(Shares) /\ Cardinality(Shares) \in Nat
<1>1. nbworkers \in Nat /\ nbtxperwrk \in Nat
  BY CheckAssumption, FS_CardinalityType DEF nbworkers
<1>2. IsFiniteSet(1 .. nbtxperwrk) /\ Cardinality(1 .. nbtxperwrk) = nbtxperwrk
  BY <1>1, FS_Interval
<1>3. /\ IsFiniteSet(Workers \X (1 .. nbtxperwrk))
      /\ Cardinality(Workers \X (1 .. nbtxperwrk)) = nbworkers * nbtxperwrk
  BY <1>2, CheckAssumption, FS_Product DEF nbworkers
<1>4. Total = nbworkers * nbtxperwrk /\ Total \in Nat
  BY <1>1 DEF Total
<1>5. Shares \in SUBSET (Workers \X (1 .. nbtxperwrk))
  BY DEF Shares
<1>6. IsFiniteSet(Shares) /\ Cardinality(Shares) \in Nat
  BY <1>3, <1>5, FS_Subset, FS_CardinalityType
<1>7. QED
  BY <1>1, <1>3, <1>4, <1>6

(* A decrement takes one from what is left to do.                           *)
LEMMA TakeShare ==
  ASSUME left \in [Workers -> 0 .. nbtxperwrk], NEW w \in Workers, left[w] > 0,
         left' = [left EXCEPT ![w] = @ - 1]
  PROVE  /\ Cardinality(Shares) > 0
         /\ Cardinality(Shares') = Cardinality(Shares) - 1
<1> DEFINE share == <<w, left[w]>>
<1>1. nbtxperwrk \in Nat /\ left[w] \in 1 .. nbtxperwrk /\ left'[w] = left[w] - 1
  BY CheckAssumption
<1>2. share \in Shares
  BY <1>1 DEF Shares
<1>3. Shares' = Shares \ {share}
  <2>1. ASSUME NEW v \in Workers, NEW i \in 1 .. nbtxperwrk
        PROVE  <<v, i>> \in Shares' <=> <<v, i>> \in Shares /\ <<v, i>> # share
    <3>1. CASE v = w
      BY <1>1, <3>1 DEF Shares
    <3>2. CASE v # w
      BY <3>2 DEF Shares
    <3>3. QED
      BY <3>1, <3>2
  <2>2. Shares' \subseteq Workers \X (1 .. nbtxperwrk) /\ Shares \subseteq Workers \X (1 .. nbtxperwrk)
    BY DEF Shares
  <2>3. QED
    BY <2>1, <2>2
<1>4. IsFiniteSet(Shares) /\ Cardinality(Shares) \in Nat
  BY FiniteShares
<1>5. Cardinality(Shares') = Cardinality(Shares) - 1
  BY <1>2, <1>3, <1>4, FS_RemoveElement
<1>6. Cardinality(Shares) # 0
  BY <1>2, <1>4, FS_EmptySet
<1>7. QED
  BY <1>4, <1>5, <1>6

(* Nothing is shared out in the beginning.                                  *)
LEMMA InitCheckInv == Init => CheckInv
<1> SUFFICES ASSUME Init PROVE CheckInv
  OBVIOUS
<1>1. CheckTypes
  BY FiniteShares DEF Init, CheckTypes
<1>2. \A w \in Workers : Part(w)
  BY FiniteShares DEF Init, Part
<1>3. ~IsSet
  BY CheckAssumption DEF Init, IsSet
<1>4. QED
  BY <1>1, <1>2, <1>3 DEF Init, CheckInv, NoFalseAlarm

(* Inside of the barrier nothing happens to what check has.                 *)
LEMMA BarrierCheckInv ==
  ASSUME IInv, CheckInv, NEW w \in Workers,
         Call(w) \/ Enter(w) \/ LeaveMode(w) \/ WaitLeave(w) \/ Leave(w)
  PROVE  CheckInv'
<1>1. /\ UNCHANGED <<sound, counter, last, left, error, passed>>
      /\ pc' = [pc EXCEPT ![w] = pc'[w]] /\ pc'[w] \notin Outside
      /\ \/ pc[w] = "call" /\ synced' = [synced EXCEPT ![w] = @ + 1]
         \/ pc[w] \notin Outside /\ synced' = synced
  BY SyncCalls DEF Types, Call, Enter, LeaveMode, WaitLeave, Leave, Go, Outside, calls, program
<1>2. /\ Types /\ CheckTypes /\ \A v \in Workers : Part(v)
      /\ synced[w] = (IF pc[w] \in Outside THEN passed[w] ELSE passed[w] + 1)
  BY SyncCalls DEF CheckInv
<1>3. \A v \in Workers : Part(v)'
  BY <1>1, <1>2 DEF Part, Types, Outside, CheckTypes
<1>4. IsSet' => IsSet /\ Shares' = Shares
  BY <1>1, <1>2, CheckAssumption DEF IsSet, Shares, Types, Outside
<1>5. QED
  BY <1>1, <1>2, <1>3, <1>4 DEF CheckInv, CheckTypes, NoFalseAlarm, Types, Outside

(* A call of sync returns: check goes on where the calls it has made say.   *)
LEMMA ReturnCheckInv ==
  ASSUME IInv, CheckInv, NEW w \in Workers, EnterMode(w) \/ WaitEnter(w)
  PROVE  CheckInv'
<1>1. /\ UNCHANGED <<sound, counter, last, left, error, synced>>
      /\ pc[w] \notin Outside
      /\ pc' = [pc EXCEPT ![w] = Resume(w)]
      /\ passed' = [passed EXCEPT ![w] = @ + 1]
  BY DEF EnterMode, WaitEnter, Return, Go, Outside, barrier, program
<1>2. /\ Types /\ CheckTypes /\ \A v \in Workers : Part(v)
      /\ synced[w] = passed[w] + 1
  BY <1>1, SyncCalls DEF CheckInv
<1>3. pc'[w] = Resume(w) /\ \A v \in Workers \ {w} : pc'[v] = pc[v]
  BY <1>1, <1>2 DEF Types
<1>4. Part(w)'
  <2>1. synced[w] \in 1 .. 3 /\ passed'[w] = synced[w]
    BY <1>1, <1>2 DEF Part, Types
  <2>2. left[w] \in 0 .. nbtxperwrk /\ error[w] \in BOOLEAN
    BY <1>2 DEF CheckTypes, Types
  <2>3. synced[w] \in {1, 2} => left[w] = nbtxperwrk
    BY <1>2, <2>1 DEF Part, Types
  <2>4. synced[w] = 3 => error[w] \/ left[w] = 0
    BY <1>2 DEF Part
  <2>5. QED
    BY <1>1, <1>3, <2>1, <2>2, <2>3, <2>4, FiniteShares DEF Part, Resume
<1>5. \A v \in Workers : Part(v)'
  BY <1>1, <1>2, <1>3, <1>4 DEF Part, Types
<1>6. IsSet' => IsSet /\ Shares' = Shares
  <2>1. synced'[Zero] = synced[Zero] /\ synced[Zero] \in Nat
    BY <1>1, <1>2, CheckAssumption DEF Types
  <2>2. CASE w # Zero
    BY <1>1, <1>3, <2>1, <2>2, CheckAssumption DEF IsSet, Shares
  <2>3. CASE w = Zero
    BY <1>1, <1>3, <2>1, <2>3 DEF IsSet, Shares, Resume
  <2>4. QED
    BY <2>2, <2>3
<1>7. \A v \in Workers : pc'[v] = "take" => pc[v] = "take"
  BY <1>1, <1>3 DEF Resume
<1>8. QED
  BY <1>1, <1>2, <1>5, <1>6, <1>7 DEF CheckInv, CheckTypes, NoFalseAlarm

(* Until the second call of sync has returned to somebody all shares are    *)
(* there, and nobody takes one.                                             *)
LEMMA NobodyTakesYet ==
  ASSUME IInv, CheckInv, synced[Zero] = 1
  PROVE  /\ Cardinality(Shares) = Total
         /\ \A v \in Workers : pc[v] \notin {"read", "take"}
<1>1. /\ Types /\ CheckTypes /\ \A v \in Workers : Part(v) /\ passed[v] <= 1
      /\ \A v \in Workers : synced[v] \in {passed[v], passed[v] + 1}
      /\ \A v \in Workers : pc[v] \in Outside => synced[v] = passed[v]
  BY SyncCalls, CheckAssumption DEF CheckInv
<1>2. \A v \in Workers : left[v] = nbtxperwrk
  BY <1>1 DEF Part, Types
<1>3. \A v \in Workers : pc[v] \notin {"read", "take"}
  BY <1>1 DEF Part, Types, Outside
<1>4. Shares = Workers \X (1 .. nbtxperwrk)
  <2>1. \A d \in Workers \X (1 .. nbtxperwrk) : d[1] \in Workers /\ d[2] \in 1 .. nbtxperwrk
    OBVIOUS
  <2>2. \A d \in Workers \X (1 .. nbtxperwrk) : d[2] <= left[d[1]]
    BY <1>2, <2>1, FiniteShares
  <2>3. QED
    BY <2>2 DEF Shares
<1>5. QED
  BY <1>3, <1>4, FiniteShares

(* The counter is set to all the shares.                                    *)
LEMMA SetCheckInv ==
  ASSUME IInv, CheckInv, NEW w \in Workers, Set(w)
  PROVE  CheckInv'
<1>1. /\ pc[w] = "set" /\ pc' = [pc EXCEPT ![w] = "verify"]
      /\ counter' = Total
      /\ UNCHANGED <<sound, last, left, error, synced, passed>>
  BY DEF Set, Go, Total, calls, program
<1>2. Types /\ CheckTypes /\ \A v \in Workers : Part(v)
  BY SyncCalls DEF CheckInv
<1>3. w = Zero /\ synced[Zero] = 1
  BY <1>1, <1>2 DEF Part
<1>4. Shares' = Shares
  BY <1>1 DEF Shares
<1>5. Cardinality(Shares) = Total /\ \A v \in Workers : pc[v] # "take"
  BY <1>3, NobodyTakesYet
<1>6. \A v \in Workers : Part(v)'
  BY <1>1, <1>2 DEF Part, Types
<1>7. CheckTypes'
  BY <1>1, <1>2, FiniteShares DEF CheckTypes
<1>8. QED
  BY <1>1, <1>2, <1>4, <1>5, <1>6, <1>7 DEF CheckInv, NoFalseAlarm, Types

(* It is what was set.                                                      *)
LEMMA VerifyCheckInv ==
  ASSUME IInv, CheckInv, NEW w \in Workers, Verify(w)
  PROVE  CheckInv'
<1>1. PICK found \in Finds(counter # Total) :
        /\ pc[w] = "verify" /\ pc' = [pc EXCEPT ![w] = "call"]
        /\ error' = [error EXCEPT ![w] = found]
        /\ UNCHANGED <<sound, counter, last, left, synced, passed>>
  BY DEF Verify, Go, Total, calls
<1>2. Types /\ CheckTypes /\ \A v \in Workers : Part(v)
  BY SyncCalls DEF CheckInv
<1>3. w = Zero /\ synced[Zero] = 1
  BY <1>1, <1>2 DEF Part
<1>4. IsSet /\ Shares' = Shares
  BY <1>1, <1>3 DEF IsSet, Shares
<1>5. counter = Total
  BY <1>3, <1>4, NobodyTakesYet DEF CheckInv
<1>6. found \in BOOLEAN /\ (sound => ~found)
  BY <1>5 DEF Finds
<1>7. \A v \in Workers : Part(v)'
  BY <1>1, <1>2, <1>3 DEF Part, Types
<1>8. NoFalseAlarm'
  BY <1>1, <1>2, <1>6 DEF NoFalseAlarm, Types, CheckInv
<1>9. CheckTypes' /\ \A v \in Workers : pc'[v] = "take" => counter' <= last'[v]
  BY <1>1, <1>2 DEF CheckInv, CheckTypes, Types
<1>10. QED
  BY <1>1, <1>4, <1>7, <1>8, <1>9 DEF CheckInv

(* What is read is remembered.                                              *)
LEMMA ReadCheckInv ==
  ASSUME IInv, CheckInv, NEW w \in Workers, Read(w)
  PROVE  CheckInv'
<1>1. /\ pc[w] = "read" /\ pc' = [pc EXCEPT ![w] = "take"]
      /\ last' = [last EXCEPT ![w] = counter]
      /\ UNCHANGED <<sound, counter, left, error, synced, passed>>
  BY DEF Read, Go, calls
<1>2. Types /\ CheckTypes /\ \A v \in Workers : Part(v)
  BY SyncCalls DEF CheckInv
<1>3. \A v \in Workers : Part(v)'
  BY <1>1, <1>2 DEF Part, Types
<1>4. (IsSet' => IsSet) /\ Shares' = Shares
  BY <1>1, <1>2, CheckAssumption DEF IsSet, Shares, Types
<1>5. CheckTypes' /\ \A v \in Workers : pc'[v] = "take" => counter' <= last'[v]
  BY <1>1, <1>2, FiniteShares DEF CheckInv, CheckTypes, Types
<1>6. QED
  BY <1>1, <1>3, <1>4, <1>5 DEF CheckInv, NoFalseAlarm

(* The counter and what is left go down together.                           *)
LEMMA TakeCheckInv ==
  ASSUME IInv, CheckInv, NEW w \in Workers, Take(w)
  PROVE  CheckInv'
<1>1. /\ Types /\ CheckTypes /\ \A v \in Workers : Part(v)
      /\ UNCHANGED <<sound, last, synced, passed>>
      /\ pc[w] = "take" /\ pc' = [pc EXCEPT ![w] = pc'[w]] /\ pc'[w] \in {"read", "call"}
  BY SyncCalls DEF CheckInv, Take, Go, Types, calls
<1>2. IsSet
  <2>1. synced[w] = 2 /\ passed[w] = 2
    BY <1>1, SyncCalls DEF Part, Outside
  <2>2. passed[w] <= synced[Zero]
    BY SyncCalls, CheckAssumption
  <2>3. QED
    BY <2>1, <2>2 DEF IsSet
<1>3. counter = Cardinality(Shares) /\ counter <= last[w] /\ left[w] > 0
  BY <1>1, <1>2 DEF CheckInv, Part
<1>4. PICK found \in Finds(counter > last[w]) :
        IF found
          THEN /\ Go(w, "take", "call")
               /\ error' = [error EXCEPT ![w] = TRUE]
               /\ UNCHANGED <<counter, left>>
          ELSE /\ Go(w, "take", IF left[w] > 1 THEN "read" ELSE "call")
               /\ counter' = counter - 1
               /\ left' = [left EXCEPT ![w] = @ - 1]
               /\ UNCHANGED error
  BY DEF Take
<1>5. sound => ~found
  <2>1. counter \in Int /\ last[w] \in Int
    BY <1>1, FiniteShares DEF CheckTypes
  <2>2. ~(counter > last[w])
    BY <1>3, <2>1
  <2>3. QED
    BY <2>2, <1>4 DEF Finds
<1>6. CASE found
  <2>1. /\ pc' = [pc EXCEPT ![w] = "call"] /\ error' = [error EXCEPT ![w] = TRUE]
        /\ UNCHANGED <<counter, left>>
    BY <1>4, <1>6 DEF Go
  <2>2. \A v \in Workers : Part(v)'
    BY <1>1, <2>1 DEF Part, Types
  <2>3. Shares' = Shares
    BY <2>1 DEF Shares
  <2>4. CheckTypes' /\ \A v \in Workers : pc'[v] = "take" => counter' <= last'[v]
    BY <1>1, <2>1 DEF CheckTypes, CheckInv, Types
  <2>5. QED
    BY <1>1, <1>3, <1>5, <1>6, <2>1, <2>2, <2>3, <2>4 DEF CheckInv, NoFalseAlarm
<1>7. CASE ~found
  <2>1. /\ pc' = [pc EXCEPT ![w] = IF left[w] > 1 THEN "read" ELSE "call"]
        /\ counter' = counter - 1
        /\ left' = [left EXCEPT ![w] = @ - 1]
        /\ error' = error
    BY <1>4, <1>7 DEF Go
  <2>2. Cardinality(Shares) > 0 /\ Cardinality(Shares') = Cardinality(Shares) - 1
    BY <1>1, <1>3, <2>1, TakeShare DEF CheckTypes
  <2>3. CheckTypes' /\ \A v \in Workers : pc'[v] = "take" => counter' <= last'[v]
    BY <1>1, <1>3, <2>1, <2>2, FiniteShares DEF CheckTypes, CheckInv, Types
  <2>4. \A v \in Workers : Part(v)'
    <3>1. /\ left[w] \in 0 .. nbtxperwrk /\ left'[w] = left[w] - 1
          /\ pc'[w] = (IF left[w] > 1 THEN "read" ELSE "call")
      BY <1>1, <2>1 DEF CheckTypes, Types
    <3>2. synced[w] = 2 /\ passed[w] = 2 /\ ~error[w]
      BY <1>1, SyncCalls DEF Part, Outside
    <3>3. Part(w)'
      BY <1>1, <1>3, <2>1, <3>1, <3>2, FiniteShares DEF Part
    <3>4. ASSUME NEW v \in Workers \ {w} PROVE Part(v)'
      BY <1>1, <2>1 DEF Part, Types, CheckTypes
    <3>5. QED
      BY <3>3, <3>4
  <2>5. QED
    BY <1>1, <1>3, <2>1, <2>2, <2>3, <2>4 DEF CheckInv, NoFalseAlarm
<1>8. QED
  BY <1>6, <1>7

(* The counter is zero when nothing is left.                                *)
LEMMA LookCheckInv ==
  ASSUME IInv, CheckInv, NEW w \in Workers, Look(w)
  PROVE  CheckInv'
<1>1. PICK found \in Finds(counter # 0) :
        /\ pc[w] = "look" /\ pc' = [pc EXCEPT ![w] = "end"]
        /\ error' = [error EXCEPT ![w] = found]
        /\ UNCHANGED <<sound, counter, last, left, synced, passed>>
  BY DEF Look, Go, calls
<1>2. Types /\ CheckTypes /\ \A v \in Workers : Part(v)
  BY SyncCalls DEF CheckInv
<1>3. w = Zero /\ synced[Zero] = 3 /\ passed[Zero] = 3
  BY <1>1, <1>2, SyncCalls DEF Part, Outside
<1>4. IsSet /\ Shares' = Shares
  BY <1>1, <1>3 DEF IsSet, Shares
<1>5. sound => counter = 0
  <2> SUFFICES ASSUME sound PROVE counter = 0
    OBVIOUS
  <2>1. ASSUME NEW v \in Workers PROVE left[v] = 0
    <3>1. synced[v] = 3
      BY <1>2, <1>3, SyncCalls, CheckAssumption DEF Part, Types
    <3>2. QED
      BY <1>2, <3>1 DEF Part, CheckInv, NoFalseAlarm
  <2>2. ASSUME NEW d \in Shares PROVE FALSE
    <3>1. d[1] \in Workers /\ d[2] \in 1 .. nbtxperwrk /\ d[2] <= left[d[1]]
      BY DEF Shares
    <3>2. QED
      BY <3>1, <2>1, FiniteShares
  <2>3. Shares = {}
    BY <2>2
  <2>4. QED
    BY <1>4, <2>3, FS_EmptySet DEF CheckInv
<1>6. found \in BOOLEAN /\ (sound => ~found)
  BY <1>1, <1>5 DEF Finds
<1>7. \A v \in Workers : Part(v)'
  BY <1>1, <1>2, <1>3, <1>5, <1>6 DEF Part, Types
<1>8. NoFalseAlarm'
  BY <1>1, <1>2, <1>6 DEF NoFalseAlarm, Types, CheckInv
<1>9. CheckTypes' /\ \A v \in Workers : pc'[v] = "take" => counter' <= last'[v]
  BY <1>1, <1>2 DEF CheckInv, CheckTypes, Types
<1>10. QED
  BY <1>1, <1>4, <1>7, <1>8, <1>9 DEF CheckInv

(* CheckInv is inductive, together with IInv.                               *)
LEMMA NextCheckInv == IInv /\ CheckInv /\ [Next]_vars => CheckInv'
<1> SUFFICES ASSUME IInv, CheckInv, [Next]_vars PROVE CheckInv'
  OBVIOUS
<1>1. ASSUME NEW w \in Workers, Sync(w) PROVE CheckInv'
  BY <1>1, BarrierCheckInv, ReturnCheckInv DEF Sync
<1>2. ASSUME NEW w \in Workers, Check(w) PROVE CheckInv'
  BY <1>2, SetCheckInv, VerifyCheckInv, ReadCheckInv, TakeCheckInv, LookCheckInv DEF Check
<1>3. CASE UNCHANGED vars
  BY <1>3 DEF vars, barrier, calls, program, CheckInv, CheckTypes, Part, IsSet, Shares,
              NoFalseAlarm
<1>4. QED
  BY <1>1, <1>2, <1>3 DEF Next

(* IInv and CheckInv together are inductive.                                *)
THEOREM CheckInductive == Spec => [](IInv /\ CheckInv)
<1>1. Init => IInv /\ CheckInv
  BY InitIInv, InitCheckInv
<1>2. IInv /\ CheckInv /\ [Next]_vars => (IInv /\ CheckInv)'
  BY NextIInv, NextCheckInv
<1>3. QED
  BY <1>1, <1>2, PTL DEF Spec

(* TypeOK: step and the shared counter never go below zero and never exceed *)
(* what they count, even if the memory under test breaks its promise.       *)
THEOREM TypeCorrect == Spec => []TypeOK
<1>1. IInv /\ CheckInv => TypeOK
  <2> SUFFICES ASSUME IInv, CheckInv PROVE TypeOK
    OBVIOUS
  <2>1. Types /\ CheckTypes /\ \A w \in Workers : synced[w] \in 0 .. 3 /\ passed[w] \in 0 .. 3
    BY SyncCalls DEF CheckInv, Part, Types
  <2>2. mode \in {"enter", "leave"}
    BY DEF IInv, Entering, Leaving
  <2>3. step \in 0 .. nbworkers
    <3>1. Counted \in SUBSET Workers
      BY DEF Counted
    <3>2. Cardinality(Counted) <= nbworkers
      BY <3>1, CheckAssumption, FS_Subset DEF nbworkers
    <3>3. QED
      BY <2>1, <3>2, FiniteShares DEF IInv, Types
  <2>4. synced \in [Workers -> 0 .. 3] /\ passed \in [Workers -> 0 .. 3]
    BY <2>1 DEF Types
  <2>5. counter \in 0 .. nbtxperwrk * nbworkers /\ last \in [Workers -> 0 .. nbtxperwrk * nbworkers]
    BY <2>1 DEF CheckTypes, Total
  <2>6. QED
    BY <2>1, <2>2, <2>3, <2>4, <2>5 DEF TypeOK, Types, CheckTypes
<1>2. QED
  BY CheckInductive, <1>1, PTL

(* NoFalseAlarm: if the transactions of the memory under test are atomic,   *)
(* check reports no inconsistency, for any number of workers and decrements *)
(* and however the workers interleave.                                      *)
THEOREM SoundMemoryPasses == Spec => []NoFalseAlarm
<1>1. IInv /\ CheckInv => NoFalseAlarm
  BY DEF CheckInv
<1>2. QED
  BY CheckInductive, <1>1, PTL

-----------------------------------------------------------------------------
(* The inductive invariant of the workload: the bank is as run keeps it,    *)
(* the words are as the round of initialisation has them, or are the bank's *)
(* along a chain of blocks, and nobody has missed init_balance.             *)
WorkInv ==
  /\ BankInv
  /\ round \in {"init", "run", "check"}
  /\ round = "init" => InitInv
  /\ round # "init" => \E c : Reads(c)
  /\ \A w \in RunWorkers : ready[w] # "wrong"

(* The invariant holds in the beginning.                                    *)
LEMMA InitWorkInv == WorkloadInit => WorkInv
<1> SUFFICES ASSUME WorkloadInit PROVE WorkInv
  OBVIOUS
<1>1. round = "init" /\ Accounts!Init
  BY DEF WorkloadInit
<1>2. InitInv
  BY <1>1, InitInitInv
<1>3. BankInv
  BY <1>2, InitBankInv DEF InitInv
<1>4. \A w \in RunWorkers : ready[w] # "wrong"
  BY <1>1 DEF Accounts!Init
<1>5. QED
  BY <1>1, <1>2, <1>3, <1>4 DEF WorkInv

(* Every step preserves it, and is a step of the bank or changes nothing    *)
(* of it.                                                                   *)
LEMMA NextWorkInv ==
  WorkInv /\ [WorkloadNext]_allVars => WorkInv' /\ [Accounts!Bank!Next]_(Accounts!Bank!vars)
<1> SUFFICES ASSUME WorkInv, [WorkloadNext]_allVars
             PROVE  WorkInv' /\ [Accounts!Bank!Next]_(Accounts!Bank!vars)
  OBVIOUS
<1>1. ASSUME UNCHANGED <<round, accountVars>>
      PROVE  WorkInv' /\ UNCHANGED Accounts!Bank!vars
  <2>1. UNCHANGED Accounts!Bank!vars
    BY <1>1 DEF accountVars, Accounts!Bank!vars
  <2>2. BankInv'
    BY <2>1, NextBankInv DEF WorkInv
  <2>3. round # "init" => \E c : Reads(c)'
    BY <1>1 DEF WorkInv, Reads, accountVars
  <2>4. round = "init" => InitInv'
    BY <1>1, BankStaysInit DEF WorkInv, InitInv, accountVars
  <2>5. QED
    BY <1>1, <2>1, <2>2, <2>3, <2>4 DEF WorkInv, accountVars
<1>2. CASE NextRound
  <2>1. round = "init" /\ InitInv /\ Accounts!Initialised /\ round' \in {"run", "check"}
    BY <1>2 DEF NextRound, WorkInv
  <2>2. Reads(<<Start>>)' /\ UNCHANGED Accounts!Bank!vars /\ UNCHANGED ready
    BY <2>1, InitialisedStep
  <2>3. BankInv'
    BY <2>2, NextBankInv DEF WorkInv
  <2>4. QED
    BY <2>1, <2>2, <2>3 DEF WorkInv
<1>3. ASSUME NEW w \in RunWorkers, InitStep(w)
      PROVE  WorkInv' /\ UNCHANGED Accounts!Bank!vars
  <2>1. round = "init" /\ round' = round /\ InitInv
        /\ (Accounts!InitWrite(w) \/ Accounts!InitLook(w))
    BY <1>3 DEF InitStep, WorkInv
  <2>2. InitInv'
    BY <2>1, InitWriteStep, InitLookStep
  <2>3. UNCHANGED Accounts!Bank!vars
    BY <2>1 DEF Accounts!InitWrite, Accounts!InitLook, Accounts!Prepare, Accounts!Bank!vars
  <2>4. BankInv'
    BY <2>3, NextBankInv DEF WorkInv
  <2>5. \A v \in RunWorkers : ready'[v] # "wrong"
    BY <2>2 DEF InitInv
  <2>6. QED
    BY <2>1, <2>2, <2>3, <2>4, <2>5 DEF WorkInv
<1>4. ASSUME NEW w \in RunWorkers, RunStep(w)
      PROVE  WorkInv' /\ Accounts!Bank!Next
  <2>1. round = "run" /\ round' = round /\ Accounts!Run(w) /\ BankInv /\ \E c : Reads(c)
    BY <1>4 DEF RunStep, WorkInv
  <2>2. PICK c : Reads(c)
    BY <2>1
  <2>3. (\E d : Reads(d)') /\ Accounts!Bank!Next /\ UNCHANGED ready
    BY <2>1, <2>2, RunSteps
  <2>4. BankInv'
    BY <2>1, <2>3, NextBankInv
  <2>5. QED
    BY <2>1, <2>3, <2>4 DEF WorkInv
<1>5. ASSUME NEW w \in Workers, CheckStep(w)
      PROVE  UNCHANGED <<round, accountVars>>
  BY <1>5 DEF CheckStep
<1>6. CASE UNCHANGED allVars
  BY <1>1, <1>6 DEF allVars
<1>7. QED
  BY <1>1, <1>2, <1>3, <1>4, <1>5, <1>6 DEF WorkloadNext, NextRound

(* WorkInv is an inductive invariant of the workload.                       *)
THEOREM WorkloadInductive == WorkloadSpec => []WorkInv
BY InitWorkInv, NextWorkInv, PTL DEF WorkloadSpec

(* RefinesBank: what the transactions of run do to the words of the shared  *)
(* memory, through opaque pointers and in segments that come new or again   *)
(* from the allocator, is what Bank.tla says of the accounts, for every     *)
(* number of accounts, workers and transactions and every set of blocks.    *)
THEOREM WordsAreTheBank == WorkloadSpec => RefinesBank
<1>1. WorkloadInit => Accounts!Bank!Init
  BY DEF WorkloadInit, Accounts!Init
<1>2. WorkInv /\ [WorkloadNext]_allVars => [Accounts!Bank!Next]_(Accounts!Bank!vars)
  BY NextWorkInv
<1>3. QED
  BY WorkloadInductive, <1>1, <1>2, PTL DEF WorkloadSpec, RefinesBank, Accounts!Bank!Spec

(* Rounds of checks in the workload behave as CounterCheck.tla says, so     *)
(* that its theorems are about them.                                        *)
THEOREM WorkloadChecks == WorkloadSpec => Spec
<1>1. WorkloadInit => Init
  BY DEF WorkloadInit
<1>2. [WorkloadNext]_allVars => [Next]_vars
  BY DEF WorkloadNext, NextRound, InitStep, RunStep, CheckStep, Next, allVars
<1>3. QED
  BY <1>1, <1>2, PTL DEF WorkloadSpec, Spec

(* BarrierSeparates and NoFalseAlarm, of the checks in the workload.        *)
THEOREM WorkloadSeparates == WorkloadSpec => [](BarrierSeparates /\ NoFalseAlarm)
BY WorkloadChecks, Separation, SoundMemoryPasses, PTL

(* NothingWrong: no worker finds an account overdrawn or money gained or    *)
(* lost, and init finds what has been written; all variables keep their     *)
(* types and every segment but the last one is full.                        *)
THEOREM RunFindsNothingWrong == WorkloadSpec => []NothingWrong
<1>1. WorkInv /\ TypeOK => NothingWrong
  BY BankInvSays DEF WorkInv, NothingWrong, WorkloadTypeOK
<1>2. QED
  BY WorkloadInductive, WorkloadChecks, TypeCorrect, <1>1, PTL

(* The blocks of live segments.                                             *)
LEMMA LiveBlocks ==
  ASSUME WorkInv
  PROVE  /\ live \subseteq Blocks /\ \A b \in live : Aligned(b)
         /\ \A b, d \in live : b # d => Accounts!Apart(b, d, Size)
<1>1. CASE round = "init"
  BY <1>1, StartIs DEF WorkInv, InitInv
<1>2. CASE round # "init"
  <2>1. PICK c : Reads(c)
    BY <1>2 DEF WorkInv
  <2>2. \A k \in DOMAIN c : c[k] \in Blocks /\ Aligned(c[k])
    BY <2>1, ChainFits DEF Reads, Chained
  <2>3. QED
    BY <2>1, <2>2 DEF Reads
<1>3. QED
  BY <1>1, <1>2

(* PointersLead: the pointer to every word of every live segment is taken   *)
(* apart to that segment and that word, and the copies of a segment stay    *)
(* in its block.                                                            *)
THEOREM PointersLeadBack == WorkloadSpec => []PointersLead
<1>1. WorkInv => PointersLead
  <2> SUFFICES ASSUME WorkInv, NEW block \in live
               PROVE  LET segment == Ptr(block)
                          end == Accounts!write(block, Size) + Size
                      IN /\ \A o \in Offsets :
                              /\ Accounts!get_opaque_ptr_seg(segment + o) = block
                              /\ Accounts!get_opaque_ptr_word_offset(segment + o, Size) = o
                         /\ \A other \in live \ {block} : block < other => end <= other
    BY DEF PointersLead, Accounts!PointersLead, Ptr, Size, Offsets
  <2>1. /\ block \in Blocks /\ Aligned(block) /\ block \in Nat
        /\ \A d \in live : d \in Nat /\ (block # d => Accounts!Apart(block, d, Size))
    BY LiveBlocks, BankAssumption
  <2>2. \A o \in Offsets : /\ Accounts!get_opaque_ptr_seg(Ptr(block) + o) = block
                           /\ Accounts!get_opaque_ptr_word_offset(Ptr(block) + o, Size) = o
    BY <2>1, Words, PointerLeadsBack DEF Aligned
  <2>3. Accounts!write(block, Size) + Size <= block + Whole /\ Whole \in Nat
    BY <2>1, Sizes, BlockSize, BankAssumption
  <2>4. \A other \in live \ {block} :
          block < other => Accounts!write(block, Size) + Size <= other
    <3>1. ASSUME NEW other \in live \ {block}, block < other
          PROVE  Accounts!write(block, Size) + Size <= other
      <4>1. other \in Nat /\ (block + Whole <= other \/ other + Whole <= block)
        BY <2>1, <3>1 DEF Accounts!Apart, Whole
      <4>2. Accounts!write(block, Size) + Size \in Nat
        BY <2>1, Sizes, BankAssumption
      <4>3. QED
        BY <2>1, <2>3, <3>1, <4>1, <4>2
    <3>2. QED
      BY <3>1
  <2>5. QED
    BY <2>2, <2>4
<1>2. QED
  BY WorkloadInductive, <1>1, PTL

==============================================================================

-------------------------------- MODULE Layout --------------------------------
(***************************************************************************)
(* template/segment.h, segment.c and common.h: how a segment is laid out   *)
(* in its block of memory, and the opaque pointers that lead back to it.   *)
(*                                                                         *)
(* A block holds the segment_t, the control words, the read copy and the   *)
(* write copy. It is aligned to its own size, a power of two, whose        *)
(* exponent the pointers to the read copy carry in their upper bits.       *)
(* Addresses are those of a 64-bit machine with shorter pointers.          *)
(***************************************************************************)
EXTENDS Integers

CONSTANTS
  align,       \* alignment of the shared memory and size of its words, not 0
  PointerBits  \* 48 in the code: the bits of a pointer below the exponent

sizeof_segment_t == 112
sizeof_control_t == 16

(* The number of bits of x - 1, for x > 1. *)
pow2_exp(x) == CHOOSE e \in 0 .. PointerBits : x <= 2 ^ e /\ 2 ^ e < 2 * x

next_pow2(x) == 2 ^ pow2_exp(x)

fst_aligned_offset ==
  LET ratio == sizeof_segment_t \div align
      is_multiple == IF sizeof_segment_t % align = 0 THEN 0 ELSE 1
  IN ratio * align + align * is_multiple

-----------------------------------------------------------------------------
(* alloc_segment: the parts of a segment of the given size.                 *)
control_size(size) == (size \div align) * sizeof_control_t
seg_size(size) == fst_aligned_offset + control_size(size) + size * 2

control(seg) == seg + fst_aligned_offset
read(seg, size) == control(seg) + control_size(size)
write(seg, size) == read(seg, size) + size

(* Faulty: the block is aligned as the memory is, not to its own size.      *)
AlignedToWord(block, size) == block % align = 0

(* posix_memalign aligns the block to its size ...                          *)
Aligned(block, size) == block % next_pow2(seg_size(size)) = 0

(* ... and gives out no byte twice.                                         *)
Apart(block, other, size) ==
  block + next_pow2(seg_size(size)) <= other \/ other + next_pow2(seg_size(size)) <= block

-----------------------------------------------------------------------------
(* Opaque pointers; an exponent is or-ed to a pointer that has not its bits. *)
cons_opaque_ptr(exp, ptr) == ptr + exp * 2 ^ PointerBits

cons_opaque_ptr_for_seg(seg, size) ==
  cons_opaque_ptr(pow2_exp(seg_size(size)), read(seg, size))

get_opaque_ptr_word(ptr) == ptr % 2 ^ PointerBits

(* The mask clears the bits of an address within its block.                 *)
get_opaque_ptr_seg(ptr) ==
  LET exp == ptr \div 2 ^ PointerBits
      word == get_opaque_ptr_word(ptr)
  IN word - (word % 2 ^ exp)

(* get_word_seg_offset *)
get_opaque_ptr_word_offset(ptr, size) ==
  get_opaque_ptr_word(ptr) - read(get_opaque_ptr_seg(ptr), size)

==============================================================================

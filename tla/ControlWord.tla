------------------------------ MODULE ControlWord ------------------------------
(***************************************************************************)
(* control_t of template/segment.h: what the transactions of an epoch leave *)
(* at every word, and the tests of template/tm.c that read it.  The         *)
(* spinlock of the structure makes each of these tests, with its effect,    *)
(* one step.                                                                *)
(*                                                                          *)
(* access is the transaction that came first, written says that it may      *)
(* write, many_accesses (many) that others have read the word as well.      *)
(***************************************************************************)
CONSTANT NoTx   \* 0 in the code: no transaction has come yet

FreeWord == [access |-> NoTx, written |-> FALSE, many |-> FALSE]

(* Faulty variants, here and in the modules that use this one, are what the *)
(* runs must notice: a reader sees what another transaction writes.         *)
CanReadAlways(c, x) == TRUE

CanRead(c, x) == c.written => c.access = x

CanWriteIfOwner(c, x) == c.access \in {NoTx, x}   \* faulty: overlooks readers

CanWriteFree(c, x) == c = FreeWord      \* faulty: not even one's own words

CanWrite(c, x) == (c.written => c.access = x) /\ c.access \in {NoTx, x} /\ ~c.many

(* CAS(&access, 0, x) *)
Claim(c, x) == IF c.access = NoTx THEN [c EXCEPT !.access = x] ELSE c

ReadMarkAlone(c, x) == IF c.written THEN c ELSE Claim(c, x)   \* faulty

(* What can_read_word and can_write_word leave behind, granted or not.      *)
ReadMark(c, x) ==
  IF c.written THEN c
  ELSE [Claim(c, x) EXCEPT !.many = @ \/ Claim(c, x).access # x]

WriteMark(c, x) ==
  IF c.written THEN c
  ELSE [Claim(c, x) EXCEPT !.written = CanWrite(c, x)]

(* rollback_transaction takes back what x has written. *)
IsUndoneBy(c, x) == c.written /\ c.access = x

HandBack(c) == [access |-> NoTx, written |-> FALSE, many |-> c.many]
================================================================================

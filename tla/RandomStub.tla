----------------------------- MODULE RandomStub -----------------------------
(* The body stub_random (stub_wasi.rs) gives wasi:random/random            *)
(* get-random-bytes when the random feature is disabled: a block from      *)
(* cabi_realloc is filled with 64-bit pseudorandom words in a do-while     *)
(* loop, and a list of num_bytes of it is returned through retptr.         *)
(* Addresses and lengths are wasm's i32, whose arithmetic wraps.           *)
EXTENDS Integers

CONSTANT Words     \* number of i32 values: 2^32, fewer for TLC

ASSUME WordsAssumption == Words \in Nat /\ Words > 8 /\ Words % 8 = 0

VARIABLES
  pc,         \* "start", "loop" or "done"
  num_bytes,  \* the length asked for, wrapped to an i32
  outptr,     \* the block cabi_realloc returned
  size,       \* its size
  curptr,     \* where the next word goes
  filled      \* addresses that hold random data

vars == <<pc, num_bytes, outptr, size, curptr, filled>>

Address == 0..Words - 1

(* Mutant: the arithmetic is wider than an i32. *)
Unwrapped(n) == n

(* i32 arithmetic, and i32_wrap_i64. *)
Wrap(n) == n % Words

(* The engine asks for bytes to fill a buffer it already has, so a request *)
(* leaves room in the address space: rounding it up does not wrap.         *)
Request == 0..Words - 9

(* The addresses of the word stored at p. *)
Word(p) == {Wrap(p + i) : i \in 0..7}

(* Mutant: rounded down to a multiple of 8. *)
RoundedDown(n) == Wrap((n \div 8) * 8)

(* "len rounded up to 8 bytes": a shift right, a shift left and an add.    *)
RoundedUp(n) == Wrap(Wrap((n \div 8) * 8) + 8)

(* Mutants: the loop stops a word early; it looks for the exact end.       *)
UntilLastWord(cur) == Wrap(cur - outptr) < (num_bytes \div 8) * 8
UntilExactEnd(cur) == Wrap(cur - outptr) # num_bytes

(* The condition of br_if: another pass is needed from cur.                *)
MoreToFill(cur) == Wrap(cur - outptr) < num_bytes

Init ==
  /\ pc = "start"
  /\ num_bytes \in Request
  /\ outptr = 0
  /\ size = 0
  /\ curptr = 0
  /\ filled = {}

(* cabi_realloc returns a block that ends within the memory.               *)
Allocate ==
  /\ pc = "start"
  /\ pc' = "loop"
  /\ size' = RoundedUp(num_bytes)
  /\ outptr' \in {p \in Address : p + size' <= Words}
  /\ curptr' = outptr'
  /\ UNCHANGED <<num_bytes, filled>>

(* One pass of the loop: store a word, advance, and look whether to go on. *)
FillWord ==
  /\ pc = "loop"
  /\ filled' = filled \cup Word(curptr)
  /\ curptr' = Wrap(curptr + 8)
  /\ pc' = IF MoreToFill(curptr') THEN "loop" ELSE "done"
  /\ UNCHANGED <<num_bytes, outptr, size>>

Returned == pc = "done"

Next == Allocate \/ FillWord \/ (Returned /\ UNCHANGED vars)

Spec == Init /\ [][Next]_vars

(* The function is straight wasm code: it runs until it returns.           *)
FairSpec == Spec /\ WF_vars(Allocate \/ FillWord)

-----------------------------------------------------------------------------
(* Properties.                                                             *)

(* The type of every variable. *)
TypeOK ==
  /\ pc \in {"start", "loop", "done"}
  /\ num_bytes \in Request
  /\ outptr \in Address
  /\ size \in Address
  /\ curptr \in Address
  /\ filled \subseteq Address

(* The loop stores whole words; none of them ends beyond the block,        *)
(* whatever the length is modulo 8 and wherever the block ends.            *)
WritesInside == filled \subseteq outptr..outptr + size - 1

(* Every byte of the list that is returned has been filled.                *)
ListFilled == Returned => outptr..outptr + num_bytes - 1 \subseteq filled

(* The loop ends, the pointer that wraps at the end of memory included.    *)
Terminates == <>Returned
=============================================================================

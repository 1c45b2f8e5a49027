-------------------------- MODULE RandomStubProofs --------------------------
(* Proofs about RandomStub, for every size of the address space: the block *)
(* is never overrun and the list is filled to its last byte.               *)
EXTENDS RandomStub, TLAPS

(* The loop in terms of the number of words it has stored.                 *)
Filled(k) ==
  /\ filled = outptr..outptr + 8 * k - 1
  /\ curptr = Wrap(outptr + 8 * k)
  /\ pc = "loop" => 8 * k <= (num_bytes \div 8) * 8
  /\ pc = "done" => num_bytes <= 8 * k /\ 8 * k <= size

Block ==
  /\ pc = "start" => filled = {}
  /\ pc # "start" =>
       /\ size = (num_bytes \div 8) * 8 + 8
       /\ outptr + size <= Words
       /\ \E k \in Nat : Filled(k)

IInv == TypeOK /\ Block

-----------------------------------------------------------------------------
(* i32 arithmetic.                                                         *)

(* What is in range is not changed, and the end of memory wraps to 0.      *)
LEMMA WrapFacts ==
  /\ \A a \in Int : Wrap(a) \in Address
  /\ \A a \in Address : Wrap(a) = a
  /\ Wrap(Words) = 0
  /\ \A a \in 1..Words - 1 : Wrap(-a) = Words - a
  BY WordsAssumption, SMTT(30) DEF Wrap, Address

(* Rounding up gives more room than is asked for, in whole words.          *)
LEMMA RoundedUpFacts ==
  ASSUME NEW n \in Request
  PROVE  /\ RoundedUp(n) = (n \div 8) * 8 + 8
         /\ (n \div 8) * 8 \in Nat
         /\ (n \div 8) * 8 <= n
         /\ n < (n \div 8) * 8 + 8
         /\ RoundedUp(n) \in Address
  <1>1. (n \div 8) * 8 \in Nat /\ (n \div 8) * 8 <= n /\ n < (n \div 8) * 8 + 8
    BY WordsAssumption, SMTT(30) DEF Request
  <1>2. (n \div 8) * 8 \in Address /\ (n \div 8) * 8 + 8 \in Address
    BY <1>1, WordsAssumption DEF Request, Address
  <1>3. QED
    BY <1>1, <1>2, WrapFacts DEF RoundedUp

(* The distance from the start of the block to its write position.         *)
LEMMA DistanceFact ==
  ASSUME NEW p \in Address, NEW d \in Nat, d < Words, p + d <= Words
  PROVE  Wrap(Wrap(p + d) - p) = d
  <1>1. CASE p + d < Words
    <2>1. Wrap(p + d) = p + d
      BY <1>1, WrapFacts, WordsAssumption DEF Address
    <2>2. QED
      BY <2>1, WrapFacts, WordsAssumption DEF Address
  <1>2. CASE p + d = Words
    <2>1. Wrap(p + d) = 0
      BY <1>2, WrapFacts
    <2>2. p \in 1..Words - 1 /\ d = Words - p /\ Wrap(p + d) - p = -p
      BY <1>2, <2>1, WordsAssumption DEF Address
    <2>3. QED
      BY <2>2, WrapFacts
  <1>3. QED
    BY <1>1, <1>2, WordsAssumption DEF Address

(* A word that ends within the memory is eight consecutive addresses.      *)
LEMMA WordFact ==
  ASSUME NEW p \in Address, p + 8 <= Words
  PROVE  Word(p) = p..p + 7
  <1>1. \A i \in 0..7 : Wrap(p + i) = p + i
    BY WrapFacts, WordsAssumption DEF Address
  <1>2. Word(p) = {p + i : i \in 0..7}
    BY <1>1 DEF Word
  <1>3. {p + i : i \in 0..7} = p..p + 7
    <2>1. \A a \in p..p + 7 : a - p \in 0..7 /\ a = p + (a - p)
      BY DEF Address
    <2>2. QED
      BY <2>1 DEF Address
  <1>4. QED
    BY <1>2, <1>3

(* No word yet. *)
LEMMA NoWords == \A p \in Address : p + 8 * 0 = p /\ p..p + 8 * 0 - 1 = {}
  BY WordsAssumption DEF Address

-----------------------------------------------------------------------------
(* The inductive invariant.                                                *)

LEMMA InitIInv == Init => IInv
  BY WordsAssumption DEF Init, IInv, TypeOK, Block, Address

(* The block is allocated and the loop stands at its first word.           *)
LEMMA AllocateIInv == IInv /\ Allocate => IInv'
  <1> SUFFICES ASSUME IInv, Allocate PROVE IInv'
    OBVIOUS
  <1> USE DEF IInv, TypeOK, Block, Allocate
  <1>1. size' = (num_bytes \div 8) * 8 + 8 /\ size' \in Address
    BY RoundedUpFacts
  <1>2. outptr' \in Address /\ outptr' + size' <= Words
    OBVIOUS
  <1>3. TypeOK'
    BY <1>1, <1>2
  <1>4. Filled(0)'
    <2>1. filled' = outptr'..outptr' + 8 * 0 - 1
      <3>1. filled' = {}
        OBVIOUS
      <3>2. outptr'..outptr' + 8 * 0 - 1 = {}
        BY <1>2, NoWords
      <3>3. QED
        BY <3>1, <3>2
    <2>2. curptr' = Wrap(outptr' + 8 * 0)
      BY <1>2, NoWords, WrapFacts
    <2>3. 8 * 0 <= (num_bytes' \div 8) * 8
      BY RoundedUpFacts
    <2>4. QED
      BY <2>1, <2>2, <2>3 DEF Filled
  <1>5. QED
    BY <1>1, <1>2, <1>3, <1>4

(* A pass stores the next word, which the block has room for, and the      *)
(* loop goes on exactly if the list is not full.                           *)
LEMMA FillWordIInv == IInv /\ FillWord => IInv'
  <1> SUFFICES ASSUME IInv, FillWord PROVE IInv'
    OBVIOUS
  <1> USE DEF IInv, FillWord
  <1>1. PICK k \in Nat : Filled(k)
    BY DEF Block
  <1>2. /\ num_bytes \in Request /\ outptr \in Address /\ size \in Address
        /\ curptr \in Address /\ filled \subseteq Address
        /\ size = (num_bytes \div 8) * 8 + 8
        /\ outptr + size <= Words
    BY DEF TypeOK, Block
  <1> DEFINE whole == (num_bytes \div 8) * 8
  <1>3. whole \in Nat /\ whole <= num_bytes /\ num_bytes < whole + 8
    BY <1>2, RoundedUpFacts
  <1>4. 8 * k <= whole
    BY <1>1 DEF Filled
  <1> HIDE DEF whole
  <1>5. size = whole + 8
    BY <1>2 DEF whole
  <1>6. curptr = outptr + 8 * k
    <2>1. curptr = Wrap(outptr + 8 * k)
      BY <1>1 DEF Filled
    <2>2. outptr + 8 * k \in Address
      BY <1>2, <1>3, <1>4, <1>5, WordsAssumption DEF Address
    <2>3. QED
      BY <2>1, <2>2, WrapFacts
  <1>7. Word(curptr) = curptr..curptr + 7
    <2>1. curptr + 8 <= Words
      BY <1>2, <1>3, <1>4, <1>5, <1>6, WordsAssumption DEF Address
    <2>2. QED
      BY <1>2, <2>1, WordFact
  <1>8. filled' = outptr..outptr + 8 * (k + 1) - 1
    <2>1. filled = outptr..outptr + 8 * k - 1
      BY <1>1 DEF Filled
    <2>2. filled' = (outptr..outptr + 8 * k - 1) \cup (outptr + 8 * k..outptr + 8 * k + 7)
      BY <2>1, <1>6, <1>7
    <2>3. QED
      BY <2>2, <1>2 DEF Address
  <1>9. curptr' = Wrap(outptr + 8 * (k + 1))
    BY <1>6, <1>2 DEF Address
  <1>10. Wrap(curptr' - outptr) = 8 * (k + 1)
    BY <1>2, <1>3, <1>4, <1>5, <1>9, DistanceFact, WordsAssumption DEF Address
  <1>11. MoreToFill(curptr') <=> 8 * (k + 1) < num_bytes
    BY <1>10 DEF MoreToFill
  <1>12. 8 * (k + 1) < num_bytes => 8 * (k + 1) <= whole
    BY <1>2, <1>3, SMTT(30) DEF whole, Request
  <1>13. 8 * (k + 1) <= size
    BY <1>3, <1>4, <1>5
  <1>14. /\ pc' = "loop" => 8 * (k + 1) <= whole
         /\ pc' = "done" => num_bytes <= 8 * (k + 1)
    BY <1>2, <1>11, <1>12 DEF Request
  <1>15. Filled(k + 1)'
    BY <1>8, <1>9, <1>13, <1>14 DEF Filled, whole
  <1>16. TypeOK'
    <2>1. curptr' \in Address
      BY <1>9, <1>2, WrapFacts DEF Address
    <2>2. filled' \subseteq Address
      BY <1>8, <1>13, <1>2, WordsAssumption DEF Address
    <2>3. QED
      BY <2>1, <2>2, <1>2 DEF TypeOK
  <1>17. pc' # "start" /\ k + 1 \in Nat
    OBVIOUS
  <1>18. QED
    BY <1>15, <1>16, <1>17, <1>2 DEF Block

(* A step that changes nothing. *)
LEMMA StutterIInv == IInv /\ UNCHANGED vars => IInv'
  BY DEF IInv, TypeOK, Block, Filled, vars

(* The invariant holds in every reachable state. *)
THEOREM Invariance == Spec => []IInv
  <1>1. IInv /\ [Next]_vars => IInv'
    BY AllocateIInv, FillWordIInv, StutterIInv DEF Next
  <1>2. QED
    BY InitIInv, <1>1, PTL DEF Spec

(* The variables have their types. *)
THEOREM TypeCorrect == Spec => []TypeOK
  BY Invariance, PTL DEF IInv

(* No word is stored outside the block that cabi_realloc returned.         *)
THEOREM NothingOverrun == Spec => []WritesInside
  <1>1. IInv => WritesInside
    <2> SUFFICES ASSUME IInv PROVE WritesInside
      OBVIOUS
    <2>1. CASE pc = "start"
      BY <2>1 DEF IInv, Block, WritesInside
    <2>2. CASE pc # "start"
      <3>1. PICK k \in Nat : Filled(k)
        BY <2>2 DEF IInv, Block
      <3>2. 8 * k <= size
        BY <3>1, <2>2, RoundedUpFacts DEF IInv, TypeOK, Block, Filled, Address
      <3>3. QED
        BY <3>1, <3>2 DEF IInv, TypeOK, Filled, WritesInside, Address
    <2>3. QED
      BY <2>1, <2>2
  <1>2. QED
    BY <1>1, Invariance, PTL

(* The list get-random-bytes returns is filled to its last byte.           *)
THEOREM ListIsFilled == Spec => []ListFilled
  <1>1. IInv => ListFilled
    <2> SUFFICES ASSUME IInv, pc = "done"
                 PROVE  outptr..outptr + num_bytes - 1 \subseteq filled
      BY DEF ListFilled, Returned
    <2>1. PICK k \in Nat : Filled(k)
      BY DEF IInv, Block
    <2>2. QED
      BY <2>1, WordsAssumption DEF IInv, TypeOK, Filled, Address, Request
  <1>2. QED
    BY <1>1, Invariance, PTL
=============================================================================

--------------------------- MODULE MarshalProofs ---------------------------
(* Proofs about Marshal: what holds of the data of a call for every pair   *)
(* of signatures, every size of memory and every number of flat            *)
(* parameters. The inductive invariant IInv says of each moment of a call  *)
(* where its values are: in words of a block of the allocator, laid out    *)
(* for the types of a signature, or in JavaScript values.  The first half  *)
(* of the module shows that what is stored for a list of types is what is  *)
(* loaded for it, that blocks do not end beyond memory, and that the       *)
(* environment tells call the signature the wrappers were made for; the    *)
(* second half has one lemma for each step.                                *)
EXTENDS Marshal, TLAPS, SequenceTheorems, WellFoundedInduction

(* What holds of 0 and of the successor of each number it holds of, holds  *)
(* of every number: otherwise there would be a least counterexample.       *)
LEMMA Induction ==
  ASSUME NEW P, 0 \in P, \A n \in Nat : n \in P => n + 1 \in P
  PROVE  \A n \in Nat : n \in P
<1> DEFINE T == {n \in Nat : n \notin P}
<1>1. SUFFICES ASSUME T # {} PROVE FALSE
  OBVIOUS
<1>2. PICK x \in T : \A y \in T : ~(<<y, x>> \in OpToRel(<, Nat))
  <2> HIDE DEF T
  <2>1. T \subseteq Nat
    BY DEF T
  <2> QED BY <1>1, <2>1, WFMin, NatLessThanWellFounded, Zenon
<1>3. x # 0 /\ x - 1 \in Nat /\ x - 1 < x /\ x \in Nat /\ x \notin P
  OBVIOUS
<1>4. x - 1 \notin T
  BY <1>2, <1>3 DEF OpToRel
<1> QED BY <1>3, <1>4

-----------------------------------------------------------------------------
(* The offsets of a list of types.                                         *)
IsOffset(f, tys, n) ==
  f = [k \in 1..(n + 1) |-> IF k = 1 THEN 0 ELSE f[k - 1] + Words(tys[k - 1])]

(* The recursive function that Offset stands for exists for each length.   *)
LEMMA OffsetFunction ==
  ASSUME NEW tys
  PROVE  \A n \in Nat : \E f : IsOffset(f, tys, n)
<1> DEFINE P == {n \in Nat : \E f : IsOffset(f, tys, n)}
<1>1. 0 \in P
  <2>1. IsOffset([k \in 1..1 |-> 0], tys, 0)
    BY DEF IsOffset
  <2> QED BY <2>1
<1>2. \A n \in Nat : n \in P => n + 1 \in P
  <2> SUFFICES ASSUME NEW n \in Nat, n \in P PROVE n + 1 \in P
    OBVIOUS
  <2>1. PICK f : IsOffset(f, tys, n)
    OBVIOUS
  <2> DEFINE g == [k \in 1..(n + 1 + 1) |-> IF k = n + 2 THEN f[n + 1] + Words(tys[n + 1])
                                             ELSE f[k]]
  <2>2. IsOffset(g, tys, n + 1)
    <3>1. ASSUME NEW k \in 1..(n + 1 + 1)
          PROVE  g[k] = IF k = 1 THEN 0 ELSE g[k - 1] + Words(tys[k - 1])
      <4>1. CASE k = n + 2
        <5>1. g[k] = f[n + 1] + Words(tys[n + 1]) /\ k # 1 /\ k - 1 = n + 1 /\ g[k - 1] = f[n + 1]
          BY <4>1
        <5> QED BY <5>1
      <4>2. CASE k # n + 2
        <5>1. k \in 1..(n + 1) /\ g[k] = f[k]
          BY <4>2
        <5>2. f[k] = IF k = 1 THEN 0 ELSE f[k - 1] + Words(tys[k - 1])
          BY <2>1, <5>1 DEF IsOffset
        <5>3. k # 1 => g[k - 1] = f[k - 1]
          BY <5>1
        <5> QED BY <5>1, <5>2, <5>3
      <4> QED BY <4>1, <4>2
    <3> QED BY <3>1 DEF IsOffset
  <2>3. n + 1 \in Nat
    OBVIOUS
  <2> HIDE DEF g
  <2> QED BY <2>2, <2>3
<1>3. \A n \in Nat : n \in P
  <2> HIDE DEF P
  <2> QED BY <1>1, <1>2, Induction
<1> QED BY <1>3

(* Offset is what its definition says: a value begins where the one before *)
(* it ends.                                                                *)
LEMMA OffsetSteps ==
  ASSUME NEW tys, Len(tys) \in Nat
  PROVE  /\ Offset(tys, 1) = 0
         /\ \A k \in 1..Len(tys) : Offset(tys, k + 1) = Offset(tys, k) + Words(tys[k])
<1> DEFINE g == CHOOSE f : IsOffset(f, tys, Len(tys))
<1>1. IsOffset(g, tys, Len(tys))
  BY OffsetFunction
<1>2. \A n : Offset(tys, n) = g[n]
  BY DEF Offset, IsOffset
<1> HIDE DEF g
<1>3. \A k \in 1..(Len(tys) + 1) : g[k] = IF k = 1 THEN 0 ELSE g[k - 1] + Words(tys[k - 1])
  BY <1>1 DEF IsOffset
<1>4. g[1] = 0
  BY <1>3
<1>5. \A k \in 1..Len(tys) : g[k + 1] = g[k] + Words(tys[k])
  BY <1>3
<1> QED BY <1>2, <1>4, <1>5

(* A value takes one word or two, whatever its type.                       *)
LEMMA WordsAre == \A ty : Words(ty) \in {1, 2}
BY DEF Words

(* Values do not overlap: each begins behind the end of all before it.     *)
LEMMA OffsetsAre ==
  ASSUME NEW tys, Len(tys) \in Nat
  PROVE  /\ \A k \in 1..(Len(tys) + 1) : Offset(tys, k) \in Nat
         /\ \A k \in 1..(Len(tys) + 1) : \A j \in 1..(k - 1) :
              Offset(tys, j) + Words(tys[j]) <= Offset(tys, k)
<1> DEFINE Fits(k) == /\ Offset(tys, k) \in Nat
                      /\ \A j \in 1..(k - 1) : Offset(tys, j) + Words(tys[j]) <= Offset(tys, k)
           P == {n \in Nat : n + 1 <= Len(tys) + 1 => \A k \in 1..(n + 1) : Fits(k)}
<1>1. 0 \in P
  BY OffsetSteps
<1>2. \A n \in Nat : n \in P => n + 1 \in P
  <2> HIDE DEF Fits
  <2> SUFFICES ASSUME NEW n \in Nat, n \in P, n + 2 <= Len(tys) + 1
               PROVE  \A k \in 1..(n + 2) : Fits(k)
    <3>1. \A n \in Nat : (n + 1) + 1 = n + 2 /\ n + 1 \in Nat
      OBVIOUS
    <3> QED BY <3>1
  <2>1. \A k \in 1..(n + 1) : Fits(k)
    OBVIOUS
  <2>2. Offset(tys, n + 2) = Offset(tys, n + 1) + Words(tys[n + 1])
    <3>1. n + 1 \in 1..Len(tys) /\ (n + 1) + 1 = n + 2
      OBVIOUS
    <3> QED BY <3>1, OffsetSteps
  <2>3. Words(tys[n + 1]) \in {1, 2}
    BY WordsAre
  <2>4. Offset(tys, n + 1) \in Nat
    BY <2>1 DEF Fits
  <2>5. ASSUME NEW j \in 1..(n + 1)
        PROVE  Offset(tys, j) + Words(tys[j]) <= Offset(tys, n + 2)
    <3>1. CASE j = n + 1
      BY <3>1, <2>2, <2>3, <2>4
    <3>2. CASE j # n + 1
      <4>1. j \in 1..((n + 1) - 1) /\ n + 1 \in 1..(n + 1) /\ j \in 1..(n + 1)
        BY <3>2
      <4>2. Offset(tys, j) \in Nat /\ Offset(tys, j) + Words(tys[j]) <= Offset(tys, n + 1)
        <5>1. Fits(j) /\ Fits(n + 1)
          BY <2>1, <4>1
        <5> QED BY <4>1, <5>1 DEF Fits
      <4>3. Words(tys[j]) \in {1, 2}
        BY WordsAre
      <4> QED BY <2>2, <2>3, <2>4, <4>2, <4>3
    <3> QED BY <3>1, <3>2
  <2>6. Fits(n + 2)
    <3>1. (n + 2) - 1 = n + 1 /\ Offset(tys, n + 2) \in Nat
      BY <2>2, <2>3, <2>4
    <3> QED BY <2>5, <3>1 DEF Fits
  <2> QED BY <2>1, <2>6
<1>3. \A n \in Nat : n \in P
  <2> HIDE DEF P
  <2> QED BY <1>1, <1>2, Induction
<1>4. \A k \in 1..(Len(tys) + 1) : k - 1 \in Nat /\ (k - 1) + 1 = k
  OBVIOUS
<1>5. \A k \in 1..(Len(tys) + 1) : Fits(k)
  BY <1>3, <1>4
<1> QED BY <1>5

-----------------------------------------------------------------------------
(* Memory.                                                                 *)
(* Where the n-th of the values vs is stored.                              *)
Place(at, vs, n) == at + Offset(TypesOf(vs), n)

(* The words of the n-th value lie between at and the end of the list, and *)
(* belong to no other value of it.                                         *)
LEMMA PlacesDiffer ==
  ASSUME NEW at \in Nat, NEW vs, Len(vs) \in Nat, NEW n \in 1..Len(vs)
  PROVE  /\ Len(TypesOf(vs)) = Len(vs) /\ TypesOf(vs)[n] = vs[n].ty
         /\ Offset(TypesOf(vs), n) \in Nat /\ Words(vs[n].ty) \in {1, 2}
         /\ WordsOf(at, vs, n) = Place(at, vs, n)..(Place(at, vs, n) + Words(vs[n].ty) - 1)
         /\ Place(at, vs, n) + Words(vs[n].ty) <= at + ByteSize(TypesOf(vs))
         /\ \A k \in 1..Len(vs) : \A a \in WordsOf(at, vs, n) : a \in WordsOf(at, vs, k) => k = n
<1> DEFINE tys == TypesOf(vs)
<1>1. Len(tys) = Len(vs) /\ \A k \in 1..Len(vs) : tys[k] = vs[k].ty
  BY DEF TypesOf
<1>2. /\ \A k \in 1..(Len(vs) + 1) : Offset(tys, k) \in Nat
      /\ \A k \in 1..(Len(vs) + 1) : \A j \in 1..(k - 1) :
           Offset(tys, j) + Words(tys[j]) <= Offset(tys, k)
  <2> HIDE DEF tys
  <2> QED BY <1>1, OffsetsAre
<1>3. \A k \in 1..Len(vs) :
        WordsOf(at, vs, k) = (at + Offset(tys, k))..(at + Offset(tys, k) + Words(tys[k]) - 1)
  BY <1>1 DEF WordsOf
<1>4. \A k : Words(tys[k]) \in {1, 2}
  BY WordsAre
<1>5. Place(at, vs, n) = at + Offset(tys, n) /\ ByteSize(tys) = Offset(tys, Len(vs) + 1)
  BY <1>1 DEF Place, ByteSize
<1> HIDE DEF tys
<1>6. Offset(tys, n) + Words(tys[n]) <= Offset(tys, Len(vs) + 1)
  <2>1. Len(vs) + 1 \in 1..(Len(vs) + 1) /\ n \in 1..((Len(vs) + 1) - 1)
    OBVIOUS
  <2> QED BY <1>2, <2>1
<1>7. ASSUME NEW k \in 1..Len(vs), NEW a \in WordsOf(at, vs, n), a \in WordsOf(at, vs, k), k # n
      PROVE  FALSE
  <2>1. /\ Offset(tys, k) \in Nat /\ Offset(tys, n) \in Nat
        /\ a \in (at + Offset(tys, k))..(at + Offset(tys, k) + Words(tys[k]) - 1)
        /\ a \in (at + Offset(tys, n))..(at + Offset(tys, n) + Words(tys[n]) - 1)
    <3>1. k \in 1..(Len(vs) + 1) /\ n \in 1..(Len(vs) + 1)
      OBVIOUS
    <3>2. Offset(tys, k) \in Nat /\ Offset(tys, n) \in Nat
      BY <1>2, <3>1
    <3> QED BY <1>3, <1>7, <3>2
  <2>2. CASE k < n
    <3>1. k \in 1..(n - 1) /\ n \in 1..(Len(vs) + 1)
      BY <2>2
    <3>2. Offset(tys, k) + Words(tys[k]) <= Offset(tys, n)
      BY <1>2, <3>1
    <3> QED BY <2>1, <3>2, <1>4
  <2>3. CASE n < k
    <3>1. n \in 1..(k - 1) /\ k \in 1..(Len(vs) + 1)
      BY <2>3
    <3>2. Offset(tys, n) + Words(tys[n]) <= Offset(tys, k)
      BY <1>2, <3>1
    <3> QED BY <2>1, <3>2, <1>4
  <2> QED BY <1>7, <2>2, <2>3
<1>8. n \in 1..(Len(vs) + 1)
  OBVIOUS
<1>9. Words(vs[n].ty) \in {1, 2} /\ tys[n] = vs[n].ty /\ Offset(tys, n) \in Nat
  BY <1>1, <1>2, <1>4, <1>8
<1>10. ByteSize(tys) \in Nat
  BY <1>2, <1>5
<1>11. Place(at, vs, n) + Words(vs[n].ty) <= at + ByteSize(tys)
  BY <1>5, <1>6, <1>9, <1>10
<1>12. WordsOf(at, vs, n) = Place(at, vs, n)..(Place(at, vs, n) + Words(vs[n].ty) - 1)
  BY <1>3, <1>5, <1>9
<1> QED BY <1>1, <1>7, <1>9, <1>11, <1>12 DEF tys

(* Memory s has the words of the n-th of the values vs from at on.         *)
Has(s, at, vs, n) ==
  \A h \in 0..(Words(vs[n].ty) - 1) :
    /\ Place(at, vs, n) + h \in DOMAIN s
    /\ s[Place(at, vs, n) + h] = [v |-> vs[n], half |-> h]

(* Every value of a list is in memory after StoredAll, which writes        *)
(* nothing outside the size of the list.                                   *)
LEMMA StoredIs ==
  ASSUME NEW m, NEW at \in Nat, NEW vs, Len(vs) \in Nat
  PROVE  /\ \A n \in 1..Len(vs) : Has(StoredAll(m, at, vs), at, vs, n)
         /\ DOMAIN StoredAll(m, at, vs) \subseteq
              DOMAIN m \cup (at..(at + ByteSize(TypesOf(vs)) - 1))
<1> DEFINE new == UNION {WordsOf(at, vs, n) : n \in 1..Len(vs)}
           pick(a) == CHOOSE k \in 1..Len(vs) : a \in WordsOf(at, vs, k)
           all == StoredAll(m, at, vs)
<1>1. all = [a \in DOMAIN m \cup new |->
               IF a \in new THEN [v |-> vs[pick(a)], half |-> a - at - Offset(TypesOf(vs), pick(a))]
               ELSE m[a]]
  BY DEF StoredAll
<1> HIDE DEF all
<1>2. ASSUME NEW n \in 1..Len(vs), NEW h \in 0..(Words(vs[n].ty) - 1)
      PROVE  /\ Place(at, vs, n) + h \in DOMAIN all
             /\ all[Place(at, vs, n) + h] = [v |-> vs[n], half |-> h]
  <2> DEFINE a == Place(at, vs, n) + h
  <2>1. a \in WordsOf(at, vs, n) /\ a - at - Offset(TypesOf(vs), n) = h
    <3>1. /\ Offset(TypesOf(vs), n) \in Nat /\ Words(vs[n].ty) \in {1, 2}
          /\ WordsOf(at, vs, n) = Place(at, vs, n)..(Place(at, vs, n) + Words(vs[n].ty) - 1)
      BY PlacesDiffer
    <3> QED BY <3>1 DEF Place
  <2>2. \A k \in 1..Len(vs) : a \in WordsOf(at, vs, k) => k = n
    BY <2>1, PlacesDiffer
  <2> HIDE DEF a
  <2>3. pick(a) = n
    BY <2>1, <2>2
  <2>4. a \in new
    BY <2>1
  <2>5. a \in DOMAIN all /\ all[a] = [v |-> vs[n], half |-> h]
    BY <1>1, <2>1, <2>3, <2>4
  <2> QED BY <2>5 DEF a
<1>3. ASSUME NEW a \in new PROVE a \in at..(at + ByteSize(TypesOf(vs)) - 1)
  <2>1. PICK n \in 1..Len(vs) : a \in WordsOf(at, vs, n)
    OBVIOUS
  <2>2. /\ Offset(TypesOf(vs), n) \in Nat /\ Words(vs[n].ty) \in {1, 2}
        /\ WordsOf(at, vs, n) = Place(at, vs, n)..(Place(at, vs, n) + Words(vs[n].ty) - 1)
        /\ Place(at, vs, n) + Words(vs[n].ty) <= at + ByteSize(TypesOf(vs))
    BY PlacesDiffer
  <2>3. ByteSize(TypesOf(vs)) \in Nat
    <3>1. Len(TypesOf(vs)) = Len(vs)
      BY DEF TypesOf
    <3>2. Offset(TypesOf(vs), Len(vs) + 1) \in Nat
      BY <3>1, OffsetsAre
    <3> QED BY <3>1, <3>2 DEF ByteSize
  <2>4. Place(at, vs, n) \in Nat /\ at <= Place(at, vs, n)
    BY <2>2 DEF Place
  <2> HIDE DEF new
  <2> QED BY <2>1, <2>2, <2>3, <2>4
<1>4. DOMAIN all = DOMAIN m \cup new
  BY <1>1
<1> HIDE DEF new
<1>5. \A n \in 1..Len(vs) : Has(all, at, vs, n)
  BY <1>2 DEF Has
<1> QED BY <1>3, <1>4, <1>5 DEF all

(* Values of the types tys that have been stored are loaded again with     *)
(* tys: how Spill and call, the bindings and the host, and the area of     *)
(* results agree.                                                          *)
LEMMA LoadedStored ==
  ASSUME NEW m, NEW at \in Nat, NEW tys \in Seq(CoreTy), NEW vs, Len(vs) = Len(tys),
         vs = [n \in 1..Len(tys) |-> vs[n]], \A n \in 1..Len(tys) : vs[n].ty = tys[n],
         NEW s, s = StoredAll(m, at, vs)
  PROVE  LoadedAll(s, at, tys) = vs
<1>1. Len(tys) \in Nat /\ TypesOf(vs) = tys
  BY DEF TypesOf
<1>2. ASSUME NEW n \in 1..Len(tys) PROVE Loaded(s, at + Offset(tys, n), tys[n]) = vs[n]
  <2> DEFINE p == at + Offset(tys, n)
  <2>1. p = Place(at, vs, n)
    BY <1>1 DEF Place
  <2>2. Words(tys[n]) \in {1, 2} /\ p \in Nat /\ vs[n].ty = tys[n]
    BY <1>1, PlacesDiffer
  <2>3. \A h \in 0..(Words(tys[n]) - 1) : p + h \in DOMAIN s /\ s[p + h] = [v |-> vs[n], half |-> h]
    <3>1. n \in 1..Len(vs) /\ Len(vs) \in Nat
      BY <1>1
    <3>2. Has(s, at, vs, n)
      BY <3>1, StoredIs
    <3> HIDE DEF p
    <3> QED BY <2>1, <2>2, <3>2 DEF Has
  <2> HIDE DEF p
  <2>4. p \in DOMAIN s /\ s[p].v = vs[n]
    <3>1. 0 \in 0..(Words(tys[n]) - 1) /\ p + 0 = p
      BY <2>2
    <3>2. p + 0 \in DOMAIN s /\ s[p + 0] = [v |-> vs[n], half |-> 0]
      BY <2>3, <3>1
    <3>3. s[p] = [v |-> vs[n], half |-> 0]
      BY <3>1, <3>2
    <3> QED BY <3>1, <3>2, <3>3
  <2>5. vs[n] \in {s[a].v : a \in {p} \cap DOMAIN s}
    BY <2>4
  <2>6. Loaded(s, p, tys[n]) = vs[n]
    BY <2>2, <2>3, <2>4, <2>5 DEF Loaded
  <2> QED BY <2>6 DEF p
<1> QED BY <1>2 DEF LoadedAll

(* The end of a block.                                                     *)
End(b) == b.at + UsableSize(b.size)
IsBlock(b) == b.at \in Nat /\ b.size \in Nat

(* Top is the end of the heap.                                             *)
HeapEnds(bs, top) ==
  /\ top \in Nat /\ HeapBase <= top
  /\ top \in {HeapBase} \cup {End(b) : b \in bs}
  /\ \A b \in bs : IsBlock(b) /\ End(b) <= top

(* The allocator hands out what is asked for, and no less than two words.  *)
LEMMA SizesAre ==
  ASSUME NEW size \in Nat
  PROVE  UsableSize(size) \in Nat /\ 2 <= UsableSize(size) /\ size <= UsableSize(size)
BY AllocatorAssumption DEF UsableSize

(* Top is the end of the heap, where the next block is put.                *)
LEMMA TopIs ==
  ASSUME NEW bs, NEW top, HeapEnds(bs, top)
  PROVE  Top(bs) = top
<1> DEFINE E == {HeapBase} \cup {End(b) : b \in bs}
<1>1. Top(bs) = Max(E)
  BY DEF Top, End
<1>2. \A e \in E : e \in Int /\ top >= e
  <2>1. \A b \in bs : End(b) \in Int
    BY SizesAre DEF HeapEnds, IsBlock, End
  <2>2. HeapBase \in Int
    BY AllocatorAssumption
  <2> QED BY <2>1, <2>2 DEF HeapEnds
<1>3. top \in E
  BY DEF HeapEnds
<1> HIDE DEF E
<1> QED BY <1>1, <1>2, <1>3 DEF Max

(* A new block lies behind all others and ends the heap.                   *)
LEMMA HeapGrows ==
  ASSUME NEW bs, NEW top, HeapEnds(bs, top), NEW size \in Nat,
         NEW new, new = [at |-> top, size |-> size]
  PROVE  HeapEnds(bs \cup {new}, End(new)) /\ top + 2 <= End(new) /\ top + size <= End(new)
<1>1. End(new) \in Nat /\ top + 2 <= End(new) /\ top + size <= End(new) /\ IsBlock(new) /\
        top \in Nat
  BY SizesAre DEF HeapEnds, End, IsBlock
<1>2. \A b \in bs : IsBlock(b) /\ End(b) <= top /\ End(b) \in Nat
  BY SizesAre DEF HeapEnds, End, IsBlock
<1> QED BY <1>1, <1>2, AllocatorAssumption DEF HeapEnds

(* Memory that grows for a block reaches its end.                          *)
LEMMA GrownIs ==
  ASSUME NEW end \in Nat, brk \in Nat
  PROVE  GrownFor(end) \in Nat /\ end <= GrownFor(end) /\ brk <= GrownFor(end)
<1>1. CASE end <= brk
  BY <1>1 DEF GrownFor
<1>2. CASE ~(end <= brk)
  <2> DEFINE d == end - brk
             q == (d + Page - 1) \div Page
  <2>1. d \in Nat /\ Page \in Nat /\ Page >= 1 /\ d >= 1
    BY <1>2, AllocatorAssumption
  <2> HIDE DEF d
  <2>2. q \in Int /\ q * Page <= d + Page - 1 /\ d + Page - 1 < (q + 1) * Page
    BY <2>1
  <2> HIDE DEF q
  <2>3. (q + 1) * Page = q * Page + Page /\ Page * q = q * Page /\ q * Page \in Int
    BY <2>1, <2>2
  <2>4. d <= Page * q
    BY <2>1, <2>2, <2>3
  <2>5. GrownFor(end) = brk + Page * q
    BY <1>2 DEF GrownFor, d, q
  <2> QED BY <1>2, <2>1, <2>3, <2>4, <2>5 DEF d
<1> QED BY <1>1, <1>2

-----------------------------------------------------------------------------
(* The signature of the exported function.                                 *)
Function(f) == f.params \in Seq(CoreTy) /\ f.results \in Seq(CoreTy)

(* A function on 1..N is a sequence.                                       *)
LEMMA FunctionSeq ==
  ASSUME NEW S, NEW N \in Nat, NEW s \in [1..N -> S]
  PROVE  s \in Seq(S) /\ Len(s) = N
OBVIOUS

(* So is a single value.                                                   *)
LEMMA ShortList == ASSUME NEW S, NEW x \in S PROVE <<x>> \in Seq(S)
OBVIOUS

(* Joining types with commas loses none (componentize.js): the parser of   *)
(* componentize_initialize finds the types again.                          *)
LEMMA TypesJoined ==
  ASSUME NEW tys \in Seq(CoreTy)
  PROVE  /\ Types(Joined(tys)) = tys
         /\ Joined(tys) # <<>> => Joined(tys)[1] \in CoreTy
<1>1. CASE tys = <<>>
  BY <1>1 DEF Types, Joined
<1>2. CASE tys # <<>>
  <2>1. Len(tys) \in Nat /\ Len(tys) >= 1
    BY <1>2
  <2>2. Len(Joined(tys)) = 2 * Len(tys) - 1
    BY <1>2, <2>1 DEF Joined
  <2>3. \A n \in 1..Len(tys) : Joined(tys)[2 * n - 1] = tys[n]
    <3> SUFFICES ASSUME NEW n \in 1..Len(tys) PROVE Joined(tys)[2 * n - 1] = tys[n]
      OBVIOUS
    <3>1. 2 * n - 1 \in 1..(2 * Len(tys) - 1) /\ (2 * n - 1) % 2 = 1 /\ ((2 * n - 1) + 1) \div 2 = n
      BY <2>1
    <3> QED BY <1>2, <3>1 DEF Joined
  <2>4. (2 * Len(tys) - 1 + 1) \div 2 = Len(tys)
    BY <2>1
  <2>5. Types(Joined(tys)) = [n \in 1..Len(tys) |-> tys[n]]
    BY <2>2, <2>3, <2>4 DEF Types
  <2>6. 1 \in 1..Len(tys) /\ 2 * 1 - 1 = 1
    BY <2>1
  <2>7. Joined(tys)[1] = tys[1] /\ tys[1] \in CoreTy
    BY <2>3, <2>6
  <2> QED BY <2>5, <2>7
<1> QED BY <1>1, <1>2

(* Runtime.fns tells call of a function what core_fn knew of it, the stars *)
(* that mark a parameter pointer and a return pointer included.            *)
LEMMA Parses ==
  ASSUME NEW f, Function(f)
  PROVE  LET core == CoreFn(f) parsed == Parsed(Env(core)) IN
         /\ parsed.params = Flat(f) /\ parsed.paramptr = Indirect(f) /\ parsed.retptr = Results(f)
         /\ parsed.ret = core.ret /\ parsed.retsize = core.retsize
<1>1. Flat(f) \in Seq(CoreTy) /\ Indirect(f) \in BOOLEAN /\ Results(f) \in BOOLEAN
  <2>1. <<"i32">> \in Seq(CoreTy)
    BY ShortList DEF CoreTy
  <2> QED BY <2>1 DEF Flat, Indirect, Results, Function
<1>2. "*" \notin CoreTy
  BY DEF CoreTy
<1> DEFINE core == CoreFn(f)
           joined == Joined(Flat(f))
           stars(b) == IF b THEN <<"*">> ELSE <<>>
<1>3. Types(joined) = Flat(f) /\ (joined # <<>> => joined[1] # "*") /\
        joined \in Seq(CoreTy \cup {","})
  <2>1. joined \in Seq(CoreTy \cup {","})
    <3>1. ASSUME NEW tys \in Seq(CoreTy) PROVE Joined(tys) \in Seq(CoreTy \cup {","})
      <4> DEFINE count == IF tys = <<>> THEN 0 ELSE 2 * Len(tys) - 1
      <4>1. count \in Nat /\ \A n \in 1..count : n % 2 = 1 => (n + 1) \div 2 \in 1..Len(tys)
        OBVIOUS
      <4>2. \A k \in 1..Len(tys) : tys[k] \in CoreTy
        OBVIOUS
      <4>3. Joined(tys) = [n \in 1..count |-> IF n % 2 = 1 THEN tys[(n + 1) \div 2] ELSE ","]
        BY DEF Joined
      <4> HIDE DEF count
      <4>4. \A n \in 1..count : Joined(tys)[n] \in CoreTy \cup {","}
        BY <4>1, <4>2, <4>3
      <4>5. Joined(tys) \in [1..count -> CoreTy \cup {","}]
        BY <4>3, <4>4
      <4> QED BY <4>1, <4>5, FunctionSeq
    <3> QED BY <1>1, <3>1
  <2> QED BY <1>1, <1>2, <2>1, TypesJoined
<1>4. core.ret \in Seq(CoreTy)
  <2>1. <<"i32">> \in Seq(CoreTy)
    BY ShortList DEF CoreTy
  <2> QED BY <2>1 DEF CoreFn, Function
<1>5. ASSUME NEW T, NEW s \in Seq(T), "*" \notin T, NEW b \in BOOLEAN
      PROVE  /\ Starred(stars(b) \o s) = b
             /\ Unstarred(stars(b) \o s) = s
  <2>1. CASE b
    <3>1. <<"*">> \o s # <<>> /\ (<<"*">> \o s)[1] = "*" /\ Tail(<<"*">> \o s) = s
      OBVIOUS
    <3> QED BY <2>1, <3>1 DEF Starred, Unstarred
  <2>2. CASE ~b
    <3>1. <<>> \o s = s /\ (s # <<>> => s[1] \in T)
      OBVIOUS
    <3> QED BY <1>5, <2>2, <3>1 DEF Starred, Unstarred
  <2> QED BY <2>1, <2>2
<1>6. "*" \notin CoreTy \cup {","}
  BY <1>2
<1>7. /\ Env(core).args = stars(Indirect(f)) \o joined /\
           Env(core).ret = stars(Results(f)) \o core.ret
      /\ Env(core).retsize = core.retsize
  BY DEF Env, CoreFn
<1> HIDE DEF core, joined, stars
<1>8. /\ Starred(Env(core).args) = Indirect(f) /\ Unstarred(Env(core).args) = joined
      /\ Starred(Env(core).ret) = Results(f) /\ Unstarred(Env(core).ret) = core.ret
  BY <1>1, <1>2, <1>3, <1>4, <1>5, <1>6, <1>7
<1>9. Parsed(Env(core)) = [params |-> Flat(f), paramptr |-> Indirect(f), retptr |-> Results(f),
                           ret |-> core.ret, retsize |-> core.retsize]
  BY <1>3, <1>7, <1>8 DEF Parsed
<1> QED BY <1>9 DEF core

-----------------------------------------------------------------------------
(* The invariant.                                                          *)
Steps == {"spill", "call", "javascript", "lifted", "import", "imported", "results", "fulfilled",
          "return", "done", "import aborted", "return aborted"}
Called == Steps \ {"spill", "call"}

E == world.exp
I == world.imp

(* Values that no conversion changes or refuses on the way to the host.    *)
Whole(v) == v.ty # "i32" \/ v.shape = "int32"
Block(at, tys) == [at |-> at, size |-> ByteSize(tys)]

Basics ==
  /\ pc \in Steps
  /\ world \in Worlds
  /\ shape \in {"int32", "other"}
  /\ fn = Parsed(Env(CoreFn(E)))

(* Blocks are below the end of memory, and the buffer is as long as memory *)
(* was when it was made.                                                   *)
MemoryInv ==
  /\ HeapEnds(blocks, Top(blocks)) /\ Top(blocks) <= brk /\ brk \in Nat
  /\ view \in Nat /\ lastSbrk = view
  /\ WritesInside /\ AccessInView

(* Parameters on their way to the exported function.                       *)
ParamsInv ==
  /\ pc = "call" /\ E.params # <<>> =>
       Block(argptr, E.params) \in blocks /\ LoadedAll(mem, argptr, E.params) = Params
  /\ pc = "javascript" =>
       /\ IF Indirect(E) THEN SeenParams = Params ELSE AllBut("i64", SeenParams, Params)
       /\ Len(args) = Len(ImportSignature(E))
       /\ Indirect(E) => Block(PlaceOf(ArgumentAt(1)), E.params) \in blocks

(* Where its results go.                                                   *)
AreaInv ==
  pc \in Called /\ Results(E) =>
    /\ ArgumentAt(Len(ImportSignature(E))) = Pointer(retptr)
    /\ Block(retptr, E.results) \in blocks

(* Parameters and results of the import.                                   *)
ImportInv ==
  /\ pc = "import" =>
       IF Indirect(I) THEN vp[1].tag = "int" /\ ~Negative(vp[1].v) /\
                             LoadedAll(mem, PlaceOf(vp[1].v), I.params) = ImportParams
       ELSE \A n \in 1..Len(I.params) : vp[n].v = ImportParams[n] /\
              vp[n].tag \in Tags(ImportParams[n])
  /\ pc = "imported" =>
       /\ IF Indirect(I) THEN hostSaw = ImportParams ELSE AllBut("i32", hostSaw, ImportParams)
       /\ IF Results(I)
          THEN /\ Block(PlaceOf(jsValue.v), I.results) \in blocks
               /\ LoadedAll(mem, PlaceOf(jsValue.v), I.results) = ImportResults
          ELSE I.results # <<>> => jsValue.v = FromUint64(ImportResults[1])
  /\ pc = "results" =>
       IF Results(I) THEN jsSaw = ImportResults ELSE AllBut("i64", jsSaw, ImportResults)

(* Results on their way to the host.                                       *)
ResultInv ==
  IF Results(E)
  THEN /\ pc \in {"fulfilled", "return", "done"} =>
          LoadedAll(mem, retptr, E.results) = ResultsOfExport
       /\ pc = "done" => returned = Pointer(retptr)
  ELSE E.results # <<>> =>
       /\ pc = "fulfilled" => /\ jsValue.v = ResultsOfExport[1]
                              /\ jsValue.tag \in Tags(ResultsOfExport[1])
       /\ Whole(ResultsOfExport[1]) =>
            /\ pc = "return" => Loaded(mem, retptr, E.results[1]) = ResultsOfExport[1]
            /\ pc = "done" => returned = ResultsOfExport[1]

(* Only a negative s64 that goes by the stack has made a wrapper or call    *)
(* abort.                                                                  *)
AbortInv ==
  /\ pc = "import aborted" =>
       ~Indirect(I) /\ \E n \in DOMAIN ImportParams : Negative(ImportParams[n])
  /\ pc = "return aborted" =>
       ~Results(E) /\ \E n \in DOMAIN ResultsOfExport : Negative(ResultsOfExport[n])

IInv == Basics /\ MemoryInv /\ ParamsInv /\ AreaInv /\ ImportInv /\ ResultInv /\ AbortInv

-----------------------------------------------------------------------------
(* The values of a list of types have these types.                         *)
LEMMA ValuesAre ==
  ASSUME NEW name, NEW tys \in Seq(CoreTy), NEW vs, vs = ValuesOf(name, tys)
  PROVE  /\ Len(vs) = Len(tys) /\ Len(tys) \in Nat /\ vs = [n \in 1..Len(tys) |-> vs[n]]
         /\ TypesOf(vs) = tys
         /\ \A n \in 1..Len(tys) : vs[n].ty = tys[n] /\ tys[n] \in CoreTy /\ vs[n].shape = shape
<1>1. vs = [n \in 1..Len(tys) |-> [id |-> <<name, n>>, ty |-> tys[n], shape |-> shape]]
  BY DEF ValuesOf, Value
<1>2. Len(tys) \in Nat /\ Len(vs) = Len(tys) /\ tys = [n \in 1..Len(tys) |-> tys[n]]
  BY <1>1
<1>3. \A n \in 1..Len(tys) : vs[n].ty = tys[n] /\ tys[n] \in CoreTy /\ vs[n].shape = shape
  BY <1>1
<1>4. TypesOf(vs) = tys
  BY <1>2, <1>3 DEF TypesOf
<1> QED BY <1>1, <1>2, <1>3, <1>4

(* Sizes are numbers.                                                      *)
LEMMA ByteSizeIs ==
  ASSUME NEW tys \in Seq(CoreTy)
  PROVE  ByteSize(tys) \in Nat
<1>1. Len(tys) \in Nat /\ Len(tys) + 1 \in 1..(Len(tys) + 1)
  OBVIOUS
<1> QED BY <1>1, OffsetsAre DEF ByteSize

(* What the entry of Runtime.fns says of the exported function.            *)
LEMMA Signatures ==
  ASSUME Basics
  PROVE  /\ Function(E) /\ Function(I)
         /\ fn.params = Flat(E) /\ fn.paramptr = Indirect(E) /\ fn.retptr = Results(E)
         /\ fn.ret = CoreFn(E).ret /\ fn.retsize = CoreFn(E).retsize
<1>1. Function(E) /\ Function(I)
  BY WorldAssumption DEF Basics, Function, E, I
<1> QED BY <1>1, Parses DEF Basics

(* World, shape and Runtime.fns stay as they are during a call.            *)
LEMMA BasicsKept ==
  ASSUME Basics, UNCHANGED <<world, shape, fn>>, pc' \in Steps
  PROVE  /\ Basics' /\ E' = E /\ I' = I
         /\ Params' = Params /\ ResultsOfExport' = ResultsOfExport
         /\ ImportParams' = ImportParams /\ ImportResults' = ImportResults
BY DEF Basics, E, I, Params, ResultsOfExport, ImportParams, ImportResults, ValuesOf

(* Steps that leave memory and the buffer alone keep MemoryInv.            *)
LEMMA MemoryKept ==
  ASSUME MemoryInv, UNCHANGED <<memory, buffer>>
  PROVE  MemoryInv'
BY DEF MemoryInv, memory, buffer, WritesInside, AccessInView

(* A block that has been allocated, and what is stored in it.              *)
HeapWith(bs, size, new, more) ==
  /\ new = [at |-> Top(bs), size |-> size]
  /\ more = bs \cup {new}
  /\ Top(bs) \in Nat /\ Top(more) \in Nat /\ HeapEnds(more, Top(more)) /\
       Top(bs) + size <= Top(more)

(* Allocating a block keeps the heap in order.                             *)
LEMMA Extended ==
  ASSUME NEW bs, HeapEnds(bs, Top(bs)), NEW size \in Nat,
         NEW new, new = [at |-> Top(bs), size |-> size],
         NEW more, more = bs \cup {new}
  PROVE  HeapWith(bs, size, new, more)
<1>1. HeapEnds(more, End(new)) /\ Top(bs) + size <= End(new)
  BY HeapGrows
<1>2. Top(more) = End(new)
  BY <1>1, TopIs
<1> QED BY <1>1, <1>2 DEF HeapWith, HeapEnds

(* Values that fit into a block are written inside of it.                  *)
LEMMA StoredInside ==
  ASSUME WritesInside, blocks \subseteq blocks', NEW b \in blocks', IsBlock(b),
         NEW vs, Len(vs) \in Nat, ByteSize(TypesOf(vs)) \in Nat,
         ByteSize(TypesOf(vs)) <= UsableSize(b.size), mem' = StoredAll(mem, b.at, vs)
  PROVE  WritesInside'
<1>1. DOMAIN mem' \subseteq DOMAIN mem \cup (b.at..(b.at + ByteSize(TypesOf(vs)) - 1))
  BY StoredIs DEF IsBlock
<1>2. ASSUME NEW a \in b.at..(b.at + ByteSize(TypesOf(vs)) - 1)
      PROVE  a \in b.at..(b.at + UsableSize(b.size) - 1)
  <2>1. b.at \in Nat /\ b.size \in Nat
    BY DEF IsBlock
  <2>2. UsableSize(b.size) \in Nat
    BY <2>1, SizesAre
  <2> QED BY <2>1, <2>2
<1>3. \A a \in DOMAIN mem : \E c \in blocks' : a \in c.at..(c.at + UsableSize(c.size) - 1)
  BY DEF WritesInside
<1>4. \A a \in DOMAIN mem' : \E c \in blocks' : a \in c.at..(c.at + UsableSize(c.size) - 1)
  BY <1>1, <1>2, <1>3
<1> QED BY <1>4 DEF WritesInside

(* vs are stored in the block b.                                           *)
StoredIn(b, vs) ==
  /\ Len(vs) \in Nat /\ ByteSize(TypesOf(vs)) \in Nat
  /\ ByteSize(TypesOf(vs)) <= UsableSize(b.size) /\ mem' = StoredAll(mem, b.at, vs)

(* A block is allocated for values, that may be stored in it: Spill, Call  *)
(* and Return.                                                             *)
LEMMA AllocateKeeps ==
  ASSUME MemoryInv, NEW size \in Nat, Allocate(size), UNCHANGED buffer,
         NEW b, b = [at |-> Top(blocks), size |-> size],
         mem' = mem \/ \E vs : StoredIn(b, vs)
  PROVE  MemoryInv' /\ Top(blocks) \in Nat /\ b \in blocks' /\ blocks \subseteq blocks'
<1>1. blocks' = blocks \cup {b} /\ brk' = GrownFor(Top(blocks'))
  BY DEF Allocate, Allocated
<1>2. HeapWith(blocks, size, b, blocks')
  BY <1>1, Extended DEF MemoryInv
<1>3. brk' \in Nat /\ Top(blocks') <= brk'
  BY <1>1, <1>2, GrownIs DEF HeapWith, MemoryInv
<1>4. IsBlock(b) /\ b \in blocks'
  BY <1>1, <1>2 DEF HeapWith, IsBlock
<1>5. WritesInside'
  <2>1. CASE mem' = mem
    BY <1>1, <2>1 DEF MemoryInv, WritesInside
  <2>2. CASE \E vs : StoredIn(b, vs)
    BY <1>1, <1>4, <2>2, StoredInside DEF StoredIn, MemoryInv
  <2> QED BY <2>1, <2>2
<1>6. HeapEnds(blocks', Top(blocks')) /\ HeapEnds(blocks, Top(blocks))'
  BY <1>2 DEF HeapWith
<1>7. lastSbrk' = lastSbrk /\ view' = view /\ access' = access
  BY DEF buffer
<1> QED BY <1>1, <1>2, <1>3, <1>4, <1>5, <1>6, <1>7 DEF MemoryInv, HeapWith, AccessInView

(* The buffer is made new if memory has grown.                             *)
LEMMA BufferIs ==
  ASSUME lastSbrk = view, NEW sbrk \in Nat, NEW grown \in Grows, GetMemBuffer(sbrk, grown)
  PROVE  view' = sbrk /\ lastSbrk' = sbrk /\ brk' \in Nat /\ sbrk <= brk'
<1>1. grown \in Nat
  BY AllocatorAssumption DEF Grows
<1> QED BY <1>1 DEF GetMemBuffer, RecordedSbrk

(* An access to a block that ends below the end of memory.                 *)
LEMMA AccessIs ==
  ASSUME NEW bs, HeapEnds(bs, Top(bs)), NEW tys \in Seq(CoreTy), NEW at, Block(at, tys) \in bs,
         AccessTo(at, tys)
  PROVE  access' <= Top(bs) /\ at \in Nat /\ access' \in Nat
<1>1. IsBlock(Block(at, tys)) /\ End(Block(at, tys)) <= Top(bs)
  BY DEF HeapEnds
<1>2. at \in Nat /\ ByteSize(tys) \in Nat /\ at + UsableSize(ByteSize(tys)) <= Top(bs)
  BY <1>1 DEF IsBlock, End, Block
<1>3. access' = at + ByteSize(tys)
  BY DEF AccessTo, ByteSize
<1>4. UsableSize(ByteSize(tys)) \in Nat /\ ByteSize(tys) <= UsableSize(ByteSize(tys))
  BY <1>2, SizesAre
<1>5. Top(bs) \in Nat
  BY DEF HeapEnds
<1> QED BY <1>2, <1>3, <1>4, <1>5

(* The bindings read a block, or write it.                                 *)
LEMMA AccessKeeps ==
  ASSUME MemoryInv, NEW tys \in Seq(CoreTy), NEW at, Block(at, tys) \in blocks,
         NEW grown \in Grows, GetMemBuffer(brk, grown), AccessTo(at, tys), blocks' = blocks,
         mem' = mem \/ \E vs : StoredIn(Block(at, tys), vs)
  PROVE  MemoryInv' /\ at \in Nat
<1>1. view' = brk /\ lastSbrk' = brk /\ brk' \in Nat /\ brk <= brk'
  BY BufferIs DEF MemoryInv
<1>2. access' <= Top(blocks) /\ at \in Nat /\ access' \in Nat
  BY AccessIs DEF MemoryInv
<1>3. Top(blocks)' = Top(blocks) /\ Top(blocks) \in Nat /\ HeapEnds(blocks, Top(blocks))'
  BY DEF MemoryInv, HeapEnds
<1>4. WritesInside'
  <2>1. CASE mem' = mem
    BY <2>1 DEF MemoryInv, WritesInside
  <2>2. CASE \E vs : StoredIn(Block(at, tys), vs)
    <3>1. IsBlock(Block(at, tys))
      BY DEF MemoryInv, HeapEnds
    <3> QED BY <2>2, <3>1, StoredInside DEF StoredIn, MemoryInv
  <2> QED BY <2>1, <2>2
<1>5. brk \in Nat /\ Top(blocks) <= brk
  BY DEF MemoryInv
<1> QED BY <1>1, <1>2, <1>3, <1>4, <1>5 DEF MemoryInv, AccessInView
-----------------------------------------------------------------------------
(* What is stored in a block for a list of values, and read back.          *)
LEMMA ReadBack ==
  ASSUME NEW m, NEW at \in Nat, NEW name, NEW tys \in Seq(CoreTy), NEW s,
         s = StoredAll(m, at, ValuesOf(name, tys))
  PROVE  LoadedAll(s, at, tys) = ValuesOf(name, tys)
<1> DEFINE vs == ValuesOf(name, tys)
<1>1. /\ Len(vs) = Len(tys) /\ vs = [n \in 1..Len(tys) |-> vs[n]]
      /\ \A n \in 1..Len(tys) : vs[n].ty = tys[n]
  <2> HIDE DEF vs
  <2> QED BY ValuesAre DEF vs
<1> HIDE DEF vs
<1> QED BY <1>1, LoadedStored DEF vs

(* The values of a list fit into a block made for its types.               *)
LEMMA FitsBlock ==
  ASSUME NEW at, NEW name, NEW tys \in Seq(CoreTy), mem' = StoredAll(mem, at, ValuesOf(name, tys))
  PROVE  StoredIn(Block(at, tys), ValuesOf(name, tys))
<1> DEFINE vs == ValuesOf(name, tys)
<1>1. Len(vs) \in Nat /\ TypesOf(vs) = tys
  <2> HIDE DEF vs
  <2> QED BY ValuesAre DEF vs
<1>2. ByteSize(tys) \in Nat /\ ByteSize(tys) <= UsableSize(ByteSize(tys))
  BY ByteSizeIs, SizesAre
<1> HIDE DEF vs
<1> QED BY <1>1, <1>2 DEF StoredIn, Block, vs

-----------------------------------------------------------------------------
(* The steps: in each lemma, IInv holds after the step it is named for.    *)
LEMMA InitInv == Init => IInv
<1> SUFFICES ASSUME Init PROVE IInv
  OBVIOUS
<1>1. Basics
  BY DEF Init, Basics, Steps, E
<1>2. HeapEnds({}, HeapBase) /\ HeapBase \in Nat
  BY AllocatorAssumption DEF HeapEnds
<1>3. Top({}) = HeapBase
  BY <1>2, TopIs
<1>4. MemoryInv
  <2>1. DOMAIN mem = {}
    BY DEF Init
  <2> QED BY <1>2, <1>3, <2>1 DEF Init, MemoryInv, WritesInside, AccessInView
<1>5. ParamsInv /\ AreaInv /\ ImportInv /\ ResultInv /\ AbortInv
  BY DEF Init, ParamsInv, AreaInv, ImportInv, ResultInv, AbortInv, Called, Steps
<1> QED BY <1>1, <1>4, <1>5 DEF IInv

LEMMA WithoutParametersKeeps ==
  ASSUME IInv, WithoutParameters
  PROVE  IInv'
<1>1. Basics' /\ E' = E
  BY BasicsKept DEF WithoutParameters, IInv, Steps
<1>2. MemoryInv'
  BY MemoryKept DEF WithoutParameters, IInv
<1>3. pc' = "call" /\ E'.params = <<>>
  BY <1>1 DEF WithoutParameters, E
<1>4. ParamsInv' /\ AreaInv' /\ ImportInv' /\ ResultInv' /\ AbortInv'
  BY <1>3 DEF ParamsInv, AreaInv, ImportInv, ResultInv, AbortInv, Called, Steps
<1> QED BY <1>1, <1>2, <1>4 DEF IInv

LEMMA SpillKeeps ==
  ASSUME IInv, Spill
  PROVE  IInv'
<1> DEFINE at == Top(blocks)
<1>1. Basics' /\ E' = E /\ Params' = Params
  BY BasicsKept DEF Spill, IInv, Steps
<1>2. E.params \in Seq(CoreTy) /\ ByteSize(E.params) \in Nat
  BY Signatures, ByteSizeIs DEF IInv, Function
<1>3. Allocate(ByteSize(E.params)) /\ argptr' = at /\ mem' = StoredAll(mem, at, Params)
  BY DEF Spill, ByteSize, Flat, E
<1>4. Params = ValuesOf("param", E.params)
  BY DEF Params, E
<1> HIDE DEF at
<1>5. StoredIn(Block(at, E.params), Params)
  BY <1>2, <1>3, <1>4, FitsBlock
<1>6. UNCHANGED buffer /\ pc' = "call"
  BY DEF Spill
<1>7. MemoryInv' /\ at \in Nat /\ Block(at, E.params) \in blocks'
  <2> DEFINE b == Block(at, E.params)
  <2>1. b = [at |-> Top(blocks), size |-> ByteSize(E.params)]
    BY DEF Block, at
  <2>2. MemoryInv
    BY DEF IInv
  <2>3. \E vs : StoredIn(b, vs)
    BY <1>5
  <2> HIDE DEF b
  <2>4. MemoryInv' /\ Top(blocks) \in Nat /\ b \in blocks'
    BY <1>2, <1>3, <1>6, <2>1, <2>2, <2>3, AllocateKeeps
  <2> QED BY <2>4 DEF at, b
<1>8. LoadedAll(mem', at, E.params) = Params
  BY <1>2, <1>3, <1>4, <1>7, ReadBack
<1>9. ParamsInv'
  BY <1>1, <1>3, <1>6, <1>7, <1>8 DEF ParamsInv
<1>10. AreaInv' /\ ImportInv' /\ ResultInv' /\ AbortInv'
  BY <1>6 DEF AreaInv, ImportInv, ResultInv, AbortInv, Called, Steps
<1> QED BY <1>1, <1>7, <1>9, <1>10 DEF IInv

(* A BigInt that is made of an i64 is that i64, or it was below 0.          *)
LEMMA PassedWhole ==
  \A v : v.ty # "i64" \/ v.shape = "int32" => FromUint64(v) = v
BY DEF FromUint64, Negative

LEMMA CallKeeps ==
  ASSUME IInv, Call
  PROVE  IInv'
<1>1. Basics' /\ E' = E /\ Params' = Params /\ pc' = "javascript" /\ pc = "call"
  BY BasicsKept DEF Call, IInv, Steps
<1>2. /\ Function(E) /\ fn.params = Flat(E) /\ fn.paramptr = Indirect(E) /\ fn.retptr = Results(E)
      /\ fn.retsize = CoreFn(E).retsize
  BY Signatures DEF IInv
<1>3. E.params # <<>> =>
        Block(argptr, E.params) \in blocks /\ LoadedAll(mem, argptr, E.params) = Params
  BY <1>1 DEF IInv, ParamsInv
<1>4. Len(E.params) \in Nat /\ Params = [n \in 1..Len(E.params) |-> Params[n]]
  BY <1>2, ValuesAre DEF Function, Params, E
<1> DEFINE read == ReadArguments
<1>5. /\ Indirect(E) => read = <<Js(Pointer(argptr), "int")>>
      /\ ~Indirect(E) => read =
            [n \in 1..Len(E.params) |-> Boxed(LoadedAll(mem, argptr, E.params)[n])]
  BY <1>2 DEF ReadArguments, Flat
<1>6. Len(read) = Len(Flat(E)) /\ read \in Seq({read[n] : n \in DOMAIN read}) /\
        Len(Flat(E)) \in Nat
  <2> HIDE DEF read
  <2>1. CASE Indirect(E)
    <3>1. \E x : read = <<x>>
      BY <1>5, <2>1
    <3>2. Len(read) = 1 /\ read \in Seq({read[n] : n \in DOMAIN read})
      BY <3>1
    <3>3. Len(Flat(E)) = 1
      BY <2>1 DEF Flat
    <3> QED BY <3>2, <3>3
  <2>2. CASE ~Indirect(E)
    BY <1>4, <1>5, <2>2 DEF Flat
  <2> QED BY <2>1, <2>2
<1>7. \A v : Boxed(v).v = FromUint64(v)
  BY DEF Boxed, Js
<1>8. ~Indirect(E) => \A n \in 1..Len(E.params) : read[n].v = FromUint64(Params[n])
  <2> SUFFICES ASSUME ~Indirect(E), NEW n \in 1..Len(E.params)
               PROVE  read[n].v = FromUint64(Params[n])
    OBVIOUS
  <2>1. LoadedAll(mem, argptr, E.params) = Params
    BY <1>3
  <2> HIDE DEF read
  <2> QED BY <1>5, <1>7, <2>1
<1>9. Indirect(E) => read[1].v = Pointer(argptr) /\ E.params # <<>>
  <2>1. MaxFlat \in Nat
    BY AllocatorAssumption
  <2> HIDE DEF read
  <2> QED BY <1>5, <2>1 DEF Indirect, Js
<1> HIDE DEF read
<1>10. /\ \A n \in 1..Len(Flat(E)) : n \in DOMAIN args' /\ args'[n] = read[n]
       /\ Len(args') = Len(ImportSignature(E))
       /\ Results(E) => /\ Len(args') \in DOMAIN args'
                        /\ args'[Len(args')] = Js(Pointer(retptr'), "int")
  <2>1. CASE Results(E)
    <3>1. args' = Append(read, Js(Pointer(retptr'), "int"))
      BY <1>2, <2>1 DEF Call, read
    <3>2. Len(ImportSignature(E)) = Len(Flat(E)) + 1
      <4>1. Flat(E) \in Seq(CoreTy)
        BY <1>2, ShortList DEF Flat, Function, CoreTy
      <4> QED BY <2>1, <4>1 DEF ImportSignature
    <3> QED BY <1>6, <3>1, <3>2
  <2>2. CASE ~Results(E)
    <3>1. args' = read /\ ImportSignature(E) = Flat(E)
      BY <1>2, <2>2 DEF Call, read, ImportSignature
    <3> QED BY <1>6, <2>2, <3>1
  <2> QED BY <2>1, <2>2
<1>11. blocks \subseteq blocks' /\ MemoryInv' /\ mem' = mem
       /\ (Results(E) => Block(retptr', E.results) \in blocks')
  <2>1. CASE Results(E)
    <3>1. E.results \in Seq(CoreTy) /\ ByteSize(E.results) \in Nat
      BY <1>2, ByteSizeIs DEF Function
    <3>2. Allocate(ByteSize(E.results)) /\ retptr' = Top(blocks) /\ mem' = mem /\ UNCHANGED buffer
      BY <1>2, <2>1 DEF Call, CoreFn
    <3>3. MemoryInv' /\ Block(Top(blocks), E.results) \in blocks' /\ blocks \subseteq blocks'
      <4> DEFINE b == Block(Top(blocks), E.results)
      <4>1. b = [at |-> Top(blocks), size |-> ByteSize(E.results)] /\ MemoryInv
        BY DEF Block, IInv
      <4> HIDE DEF b
      <4>2. MemoryInv' /\ b \in blocks' /\ blocks \subseteq blocks'
        BY <3>1, <3>2, <4>1, AllocateKeeps
      <4> QED BY <4>2 DEF b
    <3> QED BY <3>2, <3>3
  <2>2. CASE ~Results(E)
    <3>1. UNCHANGED <<memory, buffer>> /\ MemoryInv
      BY <1>2, <2>2 DEF Call, IInv, memory
    <3> QED BY <2>2, <3>1, MemoryKept DEF memory
  <2> QED BY <2>1, <2>2
<1>12. Results(E) => ArgumentAt(Len(ImportSignature(E)))' = Pointer(retptr')
  <2>1. ImportSignature(E)' = ImportSignature(E)
    BY <1>1 DEF ImportSignature, Results, Flat, Indirect
  <2>2. Js(Pointer(retptr'), "int").v = Pointer(retptr')
    BY DEF Js
  <2> QED BY <1>10, <2>1, <2>2 DEF ArgumentAt
<1>13. /\ IF Indirect(E) THEN SeenParams' = Params ELSE AllBut("i64", SeenParams', Params)
       /\ Indirect(E) => Block(PlaceOf(ArgumentAt(1))', E.params) \in blocks'
  <2>1. world' = world
    BY DEF Call
  <2>2. CASE Indirect(E)
    <3>1. Len(Flat(E)) = 1
      BY <2>2 DEF Flat
    <3>2. ArgumentAt(1)' = Pointer(argptr)
      BY <1>9, <1>10, <2>2, <3>1 DEF ArgumentAt
    <3>3. PlaceOf(ArgumentAt(1))' = argptr
      BY <3>2 DEF PlaceOf, Pointer, Value
    <3>4. SeenParams' = LoadedAll(mem, argptr, E.params)
      BY <1>11, <2>1, <2>2, <3>3 DEF SeenParams, E
    <3> QED BY <1>3, <1>9, <1>11, <2>2, <3>3, <3>4
  <2>3. CASE ~Indirect(E)
    <3>1. \A n \in 1..Len(E.params) : ArgumentAt(n)' = FromUint64(Params[n])
      BY <1>8, <1>10, <2>3 DEF ArgumentAt, Flat
    <3>2. SeenParams' = [n \in 1..Len(E.params) |-> ArgumentAt(n)']
      BY <2>1, <2>3 DEF SeenParams, E
    <3>3. Len(SeenParams') = Len(Params) /\ DOMAIN Params = 1..Len(E.params)
      BY <1>4, <3>2
    <3>4. ASSUME NEW n \in 1..Len(E.params), Params[n].ty # "i64" \/ Params[n].shape = "int32"
          PROVE  SeenParams'[n] = Params[n]
      <4>1. SeenParams'[n] = FromUint64(Params[n])
        BY <3>1, <3>2
      <4> QED BY <3>4, <4>1, PassedWhole
    <3> QED BY <2>3, <3>3, <3>4 DEF AllBut
  <2> QED BY <2>2, <2>3
<1>14. ParamsInv'
  BY <1>1, <1>10, <1>13 DEF ParamsInv
<1>15. AreaInv'
  BY <1>1, <1>11, <1>12 DEF AreaInv
<1>16. ImportInv' /\ ResultInv' /\ AbortInv'
  BY <1>1 DEF ImportInv, ResultInv, AbortInv
<1> QED BY <1>1, <1>11, <1>14, <1>15, <1>16 DEF IInv

(* The area for the results of the export stays until call returns:        *)
(* nothing frees a block or replaces the argument that points to it.       *)
LEMMA AreaKept ==
  ASSUME IInv, pc \in Called, UNCHANGED <<world, args, retptr>>, blocks \subseteq blocks'
  PROVE  AreaInv'
<1> QED BY DEF IInv, AreaInv, E, Results, ImportSignature, Flat, Indirect, ArgumentAt

LEMMA EngineGrowsKeeps ==
  ASSUME IInv, EngineGrows
  PROVE  IInv'
<1>1. Basics' /\ E' = E /\ I' = I
  BY BasicsKept DEF EngineGrows, IInv, Basics
<1>2. MemoryInv'
  <2>1. brk \in Nat /\ brk' \in Nat /\ brk <= brk' /\ UNCHANGED <<mem, blocks, buffer>>
    BY AllocatorAssumption DEF EngineGrows, IInv, MemoryInv
  <2>2. Top(blocks)' = Top(blocks) /\ Top(blocks) \in Nat /\ HeapEnds(blocks, Top(blocks))'
    BY <2>1 DEF IInv, MemoryInv, HeapEnds
  <2> QED BY <2>1, <2>2 DEF IInv, MemoryInv, WritesInside, AccessInView, buffer
<1>3. ParamsInv' /\ AreaInv' /\ ImportInv' /\ ResultInv' /\ AbortInv'
  <2>1. UNCHANGED <<pc, world, shape, fn, mem, blocks, argptr, args, retptr, vp, hostSaw,
                    jsValue, jsSaw, returned>>
    BY DEF EngineGrows
  <2>2. UNCHANGED <<Params, ImportParams, ImportResults, ResultsOfExport, SeenParams>>
    BY <2>1 DEF Params, ImportParams, ImportResults, ResultsOfExport, ValuesOf, SeenParams,
         ArgumentAt
  <2>3. ParamsInv'
    BY <1>1, <2>1, <2>2 DEF IInv, ParamsInv, ArgumentAt
  <2>4. AreaInv'
    BY <1>1, <2>1, <2>2 DEF IInv, AreaInv, ArgumentAt
  <2>5. ImportInv'
    BY <1>1, <2>1, <2>2 DEF IInv, ImportInv
  <2>6. ResultInv'
    BY <1>1, <2>1, <2>2 DEF IInv, ResultInv
  <2>7. AbortInv'
    BY <1>1, <2>1, <2>2 DEF IInv, AbortInv
  <2> QED BY <2>3, <2>4, <2>5, <2>6, <2>7
<1> QED BY <1>1, <1>2, <1>3 DEF IInv

LEMMA LiftParamsKeeps ==
  ASSUME IInv, LiftParams
  PROVE  IInv'
<1>1. Basics' /\ E' = E /\ pc' = "lifted" /\ pc = "javascript"
  BY BasicsKept DEF LiftParams, IInv, Steps
<1>2. MemoryInv'
  <2>1. UNCHANGED <<blocks, mem>>
    BY DEF LiftParams
  <2>2. CASE Indirect(E)
    <3> DEFINE at == PlaceOf(ArgumentAt(1))
    <3>1. PICK grown \in Grows : GetMemBuffer(brk, grown)
      BY <2>2 DEF LiftParams, E
    <3>2. AccessTo(at, E.params) /\ Block(at, E.params) \in blocks /\ E.params \in Seq(CoreTy)
      BY <1>1, <2>2, Signatures DEF LiftParams, IInv, ParamsInv, E, Function
    <3>3. MemoryInv
      BY DEF IInv
    <3> HIDE DEF at
    <3> QED BY <2>1, <3>1, <3>2, <3>3, AccessKeeps
  <2>3. CASE ~Indirect(E)
    BY <2>1, <2>3, MemoryKept DEF LiftParams, E, IInv, memory
  <2> QED BY <2>2, <2>3
<1>3. AreaInv'
  BY <1>1, AreaKept DEF LiftParams, Called, Steps
<1>4. ParamsInv' /\ ImportInv' /\ ResultInv' /\ AbortInv'
  BY <1>1 DEF ParamsInv, ImportInv, ResultInv, AbortInv
<1> QED BY <1>1, <1>2, <1>3, <1>4 DEF IInv

(* The parameters of the import are allocated, the buffer is asked for, and *)
(* they are stored.                                                        *)
LEMMA CallImportKeeps ==
  ASSUME IInv, CallImport
  PROVE  IInv'
<1>1. Basics' /\ E' = E /\ I' = I /\ ImportParams' = ImportParams /\ pc' = "import" /\ pc = "lifted"
  BY BasicsKept DEF CallImport, IInv, Steps
<1>2. PICK name : ImportParams = ValuesOf(name, I.params)
  BY DEF ImportParams, I
<1>3. I.params \in Seq(CoreTy) /\ ByteSize(I.params) \in Nat
  BY Signatures, ByteSizeIs DEF IInv, Function
<1>4. blocks \subseteq blocks' /\ MemoryInv' /\
      IF Indirect(I)
      THEN vp'[1].tag = "int" /\ ~Negative(vp'[1].v) /\
             LoadedAll(mem', PlaceOf(vp'[1].v), I.params) = ImportParams
      ELSE \A n \in 1..Len(I.params) :
             vp'[n].v = ImportParams[n] /\ vp'[n].tag \in Tags(ImportParams[n])
  <2>1. CASE Indirect(I)
    <3> DEFINE b == Block(Top(blocks), I.params)
    <3>1. PICK grown \in Grows : GetMemBuffer(GrownFor(Top(blocks')), grown)
      BY <2>1 DEF CallImport, I
    <3>2. /\ blocks' = blocks \cup {b} /\ b = [at |-> Top(blocks), size |-> ByteSize(I.params)]
          /\ vp' = <<Js(Pointer(b.at), "int")>> /\ AccessTo(b.at, I.params)
          /\ mem' = StoredAll(mem, b.at, ImportParams)
      BY <2>1 DEF CallImport, I, Allocated, ByteSize, Block
    <3>3. MemoryInv
      BY DEF IInv
    <3>4. b = Block(b.at, I.params)
      BY DEF Block
    <3> HIDE DEF b
    <3>5. HeapWith(blocks, ByteSize(I.params), b, blocks')
      BY <1>2, <1>3, <3>2, <3>3, Extended DEF MemoryInv
    <3>6. HeapEnds(blocks', Top(blocks')) /\ Top(blocks') \in Nat /\ b.at \in Nat /\ IsBlock(b)
      <4>1. b.at = Top(blocks) /\ b.size = ByteSize(I.params)
        BY <3>2
      <4> QED BY <1>2, <1>3, <3>5, <4>1 DEF HeapWith, IsBlock
    <3>7. GrownFor(Top(blocks')) \in Nat /\ Top(blocks') <= GrownFor(Top(blocks'))
      BY <3>3, <3>6, GrownIs DEF MemoryInv
    <3>8. /\ view' = GrownFor(Top(blocks')) /\ lastSbrk' = view' /\ brk' \in Nat
          /\ GrownFor(Top(blocks')) <= brk'
      BY <3>1, <3>3, <3>7, BufferIs DEF MemoryInv
    <3>9. access' <= Top(blocks') /\ access' \in Nat
      <4>1. Block(b.at, I.params) \in blocks' /\ AccessTo(b.at, I.params) /\
              I.params \in Seq(CoreTy)
        BY <1>2, <1>3, <3>2, <3>4
      <4> QED BY <3>6, <4>1, AccessIs
    <3>10. WritesInside'
      <4>1. StoredIn(b, ImportParams)
        BY <1>2, <1>3, <3>2, <3>4, FitsBlock
      <4>2. b \in blocks' /\ blocks \subseteq blocks'
        BY <3>2
      <4> QED BY <3>3, <3>6, <4>1, <4>2, StoredInside DEF StoredIn, MemoryInv
    <3>11. MemoryInv'
      <4>1. HeapEnds(blocks, Top(blocks))' /\ Top(blocks)' = Top(blocks')
        BY <3>6
      <4> QED BY <3>6, <3>7, <3>8, <3>9, <3>10, <4>1 DEF MemoryInv, AccessInView
    <3>12. vp'[1].tag = "int" /\ PlaceOf(vp'[1].v) = b.at /\ ~Negative(vp'[1].v)
      BY <3>2 DEF Js, PlaceOf, Pointer, Value, Negative
    <3>13. LoadedAll(mem', b.at, I.params) = ImportParams
      <4>1. b.at \in Nat /\ I.params \in Seq(CoreTy)
        BY <1>2, <1>3, <3>6
      <4>2. mem' = StoredAll(mem, b.at, ValuesOf(name, I.params))
        BY <1>2, <1>3, <3>2
      <4> QED BY <1>2, <1>3, <4>1, <4>2, ReadBack
    <3> QED BY <2>1, <3>2, <3>11, <3>12, <3>13
  <2>2. CASE ~Indirect(I)
    <3>1. UNCHANGED <<memory, buffer>> /\ MemoryInv
      BY <2>2 DEF CallImport, I, IInv
    <3>2. PICK tags \in Boxings(ImportParams) :
            vp' = [n \in 1..Len(ImportParams) |-> Js(ImportParams[n], tags[n])]
      BY <2>2 DEF CallImport, I
    <3>3. Len(ImportParams) = Len(I.params)
      <4>1. I.params \in Seq(CoreTy)
        BY <1>2, <1>3
      <4> QED BY <1>2, <1>3, <4>1, ValuesAre
    <3>4. \A n \in 1..Len(I.params) : vp'[n].v = ImportParams[n] /\
            vp'[n].tag \in Tags(ImportParams[n])
      BY <3>2, <3>3 DEF Js, Boxings
    <3>5. blocks \subseteq blocks' /\ MemoryInv'
      BY <3>1, MemoryKept DEF memory
    <3> QED BY <2>2, <3>4, <3>5
  <2> QED BY <2>1, <2>2
<1>5. ImportInv'
  BY <1>1, <1>4 DEF ImportInv
<1>6. AreaInv'
  BY <1>1, <1>4, AreaKept DEF CallImport, Called, Steps
<1>7. ParamsInv' /\ ResultInv' /\ AbortInv'
  BY <1>1 DEF ParamsInv, ResultInv, AbortInv
<1> QED BY <1>1, <1>4, <1>5, <1>6, <1>7 DEF IInv

(* The wrapper unboxes vp by the flat signature, whose pointer to results   *)
(* vp does not have: it finds the pointer to the import's parameters, or   *)
(* the parameters.                                                         *)
LEMMA Unboxed ==
  ASSUME IInv, pc = "import", NEW vs, vs = UnboxedArgs
  PROVE  IF Indirect(I)
         THEN /\ DOMAIN vs = {1} /\ vs[1] = vp[1].v /\ ~Negative(vs[1])
              /\ LoadedAll(mem, PlaceOf(vs[1]), I.params) = ImportParams
         ELSE /\ AllBut("i32", vs, ImportParams)
              /\ DOMAIN vs = DOMAIN ImportParams
              /\ \A n \in DOMAIN vs : Negative(vs[n]) => Negative(ImportParams[n])
<1>1. I.params \in Seq(CoreTy)
  BY Signatures DEF IInv, Function
<1>2. vs = [n \in 1..Len(Flat(I)) |-> FromVp(ImportSignature(I)[n], vp[n])]
      /\ \A n \in 1..Len(Flat(I)) : ImportSignature(I)[n] = Flat(I)[n]
  <2>1. Flat(I) \in Seq(CoreTy)
    BY <1>1, ShortList DEF Flat, CoreTy
  <2>2. CASE Results(I)
    <3>1. ImportSignature(I) = Flat(I) \o <<"i32">>
      BY <2>2 DEF ImportSignature
    <3>2. Len(ImportSignature(I)) - 1 = Len(Flat(I))
          /\ \A n \in 1..Len(Flat(I)) : ImportSignature(I)[n] = Flat(I)[n]
      BY <2>1, <3>1
    <3> QED BY <2>2, <3>2 DEF UnboxedArgs, I
  <2>3. CASE ~Results(I)
    <3>1. ImportSignature(I) = Flat(I)
      BY <2>3 DEF ImportSignature
    <3> QED BY <2>3, <3>1 DEF UnboxedArgs, I
  <2> QED BY <2>2, <2>3
<1>3. CASE Indirect(I)
  <2>1. vp[1].tag = "int" /\ ~Negative(vp[1].v) /\
          LoadedAll(mem, PlaceOf(vp[1].v), I.params) = ImportParams
    BY <1>3 DEF IInv, ImportInv
  <2>2. Len(Flat(I)) = 1 /\ Flat(I)[1] = "i32"
    BY <1>3 DEF Flat
  <2>3. vs[1] = FromVp("i32", vp[1]) /\ DOMAIN vs = {1}
    BY <1>2, <2>2
  <2>4. vs[1] = vp[1].v
    BY <2>1, <2>3 DEF FromVp
  <2> QED BY <1>3, <2>1, <2>3, <2>4
<1>4. CASE ~Indirect(I)
  <2>1. Flat(I) = I.params
    BY <1>4 DEF Flat
  <2>2. \A n \in 1..Len(I.params) : vp[n].v = ImportParams[n] /\ vp[n].tag \in Tags(ImportParams[n])
    BY <1>4 DEF IInv, ImportInv
  <2>3. /\ Len(ImportParams) = Len(I.params) /\ DOMAIN ImportParams = 1..Len(I.params)
        /\ Len(I.params) \in Nat /\ \A n \in 1..Len(I.params) : ImportParams[n].ty = I.params[n]
    <3>1. PICK name : ImportParams = ValuesOf(name, I.params)
      BY DEF ImportParams, I
    <3> QED BY <1>1, <3>1, ValuesAre
  <2>4. ASSUME NEW n \in 1..Len(I.params)
        PROVE  /\ Whole(ImportParams[n]) => vs[n] = ImportParams[n]
               /\ Negative(vs[n]) => Negative(ImportParams[n])
    <3> DEFINE ty == I.params[n]
               v == ImportParams[n]
    <3>1. vs[n] = FromVp(ty, vp[n]) /\ vp[n].v = v /\ vp[n].tag \in Tags(v) /\ v.ty = ty
      BY <1>2, <2>1, <2>2, <2>3
    <3> HIDE DEF ty, v
    <3>2. vs[n] = v \/ vs[n] = Garbage
      BY <3>1 DEF FromVp
    <3>3. Whole(v) => vs[n] = v
      <4>1. ty = "i32" /\ Whole(v) => vp[n].tag = "int"
        BY <3>1 DEF Whole, Tags
      <4> QED BY <3>1, <4>1 DEF FromVp
    <3>4. ~Negative(Garbage)
      BY DEF Garbage, Value, Negative
    <3> QED BY <3>2, <3>3, <3>4 DEF v
  <2>5. Len(vs) = Len(I.params) /\ DOMAIN vs = 1..Len(I.params)
    BY <1>2, <2>1, <2>3
  <2>6. AllBut("i32", vs, ImportParams)
    BY <2>3, <2>4, <2>5 DEF AllBut, Whole
  <2> QED BY <1>4, <2>3, <2>4, <2>5, <2>6
<1> QED BY <1>3, <1>4

(* What the host's function is called with: what has been unboxed, or read  *)
(* from memory behind the pointer.                                         *)
LEMMA HostSees ==
  ASSUME IInv, ImportWrapper
  PROVE  IF Indirect(I) THEN hostSaw' = ImportParams ELSE AllBut("i32", hostSaw', ImportParams)
<1>1. pc = "import" /\ hostSaw' = HostReads(UnboxedArgs, I)
  BY DEF ImportWrapper, I
<1>2. PICK vs : vs = UnboxedArgs
  OBVIOUS
<1>3. IF Indirect(I) THEN LoadedAll(mem, PlaceOf(vs[1]), I.params) = ImportParams
      ELSE AllBut("i32", vs, ImportParams)
  BY <1>1, <1>2, Unboxed
<1> QED BY <1>1, <1>2, <1>3 DEF HostReads

LEMMA ImportAbortsKeeps ==
  ASSUME IInv, ImportAborts
  PROVE  IInv'
<1>1. /\ Basics' /\ E' = E /\ I' = I /\ ImportParams' = ImportParams
      /\ pc' = "import aborted" /\ pc = "import"
  BY BasicsKept DEF ImportAborts, IInv, Steps
<1>2. MemoryInv'
  BY MemoryKept DEF ImportAborts, IInv
<1>3. AreaInv'
  BY <1>1, AreaKept DEF ImportAborts, Called, Steps, memory
<1>4. AbortInv'
  <2>1. PICK vs : vs = UnboxedArgs
    OBVIOUS
  <2>2. \E n \in DOMAIN vs : Negative(vs[n])
    BY <2>1 DEF ImportAborts, ParamRefused
  <2>3. ~Indirect(I) /\ \E n \in DOMAIN ImportParams : Negative(ImportParams[n])
    BY <1>1, <2>1, <2>2, Unboxed
  <2> QED BY <1>1, <2>3 DEF AbortInv
<1>5. ParamsInv' /\ ImportInv' /\ ResultInv'
  BY <1>1 DEF ParamsInv, ImportInv, ResultInv
<1> QED BY <1>1, <1>2, <1>3, <1>4, <1>5 DEF IInv

(* The area for the results of the import, and the memory the host may     *)
(* have asked for in addition.                                             *)
LEMMA HostAllocates ==
  ASSUME IInv, ImportWrapper, Results(I)
  PROVE  /\ MemoryInv' /\ blocks \subseteq blocks'
         /\ Block(PlaceOf(jsValue'.v), I.results) \in blocks'
         /\ LoadedAll(mem', PlaceOf(jsValue'.v), I.results) = ImportResults
<1> DEFINE area == Block(Top(blocks), I.results)
           more == blocks \cup {area}
<1>1. I.results \in Seq(CoreTy) /\ ByteSize(I.results) \in Nat
  BY Signatures, ByteSizeIs DEF IInv, Function
<1>2. PICK name : ImportResults = ValuesOf(name, I.results)
  BY DEF ImportResults, I
<1>3. area = [at |-> Top(blocks), size |-> ByteSize(I.results)] /\ area = Block(area.at, I.results)
      /\ area.at = Top(blocks) /\ area.size = ByteSize(I.results)
  BY DEF Block
<1>4. /\ blocks' = more \/ blocks' = more \cup {[at |-> Top(more), size |-> Page]}
      /\ jsValue' = Js(Pointer(area.at), "int") /\ brk' = GrownFor(Top(blocks'))
      /\ mem' = StoredAll(mem, area.at, ImportResults) /\ UNCHANGED buffer
  BY DEF ImportWrapper, I, Results, CoreFn, Allocated, AreaToJs, Block
<1>5. more = blocks \cup {area}
  OBVIOUS
<1>6. MemoryInv
  BY DEF IInv
<1> HIDE DEF area, more
<1>7. HeapWith(blocks, ByteSize(I.results), area, more)
  BY <1>1, <1>3, <1>5, <1>6, Extended DEF MemoryInv
<1>8. Top(more) \in Nat /\ HeapEnds(more, Top(more)) /\ area.at \in Nat /\ IsBlock(area)
  BY <1>1, <1>3, <1>7 DEF HeapWith, IsBlock
<1>9. HeapEnds(blocks', Top(blocks')) /\ Top(blocks') \in Nat
  <2>1. CASE blocks' = more
    BY <1>8, <2>1
  <2>2. CASE blocks' = more \cup {[at |-> Top(more), size |-> Page]}
    <3>1. Page \in Nat
      BY AllocatorAssumption
    <3>2. HeapWith(more, Page, [at |-> Top(more), size |-> Page], blocks')
      BY <1>8, <2>2, <3>1, Extended
    <3> QED BY <3>2 DEF HeapWith
  <2> QED BY <1>4, <2>1, <2>2
<1>10. area \in blocks' /\ blocks \subseteq blocks'
  BY <1>4, <1>5
<1>11. brk' \in Nat /\ Top(blocks') <= brk' /\ brk <= brk'
  BY <1>4, <1>6, <1>9, GrownIs DEF MemoryInv
<1>12. WritesInside'
  <2>1. mem' = StoredAll(mem, area.at, ValuesOf(name, I.results))
    BY <1>2, <1>4
  <2>2. StoredIn(area, ImportResults)
    BY <1>1, <1>2, <1>3, <2>1, FitsBlock
  <2> QED BY <1>6, <1>8, <1>10, <2>2, StoredInside DEF StoredIn, MemoryInv
<1>13. MemoryInv'
  <2>1. HeapEnds(blocks, Top(blocks))' /\ Top(blocks)' = Top(blocks')
    BY <1>9
  <2> QED BY <1>4, <1>6, <1>9, <1>11, <1>12, <2>1 DEF MemoryInv, AccessInView, buffer
<1>14. PlaceOf(jsValue'.v) = area.at
  BY <1>4 DEF Js, PlaceOf, Pointer, Value
<1>15. LoadedAll(mem', area.at, I.results) = ImportResults
  <2>1. area.at \in Nat /\ mem' = StoredAll(mem, area.at, ValuesOf(name, I.results))
    BY <1>2, <1>4, <1>8
  <2> QED BY <1>1, <1>2, <2>1, ReadBack
<1> QED BY <1>3, <1>10, <1>13, <1>14, <1>15

LEMMA ImportWrapperKeeps ==
  ASSUME IInv, ImportWrapper
  PROVE  IInv'
<1>1. /\ Basics' /\ E' = E /\ I' = I /\ ImportParams' = ImportParams /\
           ImportResults' = ImportResults
      /\ pc' = "imported" /\ pc = "import"
  BY BasicsKept DEF ImportWrapper, IInv, Steps
<1>2. IF Indirect(I) THEN hostSaw' = ImportParams ELSE AllBut("i32", hostSaw', ImportParams)
  BY HostSees
<1>3. /\ MemoryInv' /\ blocks \subseteq blocks'
      /\ IF Results(I)
         THEN /\ Block(PlaceOf(jsValue'.v), I.results) \in blocks'
              /\ LoadedAll(mem', PlaceOf(jsValue'.v), I.results) = ImportResults
         ELSE I.results # <<>> => jsValue'.v = FromUint64(ImportResults[1])
  <2>1. CASE Results(I)
    BY <2>1, HostAllocates
  <2>2. CASE ~Results(I)
    <3>1. UNCHANGED <<memory, buffer>> /\ MemoryInv
      BY <2>2 DEF ImportWrapper, I, IInv
    <3>2. MemoryInv' /\ blocks \subseteq blocks'
      BY <3>1, MemoryKept DEF memory
    <3>3. I.results # <<>> => ImportResults # <<>>
      <4>1. PICK name : ImportResults = ValuesOf(name, I.results)
        BY DEF ImportResults, I
      <4>2. I.results \in Seq(CoreTy)
        BY Signatures DEF IInv, Function
      <4>3. Len(ImportResults) = Len(I.results) /\ Len(<<>>) = 0
        BY <4>1, <4>2, ValuesAre
      <4>4. I.results # <<>> => Len(I.results) # 0
        BY <4>2
      <4> QED BY <4>3, <4>4
    <3>4. I.results # <<>> => jsValue' = ToVp(ImportResults[1])
      BY <2>2, <3>3 DEF ImportWrapper, I
    <3>5. \A v : ToVp(v).v = FromUint64(v)
      BY DEF ToVp, Js
    <3> QED BY <2>2, <3>2, <3>4, <3>5
  <2> QED BY <2>1, <2>2
<1>4. ImportInv'
  BY <1>1, <1>2, <1>3 DEF ImportInv
<1>5. AreaInv'
  BY <1>1, <1>3, AreaKept DEF ImportWrapper, Called, Steps
<1>6. ParamsInv' /\ ResultInv' /\ AbortInv'
  BY <1>1 DEF ParamsInv, ResultInv, AbortInv
<1> QED BY <1>1, <1>3, <1>4, <1>5, <1>6 DEF IInv

LEMMA LiftResultsKeeps ==
  ASSUME IInv, LiftResults
  PROVE  IInv'
<1>1. /\ Basics' /\ E' = E /\ I' = I /\ ImportResults' = ImportResults
      /\ pc' = "results" /\ pc = "imported"
  BY BasicsKept DEF LiftResults, IInv, Steps
<1>2. I.results \in Seq(CoreTy) /\ UNCHANGED <<blocks, mem>>
  BY Signatures DEF IInv, Function, LiftResults
<1>3. /\ MemoryInv'
      /\ IF Results(I) THEN jsSaw' = ImportResults ELSE AllBut("i64", jsSaw', ImportResults)
  <2>1. CASE Results(I)
    <3> DEFINE at == PlaceOf(jsValue.v)
    <3>1. PICK grown \in Grows : GetMemBuffer(brk, grown)
      BY <2>1 DEF LiftResults, I
    <3>2. AccessTo(at, I.results) /\ jsSaw' = LoadedAll(mem, at, I.results)
      BY <2>1 DEF LiftResults, I
    <3>3. Block(at, I.results) \in blocks /\ LoadedAll(mem, at, I.results) = ImportResults /\
            MemoryInv
      BY <1>1, <2>1 DEF IInv, ImportInv
    <3> HIDE DEF at
    <3>4. MemoryInv'
      BY <1>2, <3>1, <3>2, <3>3, AccessKeeps
    <3> QED BY <2>1, <3>2, <3>3, <3>4
  <2>2. CASE ~Results(I)
    <3>1. MemoryInv'
      BY <1>2, <2>2, MemoryKept DEF LiftResults, I, IInv, memory
    <3>2. jsSaw' = IF I.results = <<>> THEN <<>> ELSE <<jsValue.v>>
      BY <2>2 DEF LiftResults, I
    <3>3. I.results # <<>> => jsValue.v = FromUint64(ImportResults[1])
      BY <1>1, <2>2 DEF IInv, ImportInv
    <3>4. Len(I.results) \in Nat /\ ~(Len(I.results) > 1) /\
            (I.results # <<>> => Len(I.results) # 0)
      BY <1>2, <2>2 DEF Results
    <3>5. Len(ImportResults) = Len(I.results) /\
            ImportResults = [n \in 1..Len(I.results) |-> ImportResults[n]]
      <4>1. PICK name : ImportResults = ValuesOf(name, I.results)
        BY DEF ImportResults, I
      <4> QED BY <1>2, <4>1, ValuesAre
    <3>6. CASE I.results = <<>>
      <4>1. jsSaw' = <<>> /\ Len(ImportResults) = 0
        BY <3>2, <3>5, <3>6
      <4> QED BY <2>2, <3>1, <4>1 DEF AllBut
    <3>7. CASE I.results # <<>>
      <4>1. Len(ImportResults) = 1 /\ DOMAIN ImportResults = {1}
        <5>1. Len(I.results) = 1
          <6>1. \A n \in Nat : n # 0 /\ ~(n > 1) => n = 1
            OBVIOUS
          <6>2. Len(I.results) \in Nat /\ ~(Len(I.results) > 1) /\ Len(I.results) # 0
            BY <3>4, <3>7, Zenon
          <6> QED BY <6>1, <6>2
        <5>2. DOMAIN ImportResults = 1..1
          BY <3>5, <5>1
        <5>3. 1..1 = {1}
          OBVIOUS
        <5> QED BY <3>5, <5>1, <5>2, <5>3
      <4>2. jsSaw' = <<FromUint64(ImportResults[1])>>
        BY <3>2, <3>3, <3>7
      <4>3. Len(jsSaw') = 1 /\ jsSaw'[1] = FromUint64(ImportResults[1])
        BY <4>2
      <4> QED BY <2>2, <3>1, <4>1, <4>3, PassedWhole DEF AllBut
    <3> QED BY <3>6, <3>7
  <2> QED BY <2>1, <2>2
<1>4. ImportInv'
  BY <1>1, <1>3 DEF ImportInv
<1>5. AreaInv'
  BY <1>1, AreaKept DEF LiftResults, Called, Steps
<1>6. ParamsInv' /\ ResultInv' /\ AbortInv'
  BY <1>1 DEF ParamsInv, ResultInv, AbortInv
<1> QED BY <1>1, <1>3, <1>4, <1>5, <1>6 DEF IInv

LEMMA LowerResultsKeeps ==
  ASSUME IInv, LowerResults
  PROVE  IInv'
<1>1. Basics' /\ E' = E /\ ResultsOfExport' = ResultsOfExport /\ pc' = "fulfilled" /\ pc = "results"
  BY BasicsKept DEF LowerResults, IInv, Steps
<1>2. E.results \in Seq(CoreTy) /\ retptr' = retptr /\ blocks' = blocks
  BY Signatures DEF IInv, Function, LowerResults
<1>3. PICK name : ResultsOfExport = ValuesOf(name, E.results)
  BY DEF ResultsOfExport, E
<1>4. /\ MemoryInv'
      /\ IF Results(E) THEN LoadedAll(mem', retptr, E.results) = ResultsOfExport
         ELSE E.results # <<>> => /\ jsValue'.v = ResultsOfExport[1]
                                  /\ jsValue'.tag \in Tags(ResultsOfExport[1])
  <2>1. CASE Results(E)
    <3>1. PICK grown \in Grows : GetMemBuffer(brk, grown)
      BY <2>1 DEF LowerResults, E
    <3>2. ArgumentAt(Len(ImportSignature(E))) = Pointer(retptr) /\
            Block(retptr, E.results) \in blocks
      BY <1>1, <2>1 DEF IInv, AreaInv, Called, Steps
    <3>3. PlaceOf(ArgumentAt(Len(ImportSignature(world.exp)))) = retptr
      BY <3>2 DEF PlaceOf, Pointer, Value, E
    <3>4. AccessTo(retptr, E.results) /\ mem' = StoredAll(mem, retptr, ResultsOfExport)
      BY <2>1, <3>3 DEF LowerResults, E
    <3>5. mem' = StoredAll(mem, retptr, ValuesOf(name, E.results))
      BY <1>3, <3>4
    <3>6. \E vs : StoredIn(Block(retptr, E.results), vs)
      BY <1>2, <3>5, FitsBlock
    <3>7. MemoryInv' /\ retptr \in Nat
      <4>1. MemoryInv
        BY DEF IInv
      <4> QED BY <1>2, <3>1, <3>2, <3>4, <3>6, <4>1, AccessKeeps
    <3>8. LoadedAll(mem', retptr, E.results) = ResultsOfExport
      BY <1>2, <1>3, <3>5, <3>7, ReadBack
    <3> QED BY <2>1, <3>7, <3>8
  <2>2. CASE ~Results(E)
    <3>1. MemoryInv'
      BY <1>2, <2>2, MemoryKept DEF LowerResults, E, IInv, memory
    <3>2. PICK tags \in Boxings(ResultsOfExport) :
            jsValue' = IF ResultsOfExport = <<>> THEN Undefined ELSE Js(ResultsOfExport[1], tags[1])
      BY <2>2 DEF LowerResults, E
    <3>3. E.results # <<>> => 1 \in 1..Len(ResultsOfExport) /\ ResultsOfExport # <<>>
      <4>1. Len(ResultsOfExport) = Len(E.results)
        BY <1>2, <1>3, ValuesAre
      <4>2. E.results # <<>> => Len(E.results) \in Nat /\ Len(E.results) # 0
        BY <1>2
      <4>3. Len(<<>>) = 0
        OBVIOUS
      <4> QED BY <4>1, <4>2, <4>3
    <3>4. E.results # <<>> => tags[1] \in Tags(ResultsOfExport[1])
      BY <3>3 DEF Boxings
    <3>5. E.results # <<>> => jsValue'.v = ResultsOfExport[1] /\ jsValue'.tag = tags[1]
      BY <3>2, <3>3 DEF Js
    <3> QED BY <2>2, <3>1, <3>4, <3>5
  <2> QED BY <2>1, <2>2
<1>5. ResultInv'
  BY <1>1, <1>2, <1>4 DEF ResultInv
<1>6. AreaInv'
  BY <1>1, AreaKept DEF LowerResults, Called, Steps
<1>7. ParamsInv' /\ ImportInv' /\ AbortInv'
  BY <1>1 DEF ParamsInv, ImportInv, AbortInv
<1> QED BY <1>1, <1>4, <1>5, <1>6, <1>7 DEF IInv

(* A single value fits into any block, also one of 0 bytes as call asks    *)
(* for it (retsize of a function without a return pointer).                *)
LEMMA SingleFits ==
  ASSUME NEW b, b.size \in Nat, NEW v, mem' = StoredAll(mem, b.at, <<v>>)
  PROVE  StoredIn(b, <<v>>)
<1> DEFINE tys == TypesOf(<<v>>)
<1>1. Len(tys) = 1 /\ tys[1] = v.ty
  BY DEF TypesOf
<1> HIDE DEF tys
<1>2. ByteSize(tys) = Offset(tys, 1) + Words(tys[1])
  <2>1. Offset(tys, 1 + 1) = Offset(tys, 1) + Words(tys[1])
    <3>1. Len(tys) \in Nat /\ 1 \in 1..Len(tys)
      BY <1>1
    <3> QED BY <3>1, OffsetSteps
  <2>2. 1 + 1 = Len(tys) + 1
    BY <1>1
  <2> QED BY <2>1, <2>2 DEF ByteSize
<1>3. Offset(tys, 1) = 0
  BY <1>1, OffsetSteps
<1>4. ByteSize(tys) \in {1, 2}
  BY <1>2, <1>3, WordsAre
<1>5. UsableSize(b.size) \in Nat /\ 2 <= UsableSize(b.size)
  BY SizesAre
<1>6. Len(<<v>>) \in Nat
  OBVIOUS
<1> QED BY <1>4, <1>5, <1>6 DEF StoredIn, tys

(* It is loaded again with its type.                                       *)
LEMMA SingleLoaded ==
  ASSUME NEW m, NEW at \in Nat, NEW v, v.ty \in CoreTy, NEW s, s = StoredAll(m, at, <<v>>)
  PROVE  Loaded(s, at, v.ty) = v
<1> DEFINE tys == <<v.ty>>
           vs == <<v>>
<1>1. tys \in Seq(CoreTy) /\ Len(tys) = 1 /\ tys[1] = v.ty
  BY ShortList
<1>2. Len(vs) = Len(tys) /\ vs = [n \in 1..Len(tys) |-> vs[n]] /\ vs[1] = v
      /\ \A n \in 1..Len(tys) : vs[n].ty = tys[n]
  OBVIOUS
<1> HIDE DEF tys
<1>3. LoadedAll(s, at, tys) = vs
  <2>1. s = StoredAll(m, at, vs)
    OBVIOUS
  <2> HIDE DEF vs
  <2> QED BY <1>1, <1>2, <2>1, LoadedStored
<1>4. Offset(tys, 1) = 0 /\ at + 0 = at
  BY <1>1, OffsetSteps
<1>5. LoadedAll(s, at, tys)[1] = Loaded(s, at, v.ty)
  BY <1>1, <1>4 DEF LoadedAll
<1> HIDE DEF vs
<1> QED BY <1>2, <1>3, <1>5

LEMMA ReturnKeeps ==
  ASSUME IInv, Return
  PROVE  IInv'
<1>1. Basics' /\ E' = E /\ ResultsOfExport' = ResultsOfExport /\ pc' = "return" /\ pc = "fulfilled"
  BY BasicsKept DEF Return, IInv, Steps
<1>2. /\ E.results \in Seq(CoreTy) /\ fn.retptr = Results(E)
      /\ ~Results(E) => fn.ret = E.results /\ fn.retsize = 0
  BY Signatures DEF IInv, Function, CoreFn
<1>3. PICK name : ResultsOfExport = ValuesOf(name, E.results)
  BY DEF ResultsOfExport, E
<1>4. MemoryInv /\ UNCHANGED buffer
  BY DEF IInv, Return
<1>5. CASE Results(E) \/ E.results = <<>>
  <2>1. UNCHANGED <<memory, retptr>>
    BY <1>2, <1>5 DEF Return
  <2>2. MemoryInv'
    BY <1>4, <2>1, MemoryKept
  <2>3. ResultInv'
    BY <1>1, <1>5, <2>1 DEF IInv, ResultInv, Results, memory
  <2>4. AreaInv'
    BY <1>1, <2>1, AreaKept DEF Return, Called, Steps, memory
  <2>5. ParamsInv' /\ ImportInv' /\ AbortInv'
    BY <1>1 DEF ParamsInv, ImportInv, AbortInv
  <2> QED BY <1>1, <2>2, <2>3, <2>4, <2>5 DEF IInv
<1>6. CASE ~Results(E) /\ E.results # <<>>
  <2> DEFINE b == [at |-> Top(blocks), size |-> 0]
             v == FromResult(E.results[1], jsValue)
  <2>1. /\ Allocate(0) /\ retptr' = b.at /\ mem' = StoredAll(mem, b.at, <<v>>) /\ b.size = 0
        /\ b.at = Top(blocks)
    BY <1>2, <1>6 DEF Return, Stored
  <2>2. b = [at |-> Top(blocks), size |-> 0]
    OBVIOUS
  <2> HIDE DEF b, v
  <2>3. StoredIn(b, <<v>>)
    BY <2>1, SingleFits
  <2>4. MemoryInv' /\ Top(blocks) \in Nat
    BY <1>4, <2>1, <2>2, <2>3, AllocateKeeps
  <2>5. 1 \in 1..Len(E.results) /\ E.results[1] \in CoreTy
    BY <1>2, <1>6
  <2>6. Whole(ResultsOfExport[1]) => Loaded(mem', retptr', E.results[1]) = ResultsOfExport[1]
    <3>1. jsValue.v = ResultsOfExport[1] /\ jsValue.tag \in Tags(ResultsOfExport[1])
      BY <1>1, <1>6 DEF IInv, ResultInv
    <3>2. ResultsOfExport[1].ty = E.results[1]
      BY <1>2, <1>3, <2>5, ValuesAre
    <3>3. SUFFICES ASSUME Whole(ResultsOfExport[1])
                   PROVE  Loaded(mem', retptr', E.results[1]) = ResultsOfExport[1]
      OBVIOUS
    <3>4. E.results[1] = "i32" => jsValue.tag = "int"
      BY <3>1, <3>2, <3>3 DEF Whole, Tags
    <3>5. v = ResultsOfExport[1]
      BY <3>1, <3>4 DEF FromResult, v
    <3>6. v.ty = E.results[1] /\ v.ty \in CoreTy
      BY <2>5, <3>2, <3>5
    <3>7. Loaded(mem', b.at, v.ty) = v
      BY <2>1, <2>4, <3>6, SingleLoaded
    <3> QED BY <2>1, <3>5, <3>6, <3>7
  <2>7. ResultInv'
    BY <1>1, <1>6, <2>6 DEF ResultInv, Results
  <2>8. AreaInv'
    BY <1>1, <1>6 DEF AreaInv, Results
  <2>9. ParamsInv' /\ ImportInv' /\ AbortInv'
    BY <1>1 DEF ParamsInv, ImportInv, AbortInv
  <2> QED BY <1>1, <2>4, <2>7, <2>8, <2>9 DEF IInv
<1> QED BY <1>5, <1>6

LEMMA ReturnAbortsKeeps ==
  ASSUME IInv, ReturnAborts
  PROVE  IInv'
<1>1. /\ Basics' /\ E' = E /\ ResultsOfExport' = ResultsOfExport
      /\ pc' = "return aborted" /\ pc = "fulfilled"
  BY BasicsKept DEF ReturnAborts, IInv, Steps
<1>2. /\ E.results \in Seq(CoreTy) /\ fn.retptr = Results(E)
      /\ ~Results(E) => fn.ret = E.results /\ fn.retsize = 0
  BY Signatures DEF IInv, Function, CoreFn
<1>3. ~Results(E) /\ E.results # <<>> /\ Negative(FromResult(E.results[1], jsValue))
  BY <1>2 DEF ReturnAborts, ResultRefused
<1>4. AreaInv'
  BY <1>1, <1>3 DEF AreaInv, Results
<1>5. MemoryInv'
  <2>1. PICK b : b = [at |-> Top(blocks), size |-> 0]
    OBVIOUS
  <2>2. MemoryInv /\ Allocate(0) /\ UNCHANGED buffer /\ mem' = mem
    BY <1>2, <1>3 DEF IInv, ReturnAborts
  <2> QED BY <2>1, <2>2, AllocateKeeps
<1>6. AbortInv'
  <2>1. Len(ResultsOfExport) = Len(E.results) /\ DOMAIN ResultsOfExport = 1..Len(E.results)
    <3>1. PICK name : ResultsOfExport = ValuesOf(name, E.results)
      BY DEF ResultsOfExport, E
    <3> QED BY <1>2, <3>1, ValuesAre
  <2>2. 1 \in DOMAIN ResultsOfExport
    BY <1>2, <1>3, <2>1
  <2>3. jsValue.v = ResultsOfExport[1]
    BY <1>1, <1>3 DEF IInv, ResultInv
  <2>4. Negative(ResultsOfExport[1])
    <3>1. FromResult(E.results[1], jsValue) \in {jsValue.v, Garbage}
      BY DEF FromResult
    <3>2. ~Negative(Garbage)
      BY DEF Garbage, Value, Negative
    <3> QED BY <1>3, <2>3, <3>1, <3>2
  <2> QED BY <1>1, <1>3, <2>2, <2>4 DEF AbortInv, Results
<1>7. ParamsInv' /\ ImportInv' /\ ResultInv'
  BY <1>1 DEF ParamsInv, ImportInv, ResultInv
<1> QED BY <1>1, <1>4, <1>5, <1>6, <1>7 DEF IInv

LEMMA WrapperReturnsKeeps ==
  ASSUME IInv, WrapperReturns
  PROVE  IInv'
<1>1. Basics' /\ E' = E /\ ResultsOfExport' = ResultsOfExport /\ pc' = "done" /\ pc = "return"
  BY BasicsKept DEF WrapperReturns, IInv, Steps
<1>2. MemoryInv' /\ mem' = mem /\ retptr' = retptr
  BY MemoryKept DEF WrapperReturns, IInv, memory
<1>3. AreaInv'
  BY <1>1, AreaKept DEF WrapperReturns, Called, Steps, memory
<1>4. ParamsInv' /\ ImportInv' /\ AbortInv'
  BY <1>1 DEF ParamsInv, ImportInv, AbortInv
<1>5. ResultInv'
  <2>1. CASE Results(E)
    <3>1. returned' = Pointer(retptr)
      <4>1. CoreFn(world.exp).ret = <<"i32">> /\ CoreFn(world.exp).retptr
        BY <2>1 DEF CoreFn, E
      <4>2. <<"i32">> # <<>>
        OBVIOUS
      <4> QED BY <4>1, <4>2 DEF WrapperReturns
    <3>2. LoadedAll(mem, retptr, E.results) = ResultsOfExport
      BY <1>1, <2>1 DEF IInv, ResultInv
    <3> QED BY <1>1, <1>2, <2>1, <3>1, <3>2 DEF ResultInv
  <2>2. CASE ~Results(E)
    <3>1. E.results # <<>> => returned' = Loaded(mem, retptr, E.results[1])
      BY <2>2 DEF WrapperReturns, CoreFn, E
    <3>2. E.results # <<>> /\ Whole(ResultsOfExport[1]) =>
            Loaded(mem, retptr, E.results[1]) = ResultsOfExport[1]
      BY <1>1, <2>2 DEF IInv, ResultInv
    <3> QED BY <1>1, <2>2, <3>1, <3>2 DEF ResultInv
  <2> QED BY <2>1, <2>2
<1> QED BY <1>1, <1>2, <1>3, <1>4, <1>5 DEF IInv

LEMMA StutterKeeps ==
  ASSUME IInv, UNCHANGED vars
  PROVE  IInv'
<1>1. UNCHANGED <<pc, world, shape, fn, mem, brk, blocks, lastSbrk, view, access, argptr, args,
                  retptr, vp, hostSaw, jsValue, jsSaw, returned>>
  BY DEF vars, memory, buffer
<1>2. Basics' /\ E' = E /\ I' = I
  BY <1>1 DEF IInv, Basics, E, I
<1>3. MemoryInv'
  BY <1>1, MemoryKept DEF IInv, memory, buffer
<1>4. UNCHANGED <<Params, ImportParams, ImportResults, ResultsOfExport, SeenParams>>
  BY <1>1 DEF Params, ImportParams, ImportResults, ResultsOfExport, ValuesOf, SeenParams, ArgumentAt
<1>5. ParamsInv'
  BY <1>1, <1>2, <1>4 DEF IInv, ParamsInv, ArgumentAt
<1>6. AreaInv'
  BY <1>1, <1>2, <1>4 DEF IInv, AreaInv, ArgumentAt
<1>7. ImportInv' /\ ResultInv'
  BY <1>1, <1>2, <1>4 DEF IInv, ImportInv, ResultInv
<1>8. AbortInv'
  BY <1>1, <1>2, <1>4 DEF IInv, AbortInv
<1> QED BY <1>2, <1>3, <1>5, <1>6, <1>7, <1>8 DEF IInv

-----------------------------------------------------------------------------
(* At every moment of a call its values are where IInv says, for all       *)
(* worlds and sizes: each of the wrappers of splice.rs, call, GetMemBuffer *)
(* and the bindings keeps it.                                              *)
THEOREM Invariance == Spec => []IInv
<1>1. IInv /\ [Next]_vars => IInv'
  <2>1. SUFFICES ASSUME IInv, [Next]_vars PROVE IInv'
    OBVIOUS
  <2>2. CASE WithoutParameters
    BY <2>1, <2>2, WithoutParametersKeeps
  <2>3. CASE Spill
    BY <2>1, <2>3, SpillKeeps
  <2>4. CASE Call
    BY <2>1, <2>4, CallKeeps
  <2>5. CASE EngineGrows
    BY <2>1, <2>5, EngineGrowsKeeps
  <2>6. CASE LiftParams
    BY <2>1, <2>6, LiftParamsKeeps
  <2>7. CASE CallImport
    BY <2>1, <2>7, CallImportKeeps
  <2>8. CASE ImportWrapper
    BY <2>1, <2>8, ImportWrapperKeeps
  <2>9. CASE LiftResults
    BY <2>1, <2>9, LiftResultsKeeps
  <2>10. CASE LowerResults
    BY <2>1, <2>10, LowerResultsKeeps
  <2>11. CASE Return
    BY <2>1, <2>11, ReturnKeeps
  <2>12. CASE WrapperReturns
    BY <2>1, <2>12, WrapperReturnsKeeps
  <2>13. CASE ImportAborts
    BY <2>1, <2>13, ImportAbortsKeeps
  <2>14. CASE ReturnAborts
    BY <2>1, <2>14, ReturnAbortsKeeps
  <2>15. CASE Done \/ UNCHANGED vars
    BY <2>1, <2>15, StutterKeeps DEF Done
  <2> QED
    BY <2>1, <2>2, <2>3, <2>4, <2>5, <2>6, <2>7, <2>8, <2>9, <2>10, <2>11, <2>12, <2>13, <2>14,
       <2>15 DEF Next
<1> QED BY <1>1, InitInv, PTL DEF Spec

(* ArgumentsArrive: the user's function and the host's are called with the *)
(* arguments they were given, as many as they declare, behind a pointer or *)
(* flat, whatever tag a number has (synthesize_export_functions, call,     *)
(* synthesize_import_functions); only for a negative s64 on the stack is   *)
(* the host's not called (coreabi_from_bigint64 aborts).                   *)
THEOREM ArgumentsAlwaysArrive == Spec => []ArgumentsArrive
<1>1. IInv => ArgumentsArrive
  <2> SUFFICES ASSUME IInv PROVE ArgumentsArrive
    OBVIOUS
  <2>1. pc = "javascript" =>
          /\ IF Indirect(world.exp) THEN SeenParams = Params ELSE AllBut("i64", SeenParams, Params)
          /\ Len(args) = Len(ImportSignature(world.exp))
    BY DEF IInv, ParamsInv, E
  <2>2. pc = "imported" =>
          IF Indirect(world.imp) THEN hostSaw = ImportParams
          ELSE AllBut("i32", hostSaw, ImportParams)
    BY DEF IInv, ImportInv, I
  <2>3. pc = "import aborted" =>
          ~Indirect(world.imp) /\ \E n \in DOMAIN ImportParams : Negative(ImportParams[n])
    BY DEF IInv, AbortInv, I
  <2> QED BY <2>1, <2>2, <2>3 DEF ArgumentsArrive
<1> QED BY <1>1, Invariance, PTL

(* ResultsArrive: the host gets the results of the user's function, and    *)
(* the bindings those of the import, though memory is allocated in between *)
(* (call, from the promise's result; the wrappers' return pointers); only  *)
(* for a single negative s64 does the host get none (call aborts).         *)
THEOREM ResultsAlwaysArrive == Spec => []ResultsArrive
<1>1. IInv => ResultsArrive
  <2> SUFFICES ASSUME IInv PROVE ResultsArrive
    OBVIOUS
  <2>1. E.results \in Seq(CoreTy)
    BY Signatures DEF IInv, Function
  <2>2. PICK name : ResultsOfExport = ValuesOf(name, E.results)
    BY DEF ResultsOfExport, E
  <2>3. Len(ResultsOfExport) = Len(E.results) /\ DOMAIN ResultsOfExport = 1..Len(E.results)
        /\ Len(E.results) \in Nat
    BY <2>1, <2>2, ValuesAre
  <2>4. ASSUME pc = "done", E.results # <<>>
        PROVE  IF Results(E) THEN LoadedAll(mem, PlaceOf(returned), E.results) = ResultsOfExport
               ELSE AllBut("i32", <<returned>>, ResultsOfExport)
    <3>1. CASE Results(E)
      <4>1. LoadedAll(mem, retptr, E.results) = ResultsOfExport /\ returned = Pointer(retptr)
        BY <2>4, <3>1 DEF IInv, ResultInv
      <4>2. PlaceOf(returned) = retptr
        BY <4>1 DEF PlaceOf, Pointer, Value
      <4> QED BY <3>1, <4>1, <4>2
    <3>2. CASE ~Results(E)
      <4>1. Len(E.results) = 1
        <5>1. Len(E.results) # 0
          BY <2>1, <2>4
        <5>2. Len(E.results) \in Nat
          BY <2>1
        <5>3. ~(Len(E.results) > 1)
          BY <3>2 DEF Results
        <5>4. \A n \in Nat : n # 0 /\ ~(n > 1) => n = 1
          OBVIOUS
        <5> QED BY <5>1, <5>2, <5>3, <5>4
      <4>2. Whole(ResultsOfExport[1]) => returned = ResultsOfExport[1]
        BY <2>4, <3>2 DEF IInv, ResultInv
      <4>3. Len(<<returned>>) = 1 /\ <<returned>>[1] = returned
        OBVIOUS
      <4>4. \A n \in DOMAIN ResultsOfExport : n = 1
        BY <2>3, <4>1
      <4> QED BY <2>3, <3>2, <4>1, <4>2, <4>3, <4>4 DEF AllBut, Whole
    <3> QED BY <3>1, <3>2
  <2>5. pc = "results" =>
          IF Results(I) THEN jsSaw = ImportResults ELSE AllBut("i64", jsSaw, ImportResults)
    BY DEF IInv, ImportInv
  <2>6. pc = "return aborted" =>
          ~Results(E) /\ \E n \in DOMAIN ResultsOfExport : Negative(ResultsOfExport[n])
    BY DEF IInv, AbortInv
  <2> QED BY <2>4, <2>5, <2>6 DEF ResultsArrive, E, I
<1> QED BY <1>1, Invariance, PTL

(* WritesInside: nothing is written outside a block of cabi_realloc, so    *)
(* the sizes core_fn and the wrappers ask for are large enough.            *)
THEOREM WritesStayInside == Spec => []WritesInside
<1>1. IInv => WritesInside
  BY DEF IInv, MemoryInv
<1> QED BY <1>1, Invariance, PTL

(* AccessInView: no access of the bindings goes beyond the buffer that     *)
(* GetMemBuffer returned, though memory may grow while the buffer is made  *)
(* and is then recorded at the earlier size.                               *)
THEOREM AccessStaysInView == Spec => []AccessInView
<1>1. IInv => AccessInView
  BY DEF IInv, MemoryInv
<1> QED BY <1>1, Invariance, PTL
=============================================================================

--------------------------- MODULE SplicingProofs ---------------------------
(* Proofs about the import side of Linking: each symbol that the bindings  *)
(* take from the environment reaches the host's import it is named after,  *)
(* each import that user code sees runs the host's function, and each      *)
(* resource is converted for the side it is on. The code keeps four lists  *)
(* in step that are built apart: import_bindings and resource_bindings in  *)
(* bindgen.rs, the imports added in splice.rs, and get_import's numbers    *)
(* that componentize.wizer turns into names. FlattenSeq of the community   *)
(* modules is a fold, and what it returns is shown for every length by a   *)
(* least counterexample (Induction). The second half of the module shows    *)
(* that generation and evaluation fail for no world but those that         *)
(* OtherWorldsEvaluate names: which joined names differ whatever their     *)
(* words are, and that lists which are joined repeat nothing.              *)
EXTENDS LinkingProofs

(* What holds of 0 and of the successor of each number it holds of, holds  *)
(* of every number: otherwise there would be a least counterexample.       *)
LEMMA Induction ==
  ASSUME NEW P, 0 \in P, \A n \in Nat : n \in P => n + 1 \in P
  PROVE  \A n \in Nat : n \in P
<1> DEFINE T == {n \in Nat : n \notin P}
<1>1. SUFFICES ASSUME T # {} PROVE FALSE
  OBVIOUS
<1>2. PICK x \in T : \A y \in T : ~(<<y, x>> \in OpToRel(<, Nat))
  <2> HIDE DEF T
  <2>1. T \subseteq Nat
    BY DEF T
  <2> QED BY <1>1, <2>1, WFMin, NatLessThanWellFounded, Zenon
<1>3. x # 0 /\ x - 1 \in Nat /\ x - 1 < x /\ x \in Nat /\ x \notin P
  OBVIOUS
<1>4. x - 1 \notin T
  BY <1>2, <1>3 DEF OpToRel
<1> QED BY <1>3, <1>4

(* FlattenSeq is the last value of a recursive function.                   *)
LEMMA FlattenFunction ==
  ASSUME NEW s, Len(s) \in Nat \ {0}
  PROVE  \E f : /\ f = [i \in 1..Len(s) |-> IF i = 1 THEN s[i] ELSE f[i - 1] \o s[i]]
                /\ FlattenSeq(s) = f[Len(s)]
<1> DEFINE Joins(f, n) == f = [i \in 1..n |-> IF i = 1 THEN s[i] ELSE f[i - 1] \o s[i]]
           P == {n \in Nat : \E f : Joins(f, n)}
<1>1. 0 \in P
  <2>1. Joins([i \in 1..0 |-> s[i]], 0)
    OBVIOUS
  <2> QED BY <2>1
<1>2. \A n \in Nat : n \in P => n + 1 \in P
  <2> SUFFICES ASSUME NEW n \in Nat, n \in P PROVE n + 1 \in P
    OBVIOUS
  <2>1. PICK f : Joins(f, n)
    OBVIOUS
  <2> DEFINE g == [i \in 1..(n + 1) |-> IF i = n + 1
                                          THEN IF i = 1 THEN s[i] ELSE f[n] \o s[i]
                                          ELSE f[i]]
  <2>2. Joins(g, n + 1)
    <3>1. ASSUME NEW i \in 1..(n + 1)
          PROVE  g[i] = IF i = 1 THEN s[i] ELSE g[i - 1] \o s[i]
      <4>1. CASE i = n + 1
        BY <4>1
      <4>2. CASE i # n + 1
        <5>1. i \in 1..n /\ g[i] = f[i]
          BY <4>2
        <5>2. f[i] = IF i = 1 THEN s[i] ELSE f[i - 1] \o s[i]
          BY <5>1, <2>1
        <5>3. i # 1 => g[i - 1] = f[i - 1]
          BY <5>1
        <5> QED BY <5>1, <5>2, <5>3
      <4> QED BY <4>1, <4>2
    <3> QED BY <3>1
  <2>3. n + 1 \in Nat
    OBVIOUS
  <2> HIDE DEF g, Joins
  <2> QED BY <2>2, <2>3, Zenon
<1>3. \A n \in Nat : n \in P
  <2> HIDE DEF P
  <2> QED BY <1>1, <1>2, Induction
<1>4. PICK f : Joins(f, Len(s))
  BY <1>3
<1> DEFINE flatten[i \in 1..Len(s)] == IF i = 1 THEN s[i] ELSE flatten[i - 1] \o s[i]
<1>5. FlattenSeq(s) = flatten[Len(s)]
  BY DEF FlattenSeq
<1>6. Joins(flatten, Len(s))
  BY <1>4
<1> QED BY <1>5, <1>6

(* The lists u and v are what the first n lists of a and of b hold, with   *)
(* elements that had the same place in both at the same place.             *)
Joint(a, b, n, u, v) ==
  /\ Len(u) = Len(v)
  /\ \A i \in 1..n : \A j \in 1..Len(a[i]) :
       \E k \in 1..Len(u) : u[k] = a[i][j] /\ v[k] = b[i][j]
  /\ \A k \in 1..Len(u) :
       \E i \in 1..n : \E j \in 1..Len(a[i]) : u[k] = a[i][j] /\ v[k] = b[i][j]

(* The elements of a concatenation, by place.                              *)
LEMMA ConcatAt ==
  ASSUME NEW S, NEW u \in Seq(S), NEW x \in Seq(S)
  PROVE  /\ u \o x \in Seq(S)
         /\ Len(u) \in Nat /\ Len(x) \in Nat
         /\ Len(u \o x) = Len(u) + Len(x)
         /\ \A k \in 1..Len(u) : (u \o x)[k] = u[k]
         /\ \A j \in 1..Len(x) : (u \o x)[Len(u) + j] = x[j]
<1>1. Len(u) \in Nat /\ Len(x) \in Nat
  OBVIOUS
<1>2. u \o x \in Seq(S) /\ Len(u \o x) = Len(u) + Len(x)
  OBVIOUS
<1>3. \A k \in 1..Len(u) : (u \o x)[k] = u[k]
  OBVIOUS
<1>4. \A j \in 1..Len(x) : (u \o x)[Len(u) + j] = x[j]
  BY <1>1
<1> QED BY <1>1, <1>2, <1>3, <1>4

(* One more list on either side keeps the two in step.                     *)
LEMMA JointConcat ==
  ASSUME NEW S, NEW T, NEW u \in Seq(S), NEW v \in Seq(T), NEW x \in Seq(S), NEW y \in Seq(T),
         Len(x) = Len(y), NEW a, NEW b, NEW n \in Nat, a[n + 1] = x, b[n + 1] = y,
         Joint(a, b, n, u, v)
  PROVE  Joint(a, b, n + 1, u \o x, v \o y)
<1> DEFINE p == u \o x
           q == v \o y
<1>0. Len(u) = Len(v)
  BY DEF Joint
<1>1. /\ Len(u) \in Nat /\ Len(x) \in Nat /\ Len(u) = Len(v)
      /\ Len(p) = Len(u) + Len(x) /\ Len(q) = Len(u) + Len(x)
  BY <1>0, ConcatAt
<1>2. /\ \A k \in 1..Len(u) : p[k] = u[k] /\ q[k] = v[k]
      /\ \A j \in 1..Len(x) : p[Len(u) + j] = x[j] /\ q[Len(u) + j] = y[j]
  BY ConcatAt, <1>1
<1> HIDE DEF p, q
<1>3. ASSUME NEW i \in 1..(n + 1), NEW j \in 1..Len(a[i])
      PROVE  \E k \in 1..Len(p) : p[k] = a[i][j] /\ q[k] = b[i][j]
  <2>1. CASE i = n + 1
    <3>1. j \in 1..Len(x) /\ a[i][j] = x[j] /\ b[i][j] = y[j]
      BY <2>1
    <3>2. Len(u) + j \in 1..Len(p)
      BY <3>1, <1>1
    <3> QED BY <3>1, <3>2, <1>2
  <2>2. CASE i # n + 1
    <3>1. i \in 1..n
      BY <2>2
    <3>2. PICK k \in 1..Len(u) : u[k] = a[i][j] /\ v[k] = b[i][j]
      BY <3>1 DEF Joint
    <3>3. k \in 1..Len(p)
      BY <1>1
    <3> QED BY <3>2, <3>3, <1>2
  <2> QED BY <2>1, <2>2
<1>4. ASSUME NEW k \in 1..Len(p)
      PROVE  \E i \in 1..(n + 1) : \E j \in 1..Len(a[i]) : p[k] = a[i][j] /\ q[k] = b[i][j]
  <2>1. CASE k \in 1..Len(u)
    <3>1. PICK i \in 1..n : \E j \in 1..Len(a[i]) : u[k] = a[i][j] /\ v[k] = b[i][j]
      BY <2>1 DEF Joint
    <3>2. i \in 1..(n + 1) /\ p[k] = u[k] /\ q[k] = v[k]
      BY <2>1, <1>2
    <3> QED BY <3>1, <3>2
  <2>2. CASE k \notin 1..Len(u)
    <3>1. PICK j \in 1..Len(x) : k = Len(u) + j
      <4>1. k - Len(u) \in 1..Len(x) /\ k = Len(u) + (k - Len(u))
        BY <2>2, <1>1
      <4> QED BY <4>1
    <3>2. p[k] = x[j] /\ q[k] = y[j] /\ n + 1 \in 1..(n + 1)
      BY <3>1, <1>2
    <3> QED BY <3>2
  <2> QED BY <2>1, <2>2
<1> QED BY <1>1, <1>3, <1>4 DEF Joint, p, q

(* So do the first two lists.                                              *)
LEMMA JointOne ==
  ASSUME NEW a, NEW b, Len(a[1]) = Len(b[1])
  PROVE  Joint(a, b, 1, a[1], b[1])
BY DEF Joint

(* Lists of lists that agree in their lengths are in step once flattened.  *)
LEMMA FlattenAgree ==
  ASSUME NEW S, NEW T, NEW a \in Seq(Seq(S)), NEW b \in Seq(Seq(T)), Len(a) = Len(b),
         \A i \in 1..Len(a) : Len(a[i]) = Len(b[i])
  PROVE  /\ FlattenSeq(a) \in Seq(S)
         /\ FlattenSeq(b) \in Seq(T)
         /\ Joint(a, b, Len(a), FlattenSeq(a), FlattenSeq(b))
<1> DEFINE N == Len(a)
<1>1. /\ N \in Nat /\ N = Len(b)
      /\ \A i \in 1..N : a[i] \in Seq(S) /\ b[i] \in Seq(T) /\ Len(a[i]) = Len(b[i])
  BY ElementOfSeq
<1>2. CASE N = 0
  <2>1. a = <<>> /\ b = <<>>
    BY <1>2, <1>1, EmptySeq
  <2>2. FlattenSeq(a) = <<>> /\ FlattenSeq(b) = <<>> /\ Len(a) = 0
    BY <2>1 DEF FlattenSeq
  <2> QED BY <2>2 DEF Joint
<1>3. CASE N # 0
  <2>1. PICK f : /\ f = [i \in 1..N |-> IF i = 1 THEN a[i] ELSE f[i - 1] \o a[i]]
                 /\ FlattenSeq(a) = f[N]
    BY <1>1, <1>3, FlattenFunction
  <2>2. PICK g : /\ g = [i \in 1..N |-> IF i = 1 THEN b[i] ELSE g[i - 1] \o b[i]]
                 /\ FlattenSeq(b) = g[N]
    <3>1. Len(b) \in Nat \ {0}
      BY <1>1, <1>3
    <3>2. PICK g : /\ g = [i \in 1..Len(b) |-> IF i = 1 THEN b[i] ELSE g[i - 1] \o b[i]]
                   /\ FlattenSeq(b) = g[Len(b)]
      BY <3>1, FlattenFunction
    <3> QED BY <1>1, <3>2, Zenon
  <2> HIDE DEF N
  <2> DEFINE Agree(n) == f[n] \in Seq(S) /\ g[n] \in Seq(T) /\ Joint(a, b, n, f[n], g[n])
             P == {n \in Nat : n \in 1..N => Agree(n)}
  <2>3. 0 \in P
    OBVIOUS
  <2>4. \A n \in Nat : n \in P => n + 1 \in P
    <3> SUFFICES ASSUME NEW n \in Nat, n \in 1..N => Agree(n), n + 1 \in 1..N
                 PROVE Agree(n + 1)
      OBVIOUS
    <3>1. CASE n = 0
      <4>1. f[1] = a[1] /\ g[1] = b[1] /\ 1 \in 1..N
        BY <3>1, <2>1, <2>2
      <4>2. Joint(a, b, 1, a[1], b[1])
        BY <4>1, <1>1, JointOne
      <4> QED BY <3>1, <4>1, <4>2, <1>1
    <3>2. CASE n # 0
      <4>1. n \in 1..N
        BY <3>2, <1>1
      <4>2. f[n + 1] = f[n] \o a[n + 1] /\ g[n + 1] = g[n] \o b[n + 1]
        <5>1. n + 1 # 1 /\ (n + 1) - 1 = n
          BY <3>2
        <5> QED BY <2>1, <2>2, <5>1
      <4>3. f[n] \in Seq(S) /\ g[n] \in Seq(T) /\ Joint(a, b, n, f[n], g[n])
        BY <4>1
      <4>4. a[n + 1] \in Seq(S) /\ b[n + 1] \in Seq(T) /\ Len(a[n + 1]) = Len(b[n + 1])
        BY <1>1
      <4>5. Joint(a, b, n + 1, f[n] \o a[n + 1], g[n] \o b[n + 1])
        BY <4>3, <4>4, JointConcat
      <4>6. f[n] \o a[n + 1] \in Seq(S) /\ g[n] \o b[n + 1] \in Seq(T)
        BY <4>3, <4>4, ConcatAt
      <4> QED BY <4>2, <4>5, <4>6
    <3> QED BY <3>1, <3>2
  <2>5. \A n \in Nat : n \in P
    <3> HIDE DEF P
    <3> QED BY <2>3, <2>4, Induction
  <2>6. N \in 1..N
    BY <1>1, <1>3
  <2>7. Agree(N)
    BY <2>5, <2>6, <1>1
  <2> QED BY <2>1, <2>2, <2>7 DEF N
<1> QED BY <1>2, <1>3

-----------------------------------------------------------------------------
(* The functions of an item of the world that are generated with it.       *)
FuncsFrom(item) ==
  CASE item.is = "func" -> {f \in ToSet(item.funcs) : f.kind = "free" /\ ~f.async}
    [] item.is = "iface" -> ToSet(item.funcs)
    [] item.is = "resource" -> ToSet(RootFuncs(item.key.name))

(* Import i is one that import_bindgen makes for an item of the world.     *)
ImportOf(i, item) ==
  /\ i.f \in FuncsFrom(item)
  /\ i.specifier = OwnerOf(item)
  /\ i.iface = (item.is # "func")
  /\ i.interface = IF item.is = "iface" THEN InterfaceName(item.key) ELSE NoName

(* The resources of an exported item, and of all of them.                  *)
IdsOf(item) == {Resource(item.key, n) : n \in ToSet(item.resources)}
ExportedIds == UNION {IdsOf(item) : item \in ToSet(world.exports)}

(* imports and classes are sequences.                                      *)
ListsInv ==
  /\ imports \in Seq(ToSet(imports))
  /\ classes \in Seq(ToSet(classes))

(* A resource that is on the export side belongs to an exported item.      *)
DirectionsInv ==
  \A r \in DOMAIN directions :
    /\ r \in ResourceId /\ r = Resource(r.owner, r.res)
    /\ directions[r] = "import" \/ (directions[r] = "export" /\ r \in ExportedIds)
    /\ pc = "imports" => directions[r] = "import"

(* The sides that the code of an import or export was generated for are    *)
(* sides that an intrinsic is made for.                                    *)
Sided(i) ==
  \A r \in DOMAIN i.map :
    /\ r \in ResourceId
    /\ \/ i.map[r] = "import" /\ r \in importedResources
       \/ i.map[r] = "export" /\ r \in ExportedIds

(* All that was generated is sided so, imports on the import side.         *)
MapsInv ==
  pc # "failed" =>
    /\ \A i \in ToSet(imports) \cup ToSet(exports) : Sided(i)
    /\ \A i \in ToSet(imports) : \A r \in DOMAIN i.map : i.map[r] = "import"

(* The imported items that have been generated.                            *)
Passed == IF pc = "imports" THEN 1..(next - 1) ELSE 1..Len(world.imports)

(* o and c say from which items imports and classes come.                  *)
Origins(o, c) ==
  /\ o \in [1..Len(imports) -> 1..Len(world.imports)]
  /\ c \in [1..Len(classes) -> 1..Len(world.imports)]
  /\ \A n \in 1..Len(imports) : ImportOf(imports[n], world.imports[o[n]])
  /\ \A m \in Passed :
       /\ \A f \in FuncsFrom(world.imports[m]) :
            \E n \in 1..Len(imports) : o[n] = m /\ imports[n].f = f
       /\ \A class \in ToSet(ClassesOf(world.imports[m])) :
            \E k \in 1..Len(classes) : c[k] = m /\ classes[k] = class

(* Each import and each class comes from one item, and each item that was  *)
(* generated has all of its functions and classes. The place of the item   *)
(* is kept apart, as two items may make the same class.                    *)
OriginsInv ==
  pc # "failed" =>
    \E o \in [1..Len(imports) -> 1..Len(world.imports)] :
      \E c \in [1..Len(classes) -> 1..Len(world.imports)] : Origins(o, c)

(* The values of pc from the placing of the wrappers in the table on, and  *)
(* once the environment is installed.                                      *)
Placing == {"export", "install", "evaluate", "bind", "fns", "initialised"}
Installed == {"evaluate", "bind", "fns", "initialised"}

(* The n-th wrapper calls the n-th import of the list; the wrappers are in *)
(* the table from the slot get_import counts from; and the bindings take   *)
(* the numbers in the order of the symbols.                                *)
SpliceInv ==
  /\ engine \in Engines
  /\ moduleImports \in Seq(ToSet(moduleImports))
  /\ wrappers \in Seq(Nat)
  /\ pc \notin Later \cup {"failed"} => wrappers = <<>>
  /\ pc \in Later =>
       /\ Len(wrappers) <= Len(SpliceList)
       /\ \A n \in 1..Len(wrappers) :
            wrappers[n] \in DOMAIN moduleImports /\ moduleImports[wrappers[n]] = SpliceList[n]
  /\ pc \in Placing =>
       /\ Len(wrappers) = Len(SpliceList)
       /\ table = Placed
       /\ base = engine.sample + Delta
  /\ pc \in Installed => bindings = [n \in 1..EnvImportCount |-> GetImport(n - 1)]

(* The inductive invariant of the import side.                             *)
SInv == IInv /\ ListsInv /\ DirectionsInv /\ MapsInv /\ SpliceInv
-----------------------------------------------------------------------------
(* A sequence over a set is one over its own elements, and conversely.     *)
LEMMA OwnElements ==
  ASSUME NEW S, NEW s \in Seq(S)
  PROVE  s \in Seq(ToSet(s)) /\ ToSet(s) \subseteq S /\ DOMAIN s = 1..Len(s) /\ Len(s) \in Nat
<1>1. DOMAIN s = 1..Len(s) /\ Len(s) \in Nat /\ \A n \in 1..Len(s) : s[n] \in S
  BY ElementOfSeq
<1>2. s = [n \in 1..Len(s) |-> s[n]]
  BY <1>1
<1>3. \A n \in 1..Len(s) : s[n] \in ToSet(s)
  BY <1>1 DEF ToSet
<1>4. s \in Seq(ToSet(s))
  BY <1>1, <1>2, <1>3, IsASeq
<1>5. ToSet(s) \subseteq S
  BY <1>1 DEF ToSet
<1> QED BY <1>1, <1>4, <1>5

(* A function on the first N numbers is a sequence.                        *)
LEMMA SeqOfFunction ==
  ASSUME NEW N \in Nat, NEW s, s = [n \in 1..N |-> s[n]]
  PROVE  s \in Seq(ToSet(s)) /\ Len(s) = N /\ DOMAIN s = 1..N
<1>1. DOMAIN s = 1..N
  OBVIOUS
<1>2. \A n \in 1..N : s[n] \in ToSet(s)
  BY <1>1 DEF ToSet
<1>3. s \in Seq(ToSet(s))
  BY <1>2
<1> QED BY <1>1, <1>3

(* What is in a list of lists is in the list, and nothing else is.         *)
LEMMA FlattenElements ==
  ASSUME NEW S, NEW N \in Nat, NEW a \in [1..N -> Seq(S)]
  PROVE  /\ FlattenSeq(a) \in Seq(S)
         /\ ToSet(FlattenSeq(a)) = UNION {ToSet(a[n]) : n \in 1..N}
<1> DEFINE u == FlattenSeq(a)
<1>1. a \in Seq(Seq(S)) /\ Len(a) = N
  OBVIOUS
<1>2. u \in Seq(S) /\ Joint(a, a, N, u, u)
  BY <1>1, FlattenAgree
<1> HIDE DEF u
<1>3. DOMAIN u = 1..Len(u)
  BY <1>2
<1>4. \A n \in 1..N : DOMAIN a[n] = 1..Len(a[n])
  OBVIOUS
<1>5. ASSUME NEW x \in ToSet(u) PROVE \E n \in 1..N : x \in ToSet(a[n])
  <2>1. PICK k \in 1..Len(u) : u[k] = x
    BY <1>3 DEF ToSet
  <2>2. PICK n \in 1..N : \E j \in 1..Len(a[n]) : u[k] = a[n][j]
    BY <1>2 DEF Joint
  <2> QED BY <2>1, <2>2, <1>4 DEF ToSet
<1>6. ASSUME NEW n \in 1..N, NEW x \in ToSet(a[n]) PROVE x \in ToSet(u)
  <2>1. PICK j \in 1..Len(a[n]) : a[n][j] = x
    BY <1>4 DEF ToSet
  <2>2. PICK k \in 1..Len(u) : u[k] = a[n][j]
    BY <1>2 DEF Joint
  <2> QED BY <2>1, <2>2, <1>3 DEF ToSet
<1> QED BY <1>2, <1>5, <1>6 DEF u

(* u holds those elements of a sequence for which there is a place in a.   *)
Picks(u, a, s, N) == \A x : x \in ToSet(u) <=> \E n \in 1..N : a[n] # <<>> /\ x = s[n]

(* Flattening lists of at most one element each selects elements.          *)
LEMMA FlattenChosen ==
  ASSUME NEW T, NEW s \in Seq(T), NEW N \in Nat, N = Len(s), NEW a \in [1..N -> Seq(T)],
         \A n \in 1..N : a[n] = <<s[n]>> \/ a[n] = <<>>
  PROVE  /\ FlattenSeq(a) \in Seq(T)
         /\ Picks(FlattenSeq(a), a, s, N)
<1>1. \A n \in 1..N : ToSet(a[n]) = IF a[n] # <<>> THEN {s[n]} ELSE {}
  BY DEF ToSet
<1>2. FlattenSeq(a) \in Seq(T) /\ ToSet(FlattenSeq(a)) = UNION {ToSet(a[n]) : n \in 1..N}
  BY FlattenElements
<1> QED BY <1>1, <1>2 DEF Picks

(* Lists of at most one element.                                           *)
LEMMA ShortSeqs ==
  ASSUME NEW T, NEW x \in T
  PROVE  <<x>> \in Seq(T) /\ <<>> \in Seq(T) /\ <<x>> # <<>>
OBVIOUS

-----------------------------------------------------------------------------
(* The selections of the model.                                            *)
LEMMA FreeFuncsAre ==
  ASSUME NEW T, NEW funcs \in Seq(T)
  PROVE  /\ FreeFuncs(funcs) \in Seq(T)
         /\ ToSet(FreeFuncs(funcs)) = {f \in ToSet(funcs) : f.kind = "free"}
<1> DEFINE N == Len(funcs)
           a == [n \in 1..N |-> IF funcs[n].kind = "free" THEN <<funcs[n]>> ELSE <<>>]
<1>0. \A n \in 1..N : funcs[n] \in T
  BY ElementOfSeq
<1>1. N \in Nat /\ N = Len(funcs) /\ DOMAIN funcs = 1..N
  OBVIOUS
<1>2. FreeFuncs(funcs) = FlattenSeq(a)
  BY DEF FreeFuncs, Flatten
<1> HIDE DEF N
<1>3. a \in [1..N -> Seq(T)]
  BY <1>0, ShortSeqs
<1>4. \A n \in 1..N : a[n] = <<funcs[n]>> \/ a[n] = <<>>
  OBVIOUS
<1>6. \A n \in 1..N : a[n] # <<>> <=> funcs[n].kind = "free"
  OBVIOUS
<1> HIDE DEF a
<1>5. /\ FlattenSeq(a) \in Seq(T)
      /\ Picks(FlattenSeq(a), a, funcs, N)
  BY <1>1, <1>3, <1>4, FlattenChosen
<1>7. \A x : x \in ToSet(funcs) <=> \E n \in 1..N : x = funcs[n]
  BY <1>1 DEF ToSet
<1> QED BY <1>2, <1>5, <1>6, <1>7 DEF Picks

(* The functions of a resource.                                            *)
LEMMA FuncsOfAre ==
  ASSUME NEW T, NEW funcs \in Seq(T), NEW res
  PROVE  /\ FuncsOf(funcs, res) \in Seq(T)
         /\ ToSet(FuncsOf(funcs, res)) = {f \in ToSet(funcs) : f.kind # "free" /\ f.res = res}
<1> DEFINE N == Len(funcs)
           a == [n \in 1..N |-> IF funcs[n].kind # "free" /\ funcs[n].res = res
                                THEN <<funcs[n]>> ELSE <<>>]
<1>0. \A n \in 1..N : funcs[n] \in T
  BY ElementOfSeq
<1>1. N \in Nat /\ N = Len(funcs) /\ DOMAIN funcs = 1..N
  OBVIOUS
<1>2. FuncsOf(funcs, res) = FlattenSeq(a)
  BY DEF FuncsOf, Flatten
<1> HIDE DEF N
<1>3. a \in [1..N -> Seq(T)]
  BY <1>0, ShortSeqs
<1>4. \A n \in 1..N : a[n] = <<funcs[n]>> \/ a[n] = <<>>
  OBVIOUS
<1>6. \A n \in 1..N : a[n] # <<>> <=> funcs[n].kind # "free" /\ funcs[n].res = res
  OBVIOUS
<1> HIDE DEF a
<1>5. /\ FlattenSeq(a) \in Seq(T)
      /\ Picks(FlattenSeq(a), a, funcs, N)
  BY <1>1, <1>3, <1>4, FlattenChosen
<1>7. \A x : x \in ToSet(funcs) <=> \E n \in 1..N : x = funcs[n]
  BY <1>1 DEF ToSet
<1> QED BY <1>2, <1>5, <1>6, <1>7 DEF Picks

(* Sorting an interface's functions by resource loses none and adds none.  *)
LEMMA ByResourceIs ==
  ASSUME NEW item, WellFormed(item), item.is = "iface"
  PROVE  /\ ByResource(item) \in Seq(ToSet(item.funcs))
         /\ ToSet(ByResource(item)) = ToSet(item.funcs)
<1> DEFINE T == ToSet(item.funcs)
           N == Len(item.resources)
           a == [n \in 1..N |-> FuncsOf(item.funcs, item.resources[n])]
           u == FreeFuncs(item.funcs)
           v == FlattenSeq(a)
<1>1. item.funcs \in Seq(T) /\ item.resources \in Seq(ToSet(item.resources))
  BY DEF WellFormed
<1>2. N \in Nat /\ DOMAIN item.resources = 1..N
  BY <1>1
<1>3. ByResource(item) = u \o v
  BY DEF ByResource, Flatten
<1> HIDE DEF N, T
<1>4. u \in Seq(T) /\ ToSet(u) = {f \in T : f.kind = "free"}
  BY <1>1, FreeFuncsAre DEF T
<1>5. a \in [1..N -> Seq(T)]
  BY <1>1, FuncsOfAre
<1>6. \A n \in 1..N : ToSet(a[n]) = {f \in T : f.kind # "free" /\ f.res = item.resources[n]}
  BY <1>1, FuncsOfAre DEF T
<1> HIDE DEF a, u
<1>7. v \in Seq(T) /\ ToSet(v) = UNION {ToSet(a[n]) : n \in 1..N}
  BY <1>2, <1>5, FlattenElements
<1> HIDE DEF v
<1>8. \A f \in T : f.kind # "free" => \E n \in 1..N : f.res = item.resources[n]
  BY <1>2 DEF WellFormed, ToSet, T
<1>9. ToSet(v) = {f \in T : f.kind # "free"}
  BY <1>6, <1>7, <1>8
<1>10. u \o v \in Seq(T) /\ ToSet(u \o v) = ToSet(u) \cup ToSet(v)
  <2>1. u \in Seq(ToSet(u)) /\ v \in Seq(ToSet(v))
    BY <1>4, <1>7, OwnElements
  <2>2. u \o v \in Seq(T)
    BY <1>4, <1>7
  <2> QED BY <2>1, <2>2, ConcatSet
<1> QED BY <1>3, <1>4, <1>9, <1>10 DEF T

(* The items of the world keep to the assumption.                          *)
LEMMA ImportOfWorld ==
  ASSUME TypeInv
  PROVE  /\ Keyed(world.imports) /\ Len(world.imports) \in Nat
         /\ DOMAIN world.imports = 1..Len(world.imports)
         /\ \A n \in 1..Len(world.imports) :
              /\ world.imports[n] \in ToSet(world.imports)
              /\ WellFormed(world.imports[n])
              /\ RootResourceOf(world.imports[n], world)
<1>1. /\ Keyed(world.imports)
      /\ \A item \in ToSet(world.imports) : WellFormed(item) /\ RootResourceOf(item, world)
  BY WorldAssumption DEF TypeInv
<1>2. DOMAIN world.imports = 1..Len(world.imports) /\ Len(world.imports) \in Nat
  BY <1>1 DEF Keyed
<1>3. \A n \in 1..Len(world.imports) : world.imports[n] \in ToSet(world.imports)
  BY <1>2 DEF ToSet
<1> QED BY <1>1, <1>2, <1>3

(* A resource of the world takes functions of resources of the world.      *)
LEMMA RootFuncsAre ==
  ASSUME TypeInv, NEW res
  PROVE  /\ RootFuncs(res) \in Seq(ToSet(RootFuncs(res)))
         /\ \A f : f \in ToSet(RootFuncs(res)) <=>
              \E n \in 1..Len(world.imports) :
                /\ world.imports[n].is = "func" /\ f = world.imports[n].funcs[1]
                /\ TakenBy(res, f)
<1> DEFINE N == Len(world.imports)
           chosen(i) == i.is = "func" /\ TakenBy(res, i.funcs[1])
           a == [n \in 1..N |-> IF chosen(world.imports[n]) THEN world.imports[n].funcs ELSE <<>>]
           T == UNION {ToSet(world.imports[n].funcs) : n \in 1..N}
<1>1. N \in Nat /\ DOMAIN world.imports = 1..N
  BY ImportOfWorld
<1>2. RootFuncs(res) = FlattenSeq(a)
  BY DEF RootFuncs, Flatten
<1>3. ASSUME NEW n \in 1..N PROVE a[n] \in Seq(T)
  <2>1. world.imports[n].funcs \in Seq(ToSet(world.imports[n].funcs))
    BY ImportOfWorld DEF WellFormed
  <2>2. ToSet(world.imports[n].funcs) \subseteq T
    OBVIOUS
  <2>3. world.imports[n].funcs \in Seq(T)
    <3> HIDE DEF T
    <3> QED BY <2>1, <2>2, SeqMonotonic
  <2> HIDE DEF T
  <2> QED BY <2>3
<1>4. \A n \in 1..N : chosen(world.imports[n]) =>
        ToSet(world.imports[n].funcs) = {world.imports[n].funcs[1]}
  <2> SUFFICES ASSUME NEW n \in 1..N, chosen(world.imports[n])
               PROVE  ToSet(world.imports[n].funcs) = {world.imports[n].funcs[1]}
    OBVIOUS
  <2>1. world.imports[n].funcs \in Seq(ToSet(world.imports[n].funcs)) /\ Len(world.imports[n].funcs) = 1
    BY ImportOfWorld DEF WellFormed
  <2>2. DOMAIN world.imports[n].funcs = 1..1
    BY <2>1
  <2> QED BY <2>2 DEF ToSet
<1>5. \A n \in 1..N : ToSet(a[n]) =
        IF chosen(world.imports[n]) THEN {world.imports[n].funcs[1]} ELSE {}
  <2>1. ToSet(<<>>) = {}
    BY DEF ToSet
  <2> HIDE DEF chosen
  <2> QED BY <1>4, <2>1
<1> HIDE DEF T
<1>6. a \in [1..N -> Seq(T)]
  <2>1. a = [n \in 1..N |-> a[n]]
    OBVIOUS
  <2> HIDE DEF a
  <2> QED BY <1>3, <2>1
<1> HIDE DEF a, N
<1>7. FlattenSeq(a) \in Seq(T) /\ ToSet(FlattenSeq(a)) = UNION {ToSet(a[n]) : n \in 1..N}
  BY <1>1, <1>6, FlattenElements
<1>8. FlattenSeq(a) \in Seq(ToSet(FlattenSeq(a)))
  BY <1>7, OwnElements
<1>9. \A f : f \in ToSet(FlattenSeq(a)) <=>
        \E n \in 1..N : chosen(world.imports[n]) /\ f = world.imports[n].funcs[1]
  <2> HIDE DEF chosen
  <2>1. \A f : f \in ToSet(FlattenSeq(a)) <=> \E n \in 1..N : f \in ToSet(a[n])
    BY <1>7
  <2>2. \A f : \A n \in 1..N :
          f \in ToSet(a[n]) <=> chosen(world.imports[n]) /\ f = world.imports[n].funcs[1]
    BY <1>5
  <2> QED BY <2>1, <2>2
<1> QED BY <1>2, <1>8, <1>9 DEF N

(* What is generated for a list of functions.                              *)
ImportsFor(funcs, specifier, iface, interface, dirs) ==
  [n \in 1..Len(funcs) |-> Imported(specifier, iface, funcs[n], interface, dirs)]

GeneratedFor(new, funcs, specifier, iface, interface, dirs) ==
  /\ \A i \in ToSet(new) :
       /\ i.f \in ToSet(funcs) /\ i.specifier = specifier /\ i.iface = iface
       /\ i.interface = interface /\ i.map = ResourceMap(i.f, dirs)
  /\ \A f \in ToSet(funcs) : \E i \in ToSet(new) : i.f = f

(* A list of imports for a list of functions.                              *)
LEMMA ImportedList ==
  ASSUME NEW funcs, funcs \in Seq(ToSet(funcs)), NEW specifier, NEW iface, NEW interface, NEW dirs,
         NEW new, new = ImportsFor(funcs, specifier, iface, interface, dirs)
  PROVE  /\ new \in Seq(ToSet(new))
         /\ GeneratedFor(new, funcs, specifier, iface, interface, dirs)
<1>1. Len(funcs) \in Nat /\ DOMAIN funcs = 1..Len(funcs)
  OBVIOUS
<1>2. new \in Seq(ToSet(new)) /\ DOMAIN new = 1..Len(funcs)
  BY <1>1, SeqOfFunction DEF ImportsFor
<1>3. \A n \in 1..Len(funcs) :
        /\ new[n].f = funcs[n] /\ new[n].specifier = specifier /\ new[n].iface = iface
        /\ new[n].interface = interface /\ new[n].map = ResourceMap(funcs[n], dirs)
  BY DEF Imported, ImportsFor
<1>4. \A n \in 1..Len(funcs) : new[n] \in ToSet(new) /\ funcs[n] \in ToSet(funcs)
  BY <1>1, <1>2 DEF ToSet
<1>5. ASSUME NEW i \in ToSet(new)
      PROVE  /\ i.f \in ToSet(funcs) /\ i.specifier = specifier /\ i.iface = iface
             /\ i.interface = interface /\ i.map = ResourceMap(i.f, dirs)
  <2>1. PICK n \in 1..Len(funcs) : i = new[n]
    BY <1>2 DEF ToSet
  <2> QED BY <2>1, <1>3, <1>4
<1>6. ASSUME NEW f \in ToSet(funcs) PROVE \E i \in ToSet(new) : i.f = f
  <2>1. PICK n \in 1..Len(funcs) : f = funcs[n]
    BY <1>1 DEF ToSet
  <2> QED BY <2>1, <1>3, <1>4
<1> QED BY <1>2, <1>5, <1>6 DEF GeneratedFor

(* new is all that is generated for an item.                               *)
NewFrom(new, item, dirs) ==
  /\ new \in Seq(ToSet(new))
  /\ \A i \in ToSet(new) : ImportOf(i, item) /\ i.map = ResourceMap(i.f, dirs)
  /\ \A f \in FuncsFrom(item) : \E i \in ToSet(new) : i.f = f

(* import_bindgen makes one import per function of the item.               *)
LEMMA NewImportsAre ==
  ASSUME TypeInv, NEW m \in 1..Len(world.imports), NEW item, item = world.imports[m], NEW dirs,
         NEW new, new = NewImports(item, dirs)
  PROVE  NewFrom(new, item, dirs)
<1> USE DEF NewFrom
<1>1. WellFormed(item)
  BY ImportOfWorld
<1>2. CASE item.is = "func"
  <2>1. new = FuncItem(item, dirs)
    BY <1>2 DEF NewImports
  <2>2. DOMAIN item.funcs = 1..1
    <3>1. item.funcs \in Seq(ToSet(item.funcs)) /\ Len(item.funcs) = 1
      BY <1>1, <1>2 DEF WellFormed
    <3> QED BY <3>1
  <2>3. ToSet(item.funcs) = {item.funcs[1]}
    BY <2>2 DEF ToSet
  <2>4. CASE item.funcs[1].kind = "free" /\ ~item.funcs[1].async
    <3> DEFINE i == Imported(item.key, FALSE, item.funcs[1], NoName, dirs)
    <3>1. new = <<i>>
      BY <2>1, <2>4 DEF FuncItem
    <3>2. ToSet(new) = {i} /\ new \in Seq({i})
      <4> HIDE DEF i
      <4> QED BY <3>1 DEF ToSet
    <3>3. ImportOf(i, item) /\ i.map = ResourceMap(i.f, dirs) /\ i.f = item.funcs[1]
      BY <2>3, <2>4, <1>2 DEF ImportOf, OwnerOf, Imported, FuncsFrom
    <3>4. FuncsFrom(item) = {item.funcs[1]}
      BY <2>3, <2>4, <1>2 DEF FuncsFrom
    <3> HIDE DEF i
    <3> QED BY <3>2, <3>3, <3>4
  <2>5. CASE ~(item.funcs[1].kind = "free" /\ ~item.funcs[1].async)
    <3>1. new = <<>>
      BY <2>1, <2>5 DEF FuncItem
    <3>2. FuncsFrom(item) = {}
      BY <2>3, <2>5, <1>2 DEF FuncsFrom
    <3> QED BY <3>1, <3>2 DEF ToSet
  <2> QED BY <2>4, <2>5
<1>3. CASE item.is = "iface"
  <2> DEFINE funcs == ByResource(item)
  <2>1. new = ImportsFor(funcs, item.key, TRUE, InterfaceName(item.key), dirs)
    BY <1>3 DEF NewImports, IfaceItem, ImportsFor
  <2>2. funcs \in Seq(ToSet(funcs)) /\ ToSet(funcs) = FuncsFrom(item)
    BY <1>1, <1>3, ByResourceIs DEF FuncsFrom
  <2> HIDE DEF funcs
  <2>3. /\ new \in Seq(ToSet(new))
        /\ GeneratedFor(new, funcs, item.key, TRUE, InterfaceName(item.key), dirs)
    BY <2>1, <2>2, ImportedList
  <2> QED BY <2>2, <2>3, <1>3 DEF ImportOf, OwnerOf, GeneratedFor
<1>4. CASE item.is = "resource"
  <2> DEFINE funcs == RootFuncs(item.key.name)
  <2>1. new = ImportsFor(funcs, Root, TRUE, NoName, dirs)
    BY <1>4 DEF NewImports, ResourceItem, ImportsFor
  <2>2. funcs \in Seq(ToSet(funcs)) /\ ToSet(funcs) = FuncsFrom(item)
    BY <1>4, RootFuncsAre DEF FuncsFrom
  <2> HIDE DEF funcs
  <2>3. new \in Seq(ToSet(new)) /\ GeneratedFor(new, funcs, Root, TRUE, NoName, dirs)
    BY <2>1, <2>2, ImportedList
  <2> QED BY <2>2, <2>3, <1>4 DEF ImportOf, OwnerOf, GeneratedFor
<1>5. item.is \in {"func", "iface", "resource"}
  BY <1>1 DEF WellFormed
<1> QED BY <1>2, <1>3, <1>4, <1>5

(* A class is declared for each resource that has functions.               *)
LEMMA ClassesAre ==
  ASSUME NEW item, WellFormed(item), NEW new, new = ClassesOf(item)
  PROVE  /\ new \in Seq(ToSet(new))
         /\ item.is = "iface" =>
              \A f \in ToSet(item.funcs) : f.kind # "free" =>
                ClassName(f.res, InterfaceName(item.key)) \in ToSet(new)
         /\ item.is = "resource" => ClassName(item.key.name, NoName) \in ToSet(new)
<1>1. CASE item.is = "func"
  <2>1. new = <<>>
    BY <1>1 DEF ClassesOf
  <2> QED BY <1>1, <2>1
<1>2. CASE item.is = "resource"
  <2> DEFINE c == ClassName(item.key.name, NoName)
  <2>1. new = <<c>>
    BY <1>2 DEF ClassesOf
  <2> HIDE DEF c
  <2>2. ToSet(new) = {c} /\ new \in Seq({c})
    BY <2>1 DEF ToSet
  <2> QED BY <1>2, <2>2 DEF c
<1>3. CASE item.is = "iface"
  <2> DEFINE N == Len(item.resources)
             name(r) == ClassName(r, InterfaceName(item.key))
             T == {name(item.resources[n]) : n \in 1..N}
             a == [n \in 1..N |-> IF FuncsOf(item.funcs, item.resources[n]) # <<>>
                                  THEN <<name(item.resources[n])>> ELSE <<>>]
  <2>1. new = FlattenSeq(a)
    BY <1>3 DEF ClassesOf, Flatten
  <2>2. N \in Nat /\ DOMAIN item.resources = 1..N
    BY DEF WellFormed
  <2>3. \A n \in 1..N : name(item.resources[n]) \in T
    OBVIOUS
  <2> HIDE DEF N, T, name
  <2>4. a \in [1..N -> Seq(T)]
    BY <2>3, ShortSeqs
  <2>5. \A n \in 1..N : FuncsOf(item.funcs, item.resources[n]) # <<>> =>
                          name(item.resources[n]) \in ToSet(a[n])
    <3>1. \A x : x \in ToSet(<<x>>)
      BY DEF ToSet
    <3> QED BY <3>1
  <2> HIDE DEF a
  <2>6. new \in Seq(T) /\ ToSet(new) = UNION {ToSet(a[n]) : n \in 1..N}
    BY <2>1, <2>2, <2>4, FlattenElements
  <2>7. new \in Seq(ToSet(new))
    BY <2>6, OwnElements
  <2>8. ASSUME NEW f \in ToSet(item.funcs), f.kind # "free" PROVE name(f.res) \in ToSet(new)
    <3>1. PICK n \in 1..N : f.res = item.resources[n]
      BY <1>3, <2>2, <2>8 DEF WellFormed, ToSet
    <3>2. f \in ToSet(FuncsOf(item.funcs, item.resources[n]))
      BY <2>8, <3>1, FuncsOfAre DEF WellFormed
    <3>3. FuncsOf(item.funcs, item.resources[n]) # <<>>
      BY <3>2 DEF ToSet
    <3> QED BY <3>1, <3>3, <2>5, <2>6
  <2> QED BY <1>3, <2>7, <2>8 DEF name
<1> QED BY <1>1, <1>2, <1>3 DEF WellFormed

-----------------------------------------------------------------------------
(* The symbols of the intrinsics and their imports are pushed side by side. *)
LEMMA ExportedResourcesAre ==
  ASSUME TypeInv
  PROVE  /\ ExportedResources \in Seq(ToSet(ExportedResources))
         /\ ToSet(ExportedResources) = ExportedIds
<1> DEFINE N == Len(world.exports)
           ids(n) == IdsOf(world.exports[n])
           list(n) == [k \in 1..Len(world.exports[n].resources) |->
                        Resource(world.exports[n].key, world.exports[n].resources[k])]
           a == [n \in 1..N |-> list(n)]
           T == UNION {ids(n) : n \in 1..N}
<1>1. /\ N \in Nat /\ DOMAIN world.exports = 1..N
      /\ \A n \in 1..N : WellFormed(world.exports[n])
  <2>1. Keyed(world.exports)
    BY WorldAssumption DEF TypeInv
  <2> QED BY <2>1, ItemOfWorld DEF Keyed
<1>2. ExportedResources = FlattenSeq(a)
  BY DEF ExportedResources, Flatten
<1>3. ASSUME NEW n \in 1..N PROVE list(n) \in Seq(T) /\ ToSet(list(n)) = ids(n)
  <2> DEFINE rs == world.exports[n].resources
             key == world.exports[n].key
  <2>1. rs \in Seq(ToSet(rs))
    BY <1>1 DEF WellFormed
  <2>2. DOMAIN rs = 1..Len(rs) /\ Len(rs) \in Nat
    BY <2>1
  <2>3. list(n) = [k \in 1..Len(rs) |-> Resource(key, rs[k])]
        /\ ids(n) = {Resource(key, r) : r \in ToSet(rs)}
    BY DEF IdsOf
  <2> HIDE DEF rs, key, list, ids
  <2>4. ToSet(list(n)) = ids(n)
    BY <2>2, <2>3 DEF ToSet
  <2>5. list(n) \in Seq(ToSet(list(n)))
    BY <2>2, <2>3, SeqOfFunction
  <2>6. ids(n) \subseteq T
    OBVIOUS
  <2> HIDE DEF T
  <2> QED BY <2>4, <2>5, <2>6, SeqMonotonic
<1> HIDE DEF list, T
<1>4. a \in [1..N -> Seq(T)] /\ \A n \in 1..N : ToSet(a[n]) = ids(n)
  BY <1>3
<1> HIDE DEF a, ids
<1>5. FlattenSeq(a) \in Seq(T) /\ ToSet(FlattenSeq(a)) = UNION {ToSet(a[n]) : n \in 1..N}
  BY <1>1, <1>4, FlattenElements
<1>6. FlattenSeq(a) \in Seq(ToSet(FlattenSeq(a)))
  BY <1>5, OwnElements
<1>7. UNION {ToSet(a[n]) : n \in 1..N} = UNION {ids(n) : n \in 1..N}
  BY <1>4
<1>8. UNION {ids(n) : n \in 1..N} = ExportedIds
  <2>1. \A item : item \in ToSet(world.exports) <=> \E n \in 1..N : item = world.exports[n]
    BY <1>1 DEF ToSet
  <2> QED BY <2>1 DEF ExportedIds, ids
<1> QED BY <1>2, <1>5, <1>6, <1>7, <1>8

(* The resources that were put on the import side.                         *)
LEMMA ImportedResourcesAre ==
  /\ ImportedResources \in Seq(ToSet(ImportedResources))
  /\ \A r : r \in ToSet(ImportedResources) <=> r \in ResourceId /\ r \in importedResources
<1> DEFINE N == Len(TypeOrder)
           a == [n \in 1..N |-> IF TypeOrder[n] \in importedResources THEN <<TypeOrder[n]>> ELSE <<>>]
<1>1. N \in Nat /\ N = Len(TypeOrder) /\ DOMAIN TypeOrder = 1..N
  BY OrderAssumption
<1>2. ImportedResources = FlattenSeq(a)
  BY DEF ImportedResources, Flatten
<1> HIDE DEF N
<1>3. TypeOrder \in Seq(ResourceId) /\ \A n \in 1..N : TypeOrder[n] \in ResourceId
  BY <1>1, OrderAssumption DEF ResourceId, ToSet
<1>4. a \in [1..N -> Seq(ResourceId)]
  BY <1>3, ShortSeqs
<1>5. \A n \in 1..N : a[n] = <<TypeOrder[n]>> \/ a[n] = <<>>
  OBVIOUS
<1>6. \A n \in 1..N : a[n] # <<>> <=> TypeOrder[n] \in importedResources
  OBVIOUS
<1> HIDE DEF a
<1>7. FlattenSeq(a) \in Seq(ResourceId) /\ Picks(FlattenSeq(a), a, TypeOrder, N)
  BY <1>1, <1>3, <1>4, <1>5, FlattenChosen
<1>8. FlattenSeq(a) \in Seq(ToSet(FlattenSeq(a)))
  BY <1>7, OwnElements
<1>9. \A x : x \in ResourceId <=> \E n \in 1..N : x = TypeOrder[n]
  BY <1>1 DEF ResourceId, ToSet
<1> QED BY <1>2, <1>6, <1>7, <1>8, <1>9 DEF Picks

(* The intrinsics of an exported resource come in threes.                  *)
LEMMA Triple ==
  ASSUME NEW x, NEW y, NEW z
  PROVE  /\ <<x, y, z>> \in Seq({x, y, z}) /\ Len(<<x, y, z>>) = 3
         /\ <<x, y, z>>[1] = x /\ <<x, y, z>>[2] = y /\ <<x, y, z>>[3] = z
OBVIOUS

(* The symbols of an exported resource's intrinsics, and their imports.    *)
SymbolsOf(r) ==
  <<NewBinding(InterfaceName(r.owner), r.res), RepBinding(InterfaceName(r.owner), r.res),
    DropBinding("export", InterfaceName(r.owner), r.res)>>
ImportsOf(r) ==
  <<IntrinsicImport(TRUE, r, "new"), IntrinsicImport(TRUE, r, "rep"),
    IntrinsicImport(TRUE, r, "drop")>>
DropSymbolOf(r) == DropBinding("import", InterfaceName(r.owner), r.res)

(* Symbol x and import y have the same place.                              *)
Aligned(x, y) ==
  \E k \in 1..Len(ResourceBindings) : ResourceBindings[k] = x /\ ResourceImports[k] = y

(* resource_bindings and the imports of the intrinsics have the same       *)
(* order: new, rep and drop of each exported resource, then drop of each   *)
(* imported one.                                                           *)
LEMMA IntrinsicsAligned ==
  ASSUME TypeInv
  PROVE  /\ ResourceBindings \in Seq(ToSet(ResourceBindings))
         /\ ResourceImports \in Seq(ToSet(ResourceImports))
         /\ Len(ResourceImports) = Len(ResourceBindings)
         /\ \A r \in ExportedIds : \A j \in 1..3 : Aligned(SymbolsOf(r)[j], ImportsOf(r)[j])
         /\ \A r \in ResourceId : r \in importedResources =>
              Aligned(DropSymbolOf(r), IntrinsicImport(FALSE, r, "drop"))
<1> DEFINE er == ExportedResources
           ir == ImportedResources
           N == Len(er)
           M == Len(ir)
           a == [n \in 1..N |-> SymbolsOf(er[n])]
           b == [n \in 1..N |-> ImportsOf(er[n])]
           S == UNION {{SymbolsOf(er[n])[1], SymbolsOf(er[n])[2], SymbolsOf(er[n])[3]} : n \in 1..N}
           T == UNION {{ImportsOf(er[n])[1], ImportsOf(er[n])[2], ImportsOf(er[n])[3]} : n \in 1..N}
           u == FlattenSeq(a)
           v == FlattenSeq(b)
           x == [n \in 1..M |-> DropSymbolOf(ir[n])]
           y == [n \in 1..M |-> IntrinsicImport(FALSE, ir[n], "drop")]
<1>1. /\ N \in Nat /\ DOMAIN er = 1..N /\ ToSet(er) = ExportedIds
      /\ M \in Nat /\ DOMAIN ir = 1..M
  BY ExportedResourcesAre, ImportedResourcesAre
<1>2. ResourceBindings = u \o x /\ ResourceImports = v \o y
  BY DEF ResourceBindings, ResourceImports, Flatten, SymbolsOf, ImportsOf, DropSymbolOf
<1> HIDE DEF er, ir, N, M
<1>3. \A n \in 1..N : SymbolsOf(er[n]) \in Seq(S) /\ Len(SymbolsOf(er[n])) = 3
  <2> SUFFICES ASSUME NEW n \in 1..N
               PROVE  SymbolsOf(er[n]) \in Seq(S) /\ Len(SymbolsOf(er[n])) = 3
    OBVIOUS
  <2> DEFINE R == {SymbolsOf(er[n])[1], SymbolsOf(er[n])[2], SymbolsOf(er[n])[3]}
  <2>1. SymbolsOf(er[n]) \in Seq(R) /\ Len(SymbolsOf(er[n])) = 3
    BY Triple DEF SymbolsOf
  <2>2. R \subseteq S
    OBVIOUS
  <2> HIDE DEF R, S
  <2> QED BY <2>1, <2>2, SeqMonotonic
<1>4. \A n \in 1..N : ImportsOf(er[n]) \in Seq(T) /\ Len(ImportsOf(er[n])) = 3
  <2> SUFFICES ASSUME NEW n \in 1..N
               PROVE  ImportsOf(er[n]) \in Seq(T) /\ Len(ImportsOf(er[n])) = 3
    OBVIOUS
  <2> DEFINE R == {ImportsOf(er[n])[1], ImportsOf(er[n])[2], ImportsOf(er[n])[3]}
  <2>1. ImportsOf(er[n]) \in Seq(R) /\ Len(ImportsOf(er[n])) = 3
    BY Triple DEF ImportsOf
  <2>2. R \subseteq T
    OBVIOUS
  <2> HIDE DEF R, T
  <2> QED BY <2>1, <2>2, SeqMonotonic
<1> HIDE DEF S, T
<1>5. /\ a \in Seq(Seq(S)) /\ b \in Seq(Seq(T)) /\ Len(a) = N /\ Len(b) = N
      /\ \A n \in 1..N : a[n] = SymbolsOf(er[n]) /\ b[n] = ImportsOf(er[n])
  BY <1>1, <1>3, <1>4
<1> HIDE DEF a, b
<1>6. \A n \in 1..N : Len(a[n]) = 3 /\ Len(b[n]) = 3
  BY <1>3, <1>4, <1>5
<1>7. u \in Seq(S) /\ v \in Seq(T) /\ Joint(a, b, N, u, v)
  BY <1>5, <1>6, FlattenAgree
<1>8. /\ x \in Seq(ToSet(x)) /\ y \in Seq(ToSet(y)) /\ Len(x) = M /\ Len(y) = M
      /\ \A n \in 1..M : x[n] = DropSymbolOf(ir[n]) /\ y[n] = IntrinsicImport(FALSE, ir[n], "drop")
  BY <1>1, SeqOfFunction
<1> HIDE DEF u, v, x, y
<1>9. u \in Seq(ToSet(u)) /\ v \in Seq(ToSet(v)) /\ Len(u) = Len(v)
  BY <1>7, OwnElements DEF Joint
<1>10. /\ u \o x \in Seq(ToSet(u \o x)) /\ v \o y \in Seq(ToSet(v \o y))
       /\ Len(u \o x) = Len(u) + M /\ Len(v \o y) = Len(u) + M /\ Len(u) \in Nat
  BY <1>8, <1>9, ConcatSet
<1>11. /\ \A k \in 1..Len(u) : (u \o x)[k] = u[k] /\ (v \o y)[k] = v[k]
       /\ \A k \in 1..M : (u \o x)[Len(u) + k] = x[k] /\ (v \o y)[Len(u) + k] = y[k]
  <2>1. u \in Seq(ToSet(u) \cup ToSet(x)) /\ x \in Seq(ToSet(u) \cup ToSet(x))
    BY <1>8, <1>9, SeqMonotonic
  <2>2. v \in Seq(ToSet(v) \cup ToSet(y)) /\ y \in Seq(ToSet(v) \cup ToSet(y))
    BY <1>8, <1>9, SeqMonotonic
  <2>3. /\ \A k \in 1..Len(u) : (u \o x)[k] = u[k]
        /\ \A k \in 1..M : (u \o x)[Len(u) + k] = x[k]
    BY <2>1, <1>8, ConcatAt
  <2>4. /\ \A k \in 1..Len(u) : (v \o y)[k] = v[k]
        /\ \A k \in 1..M : (v \o y)[Len(u) + k] = y[k]
    BY <2>2, <1>8, <1>9, ConcatAt
  <2> QED BY <2>3, <2>4
<1>12. ASSUME NEW r \in ExportedIds, NEW j \in 1..3
       PROVE  Aligned(SymbolsOf(r)[j], ImportsOf(r)[j])
  <2>1. PICK n \in 1..N : er[n] = r
    BY <1>1 DEF ToSet
  <2>2. PICK k \in 1..Len(u) : u[k] = a[n][j] /\ v[k] = b[n][j]
    BY <1>6, <1>7 DEF Joint
  <2>3. k \in 1..Len(u \o x)
    BY <1>1, <1>10
  <2> QED BY <2>1, <2>2, <2>3, <1>2, <1>5, <1>11 DEF Aligned
<1>13. ASSUME NEW r \in ResourceId, r \in importedResources
       PROVE  Aligned(DropSymbolOf(r), IntrinsicImport(FALSE, r, "drop"))
  <2>1. r \in ToSet(ir)
    BY <1>13, ImportedResourcesAre DEF ir
  <2>2. PICK n \in 1..M : ir[n] = r
    BY <2>1, <1>1 DEF ToSet
  <2>3. Len(u) + n \in 1..Len(u \o x)
    BY <1>1, <1>10
  <2> QED BY <2>2, <2>3, <1>2, <1>8, <1>11 DEF Aligned
<1> QED BY <1>2, <1>10, <1>12, <1>13

-----------------------------------------------------------------------------
(* A resource is on the side of the last item that has it.                 *)
Puts(dirs, owner, names, side) ==
  /\ DOMAIN dirs = DOMAIN directions \cup {Resource(owner, n) : n \in names}
  /\ \A r \in DOMAIN dirs :
       dirs[r] = IF r \in {Resource(owner, n) : n \in names} \/ (r.owner = owner /\ r.res \in names)
                 THEN side ELSE directions[r]

(* An item puts all of its resources on its side, and no other.            *)
LEMMA DirectedAre ==
  ASSUME NEW owner, NEW resources, NEW side
  PROVE  Puts(Directed(owner, resources, side), owner, ToSet(resources), side)
<1>1. \A n : Resource(owner, n).owner = owner /\ Resource(owner, n).res = n
  BY DEF Resource
<1> QED BY <1>1 DEF Directed, Puts

(* Functions that do not panic find the resources they use on their sides. *)
Directs(dirs) ==
  \A r \in DOMAIN dirs :
    r \in ResourceId /\ (dirs[r] = "import" \/ (dirs[r] = "export" /\ r \in ExportedIds))

(* What did not panic is sided, and on the sides that were current.        *)
LEMMA MappedAre ==
  ASSUME NEW dirs, Directs(dirs), NEW new, ~Panics(new),
         \A i \in ToSet(new) : i.map = ResourceMap(i.f, dirs),
         world' = world, importedResources' = importedResources \cup ImportedIn(new)
  PROVE  /\ \A i \in ToSet(new) : Sided(i)'
         /\ \A i \in ToSet(new) : \A r \in DOMAIN i.map : r \in DOMAIN dirs /\ i.map[r] = dirs[r]
<1>0. ExportedIds' = ExportedIds
  BY DEF ExportedIds
<1>1. ASSUME NEW i \in ToSet(new), NEW r \in DOMAIN i.map
      PROVE  r \in DOMAIN dirs /\ i.map[r] = dirs[r]
  <2>1. i.map[r] # "none"
    BY DEF Panics
  <2> QED BY <2>1 DEF ResourceMap
<1>2. ASSUME NEW i \in ToSet(new), NEW r \in DOMAIN i.map, i.map[r] = "import"
      PROVE  r \in importedResources'
  BY <1>2 DEF ImportedIn
<1> QED BY <1>0, <1>1, <1>2 DEF Sided, Directs

(* Resources that were put on the import side stay there.                  *)
LEMMA SidedStays ==
  ASSUME NEW i, Sided(i), world' = world, importedResources \subseteq importedResources'
  PROVE  Sided(i)'
<1>0. ExportedIds' = ExportedIds
  BY DEF ExportedIds
<1> QED BY <1>0 DEF Sided

(* An imported item keeps the sides right.                                 *)
LEMMA ImportItemSides ==
  ASSUME SInv, ImportItem
  PROVE  ListsInv' /\ DirectionsInv' /\ MapsInv'
<1> SUFFICES ASSUME NEW item, item = world.imports[next],
                    NEW owner, owner = OwnerOf(item),
                    NEW dirs, dirs = Directed(owner, item.resources, "import"),
                    NEW new, new = NewImports(item, dirs)
             PROVE  ListsInv' /\ DirectionsInv' /\ MapsInv'
  OBVIOUS
<1>1. /\ pc = "imports" /\ next <= Len(world.imports)
      /\ IF Panics(new) THEN pc' = "failed" ELSE pc' = pc
      /\ directions' = dirs /\ imports' = imports \o new
      /\ importedResources' = importedResources \cup ImportedIn(new)
      /\ classes' = classes \o ClassesOf(item)
      /\ world' = world /\ exports' = exports
  BY DEF ImportItem
<1>p. Puts(dirs, owner, ToSet(item.resources), "import")
  BY DirectedAre
<1>2. next \in 1..Len(world.imports) /\ WellFormed(item) /\ TypeInv
  <2>1. next \in Nat \ {0} /\ Len(world.imports) \in Nat
    BY ImportOfWorld DEF SInv, IInv, TypeInv
  <2>2. next <= Len(world.imports)
    BY <1>1
  <2>3. next \in 1..Len(world.imports)
    BY <2>1, <2>2
  <2> QED BY <2>3, ImportOfWorld DEF SInv, IInv
<1>3. /\ new \in Seq(ToSet(new))
      /\ \A i \in ToSet(new) : i.map = ResourceMap(i.f, dirs)
  <2>1. NewFrom(new, item, dirs)
    BY <1>2, NewImportsAre
  <2> QED BY <2>1 DEF NewFrom
<1>4. imports' \in Seq(ToSet(imports')) /\ ToSet(imports') = ToSet(imports) \cup ToSet(new)
  BY <1>1, <1>3, ConcatSet DEF SInv, ListsInv
<1>5. ListsInv'
  <2>1. ClassesOf(item) \in Seq(ToSet(ClassesOf(item)))
    BY <1>2, ClassesAre
  <2>2. classes' \in Seq(ToSet(classes'))
    BY <1>1, <2>1, ConcatSet DEF SInv, ListsInv
  <2> QED BY <1>4, <2>2 DEF ListsInv
<1>6. ASSUME NEW r \in DOMAIN dirs
      PROVE  r \in ResourceId /\ r = Resource(r.owner, r.res) /\ dirs[r] = "import"
  <2>1. CASE r \in {Resource(owner, n) : n \in ToSet(item.resources)}
    <3>1. PICK n \in ToSet(item.resources) : r = Resource(owner, n)
      BY <2>1
    <3>2. r \in ResourceId
      BY <3>1, <1>2 DEF WellFormed, ToSet, OwnerOf
    <3>3. r = Resource(r.owner, r.res)
      BY <3>1 DEF Resource
    <3> QED BY <2>1, <3>2, <3>3, <1>p DEF Puts
  <2>2. CASE r \notin {Resource(owner, n) : n \in ToSet(item.resources)}
    <3>1. r \in DOMAIN directions /\ (dirs[r] = "import" \/ dirs[r] = directions[r])
      BY <2>2, <1>p DEF Puts
    <3> QED BY <3>1, <1>1 DEF SInv, DirectionsInv
  <2> QED BY <2>1, <2>2
<1>7. DirectionsInv'
  BY <1>1, <1>6 DEF DirectionsInv
<1>8. Directs(dirs)
  BY <1>6 DEF Directs
<1>9. MapsInv'
  <2> SUFFICES ASSUME pc' # "failed" PROVE MapsInv'
    BY DEF MapsInv
  <2>1. ~Panics(new) /\ pc # "failed"
    BY <1>1
  <2>2. /\ \A i \in ToSet(new) : Sided(i)'
        /\ \A i \in ToSet(new) : \A r \in DOMAIN i.map : r \in DOMAIN dirs /\ i.map[r] = dirs[r]
    BY <2>1, <1>1, <1>3, <1>8, MappedAre
  <2>3. \A i \in ToSet(imports) \cup ToSet(exports) : Sided(i)'
    BY <2>1, <1>1, SidedStays DEF SInv, MapsInv
  <2>4. \A i \in ToSet(imports') : \A r \in DOMAIN i.map : i.map[r] = "import"
    BY <2>1, <2>2, <1>4, <1>6 DEF SInv, MapsInv
  <2> QED BY <2>2, <2>3, <2>4, <1>1, <1>4 DEF MapsInv
<1> QED BY <1>5, <1>7, <1>9

(* So does an exported one, which may take a resource from the import      *)
(* side.                                                                   *)
LEMMA ExportItemSides ==
  ASSUME SInv, ExportItem
  PROVE  ListsInv' /\ DirectionsInv' /\ MapsInv'
<1> SUFFICES ASSUME NEW item, item = world.exports[next],
                    NEW dirs, dirs = Directed(item.key, item.resources, "export"),
                    NEW new, new = ExportsOf(item, dirs)
             PROVE  ListsInv' /\ DirectionsInv' /\ MapsInv'
  OBVIOUS
<1>1. /\ pc = "exports" /\ next <= Len(world.exports)
      /\ IF Panics(new) THEN pc' = "failed" ELSE pc' = pc
      /\ directions' = dirs /\ exports' = exports \o new
      /\ importedResources' = importedResources \cup ImportedIn(new)
      /\ world' = world /\ imports' = imports /\ classes' = classes
  BY DEF ExportItem
<1>p. Puts(dirs, item.key, ToSet(item.resources), "export")
  BY DirectedAre
<1>2. /\ next \in 1..Len(world.exports) /\ WellFormed(item) /\ item \in ToSet(world.exports)
      /\ Len(item.funcs) \in Nat /\ item.is # "resource"
  <2>1. next \in Nat \ {0} /\ Keyed(world.exports)
    BY WorldAssumption DEF SInv, IInv, TypeInv
  <2>2. Len(world.exports) \in Nat
    BY <2>1 DEF Keyed
  <2>3. next \in 1..Len(world.exports)
    BY <1>1, <2>1, <2>2
  <2>4. \A e \in ToSet(world.exports) : e.is # "resource"
    BY WorldAssumption DEF SInv, IInv, TypeInv
  <2> QED BY <2>3, <2>4, ItemOfWorld DEF SInv, IInv
<1>3. new \in Seq(ToSet(new)) /\ \A i \in ToSet(new) : i.map = ResourceMap(i.f, dirs)
  <2>1. new \in Seq(ToSet(new)) /\ DOMAIN new = 1..Len(item.funcs)
    BY <1>2, SeqOfFunction DEF ExportsOf
  <2>2. \A n \in 1..Len(item.funcs) : new[n].map = ResourceMap(new[n].f, dirs)
    BY DEF ExportsOf, Exported
  <2> QED BY <2>1, <2>2 DEF ToSet
<1>4. ToSet(exports') = ToSet(exports) \cup ToSet(new)
  BY <1>1, <1>3, ConcatSet DEF SInv, IInv, ExportsInv
<1>5. ListsInv'
  BY <1>1 DEF SInv, ListsInv
<1>0. ExportedIds' = ExportedIds
  BY <1>1 DEF ExportedIds
<1>6. ASSUME NEW r \in DOMAIN dirs
      PROVE  /\ r \in ResourceId /\ r = Resource(r.owner, r.res)
             /\ dirs[r] = "import" \/ (dirs[r] = "export" /\ r \in ExportedIds)
  <2>1. CASE r \in {Resource(item.key, n) : n \in ToSet(item.resources)}
    <3>1. PICK n \in ToSet(item.resources) : r = Resource(item.key, n)
      BY <2>1
    <3>2. item.is = "iface"
      BY <1>2 DEF WellFormed, ToSet
    <3>3. r \in ResourceId
      BY <3>1, <3>2, <1>2 DEF WellFormed
    <3>4. r = Resource(r.owner, r.res)
      BY <3>1 DEF Resource
    <3>5. r \in IdsOf(item)
      BY <2>1 DEF IdsOf
    <3>6. r \in ExportedIds
      BY <3>5, <1>2 DEF ExportedIds
    <3> QED BY <2>1, <3>3, <3>4, <3>6, <1>p DEF Puts
  <2>2. CASE r \notin {Resource(item.key, n) : n \in ToSet(item.resources)}
    <3>1. r \in DOMAIN directions
      BY <2>2, <1>p DEF Puts
    <3>2. r = Resource(r.owner, r.res) /\ r \in ResourceId
      BY <3>1 DEF SInv, DirectionsInv
    <3>3. ~(r.owner = item.key /\ r.res \in ToSet(item.resources))
      BY <2>2, <3>2
    <3>4. dirs[r] = directions[r]
      BY <2>2, <3>1, <3>3, <1>p DEF Puts
    <3> QED BY <3>1, <3>4, <3>2 DEF SInv, DirectionsInv
  <2> QED BY <2>1, <2>2
<1>7. DirectionsInv'
  BY <1>0, <1>1, <1>6 DEF DirectionsInv
<1>8. Directs(dirs)
  BY <1>6 DEF Directs
<1>9. MapsInv'
  <2> SUFFICES ASSUME pc' # "failed" PROVE MapsInv'
    BY DEF MapsInv
  <2>1. ~Panics(new) /\ pc # "failed"
    BY <1>1
  <2>2. \A i \in ToSet(new) : Sided(i)'
    BY <2>1, <1>1, <1>3, <1>8, MappedAre
  <2>3. \A i \in ToSet(imports) \cup ToSet(exports) : Sided(i)'
    BY <2>1, <1>1, SidedStays DEF SInv, MapsInv
  <2>4. \A i \in ToSet(imports') : \A r \in DOMAIN i.map : i.map[r] = "import"
    BY <2>1, <1>1 DEF SInv, MapsInv
  <2> QED BY <2>2, <2>3, <2>4, <1>1, <1>4 DEF MapsInv
<1> QED BY <1>5, <1>7, <1>9

(* No other step generates anything.                                       *)
LEMMA SidesStay ==
  ASSUME SInv, UNCHANGED <<world, directions, imports, importedResources, classes, exports>>,
         pc' # "imports", pc = "failed" => pc' = "failed"
  PROVE  ListsInv' /\ DirectionsInv' /\ MapsInv'
<1>0. ExportedIds' = ExportedIds
  BY DEF ExportedIds
<1>1. ListsInv'
  BY DEF SInv, ListsInv
<1>2. DirectionsInv'
  BY <1>0 DEF SInv, DirectionsInv
<1>3. MapsInv'
  BY <1>0 DEF SInv, MapsInv, Sided
<1> QED BY <1>1, <1>2, <1>3

-----------------------------------------------------------------------------
(* Symbols and imports of the module agree by position.                    *)
SideBySide ==
  /\ SpliceList \in Seq(ToSet(SpliceList)) /\ Symbols \in Seq(ToSet(Symbols))
  /\ Len(SpliceList) = EnvImportCount /\ Len(Symbols) = EnvImportCount
  /\ Len(imports) \in Nat /\ Len(ResourceImports) \in Nat
  /\ \A n \in 1..Len(imports) :
       Symbols[n] = ImportSymbol(imports[n]) /\ SpliceList[n] = HostOf(imports[n])
  /\ \A k \in 1..Len(ResourceImports) :
       /\ Symbols[Len(imports) + k] = ResourceSymbol(ResourceBindings[k])
       /\ SpliceList[Len(imports) + k] = ResourceImports[k]

(* The symbols and the splicer's imports are built apart and agree.        *)
LEMMA ListsAgree ==
  ASSUME TypeInv, ListsInv
  PROVE  SideBySide
<1> DEFINE N == Len(imports)
           M == Len(ResourceImports)
           u == [n \in 1..N |-> ImportSymbol(imports[n])]
           v == [n \in 1..N |-> HostOf(imports[n])]
           x == [k \in 1..Len(ResourceBindings) |-> ResourceSymbol(ResourceBindings[k])]
           y == ResourceImports
<1>1. N \in Nat
  BY DEF ListsInv
<1>2. /\ x \in Seq(ToSet(x)) /\ y \in Seq(ToSet(y)) /\ M \in Nat /\ Len(x) = M /\ Len(y) = M
      /\ \A k \in 1..M : x[k] = ResourceSymbol(ResourceBindings[k])
  <2>1. y \in Seq(ToSet(y)) /\ M \in Nat /\ Len(ResourceBindings) = M /\ Len(y) = M
    BY IntrinsicsAligned
  <2> HIDE DEF M
  <2> QED BY <2>1, SeqOfFunction
<1>3. Symbols = u \o x /\ SpliceList = v \o y /\ EnvImportCount = N + M
  BY DEF Symbols, SpliceList, EnvImportCount
<1> HIDE DEF N, M
<1>4. /\ u \in Seq(ToSet(u)) /\ v \in Seq(ToSet(v)) /\ Len(u) = N /\ Len(v) = N
      /\ \A n \in 1..N : u[n] = ImportSymbol(imports[n]) /\ v[n] = HostOf(imports[n])
  BY <1>1, SeqOfFunction
<1> HIDE DEF u, v, x, y
<1>5. /\ u \o x \in Seq(ToSet(u \o x)) /\ v \o y \in Seq(ToSet(v \o y))
      /\ Len(u \o x) = N + M /\ Len(v \o y) = N + M
  BY <1>2, <1>4, ConcatSet
<1>6. /\ \A k \in 1..N : (u \o x)[k] = u[k]
      /\ \A k \in 1..M : (u \o x)[N + k] = x[k]
  <2>1. u \in Seq(ToSet(u) \cup ToSet(x)) /\ x \in Seq(ToSet(u) \cup ToSet(x))
    BY <1>2, <1>4, SeqMonotonic
  <2> QED BY <2>1, <1>2, <1>4, ConcatAt
<1>7. /\ \A k \in 1..N : (v \o y)[k] = v[k]
      /\ \A k \in 1..M : (v \o y)[N + k] = y[k]
  <2>1. v \in Seq(ToSet(v) \cup ToSet(y)) /\ y \in Seq(ToSet(v) \cup ToSet(y))
    BY <1>2, <1>4, SeqMonotonic
  <2> QED BY <2>1, <1>2, <1>4, ConcatAt
<1> QED BY <1>1, <1>2, <1>3, <1>4, <1>5, <1>6, <1>7 DEF SideBySide, N, M, x, y

(* Min of a set of numbers is one of them.                                 *)
LEMMA Least ==
  ASSUME NEW S, S \subseteq Nat, S # {}
  PROVE  Min(S) \in S
<1>1. PICK x \in S : \A y \in S : ~(<<y, x>> \in OpToRel(<, Nat))
  BY WFMin, NatLessThanWellFounded, Zenon
<1>2. ASSUME NEW y \in S PROVE x <= y
  <2>1. x \in Nat /\ y \in Nat /\ <<y, x>> \in Nat \X Nat
    OBVIOUS
  <2>2. ~(<<y, x>> \in OpToRel(<, Nat))
    BY <1>1, Zenon
  <2>3. ~(y < x)
    BY <2>1, <2>2 DEF OpToRel
  <2> QED BY <2>1, <2>3
<1>3. \E z \in S : \A y \in S : z =< y
  BY <1>2
<1> QED BY <1>3 DEF Min

(* The function import that a wrapper calls is found.                      *)
PlaceOf(s, host) == SelectInSeq(s, LAMBDA h : h = host)

(* A function import that is in the module is found.                       *)
LEMMA SelectFinds ==
  ASSUME NEW s, s \in Seq(ToSet(s)), NEW host \in ToSet(s)
  PROVE  /\ PlaceOf(s, host) \in DOMAIN s
         /\ PlaceOf(s, host) \in Nat
         /\ s[PlaceOf(s, host)] = host
<1> DEFINE I == {i \in 1..Len(s) : s[i] = host}
<1>1. DOMAIN s = 1..Len(s) /\ Len(s) \in Nat
  OBVIOUS
<1>2. I # {} /\ I \subseteq Nat
  BY <1>1 DEF ToSet
<1>3. PlaceOf(s, host) = Min(I)
  BY <1>2 DEF PlaceOf, SelectInSeq
<1>4. Min(I) \in I
  <2> HIDE DEF I
  <2> QED BY <1>2, Least
<1> QED BY <1>1, <1>3, <1>4

(* Adding an import that is not there yet moves no other.                  *)
LEMMA WithImportKeeps ==
  ASSUME moduleImports \in Seq(ToSet(moduleImports)), NEW host,
         NEW new, new = WithImport(host)
  PROVE  /\ new \in Seq(ToSet(new)) /\ host \in ToSet(new)
         /\ \A i \in DOMAIN moduleImports : i \in DOMAIN new /\ new[i] = moduleImports[i]
<1>1. DOMAIN moduleImports = 1..Len(moduleImports) /\ Len(moduleImports) \in Nat
  OBVIOUS
<1>2. CASE Contains(moduleImports, host)
  <2>1. new = moduleImports
    BY <1>2 DEF WithImport
  <2>2. host \in ToSet(new)
    BY <2>1, <1>1, <1>2 DEF Contains, ToSet
  <2> QED BY <2>1, <2>2
<1>3. CASE ~Contains(moduleImports, host)
  <2> DEFINE S == ToSet(moduleImports) \cup {host}
  <2>1. new = Append(moduleImports, host)
    BY <1>3 DEF WithImport
  <2>2. moduleImports \in Seq(S) /\ host \in S
    BY SeqMonotonic
  <2> HIDE DEF S
  <2>3. /\ new \in Seq(S) /\ Len(new) = Len(moduleImports) + 1
        /\ \A i \in 1..Len(moduleImports) : new[i] = moduleImports[i]
        /\ new[Len(moduleImports) + 1] = host
    BY <2>1, <2>2, AppendProperties
  <2>4. new \in Seq(ToSet(new)) /\ DOMAIN new = 1..Len(new)
    BY <2>3, OwnElements
  <2>5. Len(moduleImports) + 1 \in DOMAIN new
    BY <2>3, <2>4, <1>1
  <2>6. host \in ToSet(new)
    BY <2>3, <2>5 DEF ToSet
  <2> QED BY <2>3, <2>4, <2>6, <1>1
<1> QED BY <1>2, <1>3

(* Lists depend on what has been generated only.                           *)
LEMMA SameLists ==
  ASSUME UNCHANGED <<world, imports, importedResources>>
  PROVE  SpliceList' = SpliceList /\ EnvImportCount' = EnvImportCount
<1>1. ExportedResources' = ExportedResources /\ ImportedResources' = ImportedResources
  BY DEF ExportedResources, ImportedResources, Flatten
<1>2. ResourceImports' = ResourceImports
  BY <1>1 DEF ResourceImports, Flatten
<1> QED BY <1>2 DEF SpliceList, EnvImportCount, HostOf

(* A wrapper calls the import that was found or added for it.              *)
LEMMA SpliceImportKeeps ==
  ASSUME SInv, SpliceImport
  PROVE  SpliceInv'
<1> SUFFICES ASSUME NEW host, host = SpliceList[Len(wrappers) + 1],
                    NEW mods, mods = WithImport(host)
             PROVE  SpliceInv'
  OBVIOUS
<1> DEFINE at == PlaceOf(mods, host)
<1>1. /\ pc = "splice" /\ pc' = pc /\ Len(wrappers) < Len(SpliceList)
      /\ moduleImports' = mods
      /\ wrappers' = Append(wrappers, at)
      /\ UNCHANGED <<generated, engine>>
  BY DEF SpliceImport, genVars, Remaining, PlaceOf, SelectInSeq
<1>2. SpliceList' = SpliceList
  BY <1>1, SameLists DEF generated
<1>3. /\ moduleImports' \in Seq(ToSet(moduleImports')) /\ host \in ToSet(moduleImports')
      /\ \A i \in DOMAIN moduleImports : i \in DOMAIN moduleImports' 
                                         /\ moduleImports'[i] = moduleImports[i]
  BY <1>1, WithImportKeeps DEF SInv, SpliceInv
<1>4. at \in DOMAIN moduleImports' /\ at \in Nat /\ moduleImports'[at] = host
  <2>1. at \in DOMAIN mods /\ at \in Nat /\ mods[at] = host
    BY <1>1, <1>3, SelectFinds
  <2> HIDE DEF at
  <2> QED BY <2>1, <1>1
<1> HIDE DEF at
<1>5. /\ wrappers \in Seq(Nat) /\ Len(wrappers) \in Nat
      /\ \A n \in 1..Len(wrappers) :
            wrappers[n] \in DOMAIN moduleImports /\ moduleImports[wrappers[n]] = SpliceList[n]
  BY <1>1 DEF SInv, SpliceInv, Later
<1>6. /\ wrappers' \in Seq(Nat) /\ Len(wrappers') = Len(wrappers) + 1
      /\ \A n \in 1..Len(wrappers) : wrappers'[n] = wrappers[n]
      /\ wrappers'[Len(wrappers) + 1] = at
  BY <1>1, <1>4, <1>5, AppendProperties
<1>7. ASSUME NEW n \in 1..Len(wrappers')
      PROVE  wrappers'[n] \in DOMAIN moduleImports' /\ moduleImports'[wrappers'[n]] = SpliceList[n]
  <2>1. CASE n = Len(wrappers) + 1
    BY <2>1, <1>4, <1>6
  <2>2. CASE n # Len(wrappers) + 1
    <3>1. n \in 1..Len(wrappers)
      BY <2>2, <1>5, <1>6
    <3> QED BY <3>1, <1>3, <1>5, <1>6
  <2> QED BY <2>1, <2>2
<1>8. Len(wrappers') <= Len(SpliceList)
  <2>1. Len(SpliceList) \in Nat
    BY ListsAgree DEF SInv, IInv, SideBySide
  <2> QED BY <2>1, <1>1, <1>5, <1>6
<1>9. pc' \notin Placing /\ pc' \notin Installed /\ engine' \in Engines
  BY <1>1 DEF SInv, SpliceInv, Placing, Installed
<1> QED BY <1>1, <1>2, <1>3, <1>6, <1>7, <1>8, <1>9 DEF SpliceInv, Later

(* The wrappers are placed behind the engine's own elements.               *)
LEMMA PlaceWrappersKeeps ==
  ASSUME SInv, PlaceWrappers
  PROVE  SpliceInv'
<1>1. /\ pc = "splice" /\ pc' = "export" /\ ~(Len(wrappers) < Len(SpliceList))
      /\ table' = Placed /\ base' = engine.sample + Delta
      /\ UNCHANGED <<generated, engine, moduleImports, wrappers>>
  BY DEF PlaceWrappers, Remaining
<1>2. SpliceList' = SpliceList
  BY <1>1, SameLists DEF generated
<1>3. Len(wrappers) = Len(SpliceList)
  <2>1. Len(SpliceList) \in Nat
    BY ListsAgree DEF SInv, IInv, SideBySide
  <2>2. Len(wrappers) \in Nat /\ Len(wrappers) <= Len(SpliceList)
    BY <1>1 DEF SInv, SpliceInv, Later
  <2> QED BY <2>1, <2>2, <1>1
<1>4. Placed' = Placed /\ Delta' = Delta
  BY <1>1 DEF Placed, Delta
<1> QED BY <1>1, <1>2, <1>3, <1>4 DEF SInv, SpliceInv, Later, Placing, Installed

(* componentize.wizer reads as many names as there are wrappers.           *)
LEMMA InstallKeeps ==
  ASSUME SInv, Install
  PROVE  SpliceInv'
<1>1. /\ pc = "install" /\ pc' = "evaluate"
      /\ bindings' = [n \in 1..EnvImportCount |-> GetImport(n - 1)]
      /\ UNCHANGED <<generated, engine, moduleImports, wrappers, table, base>>
  BY DEF Install, spliced
<1>2. SpliceList' = SpliceList /\ EnvImportCount' = EnvImportCount
  BY <1>1, SameLists DEF generated
<1>3. Placed' = Placed /\ Delta' = Delta
  BY <1>1 DEF Placed, Delta
<1>4. \A n : GetImport(n)' = GetImport(n)
  BY <1>1 DEF GetImport
<1>5. bindings' = [n \in 1..EnvImportCount' |-> GetImport(n - 1)']
  BY <1>1, <1>2, <1>4
<1> QED BY <1>1, <1>2, <1>3, <1>5 DEF SInv, SpliceInv, Later, Placing, Installed

(* The other steps of splicing and initialising.                           *)
LEMMA SplicedStays ==
  ASSUME SInv, UNCHANGED <<generated, engine, moduleImports, wrappers, table, base, bindings>>,
         \/ pc' = pc
         \/ pc \in Placing /\ pc' \in Placing /\ (pc' \in Installed => pc \in Installed)
         \/ pc \in Installed /\ pc' = "failed"
  PROVE  SpliceInv'
<1>1. SpliceList' = SpliceList /\ EnvImportCount' = EnvImportCount
  BY SameLists DEF generated
<1>2. Placed' = Placed /\ Delta' = Delta
  BY DEF Placed, Delta
<1>3. [n \in 1..EnvImportCount' |-> GetImport(n - 1)'] = [n \in 1..EnvImportCount |-> GetImport(n - 1)]
  BY <1>1 DEF GetImport
<1> QED BY <1>1, <1>2, <1>3 DEF SInv, SpliceInv, Later, Placing, Installed

(* Nothing is spliced while bindings are generated.                        *)
LEMMA NotYetSpliced ==
  ASSUME SInv, GenNext, UNCHANGED linkVars
  PROVE  SpliceInv'
<1> USE DEF linkVars, spliced, initialised
<1>1. pc \in {"imports", "exports"} /\ wrappers = <<>>
  BY DEF SInv, SpliceInv, Later, GenNext, ImportItem, ImportsDone, ExportItem, SkipExport,
         PopulateAliases
<1>2. pc' \in {"imports", "exports", "failed"} \/ (pc' = "splice" /\ PopulateAliases)
  BY <1>1 DEF GenNext, ImportItem, ImportsDone, ExportItem, SkipExport, PopulateAliases
<1>3. PopulateAliases => Len(SpliceList') \in Nat
  <2>1. PopulateAliases => SpliceList' = SpliceList
    BY SameLists DEF PopulateAliases
  <2>2. Len(SpliceList) \in Nat
    BY ListsAgree DEF SInv, IInv, SideBySide
  <2> QED BY <2>1, <2>2
<1>4. pc' \notin Placing /\ pc' \notin Installed
  BY <1>2 DEF Placing, Installed
<1>5. pc' \in Later => PopulateAliases
  BY <1>2 DEF Later
<1> QED BY <1>1, <1>3, <1>4, <1>5 DEF SInv, SpliceInv

-----------------------------------------------------------------------------
(* The invariant holds at the beginning,                                   *)
LEMMA SInit == Init => SInv
<1> SUFFICES ASSUME Init PROVE SInv
  OBVIOUS
<1> USE DEF Init, GenInit
<1>1. IInv
  BY InitInv
<1>2. ListsInv /\ DirectionsInv /\ MapsInv
  BY DEF ListsInv, DirectionsInv, MapsInv, NoFunction, ToSet
<1>3. moduleImports \in Seq(ToSet(moduleImports)) /\ engine \in Engines
  BY EnginesAssumption DEF EngineAssumption
<1>4. SpliceInv
  BY <1>3 DEF SpliceInv, Later, Placing, Installed
<1> QED BY <1>1, <1>2, <1>4 DEF SInv

(* is kept by the generator,                                               *)
LEMMA GenerateKeepsSides ==
  ASSUME SInv, Generate
  PROVE  SInv'
<1>1. IInv'
  BY Step DEF SInv, Next
<1>2. SpliceInv'
  BY NotYetSpliced DEF Generate
<1>3. ListsInv' /\ DirectionsInv' /\ MapsInv'
  <2>1. CASE ImportItem
    BY <2>1, ImportItemSides
  <2>2. CASE ExportItem
    BY <2>2, ExportItemSides
  <2>3. CASE ImportsDone \/ SkipExport \/ PopulateAliases
    BY <2>3, SidesStay DEF ImportsDone, SkipExport, PopulateAliases
  <2> QED BY <2>1, <2>2, <2>3 DEF Generate, GenNext
<1> QED BY <1>1, <1>2, <1>3 DEF SInv

(* and by the steps after it.                                              *)
LEMMA LinkKeepsSides ==
  ASSUME SInv, Next, ~Generate
  PROVE  ListsInv' /\ DirectionsInv' /\ MapsInv'
<1>1. \/ pc' # "imports" /\ pc # "failed" /\ UNCHANGED generated
      \/ UNCHANGED genVars
  BY DEF Next, SpliceImport, PlaceWrappers, SpliceExports, Install, Evaluate, EvaluationFails,
         BindExports, BindFails, InitFn, FnsDone, Stopped, vars, genVars
<1>2. CASE pc' # "imports" /\ pc # "failed" /\ UNCHANGED generated
  BY <1>2, SidesStay DEF generated
<1>3. CASE UNCHANGED genVars
  <2>1. pc' = pc /\ UNCHANGED <<world, directions, imports, importedResources, classes, exports>>
    BY <1>3 DEF genVars, generated
  <2>2. ExportedIds' = ExportedIds
    BY <2>1 DEF ExportedIds
  <2> QED BY <2>1, <2>2 DEF SInv, ListsInv, DirectionsInv, MapsInv, Sided
<1> QED BY <1>1, <1>2, <1>3

(* The wrappers and the bindings stay in step.                             *)
LEMMA LinkKeepsSplice ==
  ASSUME SInv, Next, ~Generate
  PROVE  SpliceInv'
<1>1. CASE SpliceImport
  BY <1>1, SpliceImportKeeps
<1>2. CASE PlaceWrappers
  BY <1>2, PlaceWrappersKeeps
<1>3. CASE SpliceExports
  BY <1>3, SplicedStays DEF SpliceExports, initialised, Placing, Installed
<1>4. CASE Install
  BY <1>4, InstallKeeps
<1>5. CASE Evaluate \/ EvaluationFails
  BY <1>5, SplicedStays
  DEF Evaluate, EvaluationFails, linkVars, spliced, initialised, Placing, Installed
<1>6. CASE BindExports \/ BindFails
  BY <1>6, SplicedStays DEF BindExports, BindFails, spliced, Placing, Installed
<1>7. CASE InitFn \/ FnsDone
  BY <1>7, SplicedStays
  DEF InitFn, FnsDone, linkVars, spliced, initialised, genVars, Placing, Installed
<1>8. CASE Stopped
  BY <1>8, SplicedStays DEF Stopped, vars, genVars, linkVars, spliced, initialised
<1> QED BY <1>1, <1>2, <1>3, <1>4, <1>5, <1>6, <1>7, <1>8 DEF Next

(* Every step keeps it.                                                    *)
LEMMA SStep == SInv /\ [Next]_vars => SInv'
<1> SUFFICES ASSUME SInv, [Next]_vars PROVE SInv'
  OBVIOUS
<1>1. IInv'
  BY Step DEF SInv
<1>2. CASE Generate
  BY <1>2, GenerateKeepsSides
<1>3. CASE Next /\ ~Generate
  BY <1>1, <1>3, LinkKeepsSides, LinkKeepsSplice DEF SInv
<1>4. CASE UNCHANGED vars
  <2>1. Stopped \/ pc' = pc
    BY <1>4 DEF vars, genVars
  <2>2. UNCHANGED <<pc, generated, engine, moduleImports, wrappers, table, base, bindings>>
    BY <1>4 DEF vars, genVars, linkVars, spliced, initialised
  <2>3. SpliceInv'
    BY <2>2, SplicedStays
  <2>4. ExportedIds' = ExportedIds
    BY <2>2 DEF ExportedIds, generated
  <2>5. ListsInv' /\ DirectionsInv' /\ MapsInv'
    BY <2>2, <2>4 DEF SInv, ListsInv, DirectionsInv, MapsInv, Sided, generated
  <2> QED BY <1>1, <2>3, <2>5 DEF SInv
<1> QED BY <1>2, <1>3, <1>4

(* The import side's invariant holds in every reachable state.             *)
THEOREM SplicingInvariance == Spec => []SInv
BY SInit, SStep, PTL DEF Spec

-----------------------------------------------------------------------------
(* Nothing is declared twice in a script that has been evaluated.          *)
DeclaredOnce ==
  /\ \A m, n \in 1..EnvImportCount : Symbols[m] = Symbols[n] => m = n
  /\ \A m, n \in 1..Len(classes) : classes[m] = classes[n] => m = n

(* A script that declares a name twice is not evaluated.                   *)
LEMMA Evaluates ==
  ASSUME SInv, Ready
  PROVE  DeclaredOnce
<1>1. SideBySide /\ ~DeclarationsClash /\ classes \in Seq(ToSet(classes))
  BY ListsAgree DEF SInv, IInv, ClashInv, ListsInv, Evaluated, Ready
<1>2. Symbols \in Seq(ToSet(Symbols)) /\ Len(Symbols) = EnvImportCount
  BY <1>1 DEF SideBySide
<1>3. DOMAIN Symbols = 1..EnvImportCount /\ DOMAIN classes = 1..Len(classes)
  BY <1>1, <1>2
<1>4. IsInjective(Symbols) /\ IsInjective(classes)
  BY <1>1 DEF DeclarationsClash
<1> QED BY <1>3, <1>4 DEF DeclaredOnce, IsInjective

(* A symbol reaches the import at its place.                               *)
LEMMA BehindSymbol ==
  ASSUME SInv, Ready, NEW n \in 1..EnvImportCount
  PROVE  Behind(Symbols[n]) = SpliceList[n]
<1> DEFINE at == CHOOSE m \in DOMAIN Symbols : Symbols[m] = Symbols[n]
<1>1. SideBySide /\ SpliceInv /\ pc = "initialised"
  BY ListsAgree DEF SInv, IInv, Ready
<1>2. Len(Symbols) = EnvImportCount /\ EnvImportCount \in Nat /\ DOMAIN Symbols = 1..EnvImportCount
  <2>1. Symbols \in Seq(ToSet(Symbols)) /\ Len(Symbols) = EnvImportCount
    BY <1>1 DEF SideBySide
  <2>2. Len(Symbols) \in Nat
    BY <2>1
  <2> QED BY <2>1, <2>2
<1>3. \A m \in DOMAIN Symbols : Symbols[m] = Symbols[n] => m = n
  BY <1>2, Evaluates DEF DeclaredOnce
<1>5. at = n
  BY <1>2, <1>3
<1>6. /\ engine \in Engines /\ table = Placed /\ base = engine.sample + Delta
      /\ Len(wrappers) = EnvImportCount
      /\ bindings = [m \in 1..EnvImportCount |-> GetImport(m - 1)]
      /\ moduleImports[wrappers[n]] = SpliceList[n]
  BY <1>1, <1>2 DEF SpliceInv, Placing, Installed, Later, SideBySide
<1>7. /\ engine.offset + engine.elements = engine.table /\ engine.sample = engine.const + engine.global
      /\ engine.table \in Nat /\ engine.sample \in Nat
      /\ engine.const \in Nat /\ engine.global \in Nat
  <2>1. EngineAssumption(engine)
    BY <1>6, EnginesAssumption
  <2> QED BY <2>1 DEF EngineAssumption
<1>8. base = engine.table
  BY <1>6, <1>7 DEF Delta
<1>9. bindings[n] = engine.table + (n - 1)
  BY <1>6, <1>8 DEF GetImport
<1>10. table[engine.table + (n - 1)] = n /\ engine.table + (n - 1) \in DOMAIN table
  BY <1>2, <1>6, <1>7 DEF Placed
<1> HIDE DEF at
<1> QED BY <1>5, <1>6, <1>9, <1>10 DEF Behind, at

(* So an intrinsic's symbol reaches the import it was made with.           *)
LEMMA Reached ==
  ASSUME SInv, Ready, NEW x, NEW y, Aligned(x, y)
  PROVE  Contains(Symbols, ResourceSymbol(x)) /\ Behind(ResourceSymbol(x)) = y
<1>1. SideBySide
  BY ListsAgree DEF SInv, IInv
<1>2. PICK k \in 1..Len(ResourceBindings) : ResourceBindings[k] = x /\ ResourceImports[k] = y
  BY DEF Aligned
<1>3. Len(ResourceBindings) = Len(ResourceImports)
  BY IntrinsicsAligned DEF SInv, IInv
<1> DEFINE n == Len(imports) + k
<1>4. /\ n \in 1..EnvImportCount /\ n \in 1..Len(Symbols)
      /\ Symbols[n] = ResourceSymbol(x) /\ SpliceList[n] = y
  BY <1>1, <1>2, <1>3 DEF SideBySide, EnvImportCount
<1> HIDE DEF n
<1>5. Behind(ResourceSymbol(x)) = y
  BY <1>4, BehindSymbol
<1>6. Contains(Symbols, ResourceSymbol(x))
  BY <1>4 DEF Contains
<1> QED BY <1>5, <1>6

(* Every intrinsic that generated code calls has been made.                *)
LEMMA IntrinsicsReached == SInv => IntrinsicsReachHost
<1> SUFFICES ASSUME SInv, Ready, NEW i \in ToSet(imports) \cup ToSet(exports),
                    NEW r \in DOMAIN i.map, NEW need \in Needs(r, i.map[r])
             PROVE  /\ Contains(Symbols, ResourceSymbol(need[1]))
                    /\ Behind(ResourceSymbol(need[1])) = need[2]
  BY DEF IntrinsicsReachHost
<1>1. Sided(i)
  BY DEF SInv, MapsInv, Ready
<1>2. /\ \A s \in ExportedIds : \A j \in 1..3 : Aligned(SymbolsOf(s)[j], ImportsOf(s)[j])
      /\ \A s \in ResourceId : s \in importedResources =>
              Aligned(DropSymbolOf(s), IntrinsicImport(FALSE, s, "drop"))
  BY IntrinsicsAligned DEF SInv, IInv
<1>3. Aligned(need[1], need[2])
  <2>1. CASE i.map[r] = "import"
    <3>1. r \in ResourceId /\ r \in importedResources
      BY <1>1, <2>1 DEF Sided
    <3>2. Aligned(DropSymbolOf(r), IntrinsicImport(FALSE, r, "drop"))
      BY <3>1, <1>2
    <3>3. need = <<DropSymbolOf(r), IntrinsicImport(FALSE, r, "drop")>>
      BY <2>1 DEF Needs, DropSymbolOf
    <3> QED BY <3>2, <3>3
  <2>2. CASE i.map[r] # "import"
    <3>1. r \in ExportedIds
      BY <1>1, <2>2 DEF Sided
    <3>2. \A j \in 1..3 : Aligned(SymbolsOf(r)[j], ImportsOf(r)[j])
      BY <3>1, <1>2
    <3>3. \/ need = <<SymbolsOf(r)[1], ImportsOf(r)[1]>>
          \/ need = <<SymbolsOf(r)[2], ImportsOf(r)[2]>>
          \/ need = <<SymbolsOf(r)[3], ImportsOf(r)[3]>>
      BY <2>2, Triple DEF Needs, SymbolsOf, ImportsOf
    <3> QED BY <3>2, <3>3
  <2> QED BY <2>1, <2>2
<1> QED BY <1>3, Reached

(* The intrinsics that wrappers call to make, represent or drop handles    *)
(* are there and reach the host's intrinsic for that resource and side,    *)
(* whatever was generated in which order (IntrinsicsReachHost).            *)
THEOREM IntrinsicsAreReached == Spec => []IntrinsicsReachHost
BY IntrinsicsReached, SplicingInvariance, PTL

-----------------------------------------------------------------------------
(* What comes from where, when a list grows by what comes from m.          *)
Extends(p, o, s, t, m, S) ==
  /\ p \in [1..Len(s \o t) -> S]
  /\ Len(s) \in Nat /\ Len(t) \in Nat /\ Len(s \o t) = Len(s) + Len(t)
  /\ \A n \in 1..Len(s) : p[n] = o[n] /\ (s \o t)[n] = s[n]
  /\ \A n \in 1..Len(t) : p[Len(s) + n] = m /\ (s \o t)[Len(s) + n] = t[n]

(* A list of origins grows with the list.                                  *)
LEMMA OriginsExtend ==
  ASSUME NEW s, s \in Seq(ToSet(s)), NEW t, t \in Seq(ToSet(t)), NEW S, NEW o \in [1..Len(s) -> S],
         NEW m \in S
  PROVE  \E p : Extends(p, o, s, t, m, S)
<1> DEFINE u == s \o t
           p == [n \in 1..Len(u) |-> IF n <= Len(s) THEN o[n] ELSE m]
<1>1. /\ Len(s) \in Nat /\ Len(t) \in Nat /\ Len(u) = Len(s) + Len(t)
      /\ \A n \in 1..Len(s) : u[n] = s[n]
      /\ \A n \in 1..Len(t) : u[Len(s) + n] = t[n]
  <2>1. s \in Seq(ToSet(s) \cup ToSet(t)) /\ t \in Seq(ToSet(s) \cup ToSet(t))
    BY SeqMonotonic
  <2> QED BY <2>1, ConcatAt
<1> HIDE DEF u
<1>2. p \in [1..Len(u) -> S]
  BY <1>1
<1>3. \A n \in 1..Len(s) : p[n] = o[n]
  BY <1>1
<1>4. \A n \in 1..Len(t) : p[Len(s) + n] = m
  BY <1>1
<1> HIDE DEF p
<1> QED BY <1>1, <1>2, <1>3, <1>4 DEF Extends, u

(* The parts of Origins.                                                   *)
Stems(o) == \A n \in 1..Len(imports) : ImportOf(imports[n], world.imports[o[n]])
(* Item m has all of its functions, and of its classes, generated.         *)
HasFuncs(o, m) ==
  \A f \in FuncsFrom(world.imports[m]) : \E n \in 1..Len(imports) : o[n] = m /\ imports[n].f = f
HasClasses(c, m) ==
  \A class \in ToSet(ClassesOf(world.imports[m])) :
    \E k \in 1..Len(classes) : c[k] = m /\ classes[k] = class

(* What an item should have does not depend on the state.                  *)
LEMMA SameFuncs ==
  ASSUME world' = world
  PROVE  \A item : /\ FuncsFrom(item)' = FuncsFrom(item)
                   /\ \A i : ImportOf(i, item)' = ImportOf(i, item)
BY DEF FuncsFrom, RootFuncs, TakenBy, BeginsWith, Flatten, ImportOf, OwnerOf

(* The next item adds its own imports and classes, with their origin.      *)
LEMMA OriginsGrow ==
  ASSUME SInv, pc # "failed" => OriginsInv, ImportItem, pc' # "failed"
  PROVE  OriginsInv'
<1> SUFFICES ASSUME NEW item, item = world.imports[next],
                    NEW owner, owner = OwnerOf(item),
                    NEW dirs, dirs = Directed(owner, item.resources, "import"),
                    NEW new, new = NewImports(item, dirs),
                    NEW cls, cls = ClassesOf(item),
                    NEW mid, mid = next
             PROVE  OriginsInv'
  OBVIOUS
<1>1. /\ pc = "imports" /\ pc' = "imports" /\ next <= Len(world.imports) /\ next' = next + 1
      /\ imports' = imports \o new /\ classes' = classes \o cls
      /\ world' = world
  BY DEF ImportItem
<1>2. next \in 1..Len(world.imports) /\ WellFormed(item) /\ TypeInv
  <2>0. TypeInv
    BY DEF SInv, IInv
  <2>1. next \in Nat \ {0} /\ Len(world.imports) \in Nat
    BY <2>0, ImportOfWorld DEF TypeInv
  <2>2. next \in 1..Len(world.imports)
    BY <2>1, <1>1
  <2> QED BY <2>0, <2>2, ImportOfWorld
<1>3. NewFrom(new, item, dirs) /\ cls \in Seq(ToSet(cls))
  BY <1>2, NewImportsAre, ClassesAre
<1> DEFINE S == 1..Len(world.imports)
<1>4. PICK o \in [1..Len(imports) -> S] : \E c \in [1..Len(classes) -> S] : Origins(o, c)
  BY <1>1 DEF OriginsInv
<1>5. PICK c \in [1..Len(classes) -> S] : Origins(o, c)
  BY <1>4
<1>6. PICK p : Extends(p, o, imports, new, mid, S)
  BY <1>2, <1>3, OriginsExtend DEF NewFrom, SInv, ListsInv
<1>7. PICK d : Extends(d, c, classes, cls, mid, S)
  BY <1>2, <1>3, OriginsExtend DEF SInv, ListsInv
<1> HIDE DEF S
<1>8. /\ p \in [1..Len(imports') -> S]
      /\ Len(imports) \in Nat /\ Len(new) \in Nat /\ Len(imports') = Len(imports) + Len(new)
      /\ \A n \in 1..Len(imports) : p[n] = o[n] /\ imports'[n] = imports[n]
      /\ \A n \in 1..Len(new) : p[Len(imports) + n] = mid /\ imports'[Len(imports) + n] = new[n]
  BY <1>1, <1>6 DEF Extends
<1>9. /\ d \in [1..Len(classes') -> S]
      /\ Len(classes) \in Nat /\ Len(cls) \in Nat /\ Len(classes') = Len(classes) + Len(cls)
      /\ \A n \in 1..Len(classes) : d[n] = c[n] /\ classes'[n] = classes[n]
      /\ \A n \in 1..Len(cls) : d[Len(classes) + n] = mid /\ classes'[Len(classes) + n] = cls[n]
  BY <1>1, <1>7 DEF Extends
<1>10. DOMAIN new = 1..Len(new) /\ DOMAIN cls = 1..Len(cls)
  BY <1>3 DEF NewFrom
<1>11. /\ \A n \in 1..Len(imports) : ImportOf(imports[n], world.imports[o[n]])
       /\ \A m \in 1..(next - 1) : HasFuncs(o, m) /\ HasClasses(c, m)
  BY <1>1, <1>5 DEF Origins, Passed, HasFuncs, HasClasses
<1>12. ASSUME NEW n \in 1..Len(imports')
       PROVE  ImportOf(imports'[n], world.imports[p[n]])
  <2>1. CASE n \in 1..Len(imports)
    BY <2>1, <1>8, <1>11
  <2>2. CASE n \notin 1..Len(imports)
    <3>1. n - Len(imports) \in 1..Len(new) /\ n = Len(imports) + (n - Len(imports))
      BY <2>2, <1>8
    <3>2. PICK k \in 1..Len(new) : n = Len(imports) + k
      BY <3>1
    <3>3. p[n] = mid /\ imports'[n] = new[k] /\ new[k] \in ToSet(new)
      BY <3>2, <1>8, <1>10 DEF ToSet
    <3> QED BY <3>3, <1>3 DEF NewFrom
  <2> QED BY <2>1, <2>2
<1>13. ASSUME NEW m \in 1..next, NEW f \in FuncsFrom(world.imports[m])
       PROVE  \E n \in 1..Len(imports') : p[n] = m /\ imports'[n].f = f
  <2>1. CASE m = next
    <3>1. PICK i \in ToSet(new) : i.f = f
      BY <2>1, <1>3 DEF NewFrom
    <3>2. PICK k \in 1..Len(new) : new[k] = i
      BY <1>10 DEF ToSet
    <3>3. Len(imports) + k \in 1..Len(imports')
      BY <1>8
    <3> QED BY <2>1, <3>1, <3>2, <3>3, <1>8
  <2>2. CASE m # next
    <3>1. m \in 1..(next - 1)
      BY <2>2, <1>2
    <3>2. PICK n \in 1..Len(imports) : o[n] = m /\ imports[n].f = f
      BY <3>1, <1>11 DEF HasFuncs
    <3>3. n \in 1..Len(imports')
      BY <1>8
    <3> QED BY <3>2, <3>3, <1>8
  <2> QED BY <2>1, <2>2
<1>14. ASSUME NEW m \in 1..next, NEW class \in ToSet(ClassesOf(world.imports[m]))
       PROVE  \E k \in 1..Len(classes') : d[k] = m /\ classes'[k] = class
  <2>1. CASE m = next
    <3>1. PICK k \in 1..Len(cls) : cls[k] = class
      BY <2>1, <1>10 DEF ToSet
    <3>2. Len(classes) + k \in 1..Len(classes')
      BY <1>9
    <3> QED BY <2>1, <3>1, <3>2, <1>9
  <2>2. CASE m # next
    <3>1. m \in 1..(next - 1)
      BY <2>2, <1>2
    <3>2. PICK n \in 1..Len(classes) : c[n] = m /\ classes[n] = class
      BY <3>1, <1>11 DEF HasClasses
    <3>3. n \in 1..Len(classes')
      BY <1>9
    <3> QED BY <3>2, <3>3, <1>9
  <2> QED BY <2>1, <2>2
<1>15. Passed' = 1..next
  BY <1>1, <1>2 DEF Passed
<1>16. Origins(p, d)'
  <2>1. p \in [1..Len(imports') -> 1..Len(world.imports)]
        /\ d \in [1..Len(classes') -> 1..Len(world.imports)]
    BY <1>8, <1>9 DEF S
  <2>2. ASSUME NEW n \in 1..Len(imports')
        PROVE  ImportOf(imports[n], world.imports[p[n]])'
    <3>1. ImportOf(imports'[n], world.imports[p[n]])
      BY <1>12
    <3> QED BY <3>1, <1>1, SameFuncs
  <2>3. ASSUME NEW m \in 1..next, NEW f \in FuncsFrom(world.imports[m])'
        PROVE  \E n \in 1..Len(imports') : p[n] = m /\ imports'[n].f = f
    <3>1. f \in FuncsFrom(world.imports[m])
      BY <1>1, SameFuncs
    <3> QED BY <3>1, <1>13
  <2>4. \A m \in 1..next : \A class \in ToSet(ClassesOf(world'.imports[m])) :
          \E k \in 1..Len(classes') : d[k] = m /\ classes'[k] = class
    BY <1>1, <1>14
  <2> HIDE DEF S
  <2>5. world' = world
    BY <1>1
  <2> QED BY <2>1, <2>2, <2>3, <2>4, <2>5, <1>15 DEF Origins
<1> QED BY <1>1, <1>8, <1>9, <1>16 DEF OriginsInv, S

(* The invariant with the origins of imports and classes.                  *)
LInv == SInv /\ OriginsInv

(* At first nothing has been generated.                                    *)
LEMMA LInit == Init => LInv
<1> SUFFICES ASSUME Init PROVE OriginsInv
  BY SInit DEF LInv
<1>1. TypeInv /\ pc = "imports" /\ next = 1 /\ imports = <<>> /\ classes = <<>>
  BY SInit DEF Init, GenInit, SInv, IInv
<1>2. Len(imports) = 0 /\ Len(classes) = 0 /\ Passed = {}
  BY <1>1 DEF Passed
<1> DEFINE none == [n \in 1..0 |-> n]
<1>3. none \in [1..0 -> 1..Len(world.imports)]
  OBVIOUS
<1>4. Origins(none, none)
  BY <1>2, <1>3 DEF Origins
<1> QED BY <1>2, <1>3, <1>4 DEF OriginsInv

(* Once the imports are done nothing adds to them.                         *)
LEMMA OriginsStay ==
  ASSUME LInv, UNCHANGED <<world, imports, classes>>, pc # "failed", Passed' \subseteq Passed
  PROVE  OriginsInv'
<1>1. PICK o \in [1..Len(imports) -> 1..Len(world.imports)] :
        \E c \in [1..Len(classes) -> 1..Len(world.imports)] : Origins(o, c)
  BY DEF LInv, OriginsInv
<1>2. PICK c \in [1..Len(classes) -> 1..Len(world.imports)] : Origins(o, c)
  BY <1>1
<1>3. /\ \A n \in 1..Len(imports) : ImportOf(imports[n], world.imports[o[n]])
      /\ \A m \in Passed : HasFuncs(o, m) /\ HasClasses(c, m)
  BY <1>2 DEF Origins, HasFuncs, HasClasses
<1>4. ASSUME NEW n \in 1..Len(imports') PROVE ImportOf(imports[n], world.imports[o[n]])'
  BY <1>3, SameFuncs
<1>5. ASSUME NEW m \in Passed', NEW f \in FuncsFrom(world.imports[m])'
      PROVE  \E n \in 1..Len(imports') : o[n] = m /\ imports'[n].f = f
  <2>1. f \in FuncsFrom(world.imports[m])
    BY SameFuncs
  <2> QED BY <2>1, <1>3 DEF HasFuncs
<1>6. ASSUME NEW m \in Passed', NEW class \in ToSet(ClassesOf(world'.imports[m]))
      PROVE  \E k \in 1..Len(classes') : c[k] = m /\ classes'[k] = class
  <2>1. class \in ToSet(ClassesOf(world.imports[m])) /\ m \in Passed
    OBVIOUS
  <2>2. \E k \in 1..Len(classes) : c[k] = m /\ classes[k] = class
    BY <1>3, <2>1 DEF HasClasses
  <2> QED BY <2>2
<1>7. Origins(o, c)'
  BY <1>4, <1>5, <1>6 DEF Origins
<1> QED BY <1>7 DEF OriginsInv

(* Every step keeps the origins.                                           *)
LEMMA LStep == LInv /\ [Next]_vars => LInv'
<1> SUFFICES ASSUME LInv, [Next]_vars PROVE OriginsInv'
  BY SStep DEF LInv
<1> USE DEF LInv
<1>1. CASE pc' = "failed"
  BY <1>1 DEF OriginsInv
<1>2. CASE pc' # "failed" /\ ImportItem
  BY <1>2, OriginsGrow
<1>3. CASE pc' # "failed" /\ ImportsDone
  <2>1. /\ pc = "imports" /\ pc' = "exports" /\ next > Len(world.imports)
        /\ UNCHANGED <<world, imports, classes>>
    BY <1>3 DEF ImportsDone
  <2>2. next \in Nat \ {0} /\ Len(world.imports) \in Nat
    BY ImportOfWorld DEF SInv, IInv, TypeInv
  <2>3. Passed' \subseteq Passed
    BY <2>1, <2>2 DEF Passed
  <2> QED BY <2>1, <2>3, OriginsStay
<1>4. CASE pc' # "failed" /\ Next /\ ~ImportItem /\ ~ImportsDone
  <2>1. /\ pc # "failed" /\ UNCHANGED <<world, imports, classes>>
        /\ \/ pc # "imports" /\ pc' # "imports"
           \/ pc' = pc /\ next' = next
    BY <1>4 DEF Next, Generate, GenNext, ExportItem, SkipExport, PopulateAliases,
         SpliceImport, PlaceWrappers, SpliceExports, Install, Evaluate, EvaluationFails,
         BindExports, BindFails, InitFn, FnsDone, Stopped, vars, genVars, generated, linkVars
  <2>2. Passed' = Passed
    BY <2>1 DEF Passed
  <2> QED BY <2>1, <2>2, OriginsStay
<1>5. CASE pc' # "failed" /\ UNCHANGED vars
  <2>1. pc # "failed" /\ UNCHANGED <<pc, next, world, imports, classes>>
    BY <1>5 DEF vars, genVars, generated
  <2>2. Passed' = Passed
    BY <2>1 DEF Passed
  <2> QED BY <2>1, <2>2, OriginsStay
<1> QED BY <1>1, <1>2, <1>3, <1>4, <1>5

(* The origins are known in every reachable state.                         *)
THEOREM OriginsInvariance == Spec => []LInv
BY LInit, LStep, PTL DEF Spec

-----------------------------------------------------------------------------
(* A class's name is not that of a function, nor default, and it tells     *)
(* resources apart.                                                        *)
LEMMA CamelIsNoKebab ==
  ASSUME NEW a, NEW b, Kebab(a), Kebab(b)
  PROVE  /\ UpperCamel(a) # b
         /\ UpperCamel(a) # <<"default">>
         /\ UpperCamel(a) = UpperCamel(b) => a = b
<1> DEFINE S == ToSet(a) \cup ToSet(b) \cup {"^"}
<1>1. a \in Seq(S) /\ b \in Seq(S) /\ <<"^">> \in Seq(S)
  BY SeqMonotonic DEF Kebab
<1> HIDE DEF S
<1>2. UpperCamel(a)[1] = "^"
  BY <1>1 DEF UpperCamel
<1>3. b[1] # "^" /\ "default" # "^"
  BY DEF Kebab
<1>4. ASSUME UpperCamel(a) = UpperCamel(b) PROVE a = b
  <2>1. Len(<<"^">>) = 1
    OBVIOUS
  <2>2. /\ Len(UpperCamel(a)) = 1 + Len(a) /\ \A j \in 1..Len(a) : UpperCamel(a)[1 + j] = a[j]
        /\ Len(a) \in Nat
    BY <1>1, <2>1, ConcatAt DEF UpperCamel
  <2>3. /\ Len(UpperCamel(b)) = 1 + Len(b) /\ \A j \in 1..Len(b) : UpperCamel(b)[1 + j] = b[j]
        /\ Len(b) \in Nat
    BY <1>1, <2>1, ConcatAt DEF UpperCamel
  <2>4. Len(a) = Len(b) /\ \A j \in 1..Len(a) : a[j] = b[j]
    BY <1>4, <2>2, <2>3
  <2> QED BY <2>4, <1>1, SeqEqual
<1> QED BY <1>2, <1>3, <1>4

(* So does the class's name in the script.                                 *)
LEMMA ClassesDiffer ==
  ASSUME NEW a, NEW b, Kebab(a), Kebab(b), NEW interface,
         ClassName(a, interface) = ClassName(b, interface)
  PROVE  a = b
<1> DEFINE p == Prefix(interface)
           S == {interface, Dollar, UpperCamel(a), UpperCamel(b)}
<1>1. p \in Seq(S) /\ <<UpperCamel(a)>> \in Seq(S) /\ <<UpperCamel(b)>> \in Seq(S)
  <2>1. {interface, Dollar, UpperCamel(a), UpperCamel(b)} \subseteq S
    OBVIOUS
  <2> HIDE DEF S
  <2>2. <<>> \in Seq(S) /\ <<interface, Dollar>> \in Seq(S)
    BY <2>1
  <2>3. p \in Seq(S)
    BY <2>2 DEF Prefix
  <2> HIDE DEF p
  <2> QED BY <2>1, <2>3
<1>2. Len(<<UpperCamel(a)>>) = 1 /\ <<UpperCamel(a)>>[1] = UpperCamel(a)
      /\ Len(<<UpperCamel(b)>>) = 1 /\ <<UpperCamel(b)>>[1] = UpperCamel(b)
  OBVIOUS
<1> HIDE DEF p, S
<1>3. /\ (p \o <<UpperCamel(a)>>)[Len(p) + 1] = UpperCamel(a)
      /\ (p \o <<UpperCamel(b)>>)[Len(p) + 1] = UpperCamel(b)
  BY <1>1, <1>2, ConcatAt
<1>4. p \o <<UpperCamel(a)>> = p \o <<UpperCamel(b)>>
  BY DEF ClassName, BindingName, p
<1>5. UpperCamel(a) = UpperCamel(b)
  BY <1>3, <1>4
<1> QED BY <1>5, CamelIsNoKebab

(* The names of an import's function, and the resource it is of.           *)
Named(f) ==
  /\ f.kind \in Kind /\ Kebab(f.name)
  /\ f.kind = "free" => f.res = NoName
  /\ f.kind # "free" => Kebab(f.res)
OfResource(f) == \E m \in 1..Len(world.imports) :
                   world.imports[m].is = "resource" /\ world.imports[m].key.name = f.res

(* Functions of an item that is imported.                                  *)
LEMMA FuncOfItem ==
  ASSUME TypeInv, NEW m \in 1..Len(world.imports), NEW item, item = world.imports[m],
         NEW f \in ToSet(item.funcs)
  PROVE  /\ Named(f) /\ item.is # "resource"
         /\ item.is = "func" /\ f.kind # "free" => OfResource(f)
         /\ item.is = "func" => ToSet(item.funcs) = {f} /\ f = item.funcs[1]
         /\ item.is = "iface" /\ f.kind # "free" => f.res \in ToSet(item.resources)
<1>1. WellFormed(item) /\ RootResourceOf(item, world)
  BY ImportOfWorld
<1>2. item.is # "resource"
  BY <1>1 DEF WellFormed, ToSet
<1>3. Named(f)
  BY <1>1 DEF WellFormed, Named
<1>4. ASSUME item.is = "func", f.kind # "free" PROVE OfResource(f)
  <2>1. PICK r \in ToSet(world.imports) : r.is = "resource" /\ r.key.name = f.res
    BY <1>1, <1>4 DEF RootResourceOf
  <2>2. PICK n \in 1..Len(world.imports) : r = world.imports[n]
    BY ImportOfWorld DEF ToSet
  <2> QED BY <2>1, <2>2 DEF OfResource
<1>5. ASSUME item.is = "func" PROVE ToSet(item.funcs) = {f} /\ f = item.funcs[1]
  <2>1. item.funcs \in Seq(ToSet(item.funcs)) /\ Len(item.funcs) = 1
    BY <1>1, <1>5 DEF WellFormed
  <2>2. DOMAIN item.funcs = 1..1
    BY <2>1
  <2> QED BY <2>2 DEF ToSet
<1>6. item.is = "iface" /\ f.kind # "free" => f.res \in ToSet(item.resources)
  BY <1>1 DEF WellFormed
<1> QED BY <1>2, <1>3, <1>4, <1>5, <1>6

(* Functions of an import that was generated.                              *)
LEMMA FuncOfImport ==
  ASSUME TypeInv, NEW m \in 1..Len(world.imports), NEW item, item = world.imports[m],
         NEW i, ImportOf(i, item)
  PROVE  /\ Named(i.f)
         /\ item.is = "resource" => i.f.kind # "free" /\ OfResource(i.f)
         /\ item.is = "func" => i.f.kind = "free"
<1>1. WellFormed(item) /\ item.is \in {"func", "iface", "resource"}
  BY ImportOfWorld DEF WellFormed
<1>2. CASE item.is = "resource"
  <2>1. i.f \in ToSet(RootFuncs(item.key.name))
    BY <1>2 DEF ImportOf, OwnerOf, FuncsFrom
  <2>2. PICK n \in 1..Len(world.imports) :
          /\ world.imports[n].is = "func" /\ i.f = world.imports[n].funcs[1]
          /\ i.f.kind # "free"
    BY <2>1, RootFuncsAre DEF TakenBy
  <2>3. WellFormed(world.imports[n])
    BY ImportOfWorld
  <2>4. i.f \in ToSet(world.imports[n].funcs)
    <3>1. world.imports[n].funcs \in Seq(ToSet(world.imports[n].funcs)) /\ Len(world.imports[n].funcs) = 1
      BY <2>2, <2>3 DEF WellFormed
    <3> QED BY <2>2, <3>1 DEF ToSet
  <2> QED BY <1>2, <2>2, <2>4, FuncOfItem
<1>3. CASE item.is # "resource"
  <2>1. i.f \in ToSet(item.funcs) /\ (item.is = "func" => i.f.kind = "free")
    BY <1>1, <1>3 DEF ImportOf, OwnerOf, FuncsFrom
  <2> QED BY <1>3, <2>1, FuncOfItem
<1> QED BY <1>2, <1>3

-----------------------------------------------------------------------------
(* The imports that are generated, once the component is ready.            *)
LEMMA OriginsOf ==
  ASSUME LInv, Ready
  PROVE  \E o \in [1..Len(imports) -> 1..Len(world.imports)] :
           \E c \in [1..Len(classes) -> 1..Len(world.imports)] :
             Stems(o) /\ \A m \in 1..Len(world.imports) : HasFuncs(o, m) /\ HasClasses(c, m)
<1>1. Passed = 1..Len(world.imports)
  BY DEF Passed, Ready
<1>2. PICK o \in [1..Len(imports) -> 1..Len(world.imports)] :
        \E c \in [1..Len(classes) -> 1..Len(world.imports)] : Origins(o, c)
  BY DEF LInv, OriginsInv, Ready
<1>3. PICK c \in [1..Len(classes) -> 1..Len(world.imports)] : Origins(o, c)
  BY <1>2
<1>4. Stems(o) /\ \A m \in 1..Len(world.imports) : HasFuncs(o, m) /\ HasClasses(c, m)
  BY <1>1, <1>3 DEF Origins, Stems, HasFuncs, HasClasses
<1> QED BY <1>4

(* Each import comes from an item,                                         *)
LEMMA StemOf ==
  ASSUME LInv, Ready, NEW i \in ToSet(imports)
  PROVE  \E m \in 1..Len(world.imports) : ImportOf(i, world.imports[m])
<1>1. PICK o \in [1..Len(imports) -> 1..Len(world.imports)] : Stems(o)
  BY OriginsOf
<1>2. DOMAIN imports = 1..Len(imports)
  BY DEF LInv, SInv, ListsInv
<1>3. PICK n \in 1..Len(imports) : imports[n] = i
  BY <1>2 DEF ToSet
<1> QED BY <1>1, <1>3 DEF Stems

(* and each function of an item has one.                                   *)
LEMMA GeneratedForFunc ==
  ASSUME LInv, Ready, NEW m \in 1..Len(world.imports), NEW f \in FuncsFrom(world.imports[m])
  PROVE  \E i \in ToSet(imports) : i.f = f /\ ImportOf(i, world.imports[m])
<1>1. PICK o \in [1..Len(imports) -> 1..Len(world.imports)] : Stems(o) /\ HasFuncs(o, m)
  BY OriginsOf
<1>2. DOMAIN imports = 1..Len(imports)
  BY DEF LInv, SInv, ListsInv
<1>3. PICK n \in 1..Len(imports) : o[n] = m /\ imports[n].f = f
  BY <1>1 DEF HasFuncs
<1> QED BY <1>1, <1>2, <1>3 DEF Stems, ToSet

(* Items whose classes share a name would have it declared twice.          *)
LEMMA OneItemPerClass ==
  ASSUME LInv, Ready, NEW a \in 1..Len(world.imports), NEW b \in 1..Len(world.imports),
         NEW class \in ToSet(ClassesOf(world.imports[a])) \cap ToSet(ClassesOf(world.imports[b]))
  PROVE  a = b
<1>1. PICK c \in [1..Len(classes) -> 1..Len(world.imports)] : HasClasses(c, a) /\ HasClasses(c, b)
  BY OriginsOf
<1>2. PICK k \in 1..Len(classes) : c[k] = a /\ classes[k] = class
  BY <1>1 DEF HasClasses
<1>3. PICK l \in 1..Len(classes) : c[l] = b /\ classes[l] = class
  BY <1>1 DEF HasClasses
<1>4. k = l
  BY <1>2, <1>3, Evaluates DEF LInv, DeclaredOnce
<1> QED BY <1>2, <1>3, <1>4

(* The class a function of a resource is in is declared for item m.        *)
Classed(i, m) ==
  /\ ClassName(i.f.res, i.interface) \in ToSet(ClassesOf(world.imports[m]))
  /\ \/ world.imports[m].is = "iface" /\ ImportOf(i, world.imports[m])
     \/ /\ world.imports[m].is = "resource" /\ world.imports[m].key.name = i.f.res
        /\ i.interface = NoName /\ i.specifier = Root /\ i.iface = TRUE

(* The class of a method is declared.                                      *)
LEMMA ClassOfImport ==
  ASSUME LInv, Ready, NEW i \in ToSet(imports), i.f.kind # "free"
  PROVE  \E m \in 1..Len(world.imports) : Classed(i, m)
<1>0. TypeInv
  BY DEF LInv, SInv, IInv
<1>1. PICK m \in 1..Len(world.imports) : ImportOf(i, world.imports[m])
  BY StemOf
<1>2. WellFormed(world.imports[m]) /\ world.imports[m].is \in {"func", "iface", "resource"}
  BY <1>0, ImportOfWorld DEF WellFormed
<1>3. world.imports[m].is # "func"
  BY <1>0, <1>1, FuncOfImport
<1>4. CASE world.imports[m].is = "iface"
  <2>1. i.f \in ToSet(world.imports[m].funcs) /\ i.interface = InterfaceName(world.imports[m].key)
    BY <1>1, <1>4 DEF ImportOf, OwnerOf, FuncsFrom
  <2>2. ClassName(i.f.res, i.interface) \in ToSet(ClassesOf(world.imports[m]))
    BY <1>2, <1>4, <2>1, ClassesAre
  <2> QED BY <1>1, <1>4, <2>2 DEF Classed
<1>5. CASE world.imports[m].is = "resource"
  <2>1. OfResource(i.f) /\ i.interface = NoName /\ i.specifier = Root /\ i.iface = TRUE
    BY <1>0, <1>1, <1>5, FuncOfImport DEF ImportOf, OwnerOf
  <2>2. PICK r \in 1..Len(world.imports) :
          world.imports[r].is = "resource" /\ world.imports[r].key.name = i.f.res
    BY <2>1 DEF OfResource
  <2>3. ClassName(i.f.res, NoName) \in ToSet(ClassesOf(world.imports[r]))
    <3>1. WellFormed(world.imports[r])
      BY <1>0, ImportOfWorld
    <3> QED BY <3>1, <2>2, ClassesAre
  <2> QED BY <2>1, <2>2, <2>3 DEF Classed
<1> QED BY <1>2, <1>3, <1>4, <1>5

(* An import's symbol is its own and reaches its own host function.        *)
LEMMA BehindImport ==
  ASSUME LInv, Ready, NEW i \in ToSet(imports)
  PROVE  /\ Behind(ImportSymbol(i)) = HostOf(i)
         /\ \A j \in ToSet(imports) : ImportSymbol(j) = ImportSymbol(i) => j = i
<1>1. SideBySide /\ DOMAIN imports = 1..Len(imports)
  BY ListsAgree DEF LInv, SInv, IInv, ListsInv
<1>2. PICK n \in 1..Len(imports) : imports[n] = i
  BY <1>1 DEF ToSet
<1>3. \A k \in 1..Len(imports) : k \in 1..EnvImportCount
  BY <1>1 DEF SideBySide, EnvImportCount
<1>4. \A k \in 1..Len(imports) :
        Symbols[k] = ImportSymbol(imports[k]) /\ SpliceList[k] = HostOf(imports[k])
  BY <1>1 DEF SideBySide
<1>5. Behind(ImportSymbol(i)) = HostOf(i)
  <2>1. Behind(Symbols[n]) = SpliceList[n]
    BY <1>3, BehindSymbol DEF LInv
  <2> QED BY <1>2, <1>4, <2>1
<1>6. ASSUME NEW j \in ToSet(imports), ImportSymbol(j) = ImportSymbol(i) PROVE j = i
  <2>1. PICK k \in 1..Len(imports) : imports[k] = j
    BY <1>1 DEF ToSet
  <2>2. Symbols[k] = Symbols[n]
    BY <1>2, <1>4, <1>6, <2>1
  <2>3. k = n
    BY <1>3, <2>2, Evaluates DEF LInv, DeclaredOnce
  <2> QED BY <1>2, <2>1, <2>3
<1> QED BY <1>5, <1>6

(* Specifiers are keys of items, and keys differ.                          *)
LEMMA ItemOfSpecifier ==
  ASSUME TypeInv, NEW m \in 1..Len(world.imports), NEW n \in 1..Len(world.imports),
         NEW i, ImportOf(i, world.imports[m]), i.specifier = world.imports[n].key
  PROVE  m = n
<1>1. Keyed(world.imports) /\ DOMAIN world.imports = 1..Len(world.imports)
      /\ world.imports[n].key # Root
  BY ImportOfWorld DEF WellFormed
<1>2. i.specifier = world.imports[m].key
  BY <1>1 DEF ImportOf, OwnerOf
<1> QED BY <1>1, <1>2 DEF Keyed

-----------------------------------------------------------------------------
(* What user code reaches.                                                 *)
Here(i) == IF i.f.kind # "free" THEN UpperCamel(i.f.res)
           ELSE IF i.iface THEN i.f.name ELSE <<"default">>
Held(i) == IF i.f.kind = "free" THEN ImportFunction(i) ELSE ClassName(i.f.res, i.interface)

(* The properties of the built-in module of a specifier.                   *)
LEMMA BuiltinHolds ==
  ASSUME NEW s, NEW p, NEW x
  PROVE  x \in Builtin(s, p) <=>
           \E j \in ToSet(imports) : j.specifier = s /\ Here(j) = p /\ Held(j) = x
BY DEF Builtin, Here, Held

(* The functions that user code may run when it uses an import.            *)
LEMMA BodiesAre ==
  ASSUME NEW item, NEW f, NEW i
  PROVE  i \in Bodies(item, f) <=>
           /\ i \in ToSet(imports) /\ i.f.kind = f.kind /\ i.f.name = f.name
           /\ \E j \in ToSet(imports) :
                j.specifier = SpecifierOf(item, f) /\ Here(j) = PropertyOf(item, f) /\ Held(j) = Held(i)
<1>1. f.kind = i.f.kind =>
        (IF f.kind = "free" THEN ImportFunction(i) ELSE ClassName(i.f.res, i.interface)) = Held(i)
  BY DEF Held
<1> QED BY <1>1, BuiltinHolds DEF Bodies

(* A property that is a class is not one that is a function.               *)
LEMMA PropertyKinds ==
  ASSUME LInv, Ready, NEW m \in 1..Len(world.imports), NEW item, item = world.imports[m],
         NEW f \in ToSet(item.funcs), NEW j \in ToSet(imports), Here(j) = PropertyOf(item, f)
  PROVE  /\ j.f.kind = "free" <=> f.kind = "free"
         /\ f.kind # "free" => j.f.res = f.res
<1>0. TypeInv
  BY DEF LInv, SInv, IInv
<1>1. PICK n \in 1..Len(world.imports) : ImportOf(j, world.imports[n])
  BY StemOf
<1>2. Named(j.f) /\ Named(f)
  BY <1>0, <1>1, FuncOfImport, FuncOfItem
<1>3. CASE f.kind = "free"
  <2>1. Here(j) = f.name \/ Here(j) = <<"default">>
    BY <1>3 DEF PropertyOf
  <2>2. j.f.kind # "free" => UpperCamel(j.f.res) # f.name /\ UpperCamel(j.f.res) # <<"default">>
    BY <1>2, CamelIsNoKebab DEF Named
  <2> QED BY <1>3, <2>1, <2>2 DEF Here
<1>4. CASE f.kind # "free"
  <2>1. Here(j) = UpperCamel(f.res)
    BY <1>4 DEF PropertyOf
  <2>2. j.f.kind = "free" => UpperCamel(f.res) # j.f.name /\ UpperCamel(f.res) # <<"default">>
    BY <1>2, <1>4, CamelIsNoKebab DEF Named
  <2>3. j.f.kind # "free"
    BY <2>1, <2>2 DEF Here
  <2>4. UpperCamel(j.f.res) = UpperCamel(f.res)
    BY <2>1, <2>3 DEF Here
  <2> QED BY <1>2, <1>4, <2>3, <2>4, CamelIsNoKebab DEF Named
<1> QED BY <1>3, <1>4

(* User code that uses f runs something, and all it may run is the host's. *)
Reaches(item, f) ==
  /\ \E i \in Bodies(item, f) : TRUE
  /\ \A i \in Bodies(item, f) : HostOf(i) = Wants(item, f)

(* Functions outside resources reach the host,                             *)
LEMMA FreeReaches ==
  ASSUME LInv, Ready, NEW m \in 1..Len(world.imports), NEW item, item = world.imports[m],
         NEW f \in ToSet(item.funcs), f.kind = "free", ~f.async
  PROVE  Reaches(item, f)
<1>0. TypeInv /\ WellFormed(item) /\ Named(f) /\ item.is \in {"func", "iface"}
  BY ImportOfWorld, FuncOfItem DEF LInv, SInv, IInv, WellFormed
<1>1. SpecifierOf(item, f) = item.key
      /\ PropertyOf(item, f) = IF item.is = "iface" THEN f.name ELSE <<"default">>
  BY DEF SpecifierOf, PropertyOf
<1>2. f \in FuncsFrom(item)
  BY <1>0 DEF FuncsFrom
<1>3. ASSUME NEW i, ImportOf(i, item)
      PROVE  i.specifier = item.key /\ i.iface = (item.is # "func")
  BY <1>0, <1>3 DEF ImportOf, OwnerOf
<1>4. \E i \in Bodies(item, f) : TRUE
  <2>1. PICK i \in ToSet(imports) : i.f = f /\ ImportOf(i, item)
    BY <1>2, GeneratedForFunc
  <2>2. i.specifier = SpecifierOf(item, f) /\ Here(i) = PropertyOf(item, f)
    BY <1>0, <1>1, <1>3, <2>1 DEF Here
  <2> QED BY <2>1, <2>2, BodiesAre
<1>5. ASSUME NEW i \in Bodies(item, f) PROVE HostOf(i) = Wants(item, f)
  <2>1. i \in ToSet(imports) /\ i.f.kind = "free" /\ i.f.name = f.name
    BY BodiesAre
  <2>2. PICK j \in ToSet(imports) :
          j.specifier = item.key /\ Here(j) = PropertyOf(item, f) /\ Held(j) = Held(i)
    BY <1>1, BodiesAre
  <2>3. j.f.kind = "free"
    BY <2>2, PropertyKinds
  <2>4. j = i
    <3>1. ImportFunction(j) = ImportFunction(i)
      BY <2>1, <2>2, <2>3 DEF Held
    <3>2. ImportSymbol(j) = ImportSymbol(i)
      BY <2>1, <2>3, <3>1 DEF ImportSymbol, ImportBinding, ImportFunction, FuncName, ImportBindingName
    <3> QED BY <2>1, <3>2, BehindImport
  <2>5. PICK n \in 1..Len(world.imports) : ImportOf(i, world.imports[n])
    BY <2>1, StemOf
  <2>6. n = m
    BY <1>0, <2>2, <2>4, <2>5, ItemOfSpecifier
  <2>7. ImportOf(i, item) /\ i.f.res = NoName /\ f.res = NoName
    BY <1>0, <2>1, <2>5, <2>6, FuncOfImport DEF Named
  <2>8. item.is = "func" => item.key.name = f.name
    BY <1>0, FuncOfItem DEF WellFormed
  <2> QED BY <1>0, <1>3, <2>1, <2>7, <2>8 DEF HostOf, Wants
<1> QED BY <1>4, <1>5 DEF Reaches

(* so do functions of an interface's resource,                             *)
LEMMA MethodReaches ==
  ASSUME LInv, Ready, NEW m \in 1..Len(world.imports), NEW item, item = world.imports[m],
         item.is = "iface", NEW f \in ToSet(item.funcs), f.kind # "free"
  PROVE  Reaches(item, f)
<1>0. TypeInv /\ WellFormed(item) /\ Named(f)
  BY ImportOfWorld, FuncOfItem DEF LInv, SInv, IInv
<1>1. SpecifierOf(item, f) = item.key /\ PropertyOf(item, f) = UpperCamel(f.res)
  BY DEF SpecifierOf, PropertyOf
<1>2. f \in FuncsFrom(item)
  BY DEF FuncsFrom
<1>3. ASSUME NEW i, ImportOf(i, item)
      PROVE  i.specifier = item.key /\ i.iface = TRUE /\ i.interface = InterfaceName(item.key)
  BY <1>3 DEF ImportOf, OwnerOf
<1>4. \E i \in Bodies(item, f) : TRUE
  <2>1. PICK i \in ToSet(imports) : i.f = f /\ ImportOf(i, item)
    BY <1>2, GeneratedForFunc
  <2>2. i.specifier = SpecifierOf(item, f) /\ Here(i) = PropertyOf(item, f)
    BY <1>1, <1>3, <2>1 DEF Here
  <2> QED BY <2>1, <2>2, BodiesAre
<1>5. ASSUME NEW i \in Bodies(item, f) PROVE HostOf(i) = Wants(item, f)
  <2>1. i \in ToSet(imports) /\ i.f.kind = f.kind /\ i.f.name = f.name
    BY BodiesAre
  <2>2. PICK j \in ToSet(imports) :
          j.specifier = item.key /\ Here(j) = PropertyOf(item, f) /\ Held(j) = Held(i)
    BY <1>1, BodiesAre
  <2>3. j.f.kind # "free" /\ j.f.res = f.res
    BY <2>2, PropertyKinds
  <2>4. PICK a \in 1..Len(world.imports) : Classed(i, a)
    BY <2>1, ClassOfImport
  <2>5. PICK n \in 1..Len(world.imports) : ImportOf(j, world.imports[n])
    BY StemOf
  <2>6. n = m
    BY <1>0, <2>2, <2>5, ItemOfSpecifier
  <2>7. j.interface = InterfaceName(item.key) /\ Held(i) = ClassName(f.res, InterfaceName(item.key))
    BY <1>3, <2>2, <2>3, <2>5, <2>6 DEF Held
  <2>8. Held(i) \in ToSet(ClassesOf(world.imports[m]))
    BY <1>0, <2>7, ClassesAre
  <2>9. Held(i) = ClassName(i.f.res, i.interface)
    BY <2>1 DEF Held
  <2>10. a = m
    BY <2>4, <2>8, <2>9, OneItemPerClass DEF Classed
  <2>11. ImportOf(i, item)
    BY <2>4, <2>10 DEF Classed
  <2>12. Named(i.f)
    BY <1>0, <2>11, FuncOfImport
  <2>13. i.f.res = f.res
    <3>1. i.interface = InterfaceName(item.key)
      BY <1>3, <2>11
    <3>2. ClassName(i.f.res, InterfaceName(item.key)) = ClassName(f.res, InterfaceName(item.key))
      BY <2>7, <2>9, <3>1
    <3>3. Kebab(i.f.res) /\ Kebab(f.res)
      BY <1>0, <2>1, <2>12 DEF Named
    <3> QED BY <3>2, <3>3, ClassesDiffer
  <2> QED BY <1>3, <2>1, <2>11, <2>13 DEF HostOf, Wants
<1> QED BY <1>4, <1>5 DEF Reaches

(* A resource of the world takes functions by the beginning of its name.   *)
LEMMA PrefixOfItself ==
  ASSUME NEW name, Kebab(name)
  PROVE  BeginsWith(name, name)
<1>1. name \in Seq(ToSet(name))
  BY DEF Kebab
<1>2. Len(name) \in Nat /\ Len(name) <= Len(name)
  BY <1>1
<1> QED BY <1>2 DEF BeginsWith

(* and so do functions of the world's own resources.                       *)
LEMMA RootMethodReaches ==
  ASSUME LInv, Ready, NEW m \in 1..Len(world.imports), NEW item, item = world.imports[m],
         item.is = "func", NEW f \in ToSet(item.funcs), f.kind # "free", ~f.async
  PROVE  Reaches(item, f)
<1>0. /\ TypeInv /\ WellFormed(item) /\ Named(f) /\ OfResource(f) /\ f = item.funcs[1]
  BY ImportOfWorld, FuncOfItem DEF LInv, SInv, IInv
<1>1. SpecifierOf(item, f) = Root /\ PropertyOf(item, f) = UpperCamel(f.res)
  BY DEF SpecifierOf, PropertyOf
<1>2. PICK r \in 1..Len(world.imports) :
        world.imports[r].is = "resource" /\ world.imports[r].key.name = f.res
  BY <1>0 DEF OfResource
<1>3. f \in FuncsFrom(world.imports[r])
  <2>1. TakenBy(f.res, f)
    BY <1>0, PrefixOfItself DEF Named, TakenBy
  <2>2. f \in ToSet(RootFuncs(f.res))
    BY <1>0, <2>1, RootFuncsAre
  <2> QED BY <1>2, <2>2 DEF FuncsFrom
<1>4. ASSUME NEW i, NEW n \in 1..Len(world.imports), ImportOf(i, world.imports[n]), i.specifier = Root
      PROVE  world.imports[n].is = "resource" /\ i.interface = NoName /\ i.iface = TRUE
  <2>1. world.imports[n].key # Root
    BY <1>0, ImportOfWorld DEF WellFormed
  <2>2. world.imports[n].is = "resource"
    BY <1>4, <2>1 DEF ImportOf, OwnerOf
  <2> QED BY <1>4, <2>2 DEF ImportOf, OwnerOf
<1>5. \E i \in Bodies(item, f) : TRUE
  <2>1. PICK i \in ToSet(imports) : i.f = f /\ ImportOf(i, world.imports[r])
    BY <1>3, GeneratedForFunc
  <2>2. i.specifier = Root
    BY <1>2, <2>1 DEF ImportOf, OwnerOf
  <2>3. i.specifier = SpecifierOf(item, f) /\ Here(i) = PropertyOf(item, f)
    BY <1>1, <2>1, <2>2 DEF Here
  <2> QED BY <2>1, <2>3, BodiesAre
<1>6. ASSUME NEW i \in Bodies(item, f) PROVE HostOf(i) = Wants(item, f)
  <2>1. i \in ToSet(imports) /\ i.f.kind = f.kind /\ i.f.name = f.name
    BY BodiesAre
  <2>2. PICK j \in ToSet(imports) :
          j.specifier = Root /\ Here(j) = PropertyOf(item, f) /\ Held(j) = Held(i)
    BY <1>1, BodiesAre
  <2>3. j.f.kind # "free" /\ j.f.res = f.res
    BY <2>2, PropertyKinds
  <2>4. PICK a \in 1..Len(world.imports) : Classed(i, a)
    BY <2>1, ClassOfImport
  <2>5. PICK n \in 1..Len(world.imports) : ImportOf(j, world.imports[n])
    BY StemOf
  <2>6. Held(i) = ClassName(f.res, NoName) /\ Held(i) = ClassName(i.f.res, i.interface)
    BY <1>4, <2>1, <2>2, <2>3, <2>5 DEF Held
  <2>7. Held(i) \in ToSet(ClassesOf(world.imports[r]))
    <3>1. WellFormed(world.imports[r])
      BY <1>0, ImportOfWorld
    <3> QED BY <1>2, <2>6, <3>1, ClassesAre
  <2>8. a = r
    BY <2>4, <2>6, <2>7, OneItemPerClass DEF Classed
  <2>9. i.f.res = f.res /\ i.specifier = Root /\ i.iface = TRUE
    BY <1>2, <2>4, <2>8 DEF Classed
  <2> QED BY <2>1, <2>9 DEF HostOf, Wants
<1> QED BY <1>5, <1>6 DEF Reaches

(* Every item's functions are of one of the three kinds.                   *)
LEMMA ImportsReached == LInv => ImportsReachHost
<1> SUFFICES ASSUME LInv, Ready, NEW item \in ToSet(world.imports), NEW f \in ToSet(item.funcs),
                    ~f.async
             PROVE  {Behind(ImportSymbol(i)) : i \in Bodies(item, f)} = {Wants(item, f)}
  BY DEF ImportsReachHost
<1>0. TypeInv
  BY DEF LInv, SInv, IInv
<1>1. PICK m \in 1..Len(world.imports) : item = world.imports[m]
  BY <1>0, ImportOfWorld DEF ToSet
<1>2. item.is \in {"func", "iface"}
  BY <1>0, <1>1, ImportOfWorld, FuncOfItem DEF WellFormed
<1>3. Reaches(item, f)
  BY <1>1, <1>2, FreeReaches, MethodReaches, RootMethodReaches
<1>4. \A i \in Bodies(item, f) : Behind(ImportSymbol(i)) = HostOf(i)
  BY BodiesAre, BehindImport
<1> QED BY <1>3, <1>4 DEF Reaches

(* User code that imports a function, or uses a class's, none of them      *)
(* asynchronous, runs the wrapper of the host's function of that name: the *)
(* import list of bindgen.rs, the wrappers that splice.rs adds and         *)
(* get_import's numbers agree, however names are spelled                   *)
(* (ImportsReachHost).                                                     *)
THEOREM ImportsAreReached == Spec => []ImportsReachHost
BY ImportsReached, OriginsInvariance, PTL

-----------------------------------------------------------------------------
(* Worlds list an interface behind those whose resources it uses, as wit-  *)
(* parser does, and the interface that the engine serves itself            *)
(* (wasi:http/incoming-handler) has no resources. Only SidesMatch needs    *)
(* it: exports_bindgen puts resources on the export side item by item, and *)
(* a function generated before the owner of a resource it uses would be    *)
(* generated for the import side.                                          *)
UsesInOrder ==
  \A w \in Worlds : \A m, n \in DOMAIN w.exports :
    /\ w.exports[m].key \in EngineServes => w.exports[m].resources = <<>>
    /\ \A f \in ToSet(w.exports[n].funcs) : \A r \in f.uses :
         w.exports[m].key = r.owner => m <= n /\ r.res \in ToSet(w.exports[m].resources)

(* The resources of the items that are done are on the export side.        *)
ExportedFirst ==
  \A m \in 1..(next - 1) : \A name \in ToSet(world.exports[m].resources) :
    LET r == Resource(world.exports[m].key, name)
    IN  r \in DOMAIN directions /\ directions[r] = "export"

(* The side that a resource is on for exported functions.                  *)
SideOf(r) ==
  IF \E item \in ToSet(world.exports) : item.key = r.owner THEN "export" ELSE "import"

(* The code of each export was generated for those sides.                  *)
SideInv ==
  /\ pc = "exports" => next <= Len(world.exports) + 1 /\ ExportedFirst
  /\ pc \in {"imports", "failed"} \/ \A e \in ToSet(exports) : \A r \in DOMAIN e.map : e.map[r] = SideOf(r)
  /\ pc = "imports" => exports = <<>>

(* The invariant with the sides of exports.                                *)
DInv == SInv /\ SideInv

(* Nothing is exported at first.                                           *)
LEMMA DInit == Init => DInv
<1> SUFFICES ASSUME Init PROVE SideInv
  BY SInit DEF DInv
<1> QED BY DEF Init, GenInit, SideInv

(* The item's own resources are directed before its functions.             *)
LEMMA ExportItemMatches ==
  ASSUME UsesInOrder, DInv, ExportItem
  PROVE  SideInv'
<1> SUFFICES ASSUME NEW item, item = world.exports[next],
                    NEW dirs, dirs = Directed(item.key, item.resources, "export"),
                    NEW new, new = ExportsOf(item, dirs),
                    NEW mid, mid = next
             PROVE  SideInv'
  OBVIOUS
<1>1. /\ pc = "exports" /\ next <= Len(world.exports) /\ next' = next + 1
      /\ IF Panics(new) THEN pc' = "failed" ELSE pc' = pc
      /\ directions' = dirs /\ exports' = exports \o new
      /\ world' = world
  BY DEF ExportItem
<1>2. Puts(dirs, item.key, ToSet(item.resources), "export")
  BY DirectedAre
<1>3. /\ next \in 1..Len(world.exports) /\ WellFormed(item) /\ item \in ToSet(world.exports)
      /\ DOMAIN item.funcs = 1..Len(item.funcs) /\ Len(item.funcs) \in Nat
      /\ Len(world.exports) \in Nat /\ DOMAIN world.exports = 1..Len(world.exports)
  <2>1. next \in Nat \ {0} /\ Keyed(world.exports)
    BY WorldAssumption DEF DInv, SInv, IInv, TypeInv
  <2>2. Len(world.exports) \in Nat /\ DOMAIN world.exports = 1..Len(world.exports)
    BY <2>1 DEF Keyed
  <2>3. next \in 1..Len(world.exports)
    BY <1>1, <2>1, <2>2
  <2> QED BY <2>2, <2>3, ItemOfWorld DEF DInv, SInv, IInv
<1>4. ASSUME NEW m \in 1..next, NEW name \in ToSet(world.exports[m].resources)
      PROVE  /\ Resource(world.exports[m].key, name) \in DOMAIN dirs
             /\ dirs[Resource(world.exports[m].key, name)] = "export"
  <2> DEFINE r == Resource(world.exports[m].key, name)
  <2>1. CASE m = next
    BY <1>2, <2>1 DEF Puts
  <2>2. CASE m # next
    <3>1. m \in 1..(next - 1)
      BY <1>3, <2>2
    <3>2. r \in DOMAIN directions /\ directions[r] = "export"
      BY <1>1, <3>1 DEF DInv, SideInv, ExportedFirst
    <3> HIDE DEF r
    <3>3. r \in DOMAIN dirs /\ dirs[r] = "export"
      BY <1>2, <3>2 DEF Puts
    <3> QED BY <3>3 DEF r
  <2> QED BY <2>1, <2>2
<1>5. new \in Seq(ToSet(new)) /\ \A e \in ToSet(new) : e.f \in ToSet(item.funcs) /\ e.map = ResourceMap(e.f, dirs)
  <2>1. new \in Seq(ToSet(new)) /\ DOMAIN new = 1..Len(item.funcs)
    BY <1>3, SeqOfFunction DEF ExportsOf
  <2>2. \A n \in 1..Len(item.funcs) : new[n].f = item.funcs[n] /\ new[n].map = ResourceMap(item.funcs[n], dirs)
    BY DEF ExportsOf, Exported
  <2>3. \A n \in 1..Len(item.funcs) : item.funcs[n] \in ToSet(item.funcs)
    BY <1>3 DEF ToSet
  <2> QED BY <2>1, <2>2, <2>3 DEF ToSet
<1>6. ToSet(exports') = ToSet(exports) \cup ToSet(new)
  BY <1>1, <1>5, ConcatSet DEF DInv, SInv, IInv, ExportsInv
<1>7. DirectionsInv'
  BY ExportItemSides DEF DInv
<1>8. ASSUME ~Panics(new), NEW e \in ToSet(new), NEW r \in DOMAIN e.map
      PROVE  e.map[r] = SideOf(r)
  <2>1. r \in e.f.uses /\ r \in DOMAIN dirs /\ e.map[r] = dirs[r]
    <3>1. e.map[r] # "none"
      BY <1>8 DEF Panics
    <3>2. e.map = ResourceMap(e.f, dirs)
      BY <1>5
    <3> QED BY <3>1, <3>2 DEF ResourceMap
  <2>2. r = Resource(r.owner, r.res)
    BY <1>1, <1>7, <2>1 DEF DirectionsInv
  <2>3. CASE \E it \in ToSet(world.exports) : it.key = r.owner
    <3>1. PICK m \in 1..Len(world.exports) : world.exports[m].key = r.owner
      BY <1>3, <2>3 DEF ToSet
    <3>2. m <= next /\ r.res \in ToSet(world.exports[m].resources)
      BY <1>3, <1>5, <2>1, <3>1 DEF UsesInOrder, DInv, SInv, IInv, TypeInv
    <3>3. m \in 1..next
      BY <3>2, <1>3
    <3>4. dirs[r] = "export"
      BY <1>4, <2>2, <3>1, <3>2, <3>3
    <3> QED BY <2>1, <2>3, <3>4 DEF SideOf
  <2>4. CASE ~\E it \in ToSet(world.exports) : it.key = r.owner
    <3>1. r \notin ExportedIds
      <4> SUFFICES ASSUME r \in ExportedIds PROVE FALSE
        OBVIOUS
      <4>1. PICK it \in ToSet(world.exports) : r \in IdsOf(it)
        BY DEF ExportedIds
      <4>2. r.owner = it.key
        BY <4>1 DEF IdsOf, Resource
      <4> QED BY <4>2, <2>4
    <3>2. r \notin ExportedIds'
      BY <3>1, <1>1 DEF ExportedIds
    <3>3. dirs[r] = "import"
      BY <1>1, <1>7, <2>1, <3>2 DEF DirectionsInv
    <3> QED BY <2>1, <2>4, <3>3 DEF SideOf
  <2> QED BY <2>3, <2>4
<1>9. \A r : SideOf(r)' = SideOf(r)
  BY <1>1 DEF SideOf
<1>10. ExportedFirst'
  <2>1. next' - 1 = next
    BY <1>1, <1>3
  <2> QED BY <1>1, <1>4, <2>1 DEF ExportedFirst
<1>11. pc' # "failed" => \A e \in ToSet(exports') : \A r \in DOMAIN e.map : e.map[r] = SideOf(r)
  BY <1>1, <1>6, <1>8 DEF DInv, SideInv
<1>12. pc' \in {"exports", "failed"} /\ next' <= Len(world.exports) + 1
  BY <1>1, <1>3
<1> QED BY <1>1, <1>9, <1>10, <1>11, <1>12 DEF SideInv

(* Every step keeps it.                                                    *)
LEMMA DStep == ASSUME UsesInOrder PROVE DInv /\ [Next]_vars => DInv'
<1> SUFFICES ASSUME DInv, [Next]_vars PROVE SideInv'
  BY SStep DEF DInv
<1> USE DEF DInv
<1>1. CASE ExportItem
  BY <1>1, ExportItemMatches
<1>2. CASE ImportItem
  <2>1. pc = "imports" /\ pc' \in {"imports", "failed"} /\ exports' = exports
    BY <1>2 DEF ImportItem
  <2> QED BY <2>1 DEF SideInv
<1>3. CASE ImportsDone
  <2>1. pc' = "exports" /\ next' = 1 /\ exports' = <<>> /\ world' = world
    BY <1>3 DEF ImportsDone, SideInv
  <2>2. Len(world.exports) \in Nat
    <3>1. Keyed(world.exports)
      BY WorldAssumption DEF SInv, IInv, TypeInv
    <3> QED BY <3>1 DEF Keyed
  <2>3. ExportedFirst'
    BY <2>1 DEF ExportedFirst
  <2>4. ToSet(exports') = {}
    BY <2>1 DEF ToSet
  <2> QED BY <2>1, <2>2, <2>3, <2>4 DEF SideInv
<1>4. CASE SkipExport
  <2>1. /\ pc = "exports" /\ pc' = pc /\ next <= Len(world.exports) /\ next' = next + 1
        /\ world.exports[next].key \in EngineServes
        /\ UNCHANGED <<world, directions, exports>>
    BY <1>4 DEF SkipExport
  <2>2. /\ next \in 1..Len(world.exports) /\ Len(world.exports) \in Nat
        /\ DOMAIN world.exports = 1..Len(world.exports)
    <3>1. next \in Nat \ {0} /\ Keyed(world.exports)
      BY WorldAssumption DEF SInv, IInv, TypeInv
    <3>2. Len(world.exports) \in Nat /\ DOMAIN world.exports = 1..Len(world.exports)
      BY <3>1 DEF Keyed
    <3> QED BY <2>1, <3>1, <3>2
  <2>3. world.exports[next].resources = <<>>
    BY <2>1, <2>2 DEF UsesInOrder, SInv, IInv, TypeInv
  <2>4. ToSet(world.exports[next].resources) = {}
    BY <2>3 DEF ToSet
  <2>5. \A m \in 1..(next' - 1) : m = next \/ m \in 1..(next - 1)
    BY <2>1, <2>2
  <2>6. ExportedFirst'
    BY <2>1, <2>4, <2>5 DEF SideInv, ExportedFirst
  <2>7. \A r : SideOf(r)' = SideOf(r)
    BY <2>1 DEF SideOf
  <2> QED BY <2>1, <2>2, <2>6, <2>7 DEF SideInv
<1>5. CASE Next /\ ~ImportItem /\ ~ImportsDone /\ ~ExportItem /\ ~SkipExport
  <2>1. /\ UNCHANGED <<world, exports>>
        /\ \/ pc' \notin {"imports", "exports"} /\ pc \notin {"imports", "failed"}
           \/ UNCHANGED <<pc, next, directions>>
    BY <1>5 DEF Next, Generate, GenNext, PopulateAliases,
         SpliceImport, PlaceWrappers, SpliceExports, Install, Evaluate, EvaluationFails,
         BindExports, BindFails, InitFn, FnsDone, Stopped, vars, genVars, generated, linkVars
  <2>2. \A r : SideOf(r)' = SideOf(r)
    BY <2>1 DEF SideOf
  <2>3. UNCHANGED <<next, directions>> => ExportedFirst' = ExportedFirst
    BY <2>1 DEF ExportedFirst
  <2> QED BY <2>1, <2>2, <2>3 DEF SideInv
<1>6. CASE UNCHANGED vars
  <2>1. UNCHANGED <<pc, next, world, directions, exports>>
    BY <1>6 DEF vars, genVars, generated
  <2>2. \A r : SideOf(r)' = SideOf(r)
    BY <2>1 DEF SideOf
  <2>3. ExportedFirst' = ExportedFirst
    BY <2>1 DEF ExportedFirst
  <2> QED BY <2>1, <2>2, <2>3 DEF SideInv
<1> QED BY <1>1, <1>2, <1>3, <1>4, <1>5, <1>6

(* A ready component has the sides of its exports right.                   *)
LEMMA DirectionsMatched == DInv => DirectionsMatchSide
<1> SUFFICES ASSUME DInv, pc # "failed" PROVE DirectionsMatchSide
  BY DEF DirectionsMatchSide
<1>1. \A i \in ToSet(imports) : \A r \in DOMAIN i.map : i.map[r] = "import"
  BY DEF DInv, SInv, MapsInv
<1>2. pc = "imports" => ToSet(exports) = {}
  BY DEF DInv, SideInv, ToSet
<1>3. \A e \in ToSet(exports) : \A r \in DOMAIN e.map : e.map[r] = SideOf(r)
  BY <1>2 DEF DInv, SideInv
<1> QED BY <1>1, <1>3 DEF DirectionsMatchSide, SideOf

(* Every exported function converts handles for the side the resource is   *)
(* on for it, export if the world exports the interface that owns it, even *)
(* when the world also imports that interface (DirectionsMatchSide).       *)
THEOREM SidesMatch == ASSUME UsesInOrder PROVE Spec => []DirectionsMatchSide
<1>1. Init => DInv
  BY DInit
<1>2. DInv /\ [Next]_vars => DInv'
  BY DStep
<1>3. DInv => DirectionsMatchSide
  BY DirectionsMatched
<1> QED BY <1>1, <1>2, <1>3, PTL DEF Spec

-----------------------------------------------------------------------------
(* Lists without repetition.                                               *)

(* A list that is joined to one it has nothing in common with.             *)
LEMMA ConcatOnce ==
  ASSUME NEW S, NEW u \in Seq(S), NEW x \in Seq(S), IsInjective(u), IsInjective(x),
         \A y \in ToSet(u) : y \notin ToSet(x)
  PROVE  IsInjective(u \o x)
<1> DEFINE p == u \o x
<1>1. /\ p \in Seq(S) /\ Len(u) \in Nat /\ Len(x) \in Nat /\ Len(p) = Len(u) + Len(x)
      /\ \A k \in 1..Len(u) : p[k] = u[k]
      /\ \A j \in 1..Len(x) : p[Len(u) + j] = x[j]
  BY ConcatAt
<1>2. DOMAIN u = 1..Len(u) /\ DOMAIN x = 1..Len(x) /\ DOMAIN p = 1..Len(p)
  BY <1>1
<1> HIDE DEF p
<1>3. \A k \in DOMAIN p : \/ k \in 1..Len(u)
                          \/ k - Len(u) \in 1..Len(x) /\ k = Len(u) + (k - Len(u))
  BY <1>1, <1>2
<1>4. SUFFICES ASSUME NEW m \in DOMAIN p, NEW n \in DOMAIN p, p[m] = p[n] PROVE m = n
  BY DEF IsInjective, p
<1>5. CASE m \in 1..Len(u) /\ n \in 1..Len(u)
  BY <1>1, <1>2, <1>4, <1>5 DEF IsInjective
<1>6. CASE m \notin 1..Len(u) /\ n \notin 1..Len(u)
  <2>1. x[m - Len(u)] = x[n - Len(u)]
    BY <1>1, <1>3, <1>4, <1>6
  <2>2. m - Len(u) = n - Len(u)
    BY <1>2, <1>3, <1>6, <2>1 DEF IsInjective
  <2> QED BY <1>3, <1>6, <2>2
<1>7. ASSUME NEW k \in DOMAIN p, NEW l \in DOMAIN p, k \in 1..Len(u), l \notin 1..Len(u)
      PROVE  p[k] # p[l]
  <2>1. p[k] = u[k] /\ u[k] \in ToSet(u)
    BY <1>1, <1>2, <1>7 DEF ToSet
  <2>2. p[l] = x[l - Len(u)] /\ x[l - Len(u)] \in ToSet(x)
    BY <1>1, <1>2, <1>3, <1>7 DEF ToSet
  <2> QED BY <2>1, <2>2
<1> QED BY <1>4, <1>5, <1>6, <1>7

(* Flattened lists, if no two have anything in common.                     *)
LEMMA FlattenOnce ==
  ASSUME NEW S, NEW N \in Nat, NEW a \in [1..N -> Seq(S)],
         \A n \in 1..N : IsInjective(a[n]),
         \A m, n \in 1..N : \A x \in ToSet(a[m]) : x \in ToSet(a[n]) => m = n
  PROVE  IsInjective(FlattenSeq(a))
<1>1. a \in Seq(Seq(S)) /\ Len(a) = N
  OBVIOUS
<1>2. CASE N = 0
  <2>1. a = <<>>
    BY <1>1, <1>2, EmptySeq
  <2>2. FlattenSeq(a) = <<>>
    BY <2>1 DEF FlattenSeq
  <2> QED BY <2>2 DEF IsInjective
<1>3. CASE N # 0
  <2>1. PICK f : /\ f = [i \in 1..N |-> IF i = 1 THEN a[i] ELSE f[i - 1] \o a[i]]
                 /\ FlattenSeq(a) = f[N]
    BY <1>1, <1>3, FlattenFunction
  <2> DEFINE Once(n) == /\ f[n] \in Seq(S) /\ IsInjective(f[n])
                        /\ \A x : x \in ToSet(f[n]) <=> \E i \in 1..n : x \in ToSet(a[i])
             P == {n \in Nat : n \in 1..N => Once(n)}
  <2>2. 0 \in P
    OBVIOUS
  <2>3. \A n \in Nat : n \in P => n + 1 \in P
    <3> HIDE DEF Once
    <3> SUFFICES ASSUME NEW n \in Nat, n \in 1..N => Once(n), n + 1 \in 1..N
                 PROVE Once(n + 1)
      OBVIOUS
    <3> USE DEF Once
    <3>1. CASE n = 0
      <4>1. f[1] = a[1] /\ 1 \in 1..N
        BY <3>1, <2>1
      <4>2. \A i \in 1..1 : i = 1
        OBVIOUS
      <4> QED BY <3>1, <4>1, <4>2
    <3>2. CASE n # 0
      <4>1. n \in 1..N
        BY <3>2
      <4>2. f[n + 1] = f[n] \o a[n + 1]
        <5>1. n + 1 # 1 /\ (n + 1) - 1 = n
          BY <3>2
        <5> QED BY <2>1, <5>1
      <4>3. /\ f[n] \in Seq(S) /\ IsInjective(f[n])
            /\ \A x : x \in ToSet(f[n]) <=> \E i \in 1..n : x \in ToSet(a[i])
        BY <4>1
      <4>4. a[n + 1] \in Seq(S) /\ IsInjective(a[n + 1])
        OBVIOUS
      <4>5. \A x \in ToSet(f[n]) : x \notin ToSet(a[n + 1])
        <5> SUFFICES ASSUME NEW x \in ToSet(f[n]), x \in ToSet(a[n + 1]) PROVE FALSE
          OBVIOUS
        <5>1. PICK i \in 1..n : x \in ToSet(a[i])
          BY <4>3
        <5>2. i \in 1..N /\ i # n + 1
          BY <4>1
        <5> QED BY <5>1, <5>2
      <4>6. f[n] \o a[n + 1] \in Seq(S) /\ IsInjective(f[n] \o a[n + 1])
        BY <4>3, <4>4, <4>5, ConcatOnce, ConcatAt
      <4>7. ToSet(f[n] \o a[n + 1]) = ToSet(f[n]) \cup ToSet(a[n + 1])
        <5>1. f[n] \in Seq(ToSet(f[n])) /\ a[n + 1] \in Seq(ToSet(a[n + 1]))
          BY <4>3, <4>4, OwnElements
        <5> QED BY <5>1, ConcatSet
      <4>8. \A i \in 1..(n + 1) : i \in 1..n \/ i = n + 1
        OBVIOUS
      <4>9. \A i \in 1..n : i \in 1..(n + 1)
        OBVIOUS
      <4>10. n + 1 \in 1..(n + 1)
        OBVIOUS
      <4> QED BY <4>2, <4>3, <4>6, <4>7, <4>8, <4>9, <4>10
    <3> QED BY <3>1, <3>2
  <2>4. \A n \in Nat : n \in P
    <3> HIDE DEF P
    <3> QED BY <2>2, <2>3, Induction
  <2>5. N \in 1..N
    BY <1>3
  <2>6. Once(N)
    BY <2>4, <2>5
  <2> QED BY <2>1, <2>6
<1> QED BY <1>2, <1>3

(* What is selected from a list without repetition.                        *)
LEMMA ChosenOnce ==
  ASSUME NEW T, NEW s \in Seq(T), IsInjective(s), NEW N \in Nat, N = Len(s),
         NEW a \in [1..N -> Seq(T)], \A n \in 1..N : a[n] = <<s[n]>> \/ a[n] = <<>>
  PROVE  IsInjective(FlattenSeq(a))
<1>1. \A n \in 1..N : IsInjective(a[n]) /\ \A x \in ToSet(a[n]) : x = s[n]
  BY DEF IsInjective, ToSet
<1>2. DOMAIN s = 1..N
  OBVIOUS
<1>3. \A m, n \in 1..N : \A x \in ToSet(a[m]) : x \in ToSet(a[n]) => m = n
  BY <1>1, <1>2 DEF IsInjective
<1> QED BY <1>1, <1>3, FlattenOnce

(* Of functions with names of their own, the free ones and those of a      *)
(* resource are listed once.                                               *)
LEMMA SelectedOnce ==
  ASSUME NEW T, NEW funcs \in Seq(T), IsInjective(funcs)
  PROVE  /\ IsInjective(FreeFuncs(funcs))
         /\ \A res : IsInjective(FuncsOf(funcs, res))
<1> DEFINE N == Len(funcs)
<1>0. N \in Nat /\ N = Len(funcs) /\ \A n \in 1..N : funcs[n] \in T
  BY ElementOfSeq
<1>1. IsInjective(FreeFuncs(funcs))
  <2> DEFINE a == [n \in 1..N |-> IF funcs[n].kind = "free" THEN <<funcs[n]>> ELSE <<>>]
  <2>1. FreeFuncs(funcs) = FlattenSeq(a)
    BY DEF FreeFuncs, Flatten
  <2> HIDE DEF N
  <2>2. a \in [1..N -> Seq(T)]
    BY <1>0, ShortSeqs
  <2>3. \A n \in 1..N : a[n] = <<funcs[n]>> \/ a[n] = <<>>
    OBVIOUS
  <2> HIDE DEF a
  <2> QED BY <1>0, <2>1, <2>2, <2>3, ChosenOnce
<1>2. ASSUME NEW res PROVE IsInjective(FuncsOf(funcs, res))
  <2> DEFINE a == [n \in 1..N |-> IF funcs[n].kind # "free" /\ funcs[n].res = res
                                  THEN <<funcs[n]>> ELSE <<>>]
  <2>1. FuncsOf(funcs, res) = FlattenSeq(a)
    BY DEF FuncsOf, Flatten
  <2> HIDE DEF N
  <2>2. a \in [1..N -> Seq(T)]
    BY <1>0, ShortSeqs
  <2>3. \A n \in 1..N : a[n] = <<funcs[n]>> \/ a[n] = <<>>
    OBVIOUS
  <2> HIDE DEF a
  <2> QED BY <1>0, <2>1, <2>2, <2>3, ChosenOnce
<1> QED BY <1>1, <1>2

(* So are all of them when they are sorted by resource.                    *)
LEMMA ByResourceOnce ==
  ASSUME NEW item, WellFormed(item), DistinctNames(item), item.is = "iface"
  PROVE  IsInjective(ByResource(item))
<1> DEFINE T == ToSet(item.funcs)
           N == Len(item.resources)
           a == [n \in 1..N |-> FuncsOf(item.funcs, item.resources[n])]
           u == FreeFuncs(item.funcs)
           v == FlattenSeq(a)
<1>1. item.funcs \in Seq(T) /\ IsInjective(item.funcs)
  BY DEF WellFormed, DistinctNames, SameName, IsInjective
<1>2. N \in Nat /\ DOMAIN item.resources = 1..N
  BY DEF WellFormed
<1>3. ByResource(item) = u \o v
  BY DEF ByResource, Flatten
<1> HIDE DEF N, T
<1>4. u \in Seq(T) /\ ToSet(u) = {f \in T : f.kind = "free"} /\ IsInjective(u)
  BY <1>1, FreeFuncsAre, SelectedOnce DEF T
<1>5. a \in [1..N -> Seq(T)]
  BY <1>1, FuncsOfAre
<1>6. \A n \in 1..N : /\ ToSet(a[n]) = {f \in T : f.kind # "free" /\ f.res = item.resources[n]}
                      /\ IsInjective(a[n])
  BY <1>1, FuncsOfAre, SelectedOnce DEF T
<1> HIDE DEF a, u
<1>7. v \in Seq(T) /\ ToSet(v) = UNION {ToSet(a[n]) : n \in 1..N}
  BY <1>2, <1>5, FlattenElements
<1>8. \A m, n \in 1..N : \A x \in ToSet(a[m]) : x \in ToSet(a[n]) => m = n
  <2>1. \A m, n \in 1..N : item.resources[m] = item.resources[n] => m = n
    BY <1>2 DEF DistinctNames, IsInjective
  <2> QED BY <1>6, <2>1
<1>9. IsInjective(v)
  BY <1>2, <1>5, <1>6, <1>8, FlattenOnce
<1> HIDE DEF v
<1>10. \A x \in ToSet(u) : x \notin ToSet(v)
  BY <1>4, <1>6, <1>7
<1> QED BY <1>3, <1>4, <1>7, <1>9, <1>10, ConcatOnce

(* What NamesAssumption says of the world.                                 *)
LEMMA NamesOfWorld ==
  ASSUME TypeInv
  PROVE  /\ \A item \in ToSet(world.imports) \cup ToSet(world.exports) : DistinctNames(item)
         /\ \A m, n \in DOMAIN world.imports :
              world.imports[m].is = "func" /\ world.imports[n].is = "func"
                /\ SameName(world.imports[m].funcs[1], world.imports[n].funcs[1]) => m = n
         /\ \A item \in ToSet(world.exports) : item.is = "func" => item.funcs[1].kind = "free"
BY NamesAssumption DEF TypeInv

(* The functions that come with a resource of the world.                   *)
LEMMA RootFuncsOnce ==
  ASSUME TypeInv, NEW res
  PROVE  IsInjective(RootFuncs(res))
<1> DEFINE N == Len(world.imports)
           chosen(i) == i.is = "func" /\ TakenBy(res, i.funcs[1])
           a == [n \in 1..N |-> IF chosen(world.imports[n]) THEN world.imports[n].funcs ELSE <<>>]
           T == UNION {ToSet(world.imports[n].funcs) : n \in 1..N}
<1>1. N \in Nat /\ DOMAIN world.imports = 1..N
  BY ImportOfWorld
<1>2. RootFuncs(res) = FlattenSeq(a)
  BY DEF RootFuncs, Flatten
<1>3. ASSUME NEW n \in 1..N PROVE a[n] \in Seq(T)
  <2>1. world.imports[n].funcs \in Seq(ToSet(world.imports[n].funcs))
    BY ImportOfWorld DEF WellFormed
  <2>2. ToSet(world.imports[n].funcs) \subseteq T
    OBVIOUS
  <2>3. world.imports[n].funcs \in Seq(T)
    <3> HIDE DEF T
    <3> QED BY <2>1, <2>2, SeqMonotonic
  <2> HIDE DEF T
  <2> QED BY <2>3
<1>4. ASSUME NEW n \in 1..N
      PROVE  /\ IsInjective(a[n])
             /\ \A x \in ToSet(a[n]) : chosen(world.imports[n]) /\ x = world.imports[n].funcs[1]
  <2> DEFINE fs == world.imports[n].funcs
  <2>1. CASE chosen(world.imports[n])
    <3>1. fs \in Seq(ToSet(fs)) /\ Len(fs) = 1
      BY <2>1, ImportOfWorld DEF WellFormed
    <3>2. DOMAIN fs = 1..1 /\ a[n] = fs
      BY <2>1, <3>1
    <3> HIDE DEF fs, a
    <3>3. \A k \in 1..1 : k = 1
      OBVIOUS
    <3> QED BY <2>1, <3>2, <3>3 DEF ToSet, IsInjective, fs
  <2>2. CASE ~chosen(world.imports[n])
    <3>1. a[n] = <<>>
      BY <2>2
    <3> QED BY <3>1 DEF ToSet, IsInjective
  <2> QED BY <2>1, <2>2
<1>5. \A m, n \in 1..N : \A x \in ToSet(a[m]) : x \in ToSet(a[n]) => m = n
  <2> SUFFICES ASSUME NEW m \in 1..N, NEW n \in 1..N, NEW x \in ToSet(a[m]), x \in ToSet(a[n])
               PROVE  m = n
    OBVIOUS
  <2>1. /\ chosen(world.imports[m]) /\ x = world.imports[m].funcs[1]
        /\ chosen(world.imports[n]) /\ x = world.imports[n].funcs[1]
    <3> HIDE DEF a, chosen
    <3> QED BY <1>4
  <2> QED BY <1>1, <2>1, NamesOfWorld DEF SameName
<1> HIDE DEF a, T
<1>6. a \in [1..N -> Seq(T)]
  <2>1. a = [n \in 1..N |-> a[n]]
    BY DEF a
  <2> QED BY <1>3, <2>1
<1>7. \A n \in 1..N : IsInjective(a[n])
  BY <1>4
<1> HIDE DEF N
<1>8. IsInjective(FlattenSeq(a))
  BY <1>1, <1>5, <1>6, <1>7, FlattenOnce
<1> QED BY <1>2, <1>8

-----------------------------------------------------------------------------
(* What names have in common.                                              *)

(* An identifier s that begins with the parts of lead and goes on with the *)
(* parts of rest.                                                          *)
Joined(s, lead, rest) ==
  /\ Len(lead) \in Nat /\ Len(rest) \in Nat /\ Len(s) = Len(lead) + Len(rest)
  /\ \A k \in 1..Len(lead) : s[k] = lead[k]
  /\ \A k \in 1..Len(rest) : s[Len(lead) + k] = rest[k]

(* A concatenation of two sequences, whatever their elements.              *)
LEMMA JoinedParts ==
  ASSUME NEW L, NEW R, NEW lead \in Seq(L), NEW rest \in Seq(R)
  PROVE  Joined(lead \o rest, lead, rest) /\ lead \o rest \in Seq(L \cup R)
<1>1. lead \in Seq(L \cup R) /\ rest \in Seq(L \cup R)
  BY SeqMonotonic
<1> QED BY <1>1, ConcatAt DEF Joined

(* The prefix of an interface.                                             *)
LEMMA PrefixIs ==
  ASSUME NEW iface
  PROVE  /\ Prefix(iface) \in Seq({iface, Dollar})
         /\ iface = NoName => Len(Prefix(iface)) = 0
         /\ iface # NoName => Len(Prefix(iface)) = 2 /\ Prefix(iface)[1] = iface
<1>1. CASE iface = NoName
  <2>1. Prefix(iface) = <<>>
    BY <1>1 DEF Prefix
  <2>2. <<>> \in Seq({iface, Dollar}) /\ Len(<<>>) = 0
    OBVIOUS
  <2> QED BY <1>1, <2>1, <2>2
<1>2. CASE iface # NoName
  <2>1. Prefix(iface) = <<iface, Dollar>>
    BY <1>2 DEF Prefix
  <2>2. /\ <<iface, Dollar>> \in Seq({iface, Dollar}) /\ Len(<<iface, Dollar>>) = 2
        /\ <<iface, Dollar>>[1] = iface
    OBVIOUS
  <2> QED BY <1>2, <2>1, <2>2
<1> QED BY <1>1, <1>2

(* The three kinds of intrinsics have different names, as have the sides.  *)
LEMMA KindsDiffer ==
  /\ <<"new">> # <<"rep">> /\ <<"new">> # <<"drop">> /\ <<"rep">> # <<"drop">>
  /\ <<"export">> # <<"import">> /\ <<"method">> # <<"static">>
  /\ <<"$root">> \notin {<<"new">>, <<"rep">>, <<"export">>, <<"import">>}
<1>1. /\ <<"new">>[1] = "new" /\ <<"rep">>[1] = "rep" /\ <<"drop">>[1] = "drop"
      /\ <<"export">>[1] = "export" /\ <<"import">>[1] = "import"
      /\ <<"method">>[1] = "method" /\ <<"static">>[1] = "static" /\ <<"$root">>[1] = "$root"
  OBVIOUS
<1> QED BY <1>1

(* The symbol of an intrinsic ends in its kind and the name of the         *)
(* resource.                                                               *)
Intrinsic(s, kind, res) ==
  Len(s) \in Nat /\ Len(s) >= 3 /\ s[Len(s) - 2] = kind /\ s[Len(s)] = res

End(kind, res) == <<kind, Dollar, res>>
Appended(s, lead, kind, res) == s = lead \o End(kind, res)
EndsSo(s, lead, kind, res) ==
  /\ Intrinsic(s, kind, res) /\ Len(s) = Len(lead) + 3 /\ Len(lead) \in Nat
  /\ \A k \in 1..Len(lead) : s[k] = lead[k]
  /\ s[Len(lead) + 1] = kind

(* What is appended to a lead.                                             *)
LEMMA IntrinsicEnds ==
  ASSUME NEW L, NEW lead \in Seq(L), NEW kind, NEW res, NEW s, Appended(s, lead, kind, res)
  PROVE  EndsSo(s, lead, kind, res)
<1> DEFINE rest == End(kind, res)
<1>1. /\ rest \in Seq({kind, Dollar, res}) /\ Len(rest) = 3
      /\ rest[1] = kind /\ rest[3] = res
  BY Triple DEF End
<1> HIDE DEF rest
<1>2. Joined(s, lead, rest)
  BY <1>1, JoinedParts DEF rest, Appended
<1> QED BY <1>1, <1>2 DEF Joined, Intrinsic, EndsSo

(* new and rep begin with the interface, or the kind.                      *)
LEMMA NewAndRep ==
  ASSUME NEW iface, NEW res
  PROVE  /\ Intrinsic(NewBinding(iface, res), <<"new">>, res)
         /\ NewBinding(iface, res)[1] \in {iface, <<"new">>}
         /\ iface = NoName => NewBinding(iface, res)[1] = <<"new">>
         /\ Intrinsic(RepBinding(iface, res), <<"rep">>, res)
         /\ RepBinding(iface, res)[1] \in {iface, <<"rep">>}
         /\ iface = NoName => RepBinding(iface, res)[1] = <<"rep">>
<1> DEFINE lead == Prefix(iface)
<1>1. /\ lead \in Seq({iface, Dollar})
      /\ iface = NoName => Len(lead) = 0
      /\ iface # NoName => Len(lead) = 2 /\ lead[1] = iface
  BY PrefixIs
<1> HIDE DEF lead
<1>2. ASSUME NEW kind, NEW s, s = lead \o End(kind, res)
      PROVE  /\ Intrinsic(s, kind, res) /\ s[1] \in {iface, kind}
             /\ iface = NoName => s[1] = kind
  <2>0. lead \in Seq({iface, Dollar}) /\ Appended(s, lead, kind, res)
    BY <1>1, <1>2 DEF Appended
  <2>1. /\ Intrinsic(s, kind, res) /\ Len(lead) \in Nat
        /\ \A k \in 1..Len(lead) : s[k] = lead[k]
        /\ s[Len(lead) + 1] = kind
    BY <2>0, IntrinsicEnds DEF EndsSo
  <2>2. iface = NoName => Len(lead) + 1 = 1
    BY <1>1
  <2>3. iface # NoName => 1 \in 1..Len(lead)
    BY <1>1
  <2> QED BY <1>1, <2>1, <2>2, <2>3
<1>3. /\ NewBinding(iface, res) = lead \o End(<<"new">>, res)
      /\ RepBinding(iface, res) = lead \o End(<<"rep">>, res)
  BY DEF NewBinding, RepBinding, lead, End
<1> QED BY <1>2, <1>3

(* drop begins with the side, then comes the interface.                    *)
LEMMA DropIs ==
  ASSUME NEW side, NEW iface, NEW res, NEW s, s = DropBinding(side, iface, res)
  PROVE  /\ Intrinsic(s, <<"drop">>, res) /\ s[1] = <<side>>
         /\ iface = NoName => Len(s) = 5
         /\ iface # NoName => Len(s) = 7 /\ s[3] = iface
<1> DEFINE p == Prefix(iface)
           q == <<<<side>>, Dollar>>
           lead == q \o p
<1>1. /\ p \in Seq({iface, Dollar})
      /\ iface = NoName => Len(p) = 0
      /\ iface # NoName => Len(p) = 2 /\ p[1] = iface
  BY PrefixIs
<1>2. q \in Seq({<<side>>, Dollar}) /\ Len(q) = 2 /\ q[1] = <<side>>
  OBVIOUS
<1> HIDE DEF p, q
<1>3. Joined(lead, q, p) /\ lead \in Seq({<<side>>, Dollar} \cup {iface, Dollar})
  BY <1>1, <1>2, JoinedParts
<1>4. s = lead \o End(<<"drop">>, res)
  BY DEF DropBinding, p, q, End
<1> HIDE DEF lead
<1> DEFINE L == {<<side>>, Dollar} \cup {iface, Dollar}
           kind == <<"drop">>
<1>5. lead \in Seq(L) /\ Appended(s, lead, kind, res)
  BY <1>3, <1>4 DEF Appended
<1> HIDE DEF L, kind
<1>6. /\ Intrinsic(s, kind, res) /\ Len(s) = Len(lead) + 3 /\ Len(lead) \in Nat
      /\ \A k \in 1..Len(lead) : s[k] = lead[k]
  BY <1>5, IntrinsicEnds DEF EndsSo
<1>7. Len(p) \in Nat /\ Len(lead) = 2 + Len(p) /\ lead[1] = <<side>> /\ (iface # NoName => lead[3] = iface)
  <2>1. iface # NoName => 1 \in 1..Len(p) /\ lead[2 + 1] = p[1]
    BY <1>1, <1>2, <1>3 DEF Joined
  <2> QED BY <1>1, <1>2, <1>3, <2>1 DEF Joined
<1>8. s[1] = <<side>> /\ (iface # NoName => s[3] = iface)
  <2>1. 1 \in 1..Len(lead) /\ (iface # NoName => 3 \in 1..Len(lead))
    BY <1>1, <1>7
  <2> QED BY <1>6, <1>7, <2>1
<1>9. (iface = NoName => Len(s) = 5) /\ (iface # NoName => Len(s) = 7)
  <2>1. Len(s) = 5 + Len(p)
    BY <1>1, <1>6, <1>7
  <2>2. CASE iface = NoName
    <3>1. Len(p) = 0
      BY <1>1, <2>2
    <3> QED BY <2>1, <2>2, <3>1
  <2>3. CASE iface # NoName
    <3>1. Len(p) = 2
      BY <1>1, <2>3
    <3>2. Len(s) = 7
      BY <2>1, <3>1
    <3> QED BY <2>3, <3>2
  <2> QED BY <2>2, <2>3
<1> QED BY <1>6, <1>8, <1>9 DEF kind

(* So the drops of two resources differ in the interface or the resource.  *)
LEMMA DropsDiffer ==
  ASSUME NEW side, NEW a, NEW b, NEW r, NEW q, DropBinding(side, a, r) = DropBinding(side, b, q)
  PROVE  a = b /\ r = q
<1> DEFINE s == DropBinding(side, a, r)
           t == DropBinding(side, b, q)
<1>1. /\ Intrinsic(s, <<"drop">>, r)
      /\ a = NoName => Len(s) = 5
      /\ a # NoName => Len(s) = 7 /\ s[3] = a
  BY DropIs
<1>2. /\ Intrinsic(t, <<"drop">>, q)
      /\ b = NoName => Len(t) = 5
      /\ b # NoName => Len(t) = 7 /\ t[3] = b
  BY DropIs
<1>3. s = t
  OBVIOUS
<1> HIDE DEF s, t
<1>4. s[Len(s)] = r /\ s[Len(s)] = q
  BY <1>1, <1>2, <1>3 DEF Intrinsic
<1>5. CASE a = NoName
  <2>1. Len(s) = 5
    BY <1>1, <1>5
  <2>2. b # NoName => Len(s) = 7
    BY <1>2, <1>3
  <2>3. b = NoName
    BY <2>1, <2>2
  <2> QED BY <1>4, <1>5, <2>3
<1>6. CASE a # NoName
  <2>1. Len(s) = 7 /\ s[3] = a
    BY <1>1, <1>6
  <2>2. b = NoName => Len(s) = 5
    BY <1>2, <1>3
  <2>3. b # NoName
    BY <2>1, <2>2
  <2>4. s[3] = b
    BY <1>2, <1>3, <2>3
  <2> QED BY <1>4, <2>1, <2>4
<1> QED BY <1>5, <1>6

(* The parts of the name of a function: the last is its own name.          *)
LEMMA FuncNameIs ==
  ASSUME NEW f, f.kind \in Kind, NEW s, s = FuncName(f)
  PROVE  /\ \E T : s \in Seq(T)
         /\ Len(s) \in Nat /\ Len(s) > 0 /\ s[Len(s)] = f.name
         /\ f.kind = "free" => Len(s) = 1
         /\ f.kind # "free" => s[1] = f.res
         /\ f.kind = "constructor" => Len(s) = 3
         /\ f.kind = "method" => Len(s) = 5 /\ s[3] = <<"method">>
         /\ f.kind = "static" => Len(s) = 5 /\ s[3] = <<"static">>
<1> DEFINE T == {f.res, Dollar, <<"method">>, <<"static">>, f.name}
<1>1. CASE f.kind = "free"
  <2>1. s = <<f.name>>
    BY <1>1 DEF FuncName
  <2>2. s \in Seq(T) /\ Len(s) = 1 /\ s[1] = f.name
    BY <2>1
  <2> QED BY <1>1, <2>2
<1>2. CASE f.kind = "constructor"
  <2>1. s = <<f.res, Dollar, f.name>>
    BY <1>2 DEF FuncName
  <2>2. s \in Seq(T) /\ Len(s) = 3 /\ s[1] = f.res /\ s[3] = f.name
    BY <2>1
  <2> QED BY <1>2, <2>2
<1>3. CASE f.kind = "method"
  <2>1. s = <<f.res, Dollar, <<"method">>, Dollar, f.name>>
    BY <1>3 DEF FuncName
  <2>2. s \in Seq(T) /\ Len(s) = 5 /\ s[1] = f.res /\ s[5] = f.name /\ s[3] = <<"method">>
    BY <2>1
  <2> QED BY <1>3, <2>2
<1>4. CASE f.kind = "static"
  <2>1. s = <<f.res, Dollar, <<"static">>, Dollar, f.name>>
    BY <1>4 DEF FuncName
  <2>2. s \in Seq(T) /\ Len(s) = 5 /\ s[1] = f.res /\ s[5] = f.name /\ s[3] = <<"static">>
    BY <2>1
  <2> QED BY <1>4, <2>2
<1> QED BY <1>1, <1>2, <1>3, <1>4 DEF Kind

(* The symbol of an import.                                                *)
Qualified(s, key, func) == s = <<Sanitised(key), Dollar>> \o func

(* Functions of different names have different symbols, and so do those of *)
(* specifiers that are spelled differently.                                *)
LEMMA ImportNamesDiffer ==
  ASSUME NEW f, NEW g, f.kind \in Kind, g.kind \in Kind, NEW a, NEW b, NEW x, NEW y,
         f.kind = "free" => f.res = NoName, g.kind = "free" => g.res = NoName,
         ImportBindingName(FuncName(f), x, a) = ImportBindingName(FuncName(g), y, b)
  PROVE  Sanitised(a) = Sanitised(b) /\ SameName(f, g)
<1> DEFINE s == ImportBindingName(FuncName(f), x, a)
           t == ImportBindingName(FuncName(g), y, b)
           u == FuncName(f)
           v == FuncName(g)
<1>1. /\ \E T : u \in Seq(T)
      /\ Len(u) \in Nat /\ Len(u) > 0 /\ u[Len(u)] = f.name
      /\ f.kind = "free" => Len(u) = 1
      /\ f.kind # "free" => u[1] = f.res
      /\ f.kind = "constructor" => Len(u) = 3
      /\ f.kind = "method" => Len(u) = 5 /\ u[3] = <<"method">>
      /\ f.kind = "static" => Len(u) = 5 /\ u[3] = <<"static">>
  BY FuncNameIs
<1>2. /\ \E T : v \in Seq(T)
      /\ Len(v) \in Nat /\ Len(v) > 0 /\ v[Len(v)] = g.name
      /\ g.kind = "free" => Len(v) = 1
      /\ g.kind # "free" => v[1] = g.res
      /\ g.kind = "constructor" => Len(v) = 3
      /\ g.kind = "method" => Len(v) = 5 /\ v[3] = <<"method">>
      /\ g.kind = "static" => Len(v) = 5 /\ v[3] = <<"static">>
  BY FuncNameIs
<1>3. s = <<Sanitised(a), Dollar>> \o u /\ t = <<Sanitised(b), Dollar>> \o v
  BY DEF ImportBindingName
<1>4. s = t
  OBVIOUS
<1> HIDE DEF s, t, u, v
<1>5. ASSUME NEW key, NEW w, NEW T, w \in Seq(T), NEW z, Qualified(z, key, w)
      PROVE  /\ Len(w) \in Nat /\ Len(z) = 2 + Len(w) /\ z[1] = Sanitised(key)
             /\ \A k \in 1..Len(w) : z[2 + k] = w[k]
  <2> DEFINE lead == <<Sanitised(key), Dollar>>
  <2>1. lead \in Seq({Sanitised(key), Dollar}) /\ Len(lead) = 2 /\ lead[1] = Sanitised(key)
    OBVIOUS
  <2> HIDE DEF lead
  <2>2. Joined(z, lead, w)
    BY <1>5, <2>1, JoinedParts DEF lead, Qualified
  <2> QED BY <2>1, <2>2 DEF Joined
<1>6. Len(s) = 2 + Len(u) /\ s[1] = Sanitised(a) /\ \A k \in 1..Len(u) : s[2 + k] = u[k]
  <2>1. PICK T : u \in Seq(T)
    BY <1>1
  <2>2. Qualified(s, a, u)
    BY <1>3 DEF Qualified
  <2> QED BY <2>1, <2>2, <1>5
<1>7. Len(t) = 2 + Len(v) /\ t[1] = Sanitised(b) /\ \A k \in 1..Len(v) : t[2 + k] = v[k]
  <2>1. PICK T : v \in Seq(T)
    BY <1>2
  <2>2. Qualified(t, b, v)
    BY <1>3 DEF Qualified
  <2> QED BY <2>1, <2>2, <1>5
<1>8. /\ Len(s) = 2 + Len(u) /\ s[1] = Sanitised(a) /\ \A k \in 1..Len(u) : s[2 + k] = u[k]
      /\ Len(t) = 2 + Len(v) /\ t[1] = Sanitised(b) /\ \A k \in 1..Len(v) : t[2 + k] = v[k]
  BY <1>6, <1>7
<1>9. Sanitised(a) = Sanitised(b) /\ Len(u) = Len(v) /\ \A k \in 1..Len(u) : u[k] = v[k]
  BY <1>1, <1>2, <1>4, <1>8
<1>10. f.name = g.name
  BY <1>1, <1>2, <1>9
<1>11. f.kind = g.kind
  <2>1. Len(u) = 5 => u[3] = v[3]
    BY <1>9
  <2> QED BY <1>1, <1>2, <1>9, <2>1, KindsDiffer DEF Kind
<1>12. f.res = g.res
  <2>1. u[1] = v[1]
    BY <1>1, <1>9
  <2> QED BY <1>1, <1>2, <1>11, <2>1
<1> QED BY <1>9, <1>10, <1>11, <1>12 DEF SameName

-----------------------------------------------------------------------------
(* The name of a class ends in the camel case of its resource.             *)
LEMMA ClassNameIs ==
  ASSUME NEW res, NEW iface, NEW s, s = ClassName(res, iface)
  PROVE  /\ s[Len(s)] = UpperCamel(res)
         /\ iface = NoName => Len(s) = 1
         /\ iface # NoName => Len(s) = 3 /\ s[1] = iface
<1> DEFINE c == UpperCamel(res)
           p == Prefix(iface)
           q == <<c>>
<1>1. s = p \o q
  BY DEF ClassName, BindingName
<1> HIDE DEF c
<1>2. q \in Seq({c}) /\ Len(q) = 1 /\ q[1] = c
  OBVIOUS
<1>3. /\ p \in Seq({iface, Dollar})
      /\ iface = NoName => Len(p) = 0
      /\ iface # NoName => Len(p) = 2 /\ p[1] = iface
  BY PrefixIs
<1> HIDE DEF p, q
<1>4. Joined(s, p, q)
  <2>1. Joined(p \o q, p, q)
    BY <1>2, <1>3, JoinedParts
  <2> QED BY <1>1, <2>1
<1>5. /\ Len(p) \in Nat /\ Len(s) = Len(p) + 1 /\ s[Len(p) + 1] = c
      /\ \A k \in 1..Len(p) : s[k] = p[k]
  BY <1>2, <1>4 DEF Joined
<1>6. CASE iface = NoName
  <2>1. Len(p) = 0
    BY <1>3, <1>6
  <2>2. Len(s) = 1
    BY <1>5, <2>1
  <2> QED BY <1>5, <1>6, <2>1, <2>2 DEF c
<1>7. CASE iface # NoName
  <2>1. Len(p) = 2 /\ p[1] = iface
    BY <1>3, <1>7
  <2>2. Len(s) = 3 /\ 1 \in 1..Len(p)
    BY <1>5, <2>1
  <2>3. s[1] = iface
    BY <1>5, <2>1, <2>2
  <2> QED BY <1>5, <1>7, <2>1, <2>2, <2>3 DEF c
<1> QED BY <1>6, <1>7

(* Classes differ in the interface or the resource.                        *)
LEMMA ClassNamesDiffer ==
  ASSUME NEW r, NEW q, Kebab(r), Kebab(q), NEW a, NEW b, ClassName(r, a) = ClassName(q, b)
  PROVE  a = b /\ r = q
<1> DEFINE s == ClassName(r, a)
           t == ClassName(q, b)
<1>1. /\ s[Len(s)] = UpperCamel(r)
      /\ a = NoName => Len(s) = 1
      /\ a # NoName => Len(s) = 3 /\ s[1] = a
  BY ClassNameIs
<1>2. /\ t[Len(t)] = UpperCamel(q)
      /\ b = NoName => Len(t) = 1
      /\ b # NoName => Len(t) = 3 /\ t[1] = b
  BY ClassNameIs
<1>3. s = t
  OBVIOUS
<1> HIDE DEF s, t
<1>4. r = q
  <2>1. UpperCamel(r) = UpperCamel(q)
    BY <1>1, <1>2, <1>3
  <2> QED BY <2>1, CamelIsNoKebab
<1>5. CASE a = NoName
  <2>1. Len(s) = 1
    BY <1>1, <1>5
  <2>2. b # NoName => Len(s) = 3
    BY <1>2, <1>3
  <2>3. b = NoName
    BY <2>1, <2>2
  <2> QED BY <1>4, <1>5, <2>3
<1>6. CASE a # NoName
  <2>1. Len(s) = 3 /\ s[1] = a
    BY <1>1, <1>6
  <2>2. b = NoName => Len(s) = 1
    BY <1>2, <1>3
  <2>3. b # NoName
    BY <2>1, <2>2
  <2>4. s[1] = b
    BY <1>2, <1>3, <2>3
  <2> QED BY <1>4, <2>1, <2>4
<1> QED BY <1>5, <1>6

(* The world's own interface has no name, and a specifier of its own.      *)
LEMMA RootNames ==
  /\ \A name : InterfaceName(Plain(name)) = NoName
  /\ InterfaceName(Root) = NoName
  /\ Sanitised(Root) = <<"$root">>
<1>1. \A name : /\ Plain(name).ns = <<>> /\ Plain(name).pkg = <<>>
                /\ Plain(name).name = name /\ Plain(name).version = <<>>
  BY DEF Plain, Id
<1>2. \A name : ~IsId(Plain(name))
  BY <1>1 DEF IsId
<1>3. \A name : InterfaceName(Plain(name)) = NoName
  BY <1>2 DEF InterfaceName
<1>4. <<>> \o <<>> \o <<"$root">> \o <<>> = <<"$root">>
  <2> DEFINE e == <<>>
             r == <<"$root">>
  <2>1. e \in Seq({"$root"}) /\ Len(e) = 0 /\ r \in Seq({"$root"})
    OBVIOUS
  <2> HIDE DEF e, r
  <2>2. e \o e = e /\ e \o r = r /\ r \o e = r
    <3>1. \A x, y : x \in Seq({"$root"}) /\ y \in Seq({"$root"}) /\ Len(x) = 0 => x \o y = y /\ y \o x = y
      <4> SUFFICES ASSUME NEW x \in Seq({"$root"}), NEW y \in Seq({"$root"}), Len(x) = 0
                   PROVE  x \o y = y /\ y \o x = y
        OBVIOUS
      <4>1. x = <<>>
        BY EmptySeq
      <4> QED BY <4>1, ConcatEmptySeq
    <3> QED BY <2>1, <3>1
  <2> QED BY <2>2 DEF e, r
<1> QED BY <1>1, <1>3, <1>4 DEF Root, Sanitised

(* The three intrinsics of an exported resource.                           *)
KindOf(j) == <<<<"new">>, <<"rep">>, <<"drop">>>>[j]

(* Their symbols begin with the interface, the kind or the side.           *)
Spelled(s, r, j) ==
  /\ s[Len(s)] = r.res /\ s[Len(s) - 2] = KindOf(j)
  /\ s[1] \in {InterfaceName(r.owner), <<"new">>, <<"rep">>, <<"export">>}
  /\ j = 3 => s[1] = <<"export">>

(* This is how each of them is spelled.                                    *)
LEMMA SymbolsAre ==
  ASSUME NEW r, NEW j \in 1..3
  PROVE  Spelled(SymbolsOf(r)[j], r, j)
<1> DEFINE iface == InterfaceName(r.owner)
           s == SymbolsOf(r)[j]
           side == "export"
<1>0. KindOf(1) = <<"new">> /\ KindOf(2) = <<"rep">> /\ KindOf(3) = <<"drop">>
  BY Triple DEF KindOf
<1>1. CASE j = 1
  <2>1. s = NewBinding(iface, r.res)
    BY <1>1 DEF SymbolsOf
  <2> HIDE DEF s
  <2>2. Intrinsic(s, <<"new">>, r.res) /\ s[1] \in {iface, <<"new">>}
    BY <2>1, NewAndRep
  <2>3. Spelled(s, r, 1)
    BY <1>0, <2>2 DEF Intrinsic, Spelled
  <2> QED BY <1>1, <2>3 DEF s
<1>2. CASE j = 2
  <2>1. s = RepBinding(iface, r.res)
    BY <1>2 DEF SymbolsOf
  <2> HIDE DEF s
  <2>2. Intrinsic(s, <<"rep">>, r.res) /\ s[1] \in {iface, <<"rep">>}
    BY <2>1, NewAndRep
  <2>3. Spelled(s, r, 2)
    BY <1>0, <2>2 DEF Intrinsic, Spelled
  <2> QED BY <1>2, <2>3 DEF s
<1>3. CASE j = 3
  <2>1. s = DropBinding(side, iface, r.res)
    BY <1>3 DEF SymbolsOf
  <2> HIDE DEF s, side, iface
  <2>2. Intrinsic(s, <<"drop">>, r.res) /\ s[1] = <<side>>
    BY <2>1, DropIs
  <2>3. s[1] = <<"export">>
    BY <2>2 DEF side
  <2>4. Spelled(s, r, 3)
    BY <1>0, <2>2, <2>3 DEF Intrinsic, Spelled
  <2> QED BY <1>3, <2>4 DEF s
<1> QED BY <1>1, <1>2, <1>3

(* No two of them have the same symbol.                                    *)
LEMMA SymbolsOnce ==
  ASSUME NEW r, NEW q, NEW j \in 1..3, NEW k \in 1..3, SymbolsOf(r)[j] = SymbolsOf(q)[k]
  PROVE  r.res = q.res /\ j = k
<1> DEFINE s == SymbolsOf(r)[j]
           t == SymbolsOf(q)[k]
<1>1. Spelled(s, r, j) /\ Spelled(t, q, k)
  BY SymbolsAre
<1>2. s = t
  OBVIOUS
<1> HIDE DEF s, t
<1>3. r.res = q.res /\ KindOf(j) = KindOf(k)
  BY <1>1, <1>2 DEF Spelled
<1>4. KindOf(1) = <<"new">> /\ KindOf(2) = <<"rep">> /\ KindOf(3) = <<"drop">>
  BY Triple DEF KindOf
<1>5. j = k
  BY <1>3, <1>4, KindsDiffer
<1> QED BY <1>3, <1>5

-----------------------------------------------------------------------------
(* The symbols of the intrinsics.                                          *)

(* An imported item declares resource r.                                   *)
DeclaredImport(r) == \E m \in 1..Len(world.imports) : r \in Declared(world.imports[m])

(* An item of the exports.                                                 *)
LEMMA ExportOfWorld ==
  ASSUME TypeInv
  PROVE  /\ Len(world.exports) \in Nat /\ DOMAIN world.exports = 1..Len(world.exports)
         /\ \A n \in 1..Len(world.exports) :
              /\ world.exports[n] \in ToSet(world.exports)
              /\ WellFormed(world.exports[n]) /\ DistinctNames(world.exports[n])
              /\ world.exports[n].is # "resource"
<1>1. /\ Keyed(world.exports)
      /\ \A item \in ToSet(world.exports) :
           WellFormed(item) /\ DistinctNames(item) /\ item.is # "resource"
  BY WorldAssumption, NamesOfWorld DEF TypeInv
<1>2. DOMAIN world.exports = 1..Len(world.exports) /\ Len(world.exports) \in Nat
  BY <1>1 DEF Keyed
<1>3. \A n \in 1..Len(world.exports) : world.exports[n] \in ToSet(world.exports)
  BY <1>2 DEF ToSet
<1> QED BY <1>1, <1>2, <1>3

(* Exported resources have names of their own, or two items share one.     *)
LEMMA ExportedOnce ==
  ASSUME TypeInv, ~SameResource(world.exports), NEW er, er = ExportedResources
  PROVE  \A m, n \in 1..Len(er) : er[m].res = er[n].res => m = n
<1> DEFINE N == Len(world.exports)
           item(n) == world.exports[n]
           ids(n) == IdsOf(item(n))
           list(n) == [k \in 1..Len(item(n).resources) |->
                        Resource(item(n).key, item(n).resources[k])]
           a == [n \in 1..N |-> list(n)]
           T == UNION {ids(n) : n \in 1..N}
<1>1. /\ N \in Nat /\ DOMAIN world.exports = 1..N
      /\ \A n \in 1..N : WellFormed(item(n)) /\ DistinctNames(item(n))
  BY ExportOfWorld
<1>2. er = FlattenSeq(a)
  BY DEF ExportedResources, Flatten
<1>3. ASSUME NEW n \in 1..N
      PROVE  list(n) \in Seq(T) /\ ToSet(list(n)) = ids(n) /\ IsInjective(list(n))
  <2> DEFINE rs == item(n).resources
             key == item(n).key
  <2>1. rs \in Seq(ToSet(rs)) /\ IsInjective(rs)
    BY <1>1 DEF WellFormed, DistinctNames
  <2>2. DOMAIN rs = 1..Len(rs) /\ Len(rs) \in Nat
    BY <2>1
  <2>3. list(n) = [k \in 1..Len(rs) |-> Resource(key, rs[k])]
        /\ ids(n) = {Resource(key, r) : r \in ToSet(rs)}
    BY DEF IdsOf
  <2> HIDE DEF rs, key, list, ids
  <2>4. ToSet(list(n)) = ids(n)
    BY <2>2, <2>3 DEF ToSet
  <2>5. list(n) \in Seq(ToSet(list(n)))
    BY <2>2, <2>3, SeqOfFunction
  <2>6. ids(n) \subseteq T
    OBVIOUS
  <2>7. IsInjective(list(n))
    <3>1. DOMAIN list(n) = 1..Len(rs) /\ \A k \in 1..Len(rs) : list(n)[k].res = rs[k]
      BY <2>3 DEF Resource
    <3> QED BY <2>1, <2>2, <3>1 DEF IsInjective
  <2> HIDE DEF T
  <2> QED BY <2>4, <2>5, <2>6, <2>7, SeqMonotonic
<1> HIDE DEF list, T
<1>4. a \in [1..N -> Seq(T)] /\ \A n \in 1..N : ToSet(a[n]) = ids(n) /\ IsInjective(a[n])
  BY <1>3
<1>5. ASSUME NEW m \in 1..N, NEW n \in 1..N, NEW x \in ids(m), NEW y \in ids(n), x.res = y.res
      PROVE  m = n /\ x = y
  <2>1. /\ x = Resource(item(m).key, x.res) /\ x.res \in ToSet(item(m).resources)
        /\ y = Resource(item(n).key, y.res) /\ y.res \in ToSet(item(n).resources)
    BY DEF IdsOf, Resource
  <2>2. m = n
    BY <1>1, <1>5, <2>1 DEF SameResource
  <2> QED BY <1>5, <2>1, <2>2
<1> HIDE DEF a, ids
<1>6. er \in Seq(T) /\ ToSet(er) = UNION {ToSet(a[n]) : n \in 1..N}
  <2>1. N \in Nat /\ a \in [1..N -> Seq(T)]
    BY <1>1, <1>4
  <2>2. /\ FlattenSeq(a) \in Seq(T)
        /\ ToSet(FlattenSeq(a)) = UNION {ToSet(a[n]) : n \in 1..N}
    BY <2>1, FlattenElements
  <2> QED BY <1>2, <2>2
<1>7. IsInjective(er)
  <2>1. \A m, n \in 1..N : \A x \in ToSet(a[m]) : x \in ToSet(a[n]) => m = n
    BY <1>4, <1>5
  <2> QED BY <1>1, <1>2, <1>4, <2>1, FlattenOnce
<1>8. DOMAIN er = 1..Len(er)
  BY <1>6
<1>9. ASSUME NEW m \in 1..Len(er), NEW n \in 1..Len(er), er[m].res = er[n].res
      PROVE  m = n
  <2>1. er[m] \in ToSet(er) /\ er[n] \in ToSet(er)
    BY <1>8 DEF ToSet
  <2>2. PICK i \in 1..N : er[m] \in ids(i)
    BY <1>4, <1>6, <2>1
  <2>3. PICK j \in 1..N : er[n] \in ids(j)
    BY <1>4, <1>6, <2>1
  <2>4. er[m] = er[n]
    BY <1>5, <1>9, <2>2, <2>3
  <2> QED BY <1>7, <1>8, <2>4 DEF IsInjective
<1> QED BY <1>9

(* What an imported item declares is named by its key.                     *)
LEMMA DeclaredNames ==
  ASSUME TypeInv, NEW m \in 1..Len(world.imports), NEW r, r \in Declared(world.imports[m])
  PROVE  /\ r.res \in ToSet(world.imports[m].resources) /\ Kebab(r.res)
         /\ r = Resource(OwnerOf(world.imports[m]), r.res)
         /\ InterfaceName(r.owner) = InterfaceName(world.imports[m].key)
<1> DEFINE item == world.imports[m]
<1>1. DistinctNames(item)
  BY ImportOfWorld, NamesOfWorld
<1>2. PICK res \in ToSet(item.resources) : r = Resource(OwnerOf(item), res)
  BY DEF Declared
<1>3. r.res = res /\ r.owner = OwnerOf(item)
  BY <1>2 DEF Resource
<1>4. InterfaceName(OwnerOf(item)) = InterfaceName(item.key)
  <2>1. CASE item.is = "resource"
    BY <1>1, <2>1, RootNames DEF DistinctNames, OwnerOf
  <2>2. CASE item.is # "resource"
    BY <2>2 DEF OwnerOf
  <2> QED BY <2>1, <2>2
<1> QED BY <1>1, <1>2, <1>3, <1>4 DEF DistinctNames

(* Imported resources differ in the interface or the name, or two          *)
(* interfaces are named alike.                                             *)
LEMMA OneDeclaration ==
  ASSUME TypeInv, ~NamedAlike(world.imports), NEW r, NEW q, DeclaredImport(r), DeclaredImport(q),
         InterfaceName(r.owner) = InterfaceName(q.owner), r.res = q.res
  PROVE  r = q
<1>1. PICK m \in 1..Len(world.imports) : r \in Declared(world.imports[m])
  BY DEF DeclaredImport
<1>2. PICK n \in 1..Len(world.imports) : q \in Declared(world.imports[n])
  BY DEF DeclaredImport
<1>3. /\ r.res \in ToSet(world.imports[m].resources)
      /\ r = Resource(OwnerOf(world.imports[m]), r.res)
      /\ InterfaceName(r.owner) = InterfaceName(world.imports[m].key)
  BY <1>1, DeclaredNames
<1>4. /\ q.res \in ToSet(world.imports[n].resources)
      /\ q = Resource(OwnerOf(world.imports[n]), q.res)
      /\ InterfaceName(q.owner) = InterfaceName(world.imports[n].key)
  BY <1>2, DeclaredNames
<1>5. m \in DOMAIN world.imports /\ n \in DOMAIN world.imports
  BY ImportOfWorld
<1>6. m = n
  BY <1>3, <1>4, <1>5 DEF NamedAlike
<1> QED BY <1>3, <1>4, <1>6

-----------------------------------------------------------------------------
(* Imported resources are listed once.                                     *)
LEMMA ImportedOnce == IsInjective(ImportedResources)
<1> DEFINE N == Len(TypeOrder)
           a == [n \in 1..N |-> IF TypeOrder[n] \in importedResources THEN <<TypeOrder[n]>> ELSE <<>>]
<1>1. N \in Nat /\ N = Len(TypeOrder) /\ DOMAIN TypeOrder = 1..N
  BY OrderAssumption
<1>2. ImportedResources = FlattenSeq(a)
  BY DEF ImportedResources, Flatten
<1> HIDE DEF N
<1>3. /\ TypeOrder \in Seq(ResourceId) /\ IsInjective(TypeOrder)
      /\ \A n \in 1..N : TypeOrder[n] \in ResourceId
  BY <1>1, OrderAssumption DEF ResourceId, ToSet
<1>4. a \in [1..N -> Seq(ResourceId)]
  BY <1>3, ShortSeqs
<1>5. \A n \in 1..N : a[n] = <<TypeOrder[n]>> \/ a[n] = <<>>
  OBVIOUS
<1> HIDE DEF a
<1> QED BY <1>1, <1>2, <1>3, <1>4, <1>5, ChosenOnce

(* The symbols of exported resources, and of imported ones.                *)
ExportBindings == FlattenSeq([n \in 1..Len(ExportedResources) |-> SymbolsOf(ExportedResources[n])])
ImportBindings == [n \in 1..Len(ImportedResources) |-> DropSymbolOf(ImportedResources[n])]

(* Both make up the bindings of resources.                                 *)
LEMMA BindingsJoin == ResourceBindings = ExportBindings \o ImportBindings
BY DEF ResourceBindings, ExportBindings, ImportBindings, Flatten, SymbolsOf, DropSymbolOf

(* Symbols of exported resources: of one kind each.                        *)
LEMMA ExportBindingsAre ==
  ASSUME TypeInv
  PROVE  /\ ExportBindings \in Seq(ToSet(ExportBindings))
         /\ \A y \in ToSet(ExportBindings) : \E r \in ExportedIds : \E j \in 1..3 : y = SymbolsOf(r)[j]
         /\ ~SameResource(world.exports) => IsInjective(ExportBindings)
<1> DEFINE er == ExportedResources
           N == Len(er)
           a == [n \in 1..N |-> SymbolsOf(er[n])]
           S == UNION {{SymbolsOf(er[n])[1], SymbolsOf(er[n])[2], SymbolsOf(er[n])[3]} : n \in 1..N}
           u == FlattenSeq(a)
<1>1. /\ N \in Nat /\ DOMAIN er = 1..N /\ ToSet(er) = ExportedIds
      /\ ~SameResource(world.exports) => \A m, n \in 1..N : er[m].res = er[n].res => m = n
  <2>1. er \in Seq(ToSet(er)) /\ ToSet(er) = ExportedIds
    BY ExportedResourcesAre
  <2>2. N \in Nat /\ DOMAIN er = 1..N
    BY <2>1
  <2>3. ~SameResource(world.exports) => \A m, n \in 1..N : er[m].res = er[n].res => m = n
    BY ExportedOnce
  <2> QED BY <2>1, <2>2, <2>3
<1>2. ExportBindings = u
  BY DEF ExportBindings
<1> HIDE DEF er, N
<1>3. \A n \in 1..N : SymbolsOf(er[n]) \in Seq(S) /\ DOMAIN SymbolsOf(er[n]) = 1..3
  <2> SUFFICES ASSUME NEW n \in 1..N
               PROVE  SymbolsOf(er[n]) \in Seq(S) /\ DOMAIN SymbolsOf(er[n]) = 1..3
    OBVIOUS
  <2> DEFINE R == {SymbolsOf(er[n])[1], SymbolsOf(er[n])[2], SymbolsOf(er[n])[3]}
  <2>1. SymbolsOf(er[n]) \in Seq(R) /\ Len(SymbolsOf(er[n])) = 3
    BY Triple DEF SymbolsOf
  <2>2. R \subseteq S
    OBVIOUS
  <2>3. DOMAIN SymbolsOf(er[n]) = 1..3
    <3> HIDE DEF R
    <3> QED BY <2>1
  <2> HIDE DEF R, S
  <2> QED BY <2>1, <2>2, <2>3, SeqMonotonic
<1> HIDE DEF S
<1>4. a \in [1..N -> Seq(S)] /\ \A n \in 1..N : a[n] = SymbolsOf(er[n])
  BY <1>3
<1> HIDE DEF a
<1>5. \A n \in 1..N : \A y \in ToSet(a[n]) : \E j \in 1..3 : y = SymbolsOf(er[n])[j]
  BY <1>3, <1>4 DEF ToSet
<1>6. u \in Seq(S) /\ ToSet(u) = UNION {ToSet(a[n]) : n \in 1..N}
  BY <1>1, <1>4, FlattenElements
<1>7. u \in Seq(ToSet(u))
  BY <1>6, OwnElements
<1>8. ASSUME NEW y \in ToSet(u) PROVE \E r \in ExportedIds : \E j \in 1..3 : y = SymbolsOf(r)[j]
  <2>1. PICK n \in 1..N : y \in ToSet(a[n])
    BY <1>6
  <2>2. er[n] \in ExportedIds
    BY <1>1 DEF ToSet
  <2> QED BY <1>5, <2>1, <2>2
<1>9. ASSUME ~SameResource(world.exports) PROVE IsInjective(u)
  <2>1. \A n \in 1..N : IsInjective(a[n])
    BY <1>3, <1>4, SymbolsOnce DEF IsInjective
  <2>2. \A m, n \in 1..N : \A x \in ToSet(a[m]) : x \in ToSet(a[n]) => m = n
    <3> SUFFICES ASSUME NEW m \in 1..N, NEW n \in 1..N, NEW x \in ToSet(a[m]), x \in ToSet(a[n])
                 PROVE  m = n
      OBVIOUS
    <3>1. PICK j \in 1..3 : x = SymbolsOf(er[m])[j]
      BY <1>5
    <3>2. PICK k \in 1..3 : x = SymbolsOf(er[n])[k]
      BY <1>5
    <3>3. er[m].res = er[n].res
      <4> DEFINE r == er[m]
                 q == er[n]
      <4>1. SymbolsOf(r)[j] = SymbolsOf(q)[k]
        BY <3>1, <3>2
      <4> HIDE DEF r, q
      <4>2. r.res = q.res
        BY <4>1, SymbolsOnce
      <4> QED BY <4>2 DEF r, q
    <3> QED BY <1>1, <1>9, <3>3
  <2> QED BY <1>1, <1>4, <2>1, <2>2, FlattenOnce
<1> HIDE DEF u
<1> QED BY <1>2, <1>7, <1>8, <1>9

(* Those of imported resources: drops for the import side.                 *)
LEMMA DropSymbolIs ==
  ASSUME NEW r, NEW y, y = DropSymbolOf(r)
  PROVE  y[Len(y)] = r.res /\ y[Len(y) - 2] = <<"drop">> /\ y[1] = <<"import">>
<1> DEFINE side == "import"
           iface == InterfaceName(r.owner)
<1>1. y = DropBinding(side, iface, r.res)
  BY DEF DropSymbolOf
<1> HIDE DEF side, iface
<1>2. Intrinsic(y, <<"drop">>, r.res) /\ y[1] = <<side>>
  BY <1>1, DropIs
<1> QED BY <1>2 DEF Intrinsic, side

(* They differ as the resources do.                                        *)
LEMMA ImportBindingsAre ==
  ASSUME TypeInv, \A r \in importedResources : DeclaredImport(r)
  PROVE  /\ ImportBindings \in Seq(ToSet(ImportBindings))
         /\ \A y \in ToSet(ImportBindings) : \E r : DeclaredImport(r) /\ y = DropSymbolOf(r)
         /\ ~NamedAlike(world.imports) => IsInjective(ImportBindings)
<1> DEFINE ir == ImportedResources
           M == Len(ir)
           x == [n \in 1..M |-> DropSymbolOf(ir[n])]
<1>1. /\ M \in Nat /\ DOMAIN ir = 1..M /\ IsInjective(ir)
      /\ \A n \in 1..M : DeclaredImport(ir[n])
  <2>1. ir \in Seq(ToSet(ir)) /\ \A r \in ToSet(ir) : r \in importedResources
    BY ImportedResourcesAre
  <2>2. M \in Nat /\ DOMAIN ir = 1..M
    BY <2>1
  <2>3. \A n \in 1..M : ir[n] \in ToSet(ir)
    BY <2>2 DEF ToSet
  <2> QED BY <2>1, <2>2, <2>3, ImportedOnce
<1>2. ImportBindings = x
  BY DEF ImportBindings
<1> HIDE DEF ir, M
<1>3. x \in Seq(ToSet(x)) /\ DOMAIN x = 1..M /\ \A n \in 1..M : x[n] = DropSymbolOf(ir[n])
  BY <1>1, SeqOfFunction
<1> HIDE DEF x
<1>4. \A y \in ToSet(x) : \E r : DeclaredImport(r) /\ y = DropSymbolOf(r)
  BY <1>1, <1>3 DEF ToSet
<1>5. ASSUME ~NamedAlike(world.imports) PROVE IsInjective(x)
  <2> SUFFICES ASSUME NEW m \in 1..M, NEW n \in 1..M, x[m] = x[n] PROVE m = n
    BY <1>3 DEF IsInjective
  <2>1. DropSymbolOf(ir[m]) = DropSymbolOf(ir[n])
    BY <1>3
  <2>2. InterfaceName(ir[m].owner) = InterfaceName(ir[n].owner) /\ ir[m].res = ir[n].res
    BY <2>1, DropsDiffer DEF DropSymbolOf
  <2>3. ir[m] = ir[n]
    BY <1>1, <1>5, <2>2, OneDeclaration
  <2> QED BY <1>1, <2>3 DEF IsInjective
<1> QED BY <1>2, <1>3, <1>4, <1>5

(* The symbols of the intrinsics are distinct.                             *)
LEMMA BindingsOnce ==
  ASSUME TypeInv, \A r \in importedResources : DeclaredImport(r),
         ~SameResource(world.exports), ~NamedAlike(world.imports)
  PROVE  IsInjective(ResourceBindings)
<1> DEFINE u == ExportBindings
           x == ImportBindings
           S == ToSet(u) \cup ToSet(x)
<1>1. /\ u \in Seq(ToSet(u)) /\ IsInjective(u)
      /\ \A y \in ToSet(u) : \E r \in ExportedIds : \E j \in 1..3 : y = SymbolsOf(r)[j]
  BY ExportBindingsAre
<1>2. /\ x \in Seq(ToSet(x)) /\ IsInjective(x)
      /\ \A y \in ToSet(x) : \E r : DeclaredImport(r) /\ y = DropSymbolOf(r)
  BY ImportBindingsAre
<1> HIDE DEF u, x
<1>3. u \in Seq(S) /\ x \in Seq(S)
  BY <1>1, <1>2, SeqMonotonic
<1>4. \A y \in ToSet(u) : y \notin ToSet(x)
  <2> SUFFICES ASSUME NEW y \in ToSet(u), y \in ToSet(x) PROVE FALSE
    OBVIOUS
  <2>1. PICK r \in ExportedIds : \E j \in 1..3 : y = SymbolsOf(r)[j]
    BY <1>1
  <2>2. PICK j \in 1..3 : y = SymbolsOf(r)[j]
    BY <2>1
  <2>3. Spelled(y, r, j)
    BY <2>2, SymbolsAre
  <2>4. PICK q : y = DropSymbolOf(q)
    BY <1>2
  <2>5. y[Len(y) - 2] = <<"drop">> /\ y[1] = <<"import">>
    BY <2>4, DropSymbolIs
  <2>6. KindOf(j) = <<"drop">> /\ (j = 3 => <<"export">> = <<"import">>)
    BY <2>3, <2>5 DEF Spelled
  <2>7. KindOf(1) = <<"new">> /\ KindOf(2) = <<"rep">>
    BY Triple DEF KindOf
  <2>8. j = 1 \/ j = 2 \/ j = 3
    OBVIOUS
  <2> QED BY <2>6, <2>7, <2>8, KindsDiffer
<1> HIDE DEF S
<1> QED BY <1>1, <1>2, <1>3, <1>4, ConcatOnce, BindingsJoin DEF u, x

-----------------------------------------------------------------------------
(* The classes and the symbols of imports.                                 *)

(* The classes of an item are those of resources it declares.              *)
LEMMA ClassesFrom ==
  ASSUME TypeInv, NEW m \in 1..Len(world.imports), NEW item, item = world.imports[m],
         NEW new, new = ClassesOf(item)
  PROVE  /\ new \in Seq(ToSet(new)) /\ IsInjective(new)
         /\ \A c \in ToSet(new) : \E res \in ToSet(item.resources) :
              Kebab(res) /\ c = ClassName(res, InterfaceName(item.key))
<1>1. WellFormed(item) /\ DistinctNames(item)
  BY ImportOfWorld, NamesOfWorld
<1>2. new \in Seq(ToSet(new))
  BY <1>1, ClassesAre
<1>3. CASE item.is = "func"
  <2>1. new = <<>>
    BY <1>3 DEF ClassesOf
  <2> QED BY <1>2, <2>1 DEF IsInjective, ToSet
<1>4. CASE item.is = "resource"
  <2> DEFINE res == item.key.name
             c == ClassName(res, NoName)
  <2>1. new = <<c>>
    BY <1>4 DEF ClassesOf
  <2>2. ToSet(item.resources) = {res}
    <3>1. item.resources = <<res>>
      BY <1>1, <1>4 DEF WellFormed
    <3> HIDE DEF res
    <3> QED BY <3>1 DEF ToSet
  <2>3. InterfaceName(item.key) = NoName
    BY <1>1, <1>4, RootNames DEF DistinctNames
  <2>4. Kebab(res)
    BY <1>1, <2>2 DEF DistinctNames
  <2>5. c = ClassName(res, InterfaceName(item.key))
    BY <2>3
  <2> HIDE DEF c, res
  <2>6. ToSet(new) = {c} /\ IsInjective(new)
    BY <2>1 DEF ToSet, IsInjective
  <2> QED BY <1>2, <2>2, <2>4, <2>5, <2>6
<1>5. CASE item.is = "iface"
  <2> DEFINE N == Len(item.resources)
             iface == InterfaceName(item.key)
             name(r) == ClassName(r, iface)
             T == {name(item.resources[n]) : n \in 1..N}
             a == [n \in 1..N |-> IF FuncsOf(item.funcs, item.resources[n]) # <<>>
                                  THEN <<name(item.resources[n])>> ELSE <<>>]
             s == [n \in 1..N |-> name(item.resources[n])]
  <2>1. new = FlattenSeq(a)
    BY <1>5 DEF ClassesOf, Flatten
  <2>2. /\ N \in Nat /\ DOMAIN item.resources = 1..N
        /\ \A k, l \in 1..N : item.resources[k] = item.resources[l] => k = l
        /\ \A n \in 1..N : item.resources[n] \in ToSet(item.resources) /\ Kebab(item.resources[n])
    <3>1. N \in Nat /\ DOMAIN item.resources = 1..N
      BY <1>1 DEF WellFormed
    <3>2. \A n \in 1..N : item.resources[n] \in ToSet(item.resources)
      BY <3>1 DEF ToSet
    <3> QED BY <1>1, <3>1, <3>2 DEF DistinctNames, IsInjective
  <2>3. \A n \in 1..N : name(item.resources[n]) \in T
    OBVIOUS
  <2>4. \A k, l \in 1..N : name(item.resources[k]) = name(item.resources[l]) => k = l
    <3> HIDE DEF N, iface
    <3>1. ASSUME NEW k \in 1..N, NEW l \in 1..N,
                 ClassName(item.resources[k], iface) = ClassName(item.resources[l], iface)
          PROVE  k = l
      <4>1. Kebab(item.resources[k]) /\ Kebab(item.resources[l])
        BY <2>2
      <4>2. item.resources[k] = item.resources[l]
        BY <3>1, <4>1, ClassNamesDiffer
      <4> QED BY <2>2, <4>2
    <3> QED BY <3>1
  <2> HIDE DEF N, name
  <2>5. a \in [1..N -> Seq(T)] /\ \A n \in 1..N : a[n] = <<s[n]>> \/ a[n] = <<>>
    BY <2>3, ShortSeqs
  <2>6. s \in Seq(T) /\ Len(s) = N /\ IsInjective(s)
    <3>1. s \in [1..N -> T]
      BY <2>3
    <3>2. IsInjective(s)
      BY <2>4 DEF IsInjective
    <3>3. N \in Nat
      BY <2>2
    <3> HIDE DEF s, T
    <3>4. s \in Seq(T) /\ Len(s) = N
      BY <3>1, <3>3
    <3> QED BY <3>2, <3>4
  <2>7. \A n \in 1..N : a[n] # <<>> => s[n] = name(item.resources[n])
    OBVIOUS
  <2>8. \A n \in 1..N : s[n] = name(item.resources[n])
    OBVIOUS
  <2> HIDE DEF a, s, T
  <2>9. IsInjective(new) /\ Picks(new, a, s, N)
    <3>1. IsInjective(FlattenSeq(a))
      BY <2>2, <2>5, <2>6, ChosenOnce
    <3>2. Picks(FlattenSeq(a), a, s, N)
      BY <2>2, <2>5, <2>6, FlattenChosen
    <3> QED BY <2>1, <3>1, <3>2
  <2>10. \A c \in ToSet(new) : \E res \in ToSet(item.resources) : Kebab(res) /\ c = name(res)
    BY <2>2, <2>8, <2>9 DEF Picks
  <2> QED BY <1>2, <2>9, <2>10 DEF name
<1> QED BY <1>1, <1>3, <1>4, <1>5 DEF WellFormed

(* Two items with the same class are named alike.                          *)
LEMMA ClassesApart ==
  ASSUME TypeInv, NEW m \in 1..Len(world.imports), NEW n \in 1..Len(world.imports), m # n,
         NEW c \in ToSet(ClassesOf(world.imports[m])), c \in ToSet(ClassesOf(world.imports[n]))
  PROVE  NamedAlike(world.imports)
<1>1. PICK r \in ToSet(world.imports[m].resources) :
        Kebab(r) /\ c = ClassName(r, InterfaceName(world.imports[m].key))
  BY ClassesFrom
<1>2. PICK q \in ToSet(world.imports[n].resources) :
        Kebab(q) /\ c = ClassName(q, InterfaceName(world.imports[n].key))
  BY ClassesFrom
<1>3. InterfaceName(world.imports[m].key) = InterfaceName(world.imports[n].key) /\ r = q
  <2> DEFINE a == InterfaceName(world.imports[m].key)
             b == InterfaceName(world.imports[n].key)
  <2>1. ClassName(r, a) = ClassName(q, b) /\ Kebab(r) /\ Kebab(q)
    BY <1>1, <1>2
  <2> HIDE DEF a, b
  <2>2. a = b /\ r = q
    BY <2>1, ClassNamesDiffer
  <2> QED BY <2>2 DEF a, b
<1>4. m \in DOMAIN world.imports /\ n \in DOMAIN world.imports
  BY ImportOfWorld
<1> QED BY <1>3, <1>4 DEF NamedAlike

(* The symbols of a list of imports are distinct.                          *)
Apart(list) ==
  \A m, n \in 1..Len(list) : ImportSymbol(list[m]) = ImportSymbol(list[n]) => m = n

(* Imports of one specifier for functions that are listed once.            *)
LEMMA ApartList ==
  ASSUME NEW funcs, funcs \in Seq(ToSet(funcs)), IsInjective(funcs),
         \A f \in ToSet(funcs) : Named(f),
         \A f, g \in ToSet(funcs) : SameName(f, g) => f = g,
         NEW specifier, NEW iface, NEW interface, NEW dirs,
         NEW new, new = ImportsFor(funcs, specifier, iface, interface, dirs)
  PROVE  Apart(new)
<1>1. /\ Len(funcs) \in Nat /\ DOMAIN funcs = 1..Len(funcs)
      /\ \A n \in 1..Len(funcs) : funcs[n] \in ToSet(funcs)
  BY OwnElements DEF ToSet
<1>2. /\ Len(new) = Len(funcs)
      /\ \A n \in 1..Len(funcs) :
           ImportSymbol(new[n])
             = <<"$import_", ImportBindingName(FuncName(funcs[n]), interface, specifier)>>
  BY <1>1, SeqOfFunction DEF ImportsFor, Imported, ImportSymbol, ImportBinding
<1> SUFFICES ASSUME NEW m \in 1..Len(funcs), NEW n \in 1..Len(funcs),
                    ImportSymbol(new[m]) = ImportSymbol(new[n])
             PROVE  m = n
  BY <1>2 DEF Apart
<1> DEFINE f == funcs[m]
           g == funcs[n]
<1>3. ImportBindingName(FuncName(f), interface, specifier)
        = ImportBindingName(FuncName(g), interface, specifier)
  BY <1>2
<1>4. Named(f) /\ Named(g) /\ f \in ToSet(funcs) /\ g \in ToSet(funcs)
  BY <1>1
<1> HIDE DEF f, g
<1>5. SameName(f, g)
  BY <1>3, <1>4, ImportNamesDiffer DEF Named
<1>6. f = g
  BY <1>4, <1>5
<1> QED BY <1>1, <1>6 DEF f, g, IsInjective

-----------------------------------------------------------------------------
(* The functions of the world's own resources.                             *)
LEMMA RootFunc ==
  ASSUME TypeInv, NEW res, NEW f \in ToSet(RootFuncs(res))
  PROVE  /\ Named(f) /\ TakenBy(res, f)
         /\ \E n \in 1..Len(world.imports) :
              /\ world.imports[n].is = "func" /\ f = world.imports[n].funcs[1]
              /\ f \in ToSet(world.imports[n].funcs)
<1>1. PICK n \in 1..Len(world.imports) :
        /\ world.imports[n].is = "func" /\ f = world.imports[n].funcs[1]
        /\ TakenBy(res, f)
  BY RootFuncsAre
<1>2. f \in ToSet(world.imports[n].funcs)
  <2>1. WellFormed(world.imports[n])
    BY ImportOfWorld
  <2>2. /\ world.imports[n].funcs \in Seq(ToSet(world.imports[n].funcs))
        /\ Len(world.imports[n].funcs) = 1
    BY <1>1, <2>1 DEF WellFormed
  <2> QED BY <1>1, <2>2 DEF ToSet
<1>3. Named(f)
  BY <1>2, FuncOfItem
<1> QED BY <1>1, <1>2, <1>3

(* What is generated for an item has symbols of its own.                   *)
LEMMA NewApart ==
  ASSUME TypeInv, NEW m \in 1..Len(world.imports), NEW item, item = world.imports[m], NEW dirs,
         NEW new, new = NewImports(item, dirs)
  PROVE  Apart(new)
<1>1. WellFormed(item) /\ DistinctNames(item)
  BY ImportOfWorld, NamesOfWorld
<1>2. CASE item.is = "func"
  <2> DEFINE i == Imported(item.key, FALSE, item.funcs[1], NoName, dirs)
  <2>1. new = <<i>> \/ new = <<>>
    BY <1>2 DEF NewImports, FuncItem
  <2> HIDE DEF i
  <2>2. Len(<<i>>) = 1 /\ Len(<<>>) = 0
    OBVIOUS
  <2>3. \A x, y \in 1..Len(new) : x = y
    <3>1. Len(new) = 1 \/ Len(new) = 0
      BY <2>1, <2>2
    <3>2. (\A x, y \in 1..1 : x = y) /\ (\A x, y \in 1..0 : x = y)
      OBVIOUS
    <3> QED BY <3>1, <3>2
  <2> QED BY <2>3 DEF Apart
<1>3. CASE item.is = "iface"
  <2> DEFINE funcs == ByResource(item)
  <2>1. new = ImportsFor(funcs, item.key, TRUE, InterfaceName(item.key), dirs)
    BY <1>3 DEF NewImports, IfaceItem, ImportsFor
  <2>2. /\ funcs \in Seq(ToSet(funcs)) /\ ToSet(funcs) = ToSet(item.funcs)
        /\ IsInjective(funcs)
    BY <1>1, <1>3, ByResourceIs, ByResourceOnce
  <2>3. \A f \in ToSet(item.funcs) : Named(f)
    BY FuncOfItem
  <2>4. ASSUME NEW f \in ToSet(item.funcs), NEW g \in ToSet(item.funcs), SameName(f, g)
        PROVE  f = g
    <3>1. PICK k \in DOMAIN item.funcs : f = item.funcs[k]
      BY DEF ToSet
    <3>2. PICK l \in DOMAIN item.funcs : g = item.funcs[l]
      BY DEF ToSet
    <3>3. k = l
      BY <1>1, <2>4, <3>1, <3>2 DEF DistinctNames
    <3> QED BY <3>1, <3>2, <3>3
  <2> HIDE DEF funcs
  <2> QED BY <2>1, <2>2, <2>3, <2>4, ApartList
<1>4. CASE item.is = "resource"
  <2> DEFINE funcs == RootFuncs(item.key.name)
  <2>1. new = ImportsFor(funcs, Root, TRUE, NoName, dirs)
    BY <1>4 DEF NewImports, ResourceItem, ImportsFor
  <2>2. funcs \in Seq(ToSet(funcs)) /\ IsInjective(funcs)
    BY RootFuncsAre, RootFuncsOnce
  <2>3. \A f \in ToSet(funcs) : Named(f)
    BY RootFunc
  <2>4. ASSUME NEW f \in ToSet(funcs), NEW g \in ToSet(funcs), SameName(f, g)
        PROVE  f = g
    <3>1. PICK k \in 1..Len(world.imports) :
            world.imports[k].is = "func" /\ f = world.imports[k].funcs[1]
      BY RootFunc
    <3>2. PICK l \in 1..Len(world.imports) :
            world.imports[l].is = "func" /\ g = world.imports[l].funcs[1]
      BY RootFunc
    <3>3. k = l
      BY <2>4, <3>1, <3>2, NamesOfWorld, ImportOfWorld
    <3> QED BY <3>1, <3>2, <3>3
  <2> HIDE DEF funcs
  <2> QED BY <2>1, <2>2, <2>3, <2>4, ApartList
<1> QED BY <1>1, <1>2, <1>3, <1>4 DEF WellFormed

(* Imports of two items share a symbol only if their specifiers are        *)
(* spelled alike, or if both take the functions of one resource.           *)
LEMMA ImportsDiffer ==
  ASSUME TypeInv, NEW m \in 1..Len(world.imports), NEW n \in 1..Len(world.imports), m # n,
         NEW i, NEW j, ImportOf(i, world.imports[m]), ImportOf(j, world.imports[n]),
         ImportSymbol(i) = ImportSymbol(j)
  PROVE  SpelledAlike(world.imports) \/ TakenTwice(world.imports)
<1> DEFINE p == world.imports[m]
           q == world.imports[n]
<1>1. Named(i.f) /\ Named(j.f)
  BY FuncOfImport
<1>2. Sanitised(i.specifier) = Sanitised(j.specifier) /\ SameName(i.f, j.f)
  <2> DEFINE f == i.f
             g == j.f
             a == i.specifier
             b == j.specifier
             x == i.interface
             y == j.interface
  <2>1. ImportBindingName(FuncName(f), x, a) = ImportBindingName(FuncName(g), y, b)
    BY DEF ImportSymbol, ImportBinding
  <2>2. Named(f) /\ Named(g)
    BY <1>1
  <2> HIDE DEF f, g, a, b, x, y
  <2>3. Sanitised(a) = Sanitised(b) /\ SameName(f, g)
    BY <2>1, <2>2, ImportNamesDiffer DEF Named
  <2> QED BY <2>3 DEF f, g, a, b
<1>3. i.specifier = OwnerOf(p) /\ j.specifier = OwnerOf(q)
  BY DEF ImportOf
<1>4. /\ p.key # q.key /\ m \in DOMAIN world.imports /\ n \in DOMAIN world.imports
      /\ DistinctNames(p) /\ DistinctNames(q)
  BY ImportOfWorld, NamesOfWorld DEF Keyed
<1>5. CASE p.is = "resource" /\ q.is = "resource"
  <2>1. i.f \in ToSet(RootFuncs(p.key.name)) /\ j.f \in ToSet(RootFuncs(q.key.name))
    BY <1>5 DEF ImportOf, FuncsFrom
  <2>2. /\ TakenBy(p.key.name, i.f) /\ TakenBy(q.key.name, j.f)
        /\ \E k \in 1..Len(world.imports) :
             world.imports[k].is = "func" /\ i.f = world.imports[k].funcs[1]
    BY <2>1, RootFunc
  <2>3. TakenBy(q.key.name, i.f) <=> TakenBy(q.key.name, j.f)
    BY <1>2, <2>2 DEF TakenBy, SameName
  <2>4. PICK k \in 1..Len(world.imports) :
          world.imports[k].is = "func" /\ i.f = world.imports[k].funcs[1]
    BY <2>2
  <2>5. k \in DOMAIN world.imports
    BY ImportOfWorld
  <2> QED BY <1>4, <1>5, <2>2, <2>3, <2>4, <2>5 DEF TakenTwice
<1>6. CASE p.is # "resource" /\ q.is # "resource"
  BY <1>2, <1>3, <1>4, <1>6 DEF OwnerOf, SpelledAlike
<1>7. CASE p.is = "resource" /\ q.is # "resource"
  <2>1. Sanitised(q.key) = <<"$root">>
    BY <1>2, <1>3, <1>7, RootNames DEF OwnerOf
  <2> QED BY <1>4, <2>1 DEF DistinctNames
<1>8. CASE p.is # "resource" /\ q.is = "resource"
  <2>1. Sanitised(p.key) = <<"$root">>
    BY <1>2, <1>3, <1>8, RootNames DEF OwnerOf
  <2> QED BY <1>4, <2>1 DEF DistinctNames
<1> QED BY <1>5, <1>6, <1>7, <1>8

-----------------------------------------------------------------------------
(* Each import and each class is that of an item that was generated; their *)
(* names are distinct unless the world is one of those that fail.          *)
OnceInv ==
  pc # "failed" =>
    /\ pc = "imports" => next <= Len(world.imports) + 1
    /\ \A i \in ToSet(imports) : \E m \in Passed : ImportOf(i, world.imports[m])
    /\ \A c \in ToSet(classes) : \E m \in Passed : c \in ToSet(ClassesOf(world.imports[m]))
    /\ ~SpelledAlike(world.imports) /\ ~TakenTwice(world.imports) => Apart(imports)
    /\ ~NamedAlike(world.imports) => IsInjective(classes)

(* What has been declared is on a side, and what is on the import side has *)
(* been declared by an imported item.                                      *)
DeclaredInv ==
  pc # "failed" =>
    /\ \A m \in Passed : Declared(world.imports[m]) \subseteq DOMAIN directions
    /\ \A r \in DOMAIN directions : directions[r] = "import" => DeclaredImport(r)
    /\ \A r \in importedResources : DeclaredImport(r)
    /\ pc = "exports" =>
         \A d \in 1..(next - 1) : world.exports[d].key \notin EngineServes =>
           Declared(world.exports[d]) \subseteq DOMAIN directions

(* The inductive invariant of the worlds that fail.                        *)
WInv == SInv /\ OnceInv /\ DeclaredInv /\ OtherWorldsEvaluate

(* A list that is joined to one with other symbols.                        *)
LEMMA ApartConcat ==
  ASSUME NEW S, NEW u \in Seq(S), NEW x \in Seq(S), Apart(u), Apart(x),
         \A m \in 1..Len(u), n \in 1..Len(x) : ImportSymbol(u[m]) # ImportSymbol(x[n])
  PROVE  Apart(u \o x)
<1> DEFINE p == u \o x
<1>1. /\ Len(u) \in Nat /\ Len(x) \in Nat /\ Len(p) = Len(u) + Len(x)
      /\ \A k \in 1..Len(u) : p[k] = u[k]
      /\ \A j \in 1..Len(x) : p[Len(u) + j] = x[j]
  BY ConcatAt
<1> HIDE DEF p
<1>2. \A k \in 1..Len(p) : \/ k \in 1..Len(u)
                           \/ k - Len(u) \in 1..Len(x) /\ k = Len(u) + (k - Len(u))
  BY <1>1
<1>3. SUFFICES ASSUME NEW m \in 1..Len(p), NEW n \in 1..Len(p),
                      ImportSymbol(p[m]) = ImportSymbol(p[n])
               PROVE  m = n
  BY DEF Apart, p
<1>4. CASE m \in 1..Len(u) /\ n \in 1..Len(u)
  BY <1>1, <1>3, <1>4 DEF Apart
<1>5. CASE m \notin 1..Len(u) /\ n \notin 1..Len(u)
  <2>1. ImportSymbol(x[m - Len(u)]) = ImportSymbol(x[n - Len(u)])
    BY <1>1, <1>2, <1>3, <1>5
  <2>2. m - Len(u) = n - Len(u)
    BY <1>2, <1>5, <2>1 DEF Apart
  <2> QED BY <1>2, <1>5, <2>2
<1>6. ASSUME NEW k \in 1..Len(p), NEW l \in 1..Len(p), k \in 1..Len(u), l \notin 1..Len(u)
      PROVE  ImportSymbol(p[k]) # ImportSymbol(p[l])
  <2>1. p[k] = u[k] /\ p[l] = x[l - Len(u)] /\ l - Len(u) \in 1..Len(x)
    BY <1>1, <1>2, <1>6
  <2> QED BY <1>6, <2>1
<1> QED BY <1>3, <1>4, <1>5, <1>6

(* Why the generation of an import fails.                                  *)
ImportFails ==
  \/ TakenTwice(world.imports) \/ UsesLater(world.imports)
  \/ Asynchronous({item \in ToSet(world.imports) : item.is = "iface"})

(* Nothing is generated for a function that uses what no item before it    *)
(* declares, but for functions of the world's own resources, nor for an     *)
(* asynchronous one, but for those of interfaces.                          *)
LEMMA ImportPanics ==
  ASSUME TypeInv, DirectionsInv, DeclaredInv, pc = "imports", next \in 1..Len(world.imports),
         NEW item, item = world.imports[next],
         NEW dirs, dirs = Directed(OwnerOf(item), item.resources, "import"),
         NEW new, new = NewImports(item, dirs), Panics(new)
  PROVE  ImportFails
<1>0. OwnersFirst(world) /\ DOMAIN world.imports = 1..Len(world.imports)
  BY OwnersAssumption, ImportOfWorld DEF TypeInv
<1>1. Puts(dirs, OwnerOf(item), ToSet(item.resources), "import")
  BY DirectedAre
<1>2. DOMAIN dirs = DOMAIN directions \cup Declared(item)
  BY <1>1 DEF Puts, Declared
<1>3. \A d \in 1..next : Declared(world.imports[d]) \subseteq DOMAIN dirs
  <2> SUFFICES ASSUME NEW d \in 1..next PROVE Declared(world.imports[d]) \subseteq DOMAIN dirs
    OBVIOUS
  <2>1. CASE d = next
    BY <1>2, <2>1
  <2>2. CASE d # next
    <3>1. d \in Passed
      BY <2>2 DEF Passed
    <3> QED BY <1>2, <3>1 DEF DeclaredInv
  <2> QED BY <2>1, <2>2
<1>4. NewFrom(new, item, dirs)
  BY NewImportsAre
<1>5. PICK i \in ToSet(new) : i.f.async \/ \E r \in DOMAIN i.map : i.map[r] = "none"
  BY DEF Panics
<1>7. ImportOf(i, item) /\ i.map = ResourceMap(i.f, dirs)
  BY <1>4 DEF NewFrom
<1>a. /\ item.is \in {"func", "iface", "resource"} /\ item \in ToSet(world.imports)
      /\ i.f \in FuncsFrom(item)
  BY <1>7, ImportOfWorld DEF WellFormed, ImportOf
<1>b. CASE i.f.async
  <2>1. item.is # "resource"
    <3> SUFFICES ASSUME item.is = "resource" PROVE FALSE
      OBVIOUS
    <3>1. i.f \in ToSet(RootFuncs(item.key.name))
      BY <1>a DEF FuncsFrom
    <3> QED BY <1>b, <3>1, RootFunc DEF TakenBy
  <2>2. item.is = "iface" /\ i.f \in ToSet(item.funcs)
    BY <1>a, <1>b, <2>1 DEF FuncsFrom
  <2> QED BY <1>a, <1>b, <2>2 DEF Asynchronous, ImportFails
<1>c. SUFFICES ASSUME \E r \in DOMAIN i.map : i.map[r] = "none"
               PROVE  TakenTwice(world.imports) \/ UsesLater(world.imports)
  BY <1>5, <1>b DEF ImportFails
<1>6. PICK r \in DOMAIN i.map : i.map[r] = "none"
  BY <1>c
<1>8. r \in i.f.uses /\ r \notin DOMAIN dirs
  <2>1. ASSUME r \in DOMAIN dirs PROVE FALSE
    <3>1. dirs[r] = "none"
      BY <1>6, <1>7, <2>1 DEF ResourceMap
    <3>2. r \in DOMAIN directions /\ directions[r] = "none"
      BY <1>1, <3>1, <2>1 DEF Puts
    <3> QED BY <3>2 DEF DirectionsInv
  <2> QED BY <1>6, <1>7, <2>1 DEF ResourceMap
<1>9. ASSUME NEW n \in 1..Len(world.imports), i.f \in ToSet(world.imports[n].funcs),
             ComesWith(world.imports, next, n, i.f)
      PROVE  UsesLater(world.imports)
  <2>1. PICK d \in 1..Len(world.imports) :
          /\ r \in Declared(world.imports[d])
          /\ d <= next \/ (world.imports[d].is = "resource" /\ item.is = "resource")
    BY <1>0, <1>8, <1>9 DEF OwnersFirst
  <2>2. ~(d <= next)
    <3>1. d <= next => d \in 1..next
      OBVIOUS
    <3> QED BY <1>3, <1>8, <2>1, <3>1
  <2> QED BY <1>0, <1>8, <1>9, <2>1, <2>2 DEF UsesLater
<1>10. CASE item.is # "resource"
  <2>1. i.f \in ToSet(item.funcs) /\ (item.is = "func" => i.f.kind = "free")
    <3>1. i.f \in FuncsFrom(item)
      BY <1>7 DEF ImportOf
    <3>2. item.is \in {"func", "iface", "resource"}
      BY ImportOfWorld DEF WellFormed
    <3> QED BY <1>10, <3>1, <3>2 DEF FuncsFrom
  <2>2. ComesWith(world.imports, next, next, i.f)
    BY <2>1 DEF ComesWith
  <2> QED BY <1>9, <2>1, <2>2
<1>11. CASE item.is = "resource"
  <2>1. i.f \in ToSet(RootFuncs(item.key.name))
    BY <1>7, <1>11 DEF ImportOf, FuncsFrom
  <2>2. TakenBy(item.key.name, i.f) /\ i.f.kind # "free"
    BY <2>1, RootFunc DEF TakenBy
  <2>3. PICK n \in 1..Len(world.imports) :
          /\ world.imports[n].is = "func" /\ i.f = world.imports[n].funcs[1]
          /\ i.f \in ToSet(world.imports[n].funcs)
    BY <2>1, RootFunc
  <2>4. PICK k \in 1..Len(world.imports) :
          world.imports[k].is = "resource" /\ world.imports[k].key.name = i.f.res
    BY <2>2, <2>3, FuncOfItem DEF OfResource
  <2>5. CASE k = next
    <3>1. ComesWith(world.imports, next, n, i.f)
      BY <1>11, <2>2, <2>3, <2>4, <2>5 DEF ComesWith
    <3> QED BY <1>9, <2>3, <3>1
  <2>6. CASE k # next
    <3>1. Kebab(i.f.res)
      BY <2>1, <2>2, RootFunc DEF Named
    <3>2. TakenBy(i.f.res, i.f)
      BY <2>2, <3>1, PrefixOfItself DEF TakenBy
    <3> QED BY <1>0, <1>11, <2>2, <2>3, <2>4, <2>6, <3>2 DEF TakenTwice
  <2> QED BY <2>5, <2>6
<1> QED BY <1>10, <1>11

(* Declarations of the imported item that r belongs to, in the next state. *)
LEMMA SameDeclared ==
  ASSUME world' = world
  PROVE  \A r : DeclaredImport(r)' = DeclaredImport(r)
BY DEF DeclaredImport

(* An imported item keeps its names apart from those before it.            *)
LEMMA ImportItemOnce ==
  ASSUME SInv, OnceInv, DeclaredInv, ImportItem
  PROVE  /\ OnceInv' /\ DeclaredInv'
         /\ pc' = "failed" => ImportFails
<1> SUFFICES ASSUME NEW item, item = world.imports[next],
                    NEW owner, owner = OwnerOf(item),
                    NEW dirs, dirs = Directed(owner, item.resources, "import"),
                    NEW new, new = NewImports(item, dirs),
                    NEW cls, cls = ClassesOf(item),
                    NEW mid, mid = next
             PROVE  /\ OnceInv' /\ DeclaredInv'
                    /\ pc' = "failed" => ImportFails
  OBVIOUS
<1>1. /\ pc = "imports" /\ next <= Len(world.imports) /\ next' = next + 1
      /\ IF Panics(new) THEN pc' = "failed" ELSE pc' = pc
      /\ directions' = dirs /\ imports' = imports \o new /\ classes' = classes \o cls
      /\ importedResources' = importedResources \cup ImportedIn(new)
      /\ world' = world
  BY DEF ImportItem
<1>2. /\ next \in 1..Len(world.imports) /\ TypeInv /\ DirectionsInv /\ ListsInv
      /\ Len(world.imports) \in Nat
  <2>1. next \in Nat \ {0} /\ Len(world.imports) \in Nat
    BY ImportOfWorld DEF SInv, IInv, TypeInv
  <2> QED BY <2>1, <1>1 DEF SInv, IInv
<1>3. /\ Passed = 1..(next - 1)
      /\ pc' # "failed" => Passed' = 1..next
  <2>1. next' - 1 = next
    BY <1>1, <1>2
  <2> QED BY <1>1, <2>1 DEF Passed
<1>4. NewFrom(new, item, dirs) /\ Apart(new)
  BY <1>2, NewImportsAre, NewApart
<1>5. /\ cls \in Seq(ToSet(cls)) /\ IsInjective(cls)
  BY <1>2, ClassesFrom
<1>6. pc' = "failed" => ImportFails
  BY <1>1, <1>2, ImportPanics
<1>7. ASSUME pc' # "failed" PROVE OnceInv'
  <2>1. next \in Passed' /\ \A m \in Passed : m \in Passed' /\ m # next /\ m \in 1..Len(world.imports)
    BY <1>2, <1>3, <1>7
  <2>2. ToSet(imports') = ToSet(imports) \cup ToSet(new) /\ ToSet(classes') = ToSet(classes) \cup ToSet(cls)
    BY <1>1, <1>2, <1>4, <1>5, ConcatSet DEF ListsInv, NewFrom
  <2>3. \A i, m : ImportOf(i, world.imports[m])' = ImportOf(i, world.imports[m])
    BY <1>1, SameFuncs
  <2>4. /\ \A i \in ToSet(imports) : \E m \in Passed : ImportOf(i, world.imports[m])
        /\ \A c \in ToSet(classes) : \E m \in Passed : c \in ToSet(ClassesOf(world.imports[m]))
        /\ ~SpelledAlike(world.imports) /\ ~TakenTwice(world.imports) => Apart(imports)
        /\ ~NamedAlike(world.imports) => IsInjective(classes)
    BY <1>1 DEF OnceInv
  <2>5. ASSUME NEW i \in ToSet(imports') PROVE \E m \in Passed' : ImportOf(i, world.imports[m])
    BY <1>4, <2>1, <2>2, <2>4 DEF NewFrom
  <2>6. ASSUME NEW c \in ToSet(classes')
        PROVE  \E m \in Passed' : c \in ToSet(ClassesOf(world.imports[m]))
    BY <2>1, <2>2, <2>4
  <2>7. ASSUME ~SpelledAlike(world.imports), ~TakenTwice(world.imports) PROVE Apart(imports')
    <3> DEFINE S == ToSet(imports) \cup ToSet(new)
    <3>1. /\ imports \in Seq(ToSet(imports)) /\ new \in Seq(ToSet(new))
          /\ DOMAIN imports = 1..Len(imports) /\ DOMAIN new = 1..Len(new)
      BY <1>2, <1>4, OwnElements DEF ListsInv, NewFrom
    <3>2. imports \in Seq(S) /\ new \in Seq(S)
      BY <3>1, SeqMonotonic
    <3>3. ASSUME NEW k \in 1..Len(imports), NEW l \in 1..Len(new),
                 ImportSymbol(imports[k]) = ImportSymbol(new[l])
          PROVE  FALSE
      <4>1. imports[k] \in ToSet(imports) /\ new[l] \in ToSet(new)
        BY <3>1 DEF ToSet
      <4>2. PICK m \in Passed : ImportOf(imports[k], world.imports[m])
        BY <2>4, <4>1
      <4>3. ImportOf(new[l], world.imports[next])
        BY <1>4, <4>1 DEF NewFrom
      <4>4. m \in 1..Len(world.imports) /\ m # next
        BY <2>1
      <4> QED BY <1>2, <2>7, <3>3, <4>2, <4>3, <4>4, ImportsDiffer
    <3>4. \A k \in 1..Len(imports), l \in 1..Len(new) : ImportSymbol(imports[k]) # ImportSymbol(new[l])
      BY <3>3
    <3> HIDE DEF S
    <3>5. Apart(imports \o new)
      BY <1>4, <2>4, <2>7, <3>2, <3>4, ApartConcat
    <3> QED BY <1>1, <3>5
  <2>8. ASSUME ~NamedAlike(world.imports) PROVE IsInjective(classes')
    <3> DEFINE S == ToSet(classes) \cup ToSet(cls)
    <3>1. classes \in Seq(S) /\ cls \in Seq(S)
      BY <1>2, <1>5, SeqMonotonic DEF ListsInv
    <3>2. \A y \in ToSet(classes) : y \notin ToSet(cls)
      BY <1>2, <2>1, <2>4, <2>8, ClassesApart
    <3> HIDE DEF S
    <3>3. IsInjective(classes \o cls)
      BY <1>5, <2>4, <2>8, <3>1, <3>2, ConcatOnce
    <3> QED BY <1>1, <3>3
  <2>9. next' <= Len(world'.imports) + 1
    BY <1>1, <1>2
  <2> QED BY <1>1, <2>3, <2>5, <2>6, <2>7, <2>8, <2>9 DEF OnceInv
<1>8. ASSUME pc' # "failed" PROVE DeclaredInv'
  <2>1. /\ \A m \in Passed : Declared(world.imports[m]) \subseteq DOMAIN directions
        /\ \A r \in DOMAIN directions : directions[r] = "import" => DeclaredImport(r)
        /\ \A r \in importedResources : DeclaredImport(r)
    BY <1>1 DEF DeclaredInv
  <2>2. Puts(dirs, owner, ToSet(item.resources), "import")
    BY DirectedAre
  <2>3. DOMAIN dirs = DOMAIN directions \cup Declared(item)
    BY <2>2 DEF Puts, Declared
  <2>4. ASSUME NEW m \in Passed' PROVE Declared(world.imports[m]) \subseteq DOMAIN dirs
    <3>1. m = next \/ m \in Passed
      BY <1>2, <1>3, <1>8
    <3> QED BY <2>1, <2>3, <3>1
  <2>5. ASSUME NEW r \in DOMAIN dirs PROVE DeclaredImport(r)
    <3>1. CASE r \in Declared(item)
      BY <1>2, <3>1 DEF DeclaredImport
    <3>2. CASE r \notin Declared(item)
      <4>1. r \in DOMAIN directions
        BY <2>3, <3>2
      <4> QED BY <1>1, <1>2, <2>1, <4>1 DEF DirectionsInv
    <3> QED BY <3>1, <3>2
  <2>6. ASSUME NEW r \in importedResources' PROVE DeclaredImport(r)
    <3>1. CASE r \in importedResources
      BY <2>1, <3>1
    <3>2. CASE r \in ImportedIn(new)
      <4>1. PICK i \in ToSet(new) : r \in DOMAIN i.map /\ i.map[r] = "import"
        BY <3>2 DEF ImportedIn
      <4>2. i.map = ResourceMap(i.f, dirs)
        BY <1>4 DEF NewFrom
      <4>3. r \in DOMAIN dirs
        BY <4>1, <4>2 DEF ResourceMap
      <4> QED BY <2>5, <4>3
    <3> QED BY <1>1, <3>1, <3>2
  <2>7. \A r : DeclaredImport(r)' = DeclaredImport(r)
    BY <1>1, SameDeclared
  <2> QED BY <1>1, <2>4, <2>5, <2>6, <2>7 DEF DeclaredInv
<1>9. pc' = "failed" => OnceInv' /\ DeclaredInv'
  BY DEF OnceInv, DeclaredInv
<1> QED BY <1>6, <1>7, <1>8, <1>9

-----------------------------------------------------------------------------
(* What is generated for an exported item are its functions, each with the *)
(* sides at that moment.                                                   *)
LEMMA ExportsAre ==
  ASSUME NEW item, WellFormed(item), NEW dirs, NEW new, new = ExportsOf(item, dirs),
         NEW i \in ToSet(new)
  PROVE  i.f \in ToSet(item.funcs) /\ i.map = ResourceMap(i.f, dirs)
<1> DEFINE N == Len(item.funcs)
           e(n) == Exported(item.key, item.is = "iface", item.funcs[n],
                            IF item.is = "iface" THEN InterfaceName(item.key) ELSE NoName, dirs)
<1>1. new = [n \in 1..N |-> e(n)]
  BY DEF ExportsOf
<1>2. \A n : e(n).f = item.funcs[n] /\ e(n).map = ResourceMap(item.funcs[n], dirs)
  BY DEF Exported
<1>3. DOMAIN item.funcs = 1..N
  BY DEF WellFormed
<1> HIDE DEF N, e
<1>4. PICK n \in 1..N : i = e(n)
  BY <1>1 DEF ToSet
<1>5. item.funcs[n] \in ToSet(item.funcs)
  BY <1>3 DEF ToSet
<1> QED BY <1>2, <1>4, <1>5

(* The functions of an exported item use nothing that is on no side yet, so *)
(* that only an asynchronous one fails.                                    *)
LEMMA ExportPanics ==
  ASSUME TypeInv, DirectionsInv, DeclaredInv, pc = "exports", next \in 1..Len(world.exports),
         NEW item, item = world.exports[next], item.key \notin EngineServes,
         NEW dirs, dirs = Directed(item.key, item.resources, "export"),
         NEW new, new = ExportsOf(item, dirs), Panics(new)
  PROVE  Asynchronous(BoundExports)
<1>1. /\ OwnersFirst(world) /\ DOMAIN world.exports = 1..Len(world.exports)
      /\ DOMAIN world.imports = 1..Len(world.imports)
      /\ item.is # "resource" /\ WellFormed(item)
  BY OwnersAssumption, ImportOfWorld, ExportOfWorld DEF TypeInv
<1>2. Puts(dirs, item.key, ToSet(item.resources), "export")
  BY DirectedAre
<1>3. DOMAIN dirs = DOMAIN directions \cup Declared(item)
  BY <1>1, <1>2 DEF Puts, Declared, OwnerOf
<1>4. PICK i \in ToSet(new) : i.f.async \/ \E r \in DOMAIN i.map : i.map[r] = "none"
  BY DEF Panics
<1>6. i.f \in ToSet(item.funcs) /\ i.map = ResourceMap(i.f, dirs)
  BY <1>1, <1>4, ExportsAre
<1>a. CASE i.f.async
  <2>1. item \in BoundExports
    BY <1>1 DEF BoundExports, ToSet
  <2> QED BY <1>6, <1>a, <2>1 DEF Asynchronous
<1>b. SUFFICES ASSUME \E r \in DOMAIN i.map : i.map[r] = "none"
               PROVE  FALSE
  BY <1>4, <1>a
<1>5. PICK r \in DOMAIN i.map : i.map[r] = "none"
  BY <1>b
<1>7. r \in i.f.uses /\ r \notin DOMAIN dirs
  <2>1. ASSUME r \in DOMAIN dirs PROVE FALSE
    <3>1. dirs[r] = "none"
      BY <1>5, <1>6, <2>1 DEF ResourceMap
    <3>2. r \in DOMAIN directions /\ directions[r] = "none"
      BY <1>2, <3>1, <2>1 DEF Puts
    <3> QED BY <3>2 DEF DirectionsInv
  <2> QED BY <1>5, <1>6, <2>1 DEF ResourceMap
<1>8. \/ \E d \in DOMAIN world.imports : r \in Declared(world.imports[d])
      \/ \E d \in 1..next : r \in Declared(world.exports[d]) /\ world.exports[d].key \notin EngineServes
  BY <1>1, <1>6, <1>7 DEF OwnersFirst
<1>9. ASSUME NEW d \in DOMAIN world.imports, r \in Declared(world.imports[d]) PROVE FALSE
  <2>1. d \in Passed
    BY <1>1 DEF Passed
  <2> QED BY <1>3, <1>7, <1>9, <2>1 DEF DeclaredInv
<1>10. ASSUME NEW d \in 1..next, r \in Declared(world.exports[d]), world.exports[d].key \notin EngineServes
       PROVE  FALSE
  <2>1. d = next \/ d \in 1..(next - 1)
    OBVIOUS
  <2> QED BY <1>3, <1>7, <1>10, <2>1 DEF DeclaredInv
<1> QED BY <1>8, <1>9, <1>10

(* What an imported item declared is still on a side, and what is on the    *)
(* import side was put there by one.                                       *)
LEMMA ExportItemOnce ==
  ASSUME SInv, OnceInv, DeclaredInv, ExportItem
  PROVE  OnceInv' /\ DeclaredInv' /\ (pc' = "failed" => Asynchronous(BoundExports))
<1> SUFFICES ASSUME NEW item, item = world.exports[next],
                    NEW dirs, dirs = Directed(item.key, item.resources, "export"),
                    NEW new, new = ExportsOf(item, dirs)
             PROVE  OnceInv' /\ DeclaredInv' /\ (pc' = "failed" => Asynchronous(BoundExports))
  OBVIOUS
<1>1. /\ pc = "exports" /\ next <= Len(world.exports) /\ item.key \notin EngineServes
      /\ IF Panics(new) THEN pc' = "failed" ELSE pc' = pc
      /\ directions' = dirs /\ next' = next + 1
      /\ importedResources' = importedResources \cup ImportedIn(new)
      /\ world' = world /\ imports' = imports /\ classes' = classes
  BY DEF ExportItem
<1>2. /\ next \in 1..Len(world.exports) /\ TypeInv /\ DirectionsInv
      /\ item.is # "resource" /\ WellFormed(item)
  <2>1. next \in Nat \ {0} /\ Len(world.exports) \in Nat
    BY ExportOfWorld DEF SInv, IInv, TypeInv
  <2>2. next \in 1..Len(world.exports)
    BY <2>1, <1>1
  <2> QED BY <2>2, ExportOfWorld DEF SInv, IInv
<1>f. CASE pc' = "failed"
  <2>1. Asynchronous(BoundExports)
    BY <1>f, <1>1, <1>2, ExportPanics
  <2> QED BY <1>f, <2>1 DEF OnceInv, DeclaredInv
<1>e. SUFFICES ASSUME pc' # "failed" PROVE OnceInv' /\ DeclaredInv'
  BY <1>f
<1>3. ~Panics(new) /\ pc' = "exports"
  BY <1>1, <1>e
<1>4. Passed' = Passed
  BY <1>1, <1>3 DEF Passed
<1>5. OnceInv'
  <2>1. \A i, m : ImportOf(i, world.imports[m])' = ImportOf(i, world.imports[m])
    BY <1>1, SameFuncs
  <2>2. Apart(imports)' = Apart(imports)
    BY <1>1 DEF Apart
  <2> QED BY <1>1, <1>3, <1>4, <2>1, <2>2 DEF OnceInv
<1>6. Puts(dirs, item.key, ToSet(item.resources), "export")
  BY DirectedAre
<1>7. DOMAIN dirs = DOMAIN directions \cup Declared(item)
  BY <1>2, <1>6 DEF Puts, Declared, OwnerOf
<1>8. ASSUME NEW r \in DOMAIN dirs, dirs[r] = "import" PROVE DeclaredImport(r)
  <2>1. r \notin {Resource(item.key, n) : n \in ToSet(item.resources)} /\ directions[r] = "import"
    BY <1>6, <1>8 DEF Puts
  <2>2. r \in DOMAIN directions
    BY <1>6, <2>1 DEF Puts
  <2> QED BY <1>1, <2>1, <2>2 DEF DeclaredInv
<1>9. ASSUME NEW r \in ImportedIn(new) PROVE DeclaredImport(r)
  <2>1. PICK i \in ToSet(new) : r \in DOMAIN i.map /\ i.map[r] = "import"
    BY <1>9 DEF ImportedIn
  <2>2. i.map = ResourceMap(i.f, dirs)
    BY <1>2, <2>1, ExportsAre
  <2>3. r \in DOMAIN dirs /\ dirs[r] = "import"
    BY <2>1, <2>2 DEF ResourceMap
  <2> QED BY <1>8, <2>3
<1>10. ASSUME NEW d \in 1..next, world.exports[d].key \notin EngineServes
       PROVE  Declared(world.exports[d]) \subseteq DOMAIN dirs
  <2>1. d = next \/ d \in 1..(next - 1)
    BY <1>2
  <2> QED BY <1>1, <1>7, <1>10, <2>1 DEF DeclaredInv
<1>11. DeclaredInv'
  <2>1. \A r : DeclaredImport(r)' = DeclaredImport(r)
    BY <1>1, SameDeclared
  <2>2. next' - 1 = next
    BY <1>1, <1>2
  <2>3. \A m \in Passed : Declared(world.imports[m]) \subseteq DOMAIN dirs
    BY <1>1, <1>7 DEF DeclaredInv
  <2>4. \A r \in importedResources' : DeclaredImport(r)
    BY <1>1, <1>9 DEF DeclaredInv
  <2> QED BY <1>1, <1>4, <1>8, <1>10, <2>1, <2>2, <2>3, <2>4 DEF DeclaredInv
<1> QED BY <1>5, <1>11

(* Steps that generate nothing.                                            *)
LEMMA OnceStays ==
  ASSUME OnceInv, DeclaredInv, pc # "failed",
         UNCHANGED <<world, directions, imports, importedResources, classes>>,
         Passed' = Passed,
         pc' = "imports" => pc = "imports" /\ next' = next,
         pc' = "exports" => \A d \in 1..(next' - 1) :
           \/ world.exports[d].key \in EngineServes
           \/ pc = "exports" /\ d \in 1..(next - 1)
  PROVE  OnceInv' /\ DeclaredInv'
<1>1. \A i, m : ImportOf(i, world.imports[m])' = ImportOf(i, world.imports[m])
  BY SameFuncs
<1>2. Apart(imports)' = Apart(imports)
  BY DEF Apart
<1>3. OnceInv'
  BY <1>1, <1>2 DEF OnceInv
<1>4. \A r : DeclaredImport(r)' = DeclaredImport(r)
  BY SameDeclared
<1>5. DeclaredInv'
  BY <1>4 DEF DeclaredInv
<1> QED BY <1>3, <1>5

(* What has been generated stays apart in every step.                      *)
LEMMA OnceStep ==
  ASSUME SInv, OnceInv, DeclaredInv, [Next]_vars
  PROVE  OnceInv' /\ DeclaredInv'
<1>1. CASE pc' = "failed"
  BY <1>1 DEF OnceInv, DeclaredInv
<1>2. CASE ImportItem
  BY <1>2, ImportItemOnce
<1>3. CASE ExportItem
  BY <1>3, ExportItemOnce
<1>4. TypeInv /\ next \in Nat \ {0} /\ Len(world.imports) \in Nat /\ Len(world.exports) \in Nat
  BY ImportOfWorld, ExportOfWorld DEF SInv, IInv, TypeInv
<1>5. CASE ImportsDone
  <2>1. /\ pc = "imports" /\ pc' = "exports" /\ next > Len(world.imports) /\ next' = 1
        /\ UNCHANGED <<world, directions, imports, importedResources, classes>>
    BY <1>5 DEF ImportsDone
  <2>2. next = Len(world.imports) + 1
    BY <1>4, <2>1 DEF OnceInv
  <2>3. Passed' = Passed
    BY <1>4, <2>1, <2>2 DEF Passed
  <2>4. \A d \in 1..(next' - 1) : FALSE
    BY <2>1
  <2> QED BY <2>1, <2>3, <2>4, OnceStays
<1>6. CASE SkipExport
  <2>1. /\ pc = "exports" /\ pc' = pc /\ world.exports[next].key \in EngineServes /\ next' = next + 1
        /\ UNCHANGED <<world, directions, imports, importedResources, classes>>
    BY <1>6 DEF SkipExport
  <2>2. Passed' = Passed
    BY <2>1 DEF Passed
  <2>3. \A d \in 1..(next' - 1) : d = next \/ d \in 1..(next - 1)
    BY <1>4, <2>1
  <2> QED BY <2>1, <2>2, <2>3, OnceStays
<1>7. CASE pc' # "failed" /\ Next /\ ~(GenNext /\ ~PopulateAliases)
  <2>1. /\ UNCHANGED <<world, directions, imports, importedResources, classes>>
        /\ pc # "failed" /\ pc # "imports" /\ pc' # "imports" /\ pc' # "exports"
    BY <1>7 DEF Next, Generate, GenNext, PopulateAliases,
         SpliceImport, PlaceWrappers, SpliceExports, Install, Evaluate, EvaluationFails,
         BindExports, BindFails, InitFn, FnsDone, Stopped, vars, genVars, generated, linkVars
  <2>2. Passed' = Passed
    BY <2>1 DEF Passed
  <2> QED BY <2>1, <2>2, OnceStays
<1>8. CASE pc' # "failed" /\ UNCHANGED vars
  <2>1. UNCHANGED <<pc, next, world, directions, imports, importedResources, classes>> /\ pc # "failed"
    BY <1>8 DEF vars, genVars, generated
  <2>2. Passed' = Passed
    BY <2>1 DEF Passed
  <2> QED BY <2>1, <2>2, OnceStays
<1> QED BY <1>1, <1>2, <1>3, <1>5, <1>6, <1>7, <1>8 DEF GenNext, Next

-----------------------------------------------------------------------------
(* The symbols of other worlds are distinct: those of imports and those of *)
(* intrinsics each have a prefix of their own.                             *)
LEMMA SymbolsApart ==
  ASSUME TypeInv, OnceInv, DeclaredInv, ListsInv, pc \notin {"imports", "failed"}, ~Excepted
  PROVE  IsInjective(Symbols)
<1> DEFINE N == Len(imports)
           M == Len(ResourceBindings)
           u == [n \in 1..N |-> ImportSymbol(imports[n])]
           x == [k \in 1..M |-> ResourceSymbol(ResourceBindings[k])]
           S == ToSet(u) \cup ToSet(x)
<1>1. N \in Nat /\ Apart(imports)
  BY DEF ListsInv, OnceInv, Excepted
<1>2. M \in Nat /\ DOMAIN ResourceBindings = 1..M /\ IsInjective(ResourceBindings)
  <2>1. ResourceBindings \in Seq(ToSet(ResourceBindings)) /\ IsInjective(ResourceBindings)
    BY IntrinsicsAligned, BindingsOnce DEF DeclaredInv, Excepted
  <2> QED BY <2>1
<1>3. Symbols = u \o x
  BY DEF Symbols
<1> HIDE DEF N, M
<1>4. /\ u \in Seq(ToSet(u)) /\ DOMAIN u = 1..N
      /\ x \in Seq(ToSet(x)) /\ DOMAIN x = 1..M
  BY <1>1, <1>2, SeqOfFunction
<1>5. IsInjective(u)
  BY <1>1 DEF Apart, IsInjective, N
<1>6. IsInjective(x)
  BY <1>2 DEF IsInjective, ResourceSymbol
<1>7. ASSUME NEW y \in ToSet(u), y \in ToSet(x) PROVE FALSE
  <2>1. PICK n \in 1..N : y = ImportSymbol(imports[n])
    BY <1>4 DEF ToSet
  <2>2. PICK k \in 1..M : y = ResourceSymbol(ResourceBindings[k])
    BY <1>4, <1>7 DEF ToSet
  <2>3. y[1] = "$import_" /\ y[1] = "$resource_"
    BY <2>1, <2>2 DEF ImportSymbol, ResourceSymbol
  <2> QED BY <2>3
<1> HIDE DEF u, x
<1>8. u \in Seq(S) /\ x \in Seq(S)
  BY <1>4, SeqMonotonic
<1> HIDE DEF S
<1> QED BY <1>3, <1>5, <1>6, <1>7, <1>8, ConcatOnce

(* Different interfaces have no variable in common unless they have        *)
(* resources of the same name.                                             *)
LEMMA LocalsApart ==
  ASSUME TypeInv, EsmInv, ~SameResource(world.exports), NEW d \in esm, NEW e \in esm,
         d.local = e.local
  PROVE  d.js = e.js
<1>1. PICK a \in ToSet(world.exports) : \E f \in ToSet(a.funcs) : d = Entry(a, f)
  BY DEF EsmInv, BoundExports
<1>2. PICK f \in ToSet(a.funcs) : d = Entry(a, f)
  BY <1>1
<1>3. PICK b \in ToSet(world.exports) : \E g \in ToSet(b.funcs) : e = Entry(b, g)
  BY DEF EsmInv, BoundExports
<1>4. PICK g \in ToSet(b.funcs) : e = Entry(b, g)
  BY <1>3
<1>5. d.js = a.key /\ e.js = b.key /\ LocalOf(a.key, f) = LocalOf(b.key, g)
  BY <1>2, <1>4 DEF Entry
<1>6. /\ a.key # Root /\ b.key # Root /\ WellFormed(a) /\ WellFormed(b)
      /\ a.is # "resource" /\ b.is # "resource"
  BY WorldAssumption DEF TypeInv, WellFormed
<1>7. CASE f.kind = "free" /\ g.kind = "free"
  BY <1>5, <1>7 DEF LocalOf, Local
<1>8. CASE f.kind = "free" /\ g.kind # "free"
  BY <1>5, <1>6, <1>8 DEF LocalOf, Local
<1>9. CASE f.kind # "free" /\ g.kind = "free"
  BY <1>5, <1>6, <1>9 DEF LocalOf, Local
<1>10. CASE f.kind # "free" /\ g.kind # "free"
  <2>1. UpperCamel(f.res) = UpperCamel(g.res)
    BY <1>5, <1>10 DEF LocalOf, Local
  <2>2. Kebab(f.res) /\ Kebab(g.res)
    BY <1>2, <1>4, <1>6, <1>10 DEF WellFormed
  <2>3. f.res = g.res
    BY <2>1, <2>2, CamelIsNoKebab
  <2>4. /\ a.is = "func" => a.funcs[1].kind = "free"
        /\ b.is = "func" => b.funcs[1].kind = "free"
    BY NamesOfWorld
  <2>5. \A item \in {a, b} : item.is = "func" => \A h \in ToSet(item.funcs) : h = item.funcs[1]
    BY <1>6, OwnElements DEF WellFormed, ToSet
  <2>6. a.is = "iface" /\ b.is = "iface"
    BY <1>2, <1>4, <1>6, <1>10, <2>4, <2>5 DEF WellFormed
  <2>7. f.res \in ToSet(a.resources) /\ f.res \in ToSet(b.resources)
    BY <1>2, <1>4, <1>6, <1>10, <2>3, <2>6 DEF WellFormed
  <2>8. PICK m \in DOMAIN world.exports : a = world.exports[m]
    BY DEF ToSet
  <2>9. PICK n \in DOMAIN world.exports : b = world.exports[n]
    BY DEF ToSet
  <2>10. m = n
    BY <2>7, <2>8, <2>9 DEF SameResource
  <2> QED BY <1>5, <2>8, <2>9, <2>10
<1> QED BY <1>7, <1>8, <1>9, <1>10

(* Only the bindings of those worlds declare a name twice.                 *)
LEMMA ClashExcepted ==
  ASSUME TypeInv, EsmInv, OnceInv, DeclaredInv, ListsInv, pc \notin {"imports", "failed"},
         DeclarationsClash
  PROVE  Excepted
<1> SUFFICES ASSUME ~Excepted PROVE FALSE
  OBVIOUS
<1>1. IsInjective(Symbols) /\ IsInjective(classes)
  BY SymbolsApart DEF OnceInv, Excepted
<1>2. \A d, e \in esm : d.local = e.local => d.js = e.js
  BY LocalsApart DEF Excepted
<1>3. ASSUME NEW e \in esm PROVE ~NamedLikeScript(e)
  <2>1. PICK item \in BoundExports : \E f \in ToSet(item.funcs) : e = Entry(item, f)
    BY DEF EsmInv
  <2>2. e \in EsmOf(item)
    BY <2>1 DEF EsmOf, Entry
  <2> QED BY <2>1, <2>2 DEF Excepted, LikeScript
<1> QED BY <1>1, <1>2, <1>3 DEF DeclarationsClash

(* A world that is excepted stays so.                                      *)
LEMMA ExceptedStays ==
  ASSUME world' = world
  PROVE  Excepted' = Excepted
BY DEF Excepted, LikeScript, BoundExports

(* The invariant holds before the first item.                              *)
LEMMA WInit == Init => WInv
<1> SUFFICES ASSUME Init PROVE WInv
  OBVIOUS
<1>1. SInv
  BY SInit
<1>2. /\ pc = "imports" /\ next = 1 /\ imports = <<>> /\ classes = <<>>
      /\ directions = NoFunction /\ importedResources = {}
  BY DEF Init, GenInit
<1>3. Len(world.imports) \in Nat
  BY <1>1, ImportOfWorld DEF SInv, IInv
<1>4. ToSet(imports) = {} /\ ToSet(classes) = {} /\ Passed = {} /\ DOMAIN directions = {}
  BY <1>2 DEF ToSet, Passed, NoFunction
<1>5. Apart(imports) /\ IsInjective(classes)
  BY <1>2 DEF Apart, IsInjective
<1>6. OnceInv
  BY <1>2, <1>3, <1>4, <1>5 DEF OnceInv
<1>7. DeclaredInv
  BY <1>2, <1>4 DEF DeclaredInv
<1> QED BY <1>1, <1>2, <1>6, <1>7 DEF WInv, OtherWorldsEvaluate

(* Generation and evaluation fail for the excepted worlds only.            *)
LEMMA WStep == WInv /\ [Next]_vars => WInv'
<1> SUFFICES ASSUME WInv, [Next]_vars PROVE WInv'
  OBVIOUS
<1>1. SInv' /\ OnceInv' /\ DeclaredInv'
  BY SStep, OnceStep DEF WInv
<1>2. SUFFICES ASSUME pc' = "failed" PROVE Excepted'
  BY <1>1 DEF WInv, OtherWorldsEvaluate, Excepted
<1>3. CASE ImportItem
  <2>1. ImportFails
    BY <1>2, <1>3, ImportItemOnce DEF WInv
  <2>2. world' = world
    BY <1>3 DEF ImportItem
  <2>3. Excepted
    BY <2>1 DEF Excepted, ImportFails
  <2> QED BY <2>2, <2>3, ExceptedStays
<1>4. CASE ExportItem
  <2>1. Asynchronous(BoundExports)
    BY <1>2, <1>4, ExportItemOnce DEF WInv
  <2>2. world' = world
    BY <1>4 DEF ExportItem
  <2>3. Excepted
    BY <2>1 DEF Excepted
  <2> QED BY <2>2, <2>3, ExceptedStays
<1>5. CASE EvaluationFails
  <2>1. pc = "evaluate" /\ DeclarationsClash /\ UNCHANGED generated
    BY <1>5 DEF EvaluationFails
  <2>2. Excepted
    BY <2>1, ClashExcepted DEF WInv, SInv, IInv
  <2> QED BY <2>1, <2>2, ExceptedStays DEF generated
<1>6. CASE Stopped \/ UNCHANGED vars
  <2>1. pc = "failed" /\ UNCHANGED generated
    BY <1>2, <1>6 DEF Stopped, vars, genVars
  <2>2. Excepted
    BY <2>1 DEF WInv, OtherWorldsEvaluate, Excepted
  <2> QED BY <2>1, <2>2, ExceptedStays DEF generated
<1>7. CASE ImportsDone \/ SkipExport \/ PopulateAliases
  <2>1. pc \in {"imports", "exports"} /\ (pc' = pc \/ pc' \in {"exports", "splice"})
    BY <1>7 DEF ImportsDone, SkipExport, PopulateAliases
  <2> QED BY <1>2, <2>1
<1>8. CASE \/ SpliceImport \/ PlaceWrappers \/ SpliceExports \/ Install \/ Evaluate
           \/ BindExports \/ BindFails \/ InitFn \/ FnsDone
  <2>1. pc # "failed" /\ (pc' = pc \/ pc' \in Later)
    BY <1>8 DEF SpliceImport, PlaceWrappers, SpliceExports, Install, Evaluate, BindExports,
         BindFails, InitFn, FnsDone, genVars, Later
  <2> QED BY <1>2, <2>1 DEF Later
<1> QED BY <1>3, <1>4, <1>5, <1>6, <1>7, <1>8 DEF Next, Generate, GenNext

(* Every world evaluates that is not excepted: what it takes is that the    *)
(* names wit-parser keeps apart stay apart in the script, and that what a  *)
(* function uses has been put on a side before it.                         *)
THEOREM OtherWorldsDoEvaluate == Spec => []OtherWorldsEvaluate
<1>1. WInv => OtherWorldsEvaluate
  BY DEF WInv
<1> QED BY <1>1, WInit, WStep, PTL DEF Spec
=============================================================================

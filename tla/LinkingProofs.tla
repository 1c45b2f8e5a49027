--------------------------- MODULE LinkingProofs ---------------------------
(* Proofs about Linking: what holds of the generated bindings, the spliced *)
(* module and the initialised component for every set of worlds and of     *)
(* engine modules that keep to the assumptions of Bindgen and Linking. The *)
(* inductive invariant IInv follows the exports: from the item of the      *)
(* world (exports_bindgen), through bindExports and the list of wrappers   *)
(* (esm_bindgen.rs), to the numbers in the export section (splice.rs) and  *)
(* the functions that init_fns records (embedding.cpp). SplicingProofs     *)
(* adds what the imports need.                                             *)
EXTENDS Linking, TLAPS, SequenceTheorems, WellFoundedInduction

(* The values of pc once the source has been generated; once the export    *)
(* section is numbered; and once the script has been evaluated.            *)
Later == {"splice", "export", "install", "evaluate", "bind", "fns", "initialised"}
Numbered == {"install", "evaluate", "bind", "fns", "initialised"}
Evaluated == {"bind", "fns", "initialised"}

(* pc, the world, the place in its items, and the error of check_init.     *)
TypeInv ==
  /\ pc \in {"imports", "exports", "failed"} \cup Later
  /\ world \in Worlds
  /\ next \in Nat \ {0}
  /\ initErr \in {"OK", "FnList"}
  /\ pc # "initialised" => initErr = "OK"

(* What esm_bindgen records for a function of an exported item.            *)
Entry(item, f) ==
  [js |-> item.key, iface |-> item.is = "iface",
   member |-> IF item.is = "iface" THEN External(f) ELSE NoName,
   local |-> LocalOf(item.key, f)]

(* What the n-th export comes from: a function of an item of the world,    *)
(* which bindExports has an entry for.                                     *)
ComesFrom(e, item, f) ==
  /\ e.name = item.key /\ e.iface = (item.is = "iface") /\ e.f = f
  /\ e.callee = LocalOf(item.key, f)
  /\ Entry(item, f) \in esm

(* Each export that exports_bindgen made comes from an item of the world.  *)
ExportsInv ==
  /\ exports \in Seq(ToSet(exports))
  /\ \A e \in ToSet(exports) :
       \E item \in ToSet(world.exports) : \E f \in ToSet(item.funcs) : ComesFrom(e, item, f)

(* bindExports has an entry for nothing else.                              *)
EsmInv ==
  \A e \in esm :
    \E item \in BoundExports : \E f \in ToSet(item.funcs) : e = Entry(item, f)

(* populate_export_aliases has recorded the alias of each name that has    *)
(* one.                                                                    *)
AliasesInv ==
  pc \in Later => aliases = {<<k, AliasOf(k)>> : k \in {n \in ExportNames : HasAlias(n)}}

(* splice.rs numbers the exports in the order in which they were           *)
(* generated.                                                              *)
NumbersInv ==
  pc \in Numbered =>
    exportNumbers = [n \in 1..Len(exports) |-> [name |-> WasmName(exports[n]), num |-> n - 1]]

(* A script that has been evaluated declares nothing twice.                *)
ClashInv == pc \in Evaluated => ~DeclarationsClash

(* Each variable holds a member of an object found for an entry.           *)
LocalsBound ==
  /\ DOMAIN locals = {e.local : e \in esm}
  /\ \A l \in DOMAIN locals : \E e \in esm :
       e.local = l /\ locals[l].js \in Found(e.js) /\ locals[l].member = e.member

(* bindExports has filled the variables when the wrappers are listed, and  *)
(* they keep their values.                                                 *)
LocalsInv == pc = "fns" \/ Ready => LocalsBound

(* init_fns takes the wrappers in the order of the exports; each is the    *)
(* last declaration of its name, and at the end none is missing.           *)
FnsInv ==
  /\ fns \in Seq(DOMAIN exports)
  /\ pc \notin {"fns", "initialised"} => fns = <<>>
  /\ Len(fns) <= Len(exports)
  /\ \A n \in DOMAIN fns : exports[fns[n]].binding = exports[n].binding
  /\ Ready => Len(fns) = Len(exports)

(* check_init has refused nothing that it refuses for its exports' sake.   *)
RefusedInv ==
  initErr = "FnList" => source.lacking # {} \/ ~(ExportNames \subseteq source.objects)

(* The inductive invariant. ExportsRunOwn relates a number of the export   *)
(* section, a place in fns and a variable of bindExports; none of these    *)
(* steps sees more than one of the three lists, so the invariant ties each *)
(* of them to the list exports and to the world.                           *)
IInv ==
  /\ TypeInv /\ ExportsInv /\ EsmInv /\ AliasesInv /\ NumbersInv /\ ClashInv
  /\ LocalsInv /\ FnsInv /\ RefusedInv

-----------------------------------------------------------------------------
(* The invariant holds before the first item.                              *)
LEMMA InitInv == Init => IInv
<1> SUFFICES ASSUME Init PROVE IInv
  OBVIOUS
<1> USE DEF Init, GenInit
<1>1. TypeInv
  BY DEF TypeInv
<1>2. ExportsInv
  BY DEF ExportsInv, ToSet
<1>3. EsmInv
  BY DEF EsmInv
<1>4. AliasesInv /\ NumbersInv /\ ClashInv /\ LocalsInv /\ RefusedInv
  BY DEF AliasesInv, NumbersInv, ClashInv, LocalsInv, RefusedInv, Later, Numbered, Evaluated,
         Ready
<1>5. FnsInv
  BY DEF FnsInv, Ready
<1> QED BY <1>1, <1>2, <1>3, <1>4, <1>5 DEF IInv

(* An item of the world keeps to the assumption. *)
LEMMA ItemOfWorld ==
  ASSUME TypeInv, NEW n \in 1..Len(world.exports)
  PROVE  /\ world.exports[n] \in ToSet(world.exports)
         /\ WellFormed(world.exports[n])
         /\ world.exports[n].key \in ToSet(NameOrder)
         /\ DOMAIN world.exports[n].funcs = 1..Len(world.exports[n].funcs)
         /\ Len(world.exports[n].funcs) \in Nat
<1>1. Keyed(world.exports) /\ \A item \in ToSet(world.exports) :
        WellFormed(item) /\ item.key \in ToSet(NameOrder)
  BY WorldAssumption DEF TypeInv
<1>2. DOMAIN world.exports = 1..Len(world.exports)
  BY <1>1 DEF Keyed
<1>3. world.exports[n] \in ToSet(world.exports)
  BY <1>2 DEF ToSet
<1>4. world.exports[n].funcs \in Seq(ToSet(world.exports[n].funcs))
  BY <1>1, <1>3 DEF WellFormed
<1> QED BY <1>1, <1>3, <1>4

(* The bindings depend on what has been generated only. *)
LEMMA SameBindings ==
  ASSUME UNCHANGED generated
  PROVE  /\ Symbols' = Symbols
         /\ ResourceImports' = ResourceImports
         /\ DeclarationsClash' = DeclarationsClash
<1> USE DEF generated
<1>1. ExportedResources' = ExportedResources /\ ImportedResources' = ImportedResources
  BY DEF ExportedResources, ImportedResources, Flatten
<1>2. ResourceBindings' = ResourceBindings /\ ResourceImports' = ResourceImports
  BY <1>1 DEF ResourceBindings, ResourceImports, Flatten
<1>3. Symbols' = Symbols
  BY <1>2 DEF Symbols
<1>4. DeclarationsClash' = DeclarationsClash
  BY <1>3 DEF DeclarationsClash
<1> QED BY <1>2, <1>3, <1>4

(* A step that generates nothing more leaves the exports and their         *)
(* entries.                                                                *)
LEMMA GeneratedKept ==
  ASSUME IInv, UNCHANGED generated
  PROVE  /\ ExportsInv' /\ EsmInv'
         /\ (pc \in Later => AliasesInv')
BY DEF IInv, ExportsInv, EsmInv, BoundExports, AliasesInv, generated, ComesFrom, ExportNames, HasAlias, Entry
(* The elements of a concatenation. *)
LEMMA ConcatSet ==
  ASSUME NEW s, s \in Seq(ToSet(s)), NEW t, t \in Seq(ToSet(t))
  PROVE  /\ s \o t \in Seq(ToSet(s \o t))
         /\ ToSet(s \o t) = ToSet(s) \cup ToSet(t)
         /\ Len(s \o t) = Len(s) + Len(t)
<1> DEFINE S == ToSet(s)
           T == ToSet(t)
           u == s \o t
<1>1. S \subseteq S \cup T /\ T \subseteq S \cup T
  OBVIOUS
<1>2. s \in Seq(S \cup T) /\ t \in Seq(S \cup T)
  BY <1>1, SeqMonotonic
<1>3. DOMAIN s = 1..Len(s) /\ DOMAIN t = 1..Len(t) /\ Len(s) \in Nat /\ Len(t) \in Nat
  OBVIOUS
<1>4. /\ u \in Seq(S \cup T) /\ Len(u) = Len(s) + Len(t)
      /\ \A k \in 1..Len(s) : u[k] = s[k]
      /\ \A k \in 1..Len(t) : u[Len(s) + k] = t[k]
  <2> HIDE DEF S, T
  <2>1. \A k \in 1..(Len(s) + Len(t)) : u[k] = IF k <= Len(s) THEN s[k] ELSE t[k - Len(s)]
    BY <1>2, ConcatProperties
  <2> QED BY <1>2, <1>3, <2>1, ConcatProperties
<1>5. DOMAIN u = 1..(Len(s) + Len(t))
  BY <1>4
<1> HIDE DEF u
<1>6. S \subseteq ToSet(u)
  <2> SUFFICES ASSUME NEW k \in 1..Len(s) PROVE s[k] \in ToSet(u)
    BY <1>3 DEF ToSet
  <2> QED BY <1>3, <1>4, <1>5 DEF ToSet
<1>7. T \subseteq ToSet(u)
  <2> SUFFICES ASSUME NEW k \in 1..Len(t) PROVE t[k] \in ToSet(u)
    BY <1>3 DEF ToSet
  <2>1. Len(s) + k \in DOMAIN u
    BY <1>3, <1>5
  <2> QED BY <2>1, <1>4 DEF ToSet
<1>8. ToSet(u) \subseteq S \cup T
  <2> HIDE DEF S, T
  <2> SUFFICES ASSUME NEW k \in DOMAIN u PROVE u[k] \in S \cup T
    BY DEF ToSet
  <2> QED BY <1>4, <1>5
<1>9. ToSet(u) = S \cup T
  BY <1>6, <1>7, <1>8
<1> QED BY <1>4, <1>9 DEF u

(* No error is recorded before initialisation has ended.                   *)
LEMMA AllRefused == IInv /\ pc # "initialised" => initErr = "OK"
BY DEF IInv, TypeInv

(* Items that are imported add no exports.                                 *)
LEMMA ImportsKeep ==
  ASSUME IInv, ImportItem \/ ImportsDone, UNCHANGED linkVars
  PROVE  IInv'
<1> USE DEF IInv, linkVars, spliced, initialised
<1>1. UNCHANGED <<world, exports, esm, aliases>> /\ pc = "imports"
      /\ pc' \in {"imports", "exports", "failed"}
  BY DEF ImportItem, ImportsDone
<1>2. TypeInv'
  <2>1. next' \in Nat \ {0}
    BY DEF ImportItem, ImportsDone, TypeInv
  <2> QED BY <1>1, <2>1 DEF TypeInv
<1>3. ExportsInv' /\ EsmInv'
  BY <1>1 DEF ExportsInv, EsmInv, BoundExports, ComesFrom
<1>4. AliasesInv' /\ NumbersInv' /\ ClashInv' /\ LocalsInv' /\ RefusedInv'
  BY <1>1, AllRefused
  DEF AliasesInv, NumbersInv, ClashInv, LocalsInv, RefusedInv, Later, Numbered, Evaluated, Ready
<1>5. FnsInv'
  BY <1>1 DEF FnsInv, Ready
<1> QED BY <1>2, <1>3, <1>4, <1>5

(* An exported item adds its functions to both lists at once.              *)
LEMMA ExportItemKeeps ==
  ASSUME IInv, ExportItem, UNCHANGED linkVars
  PROVE  IInv'
<1> USE DEF linkVars, spliced, initialised
<1> SUFFICES ASSUME NEW item, item = world.exports[next],
                    NEW dirs, dirs = Directed(item.key, item.resources, "export")
             PROVE  IInv'
  OBVIOUS
<1> DEFINE new == ExportsOf(item, dirs)
<1>1. /\ pc = "exports" /\ next <= Len(world.exports) /\ pc' \in {"exports", "failed"}
      /\ exports' = exports \o new /\ esm' = esm \cup EsmOf(item)
      /\ next' = next + 1 /\ world' = world /\ item.key \notin EngineServes
  BY DEF ExportItem
<1>2. next \in 1..Len(world.exports) /\ next' \in Nat \ {0}
  <2>1. Keyed(world.exports)
    BY WorldAssumption DEF IInv, TypeInv
  <2>2. Len(world.exports) \in Nat
    BY <2>1 DEF Keyed
  <2> QED BY <1>1, <2>2 DEF IInv, TypeInv
<1>3. /\ item \in ToSet(world.exports)
      /\ DOMAIN item.funcs = 1..Len(item.funcs) /\ Len(item.funcs) \in Nat
  BY <1>2, ItemOfWorld DEF IInv
<1>4. TypeInv'
  BY <1>1, <1>2 DEF IInv, TypeInv
<1>5. EsmOf(item) = {Entry(item, f) : f \in ToSet(item.funcs)}
  BY DEF EsmOf, Entry
<1>6. \A e \in ToSet(new) : \E f \in ToSet(item.funcs) :
        /\ e.name = item.key /\ e.iface = (item.is = "iface") /\ e.f = f
        /\ e.callee = LocalOf(item.key, f)
  <2>1. DOMAIN new = 1..Len(item.funcs)
    BY DEF ExportsOf
  <2>2. ASSUME NEW n \in 1..Len(item.funcs)
        PROVE  /\ new[n].name = item.key /\ new[n].iface = (item.is = "iface")
               /\ new[n].f = item.funcs[n]
               /\ new[n].callee = LocalOf(item.key, item.funcs[n])
    BY DEF ExportsOf, Exported
  <2>3. \A n \in 1..Len(item.funcs) : item.funcs[n] \in ToSet(item.funcs)
    BY <1>3 DEF ToSet
  <2> HIDE DEF new
  <2> QED BY <2>1, <2>2, <2>3 DEF ToSet
<1>7. new \in Seq(ToSet(new))
  BY <1>3 DEF ExportsOf, ToSet
<1>8. exports' \in Seq(ToSet(exports')) /\ ToSet(exports') = ToSet(exports) \cup ToSet(new)
  BY <1>1, <1>7, ConcatSet DEF IInv, ExportsInv
<1> HIDE DEF new
<1>9. ExportsInv'
  <2>1. ASSUME NEW e \in ToSet(exports')
        PROVE  \E it \in ToSet(world.exports) : \E f \in ToSet(it.funcs) : ComesFrom(e, it, f)'
    <3>1. CASE e \in ToSet(exports)
      <4>1. PICK it \in ToSet(world.exports) : \E f \in ToSet(it.funcs) : ComesFrom(e, it, f)
        BY <3>1 DEF IInv, ExportsInv
      <4> QED BY <4>1, <1>1 DEF ComesFrom
    <3>2. CASE e \in ToSet(new)
      <4>1. PICK f \in ToSet(item.funcs) :
              /\ e.name = item.key /\ e.iface = (item.is = "iface") /\ e.f = f
              /\ e.callee = LocalOf(item.key, f)
        BY <3>2, <1>6
      <4>2. Entry(item, f) \in esm'
        BY <1>1, <1>5
      <4>3. ComesFrom(e, item, f)'
        BY <4>1, <4>2 DEF ComesFrom
      <4> QED BY <4>3, <1>3
    <3> QED BY <3>1, <3>2, <1>8
  <2> QED BY <2>1, <1>1, <1>8 DEF ExportsInv
<1>10. EsmInv'
  <2>1. item \in BoundExports /\ BoundExports' = BoundExports
    BY <1>1, <1>3 DEF BoundExports
  <2> QED BY <1>1, <1>5, <2>1 DEF IInv, EsmInv
<1>11. AliasesInv' /\ NumbersInv' /\ ClashInv' /\ LocalsInv' /\ RefusedInv'
  BY <1>1, AllRefused
  DEF IInv, AliasesInv, NumbersInv, ClashInv, LocalsInv, RefusedInv, Later, Numbered, Evaluated,
      Ready
<1>12. FnsInv'
  <2>1. fns' = <<>> /\ Len(exports') \in Nat
    BY <1>1, <1>8 DEF IInv, FnsInv
  <2> QED BY <1>1, <2>1 DEF FnsInv, Ready
<1> QED BY <1>4, <1>9, <1>10, <1>11, <1>12 DEF IInv

(* The other steps of the generator keep the invariant.                    *)
LEMMA RestOfGenerationKeeps ==
  ASSUME IInv, SkipExport \/ PopulateAliases, UNCHANGED linkVars
  PROVE  IInv'
<1> USE DEF linkVars, spliced, initialised
<1>1. /\ UNCHANGED <<world, exports, esm>> /\ pc = "exports" /\ next' \in Nat \ {0}
      /\ pc' \in {"exports", "splice"}
  BY DEF SkipExport, PopulateAliases, IInv, TypeInv
<1>2. TypeInv'
  BY <1>1 DEF IInv, TypeInv, Later
<1>3. ExportsInv' /\ EsmInv'
  BY <1>1 DEF IInv, ExportsInv, EsmInv, BoundExports, ComesFrom
<1>4. AliasesInv'
  BY <1>1 DEF SkipExport, PopulateAliases, AliasesInv, Later, ExportNames, HasAlias
<1>5. NumbersInv' /\ ClashInv' /\ LocalsInv' /\ RefusedInv'
  BY <1>1, AllRefused
  DEF IInv, NumbersInv, ClashInv, LocalsInv, RefusedInv, Numbered, Evaluated, Ready
<1>6. FnsInv'
  BY <1>1 DEF IInv, FnsInv, Ready
<1> QED BY <1>2, <1>3, <1>4, <1>5, <1>6 DEF IInv
(* The steps of splicing and initialising leave the bindings alone.        *)
LEMMA BetweenKeeps ==
  ASSUME IInv, UNCHANGED <<generated, source, locals, fns, initErr>>,
         \/ pc' = pc /\ exportNumbers' = exportNumbers
         \/ pc = "splice" /\ pc' = "export"
         \/ pc = "export" /\ pc' = "install" /\ SpliceExports
         \/ /\ pc = "install" /\ pc' = "evaluate" /\ exportNumbers' = exportNumbers
         \/ pc = "evaluate" /\ pc' = "failed"
  PROVE  IInv'
<1> USE DEF generated
<1>1. TypeInv'
  BY DEF IInv, TypeInv, Later
<1>2. ExportsInv' /\ EsmInv'
  BY GeneratedKept
<1>3. AliasesInv'
  BY GeneratedKept DEF IInv, AliasesInv, Later
<1>4. NumbersInv'
  BY DEF IInv, NumbersInv, Numbered, SpliceExports, WasmName
<1>5. ClashInv'
  BY SameBindings DEF IInv, ClashInv, Evaluated
<1>6. LocalsInv'
  <2>1. \A k : Found(k)' = Found(k)
    BY DEF Found, Candidates
  <2> QED BY <2>1 DEF IInv, LocalsInv, LocalsBound, Ready
<1>7. FnsInv'
  BY DEF IInv, FnsInv, Ready
<1>8. RefusedInv'
  BY DEF IInv, RefusedInv, ExportNames
<1> QED BY <1>1, <1>2, <1>3, <1>4, <1>5, <1>6, <1>7, <1>8 DEF IInv

(* Evaluation goes on only if no name is declared twice.                   *)
LEMMA EvaluateKeeps ==
  ASSUME IInv, Evaluate
  PROVE  IInv'
<1>1. /\ pc = "evaluate" /\ pc' = "bind" /\ ~DeclarationsClash
      /\ UNCHANGED <<generated, spliced, bindings, locals, fns, initErr>>
  BY DEF Evaluate
<1> USE <1>1 DEF generated, spliced
<1>2. TypeInv'
  BY DEF IInv, TypeInv, Later
<1>3. ExportsInv' /\ EsmInv'
  BY GeneratedKept
<1>4. AliasesInv'
  BY GeneratedKept DEF IInv, AliasesInv, Later
<1>5. NumbersInv'
  BY DEF IInv, NumbersInv, Numbered, WasmName
<1>6. ClashInv'
  BY SameBindings DEF IInv, ClashInv, Evaluated
<1>7. LocalsInv' /\ RefusedInv'
  BY AllRefused DEF LocalsInv, Ready, RefusedInv
<1>8. FnsInv'
  BY DEF IInv, FnsInv, Ready
<1> QED BY <1>2, <1>3, <1>4, <1>5, <1>6, <1>7, <1>8 DEF IInv

(* A step of the initialisation that follows the evaluation. *)
LEMMA AfterEvaluation ==
  ASSUME IInv, UNCHANGED <<generated, exportNumbers>>, pc \in Evaluated, pc' \in Evaluated
  PROVE  ExportsInv' /\ EsmInv' /\ AliasesInv' /\ NumbersInv' /\ ClashInv'
<1> USE DEF generated
<1>1. ExportsInv' /\ EsmInv'
  BY GeneratedKept
<1>2. AliasesInv'
  BY GeneratedKept DEF IInv, AliasesInv, Later, Evaluated
<1>3. NumbersInv'
  BY DEF IInv, NumbersInv, Numbered, Evaluated, WasmName
<1>4. ClashInv'
  BY SameBindings DEF IInv, ClashInv, Evaluated
<1> QED BY <1>1, <1>2, <1>3, <1>4

(* A variable is assigned a member of an object of its entry. *)
LEMMA BoundBinds ==
  ASSUME Bindable, locals' = Bound, UNCHANGED <<generated, source>>
  PROVE  LocalsBound'
<1> USE DEF generated
<1> DEFINE entry(l) == CHOOSE d \in esm : d.local = l
           object(l) == CHOOSE k \in Found(entry(l).js) : TRUE
<1>1. ASSUME NEW l \in {e.local : e \in esm}
      PROVE  entry(l) \in esm /\ entry(l).local = l
  OBVIOUS
<1>2. \A l \in {e.local : e \in esm} :
        locals'[l] = [js |-> object(l), member |-> entry(l).member]
  BY DEF Bound
<1>3. DOMAIN locals' = {e.local : e \in esm}
  BY DEF Bound
<1>4. \A e \in esm : Found(e.js) # {}
  BY DEF Bindable
<1>5. \A e \in esm : Found(e.js)' = Found(e.js)
  BY DEF Found, Candidates
<1> HIDE DEF entry, object
<1>6. ASSUME NEW l \in {e.local : e \in esm}
      PROVE  /\ locals'[l].js \in Found(entry(l).js)
             /\ locals'[l].member = entry(l).member
  <2>1. PICK k \in Found(entry(l).js) : TRUE
    BY <1>1, <1>4
  <2>2. object(l) \in Found(entry(l).js)
    BY <2>1, Zenon DEF object
  <2>3. locals'[l] = [js |-> object(l), member |-> entry(l).member]
    BY <1>2
  <2> QED BY <2>2, <2>3
<1>7. ASSUME NEW l \in DOMAIN locals'
      PROVE  \E e \in esm' : e.local = l /\ locals'[l].js \in Found(e.js)' 
                                         /\ locals'[l].member = e.member
  BY <1>1, <1>3, <1>5, <1>6
<1> QED BY <1>3, <1>7 DEF LocalsBound

(* bindExports fills the variables.                                        *)
LEMMA BindExportsKeeps ==
  ASSUME IInv, BindExports
  PROVE  IInv'
<1>1. /\ pc = "bind" /\ pc' = "fns" /\ Bindable /\ locals' = Bound
      /\ UNCHANGED <<generated, exportNumbers, source, fns, initErr>>
  BY DEF BindExports, spliced
<1>2. TypeInv'
  BY <1>1 DEF IInv, TypeInv, Later, generated
<1>3. ExportsInv' /\ EsmInv' /\ AliasesInv' /\ NumbersInv' /\ ClashInv'
  BY <1>1, AfterEvaluation DEF Evaluated
<1>4. LocalsInv'
  BY <1>1, BoundBinds DEF LocalsInv
<1>5. RefusedInv'
  BY <1>1, AllRefused DEF RefusedInv
<1>6. FnsInv'
  BY <1>1 DEF IInv, FnsInv, Ready, generated
<1> QED BY <1>2, <1>3, <1>4, <1>5, <1>6 DEF IInv

(* bindExports fails when a member is missing.                             *)
LEMMA BindFailsKeeps ==
  ASSUME IInv, BindFails
  PROVE  IInv'
<1>1. /\ pc = "bind" /\ pc' = "initialised" /\ ~Bindable /\ initErr' = "FnList"
      /\ UNCHANGED <<generated, exportNumbers, source, locals, fns>>
  BY DEF BindFails, spliced, BindError
<1>2. TypeInv'
  BY <1>1 DEF IInv, TypeInv, Later, generated
<1>3. ExportsInv' /\ EsmInv' /\ AliasesInv' /\ NumbersInv' /\ ClashInv'
  BY <1>1, AfterEvaluation DEF Evaluated
<1>4. LocalsInv'
  BY <1>1 DEF LocalsInv, Ready
<1>5. RefusedInv'
  BY <1>1 DEF RefusedInv, Bindable, Found, ExportNames, generated
<1>6. FnsInv'
  BY <1>1 DEF IInv, FnsInv, Ready, generated
<1> QED BY <1>2, <1>3, <1>4, <1>5, <1>6 DEF IInv
(* A set of numbers up to some number has a greatest one. *)
LEMMA Greatest ==
  ASSUME NEW n \in Nat, NEW S \in SUBSET (1..n), S # {}
  PROVE  \E m \in S : \A k \in S : k <= m
<1> DEFINE T == {n - k : k \in S}
<1>0. \A k \in S : k \in Nat /\ k <= n /\ n - k \in Nat
  OBVIOUS
<1>1. T \subseteq Nat /\ T # {}
  BY <1>0
<1> HIDE DEF T
<1>2. PICK x \in T : \A y \in T : ~(<<y, x>> \in OpToRel(<, Nat))
  BY <1>1, WFMin, NatLessThanWellFounded, Zenon
<1>3. ASSUME NEW y \in T PROVE x <= y
  <2>1. x \in Nat /\ y \in Nat /\ <<y, x>> \in Nat \X Nat
    BY <1>1
  <2>2. ~(<<y, x>> \in OpToRel(<, Nat))
    BY <1>2, Zenon
  <2>3. ~(y < x)
    BY <2>1, <2>2 DEF OpToRel
  <2> QED BY <2>1, <2>3
<1>4. PICK m \in S : x = n - m
  BY DEF T
<1>5. \A k \in S : n - k \in T
  BY DEF T
<1>6. \A k \in S : k <= m
  BY <1>0, <1>3, <1>4, <1>5
<1> QED BY <1>4, <1>6

(* The wrapper of a name is its last declaration, which has that name.     *)
LEMMA LastDeclaration ==
  ASSUME IInv, NEW n \in 1..Len(exports)
  PROVE  /\ DeclaredLast(exports[n].binding) \in DOMAIN exports
         /\ exports[DeclaredLast(exports[n].binding)].binding = exports[n].binding
<1> DEFINE S == {m \in DOMAIN exports : exports[m].binding = exports[n].binding}
<1>1. DOMAIN exports = 1..Len(exports) /\ Len(exports) \in Nat
  BY DEF IInv, ExportsInv
<1>2. S \in SUBSET (1..Len(exports)) /\ S # {}
  BY <1>1
<1>3. PICK m \in S : \A k \in S : k <= m
  <2> HIDE DEF S
  <2> QED BY <1>1, <1>2, Greatest
<1>4. \E d \in DOMAIN exports :
        /\ exports[d].binding = exports[n].binding
        /\ \A k \in DOMAIN exports : exports[k].binding = exports[n].binding => k <= d
  BY <1>3
<1> QED BY <1>4 DEF DeclaredLast

(* init_fns takes the wrapper of the next export.                          *)
LEMMA InitFnKeeps ==
  ASSUME IInv, InitFn
  PROVE  IInv'
<1> DEFINE d == DeclaredLast(EnvExportName(Len(fns) + 1))
<1>1. /\ pc = "fns" /\ Len(fns) < Len(exports) /\ fns' = Append(fns, d)
      /\ UNCHANGED <<pc, generated, exportNumbers, source, locals, initErr>>
  BY DEF InitFn, genVars, spliced
<1>2. DOMAIN exports = 1..Len(exports) /\ Len(exports) \in Nat
  BY DEF IInv, ExportsInv
<1>3. fns \in Seq(DOMAIN exports) /\ Len(fns) \in Nat
  BY DEF IInv, FnsInv
<1>4. d \in DOMAIN exports /\ exports[d].binding = exports[Len(fns) + 1].binding
  <2>1. Len(fns) + 1 \in 1..Len(exports)
    BY <1>1, <1>2, <1>3
  <2> QED BY <2>1, LastDeclaration DEF EnvExportName
<1> HIDE DEF d
<1>5. TypeInv'
  BY <1>1 DEF IInv, TypeInv, generated
<1>6. ExportsInv' /\ EsmInv' /\ AliasesInv' /\ NumbersInv' /\ ClashInv'
  BY <1>1, AfterEvaluation DEF Evaluated
<1>7. LocalsInv'
  <2>1. \A k : Found(k)' = Found(k)
    BY <1>1 DEF Found, Candidates, generated
  <2> QED BY <1>1, <2>1 DEF IInv, LocalsInv, LocalsBound, Ready, generated
<1>8. RefusedInv'
  BY <1>1, AllRefused DEF RefusedInv
<1>9. FnsInv'
  <2>1. /\ fns' \in Seq(DOMAIN exports) /\ Len(fns') = Len(fns) + 1
        /\ \A n \in 1..Len(fns) : fns'[n] = fns[n]
        /\ fns'[Len(fns) + 1] = d
    BY <1>1, <1>3, <1>4, AppendProperties
  <2>2. ASSUME NEW n \in DOMAIN fns' PROVE exports[fns'[n]].binding = exports[n].binding
    <3>1. n \in 1..(Len(fns) + 1) /\ DOMAIN fns = 1..Len(fns)
      BY <2>1, <1>3
    <3>2. CASE n = Len(fns) + 1
      BY <3>2, <2>1, <1>4
    <3>3. CASE n # Len(fns) + 1
      <4>1. n \in DOMAIN fns /\ fns'[n] = fns[n]
        BY <3>1, <3>3, <2>1, <1>3
      <4> QED BY <4>1 DEF IInv, FnsInv
    <3> QED BY <3>2, <3>3
  <2> QED BY <1>1, <1>2, <1>3, <2>1, <2>2 DEF FnsInv, Ready, generated
<1> QED BY <1>5, <1>6, <1>7, <1>8, <1>9 DEF IInv

(* init_fns has taken every export.                                        *)
LEMMA FnsDoneKeeps ==
  ASSUME IInv, FnsDone
  PROVE  IInv'
<1>1. /\ pc = "fns" /\ pc' = "initialised" /\ Len(fns) = Len(exports)
      /\ UNCHANGED <<generated, exportNumbers, source, locals, fns, initErr>>
  BY DEF FnsDone, linkVars, spliced, initialised
<1>2. TypeInv'
  BY <1>1 DEF IInv, TypeInv, Later, generated
<1>3. ExportsInv' /\ EsmInv' /\ AliasesInv' /\ NumbersInv' /\ ClashInv'
  BY <1>1, AfterEvaluation DEF Evaluated
<1>4. LocalsInv'
  <2>1. \A k : Found(k)' = Found(k)
    BY <1>1 DEF Found, Candidates, generated
  <2> QED BY <1>1, <2>1 DEF IInv, LocalsInv, LocalsBound, Ready, generated
<1>5. RefusedInv'
  BY <1>1, AllRefused DEF RefusedInv
<1>6. FnsInv'
  BY <1>1 DEF IInv, FnsInv, Ready, generated
<1> QED BY <1>2, <1>3, <1>4, <1>5, <1>6 DEF IInv

(* Every step keeps the invariant.                                         *)
LEMMA Step == IInv /\ [Next]_vars => IInv'
<1> SUFFICES ASSUME IInv, [Next]_vars PROVE IInv'
  OBVIOUS
<1>1. CASE Generate
  BY <1>1, ImportsKeep, ExportItemKeeps, RestOfGenerationKeeps DEF Generate, GenNext
<1>2. CASE SpliceImport
  BY <1>2, BetweenKeeps DEF SpliceImport, genVars, initialised
<1>3. CASE PlaceWrappers
  BY <1>3, BetweenKeeps DEF PlaceWrappers, initialised
<1>4. CASE SpliceExports
  BY <1>4, BetweenKeeps DEF SpliceExports, initialised
<1>5. CASE Install
  BY <1>5, BetweenKeeps DEF Install, spliced
<1>6. CASE Evaluate
  BY <1>6, EvaluateKeeps
<1>7. CASE EvaluationFails
  BY <1>7, BetweenKeeps DEF EvaluationFails, linkVars, initialised
<1>8. CASE BindExports
  BY <1>8, BindExportsKeeps
<1>9. CASE BindFails
  BY <1>9, BindFailsKeeps
<1>10. CASE InitFn
  BY <1>10, InitFnKeeps
<1>11. CASE FnsDone
  BY <1>11, FnsDoneKeeps
<1>12. CASE Stopped \/ UNCHANGED vars
  BY <1>12, BetweenKeeps DEF Stopped, vars, genVars, linkVars, spliced, initialised
<1> QED BY <1>1, <1>2, <1>3, <1>4, <1>5, <1>6, <1>7, <1>8, <1>9, <1>10, <1>11, <1>12 DEF Next

(* The invariant holds in every reachable state.                           *)
THEOREM Invariance == Spec => []IInv
BY InitInv, Step, PTL DEF Spec

-----------------------------------------------------------------------------
(* A source that exports all that the world asks for is not refused by     *)
(* check_init, whatever the world and the engine (embedding.cpp            *)
(* check_init, CompleteSourceAccepted).                                    *)
THEOREM CompleteSourcesAccepted == Spec => []CompleteSourceAccepted
<1>1. IInv => CompleteSourceAccepted
  BY DEF IInv, RefusedInv, CompleteSourceAccepted
<1> QED BY <1>1, Invariance, PTL

(* A variable holds a member of an object that the source has.             *)
LEMMA ReadyIsComplete == IInv => ReadyMeansComplete
<1> SUFFICES ASSUME IInv, Ready PROVE ReadyMeansComplete
  BY DEF ReadyMeansComplete
<1>1. DOMAIN exports = 1..Len(exports) /\ Len(exports) \in Nat
  BY DEF IInv, ExportsInv
<1>2. Len(fns) = Len(exportNumbers)
  BY <1>1 DEF IInv, FnsInv, NumbersInv, Numbered, Ready
<1>3. ASSUME NEW n \in DOMAIN fns PROVE exports[fns[n]].callee \in DOMAIN locals
  <2>1. fns[n] \in DOMAIN exports
    BY DEF IInv, FnsInv
  <2>2. exports[fns[n]] \in ToSet(exports)
    BY <2>1 DEF ToSet
  <2>3. \E e \in esm : e.local = exports[fns[n]].callee
    BY <2>2 DEF IInv, ExportsInv, ComesFrom, Entry
  <2> QED BY <2>3 DEF IInv, LocalsInv, LocalsBound
<1> QED BY <1>2, <1>3 DEF ReadyMeansComplete

(* A component that initialises has every function that its world exports: *)
(* bindExports threw for none of them and init_fns found a wrapper for     *)
(* each (ReadyMeansComplete).                                              *)
THEOREM ReadyIsReady == Spec => []ReadyMeansComplete
BY ReadyIsComplete, Invariance, PTL
(* The object a variable is bound to is a candidate for every entry that   *)
(* fills in the variable.                                                  *)
LEMMA BoundToCandidate ==
  ASSUME IInv, Ready, NEW d \in esm
  PROVE  locals[d.local].js \in Candidates(d.js)
<1>1. LocalsBound /\ ~DeclarationsClash
  BY DEF IInv, LocalsInv, ClashInv, Ready, Evaluated
<1>2. d.local \in DOMAIN locals
  BY <1>1 DEF LocalsBound
<1>3. PICK e \in esm : e.local = d.local /\ locals[d.local].js \in Found(e.js)
  BY <1>1, <1>2 DEF LocalsBound
<1>4. e.js = d.js
  BY <1>1, <1>3 DEF DeclarationsClash
<1> QED BY <1>3, <1>4 DEF Found, Candidates

(* No name is a candidate for two exports. *)
LEMMA CandidatesDiffer ==
  ASSUME IInv, Ready, NEW d \in esm, NEW e \in esm,
         NEW k \in Candidates(d.js) \cap Candidates(e.js)
  PROVE  d.js = e.js
<1> SUFFICES ASSUME d.js # e.js PROVE FALSE
  OBVIOUS
<1>1. aliases = {<<n, AliasOf(n)>> : n \in {m \in ExportNames : HasAlias(m)}}
  BY DEF IInv, AliasesInv, Ready, Later
<1>2. d.js \in ExportNames /\ e.js \in ExportNames
  BY DEF ExportNames
<1>3. ASSUME NEW x, k \in Candidates(x) PROVE k = x \/ (HasAlias(x) /\ k = AliasOf(x))
  BY <1>1, <1>3 DEF Candidates
<1>4. CASE k = d.js
  BY <1>2, <1>3, <1>4 DEF HasAlias
<1>5. CASE k = e.js
  BY <1>2, <1>3, <1>5 DEF HasAlias
<1>6. CASE k # d.js /\ k # e.js
  <2>1. HasAlias(d.js) /\ HasAlias(e.js) /\ AliasOf(d.js) = AliasOf(e.js)
    BY <1>3, <1>6
  <2>2. ~Before(d.js, e.js) /\ ~Before(e.js, d.js)
    BY <1>2, <2>1 DEF HasAlias
  <2>3. d.js \in ToSet(NameOrder) /\ e.js \in ToSet(NameOrder)
    BY WorldAssumption DEF IInv, TypeInv, EsmInv, BoundExports, Entry
  <2>4. DOMAIN NameOrder = 1..Len(NameOrder) /\ Len(NameOrder) \in Nat
    BY OrderAssumption
  <2>5. PICK m, n \in DOMAIN NameOrder : NameOrder[m] = d.js /\ NameOrder[n] = e.js
    BY <2>3 DEF ToSet
  <2>6. m < n \/ n < m
    BY <2>4, <2>5
  <2> QED BY <2>2, <2>5, <2>6 DEF Before
<1> QED BY <1>4, <1>5, <1>6

(* So no object stands for two items of the world.                         *)
LEMMA NoneServesTwo == IInv => NoObjectServesTwo
BY BoundToCandidate, CandidatesDiffer DEF NoObjectServesTwo

(* No object that the source exports serves two exported interfaces, as    *)
(* populate_export_aliases drops an alias that two names share             *)
(* (NoObjectServesTwo).                                                    *)
THEOREM ObjectsAreKeptApart == Spec => []NoObjectServesTwo
BY NoneServesTwo, Invariance, PTL

(* The member that a variable holds is the function's own, or that of its  *)
(* resource, if the export is of an interface.                             *)
LEMMA MemberOfVariable ==
  ASSUME IInv, Ready, NEW e \in ToSet(exports)
  PROVE  /\ locals[e.callee].js \in Candidates(e.name)
         /\ locals[e.callee].member = IF e.iface THEN External(e.f) ELSE NoName
<1>1. PICK item \in ToSet(world.exports) : \E f \in ToSet(item.funcs) : ComesFrom(e, item, f)
  BY DEF IInv, ExportsInv
<1>2. PICK f \in ToSet(item.funcs) : ComesFrom(e, item, f)
  BY <1>1
<1> DEFINE d == Entry(item, f)
<1>3. /\ d \in esm /\ d.js = e.name /\ d.local = e.callee /\ e.iface = (item.is = "iface")
      /\ e.f = f
  BY <1>2 DEF ComesFrom, Entry
<1>4. locals[e.callee].js \in Candidates(e.name)
  BY <1>3, BoundToCandidate
<1>5. LocalsBound /\ ~DeclarationsClash
  BY DEF IInv, LocalsInv, ClashInv, Ready, Evaluated
<1>6. PICK b \in esm : b.local = d.local /\ locals[d.local].member = b.member
  BY <1>3, <1>5 DEF LocalsBound
<1>7. b.js = d.js
  BY <1>3, <1>5, <1>6 DEF DeclarationsClash
<1>8. PICK other \in ToSet(world.exports) : \E g \in ToSet(other.funcs) : b = Entry(other, g)
  BY DEF IInv, EsmInv, BoundExports
<1>9. PICK g \in ToSet(other.funcs) : b = Entry(other, g)
  BY <1>8
<1>10. other = item
  <2>1. other.key = item.key
    BY <1>7, <1>9 DEF Entry
  <2>2. Keyed(world.exports)
    BY WorldAssumption DEF IInv, TypeInv
  <2> QED BY <2>1, <2>2 DEF Keyed, ToSet
<1>11. External(g) = External(f)
  <2>1. LocalOf(item.key, g) = LocalOf(item.key, f)
    BY <1>6, <1>9, <1>10 DEF Entry
  <2> QED BY <2>1 DEF LocalOf, Local, External
<1>12. b.member = IF e.iface THEN External(e.f) ELSE NoName
  BY <1>3, <1>9, <1>10, <1>11 DEF Entry
<1> QED BY <1>3, <1>4, <1>6, <1>12

(* The number of an export, through fns, names the wrapper of its own      *)
(* function.                                                               *)
LEMMA EachRunsItsOwn == IInv => ExportsRunOwn
<1> SUFFICES ASSUME IInv, Ready, NEW n \in DOMAIN exports, ~SharesBinding(n)
             PROVE  Runs(n) \in Wanted(n)
  BY DEF ExportsRunOwn
<1>1. DOMAIN exports = 1..Len(exports) /\ Len(exports) \in Nat
  BY DEF IInv, ExportsInv
<1>2. exportNumbers[n].num + 1 = n
  BY <1>1 DEF IInv, NumbersInv, Numbered, Ready
<1>3. fns[n] = n
  <2>1. n \in DOMAIN fns /\ fns[n] \in DOMAIN exports /\ exports[fns[n]].binding = exports[n].binding
    BY <1>1 DEF IInv, FnsInv
  <2> QED BY <2>1 DEF SharesBinding
<1>4. exports[n] \in ToSet(exports)
  BY DEF ToSet
<1>5. Runs(n) = [js |-> locals[exports[n].callee].js,
                 member |-> locals[exports[n].callee].member, f |-> exports[n].f]
  BY <1>2, <1>3 DEF Runs
<1> QED BY <1>4, <1>5, MemberOfVariable DEF Wanted

(* Calling an export of the component runs the function that the source    *)
(* exports under its name: the export section's numbers, fns and the       *)
(* wrappers agree, whatever names exports share (ExportsRunOwn).           *)
THEOREM ExportsRunTheirOwn == Spec => []ExportsRunOwn
BY EachRunsItsOwn, Invariance, PTL
=============================================================================

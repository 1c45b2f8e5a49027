------------------------------ MODULE Linking ------------------------------
(* From the generated bindings to a component that can be called: imports   *)
(* and exports are spliced into the engine (splice.rs), described in the    *)
(* environment (componentize.js), and joined with the script and the user's *)
(* module when the component is initialised (embedding.cpp).  Lists agree   *)
(* by position only, names by spelling only.                                *)
EXTENDS Bindgen, Integers

CONSTANT
  Engines   \* engines to splice into, see EngineAssumption

VARIABLES
  engine,         \* the engine
  moduleImports,  \* function imports of the spliced module
  wrappers,       \* for every import wrapper, the import it calls
  table,          \* wrappers in the function table
  base,           \* what coreabi_get_import adds its index to
  exportNumbers,  \* for every export wrapper, its name and the number it passes to call
  bindings,       \* table indices of the functions in $bindings, after the first two
  source,         \* the objects the source exports, and members one of them lacks
  locals,         \* what bindExports has assigned
  fns,            \* Runtime.fns: the declaration each function comes from
  initErr         \* Runtime.init_err

spliced == <<engine, moduleImports, wrappers, table, base, exportNumbers>>
initialised == <<bindings, source, locals, fns, initErr>>
linkVars == <<spliced, initialised>>
vars == <<genVars, linkVars>>

(* The engine's build: coreabi_get_import computes the table index of       *)
(* coreabi_sample_i32 from a constant, or a constant and a global; the      *)
(* first element segment reaches to the end of the table.                   *)
EngineAssumption(e) ==
  /\ e.offset + e.elements = e.table
  /\ e.sample = e.const + e.global
  /\ {e.table, e.offset, e.elements, e.sample, e.const, e.global} \subseteq Nat
  /\ 1000 <= e.const /\ e.const <= 5000
  /\ e.imports \in Seq(ToSet(e.imports))
  /\ IsInjective(e.imports)
ASSUME EnginesAssumption == \A e \in Engines : EngineAssumption(e)

Init ==
  /\ GenInit
  /\ engine \in Engines
  /\ moduleImports = engine.imports
  /\ wrappers = <<>>
  /\ table = [i \in {} |-> 0]
  /\ base = engine.sample
  /\ exportNumbers = <<>>
  /\ bindings = <<>>
  /\ source = [objects |-> {}, lacking |-> {}]
  /\ locals = [l \in {} |-> 0]
  /\ fns = <<>>
  /\ initErr = "OK"

Generate == GenNext /\ UNCHANGED linkVars

-----------------------------------------------------------------------------
(* splice_bindings and splice.                                             *)

HostOf(i) ==
  IF i.iface THEN HostImport(FALSE, i.specifier, i.f.kind, i.f.res, i.f.name)
  ELSE HostImport(FALSE, Root, i.f.kind, i.f.res, i.specifier.name)

SpliceList == [n \in 1..Len(imports) |-> HostOf(imports[n])] \o ResourceImports

Remaining == Len(wrappers) < Len(SpliceList)

(* The function import of the engine, if it has it, or a new one.          *)
WithImport(host) ==
  IF Contains(moduleImports, host) THEN moduleImports ELSE Append(moduleImports, host)

SpliceImport ==
  LET host == SpliceList[Len(wrappers) + 1] IN
  /\ pc = "splice"
  /\ Remaining
  /\ moduleImports' = WithImport(host)
  /\ wrappers' = Append(wrappers, SelectInSeq(moduleImports', LAMBDA h : h = host))
  /\ UNCHANGED <<genVars, initialised, engine, table, base, exportNumbers>>

(* The wrappers go behind the functions of the first element segment.      *)
Placed == [i \in engine.offset + engine.elements
                 ..engine.offset + engine.elements + Len(wrappers) - 1 |->
             i - (engine.offset + engine.elements) + 1]

(* Mutant: a global before the constant is overlooked. *)
DeltaOfConstant == engine.table - engine.const

(* What is added to the constant, and to a global that precedes it.        *)
Delta == engine.table - (engine.const + engine.global)

PlaceWrappers ==
  /\ pc = "splice"
  /\ ~Remaining
  /\ table' = Placed
  /\ base' = engine.sample + Delta
  /\ pc' = "export"
  /\ UNCHANGED <<generated, initialised, engine, moduleImports, wrappers, exportNumbers>>

WasmName(e) == IF e.iface THEN <<e.name, e.f.kind, e.f.res, e.f.name>> ELSE <<e.name>>

(* synthesize_export_functions.                                            *)
SpliceExports ==
  /\ pc = "export"
  /\ exportNumbers' = [n \in 1..Len(exports) |-> [name |-> WasmName(exports[n]), num |-> n - 1]]
  /\ pc' = "install"
  /\ UNCHANGED <<generated, initialised, engine, moduleImports, wrappers, table, base>>

-----------------------------------------------------------------------------
(* The initialisation, in the environment that componentize sets up.       *)

EnvImportCount == Len(imports) + Len(ResourceImports)
(* Mutant: the names of the exports start at the second. *)
NextExportName(n) == exports[IF n = Len(exports) THEN 1 ELSE n + 1].binding

EnvExportName(n) == exports[n].binding

GetImport(idx) == base + idx

(* install.                                                                *)
Install ==
  /\ pc = "install"
  /\ bindings' = [n \in 1..EnvImportCount |-> GetImport(n - 1)]
  /\ pc' = "evaluate"
  /\ UNCHANGED <<generated, spliced, source, locals, fns, initErr>>

(* The script is evaluated unless it declares a name twice, then the       *)
(* source, which exports what its author chose.                            *)
SourceNames == ExportNames \cup {AliasOf(k) : k \in {n \in ExportNames : IsId(n)}}

Evaluate ==
  /\ pc = "evaluate"
  /\ ~DeclarationsClash
  /\ \E objects \in SUBSET SourceNames, lacking \in {{}} \cup {{e} : e \in esm} :
       source' = [objects |-> objects, lacking |-> lacking]
  /\ pc' = "bind"
  /\ UNCHANGED <<generated, spliced, bindings, locals, fns, initErr>>

EvaluationFails ==
  /\ pc = "evaluate"
  /\ DeclarationsClash
  /\ pc' = "failed"
  /\ UNCHANGED <<generated, linkVars>>

(* getInterfaceExport: the object under the full name, or the alias.       *)
Candidates(k) == {k} \cup {a[2] : a \in {b \in aliases : b[1] = k}}
(* Mutant: where there is an alias, the full name is not looked up. *)
FoundByAlias(k) ==
  IF Candidates(k) = {k} THEN {k} \cap source.objects
  ELSE (Candidates(k) \ {k}) \cap source.objects

Found(k) == IF k \in source.objects THEN {k} ELSE Candidates(k) \cap source.objects

Bindable == (\A e \in esm : Found(e.js) # {}) /\ source.lacking = {}

Bound ==
  [l \in {e.local : e \in esm} |->
     LET e == CHOOSE d \in esm : d.local = l
     IN  [js |-> CHOOSE k \in Found(e.js) : TRUE, member |-> e.member]]

BindExports ==
  /\ pc = "bind"
  /\ Bindable
  /\ locals' = Bound
  /\ pc' = "fns"
  /\ UNCHANGED <<generated, spliced, bindings, source, fns, initErr>>

(* Mutant: the exception of bindExports is reported but not recorded. *)
Unrecorded == "OK"

BindError == "FnList"

BindFails ==
  /\ pc = "bind"
  /\ ~Bindable
  /\ initErr' = BindError
  /\ pc' = "initialised"
  /\ UNCHANGED <<generated, spliced, bindings, source, locals, fns>>

(* A later function declaration of the same name replaces an earlier one.  *)
DeclaredLast(binding) ==
  CHOOSE n \in DOMAIN exports :
    /\ exports[n].binding = binding
    /\ \A m \in DOMAIN exports : exports[m].binding = binding => m <= n

InitFn ==
  /\ pc = "fns"
  /\ Len(fns) < Len(exports)
  /\ fns' = Append(fns, DeclaredLast(EnvExportName(Len(fns) + 1)))
  /\ UNCHANGED <<genVars, spliced, bindings, source, locals, initErr>>

FnsDone ==
  /\ pc = "fns"
  /\ Len(fns) = Len(exports)
  /\ pc' = "initialised"
  /\ UNCHANGED <<generated, linkVars>>

Stopped == pc \in {"initialised", "failed"} /\ UNCHANGED vars

Next ==
  \/ Generate
  \/ SpliceImport \/ PlaceWrappers \/ SpliceExports
  \/ Install \/ Evaluate \/ EvaluationFails \/ BindExports \/ BindFails \/ InitFn \/ FnsDone
  \/ Stopped

Spec == Init /\ [][Next]_vars
-----------------------------------------------------------------------------
(* check_init says that the component can be called.                       *)
Ready == pc = "initialised" /\ initErr = "OK"

(* What the n-th export wrapper runs: the member of an object of the source *)
(* that the declaration it is bound to was generated for.                  *)
Runs(n) ==
  LET e == exports[fns[exportNumbers[n].num + 1]]
  IN  [js |-> locals[e.callee].js, member |-> locals[e.callee].member, f |-> e.f]

(* What it should run: its own function, on the object the source exports  *)
(* under the full name of the interface or, if it owns it, the alias.      *)
Wanted(n) ==
  [js : Candidates(exports[n].name),
   member : {IF exports[n].iface THEN External(exports[n].f) ELSE NoName},
   f : {exports[n].f}]

SharesBinding(n) == \E m \in DOMAIN exports : m # n /\ exports[m].binding = exports[n].binding

(* Each export of the component runs the source's function for it, through *)
(* five lists that agree by position or spelling: export number, table of  *)
(* functions, name in the environment, declaration, variable.  Exports that *)
(* share the name of their declaration are the subject of the next one.    *)
ExportsRunOwn == Ready => \A n \in DOMAIN exports : ~SharesBinding(n) => Runs(n) \in Wanted(n)

(* Functions of different exports never stand in for each other, whatever  *)
(* their interfaces are called (CHANGELOG.md, 0.19.3, #306).               *)
EveryExportRunsOwn == Ready => \A n \in DOMAIN exports : Runs(n) \in Wanted(n)

(* The host import that is called through a symbol of the bindings.        *)
Behind(symbol) ==
  LET at == CHOOSE n \in DOMAIN Symbols : Symbols[n] = symbol
  IN  IF bindings[at] \in DOMAIN table
      THEN moduleImports[wrappers[table[bindings[at]]]]
      ELSE HostImport(FALSE, Root, "engine", NoName, NoName)

(* What user code reaches when it calls function f of an imported item.    *)
PropertyOf(item, f) ==
  IF f.kind # "free" THEN UpperCamel(f.res)
  ELSE IF item.is = "iface" THEN f.name ELSE <<"default">>
SpecifierOf(item, f) == IF item.is = "func" /\ f.kind # "free" THEN Root ELSE item.key
Bodies(item, f) ==
  {i \in ToSet(imports) :
     /\ i.f.kind = f.kind /\ i.f.name = f.name
     /\ (IF f.kind = "free" THEN ImportFunction(i) ELSE ClassName(i.f.res, i.interface))
           \in Builtin(SpecifierOf(item, f), PropertyOf(item, f))}
Wants(item, f) ==
  HostImport(FALSE, IF item.is = "func" THEN Root ELSE item.key, f.kind, f.res, f.name)

(* User code that calls an import that is not asynchronous reaches that     *)
(* import of the host: through the builtin module's property, the         *)
(* function or class, its symbol, the place in $bindings, the index that   *)
(* get_import computes, the function table and the wrapper.                *)
ImportsReachHost ==
  Ready => \A item \in ToSet(world.imports) : \A f \in ToSet(item.funcs) :
             ~f.async => {Behind(ImportSymbol(i)) : i \in Bodies(item, f)} = {Wants(item, f)}

(* The intrinsics that js-component-bindgen has a function use for a        *)
(* resource, by their bindings, and the imports they stand for.            *)
Needs(r, side) ==
  LET interface == InterfaceName(r.owner) IN
  IF side = "import"
  THEN {<<DropBinding("import", interface, r.res), IntrinsicImport(FALSE, r, "drop")>>}
  ELSE {<<NewBinding(interface, r.res), IntrinsicImport(TRUE, r, "new")>>,
        <<RepBinding(interface, r.res), IntrinsicImport(TRUE, r, "rep")>>,
        <<DropBinding("export", interface, r.res), IntrinsicImport(TRUE, r, "drop")>>}

(* The intrinsics of a resource reach that resource's functions of the      *)
(* canonical ABI, for every function that uses it on either side.          *)
IntrinsicsReachHost ==
  Ready => \A i \in ToSet(imports) \cup ToSet(exports) : \A r \in DOMAIN i.map :
             \A need \in Needs(r, i.map[r]) :
               LET symbol == ResourceSymbol(need[1]) IN
               Contains(Symbols, symbol) /\ Behind(symbol) = need[2]

(* A function that is imported sees imported resources; one that is         *)
(* exported sees those of exported interfaces as exported, also when the   *)
(* world imports the same interface.                                       *)
DirectionsMatchSide ==
  pc # "failed" =>
  /\ \A i \in ToSet(imports) : \A r \in DOMAIN i.map : i.map[r] = "import"
  /\ \A e \in ToSet(exports) : \A r \in DOMAIN e.map :
       e.map[r] = IF \E item \in ToSet(world.exports) : item.key = r.owner
                  THEN "export" ELSE "import"

(* No object of the source serves two exports of the world: an alias is    *)
(* never also another export's name or alias.                              *)
NoObjectServesTwo ==
  Ready => \A d, e \in esm : locals[d.local].js = locals[e.local].js => d.js = e.js

(* When check_init reports no error every export has a function, whose      *)
(* variable is assigned; an initialisation that stopped half-way says so.  *)
ReadyMeansComplete ==
  Ready => /\ Len(fns) = Len(exportNumbers)
           /\ \A n \in DOMAIN fns : exports[fns[n]].callee \in DOMAIN locals

(* A source that exports everything under full names is never refused,     *)
(* whatever aliases there are and whatever else it exports.                *)
CompleteSourceAccepted ==
  initErr = "FnList" => source.lacking # {} \/ ~(ExportNames \subseteq source.objects)

(* The worlds that no component is made for.  Either their bindings declare *)
(* a name twice, so that they fail when they are evaluated: specifiers      *)
(* equal but for punctuation, interfaces equal but for the package with     *)
(* equal resources, equal resources of two exported interfaces, a function  *)
(* that two resources of the world take because the name of one begins with *)
(* the other's, and an export whose variable is named like one of the       *)
(* script's own.  Or generation panics: a function of a resource of the     *)
(* world uses another one that comes later, or a function of an import or   *)
(* of an export is asynchronous.                                           *)
SameResource(items) ==
  \E m, n \in DOMAIN items : m # n /\ ToSet(items[m].resources) \cap ToSet(items[n].resources) # {}
NamedAlike(items) ==
  \E m, n \in DOMAIN items :
    /\ m # n
    /\ InterfaceName(items[m].key) = InterfaceName(items[n].key)
    /\ ToSet(items[m].resources) \cap ToSet(items[n].resources) # {}
SpelledAlike(items) ==
  \E m, n \in DOMAIN items :
    items[m].key # items[n].key /\ Sanitised(items[m].key) = Sanitised(items[n].key)
TakenTwice(items) ==
  \E m, n, k \in DOMAIN items :
    /\ m # n /\ items[m].is = "resource" /\ items[n].is = "resource" /\ items[k].is = "func"
    /\ TakenBy(items[m].key.name, items[k].funcs[1]) /\ TakenBy(items[n].key.name, items[k].funcs[1])
UsesLater(items) ==
  \E m, n, d \in DOMAIN items : \E f \in ToSet(items[n].funcs) :
    /\ items[m].is = "resource" /\ items[d].is = "resource" /\ m < d
    /\ ComesWith(items, m, n, f) /\ \E r \in f.uses : r \in Declared(items[d])
BoundExports == {item \in ToSet(world.exports) : item.key \notin EngineServes}
LikeScript == \E item \in BoundExports : \E e \in EsmOf(item) : NamedLikeScript(e)
Asynchronous(items) == \E item \in items : \E f \in ToSet(item.funcs) : f.async

Excepted ==
  \/ SpelledAlike(world.imports) \/ NamedAlike(world.imports)
  \/ TakenTwice(world.imports) \/ UsesLater(world.imports)
  \/ SameResource(world.exports) \/ LikeScript
  \/ Asynchronous({item \in ToSet(world.imports) : item.is = "iface"})
  \/ Asynchronous(BoundExports)

(* No other world fails: names of functions, versions and packages keep the *)
(* declarations apart, and each resource is on a side before it is used.   *)
OtherWorldsEvaluate == pc = "failed" => Excepted
=============================================================================

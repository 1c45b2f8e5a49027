------------------------------ MODULE Bindgen ------------------------------
(* componentize_bindgen (bindgen.rs): from the world to the bindings.  What *)
(* becomes of the bindings later depends on names and on orders: names join *)
(* the declarations of the script, and the order of two lists is all that   *)
(* connects a symbol with an import and an export with a function.          *)
(*                                                                          *)
(* A world's imports and exports are sequences of items:                    *)
(*   func      a function; for one of a resource of the world itself, kind  *)
(*             and res of the function say so                               *)
(*   iface     an interface with its functions and its resources            *)
(*   resource  a resource of the world itself (imports only)                *)
(* The bodies of the generated functions are js-component-bindgen's; here   *)
(* they call one callee and need the symbols of the resources they use.     *)
EXTENDS Names, SequencesExt

CONSTANTS
  Worlds,      \* worlds to generate bindings for
  Longer,      \* words that begin with another one: pairs of the longer and the shorter
  Globals,     \* names that js-component-bindgen keeps variables clear of
  EngineServes, \* exports left to the engine: wasi:http/incoming-handler, under fetch-event
  NameOrder,   \* the names of exports, in the order of their strings
  TypeOrder    \* the resources, in the order of their type ids

Kind == {"free", "constructor", "method", "static"}
ResourceId == ToSet(TypeOrder)
Resource(owner, res) == [owner |-> owner, res |-> res]

(* A kebab name does not begin with the mark of a class.                   *)
Kebab(name) == name \in Seq(ToSet(name)) /\ name # <<>> /\ name[1] # "^"

WellFormed(item) ==
  /\ item.is \in {"func", "iface", "resource"}
  /\ item.key # Root
  /\ item.funcs \in Seq(ToSet(item.funcs))
  /\ item.resources \in Seq(ToSet(item.resources))
  /\ \A f \in ToSet(item.funcs) :
       /\ f.kind \in Kind /\ f.async \in BOOLEAN /\ f.uses \subseteq ResourceId /\ Kebab(f.name)
       /\ IF f.kind = "free" THEN f.res = NoName ELSE Kebab(f.res)
  /\ item.is = "func" =>
       /\ Len(item.funcs) = 1 /\ item.resources = <<>>
       /\ item.funcs[1].kind = "free" => item.key.name = item.funcs[1].name
  /\ item.is = "resource" =>
       /\ item.funcs = <<>> /\ item.resources = <<item.key.name>>
       /\ Resource(Root, item.key.name) \in ResourceId
  /\ item.is = "iface" =>
       /\ \A r \in ToSet(item.resources) : Resource(item.key, r) \in ResourceId
       /\ \A f \in ToSet(item.funcs) : f.kind # "free" => f.res \in ToSet(item.resources)

(* The items of each side are those of a map from keys (IndexMap).          *)
Keyed(items) ==
  /\ items \in Seq(ToSet(items))
  /\ \A m, n \in DOMAIN items : items[m].key = items[n].key => m = n

(* The functions of a resource of the world come with the resource.        *)
RootResourceOf(item, w) ==
  \A f \in ToSet(item.funcs) : item.is = "func" /\ f.kind # "free" =>
    \E r \in ToSet(w.imports) : r.is = "resource" /\ r.key.name = f.res

(* The names that wit-parser keeps apart: the functions and the resources   *)
(* of an item, and words of a key from the specifier of the world's own.    *)
SameName(f, g) == f.kind = g.kind /\ f.res = g.res /\ f.name = g.name

DistinctNames(item) ==
  /\ \A m, n \in DOMAIN item.funcs : SameName(item.funcs[m], item.funcs[n]) => m = n
  /\ IsInjective(item.resources) /\ \A res \in ToSet(item.resources) : Kebab(res)
  /\ item.is # "iface" => item.key = Plain(item.key.name)
  /\ <<"$root">> \notin {Sanitised(item.key), InterfaceName(item.key)}

OwnerOf(item) == IF item.is = "resource" THEN Root ELSE item.key
Declared(item) == {Resource(OwnerOf(item), res) : res \in ToSet(item.resources)}

(* Function f of item n is generated with item m, see RootFuncs.            *)
ComesWith(items, m, n, f) ==
  IF items[n].is = "func" /\ f.kind # "free"
  THEN items[m].is = "resource" /\ items[m].key.name = f.res
  ELSE m = n

(* A function is listed behind the owners of the resources it uses; but     *)
(* resources of the world may use each other.  What is exported may also    *)
(* use what is imported, but nothing that is left to the engine.            *)
OwnersFirst(w) ==
  /\ \A m, n \in DOMAIN w.imports : \A f \in ToSet(w.imports[n].funcs) :
       ComesWith(w.imports, m, n, f) => \A r \in f.uses : \E d \in DOMAIN w.imports :
         /\ r \in Declared(w.imports[d])
         /\ d <= m \/ (w.imports[d].is = "resource" /\ w.imports[m].is = "resource")
  /\ \A n \in DOMAIN w.exports : \A f \in ToSet(w.exports[n].funcs) : \A r \in f.uses :
       \/ \E d \in DOMAIN w.imports : r \in Declared(w.imports[d])
       \/ \E d \in 1..n : r \in Declared(w.exports[d]) /\ w.exports[d].key \notin EngineServes

ASSUME OrderAssumption ==
  /\ NameOrder \in Seq(ToSet(NameOrder))
  /\ TypeOrder \in Seq(ToSet(TypeOrder)) /\ IsInjective(TypeOrder)

ASSUME WorldAssumption ==
  \A w \in Worlds :
    /\ Keyed(w.imports) /\ Keyed(w.exports)
    /\ \A item \in ToSet(w.imports) : RootResourceOf(item, w)
    /\ \A item \in ToSet(w.imports) \cup ToSet(w.exports) : WellFormed(item)
    /\ \A item \in ToSet(w.exports) :
         item.is # "resource" /\ item.key \in ToSet(NameOrder)

ASSUME NamesAssumption ==
  \A w \in Worlds :
    /\ \A item \in ToSet(w.imports) \cup ToSet(w.exports) : DistinctNames(item)
    /\ \A m, n \in DOMAIN w.imports :
         w.imports[m].is = "func" /\ w.imports[n].is = "func"
           /\ SameName(w.imports[m].funcs[1], w.imports[n].funcs[1]) => m = n
    /\ \A item \in ToSet(w.exports) : item.is = "func" => item.funcs[1].kind = "free"

ASSUME OwnersAssumption == \A w \in Worlds : OwnersFirst(w)

VARIABLES
  pc,          \* the next step
  next,        \* index of the next item of the world
  world,       \* the world
  directions,  \* resource_directions: which side a resource is on
  imports,     \* the functions generated for imports, in order
  importedResources,  \* imported_resources
  classes,     \* names of the classes declared for imported resources
  exports,     \* the functions generated for exports, in order
  esm,         \* entries of EsmBindgen::exports
  aliases      \* export_aliases

generated == <<next, world, directions, imports, importedResources, classes, exports, esm,
               aliases>>
genVars == <<pc, generated>>

NoFunction == [r \in {} |-> "none"]

GenInit ==
  /\ pc = "imports"
  /\ next = 1
  /\ world \in Worlds
  /\ directions = NoFunction
  /\ imports = <<>>
  /\ importedResources = {}
  /\ classes = <<>>
  /\ exports = <<>>
  /\ esm = {}
  /\ aliases = {}

(* Mutant: a resource stays on the side it was first seen on. *)
FirstDirected(owner, resources, side) ==
  [r \in DOMAIN directions \cup {Resource(owner, n) : n \in ToSet(resources)} |->
     IF r \in DOMAIN directions THEN directions[r] ELSE side]

(* The directions after the resources of an item have been put on a side.  *)
Directed(owner, resources, side) ==
  [r \in DOMAIN directions \cup {Resource(owner, n) : n \in ToSet(resources)} |->
     IF r.owner = owner /\ r.res \in ToSet(resources) THEN side ELSE directions[r]]

(* create_resource_map: the resources a function uses, on the sides they   *)
(* are on now.  For one that is on none yet the lookup panics.             *)
ResourceMap(f, dirs) == [r \in f.uses |-> IF r \in DOMAIN dirs THEN dirs[r] ELSE "none"]

(* So does the generation of an asynchronous function: todo!().            *)
Panics(items) ==
  \E i \in ToSet(items) : i.f.async \/ \E r \in DOMAIN i.map : i.map[r] = "none"

ImportedIn(items) ==
  UNION {{r \in DOMAIN i.map : i.map[r] = "import"} : i \in ToSet(items)}

-----------------------------------------------------------------------------
(* imports_bindgen.                                                        *)

(* Selections of items are flattened lists of at most one element.         *)
Flatten(list(_), items) == FlattenSeq([n \in 1..Len(items) |-> list(items[n])])

(* import_bindgen.                                                         *)
Imported(specifier, iface, f, interface, dirs) ==
  [specifier |-> specifier, iface |-> iface, f |-> f, interface |-> interface,
   map |-> ResourceMap(f, dirs)]

FuncsOf(funcs, res) ==
  Flatten(LAMBDA f : IF f.kind # "free" /\ f.res = res THEN <<f>> ELSE <<>>, funcs)
FreeFuncs(funcs) == Flatten(LAMBDA f : IF f.kind = "free" THEN <<f>> ELSE <<>>, funcs)

(* The functions of an interface by resource: those of none come first.    *)
ByResource(item) ==
  FreeFuncs(item.funcs) \o Flatten(LAMBDA r : FuncsOf(item.funcs, r), item.resources)

(* An import of a function; one of a resource waits for the resource, and  *)
(* an asynchronous one is passed over.                                     *)
FuncItem(item, dirs) ==
  LET f == item.funcs[1] IN
  IF f.kind = "free" /\ ~f.async THEN <<Imported(item.key, FALSE, f, NoName, dirs)>> ELSE <<>>

IfaceItem(item, dirs) ==
  LET funcs == ByResource(item) IN
  [n \in 1..Len(funcs) |-> Imported(item.key, TRUE, funcs[n], InterfaceName(item.key), dirs)]

(* stripped.starts_with(resource_name), letter by letter: the last word of  *)
(* res may be the beginning of a longer one.                               *)
BeginsWith(name, res) ==
  /\ Len(res) <= Len(name)
  /\ \A n \in 1..Len(res) - 1 : name[n] = res[n]
  /\ name[Len(res)] = res[Len(res)] \/ <<name[Len(res)], res[Len(res)]>> \in Longer

(* A resource of the world takes the functions of every resource whose     *)
(* name begins with its own, but for asynchronous ones.                    *)
TakenBy(res, f) == f.kind # "free" /\ ~f.async /\ BeginsWith(f.res, res)

RootFuncs(res) ==
  Flatten(LAMBDA i : IF i.is = "func" /\ TakenBy(res, i.funcs[1]) THEN i.funcs ELSE <<>>,
          world.imports)

ResourceItem(item, dirs) ==
  LET funcs == RootFuncs(item.key.name) IN
  [n \in 1..Len(funcs) |-> Imported(Root, TRUE, funcs[n], NoName, dirs)]

ClassName(res, interface) == BindingName(<<UpperCamel(res)>>, interface)

ClassesOf(item) ==
  CASE item.is = "func" -> <<>>
    [] item.is = "iface" ->
         Flatten(LAMBDA r : IF FuncsOf(item.funcs, r) # <<>>
                            THEN <<ClassName(r, InterfaceName(item.key))>> ELSE <<>>,
                 item.resources)
    [] item.is = "resource" -> <<ClassName(item.key.name, NoName)>>

NewImports(item, dirs) ==
  CASE item.is = "func" -> FuncItem(item, dirs)
    [] item.is = "iface" -> IfaceItem(item, dirs)
    [] item.is = "resource" -> ResourceItem(item, dirs)

ImportItem ==
  LET item == world.imports[next]
      owner == OwnerOf(item)
      dirs == Directed(owner, item.resources, "import")
      new == NewImports(item, dirs)
  IN
  /\ pc = "imports"
  /\ next <= Len(world.imports)
  /\ IF Panics(new) THEN pc' = "failed" ELSE UNCHANGED pc
  /\ directions' = dirs
  /\ imports' = imports \o new
  /\ importedResources' = importedResources \cup ImportedIn(new)
  /\ classes' = classes \o ClassesOf(item)
  /\ next' = next + 1
  /\ UNCHANGED <<world, exports, esm, aliases>>

ImportsDone ==
  /\ pc = "imports"
  /\ next > Len(world.imports)
  /\ pc' = "exports"
  /\ next' = 1
  /\ UNCHANGED <<world, directions, imports, importedResources, classes, exports, esm, aliases>>

-----------------------------------------------------------------------------
(* exports_bindgen.                                                        *)

(* The variables bindExports fills in: one per function, and one per name  *)
(* of a resource (get_or_create), whichever interface declares it.         *)
Local(key, name) == [key |-> key, name |-> name]
LocalOf(key, f) ==
  IF f.kind = "free" THEN Local(key, f.name) ELSE Local(Root, UpperCamel(f.res))

(* export_bindgen.                                                         *)
Exported(key, iface, f, interface, dirs) ==
  [name |-> key, iface |-> iface, f |-> f, interface |-> interface,
   binding |-> BindingName(FuncName(f), interface),
   callee |-> LocalOf(key, f), map |-> ResourceMap(f, dirs)]

ExportsOf(item, dirs) ==
  [n \in 1..Len(item.funcs) |->
     Exported(item.key, item.is = "iface", item.funcs[n],
              IF item.is = "iface" THEN InterfaceName(item.key) ELSE NoName, dirs)]

(* add_export_func and ensure_exported_resource: what bindExports reads,   *)
(* by the name of the source's export and of the member of that object.    *)
External(f) == IF f.kind = "free" THEN f.name ELSE UpperCamel(f.res)
EsmOf(item) ==
  {[js |-> item.key, iface |-> item.is = "iface",
    member |-> IF item.is = "iface" THEN External(f) ELSE NoName,
    local |-> LocalOf(item.key, f)] : f \in ToSet(item.funcs)}

ExportItem ==
  LET item == world.exports[next]
      dirs == Directed(item.key, item.resources, "export")
      new == ExportsOf(item, dirs)
  IN
  /\ pc = "exports"
  /\ next <= Len(world.exports)
  /\ item.key \notin EngineServes
  /\ IF Panics(new) THEN pc' = "failed" ELSE UNCHANGED pc
  /\ directions' = dirs
  /\ exports' = exports \o new
  /\ importedResources' = importedResources \cup ImportedIn(new)
  /\ esm' = esm \cup EsmOf(item)
  /\ next' = next + 1
  /\ UNCHANGED <<world, imports, classes, aliases>>

(* The engine's own implementation stays in the module. *)
SkipExport ==
  /\ pc = "exports"
  /\ next <= Len(world.exports)
  /\ world.exports[next].key \in EngineServes
  /\ next' = next + 1
  /\ UNCHANGED <<pc, world, directions, imports, importedResources, classes, exports, esm, aliases>>

ExportNames == {e.js : e \in esm}
Before(j, k) == \E m, n \in DOMAIN NameOrder : m < n /\ NameOrder[m] = j /\ NameOrder[n] = k

(* Mutant: only names of exports are kept clear of, not other aliases. *)
UnlessExported(k) == IsId(k) /\ AliasOf(k) \notin ExportNames

(* populate_export_aliases.                                                *)
HasAlias(k) ==
  /\ IsId(k)
  /\ AliasOf(k) \notin ExportNames
  /\ ~\E j \in ExportNames : IsId(j) /\ AliasOf(j) = AliasOf(k) /\ Before(j, k)

PopulateAliases ==
  /\ pc = "exports"
  /\ next > Len(world.exports)
  /\ aliases' = {<<k, AliasOf(k)>> : k \in {n \in ExportNames : HasAlias(n)}}
  /\ pc' = "splice"
  /\ UNCHANGED <<next, world, directions, imports, importedResources, classes, exports, esm>>

GenNext == ImportItem \/ ImportsDone \/ ExportItem \/ SkipExport \/ PopulateAliases

-----------------------------------------------------------------------------
(* The rest of componentize_bindgen renders the script from what has been  *)
(* gathered.                                                               *)

ImportBinding(i) == ImportBindingName(FuncName(i.f), i.interface, i.specifier)

(* resource_bindings and resource_imports, pushed side by side.            *)
ExportedResources ==
  Flatten(LAMBDA item : [n \in 1..Len(item.resources) |-> Resource(item.key, item.resources[n])],
          world.exports)

ImportedResources ==
  Flatten(LAMBDA r : IF r \in importedResources THEN <<r>> ELSE <<>>, TypeOrder)

ResourceBindings ==
  Flatten(LAMBDA r : LET interface == InterfaceName(r.owner) IN
            <<NewBinding(interface, r.res), RepBinding(interface, r.res),
              DropBinding("export", interface, r.res)>>,
          ExportedResources)
    \o [n \in 1..Len(ImportedResources) |->
          DropBinding("import", InterfaceName(ImportedResources[n].owner),
                     ImportedResources[n].res)]

IntrinsicImport(exported, r, kind) == HostImport(exported, r.owner, kind, r.res, NoName)

(* Mutant: the imports of resources are listed in another order. *)
DroppedFirst ==
  [n \in 1..Len(ImportedResources) |-> IntrinsicImport(FALSE, ImportedResources[n], "drop")]
    \o Flatten(LAMBDA r : <<IntrinsicImport(TRUE, r, "new"), IntrinsicImport(TRUE, r, "rep"),
                            IntrinsicImport(TRUE, r, "drop")>>,
               ExportedResources)

ResourceImports ==
  Flatten(LAMBDA r : <<IntrinsicImport(TRUE, r, "new"), IntrinsicImport(TRUE, r, "rep"),
                       IntrinsicImport(TRUE, r, "drop")>>,
          ExportedResources)
    \o [n \in 1..Len(ImportedResources) |->
          IntrinsicImport(FALSE, ImportedResources[n], "drop")]

(* let [$memory, $realloc, ...] = $bindings                                *)
ImportSymbol(i) == <<"$import_", ImportBinding(i)>>
ResourceSymbol(binding) == <<"$resource_", binding>>

Symbols ==
  [n \in 1..Len(imports) |-> ImportSymbol(imports[n])]
    \o [n \in 1..Len(ResourceBindings) |-> ResourceSymbol(ResourceBindings[n])]

(* The name of an export's variable: of the class or of the function, in an *)
(* interface behind the part of its name that follows the last slash.      *)
Variable(e) ==
  IF e.iface /\ e.local.key # Root THEN e.js.name \o e.js.version \o e.local.name
  ELSE e.local.name

(* What every script declares, as far as a variable can be named like it.  *)
ScriptNames ==
  {<<"rep", "cnt">>, <<"rep", "table">>, <<"get", "interface", "export">>,
   <<"verify", "interface", "fn">>, <<"verify", "interface", "resource">>, <<"bind", "exports">>}
    \cup {UpperCamel(name) : name \in
            {<<"text", "encoder">>, <<"text", "decoder">>, <<"bindings", "error">>}}

NamedLikeScript(e) == Variable(e) \in ScriptNames \ Globals

(* What the script declares with let, const or class can be declared once: *)
(* the symbols, the classes, the variables of each exported interface, and *)
(* the script's own variables, classes and functions.                      *)
DeclarationsClash ==
  \/ ~IsInjective(Symbols)
  \/ ~IsInjective(classes)
  \/ \E d, e \in esm : d.js # e.js /\ d.local = e.local
  \/ \E e \in esm : NamedLikeScript(e)

(* The modules that user code imports: for every specifier, properties and *)
(* the functions or classes they hold.                                     *)
ImportFunction(i) == ImportBindingName(<<i.f.name>>, i.interface, i.specifier)
Builtin(specifier, property) ==
  LET here(i) == IF i.f.kind # "free" THEN UpperCamel(i.f.res)
                 ELSE IF i.iface THEN i.f.name ELSE <<"default">>
      held(i) == IF i.f.kind = "free" THEN ImportFunction(i) ELSE ClassName(i.f.res, i.interface)
  IN  {held(i) : i \in {j \in ToSet(imports) : j.specifier = specifier /\ here(j) = property}}
=============================================================================

------------------------------ MODULE Features ------------------------------
(* Feature selection, from the options of componentize (componentize.js)   *)
(* through the generation of export bindings (bindgen.rs) and the splicing *)
(* of exports (splice.rs) to the stubbing of the engine's WASI imports     *)
(* (stub_wasi.rs): who serves the exports the engine implements itself,    *)
(* and which imports the component is left with.                           *)
(*                                                                         *)
(* An interface stands for the functions a stub pass lists for it; those   *)
(* of wasi_snapshot_preview1 go by the pass that lists them.               *)
EXTENDS Integers

CONSTANTS
  WorldImports,   \* the sets of interfaces target worlds import
  Versions,       \* number of entries of WASI_VERSIONS
  EngineVersion   \* index of the version the engine imports

Feature == {"stdio", "random", "clocks", "http", "fetch-event"}

Sockets == {"sockets/instance-network", "sockets/udp", "sockets/udp-create-socket",
            "sockets/tcp", "sockets/tcp-create-socket", "sockets/ip-name-lookup",
            "sockets/network"}
Filesystem == {"filesystem/types", "filesystem/preopens"}
Terminals == {"cli/terminal-stdin", "cli/terminal-stdout", "cli/terminal-stderr",
              "cli/terminal-input", "cli/terminal-output"}
Cli == {"cli/environment", "cli/exit"} \cup Terminals
Random == {"random/random", "random/insecure", "random/insecure-seed"}
Clocks == {"clocks/monotonic-clock", "clocks/wall-clock"}
Stdio == {"cli/stdin", "cli/stdout", "cli/stderr"}
Io == {"io/poll", "io/error", "io/streams"}
Http == {"http/types", "http/outgoing-handler"}
Preview1 == {"p1/random", "p1/filesystem", "p1/environment", "p1/exit",
             "p1/clocks", "p1/stdio"}
Wasi == Sockets \cup Filesystem \cup Cli \cup Random \cup Clocks \cup Stdio
          \cup Io \cup Http
Interface == Wasi \cup Preview1

(* The exports the engine implements and a target world may ask for.       *)
Export == {"incoming-handler", "run"}

(* Names under which a module can export a handler of its own. *)
HandlerName == {"incomingHandler", "wasi:http/incoming-handler"}

ASSUME InputAssumption ==
  /\ \A w \in WorldImports : w \subseteq Wasi
  /\ Versions \in Nat
  /\ EngineVersion \in 1..Versions

VARIABLES
  pc,            \* the next step
  disabled,      \* opts.disableFeatures
  jsExports,     \* names of handlers the source exports
  worldImports,  \* interfaces the target world imports
  worldExports,  \* exports the target world asks for
  worldVersion,  \* index of the version the target world is written for
  features,      \* the features that are passed on
  bindings,      \* exports the bindings implement with the source's code
  exports,       \* exports of the module and who implements them
  imports        \* imports of the module and their versions

inputs == <<disabled, jsExports, worldImports, worldExports, worldVersion>>
vars == <<pc, inputs, features, bindings, exports, imports>>

At(step) == pc = step
GoTo(step) == pc' = step

Imports(interfaces, version) ==
  [interface : interfaces \ Preview1, version : {version}]
    \cup [interface : interfaces \cap Preview1, version : {0}]

Init ==
  /\ pc = "select"
  /\ disabled \in SUBSET Feature
  /\ jsExports \in SUBSET HandlerName
  /\ worldImports \in WorldImports
  /\ worldExports \in SUBSET Export
  /\ worldVersion \in 1..Versions + 1
  /\ features = {}
  /\ bindings = {}
  /\ exports = [name : Export, by : {"engine"}]
  /\ imports = Imports(Interface, EngineVersion)

-----------------------------------------------------------------------------
(* componentize.                                                           *)

(* detectKnownSourceExportNames, and the test on its result.               *)
HandlerDetected ==
  "http" \notin disabled /\ "incomingHandler" \in jsExports

SelectFeatures ==
  /\ At("select")
  /\ features' = (Feature \ disabled)
                   \ (IF HandlerDetected THEN {"fetch-event"} ELSE {})
  /\ GoTo("bindgen")
  /\ UNCHANGED <<inputs, bindings, exports, imports>>

-----------------------------------------------------------------------------
(* splice_bindings.                                                        *)

(* Mutant: bindings are generated for every export of the world. *)
EveryExport == worldExports

(* exports_bindgen leaves the handler to the engine's fetch event.         *)
BoundExports ==
  {e \in worldExports : ~(e = "incoming-handler" /\ "fetch-event" \in features)}

GenerateBindings ==
  /\ At("bindgen")
  /\ bindings' = BoundExports
  /\ GoTo("splice")
  /\ UNCHANGED <<inputs, features, exports, imports>>

(* remove_if_exported_by_js, for run and without fetch-event the handler.  *)
Overridden ==
  {e \in bindings : e = "incoming-handler" => "fetch-event" \notin features}

(* splice: the engine's implementations give way, the wrappers come in, and *)
(* the target world's imports join the engine's.                           *)
Splice ==
  /\ At("splice")
  /\ exports' = (exports \ [name : Overridden, by : {"engine"}])
                  \cup [name : bindings, by : {"source"}]
  /\ imports' = imports \cup Imports(worldImports, worldVersion)
  /\ GoTo("stub_preview1")
  /\ UNCHANGED <<inputs, features, bindings>>

-----------------------------------------------------------------------------
(* stub_wasi.                                                              *)

(* stub_wasi_imports replaces the first version of WASI_VERSIONS that is   *)
(* imported, and no other; a version that is not listed stays.             *)
Stubbed(interfaces) ==
  {i \in imports :
     /\ i.interface \in interfaces
     /\ i.version <= Versions
     /\ \A j \in imports : j.interface = i.interface => i.version <= j.version}

Pass(from, interfaces, to) ==
  /\ At(from)
  /\ imports' = imports \ Stubbed(interfaces)
  /\ GoTo(to)
  /\ UNCHANGED <<inputs, features, bindings, exports>>

When(condition, interfaces) == IF condition THEN interfaces ELSE {}

(* Those the target world does not import, with their preview1 functions.  *)
NotImported(interfaces) == interfaces \ worldImports

StubPreview1 == Pass("stub_preview1", {"p1/random"}, "stub_filesystem")

StubFilesystem ==
  Pass("stub_filesystem",
       NotImported(Filesystem)
         \cup When("filesystem/types" \notin worldImports, {"p1/filesystem"}),
       "stub_cli")

(* Mutant: the whole package goes unless all of it is imported. *)
WholeCli == When(~(Cli \subseteq worldImports), Cli)

UnusedCli ==
  NotImported(Cli)
    \cup When("cli/environment" \notin worldImports, {"p1/environment"})
    \cup When("cli/exit" \notin worldImports, {"p1/exit"})

StubCli == Pass("stub_cli", UnusedCli, "stub_random")

StubRandom ==
  Pass("stub_random", When("random" \notin features, Random), "stub_clocks")

StubClocks ==
  Pass("stub_clocks",
       When("clocks" \notin features, Clocks \cup {"p1/clocks"}), "stub_stdio")

StubStdio ==
  Pass("stub_stdio",
       When("stdio" \notin features, Stdio \cup {"p1/stdio"}), "stub_http")

(* Mutant: the types stay although nothing uses them. *)
OutgoingOnly == When("http" \notin features, {"http/outgoing-handler"})

(* Without http nothing goes out; the types serve the fetch event.         *)
UnusedHttp ==
  When("http" \notin features,
       {"http/outgoing-handler"}
         \cup When("fetch-event" \notin features, {"http/types"}))

StubHttp == Pass("stub_http", UnusedHttp, "stub_io")

(* target_world_requires_io. *)
WorldRequiresIo ==
  worldImports \cap (Sockets \cup Filesystem \cup Terminals) # {}

(* Mutant: the clocks are forgotten. *)
HasIoWithoutClocks ==
  features \cap {"stdio", "http"} # {} \/ WorldRequiresIo

HasIo == features \cap {"clocks", "stdio", "http"} # {} \/ WorldRequiresIo

StubIo == Pass("stub_io", When(~HasIo, Io), "stub_sockets")

StubSockets == Pass("stub_sockets", NotImported(Sockets), "done")

Done == At("done")

Next ==
  \/ SelectFeatures \/ GenerateBindings \/ Splice
  \/ StubPreview1 \/ StubFilesystem \/ StubCli
  \/ StubRandom \/ StubClocks \/ StubStdio \/ StubHttp
  \/ StubIo \/ StubSockets
  \/ Done /\ UNCHANGED vars

Spec == Init /\ [][Next]_vars

-----------------------------------------------------------------------------
(* Properties.                                                             *)

Providers(e) == {x \in exports : x.name = e}
Kept == {i.interface : i \in imports}

(* Two files decide independently who implements an export.  They agree:   *)
(* once spliced, every export has exactly one implementation, and one that *)
(* bindings were generated for is the source's.                            *)
OneImplementation ==
  pc \notin {"select", "bindgen", "splice"} =>
    \A e \in Export : \E by \in {"engine", "source"} :
      /\ Providers(e) = {[name |-> e, by |-> by]}
      /\ by = "source" <=> e \in bindings

(* "Setting disableFeatures: ['random', 'stdio', 'clocks', 'http',         *)
(* 'fetch-event'] will disable all features creating a minimal "pure       *)
(* component", that does not depend on any WASI APIs at all and just the   *)
(* target world" (README.md), and on the wasi:io its imports are made of.  *)
PureWhenDisabled ==
  Done /\ disabled = Feature =>
    /\ Kept \ Preview1 \subseteq worldImports \cup When(WorldRequiresIo, Io)
    /\ worldImports = {} => imports = {}

(* The fetch event is the only feature left that is served with streams,   *)
(* and no import of the target world needs them: has_io overlooks it.      *)
FetchEventAlone ==
  features \subseteq {"fetch-event", "random"} /\ ~WorldRequiresIo

(* What a feature that is enabled is made of is left in place, whatever    *)
(* else is disabled, and so is the wasi:io that all but random share: but  *)
(* for a fetch event with none of clocks, stdio and http beside it, whose  *)
(* requests come with streams that trap.                                   *)
EnabledFeaturesKept ==
  Done =>
    /\ "random" \in features => Random \subseteq Kept
    /\ "clocks" \in features => Clocks \cup Io \cup {"p1/clocks"} \subseteq Kept
    /\ "stdio" \in features => Stdio \cup Io \cup {"p1/stdio"} \subseteq Kept
    /\ "http" \in features => Http \cup Io \subseteq Kept
    /\ "fetch-event" \in features =>
         "http/types" \in Kept /\ (FetchEventAlone \/ Io \subseteq Kept)

(* What no feature governs stays exactly if the target world imports it,   *)
(* in whichever version, and what it needs of wasi:io stays with it.       *)
UngovernedKept ==
  Done =>
    /\ Kept \cap (Sockets \cup Filesystem \cup Cli)
         = worldImports \cap (Sockets \cup Filesystem \cup Cli)
    /\ WorldRequiresIo => Io \subseteq Kept

(* "to override the fetch event with a custom handler, export an explicit  *)
(* incomingHandler or 'wasi:http/incoming-handler@0.2.0' object"           *)
(* (README.md): the source's handler is then the one that serves.          *)
CustomHandlerUsed ==
  Done /\ "incoming-handler" \in worldExports /\ "http" \notin disabled
       /\ jsExports # {} =>
    Providers("incoming-handler") = {[name |-> "incoming-handler", by |-> "source"]}
=============================================================================

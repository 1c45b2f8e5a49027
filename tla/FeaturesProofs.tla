--------------------------- MODULE FeaturesProofs ---------------------------
(* What holds of feature selection and stubbing for any target world, any  *)
(* list of WASI versions and any version of the engine's own imports.      *)
(*                                                                         *)
(* The invariant follows the passes: of the interfaces a pass has swept    *)
(* nothing is left but what the target world imports itself, and those no  *)
(* pass has swept are all there.                                           *)
EXTENDS Features, TLAPS

FromIo == {"stub_io", "stub_sockets", "done"}
FromStdio == {"stub_stdio", "stub_http"} \cup FromIo
FromCli == {"stub_cli", "stub_random", "stub_clocks"} \cup FromStdio
FromStub == {"stub_preview1", "stub_filesystem"} \cup FromCli
Steps == {"select", "bindgen", "splice"} \cup FromStub

UnusedFilesystem ==
  NotImported(Filesystem)
    \cup When("filesystem/types" \notin worldImports, {"p1/filesystem"})
UnusedRandom == When("random" \notin features, Random)
UnusedClocks == When("clocks" \notin features, Clocks \cup {"p1/clocks"})
UnusedStdio == When("stdio" \notin features, Stdio \cup {"p1/stdio"})
UnusedIo == When(~HasIo, Io)

(* The interfaces that the passes up to pc have swept.                     *)
Swept ==
  When(pc \in FromStub \ {"stub_preview1"}, {"p1/random"})
    \cup When(pc \in FromCli, UnusedFilesystem)
    \cup When(pc \in FromCli \ {"stub_cli"}, UnusedCli)
    \cup When(pc \in FromStdio \cup {"stub_clocks"}, UnusedRandom)
    \cup When(pc \in FromStdio, UnusedClocks)
    \cup When(pc \in FromStdio \ {"stub_stdio"}, UnusedStdio)
    \cup When(pc \in FromIo, UnusedHttp)
    \cup When(pc \in FromIo \ {"stub_io"}, UnusedIo)
    \cup When(pc = "done", NotImported(Sockets))

ImportsAre(swept) ==
  /\ imports \subseteq Imports(Interface, EngineVersion) \cup Imports(worldImports, worldVersion)
  /\ \A i \in Interface \ swept : i \in Kept
  /\ \A i \in swept \ worldImports : i \notin Kept

Selected ==
  IF pc = "select" THEN features = {} ELSE features \subseteq Feature \ disabled

Implemented ==
  IF pc \in FromStub
  THEN exports = [name : Export \ bindings, by : {"engine"}] \cup [name : bindings, by : {"source"}]
  ELSE exports = [name : Export, by : {"engine"}]

IInv ==
  /\ pc \in Steps
  /\ worldImports \subseteq Wasi
  /\ worldExports \subseteq Export
  /\ Selected
  /\ pc \in {"select", "bindgen"} \/ bindings = BoundExports
  /\ Implemented
  /\ ImportsAre(Swept)
-----------------------------------------------------------------------------
(* Interfaces.                                                             *)

LEMMA Kinds ==
  /\ Wasi \cap Preview1 = {} /\ Interface = Wasi \cup Preview1
  /\ UnusedFilesystem \subseteq Interface /\ UnusedCli \subseteq Interface
  /\ UnusedRandom \subseteq Interface /\ UnusedClocks \subseteq Interface
  /\ UnusedStdio \subseteq Interface /\ UnusedHttp \subseteq Interface
  /\ UnusedIo \subseteq Interface /\ NotImported(Sockets) \subseteq Interface
BY DEF UnusedFilesystem, UnusedCli, UnusedRandom, UnusedClocks, UnusedStdio, UnusedHttp, UnusedIo,
       NotImported, When, Interface, Wasi, Preview1, Sockets, Filesystem, Cli, Terminals, Random,
       Clocks, Stdio, Io, Http

(* A pass takes every import of an interface that the target world does    *)
(* not import, for the engine imports it in one version, which is listed.  *)
LEMMA PassSweeps ==
  ASSUME worldImports \subseteq Wasi, NEW swept, ImportsAre(swept),
         NEW interfaces \in SUBSET Interface,
         imports' = imports \ Stubbed(interfaces), UNCHANGED worldImports, UNCHANGED worldVersion
  PROVE  ImportsAre(swept \cup interfaces)'
<1>1. imports' \subseteq imports
  OBVIOUS
<1>2. ASSUME NEW x \in imports, x.interface \notin worldImports
      PROVE  /\ x = [interface |-> x.interface, version |-> x.version]
             /\ x.version = IF x.interface \in Preview1 THEN 0 ELSE EngineVersion
  <2>1. x \in Imports(Interface, EngineVersion) \cup Imports(worldImports, worldVersion)
    BY DEF ImportsAre
  <2> QED
    BY <1>2, <2>1 DEF Imports
<1>3. ASSUME NEW i \in interfaces \ worldImports, NEW x \in imports, x.interface = i
      PROVE  x \in Stubbed(interfaces)
  <2>1. x.version <= Versions
    BY <1>2, <1>3, InputAssumption
  <2>2. ASSUME NEW j \in imports, j.interface = x.interface PROVE x.version <= j.version
    BY <1>2, <1>3, <2>2, InputAssumption
  <2> QED
    BY <1>3, <2>1, <2>2 DEF Stubbed
<1>4. \A i \in Interface \ (swept \cup interfaces) : i \in Kept'
  <2> SUFFICES ASSUME NEW i \in Interface \ (swept \cup interfaces) PROVE i \in Kept'
    OBVIOUS
  <2>1. PICK x \in imports : x.interface = i
    BY DEF ImportsAre, Kept
  <2>2. x \in imports'
    BY <2>1 DEF Stubbed
  <2> QED
    BY <2>1, <2>2 DEF Kept
<1>5. \A i \in (swept \cup interfaces) \ worldImports : i \notin Kept'
  BY <1>1, <1>3 DEF ImportsAre, Kept
<1> QED
  BY <1>1, <1>4, <1>5 DEF ImportsAre

-----------------------------------------------------------------------------
(* The steps.                                                              *)

LEMMA InitInvariant == Init => IInv
<1> SUFFICES ASSUME Init PROVE IInv
  OBVIOUS
<1>1. worldImports \subseteq Wasi
  BY InputAssumption DEF Init
<1>2. Swept = {}
  BY DEF Init, Swept, When, FromStub, FromCli, FromStdio, FromIo
<1>3. ImportsAre({})
  <2>1. imports = Imports(Interface, EngineVersion)
    BY DEF Init
  <2>2. ASSUME NEW i \in Interface PROVE i \in Kept
    <3>1. CASE i \in Preview1
      <4>1. [interface |-> i, version |-> 0] \in imports
        BY <2>1, <2>2, <3>1 DEF Imports
      <4> QED
        BY <4>1 DEF Kept
    <3>2. CASE i \notin Preview1
      <4>1. [interface |-> i, version |-> EngineVersion] \in imports
        BY <2>1, <2>2, <3>2 DEF Imports
      <4> QED
        BY <4>1 DEF Kept
    <3> QED
      BY <3>1, <3>2
  <2> QED
    BY <2>1, <2>2 DEF ImportsAre
<1> QED
  BY <1>1, <1>2, <1>3 DEF Init, IInv, Steps, FromStub, FromCli, FromStdio, FromIo, Selected, Implemented

LEMMA SelectStep ==
  ASSUME IInv, SelectFeatures
  PROVE  IInv'
<1>1. /\ pc = "select" /\ pc' = "bindgen"
      /\ UNCHANGED <<disabled, worldImports, worldExports, worldVersion, bindings, exports, imports>>
      /\ features' \subseteq Feature \ disabled
  BY DEF SelectFeatures, At, GoTo, inputs
<1>2. Swept = {} /\ Swept' = {}
  BY <1>1 DEF Swept, When, FromStub, FromCli, FromStdio, FromIo
<1> QED
  BY <1>1, <1>2 DEF IInv, Steps, FromStub, FromCli, FromStdio, FromIo, Selected, Implemented,
                    ImportsAre, Kept

LEMMA BindgenStep ==
  ASSUME IInv, GenerateBindings
  PROVE  IInv'
<1>1. /\ pc = "bindgen" /\ pc' = "splice" /\ bindings' = BoundExports
      /\ UNCHANGED <<disabled, worldImports, worldExports, worldVersion, features, exports, imports>>
  BY DEF GenerateBindings, At, GoTo, inputs
<1>2. Swept = {} /\ Swept' = {}
  BY <1>1 DEF Swept, When, FromStub, FromCli, FromStdio, FromIo
<1> QED
  BY <1>1, <1>2 DEF IInv, Steps, FromStub, FromCli, FromStdio, FromIo, Selected, Implemented,
                    ImportsAre, Kept, BoundExports

(* What splice takes out is what the bindings bring in.                    *)
LEMMA SpliceStep ==
  ASSUME IInv, Splice
  PROVE  IInv'
<1>1. /\ pc = "splice" /\ pc' = "stub_preview1"
      /\ exports' = (exports \ [name : Overridden, by : {"engine"}])
                      \cup [name : bindings, by : {"source"}]
      /\ imports' = imports \cup Imports(worldImports, worldVersion)
      /\ UNCHANGED <<disabled, worldImports, worldExports, worldVersion, features, bindings>>
  BY DEF Splice, At, GoTo, inputs
<1>2. Swept = {} /\ Swept' = {}
  BY <1>1 DEF Swept, When, FromStub, FromCli, FromStdio, FromIo
<1>3. bindings = BoundExports /\ bindings' = BoundExports' /\ bindings \subseteq Export
  BY <1>1 DEF IInv, BoundExports
<1>4. Overridden = bindings
  BY <1>3 DEF Overridden, BoundExports
<1>5. exports = [name : Export, by : {"engine"}]
  BY <1>1 DEF IInv, Implemented, FromStub, FromCli, FromStdio, FromIo
<1>6. exports' = [name : Export \ bindings, by : {"engine"}] \cup [name : bindings, by : {"source"}]
  BY <1>1, <1>4, <1>5
<1>7. Implemented'
  BY <1>1, <1>6 DEF Implemented, FromStub
<1>8. ImportsAre({})'
  BY <1>1, <1>2 DEF IInv, ImportsAre, Kept
<1> QED
  BY <1>1, <1>2, <1>3, <1>7, <1>8
     DEF IInv, Steps, FromStub, FromCli, FromStdio, FromIo, Selected

LEMMA PassStep ==
  ASSUME IInv, NEW from \in FromStub, NEW to \in FromStub,
         NEW interfaces \in SUBSET Interface, Pass(from, interfaces, to),
         Swept' = Swept \cup interfaces
  PROVE  IInv'
<1>1. /\ pc = from /\ pc' = to /\ imports' = imports \ Stubbed(interfaces)
      /\ UNCHANGED <<disabled, worldImports, worldExports, worldVersion, features, bindings, exports>>
  BY DEF Pass, At, GoTo, inputs
<1>2. ImportsAre(Swept \cup interfaces)'
  BY <1>1, PassSweeps DEF IInv
<1>3. ImportsAre(Swept)'
  BY <1>2 DEF ImportsAre
<1> QED
  BY <1>1, <1>3 DEF IInv, Steps, FromStub, FromCli, FromStdio, FromIo, Selected, Implemented, BoundExports

(* Every pass adds its interfaces to those that are swept.                 *)
LEMMA Passes ==
  ASSUME IInv,
         \/ StubPreview1 \/ StubFilesystem \/ StubCli \/ StubRandom \/ StubClocks
         \/ StubStdio \/ StubHttp \/ StubIo \/ StubSockets
  PROVE  IInv'
<1>1. UNCHANGED <<worldImports, features>>
  BY DEF Pass, inputs, StubPreview1, StubFilesystem, StubCli, StubRandom, StubClocks,
         StubStdio, StubHttp, StubIo, StubSockets
<1>2. /\ UnusedFilesystem' = UnusedFilesystem /\ UnusedCli' = UnusedCli
      /\ UnusedRandom' = UnusedRandom /\ UnusedClocks' = UnusedClocks
      /\ UnusedStdio' = UnusedStdio /\ UnusedHttp' = UnusedHttp
      /\ UnusedIo' = UnusedIo /\ NotImported(Sockets)' = NotImported(Sockets)
  BY <1>1 DEF UnusedFilesystem, UnusedCli, UnusedRandom, UnusedClocks, UnusedStdio, UnusedHttp,
              UnusedIo, NotImported, HasIo, WorldRequiresIo
<1>3. ASSUME NEW from \in FromStub, NEW interfaces, NEW to \in FromStub,
             Pass(from, interfaces, to)
      PROVE  pc = from /\ pc' = to
  BY <1>3 DEF Pass, At, GoTo
<1> USE DEF FromStub, FromCli, FromStdio, FromIo
<1>4. CASE StubPreview1
  <2>1. Swept' = Swept \cup {"p1/random"}
    BY <1>2, <1>3, <1>4 DEF StubPreview1, Swept, When
  <2> QED
    BY <1>4, <2>1, PassStep DEF StubPreview1, Interface, Preview1
<1>5. CASE StubFilesystem
  <2>1. Swept' = Swept \cup UnusedFilesystem
    BY <1>2, <1>3, <1>5 DEF StubFilesystem, Swept, When
  <2> QED
    BY <1>5, <2>1, PassStep, Kinds DEF StubFilesystem, UnusedFilesystem
<1>6. CASE StubCli
  <2>1. Swept' = Swept \cup UnusedCli
    BY <1>2, <1>3, <1>6 DEF StubCli, Swept, When
  <2> QED
    BY <1>6, <2>1, PassStep, Kinds DEF StubCli
<1>7. CASE StubRandom
  <2>1. Swept' = Swept \cup UnusedRandom
    BY <1>2, <1>3, <1>7 DEF StubRandom, Swept, When
  <2> QED
    BY <1>7, <2>1, PassStep, Kinds DEF StubRandom, UnusedRandom
<1>8. CASE StubClocks
  <2>1. Swept' = Swept \cup UnusedClocks
    BY <1>2, <1>3, <1>8 DEF StubClocks, Swept, When
  <2> QED
    BY <1>8, <2>1, PassStep, Kinds DEF StubClocks, UnusedClocks
<1>9. CASE StubStdio
  <2>1. Swept' = Swept \cup UnusedStdio
    BY <1>2, <1>3, <1>9 DEF StubStdio, Swept, When
  <2> QED
    BY <1>9, <2>1, PassStep, Kinds DEF StubStdio, UnusedStdio
<1>10. CASE StubHttp
  <2>1. Swept' = Swept \cup UnusedHttp
    BY <1>2, <1>3, <1>10 DEF StubHttp, Swept, When
  <2> QED
    BY <1>10, <2>1, PassStep, Kinds DEF StubHttp
<1>11. CASE StubIo
  <2>1. Swept' = Swept \cup UnusedIo
    BY <1>2, <1>3, <1>11 DEF StubIo, Swept, When
  <2> QED
    BY <1>11, <2>1, PassStep, Kinds DEF StubIo, UnusedIo
<1>12. CASE StubSockets
  <2>1. Swept' = Swept \cup NotImported(Sockets)
    BY <1>2, <1>3, <1>12 DEF StubSockets, Swept, When
  <2> QED
    BY <1>12, <2>1, PassStep, Kinds DEF StubSockets
<1> QED
  BY <1>4, <1>5, <1>6, <1>7, <1>8, <1>9, <1>10, <1>11, <1>12

LEMMA NextInvariant == IInv /\ [Next]_vars => IInv'
<1>1. IInv /\ UNCHANGED vars => IInv'
  <2> SUFFICES ASSUME IInv, UNCHANGED vars PROVE IInv'
    OBVIOUS
  <2>1. UNCHANGED <<pc, disabled, worldImports, worldExports, worldVersion, features, bindings,
                    exports, imports>>
    BY DEF vars, inputs
  <2>2. Swept' = Swept
    BY <2>1 DEF Swept, UnusedFilesystem, UnusedCli, UnusedRandom, UnusedClocks, UnusedStdio,
                UnusedHttp, UnusedIo, NotImported, HasIo, WorldRequiresIo
  <2> QED
    BY <2>1, <2>2 DEF IInv, Selected, Implemented, ImportsAre, Kept, BoundExports
<1> QED
  BY <1>1, SelectStep, BindgenStep, SpliceStep, Passes DEF Next

-----------------------------------------------------------------------------
(* The properties.                                                         *)

(* The inductive invariant: what has been swept is gone unless the target  *)
(* world imports it, the rest is there, and the exports are divided        *)
(* between the engine and the bindings.                                    *)
THEOREM Invariance == Spec => []IInv
<1> QED
  BY InitInvariant, NextInvariant, PTL DEF Spec

(* bindgen.rs and splice.rs agree on who implements each export, for any   *)
(* features, source and target world.                                      *)
THEOREM OneImplementationEach == Spec => []OneImplementation
<1>1. IInv => OneImplementation
  <2> SUFFICES ASSUME IInv, pc \notin {"select", "bindgen", "splice"}, NEW e \in Export
               PROVE  \E by \in {"engine", "source"} :
                        /\ Providers(e) = {[name |-> e, by |-> by]}
                        /\ by = "source" <=> e \in bindings
    BY DEF OneImplementation
  <2>1. exports = [name : Export \ bindings, by : {"engine"}]
                    \cup [name : bindings, by : {"source"}]
    BY DEF IInv, Implemented, Steps
  <2>2. CASE e \in bindings
    <3>1. Providers(e) = {[name |-> e, by |-> "source"]}
      BY <2>1, <2>2 DEF Providers
    <3> QED
      BY <2>2, <3>1
  <2>3. CASE e \notin bindings
    <3>1. Providers(e) = {[name |-> e, by |-> "engine"]}
      BY <2>1, <2>3 DEF Providers
    <3> QED
      BY <2>3, <3>1
  <2> QED
    BY <2>2, <2>3
<1> QED
  BY <1>1, Invariance, PTL

(* What all the passes together have swept.                                *)
LEMMA SweptInTheEnd ==
  ASSUME pc = "done"
  PROVE  Swept = {"p1/random"} \cup UnusedFilesystem \cup UnusedCli \cup UnusedRandom
                   \cup UnusedClocks \cup UnusedStdio \cup UnusedHttp \cup UnusedIo
                   \cup NotImported(Sockets)
BY DEF Swept, When, FromStub, FromCli, FromStdio, FromIo

(* With everything disabled nothing is left but what the target world      *)
(* imports, and the wasi:io its imports are made of.                       *)
THEOREM PureIsPure == Spec => []PureWhenDisabled
<1>1. IInv => PureWhenDisabled
  <2> SUFFICES ASSUME IInv, pc = "done", disabled = Feature
               PROVE  /\ Kept \ Preview1 \subseteq worldImports \cup When(WorldRequiresIo, Io)
                      /\ worldImports = {} => imports = {}
    BY DEF PureWhenDisabled, Done, At
  <2>1. features = {}
    BY DEF IInv, Selected
  <2>2. Kept \subseteq Interface
    BY DEF IInv, ImportsAre, Imports, Kept, Interface
  <2>3. \A i \in Wasi : i \in worldImports \cup When(WorldRequiresIo, Io) \cup Swept
    BY <2>1, SweptInTheEnd DEF Wasi, UnusedFilesystem, UnusedCli, UnusedRandom, UnusedClocks,
       UnusedStdio, UnusedHttp, UnusedIo, NotImported, When, HasIo, Http
  <2>4. worldImports = {} => Interface \subseteq Swept
    <3> SUFFICES ASSUME worldImports = {} PROVE Interface \subseteq Swept
      OBVIOUS
    <3>1. ~WorldRequiresIo
      BY DEF WorldRequiresIo
    <3>2. Preview1 \subseteq Swept
      BY <2>1, SweptInTheEnd
         DEF Preview1, UnusedFilesystem, UnusedCli, UnusedClocks, UnusedStdio, When
    <3> QED
      BY <2>3, <3>1, <3>2 DEF Interface, When
  <2>5. \A i \in Swept \ worldImports : i \notin Kept
    BY DEF IInv, ImportsAre
  <2> QED
    BY <2>2, <2>3, <2>4, <2>5, Kinds DEF Kept
<1> QED
  BY <1>1, Invariance, PTL

(* No pass takes away what an enabled feature is made of, the fetch event  *)
(* included, but for its wasi:io when clocks, stdio and http are disabled  *)
(* and the target world does not need it.                                  *)
THEOREM FeaturesAreKept == Spec => []EnabledFeaturesKept
<1>1. IInv => EnabledFeaturesKept
  <2> SUFFICES ASSUME IInv, pc = "done" PROVE EnabledFeaturesKept
    BY DEF EnabledFeaturesKept, Done, At
  <2>1. \A i \in Interface \ Swept : i \in Kept
    BY DEF IInv, ImportsAre
  <2> USE SweptInTheEnd
      DEF UnusedFilesystem, UnusedCli, UnusedRandom, UnusedClocks, UnusedStdio, UnusedHttp,
          UnusedIo, NotImported, When, HasIo, Interface, Wasi, Preview1, Sockets, Filesystem, Cli,
          Terminals, Random, Clocks, Stdio, Io, Http
  <2>2. "random" \in features => Random \subseteq Interface \ Swept
    OBVIOUS
  <2>3. "clocks" \in features => Clocks \cup Io \cup {"p1/clocks"} \subseteq Interface \ Swept
    OBVIOUS
  <2>4. "stdio" \in features => Stdio \cup Io \cup {"p1/stdio"} \subseteq Interface \ Swept
    OBVIOUS
  <2>5. "http" \in features => Http \cup Io \subseteq Interface \ Swept
    OBVIOUS
  <2>6. "fetch-event" \in features => "http/types" \in Interface \ Swept
    OBVIOUS
  <2>7. FetchEventAlone \/ Io \subseteq Interface \ Swept
    <3>1. FetchEventAlone \/ HasIo
      <4>1. features \subseteq Feature
        BY DEF IInv, Selected
      <4> QED
        BY <4>1 DEF FetchEventAlone, Feature
    <3> QED
      BY <3>1
  <2> QED
    BY <2>1, <2>2, <2>3, <2>4, <2>5, <2>6, <2>7 DEF EnabledFeaturesKept
<1> QED
  BY <1>1, Invariance, PTL

(* What no feature governs stays exactly when the target world imports it, *)
(* in any version, and with it the wasi:io it is made of.                  *)
THEOREM UngovernedAreKept == Spec => []UngovernedKept
<1>1. IInv => UngovernedKept
  <2> SUFFICES ASSUME IInv, pc = "done" PROVE UngovernedKept
    BY DEF UngovernedKept, Done, At
  <2>1. /\ \A i \in Interface \ Swept : i \in Kept
        /\ \A i \in Swept \ worldImports : i \notin Kept
    BY DEF IInv, ImportsAre
  <2> DEFINE Ungoverned == Sockets \cup Filesystem \cup Cli
  <2>2. Ungoverned \subseteq Interface
    BY DEF Interface, Wasi
  <2>3. Ungoverned \ worldImports \subseteq Swept
    BY SweptInTheEnd DEF UnusedFilesystem, UnusedCli, NotImported
  <2>4. Ungoverned \cap worldImports \cap Swept = {}
    BY SweptInTheEnd
       DEF UnusedFilesystem, UnusedCli, UnusedRandom, UnusedClocks, UnusedStdio, UnusedHttp,
           UnusedIo, NotImported, When, Sockets, Filesystem, Cli, Terminals, Random, Clocks, Stdio,
           Io, Http
  <2>5. WorldRequiresIo => Io \subseteq Interface \ Swept
    BY SweptInTheEnd
       DEF UnusedFilesystem, UnusedCli, UnusedRandom, UnusedClocks, UnusedStdio, UnusedHttp,
           UnusedIo, NotImported, When, HasIo, Sockets, Filesystem, Cli, Terminals, Random, Clocks,
           Stdio, Io, Http, Interface, Wasi
  <2> QED
    BY <2>1, <2>2, <2>3, <2>4, <2>5 DEF UngovernedKept
<1> QED
  BY <1>1, Invariance, PTL
=============================================================================

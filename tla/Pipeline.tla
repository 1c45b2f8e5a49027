------------------------------ MODULE Pipeline ------------------------------
(* componentize (componentize.js): the calls one Node.js process has in    *)
(* flight.  Each is an async function.  An action is either the effect of  *)
(* a file operation a call awaits, or what the call then does up to its    *)
(* next await: calls interleave at the awaits and nowhere else.  They      *)
(* share the temporary and the current directory, the user's files and     *)
(* the options objects their callers pass.                                 *)
(*                                                                         *)
(* A wasm module is abstracted to the world it was spliced for and the     *)
(* source it was initialised with.  The splicer, Wizer or Weval, the check *)
(* of the snapshot and jco are steps that succeed or fail.                 *)
(*                                                                         *)
(* Paths of the user's are absolute and normalised, and sequences of       *)
(* characters: componentize compares and cuts them as strings.             *)
EXTENDS Integers, SequencesExt

CONSTANTS
  Call,           \* calls of componentize
  Options,        \* options objects the callers own
  Source,         \* JavaScript sources
  World,          \* WIT worlds
  Dir,            \* names prepWorkDir can draw for a working directory
  UserPath,       \* the paths of the user's own source files
  SourcePath,     \* opts.sourcePath of each options object, or Nil
  DebugBindings,  \* options objects with debugBindings (or debug.bindings)
  DebugBinary,    \* options objects with debug.binary
  Aot,            \* options objects with enableAot
  SourceName,     \* sourceName, the name of a source in sourcesDir
  SourcesDir,     \* the path of sourcesDir for each name prepWorkDir can draw
  Cwd,            \* the path of the current directory
  ShareOptions,   \* TRUE: calls in flight may share an options object
  Nil             \* undefined, or no such file

ASSUME OptionsAssumption ==
  /\ SourcePath \in [Options -> UserPath \cup {Nil}]
  /\ Nil \notin Options \cup UserPath \cup Source \cup World \cup Dir
  /\ DebugBindings \subseteq Options
  /\ DebugBinary \subseteq Options
  /\ Aot \subseteq Options
  /\ SourceName \in Seq(STRING)
  /\ SourcesDir \in [Dir -> Seq(STRING)]
  /\ Cwd \in Seq(STRING)
  /\ ShareOptions \in BOOLEAN

VARIABLES
  pc,         \* where each call is: "idle", at a step of Progress, "settled"
  arg,        \* the arguments of each call
  workDir,    \* baseDir of prepWorkDir
  witWorld,   \* the local of each call, once the options are destructured
  jsSource,   \* the source each call has analysed
  bin,        \* the snapshot each call has read back
  offered,    \* history: the sources a call may be built from, that is its
              \* text, or what its file has held since the call read it
  outcome,    \* how each call settled
  optsWorld,  \* the witWorld property of each options object
  dirs,       \* working directories on disk
  disk        \* contents of every file, Nil if there is none

locals == <<witWorld, jsSource, bin, offered>>
shared == <<optsWorld, dirs, disk>>
vars == <<pc, arg, workDir, locals, outcome, shared>>

Argument == [sig : {"opts", "source_opts", "source_world"}, opts : Options,
             source : Source \cup {Nil}, world : World]
Wasm == [source : Source, world : World]

WorkFile == {"in", "initializer", "source", "out"}
Tree(d) == {d} \X WorkFile
BinaryWasm == <<"cwd", "binary.wasm">>
Path == (Dir \X WorkFile) \cup UserPath \cup {BinaryWasm}

(* The user's sources are neither in a directory whose name is still to be *)
(* drawn nor the binary.wasm that debug calls write, and their paths have  *)
(* no empty component.                                                     *)
ASSUME PathAssumption ==
  /\ UserPath \subseteq Seq(STRING)
  /\ \A u \in UserPath : \A i \in 1..Len(u) :
       u[i] = "/" => i < Len(u) /\ u[i + 1] # "/"
  /\ UserPath \cap ((Dir \X WorkFile) \cup {BinaryWasm}) = {}
  /\ Nil \notin Path

(* Where a call owns its working directory, and where it is rid of it.     *)
WithDir == {"mkdirSources", "options", "readSource", "parse", "splice",
            "writeIn", "writeInitializer", "bindings", "keepSource",
            "initialise", "rmFailed", "readOut", "initWasm", "rm"}
AfterDir == {"checkInit", "writeBinary", "compose"}
Progress == {"mkdir"} \cup WithDir \cup AfterDir
Failure == {"io", "source", "wit", "reference", "wizer", "check", "stub", "type"}

-----------------------------------------------------------------------------
(* A call in flight.                                                       *)

Legacy(c) == arg[c].sig # "opts"          \* ~useOriginalSourceFile
Debug(c) == arg[c].opts \in DebugBindings \* debugBindings

At(c, step) == pc[c] = step
GoTo(c, step) ==
  /\ pc' = [pc EXCEPT ![c] = step]
  /\ UNCHANGED outcome

Settle(c, how) ==
  /\ pc' = [pc EXCEPT ![c] = "settled"]
  /\ outcome' = [outcome EXCEPT ![c] = how]

(* An exception: componentize catches none.                                *)
Throw(c, why) ==
  /\ Settle(c, why)
  /\ UNCHANGED <<arg, workDir, locals, shared>>

Work(c, file) == <<workDir[c], file>>

(* writeFile of a file in the working directory, or beside it. *)
Write(path, content) ==
  /\ path \in Dir \X WorkFile => path[1] \in dirs
  /\ disk' = [disk EXCEPT ![path] = content]
  /\ UNCHANGED <<optsWorld, dirs>>

(* Mutant: the clean-up does nothing. *)
ForgetTree(d) == UNCHANGED <<dirs, disk>>

(* rm(workDir, {recursive: true}). *)
RemoveTree(d) ==
  /\ dirs' = dirs \ {d}
  /\ disk' = [p \in Path |-> IF p \in Tree(d) THEN Nil ELSE disk[p]]

(* sourcePath once the options are destructured. *)
SourceFile(c) ==
  IF SourcePath[arg[c].opts] # Nil THEN SourcePath[arg[c].opts]
  ELSE Work(c, "source")

(* Mutant: the output goes to the current directory. *)
OutInCwd(c) == BinaryWasm

OutputFile(c) == Work(c, "out")

(* workspacePrefix.startsWith(currentDir), the prefix being the directory  *)
(* of the source file u.                                                   *)
CwdIsPrefix(u) ==
  IsPrefix(Cwd, u) /\ (Cwd = <<"/">> \/ \E i \in (Len(Cwd) + 1)..Len(u) : u[i] = "/")

(* Mutant: one character more is cut. *)
CutShort(u) == SubSeq(u, Len(Cwd) + 3, Len(u))

(* sourcePath.slice(workspacePrefix.length + 1), where the prefix is Cwd. *)
Cut(u) == SubSeq(u, Len(Cwd) + 2, Len(u))

(* The file that Wizer opens under the map of / to the current directory.  *)
(* A path that resolves to one with that prefix is made relative to it,    *)
(* which takes a sibling's outside the map; any other is absolute and is   *)
(* looked up under the map.                                                *)
Remapped(rest) ==
  LET Absolute == rest # <<>> /\ rest[1] = "/"
      InCwd == IF Cwd = <<"/">> THEN Cwd \o rest ELSE Cwd \o <<"/">> \o rest
      opened == IF ~Absolute THEN InCwd
                ELSE IF Cwd = <<"/">> \/ IsPrefix(Cwd \o <<"/">>, rest) THEN rest
                ELSE IF IsPrefix(Cwd, rest) THEN Nil
                ELSE Cwd \o rest
  IN  IF opened \in UserPath THEN opened ELSE Nil

(* The file the initialisation opens as the source, Nil if it is given a   *)
(* path no file of the user's has.  Weval gets sourcePath itself.  Wizer   *)
(* gets a path relative to the directory it maps: for a source passed as a *)
(* string, its name in sourcesDir; then the current directory, where it is *)
(* a prefix of the mapped one, is cut off by its length.                   *)
InitialisedFile(c) ==
  CASE arg[c].opts \in Aot -> SourceFile(c)
    [] arg[c].opts \notin Aot /\ Legacy(c) ->
         IF IsPrefix(Cwd, SourcesDir[workDir[c]]) THEN Remapped(Cut(SourceName))
         ELSE Work(c, "source")
    [] arg[c].opts \notin Aot /\ ~Legacy(c) ->
         IF CwdIsPrefix(SourceFile(c)) THEN Remapped(Cut(SourceFile(c))) ELSE SourceFile(c)

(* The calls whose source is still in the file u, which they have read or  *)
(* written.                                                                *)
Exposed(c, u) ==
  /\ pc[c] \in {"parse", "splice", "writeIn", "writeInitializer", "bindings", "keepSource",
                "initialise"}
  /\ Legacy(c) => At(c, "initialise")
  /\ SourcePath[arg[c].opts] = u

(* The file u is given the source s. *)
Offer(u, s) ==
  offered' = [c \in Call |-> IF Exposed(c, u) THEN offered[c] \cup {s} ELSE offered[c]]

-----------------------------------------------------------------------------
(* The steps of a call, in order.                                          *)

Init ==
  /\ pc = [c \in Call |-> "idle"]
  /\ arg = [c \in Call |-> Nil]
  /\ workDir = [c \in Call |-> Nil]
  /\ witWorld = [c \in Call |-> Nil]
  /\ jsSource = [c \in Call |-> Nil]
  /\ bin = [c \in Call |-> Nil]
  /\ offered = [c \in Call |-> {}]
  /\ outcome = [c \in Call |-> "none"]
  /\ optsWorld \in [Options -> World]
  /\ dirs = {}
  /\ \E user \in [UserPath -> Source] :
       disk = [p \in Path |-> IF p \in UserPath THEN user[p] ELSE Nil]

InUse(o) == \E c \in Call : pc[c] \in Progress /\ arg[c].opts = o

(* Mutant: the two strings of the oldest signature change places. *)
SwappedRequest(sig, o, source, world) ==
  [sig |-> sig, opts |-> o, source |-> world, world |-> source]

(* What a caller asks for: a source as text, or in the file of the options, *)
(* and a world in the options or beside them.                              *)
RequestOf(sig, o, source, world) ==
  [sig |-> sig, opts |-> o,
   source |-> IF sig = "opts" THEN Nil ELSE source,
   world |-> IF sig = "source_world" THEN world ELSE optsWorld[o]]

(* The handling of the signatures, and prepWorkDir up to its first await.  *)
(* The oldest signature stores the world in the caller's options object.   *)
Invoke(c) ==
  /\ At(c, "idle")
  /\ \E o \in Options, sig \in {"opts", "source_opts", "source_world"},
        source \in Source, world \in World :
       /\ ShareOptions \/ ~InUse(o)
       /\ arg' = [arg EXCEPT ![c] = RequestOf(sig, o, source, world)]
       /\ optsWorld' = IF sig = "source_world"
                       THEN [optsWorld EXCEPT ![o] = world] ELSE optsWorld
  /\ offered' = [offered EXCEPT ![c] = {arg'[c].source} \ {Nil}]
  /\ \E d \in Dir : workDir' = [workDir EXCEPT ![c] = d]
  /\ GoTo(c, "mkdir")
  /\ UNCHANGED <<witWorld, jsSource, bin, dirs, disk>>

(* Mutant: mkdir is told not to mind a directory that is there. *)
MakeBaseRecursive(c) ==
  /\ At(c, "mkdir")
  /\ \/ /\ dirs' = dirs \cup {workDir[c]}
        /\ GoTo(c, "mkdirSources")
        /\ UNCHANGED <<arg, workDir, locals, optsWorld, disk>>
     \/ Throw(c, "io")

(* mkdir(baseDir) fails if the random name is taken. *)
MakeBase(c) ==
  /\ At(c, "mkdir")
  /\ \/ /\ workDir[c] \notin dirs
        /\ dirs' = dirs \cup {workDir[c]}
        /\ GoTo(c, "mkdirSources")
        /\ UNCHANGED <<arg, workDir, locals, optsWorld, disk>>
     \/ Throw(c, "io")

MakeSources(c) ==
  /\ At(c, "mkdirSources")
  /\ \/ /\ workDir[c] \in dirs
        /\ GoTo(c, "options")
        /\ UNCHANGED <<arg, workDir, locals, shared>>
     \/ Throw(c, "io")

(* Mutant: jsSource is declared outside the function. *)
DestructureGlobal(c) ==
  /\ At(c, "options")
  /\ witWorld' = [witWorld EXCEPT ![c] = optsWorld[arg[c].opts]]
  /\ IF Legacy(c)
     THEN /\ jsSource' = [e \in Call |-> arg[c].source]
          /\ GoTo(c, "parse")
     ELSE /\ UNCHANGED jsSource
          /\ GoTo(c, "readSource")
  /\ UNCHANGED <<arg, workDir, bin, offered, shared>>

(* The options are destructured only here, two awaits after the call.      *)
Destructure(c) ==
  /\ At(c, "options")
  /\ witWorld' = [witWorld EXCEPT ![c] = optsWorld[arg[c].opts]]
  /\ IF Legacy(c)
     THEN /\ jsSource' = [jsSource EXCEPT ![c] = arg[c].source]
          /\ GoTo(c, "parse")
     ELSE /\ UNCHANGED jsSource
          /\ GoTo(c, "readSource")
  /\ UNCHANGED <<arg, workDir, bin, offered, shared>>

ReadSource(c) ==
  /\ At(c, "readSource")
  /\ \/ /\ disk[SourceFile(c)] # Nil
        /\ jsSource' = [jsSource EXCEPT ![c] = disk[SourceFile(c)]]
        /\ offered' = [offered EXCEPT ![c] = {disk[SourceFile(c)]}]
        /\ GoTo(c, "parse")
        /\ UNCHANGED <<arg, workDir, witWorld, bin, shared>>
     \/ Throw(c, "io")

(* detectKnownSourceExportNames; then readFile(engine) and spliceBindings. *)
Parse(c) ==
  /\ At(c, "parse")
  /\ \/ GoTo(c, "splice") /\ UNCHANGED <<arg, workDir, locals, shared>>
     \/ Throw(c, "source")

Splice(c) ==
  /\ At(c, "splice")
  /\ \/ GoTo(c, "writeIn") /\ UNCHANGED <<arg, workDir, locals, shared>>
     \/ Throw(c, "wit")

(* The module and the bindings spliceBindings made for the world.          *)
WriteIn(c) ==
  /\ At(c, "writeIn")
  /\ \/ /\ Write(Work(c, "in"), witWorld[c])
        /\ GoTo(c, "writeInitializer")
        /\ UNCHANGED <<arg, workDir, locals>>
     \/ Throw(c, "io")

WriteInitializer(c) ==
  /\ At(c, "writeInitializer")
  /\ \/ /\ Write(Work(c, "initializer"), witWorld[c])
        /\ GoTo(c, "bindings")
        /\ UNCHANGED <<arg, workDir, locals>>
     \/ Throw(c, "io")

(* Debug output of the bindings, to debug.bindingsDir or to the console.   *)
ShowBindings(c) ==
  /\ At(c, "bindings")
  /\ \/ GoTo(c, "keepSource") /\ UNCHANGED <<arg, workDir, locals, shared>>
     \/ Debug(c) /\ Throw(c, "io")

(* A source passed as text is written to sourcePath.  With debugBindings   *)
(* a message first names tmpDir, which is not defined.                     *)
KeepSource(c) ==
  /\ At(c, "keepSource")
  /\ \/ /\ ~Legacy(c)
        /\ GoTo(c, "initialise")
        /\ UNCHANGED <<arg, workDir, locals, shared>>
     \/ /\ Legacy(c)
        /\ ~Debug(c)
        /\ \/ /\ Write(SourceFile(c), jsSource[c])
              /\ Offer(SourceFile(c), jsSource[c])
              /\ GoTo(c, "initialise")
              /\ UNCHANGED <<arg, workDir, witWorld, jsSource, bin>>
           \/ Throw(c, "io")
     \/ /\ Legacy(c)
        /\ Debug(c)
        /\ Throw(c, "reference")

(* Everything Wizer or Weval opens is there. *)
InputsReadable(c) ==
  /\ InitialisedFile(c) # Nil
  /\ disk[InitialisedFile(c)] # Nil
  /\ disk[Work(c, "in")] # Nil
  /\ disk[Work(c, "initializer")] # Nil

(* Mutant: the working directory goes in debug mode too. *)
KeepsNothing(c) == FALSE

(* Debug mode keeps the working directory, and says so in the error.       *)
KeepsWorkDir(c) == Debug(c)

(* spawnSync: the other calls stand still while the module is initialised. *)
Initialise(c) ==
  /\ At(c, "initialise")
  /\ \/ /\ InputsReadable(c)
        /\ Write(OutputFile(c), [source |-> disk[InitialisedFile(c)],
                                 world |-> disk[Work(c, "in")]])
        /\ GoTo(c, "readOut")
        /\ UNCHANGED <<arg, workDir, locals>>
     \/ /\ ~KeepsWorkDir(c)
        /\ GoTo(c, "rmFailed")
        /\ UNCHANGED <<arg, workDir, locals, shared>>
     \/ /\ KeepsWorkDir(c)
        /\ Throw(c, "wizer")

RemoveAfterFailure(c) ==
  /\ At(c, "rmFailed")
  /\ \/ /\ RemoveTree(workDir[c])
        /\ Settle(c, "wizer")
        /\ UNCHANGED <<arg, workDir, locals, optsWorld>>
     \/ Throw(c, "io")

ReadOut(c) ==
  /\ At(c, "readOut")
  /\ \/ /\ disk[OutputFile(c)] # Nil
        /\ bin' = [bin EXCEPT ![c] = disk[OutputFile(c)]]
        /\ GoTo(c, "initWasm")
        /\ UNCHANGED <<arg, workDir, witWorld, jsSource, offered, shared>>
     \/ Throw(c, "io")

(* initWasm, then check_init. *)
InitWasm(c) ==
  /\ At(c, "initWasm")
  /\ \/ /\ GoTo(c, IF KeepsWorkDir(c) THEN "checkInit" ELSE "rm")
        /\ UNCHANGED <<arg, workDir, locals, shared>>
     \/ Throw(c, "check")

RemoveWorkDir(c) ==
  /\ At(c, "rm")
  /\ \/ /\ RemoveTree(workDir[c])
        /\ GoTo(c, "checkInit")
        /\ UNCHANGED <<arg, workDir, locals, optsWorld>>
     \/ Throw(c, "io")

CheckInit(c) ==
  /\ At(c, "checkInit")
  /\ \/ /\ GoTo(c, IF Debug(c) THEN "writeBinary" ELSE "compose")
        /\ UNCHANGED <<arg, workDir, locals, shared>>
     \/ \E why \in {"check", "stub"} : Throw(c, why)

WriteBinary(c) ==
  /\ At(c, "writeBinary")
  /\ \/ /\ Write(BinaryWasm, bin[c])
        /\ GoTo(c, "compose")
        /\ UNCHANGED <<arg, workDir, locals>>
     \/ Throw(c, "io")

(* componentNew and metadataAdd; the result.  debugOutput is declared and  *)
(* never given an object, so assigning its properties throws.              *)
Compose(c) ==
  /\ At(c, "compose")
  /\ \/ /\ ~Debug(c) /\ arg[c].opts \notin DebugBinary
        /\ Settle(c, "component")
        /\ UNCHANGED <<arg, workDir, locals, shared>>
     \/ /\ Debug(c) \/ arg[c].opts \in DebugBinary
        /\ Throw(c, "type")
     \/ Throw(c, "io")

Step(c) ==
  \/ Invoke(c)
  \/ MakeBase(c) \/ MakeSources(c) \/ Destructure(c)
  \/ ReadSource(c) \/ Parse(c) \/ Splice(c)
  \/ WriteIn(c) \/ WriteInitializer(c) \/ ShowBindings(c) \/ KeepSource(c)
  \/ Initialise(c) \/ RemoveAfterFailure(c)
  \/ ReadOut(c) \/ InitWasm(c) \/ RemoveWorkDir(c) \/ CheckInit(c)
  \/ WriteBinary(c) \/ Compose(c)

(* The user saves a source file, at any time. *)
Edit(u, s) ==
  /\ Write(u, s)
  /\ Offer(u, s)
  /\ UNCHANGED <<pc, arg, workDir, witWorld, jsSource, bin, outcome>>

Finished == \A c \in Call : At(c, "settled")

Next ==
  \/ \E c \in Call : Step(c)
  \/ \E u \in UserPath, s \in Source : Edit(u, s)
  \/ Finished /\ UNCHANGED vars

Spec == Init /\ [][Next]_vars

-----------------------------------------------------------------------------
(* Properties.                                                             *)

(* The type of every variable. *)
TypeOK ==
  /\ pc \in [Call -> {"idle", "settled"} \cup Progress]
  /\ arg \in [Call -> Argument \cup {Nil}]
  /\ workDir \in [Call -> Dir \cup {Nil}]
  /\ witWorld \in [Call -> World \cup {Nil}]
  /\ jsSource \in [Call -> Source \cup {Nil}]
  /\ bin \in [Call -> Wasm \cup {Nil}]
  /\ offered \in [Call -> SUBSET Source]
  /\ outcome \in [Call -> {"none", "component"} \cup Failure]
  /\ optsWorld \in [Options -> World]
  /\ dirs \subseteq Dir
  /\ disk \in [Path -> Source \cup World \cup Wasm \cup {Nil}]

(* From mkdir to rm a call's working directory is on disk and is no other  *)
(* call's: no clean-up takes the files of a call that still needs them.    *)
ExclusiveWorkDir ==
  \A c \in Call : pc[c] \in WithDir =>
    /\ workDir[c] \in dirs
    /\ \A e \in Call \ {c} : pc[e] \in WithDir => workDir[e] # workDir[c]

(* The temporary directory holds nothing that is not accounted for: every  *)
(* working directory belongs to a call in flight, to a debug call, or to a *)
(* call that threw, and files are only in those.  In particular a call     *)
(* that returned, or whose initialisation failed, left nothing.            *)
DirsAccounted ==
  /\ \A d \in dirs : \E c \in Call :
       /\ workDir[c] = d
       /\ \/ pc[c] \in WithDir
          \/ pc[c] \in AfterDir \cup {"settled"} /\ Debug(c)
          \/ outcome[c] \in Failure \ {"wizer", "stub", "type"}
  /\ \A d \in Dir \ dirs : \A f \in WorkFile : disk[<<d, f>>] = Nil

(* "Binary and sources available for debugging at ${workDir}": they still  *)
(* are, whatever other calls have done since.                              *)
DebugDirKept ==
  \A c \in Call : outcome[c] = "wizer" /\ Debug(c) =>
    /\ workDir[c] \in dirs
    /\ disk[Work(c, "in")] = witWorld[c]
    /\ disk[Work(c, "initializer")] = witWorld[c]

(* Where the cut goes wrong: Cwd is the root, or ends inside a name of the *)
(* path, so that the character cut with it is not a separator.             *)
CutAstray(u) == CwdIsPrefix(u) /\ (Cwd = <<"/">> \/ u[Len(Cwd) + 1] # "/")

(* The path of a call that runs Wizer is cut astray; the name of a source  *)
(* passed as text is, whenever it is cut.                                  *)
Astray(c) ==
  /\ arg[c].opts \notin Aot
  /\ IF Legacy(c) THEN IsPrefix(Cwd, SourcesDir[workDir[c]]) ELSE CutAstray(SourceFile(c))

(* The source the initialisation runs and the one whose exports decided    *)
(* the features are the call's own text, or were both in the file its      *)
(* options name at or since the read: they are the same unless that file   *)
(* was rewritten in between.  No other call's files come into it.          *)
AnalysedIsInitialised ==
  \A c \in Call : At(c, "initialise") /\ InputsReadable(c) /\ ~Astray(c) =>
    {jsSource[c], disk[InitialisedFile(c)]} \subseteq offered[c]

(* What a caller sees of its call. *)
StatusOf(c) ==
  CASE At(c, "idle") -> "idle"
    [] At(c, "settled") -> IF outcome[c] = "component" THEN "returned" ELSE "failed"
    [] OTHER -> "running"
AskedOf(c) ==
  IF At(c, "idle") THEN Nil
  ELSE [text |-> arg[c].source, path |-> SourcePath[arg[c].opts], world |-> arg[c].world]
BuiltOf(c) == IF outcome[c] = "component" THEN bin[c] ELSE Nil

status == [c \in Call |-> StatusOf(c)]
files == [u \in UserPath |-> disk[u]]
asked == [c \in Call |-> AskedOf(c)]
built == [c \in Call |-> BuiltOf(c)]

(* Calls implement the contract their callers rely on. *)
Contract == INSTANCE BuildContract WITH
  status <- status, files <- files, asked <- asked, seen <- offered, built <- built

ImplementsContract == Contract!Spec

(* "@param witWorld Inline WIT string to componentize to" (types.d.ts):    *)
(* the world a caller passes beside the options is the one that is built.  *)
LegacyWorldHonoured ==
  \A c \in Call : outcome[c] = "component" /\ arg[c].sig = "source_world" =>
    bin[c].world = arg[c].world

(* "Debugging output (only present if enabled)" (types.d.ts): asking for   *)
(* it is not by itself a reason to fail.                                   *)
DebugOutputPresent == \A c \in Call : outcome[c] # "type"

(* The initialisation is pointed at the file that the call has read or     *)
(* written, whatever signature, path and tool, and it is still there; but  *)
(* for a source passed as text with a sourcePath, which is written there   *)
(* and not to the file that Wizer is given, and for paths cut astray.      *)
TextBesideWizer(c) ==
  Legacy(c) /\ SourcePath[arg[c].opts] # Nil /\ arg[c].opts \notin Aot
SourceReachesInitialiser ==
  \A c \in Call : At(c, "initialise") /\ ~TextBesideWizer(c) /\ ~Astray(c) =>
    InputsReadable(c) /\ InitialisedFile(c) = SourceFile(c)
=============================================================================

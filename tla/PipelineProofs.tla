--------------------------- MODULE PipelineProofs ---------------------------
(* What holds of componentize for any number of calls in flight, options   *)
(* objects, sources, worlds and directory names.                           *)
(*                                                                         *)
(* IInv says what a call has at each step: a directory of its own, the     *)
(* files it has written there, a source and a world.  OwnInv adds where    *)
(* they come from: the source from what the caller has offered and, if     *)
(* calls in flight share no options object, the world from the caller.     *)
EXTENDS Pipeline, SequenceTheorems, TLAPS

(* The steps with a world, with a source, and with each file written.      *)
HasWorld == (WithDir \ {"mkdirSources", "options"}) \cup AfterDir
HasSource == HasWorld \ {"readSource"}
HasIn == {"writeInitializer", "bindings", "keepSource", "initialise", "rmFailed", "readOut",
          "initWasm", "rm"}
HasInitializer == HasIn \ {"writeInitializer"}
HasBin == {"initWasm", "rm"} \cup AfterDir

(* A debug call whose initialisation failed keeps its directory for good.  *)
KeptForDebug(c) == outcome[c] = "wizer" /\ Debug(c)
Holding(c) == pc[c] \in WithDir \/ KeptForDebug(c)

CallTyped(c) ==
  /\ pc[c] # "idle" => /\ arg[c] \in Argument
                       /\ workDir[c] \in Dir
                       /\ Legacy(c) => arg[c].source \in Source
                       /\ ~Legacy(c) => arg[c].source = Nil
  /\ pc[c] \in HasWorld => witWorld[c] \in World
  /\ pc[c] \in HasSource => jsSource[c] \in Source
  /\ outcome[c] = "none" <=> pc[c] # "settled"
  /\ pc[c] \in {"rmFailed", "rm"} => ~Debug(c)
  /\ pc[c] = "readSource" => ~Legacy(c)
  /\ pc[c] \in HasSource /\ ~Legacy(c) => SourcePath[arg[c].opts] # Nil

(* The file of a source passed as text, when its path is the default.      *)
TextFile(c) == Legacy(c) /\ SourcePath[arg[c].opts] = Nil

CallFiles(c) ==
  /\ pc[c] \in HasIn \/ KeptForDebug(c) => disk[Work(c, "in")] = witWorld[c]
  /\ pc[c] \in HasInitializer \/ KeptForDebug(c) => disk[Work(c, "initializer")] = witWorld[c]
  /\ pc[c] \in WithDir \ {"initialise", "rmFailed", "readOut", "initWasm", "rm"} =>
       disk[Work(c, "source")] = Nil
  /\ pc[c] = "initialise" =>
       disk[Work(c, "source")] = IF TextFile(c) THEN jsSource[c] ELSE Nil

OwnDir(c) ==
  Holding(c) => /\ workDir[c] \in dirs
                /\ \A e \in Call \ {c} : Holding(e) => workDir[e] # workDir[c]

(* What kind of thing each file holds.                                     *)
DiskTyped ==
  /\ \A u \in UserPath : disk[u] \in Source
  /\ \A d \in Dir :
       /\ disk[<<d, "in">>] \in World \cup {Nil}
       /\ disk[<<d, "initializer">>] \in World \cup {Nil}
       /\ disk[<<d, "source">>] \in Source \cup {Nil}
       /\ disk[<<d, "out">>] \in Wasm \cup {Nil}

IInv ==
  /\ TypeOK
  /\ DiskTyped
  /\ \A c \in Call : CallTyped(c) /\ CallFiles(c) /\ OwnDir(c)
  /\ DirsAccounted

(* The steps at which the source is still in its file.                     *)
Reading == {"parse", "splice", "writeIn", "writeInitializer", "bindings", "keepSource",
            "initialise"}

(* What a call has is what its caller offered, and with options objects    *)
(* that calls in flight do not share, the world its caller asked for.      *)
SourceKept(c) ==
  /\ pc[c] # "idle" /\ Legacy(c) => arg[c].source \in offered[c]
  /\ pc[c] \in HasSource => jsSource[c] \in offered[c]
  /\ pc[c] \in Reading /\ ~Legacy(c) => disk[SourcePath[arg[c].opts]] \in offered[c]
  /\ pc[c] = "initialise" /\ Legacy(c) => disk[SourceFile(c)] \in offered[c]
  /\ pc[c] = "readOut" /\ ~Astray(c) => disk[Work(c, "out")].source \in offered[c]
  /\ (pc[c] \in HasBin \/ outcome[c] = "component") /\ ~Astray(c) => bin[c].source \in offered[c]

WorldKept(c) ==
  /\ pc[c] \in {"mkdir", "mkdirSources", "options"} => optsWorld[arg[c].opts] = arg[c].world
  /\ pc[c] \in HasWorld => witWorld[c] = arg[c].world
  /\ pc[c] = "readOut" => disk[Work(c, "out")].world = arg[c].world
  /\ pc[c] \in HasBin \/ outcome[c] = "component" => bin[c].world = arg[c].world

CallKept(c) ==
  /\ SourceKept(c)
  /\ ~ShareOptions => WorldKept(c)
  /\ pc[c] \in HasBin \/ outcome[c] = "component" => bin[c] \in Wasm
  /\ pc[c] = "readOut" => disk[Work(c, "out")] \in Wasm

(* Calls in flight share no options object, if callers see to that.        *)
CallOwn(c) ==
  /\ CallKept(c)
  /\ ~ShareOptions /\ pc[c] \in Progress =>
       \A e \in Call \ {c} : pc[e] \in Progress => arg[e].opts # arg[c].opts

OwnInv == IInv /\ \A c \in Call : CallOwn(c)
-----------------------------------------------------------------------------
(* Steps of one call and the state of the others.                          *)

OthersStay(c) ==
  \A e \in Call \ {c} :
    /\ pc'[e] = pc[e] /\ arg'[e] = arg[e] /\ workDir'[e] = workDir[e]
    /\ witWorld'[e] = witWorld[e] /\ jsSource'[e] = jsSource[e]
    /\ bin'[e] = bin[e] /\ outcome'[e] = outcome[e]

(* A step leaves the directory of another call alone.                      *)
DirStays(e) ==
  Holding(e) => /\ workDir[e] \in dirs'
                /\ \A f \in WorkFile : disk'[<<workDir[e], f>>] = disk[<<workDir[e], f>>]

(* Who answers for a directory in DirsAccounted.                           *)
Answers(c) ==
  \/ pc[c] \in WithDir
  \/ pc[c] \in AfterDir \cup {"settled"} /\ Debug(c)
  \/ outcome[c] \in Failure \ {"wizer", "stub", "type"}

(* Paths of different files are different.                                 *)
LEMMA Paths ==
  /\ \A d \in Dir : \A f \in WorkFile :
       /\ <<d, f>> \in Path /\ <<d, f>> \notin UserPath /\ <<d, f>> # BinaryWasm
       /\ <<d, f>> # Nil
  /\ \A u \in UserPath : u \in Path /\ u # BinaryWasm /\ u # Nil
  /\ BinaryWasm \in Path
  /\ \A d, e : \A f, g : <<d, f>> = <<e, g>> => d = e /\ f = g
<1>1. \A d \in Dir : \A f \in WorkFile : <<d, f>> \in Dir \X WorkFile
  OBVIOUS
<1>2. \A d, f : f \in WorkFile => <<d, f>> # BinaryWasm
  BY DEF WorkFile, BinaryWasm
<1> QED
  BY <1>1, <1>2, PathAssumption DEF Path

LEMMA OtherCall ==
  ASSUME IInv, NEW c \in Call, OthersStay(c), NEW e \in Call \ {c}, DirStays(e)
  PROVE  /\ CallTyped(e)'
         /\ CallFiles(e)'
         /\ Holding(e)' <=> Holding(e)
         /\ Answers(e)' <=> Answers(e)
         /\ workDir'[e] = workDir[e]
<1>1. /\ pc'[e] = pc[e] /\ arg'[e] = arg[e] /\ workDir'[e] = workDir[e]
      /\ witWorld'[e] = witWorld[e] /\ jsSource'[e] = jsSource[e]
      /\ bin'[e] = bin[e] /\ outcome'[e] = outcome[e]
  BY DEF OthersStay
<1>2. /\ Legacy(e)' = Legacy(e) /\ Debug(e)' = Debug(e) /\ TextFile(e)' = TextFile(e)
      /\ \A f : Work(e, f)' = Work(e, f)
      /\ KeptForDebug(e)' = KeptForDebug(e)
  BY <1>1 DEF Legacy, Debug, TextFile, Work, KeptForDebug
<1>3. CallTyped(e) /\ CallFiles(e)
  BY DEF IInv
<1>4. CallTyped(e)'
  BY <1>1, <1>2, <1>3 DEF CallTyped
<1>5. Holding(e)' <=> Holding(e)
  BY <1>1, <1>2 DEF Holding
<1>6. Answers(e)' <=> Answers(e)
  BY <1>1, <1>2 DEF Answers
<1>7. CallFiles(e)'
  <2>1. CASE Holding(e)
    <3>1. \A f \in WorkFile : disk'[Work(e, f)] = disk[Work(e, f)]
      BY <2>1 DEF DirStays, Work
    <3>2. {"in", "initializer", "source"} \subseteq WorkFile
      BY DEF WorkFile
    <3> QED
      BY <1>1, <1>2, <1>3, <3>1, <3>2 DEF CallFiles
  <2>2. CASE ~Holding(e)
    <3>1. pc[e] \notin WithDir /\ ~KeptForDebug(e)
      BY <2>2 DEF Holding
    <3>2. pc[e] \notin HasIn /\ pc[e] \notin HasInitializer /\ pc[e] # "initialise"
      BY <3>1 DEF WithDir, HasIn, HasInitializer
    <3> QED
      BY <1>1, <1>2, <3>1, <3>2 DEF CallFiles
  <2> QED
    BY <2>1, <2>2
<1> QED
  BY <1>1, <1>4, <1>5, <1>6, <1>7

(* What is left to show of a step of one call.                             *)
LEMMA Assembled ==
  ASSUME IInv, NEW c \in Call, OthersStay(c),
         TypeOK', DiskTyped', CallTyped(c)', CallFiles(c)',
         \A e \in Call \ {c} : DirStays(e),
         Holding(c)' => /\ workDir'[c] \in dirs'
                        /\ \A e \in Call \ {c} : Holding(e) => workDir[e] # workDir'[c],
         \A d \in dirs' : d \in dirs \/ d = workDir'[c],
         \A d \in dirs' : d = workDir[c] /\ Answers(c) => d = workDir'[c],
         workDir'[c] \in dirs' /\ (Answers(c) \/ workDir'[c] \notin dirs) => Answers(c)',
         \A d \in Dir \ dirs' : \A f \in WorkFile : disk'[<<d, f>>] = Nil
  PROVE  IInv'
<1>1. \A e \in Call : CallTyped(e)' /\ CallFiles(e)'
  BY OtherCall
<1>2. \A e \in Call : OwnDir(e)'
  <2> SUFFICES ASSUME NEW e \in Call, Holding(e)'
               PROVE  /\ workDir'[e] \in dirs'
                      /\ \A g \in Call \ {e} : Holding(g)' => workDir'[g] # workDir'[e]
    BY DEF OwnDir
  <2>1. CASE e = c
    BY <2>1, OtherCall
  <2>2. CASE e # c
    <3>1. Holding(e) /\ workDir'[e] = workDir[e] /\ workDir[e] \in dirs'
      BY <2>2, OtherCall DEF DirStays
    <3>2. ASSUME NEW g \in Call \ {e}, Holding(g)' PROVE workDir'[g] # workDir'[e]
      <4>1. CASE g = c
        BY <4>1, <3>1, <3>2, <2>2
      <4>2. CASE g # c
        BY <4>2, <3>1, <3>2, <2>2, OtherCall DEF IInv, OwnDir
      <4> QED
        BY <4>1, <4>2
    <3> QED
      BY <3>1, <3>2
  <2> QED
    BY <2>1, <2>2
<1>3. DirsAccounted'
  <2>1. ASSUME NEW d \in dirs' PROVE \E e \in Call : workDir'[e] = d /\ Answers(e)'
    <3>1. CASE d \notin dirs
      BY <3>1, <2>1
    <3>2. CASE d \in dirs
      <4>1. PICK e \in Call : workDir[e] = d /\ Answers(e)
        BY <3>2 DEF IInv, DirsAccounted, Answers
      <4>2. CASE e = c
        BY <4>1, <4>2, <2>1
      <4>3. CASE e # c
        BY <4>1, <4>3, OtherCall
      <4> QED
        BY <4>2, <4>3
    <3> QED
      BY <3>1, <3>2
  <2> QED
    BY <2>1 DEF DirsAccounted, Answers
<1> QED
  BY <1>1, <1>2, <1>3 DEF IInv

-----------------------------------------------------------------------------
(* Kinds of steps.                                                         *)

(* A call throws: its directory stays, unless there was none.              *)
LEMMA ThrowStep ==
  ASSUME IInv, NEW c \in Call, pc[c] \in Progress, NEW why \in Failure, Throw(c, why),
         why = "wizer" => Debug(c) /\ pc[c] \in HasInitializer,
         why \in {"stub", "type"} => pc[c] \in AfterDir
  PROVE  IInv'
<1>1. /\ pc' = [pc EXCEPT ![c] = "settled"]
      /\ outcome' = [outcome EXCEPT ![c] = why]
      /\ UNCHANGED <<arg, workDir, locals, shared>>
  BY DEF Throw, Settle
<1>2. /\ pc'[c] = "settled" /\ outcome'[c] = why
      /\ OthersStay(c)
      /\ TypeOK' /\ DiskTyped'
  BY <1>1 DEF IInv, TypeOK, DiskTyped, OthersStay, locals, shared, Failure
<1>3. /\ arg'[c] = arg[c] /\ workDir'[c] = workDir[c] /\ witWorld'[c] = witWorld[c]
      /\ Legacy(c)' = Legacy(c) /\ Debug(c)' = Debug(c)
      /\ \A f : Work(c, f)' = Work(c, f)
      /\ dirs' = dirs /\ disk' = disk
  BY <1>1 DEF Legacy, Debug, Work, locals, shared
<1>4. CallTyped(c) /\ CallFiles(c) /\ OwnDir(c)
  BY DEF IInv
<1>5. /\ pc[c] # "idle" /\ pc[c] # "settled" /\ outcome[c] = "none"
      /\ "none" \notin Failure /\ "settled" \notin Progress
  BY <1>4 DEF CallTyped, Progress, WithDir, AfterDir, Failure
<1>6. CallTyped(c)'
  BY <1>2, <1>3, <1>4, <1>5 DEF CallTyped, HasSource, HasWorld, WithDir, AfterDir
<1>7. KeptForDebug(c)' => pc[c] \in HasInitializer /\ why = "wizer"
  BY <1>2, <1>3 DEF KeptForDebug
<1>8. HasInitializer \subseteq HasIn /\ HasIn \subseteq WithDir
  BY DEF HasIn, HasInitializer, WithDir
<1>9. CallFiles(c)'
  <2>1. /\ pc'[c] \notin HasIn /\ pc'[c] \notin HasInitializer /\ pc'[c] # "initialise"
        /\ pc'[c] \notin WithDir
    BY <1>2 DEF HasIn, HasInitializer, WithDir
  <2> QED
    BY <1>3, <1>4, <1>7, <1>8, <2>1 DEF CallFiles
<1>10. Holding(c)' => Holding(c)
  BY <1>2, <1>7, <1>8 DEF Holding, WithDir
<1>11. \A e \in Call \ {c} : DirStays(e)
  BY <1>3 DEF DirStays, IInv, OwnDir
<1>12. Answers(c) => Answers(c)'
  BY <1>2, <1>3, <1>5, <1>8 DEF Answers, WithDir, AfterDir, Failure, HasInitializer
<1>13. \A d \in Dir \ dirs' : \A f \in WorkFile : disk'[<<d, f>>] = Nil
  BY Zenon, <1>3 DEF IInv, DirsAccounted
<1>14. Holding(c)' => /\ workDir'[c] \in dirs'
                     /\ \A e \in Call \ {c} : Holding(e) => workDir[e] # workDir'[c]
  BY <1>3, <1>4, <1>10 DEF OwnDir
<1>15. workDir'[c] \in dirs' /\ (Answers(c) \/ workDir'[c] \notin dirs) => Answers(c)'
  BY <1>3, <1>12
<1> QED
  BY <1>2, <1>3, <1>6, <1>9, <1>11, <1>13, <1>14, <1>15, Assembled

(* A call goes on; it has the directory it had.                            *)
LEMMA AdvanceStep ==
  ASSUME IInv, NEW c \in Call, pc[c] \in Progress, OthersStay(c),
         NEW s \in Progress, pc'[c] = s,
         UNCHANGED <<arg, workDir, outcome, dirs>>,
         \A e \in Call \ {c} : \A f \in WorkFile :
           Holding(e) => disk'[<<workDir[e], f>>] = disk[<<workDir[e], f>>],
         \A d \in Dir \ dirs : \A f \in WorkFile : disk'[<<d, f>>] = disk[<<d, f>>],
         TypeOK', DiskTyped', CallTyped(c)', CallFiles(c)',
         s \in WithDir => pc[c] \in WithDir,
         pc[c] \in WithDir => s \in WithDir \/ (s \in AfterDir /\ Debug(c)),
         pc[c] \in AfterDir => s \in AfterDir
  PROVE  IInv'
<1>1. CallTyped(c) /\ CallFiles(c) /\ OwnDir(c)
  BY DEF IInv
<1>2. /\ workDir'[c] = workDir[c] /\ Debug(c)' = Debug(c) /\ outcome'[c] = outcome[c]
      /\ outcome[c] = "none"
  BY <1>1 DEF Debug, CallTyped, Progress, WithDir, AfterDir
<1>3. \A e \in Call \ {c} : DirStays(e)
  BY DEF DirStays, IInv, OwnDir
<1>4. Holding(c)' => Holding(c)
  BY <1>2 DEF Holding, KeptForDebug
<1>5. Answers(c) => Answers(c)'
  BY <1>2 DEF Answers, Progress, WithDir, AfterDir, Failure
<1>6. \A d \in Dir \ dirs' : \A f \in WorkFile : disk'[<<d, f>>] = Nil
  <2>1. dirs' = dirs
    OBVIOUS
  <2>2. \A d \in Dir \ dirs : \A f \in WorkFile : disk[<<d, f>>] = Nil
    BY Zenon DEF IInv, DirsAccounted
  <2> QED
    BY Zenon, <2>1, <2>2
<1>7. Holding(c)' => /\ workDir'[c] \in dirs'
                     /\ \A e \in Call \ {c} : Holding(e) => workDir[e] # workDir'[c]
  BY <1>1, <1>2, <1>4 DEF OwnDir
<1>8. workDir'[c] \in dirs' /\ (Answers(c) \/ workDir'[c] \notin dirs) => Answers(c)'
  BY <1>2, <1>5
<1> QED
  BY <1>2, <1>3, <1>6, <1>7, <1>8, Assembled

(* Moving on, and nothing else.                                            *)
LEMMA QuietStep ==
  ASSUME IInv, NEW c \in Call, pc[c] \in Progress, NEW s \in Progress, GoTo(c, s),
         UNCHANGED <<arg, workDir, locals, shared>>,
         CallTyped(c)', CallFiles(c)',
         s \in WithDir => pc[c] \in WithDir,
         pc[c] \in WithDir => s \in WithDir \/ (s \in AfterDir /\ Debug(c)),
         pc[c] \in AfterDir => s \in AfterDir
  PROVE  IInv'
<1>1. /\ pc' = [pc EXCEPT ![c] = s]
      /\ UNCHANGED <<arg, workDir, outcome, witWorld, jsSource, bin, offered, optsWorld, dirs,
                     disk>>
  BY DEF GoTo, locals, shared
<1>2. pc'[c] = s /\ OthersStay(c) /\ TypeOK' /\ DiskTyped'
  BY <1>1 DEF IInv, TypeOK, DiskTyped, OthersStay
<1> QED
  BY <1>1, <1>2, AdvanceStep

(* Moving on with a file written.                                          *)
LEMMA WriteStep ==
  ASSUME IInv, NEW c \in Call, pc[c] \in Progress, NEW s \in Progress, GoTo(c, s),
         UNCHANGED <<arg, workDir, witWorld, jsSource, bin>>,
         NEW path, NEW v, Write(path, v),
         \/ pc[c] \in WithDir /\ \E f \in WorkFile : path = Work(c, f)
         \/ path \in UserPath \cup {BinaryWasm},
         TypeOK', DiskTyped', CallTyped(c)', CallFiles(c)',
         s \in WithDir => pc[c] \in WithDir,
         pc[c] \in WithDir => s \in WithDir \/ (s \in AfterDir /\ Debug(c)),
         pc[c] \in AfterDir => s \in AfterDir
  PROVE  IInv'
<1>1. /\ pc' = [pc EXCEPT ![c] = s]
      /\ UNCHANGED <<arg, workDir, outcome, witWorld, jsSource, bin, optsWorld, dirs>>
      /\ disk' = [disk EXCEPT ![path] = v]
  BY DEF GoTo, Write
<1>2. pc'[c] = s /\ OthersStay(c)
  BY <1>1 DEF IInv, TypeOK, OthersStay
<1>3. \A p \in Path : p # path => disk'[p] = disk[p]
  BY <1>1 DEF IInv, TypeOK
<1>4. workDir[c] \in Dir
  BY DEF IInv, CallTyped, Progress, WithDir, AfterDir
<1>5. ASSUME NEW d \in Dir, NEW f \in WorkFile, pc[c] \in WithDir => d # workDir[c]
      PROVE  disk'[<<d, f>>] = disk[<<d, f>>]
  <2>1. <<d, f>> # path
    BY <1>4, <1>5, Paths DEF Work
  <2> QED
    BY <1>3, <2>1, Paths
<1>6. ASSUME NEW e \in Call \ {c}, NEW f \in WorkFile, Holding(e)
      PROVE  disk'[<<workDir[e], f>>] = disk[<<workDir[e], f>>]
  <2>1. pc[c] \in WithDir => workDir[e] # workDir[c]
    BY <1>6 DEF IInv, OwnDir, Holding
  <2>2. workDir[e] \in Dir
    BY <1>6 DEF IInv, OwnDir, TypeOK
  <2> QED
    BY <1>5, <2>1, <2>2
<1>7. ASSUME NEW d \in Dir \ dirs, NEW f \in WorkFile
      PROVE  disk'[<<d, f>>] = disk[<<d, f>>]
  <2>1. pc[c] \in WithDir => d # workDir[c]
    BY DEF IInv, OwnDir, Holding
  <2> QED
    BY <1>5, <2>1
<1> QED
  BY <1>1, <1>2, <1>6, <1>7, AdvanceStep

-----------------------------------------------------------------------------
(* The initial states and every step of the inductive invariant.           *)

LEMMA InitInvariant == Init => IInv
<1> SUFFICES ASSUME Init PROVE IInv
  OBVIOUS
<1>1. PICK user \in [UserPath -> Source] :
        disk = [p \in Path |-> IF p \in UserPath THEN user[p] ELSE Nil]
  BY DEF Init
<1>2. \A c \in Call : pc[c] = "idle" /\ outcome[c] = "none"
  BY DEF Init
<1>3. TypeOK
  BY <1>1 DEF Init, TypeOK, Progress, WithDir, AfterDir, Path
<1>4. /\ \A u \in UserPath : disk[u] \in Source
      /\ \A d \in Dir : \A f \in WorkFile : disk[<<d, f>>] = Nil
  BY <1>1, Paths
<1>5. DiskTyped
  BY <1>4 DEF DiskTyped, WorkFile
<1>6. \A c \in Call : CallTyped(c) /\ CallFiles(c) /\ OwnDir(c)
  BY <1>2 DEF CallTyped, CallFiles, OwnDir, Holding, KeptForDebug, HasWorld, HasSource,
              HasIn, HasInitializer, WithDir, AfterDir
<1>7. DirsAccounted
  BY <1>4 DEF DirsAccounted, Init
<1> QED
  BY <1>3, <1>5, <1>6, <1>7 DEF IInv

(* What a caller can ask for.                                              *)
LEMMA Requests ==
  ASSUME TypeOK, NEW o \in Options, NEW sig \in {"opts", "source_opts", "source_world"},
         NEW source \in Source, NEW world \in World
  PROVE  /\ RequestOf(sig, o, source, world) \in Argument
         /\ sig # "opts" => RequestOf(sig, o, source, world).source \in Source
         /\ sig = "opts" => RequestOf(sig, o, source, world).source = Nil
BY DEF RequestOf, Argument, TypeOK

LEMMA InvokeStep ==
  ASSUME IInv, NEW c \in Call, Invoke(c)
  PROVE  IInv'
<1>1. PICK o \in Options, sig \in {"opts", "source_opts", "source_world"},
           source \in Source, world \in World :
        /\ arg' = [arg EXCEPT ![c] = RequestOf(sig, o, source, world)]
        /\ optsWorld' = IF sig = "source_world"
                        THEN [optsWorld EXCEPT ![o] = world] ELSE optsWorld
  BY DEF Invoke
<1>2. PICK d \in Dir : workDir' = [workDir EXCEPT ![c] = d]
  BY DEF Invoke
<1>3. /\ pc[c] = "idle" /\ pc' = [pc EXCEPT ![c] = "mkdir"]
      /\ UNCHANGED <<outcome, witWorld, jsSource, bin, dirs, disk>>
  BY DEF Invoke, At, GoTo
<1>4. /\ TypeOK /\ DiskTyped /\ CallTyped(c) /\ CallFiles(c) /\ OwnDir(c)
  BY DEF IInv
<1>5. /\ RequestOf(sig, o, source, world) \in Argument
      /\ sig # "opts" => RequestOf(sig, o, source, world).source \in Source
      /\ sig = "opts" => RequestOf(sig, o, source, world).source = Nil
  BY <1>4, Requests
<1>6. /\ pc'[c] = "mkdir" /\ workDir'[c] = d /\ arg'[c] = RequestOf(sig, o, source, world)
      /\ outcome'[c] = "none" /\ outcome[c] = "none"
      /\ OthersStay(c)
  BY <1>1, <1>2, <1>3, <1>4 DEF TypeOK, OthersStay, CallTyped
<1>7. TypeOK'
  <2>1. pc' \in [Call -> {"idle", "settled"} \cup Progress]
    BY <1>3, <1>4 DEF TypeOK, Progress
  <2>2. arg' \in [Call -> Argument \cup {Nil}]
    BY <1>1, <1>4, <1>5 DEF TypeOK
  <2>3. workDir' \in [Call -> Dir \cup {Nil}]
    BY <1>2, <1>4 DEF TypeOK
  <2>4. optsWorld' \in [Options -> World]
    BY <1>1, <1>4 DEF TypeOK
  <2>5. offered' \in [Call -> SUBSET Source]
    <3>1. offered' = [offered EXCEPT ![c] = {arg'[c].source} \ {Nil}]
      BY DEF Invoke
    <3>2. {arg'[c].source} \ {Nil} \in SUBSET Source
      BY <1>5, <1>6 DEF Argument
    <3> QED
      BY <1>4, <3>1, <3>2 DEF TypeOK
  <2> QED
    BY <1>3, <1>4, <2>1, <2>2, <2>3, <2>4, <2>5 DEF TypeOK
<1>8. DiskTyped'
  BY <1>3, <1>4 DEF DiskTyped
<1>9. CallTyped(c)'
  <2>1. /\ Legacy(c)' => arg'[c].source \in Source
        /\ ~Legacy(c)' => arg'[c].source = Nil
    BY <1>5, <1>6 DEF Legacy, RequestOf
  <2> QED
    BY <1>5, <1>6, <2>1 DEF CallTyped, HasWorld, HasSource, WithDir, AfterDir
<1>10. pc'[c] \notin WithDir /\ ~KeptForDebug(c)' /\ ~Holding(c)'
  BY <1>6 DEF WithDir, KeptForDebug, Holding
<1>11. CallFiles(c)'
  BY <1>6, <1>10 DEF CallFiles, HasIn, HasInitializer
<1>12. ~Answers(c)
  BY <1>3, <1>6 DEF Answers, WithDir, AfterDir, Failure
<1>13. \A e \in Call \ {c} : DirStays(e)
  BY <1>3 DEF DirStays, IInv, OwnDir
<1>14. \A g \in Dir \ dirs' : \A f \in WorkFile : disk'[<<g, f>>] = Nil
  BY Zenon, <1>3 DEF IInv, DirsAccounted
<1>15. dirs' = dirs
  BY <1>3
<1> QED
  BY <1>6, <1>7, <1>8, <1>9, <1>10, <1>11, <1>12, <1>13, <1>14, <1>15, Assembled

(* The directory is new, so it is nobody's and empty.                      *)
LEMMA MakeBaseStep ==
  ASSUME IInv, NEW c \in Call, MakeBase(c)
  PROVE  IInv'
<1>1. pc[c] = "mkdir"
  BY DEF MakeBase, At
<1>2. /\ TypeOK /\ DiskTyped /\ CallTyped(c) /\ CallFiles(c) /\ OwnDir(c)
  BY DEF IInv
<1>3. CASE Throw(c, "io")
  BY <1>1, <1>3, ThrowStep DEF Progress, Failure
<1>4. CASE /\ workDir[c] \notin dirs
           /\ dirs' = dirs \cup {workDir[c]}
           /\ GoTo(c, "mkdirSources")
           /\ UNCHANGED <<arg, workDir, locals, optsWorld, disk>>
  <2>1. /\ pc' = [pc EXCEPT ![c] = "mkdirSources"]
        /\ UNCHANGED <<arg, workDir, outcome, witWorld, jsSource, bin, offered, optsWorld, disk>>
    BY <1>4 DEF GoTo, locals
  <2>2. /\ pc'[c] = "mkdirSources" /\ workDir'[c] = workDir[c] /\ outcome'[c] = outcome[c]
        /\ outcome[c] = "none" /\ workDir[c] \in Dir /\ arg'[c] = arg[c]
        /\ OthersStay(c)
    BY <1>1, <1>2, <2>1 DEF TypeOK, OthersStay, CallTyped
  <2>3. TypeOK' /\ DiskTyped'
    BY <1>2, <1>4, <2>1, <2>2 DEF TypeOK, DiskTyped, Progress, WithDir
  <2>4. CallTyped(c)'
    BY <1>1, <1>2, <2>2 DEF CallTyped, HasWorld, HasSource, WithDir, AfterDir, Legacy
  <2>5. \A f \in WorkFile : disk'[Work(c, f)'] = Nil
    BY <1>4, <2>1, <2>2 DEF IInv, DirsAccounted, Work
  <2>6. CallFiles(c)'
    <3>1. ~KeptForDebug(c)' /\ "source" \in WorkFile
      BY <2>2 DEF KeptForDebug, WorkFile
    <3> QED
      BY <2>2, <2>5, <3>1 DEF CallFiles, HasIn, HasInitializer
  <2>7. \A e \in Call \ {c} : DirStays(e)
    BY <1>4, <2>1 DEF DirStays, IInv, OwnDir
  <2>8. \A e \in Call \ {c} : Holding(e) => workDir[e] # workDir'[c]
    BY <1>4, <2>2 DEF IInv, OwnDir
  <2>9. Answers(c)'
    BY <2>2 DEF Answers, WithDir
  <2>10. \A d \in Dir \ dirs' : \A f \in WorkFile : disk'[<<d, f>>] = Nil
    BY Zenon, <1>4, <2>1 DEF IInv, DirsAccounted
  <2>11. workDir'[c] \in dirs' /\ \A d \in dirs' : d \in dirs \/ d = workDir'[c]
    BY <1>4, <2>2
  <2> QED
    BY <2>2, <2>3, <2>4, <2>6, <2>7, <2>8, <2>9, <2>10, <2>11, Assembled
<1> QED
  BY <1>3, <1>4 DEF MakeBase

(* Steps that only move on: what the next step expects is there already.   *)
LEMMA MovesOn ==
  ASSUME IInv, NEW c \in Call, NEW s, GoTo(c, s), UNCHANGED <<arg, workDir, locals, shared>>,
         \/ pc[c] = "mkdirSources" /\ s = "options"
         \/ pc[c] = "parse" /\ s = "splice"
         \/ pc[c] = "splice" /\ s = "writeIn"
         \/ pc[c] = "bindings" /\ s = "keepSource"
         \/ pc[c] = "keepSource" /\ s = "initialise" /\ ~Legacy(c)
         \/ pc[c] = "initialise" /\ s = "rmFailed" /\ ~Debug(c)
         \/ pc[c] = "initWasm" /\ s = "checkInit" /\ Debug(c)
         \/ pc[c] = "initWasm" /\ s = "rm" /\ ~Debug(c)
         \/ pc[c] = "checkInit" /\ s \in {"writeBinary", "compose"}
  PROVE  IInv'
<1>1. CallTyped(c) /\ CallFiles(c) /\ TypeOK
  BY DEF IInv
<1>2. /\ pc'[c] = s /\ outcome' = outcome /\ arg' = arg /\ workDir' = workDir
      /\ witWorld' = witWorld /\ jsSource' = jsSource /\ disk' = disk
  BY <1>1 DEF GoTo, TypeOK, locals, shared
<1>3. /\ Legacy(c)' = Legacy(c) /\ Debug(c)' = Debug(c) /\ TextFile(c)' = TextFile(c)
      /\ KeptForDebug(c)' = KeptForDebug(c) /\ \A f : Work(c, f)' = Work(c, f)
  BY <1>2 DEF Legacy, Debug, TextFile, KeptForDebug, Work
<1>4. CallTyped(c)'
  BY <1>1, <1>2, <1>3 DEF CallTyped, HasWorld, HasSource, WithDir, AfterDir
<1>5. CallFiles(c)'
  BY <1>1, <1>2, <1>3 DEF CallFiles, HasIn, HasInitializer, WithDir, TextFile
<1>6. /\ s \in Progress /\ pc[c] \in Progress
      /\ s \in WithDir => pc[c] \in WithDir
      /\ pc[c] \in WithDir => s \in WithDir \/ (s \in AfterDir /\ Debug(c))
      /\ pc[c] \in AfterDir => s \in AfterDir
  BY DEF Progress, WithDir, AfterDir
<1> QED
  BY <1>4, <1>5, <1>6, QuietStep

LEMMA QuietActions ==
  ASSUME IInv, NEW c \in Call,
         \/ MakeSources(c) \/ Parse(c) \/ Splice(c) \/ ShowBindings(c) \/ InitWasm(c)
         \/ CheckInit(c)
  PROVE  IInv'
<1> USE DEF Progress, WithDir, AfterDir, Failure, At
<1>1. CASE MakeSources(c)
  BY <1>1, MovesOn, ThrowStep DEF MakeSources
<1>2. CASE Parse(c)
  BY <1>2, MovesOn, ThrowStep DEF Parse
<1>3. CASE Splice(c)
  BY <1>3, MovesOn, ThrowStep DEF Splice
<1>4. CASE ShowBindings(c)
  BY <1>4, MovesOn, ThrowStep DEF ShowBindings
<1>5. CASE InitWasm(c)
  <2>1. CASE Throw(c, "check")
    BY <1>5, <2>1, ThrowStep DEF InitWasm
  <2>2. CASE /\ GoTo(c, IF KeepsWorkDir(c) THEN "checkInit" ELSE "rm")
             /\ UNCHANGED <<arg, workDir, locals, shared>>
    BY <1>5, <2>2, MovesOn DEF InitWasm, KeepsWorkDir
  <2> QED
    BY <1>5, <2>1, <2>2 DEF InitWasm
<1>6. CASE CheckInit(c)
  <2>1. CASE \E why \in {"check", "stub"} : Throw(c, why)
    BY <1>6, <2>1, ThrowStep DEF CheckInit
  <2>2. CASE /\ GoTo(c, IF Debug(c) THEN "writeBinary" ELSE "compose")
             /\ UNCHANGED <<arg, workDir, locals, shared>>
    BY <1>6, <2>2, MovesOn DEF CheckInit
  <2> QED
    BY <1>6, <2>1, <2>2 DEF CheckInit
<1> QED
  BY <1>1, <1>2, <1>3, <1>4, <1>5, <1>6

LEMMA DestructureStep ==
  ASSUME IInv, NEW c \in Call, Destructure(c)
  PROVE  IInv'
<1>1. CallTyped(c) /\ CallFiles(c) /\ TypeOK /\ pc[c] = "options"
  BY DEF IInv, Destructure, At
<1>2. /\ arg[c] \in Argument /\ optsWorld[arg[c].opts] \in World /\ outcome[c] = "none"
      /\ Legacy(c) => arg[c].source \in Source
  BY <1>1 DEF CallTyped, TypeOK, Argument
<1>3. PICK s \in {"parse", "readSource"} :
        /\ GoTo(c, s) /\ s = IF Legacy(c) THEN "parse" ELSE "readSource"
  BY DEF Destructure
<1>4. /\ pc' = [pc EXCEPT ![c] = s]
      /\ witWorld' = [witWorld EXCEPT ![c] = optsWorld[arg[c].opts]]
      /\ jsSource' = IF Legacy(c) THEN [jsSource EXCEPT ![c] = arg[c].source] ELSE jsSource
      /\ UNCHANGED <<arg, workDir, outcome, bin, offered, optsWorld, dirs, disk>>
  BY <1>3 DEF Destructure, GoTo, shared
<1>5. /\ pc'[c] = s /\ witWorld'[c] \in World
      /\ Legacy(c) => jsSource'[c] \in Source
      /\ OthersStay(c)
  BY <1>1, <1>2, <1>4 DEF TypeOK, OthersStay
<1>6. TypeOK'
  <2>1. pc' \in [Call -> {"idle", "settled"} \cup Progress]
    BY <1>1, <1>4 DEF TypeOK, Progress, WithDir
  <2>2. witWorld' \in [Call -> World \cup {Nil}]
    BY <1>1, <1>2, <1>4 DEF TypeOK
  <2>3. jsSource' \in [Call -> Source \cup {Nil}]
    BY <1>1, <1>2, <1>4 DEF TypeOK
  <2> QED
    BY <1>1, <1>4, <2>1, <2>2, <2>3 DEF TypeOK
<1>7. DiskTyped'
  BY <1>4 DEF IInv, DiskTyped
<1>8. /\ Legacy(c)' = Legacy(c) /\ Debug(c)' = Debug(c)
      /\ KeptForDebug(c)' = KeptForDebug(c) /\ ~KeptForDebug(c) /\ \A f : Work(c, f)' = Work(c, f)
  BY <1>2, <1>4 DEF Legacy, Debug, KeptForDebug, Work
<1>9. CallTyped(c)'
  BY <1>1, <1>2, <1>3, <1>4, <1>5, <1>8 DEF CallTyped, HasWorld, HasSource, WithDir, AfterDir
<1>10. CallFiles(c)'
  BY <1>1, <1>3, <1>4, <1>5, <1>8 DEF CallFiles, HasIn, HasInitializer, WithDir
<1> QED
  BY <1>1, <1>3, <1>4, <1>5, <1>6, <1>7, <1>9, <1>10, AdvanceStep
     DEF Progress, WithDir, AfterDir

(* A default path names a file that is not there, so that what is read is  *)
(* a file of the user's.                                                   *)
LEMMA ReadSourceStep ==
  ASSUME IInv, NEW c \in Call, ReadSource(c)
  PROVE  IInv'
<1>1. CallTyped(c) /\ CallFiles(c) /\ TypeOK /\ DiskTyped /\ pc[c] = "readSource"
  BY DEF IInv, ReadSource, At
<1>2. CASE Throw(c, "io")
  BY <1>1, <1>2, ThrowStep DEF Progress, WithDir, Failure
<1>3. CASE /\ disk[SourceFile(c)] # Nil
           /\ jsSource' = [jsSource EXCEPT ![c] = disk[SourceFile(c)]]
           /\ offered' = [offered EXCEPT ![c] = {disk[SourceFile(c)]}]
           /\ GoTo(c, "parse")
           /\ UNCHANGED <<arg, workDir, witWorld, bin, shared>>
  <2>1. ~Legacy(c) /\ arg[c] \in Argument /\ outcome[c] = "none" /\ witWorld[c] \in World
    BY <1>1 DEF CallTyped, HasWorld, WithDir
  <2>2. disk[Work(c, "source")] = Nil
    BY <1>1 DEF CallFiles, WithDir
  <2>3. SourcePath[arg[c].opts] # Nil /\ SourceFile(c) = SourcePath[arg[c].opts]
    BY <1>3, <2>2 DEF SourceFile
  <2>4. disk[SourceFile(c)] \in Source
    BY <1>1, <2>1, <2>3, OptionsAssumption DEF Argument, DiskTyped
  <2>5. /\ pc' = [pc EXCEPT ![c] = "parse"]
        /\ UNCHANGED <<arg, workDir, outcome, witWorld, bin, optsWorld, dirs, disk>>
    BY <1>3 DEF GoTo, shared
  <2>6. pc'[c] = "parse" /\ jsSource'[c] \in Source /\ OthersStay(c)
    BY <1>1, <1>3, <2>4, <2>5 DEF TypeOK, OthersStay
  <2>7. TypeOK' /\ DiskTyped'
    <3>1. offered' \in [Call -> SUBSET Source]
      BY <1>1, <1>3, <2>4 DEF TypeOK
    <3> QED
      BY <1>1, <1>3, <2>4, <2>5, <3>1 DEF TypeOK, DiskTyped, Progress, WithDir
  <2>8. /\ Legacy(c)' = Legacy(c) /\ Debug(c)' = Debug(c) /\ ~KeptForDebug(c)'
        /\ \A f : Work(c, f)' = Work(c, f)
    BY <2>1, <2>5 DEF Legacy, Debug, KeptForDebug, Work
  <2>9. CallTyped(c)'
    BY <1>1, <2>1, <2>3, <2>5, <2>6, <2>8 DEF CallTyped, HasWorld, HasSource, WithDir, AfterDir
  <2>10. CallFiles(c)'
    BY <2>2, <2>5, <2>6, <2>8 DEF CallFiles, HasIn, HasInitializer, WithDir
  <2> QED
    BY <1>1, <2>5, <2>6, <2>7, <2>9, <2>10, AdvanceStep DEF Progress, WithDir, AfterDir
<1> QED
  BY <1>2, <1>3 DEF ReadSource

(* A file of the call's own directory is written, as the next step expects. *)
LEMMA WriteOwnFile ==
  ASSUME IInv, NEW c \in Call, NEW s, GoTo(c, s),
         UNCHANGED <<arg, workDir, witWorld, jsSource, bin>>, offered' \in [Call -> SUBSET Source],
         NEW f \in WorkFile, NEW v, Write(Work(c, f), v),
         \/ /\ pc[c] = "writeIn" /\ s = "writeInitializer"
            /\ f = "in" /\ v = witWorld[c]
         \/ /\ pc[c] = "writeInitializer" /\ s = "bindings"
            /\ f = "initializer" /\ v = witWorld[c]
         \/ /\ pc[c] = "keepSource" /\ s = "initialise" /\ Legacy(c) /\ TextFile(c)
            /\ f = "source" /\ v = jsSource[c]
         \/ /\ pc[c] = "initialise" /\ s = "readOut"
            /\ f = "out" /\ v \in Wasm
  PROVE  IInv'
<1>1. CallTyped(c) /\ CallFiles(c) /\ TypeOK /\ DiskTyped
  BY DEF IInv
<1>2. /\ pc' = [pc EXCEPT ![c] = s]
      /\ UNCHANGED <<arg, workDir, outcome, witWorld, jsSource, bin, optsWorld, dirs>>
      /\ disk' = [disk EXCEPT ![Work(c, f)] = v]
  BY DEF GoTo, Write
<1>3. /\ workDir[c] \in Dir /\ outcome[c] = "none" /\ witWorld[c] \in World
      /\ jsSource[c] \in Source
  BY <1>1 DEF CallTyped, HasSource, HasWorld, WithDir
<1>4. /\ Work(c, f) \in Path /\ Work(c, f) \notin UserPath
      /\ \A d \in Dir : \A g \in WorkFile : <<d, g>> = Work(c, f) => d = workDir[c] /\ g = f
  BY <1>3, Paths DEF Work
<1>5. /\ disk'[Work(c, f)] = v
      /\ \A p \in Path : p # Work(c, f) => disk'[p] = disk[p]
  BY <1>1, <1>2, <1>4 DEF TypeOK
<1>6. /\ pc'[c] = s /\ outcome'[c] = "none"
      /\ Legacy(c)' = Legacy(c) /\ TextFile(c)' = TextFile(c) /\ Debug(c)' = Debug(c)
      /\ ~KeptForDebug(c)' /\ \A g : Work(c, g)' = Work(c, g)
  BY <1>1, <1>2, <1>3 DEF TypeOK, Legacy, TextFile, Debug, KeptForDebug, Work
<1>7. \A g \in WorkFile \ {f} : disk'[Work(c, g)] = disk[Work(c, g)]
  BY <1>3, <1>5, Paths DEF Work
<1>8. DiskTyped'
  <2>1. \A u \in UserPath : disk'[u] = disk[u]
    BY <1>4, <1>5, Paths
  <2>2. \A d \in Dir : \A g \in WorkFile :
          disk'[<<d, g>>] = disk[<<d, g>>] \/ (g = f /\ disk'[<<d, g>>] = v)
    BY Zenon, <1>4, <1>5, Paths
  <2>3. {"in", "initializer", "source", "out"} = WorkFile
    BY DEF WorkFile
  <2>4. /\ f \in {"in", "initializer"} => v \in World
        /\ f = "source" => v \in Source
        /\ f = "out" => v \in Wasm
    BY <1>3
  <2>5. \A d \in Dir : /\ disk'[<<d, "in">>] \in World \cup {Nil}
                       /\ disk'[<<d, "initializer">>] \in World \cup {Nil}
    BY Zenon, <1>1, <2>2, <2>3, <2>4 DEF DiskTyped
  <2>6. \A d \in Dir : /\ disk'[<<d, "source">>] \in Source \cup {Nil}
                       /\ disk'[<<d, "out">>] \in Wasm \cup {Nil}
    BY Zenon, <1>1, <2>2, <2>3, <2>4 DEF DiskTyped
  <2> QED
    BY <1>1, <2>1, <2>5, <2>6 DEF DiskTyped
<1>9. TypeOK'
  <2>1. disk' \in [Path -> Source \cup World \cup Wasm \cup {Nil}]
    BY <1>1, <1>2, <1>3 DEF TypeOK
  <2>2. pc' \in [Call -> {"idle", "settled"} \cup Progress]
    BY <1>1, <1>2 DEF TypeOK, Progress, WithDir
  <2> QED
    BY <1>1, <1>2, <2>1, <2>2 DEF TypeOK
<1>10. CallTyped(c)'
  BY <1>1, <1>2, <1>6 DEF CallTyped, HasWorld, HasSource, WithDir, AfterDir
<1>11. CallFiles(c)'
  <2>1. {"in", "initializer", "source", "out"} = WorkFile
    BY DEF WorkFile
  <2>2. pc'[c] \in HasIn => disk'[Work(c, "in")] = witWorld[c]
    BY <1>1, <1>5, <1>6, <1>7, <2>1 DEF CallFiles, HasIn
  <2>3. pc'[c] \in HasInitializer => disk'[Work(c, "initializer")] = witWorld[c]
    BY <1>1, <1>5, <1>6, <1>7, <2>1 DEF CallFiles, HasIn, HasInitializer
  <2>4. pc'[c] \in WithDir \ {"initialise", "rmFailed", "readOut", "initWasm", "rm"} =>
          disk'[Work(c, "source")] = Nil
    BY <1>1, <1>6, <1>7, <2>1 DEF CallFiles, WithDir
  <2>5. pc'[c] = "initialise" =>
          disk'[Work(c, "source")] = IF TextFile(c) THEN jsSource[c] ELSE Nil
    BY <1>5, <1>6
  <2> QED
    BY <1>2, <1>6, <2>2, <2>3, <2>4, <2>5 DEF CallFiles
<1>12. /\ pc[c] \in Progress /\ s \in Progress /\ pc[c] \in WithDir /\ s \in WithDir
       /\ pc[c] \notin AfterDir
  BY DEF Progress, WithDir, AfterDir
<1> QED
  BY <1>8, <1>9, <1>10, <1>11, <1>12, WriteStep

LEMMA WriteModule ==
  ASSUME IInv, NEW c \in Call, WriteIn(c) \/ WriteInitializer(c)
  PROVE  IInv'
<1> USE DEF At, Progress, WithDir, Failure
<1>1. CASE WriteIn(c)
  <2>1. CASE Throw(c, "io")
    BY <1>1, <2>1, ThrowStep DEF WriteIn
  <2>2. CASE Write(Work(c, "in"), witWorld[c]) /\ GoTo(c, "writeInitializer")
             /\ UNCHANGED <<arg, workDir, locals>>
    BY <1>1, <2>2, WriteOwnFile DEF WriteIn, WorkFile, locals, IInv, TypeOK
  <2> QED
    BY <1>1, <2>1, <2>2 DEF WriteIn
<1>2. CASE WriteInitializer(c)
  <2>1. CASE Throw(c, "io")
    BY <1>2, <2>1, ThrowStep DEF WriteInitializer
  <2>2. CASE Write(Work(c, "initializer"), witWorld[c]) /\ GoTo(c, "bindings")
             /\ UNCHANGED <<arg, workDir, locals>>
    BY <1>2, <2>2, WriteOwnFile DEF WriteInitializer, WorkFile, locals, IInv, TypeOK
  <2> QED
    BY <1>2, <2>1, <2>2 DEF WriteInitializer
<1> QED
  BY <1>1, <1>2

(* Offering a source keeps the type of the history.                        *)
LEMMA OfferedTyped ==
  ASSUME TypeOK, NEW u, NEW s \in Source, Offer(u, s)
  PROVE  offered' \in [Call -> SUBSET Source]
BY DEF TypeOK, Offer

(* A source passed as text: to its default path in the directory, or to    *)
(* the path of the options, over the user's file.                          *)
LEMMA KeepSourceStep ==
  ASSUME IInv, NEW c \in Call, KeepSource(c)
  PROVE  IInv'
<1>1. CallTyped(c) /\ CallFiles(c) /\ TypeOK /\ DiskTyped /\ pc[c] = "keepSource"
  BY DEF IInv, KeepSource, At
<1>2. pc[c] \in Progress
  BY <1>1 DEF Progress, WithDir
<1>3. CASE \E why \in {"io", "reference"} : Throw(c, why)
  BY <1>2, <1>3, ThrowStep DEF Failure
<1>4. CASE ~Legacy(c) /\ GoTo(c, "initialise") /\ UNCHANGED <<arg, workDir, locals, shared>>
  BY <1>1, <1>4, MovesOn
<1>5. CASE /\ Legacy(c) /\ Write(SourceFile(c), jsSource[c]) /\ GoTo(c, "initialise")
           /\ Offer(SourceFile(c), jsSource[c])
           /\ UNCHANGED <<arg, workDir, witWorld, jsSource, bin>>
  <2>3. offered' \in [Call -> SUBSET Source]
    BY <1>1, <1>5, OfferedTyped DEF CallTyped, HasSource, HasWorld, WithDir
  <2>1. CASE TextFile(c)
    <3>1. SourceFile(c) = Work(c, "source")
      BY <2>1 DEF TextFile, SourceFile
    <3> QED
      BY <1>1, <1>5, <2>1, <2>3, <3>1, WriteOwnFile DEF WorkFile
  <2>2. CASE ~TextFile(c)
    <3>1. arg[c] \in Argument /\ outcome[c] = "none" /\ jsSource[c] \in Source
          /\ workDir[c] \in Dir
      BY <1>1 DEF CallTyped, HasSource, HasWorld, WithDir
    <3>2. SourceFile(c) = SourcePath[arg[c].opts] /\ SourceFile(c) \in UserPath
      BY <1>5, <2>2, <3>1, OptionsAssumption DEF TextFile, SourceFile, Argument
    <3>3. /\ pc' = [pc EXCEPT ![c] = "initialise"]
          /\ UNCHANGED <<arg, workDir, outcome, witWorld, jsSource, bin, optsWorld, dirs>>
          /\ disk' = [disk EXCEPT ![SourceFile(c)] = jsSource[c]]
      BY <1>5 DEF GoTo, Write
    <3>4. /\ \A p \in Path : p # SourceFile(c) => disk'[p] = disk[p]
          /\ \A u \in UserPath : disk'[u] = disk[u] \/ disk'[u] = jsSource[c]
          /\ \A d \in Dir : \A f \in WorkFile : disk'[<<d, f>>] = disk[<<d, f>>]
      BY <1>1, <3>2, <3>3, Paths DEF TypeOK
    <3>5. TypeOK'
      <4>1. disk' \in [Path -> Source \cup World \cup Wasm \cup {Nil}]
        BY <1>1, <3>1, <3>3 DEF TypeOK
      <4>2. pc' \in [Call -> {"idle", "settled"} \cup Progress]
        BY <1>1, <3>3 DEF TypeOK, Progress, WithDir
      <4> QED
        BY <1>1, <2>3, <3>3, <4>1, <4>2 DEF TypeOK
    <3>6. DiskTyped'
      BY <1>1, <3>1, <3>4 DEF DiskTyped, WorkFile
    <3>7. /\ pc'[c] = "initialise" /\ outcome'[c] = "none"
          /\ Legacy(c)' = Legacy(c) /\ TextFile(c)' = TextFile(c) /\ Debug(c)' = Debug(c)
          /\ ~KeptForDebug(c)' /\ \A g : Work(c, g)' = Work(c, g)
      BY <1>1, <3>1, <3>3 DEF TypeOK, Legacy, TextFile, Debug, KeptForDebug, Work
    <3>8. CallTyped(c)'
      BY <1>1, <1>5, <3>3, <3>7 DEF CallTyped, HasWorld, HasSource, WithDir, AfterDir
    <3>9. \A g \in WorkFile : disk'[Work(c, g)] = disk[Work(c, g)]
      BY <3>1, <3>4 DEF Work
    <3>10. CallFiles(c)'
      BY <1>1, <2>2, <3>3, <3>7, <3>9 DEF CallFiles, HasIn, HasInitializer, WithDir, WorkFile
    <3> QED
      BY <1>1, <1>2, <1>5, <3>2, <3>5, <3>6, <3>8, <3>10, WriteStep
         DEF Progress, WithDir, AfterDir
  <2> QED
    BY <2>1, <2>2
<1> QED
  BY <1>3, <1>4, <1>5 DEF KeepSource

(* What the initialisation opens.                                          *)
LEMMA Opened ==
  ASSUME IInv, NEW c \in Call, pc[c] = "initialise", InitialisedFile(c) # Nil
  PROVE  /\ InitialisedFile(c) \in Path
         /\ InitialisedFile(c) = Work(c, "source") \/ InitialisedFile(c) \in UserPath
         /\ disk[InitialisedFile(c)] \in Source \cup {Nil}
<1>1. arg[c] \in Argument /\ workDir[c] \in Dir
  BY DEF IInv, CallTyped
<1>2. /\ Work(c, "source") \in Path /\ disk[Work(c, "source")] \in Source \cup {Nil}
      /\ \A u \in UserPath : u \in Path /\ disk[u] \in Source
  BY <1>1, Paths DEF IInv, DiskTyped, Work, WorkFile
<1>3. \A rest : Remapped(rest) \in UserPath \cup {Nil}
  BY DEF Remapped
<1>4. SourceFile(c) = Work(c, "source") \/ SourceFile(c) \in UserPath
  BY <1>1, OptionsAssumption DEF SourceFile, Argument
<1>5. InitialisedFile(c) \in {SourceFile(c), Work(c, "source")} \cup UserPath
  BY <1>3 DEF InitialisedFile
<1> QED
  BY <1>2, <1>4, <1>5

LEMMA InitialiseStep ==
  ASSUME IInv, NEW c \in Call, Initialise(c)
  PROVE  IInv'
<1>1. pc[c] = "initialise" /\ pc[c] \in Progress
  BY DEF Initialise, At, Progress, WithDir
<1>2. CASE Debug(c) /\ Throw(c, "wizer")
  BY <1>1, <1>2, ThrowStep DEF Failure, HasInitializer, HasIn
<1>3. CASE ~Debug(c) /\ GoTo(c, "rmFailed") /\ UNCHANGED <<arg, workDir, locals, shared>>
  BY <1>1, <1>3, MovesOn
<1>4. CASE /\ InputsReadable(c)
           /\ Write(OutputFile(c), [source |-> disk[InitialisedFile(c)],
                                    world |-> disk[Work(c, "in")]])
           /\ GoTo(c, "readOut")
           /\ UNCHANGED <<arg, workDir, locals>>
  <2>1. disk[InitialisedFile(c)] \in Source
    BY <1>1, <1>4, Opened DEF InputsReadable
  <2>2. disk[Work(c, "in")] \in World
    BY <1>1 DEF IInv, CallFiles, CallTyped, HasIn, HasWorld, WithDir
  <2>3. [source |-> disk[InitialisedFile(c)], world |-> disk[Work(c, "in")]] \in Wasm
    BY <2>1, <2>2 DEF Wasm
  <2> QED
    BY <1>1, <1>4, <2>3, WriteOwnFile DEF OutputFile, WorkFile, locals, IInv, TypeOK
<1> QED
  BY <1>2, <1>3, <1>4 DEF Initialise, KeepsWorkDir

(* The clean-up takes the call's own directory.                            *)
LEMMA RemoveTreeStep ==
  ASSUME IInv, NEW c \in Call, RemoveTree(workDir[c]), UNCHANGED <<arg, workDir, locals, optsWorld>>,
         \/ pc[c] = "rmFailed" /\ Settle(c, "wizer")
         \/ pc[c] = "rm" /\ GoTo(c, "checkInit")
  PROVE  IInv'
<1>1. CallTyped(c) /\ CallFiles(c) /\ TypeOK /\ DiskTyped /\ OwnDir(c)
  BY DEF IInv
<1>2. PICK s \in {"settled", "checkInit"} :
        /\ pc' = [pc EXCEPT ![c] = s]
        /\ \/ s = "settled" /\ outcome' = [outcome EXCEPT ![c] = "wizer"]
           \/ s = "checkInit" /\ outcome' = outcome /\ pc[c] = "rm"
  BY DEF Settle, GoTo
<1>3. UNCHANGED <<arg, workDir, witWorld, jsSource, bin, offered, optsWorld>>
  BY DEF locals
<1>4. /\ workDir[c] \in Dir /\ ~Debug(c) /\ outcome[c] = "none"
      /\ \A e \in Call \ {c} : Holding(e) => workDir[e] # workDir[c]
  BY <1>1 DEF CallTyped, OwnDir, Holding, WithDir
<1>5. /\ dirs' = dirs \ {workDir[c]}
      /\ \A p \in Path : disk'[p] = IF p \in Tree(workDir[c]) THEN Nil ELSE disk[p]
  BY DEF RemoveTree
<1>6. /\ \A f \in WorkFile : disk'[<<workDir[c], f>>] = Nil
      /\ \A d \in Dir : \A f \in WorkFile : d # workDir[c] => disk'[<<d, f>>] = disk[<<d, f>>]
      /\ \A u \in UserPath : disk'[u] = disk[u]
  <2>1. \A d \in Dir : \A f \in WorkFile : <<d, f>> \in Tree(workDir[c]) <=> d = workDir[c]
    BY DEF Tree
  <2>2. \A u \in UserPath : u \notin Tree(workDir[c])
    BY <1>4, PathAssumption DEF Tree
  <2> QED
    BY <1>4, <1>5, <2>1, <2>2, Paths
<1>7. TypeOK'
  <2>1. disk' \in [Path -> Source \cup World \cup Wasm \cup {Nil}]
    BY <1>1 DEF TypeOK, RemoveTree
  <2>2. pc' \in [Call -> {"idle", "settled"} \cup Progress]
    BY <1>1, <1>2 DEF TypeOK, Progress, AfterDir
  <2>3. outcome' \in [Call -> {"none", "component"} \cup Failure]
    BY <1>1, <1>2 DEF TypeOK, Failure
  <2> QED
    BY <1>1, <1>3, <1>5, <2>1, <2>2, <2>3 DEF TypeOK
<1>8. DiskTyped'
  BY <1>1, <1>6 DEF DiskTyped, WorkFile
<1>9. /\ pc'[c] = s /\ OthersStay(c)
      /\ s = "settled" => outcome'[c] = "wizer"
      /\ s = "checkInit" => outcome'[c] = "none"
  BY <1>1, <1>2, <1>3, <1>4 DEF TypeOK, OthersStay
<1>10. /\ Legacy(c)' = Legacy(c) /\ Debug(c)' = Debug(c) /\ ~KeptForDebug(c)'
       /\ workDir'[c] = workDir[c]
  BY <1>3, <1>4 DEF Legacy, Debug, KeptForDebug
<1>11. CallTyped(c)'
  BY <1>1, <1>2, <1>3, <1>9, <1>10 DEF CallTyped, HasWorld, HasSource, WithDir, AfterDir
<1>12. CallFiles(c)' /\ ~Holding(c)'
  BY <1>9, <1>10 DEF CallFiles, Holding, HasIn, HasInitializer, WithDir
<1>13. \A e \in Call \ {c} : DirStays(e)
  <2> SUFFICES ASSUME NEW e \in Call \ {c}, Holding(e)
               PROVE  /\ workDir[e] \in dirs'
                      /\ \A f \in WorkFile : disk'[<<workDir[e], f>>] = disk[<<workDir[e], f>>]
    BY DEF DirStays
  <2>1. workDir[e] \in dirs /\ workDir[e] # workDir[c]
    BY <1>4 DEF IInv, OwnDir
  <2>2. workDir[e] \in Dir
    BY <1>1, <2>1 DEF TypeOK
  <2> QED
    BY <1>5, <1>6, <2>1, <2>2
<1>14. \A d \in Dir \ dirs' : \A f \in WorkFile : disk'[<<d, f>>] = Nil
  BY Zenon, <1>5, <1>6 DEF IInv, DirsAccounted
<1>15. workDir'[c] \notin dirs' /\ \A d \in dirs' : d \in dirs /\ d # workDir[c]
  BY <1>5, <1>10
<1> QED
  BY <1>7, <1>8, <1>9, <1>11, <1>12, <1>13, <1>14, <1>15, Assembled

LEMMA RemoveSteps ==
  ASSUME IInv, NEW c \in Call, RemoveAfterFailure(c) \/ RemoveWorkDir(c)
  PROVE  IInv'
<1>1. pc[c] \in {"rmFailed", "rm"} /\ pc[c] \in Progress
  BY DEF RemoveAfterFailure, RemoveWorkDir, At, Progress, WithDir
<1>2. CASE Throw(c, "io")
  BY <1>1, <1>2, ThrowStep DEF Failure
<1>3. CASE ~Throw(c, "io")
  BY <1>3, RemoveTreeStep DEF RemoveAfterFailure, RemoveWorkDir, At
<1> QED
  BY <1>2, <1>3

LEMMA ReadOutStep ==
  ASSUME IInv, NEW c \in Call, ReadOut(c)
  PROVE  IInv'
<1>1. CallTyped(c) /\ CallFiles(c) /\ TypeOK /\ DiskTyped /\ pc[c] = "readOut"
  BY DEF IInv, ReadOut, At
<1>2. CASE Throw(c, "io")
  BY <1>1, <1>2, ThrowStep DEF Progress, WithDir, Failure
<1>3. CASE /\ disk[OutputFile(c)] # Nil
           /\ bin' = [bin EXCEPT ![c] = disk[OutputFile(c)]]
           /\ GoTo(c, "initWasm")
           /\ UNCHANGED <<arg, workDir, witWorld, jsSource, offered, shared>>
  <2>1. workDir[c] \in Dir /\ outcome[c] = "none"
    BY <1>1 DEF CallTyped
  <2>2. disk[OutputFile(c)] \in Wasm \cup {Nil}
    BY <1>1, <2>1 DEF OutputFile, Work, DiskTyped
  <2>3. /\ pc' = [pc EXCEPT ![c] = "initWasm"]
        /\ UNCHANGED <<arg, workDir, outcome, witWorld, jsSource, offered, optsWorld, dirs, disk>>
    BY <1>3 DEF GoTo, shared
  <2>4. pc'[c] = "initWasm" /\ OthersStay(c)
    BY <1>1, <1>3, <2>3 DEF TypeOK, OthersStay
  <2>5. TypeOK' /\ DiskTyped'
    BY <1>1, <1>3, <2>2, <2>3 DEF TypeOK, DiskTyped, Progress, WithDir
  <2>6. /\ Legacy(c)' = Legacy(c) /\ Debug(c)' = Debug(c) /\ ~KeptForDebug(c)'
        /\ \A f : Work(c, f)' = Work(c, f)
    BY <2>1, <2>3 DEF Legacy, Debug, KeptForDebug, Work
  <2>7. CallTyped(c)'
    BY <1>1, <2>1, <2>3, <2>4, <2>6 DEF CallTyped, HasWorld, HasSource, WithDir, AfterDir
  <2>8. CallFiles(c)'
    BY <1>1, <2>3, <2>4, <2>6 DEF CallFiles, HasIn, HasInitializer, WithDir
  <2> QED
    BY <1>1, <2>3, <2>4, <2>5, <2>7, <2>8, AdvanceStep DEF Progress, WithDir, AfterDir
<1> QED
  BY <1>2, <1>3 DEF ReadOut

LEMMA WriteBinaryStep ==
  ASSUME IInv, NEW c \in Call, WriteBinary(c)
  PROVE  IInv'
<1>1. CallTyped(c) /\ CallFiles(c) /\ TypeOK /\ DiskTyped /\ pc[c] = "writeBinary"
  BY DEF IInv, WriteBinary, At
<1>2. CASE Throw(c, "io")
  BY <1>1, <1>2, ThrowStep DEF Progress, AfterDir, Failure
<1>3. CASE /\ Write(BinaryWasm, bin[c])
           /\ GoTo(c, "compose")
           /\ UNCHANGED <<arg, workDir, locals>>
  <2>1. workDir[c] \in Dir /\ outcome[c] = "none"
    BY <1>1 DEF CallTyped
  <2>2. /\ pc' = [pc EXCEPT ![c] = "compose"]
        /\ UNCHANGED <<arg, workDir, outcome, witWorld, jsSource, bin, offered, optsWorld, dirs>>
        /\ disk' = [disk EXCEPT ![BinaryWasm] = bin[c]]
    BY <1>3 DEF GoTo, locals, Write
  <2>3. /\ pc'[c] = "compose"
        /\ \A u \in UserPath : disk'[u] = disk[u]
        /\ \A d \in Dir : \A f \in WorkFile : disk'[<<d, f>>] = disk[<<d, f>>]
    BY <1>1, <2>2, Paths DEF TypeOK
  <2>4. TypeOK'
    <3>1. disk' \in [Path -> Source \cup World \cup Wasm \cup {Nil}]
      BY <1>1, <2>2, Paths DEF TypeOK
    <3>2. pc' \in [Call -> {"idle", "settled"} \cup Progress]
      BY <1>1, <2>2 DEF TypeOK, Progress, AfterDir
    <3> QED
      BY <1>1, <2>2, <3>1, <3>2 DEF TypeOK
  <2>5. DiskTyped'
    BY <1>1, <2>3 DEF DiskTyped, WorkFile
  <2>6. /\ Legacy(c)' = Legacy(c) /\ Debug(c)' = Debug(c) /\ ~KeptForDebug(c)'
    BY <2>1, <2>2 DEF Legacy, Debug, KeptForDebug
  <2>7. CallTyped(c)'
    BY <1>1, <2>1, <2>2, <2>3, <2>6 DEF CallTyped, HasWorld, HasSource, WithDir, AfterDir
  <2>8. CallFiles(c)'
    BY <2>3, <2>6 DEF CallFiles, HasIn, HasInitializer, WithDir
  <2> QED
    BY <1>1, <1>3, <2>2, <2>4, <2>5, <2>7, <2>8, WriteStep DEF Progress, WithDir, AfterDir
<1> QED
  BY <1>2, <1>3 DEF WriteBinary

LEMMA ComposeStep ==
  ASSUME IInv, NEW c \in Call, Compose(c)
  PROVE  IInv'
<1>1. CallTyped(c) /\ CallFiles(c) /\ TypeOK /\ DiskTyped /\ pc[c] = "compose"
  BY DEF IInv, Compose, At
<1>2. CASE \E why \in {"io", "type"} : Throw(c, why)
  BY <1>1, <1>2, ThrowStep DEF Progress, AfterDir, Failure
<1>3. CASE /\ ~Debug(c)
           /\ Settle(c, "component")
           /\ UNCHANGED <<arg, workDir, locals, shared>>
  <2>1. /\ pc' = [pc EXCEPT ![c] = "settled"]
        /\ outcome' = [outcome EXCEPT ![c] = "component"]
        /\ UNCHANGED <<arg, workDir, witWorld, jsSource, bin, offered, optsWorld, dirs, disk>>
    BY <1>3 DEF Settle, locals, shared
  <2>2. /\ pc'[c] = "settled" /\ outcome'[c] = "component" /\ OthersStay(c)
        /\ TypeOK' /\ DiskTyped'
    BY <1>1, <2>1 DEF TypeOK, DiskTyped, OthersStay
  <2>3. /\ Legacy(c)' = Legacy(c) /\ Debug(c)' = Debug(c) /\ ~KeptForDebug(c)'
        /\ ~Holding(c)'
    BY <2>1, <2>2 DEF Legacy, Debug, KeptForDebug, Holding, WithDir
  <2>4. CallTyped(c)' /\ CallFiles(c)'
    BY <1>1, <2>1, <2>2, <2>3
       DEF CallTyped, CallFiles, HasWorld, HasSource, HasIn, HasInitializer, WithDir, AfterDir
  <2>5. \A e \in Call \ {c} : DirStays(e)
    BY <2>1 DEF DirStays, IInv, OwnDir
  <2>6. ~Answers(c)
    BY <1>1, <1>3 DEF Answers, CallTyped, WithDir, Failure
  <2>7. \A d \in Dir \ dirs' : \A f \in WorkFile : disk'[<<d, f>>] = Nil
    BY Zenon, <2>1 DEF IInv, DirsAccounted
  <2>8. dirs' = dirs /\ workDir' = workDir
    BY <2>1
  <2> QED
    BY <2>2, <2>3, <2>4, <2>5, <2>6, <2>7, <2>8, Assembled
<1> QED
  BY <1>2, <1>3 DEF Compose

LEMMA StutterStep ==
  ASSUME IInv, UNCHANGED vars
  PROVE  IInv'
<1>1. /\ UNCHANGED <<pc, arg, workDir, witWorld, jsSource, bin, offered, outcome, optsWorld,
                     dirs, disk>>
  BY DEF vars, locals, shared
<1> QED
  BY <1>1 DEF IInv, TypeOK, DiskTyped, CallTyped, CallFiles, OwnDir, DirsAccounted, Holding,
              KeptForDebug, TextFile, Legacy, Debug, Work

(* The user's files are not in the working directories.                    *)
LEMMA EditStep ==
  ASSUME IInv, NEW u \in UserPath, NEW s \in Source, Edit(u, s)
  PROVE  IInv'
<1>1. /\ UNCHANGED <<pc, arg, workDir, witWorld, jsSource, bin, outcome, optsWorld, dirs>>
      /\ disk' = [disk EXCEPT ![u] = s]
  BY DEF Edit, Write
<1>2. TypeOK /\ DiskTyped /\ u \in Path
  BY Paths DEF IInv
<1>3. offered' \in [Call -> SUBSET Source]
  BY <1>2, OfferedTyped DEF Edit
<1>4. disk' \in [Path -> Source \cup World \cup Wasm \cup {Nil}]
  BY <1>1, <1>2 DEF TypeOK
<1>5. TypeOK'
  BY <1>1, <1>2, <1>3, <1>4 DEF TypeOK
<1>6. /\ \A v \in UserPath : disk'[v] \in {disk[v], s}
      /\ \A d \in Dir : \A f \in WorkFile : disk'[<<d, f>>] = disk[<<d, f>>]
  BY <1>1, <1>2, Paths DEF TypeOK
<1>7. DiskTyped'
  BY <1>2, <1>6 DEF DiskTyped, WorkFile
<1>8. \A c \in Call :
        /\ Legacy(c)' = Legacy(c) /\ Debug(c)' = Debug(c) /\ TextFile(c)' = TextFile(c)
        /\ KeptForDebug(c)' = KeptForDebug(c) /\ \A f : Work(c, f)' = Work(c, f)
        /\ Holding(c)' = Holding(c)
  BY <1>1 DEF Legacy, Debug, TextFile, KeptForDebug, Work, Holding
<1>9. ASSUME NEW c \in Call PROVE CallTyped(c)' /\ CallFiles(c)' /\ OwnDir(c)'
  <2>1. CallTyped(c) /\ CallFiles(c) /\ OwnDir(c)
    BY DEF IInv
  <2>2. Holding(c) => workDir[c] \in Dir
    BY <1>2, <2>1 DEF OwnDir, TypeOK
  <2>3. CallTyped(c)' /\ OwnDir(c)'
    BY <1>1, <1>8, <2>1 DEF CallTyped, OwnDir
  <2>4. Holding(c) => \A f \in {"in", "initializer", "source"} : disk'[Work(c, f)] = disk[Work(c, f)]
    BY <1>6, <2>2 DEF Work, WorkFile
  <2>5. pc[c] \in HasIn \cup HasInitializer \cup WithDir => Holding(c)
    BY DEF HasIn, HasInitializer, WithDir, Holding
  <2>6. KeptForDebug(c) => Holding(c)
    BY DEF Holding
  <2>7. pc[c] = "initialise" => pc[c] \in WithDir
    BY DEF WithDir
  <2>8. CallFiles(c)'
    BY <1>1, <1>8, <2>1, <2>4, <2>5, <2>6, <2>7 DEF CallFiles
  <2> QED
    BY <2>3, <2>8
<1>10. DirsAccounted'
  BY <1>1, <1>6, <1>8 DEF IInv, DirsAccounted
<1> QED
  BY <1>5, <1>7, <1>9, <1>10 DEF IInv

(* Every step keeps the invariant.                                         *)
LEMMA NextInvariant ==
  ASSUME IInv, [Next]_vars
  PROVE  IInv'
<1>1. ASSUME NEW c \in Call, Step(c) PROVE IInv'
  BY <1>1, InvokeStep, MakeBaseStep, QuietActions, DestructureStep, ReadSourceStep, WriteModule,
     KeepSourceStep, InitialiseStep, RemoveSteps, ReadOutStep, WriteBinaryStep, ComposeStep
     DEF Step
<1> QED
  BY <1>1, EditStep, StutterStep DEF Next

-----------------------------------------------------------------------------
(* The properties that need no assumption on the callers.                  *)

(* The inductive invariant: at each step a call has a directory of its own *)
(* with the files it has written there, and kinds of files do not mix.     *)
THEOREM Invariance == Spec => []IInv
<1>1. Init => IInv
  BY InitInvariant
<1>2. IInv /\ [Next]_vars => IInv'
  BY NextInvariant
<1> QED
  BY <1>1, <1>2, PTL DEF Spec

(* Every variable of every call, and every file, has its type.             *)
THEOREM TypeCorrect == Spec => []TypeOK
<1>1. IInv => TypeOK
  BY DEF IInv
<1> QED
  BY <1>1, Invariance, PTL

(* From mkdir to rm a call's working directory is on disk and its own,     *)
(* however few names prepWorkDir draws from.                               *)
THEOREM DirsExclusive == Spec => []ExclusiveWorkDir
<1>1. IInv => ExclusiveWorkDir
  BY DEF IInv, OwnDir, Holding, ExclusiveWorkDir
<1> QED
  BY <1>1, Invariance, PTL

(* Nothing is left in the temporary directory but what calls in flight,    *)
(* debug calls and calls that threw account for.                           *)
THEOREM NothingLeft == Spec => []DirsAccounted
<1>1. IInv => DirsAccounted
  BY DEF IInv
<1> QED
  BY <1>1, Invariance, PTL

(* The files a failed debug call names in its error are there for good.    *)
THEOREM DebugFilesStay == Spec => []DebugDirKept
<1>1. IInv => DebugDirKept
  BY DEF IInv, CallFiles, OwnDir, Holding, KeptForDebug, DebugDirKept
<1> QED
  BY <1>1, Invariance, PTL

(* A path that is not cut astray names, under the map of the current       *)
(* directory, the file it named before.                                    *)
LEMMA CutKeepsPath ==
  ASSUME NEW u \in UserPath, CwdIsPrefix(u), ~CutAstray(u)
  PROVE  Remapped(Cut(u)) = u
<1>1. u \in Seq(STRING) /\ Cwd \in Seq(STRING)
  BY PathAssumption, OptionsAssumption
<1>2. /\ Len(Cwd) \in Nat /\ Len(u) \in Nat /\ Len(Cwd) <= Len(u)
      /\ SubSeq(Cwd, 1, Len(Cwd)) = SubSeq(u, 1, Len(Cwd))
      /\ Cwd # <<"/">>
  BY <1>1 DEF CutAstray, CwdIsPrefix, IsPrefix
<1>3. Len(Cwd) + 1 \in 1..Len(u) /\ u[Len(Cwd) + 1] = "/"
  <2>1. PICK i \in (Len(Cwd) + 1)..Len(u) : u[i] = "/"
    BY <1>2 DEF CwdIsPrefix
  <2> QED
    BY <1>2, <2>1 DEF CutAstray
<1>4. Len(Cwd) + 2 \in 1..Len(u) /\ u[Len(Cwd) + 2] # "/"
  BY <1>2, <1>3, PathAssumption
<1> DEFINE rest == Cut(u)
           full == Cwd \o <<"/">> \o rest
<1>5. /\ rest \in Seq(STRING) /\ Len(rest) = Len(u) - (Len(Cwd) + 1)
      /\ \A i \in 1..Len(rest) : rest[i] = u[i + (Len(Cwd) + 1)]
  BY <1>1, <1>2, <1>4 DEF Cut
<1>6. rest[1] # "/" /\ rest # <<>>
  BY <1>2, <1>4, <1>5
<1>7. \A i \in 1..Len(Cwd) : Cwd[i] = u[i]
  <2> SUFFICES ASSUME NEW i \in 1..Len(Cwd) PROVE Cwd[i] = u[i]
    OBVIOUS
  <2>1. SubSeq(Cwd, 1, Len(Cwd))[i] = Cwd[i]
    BY <1>1, <1>2
  <2>2. SubSeq(u, 1, Len(Cwd))[i] = u[i]
    BY <1>1, <1>2
  <2> QED
    BY <1>2, <2>1, <2>2
<1>8. full = u
  <2> HIDE DEF rest
  <2>1. /\ full \in Seq(STRING) /\ Len(full) = Len(u)
    <3>1. "/" \in STRING
      BY <1>1, <1>3
    <3>2. <<"/">> \in Seq(STRING) /\ Len(<<"/">>) = 1
      BY <3>1
    <3>3. Cwd \o <<"/">> \in Seq(STRING) /\ Len(Cwd \o <<"/">>) = Len(Cwd) + 1
      BY <1>1, <3>2
    <3> QED
      BY <1>1, <1>2, <1>5, <3>3
  <2>2. ASSUME NEW i \in 1..Len(u) PROVE full[i] = u[i]
    <3>1. CASE i <= Len(Cwd)
      BY <1>1, <1>2, <1>5, <1>7, <3>1
    <3>2. CASE i = Len(Cwd) + 1
      BY <1>1, <1>2, <1>3, <1>5, <3>2
    <3>3. CASE i > Len(Cwd) + 1
      <4>1. i - (Len(Cwd) + 1) \in 1..Len(rest)
        BY <1>2, <1>5, <3>3
      <4>2. full[i] = rest[i - (Len(Cwd) + 1)]
        BY <1>1, <1>2, <1>5, <3>3, <4>1
      <4> QED
        BY <1>2, <1>5, <4>1, <4>2
    <3>4. i <= Len(Cwd) \/ i = Len(Cwd) + 1 \/ i > Len(Cwd) + 1
      BY <1>2
    <3> QED
      BY <3>1, <3>2, <3>3, <3>4
  <2> QED
    BY <1>1, <2>1, <2>2, SeqEqual
<1> HIDE DEF rest
<1> QED
  BY <1>2, <1>6, <1>8 DEF Remapped, rest

(* But for paths that are cut astray and text with a path of its own, the  *)
(* initialisation is pointed at the file of the call, and it is there.     *)
THEOREM InputsArePresent == Spec => []SourceReachesInitialiser
<1>1. IInv => SourceReachesInitialiser
  <2> SUFFICES ASSUME IInv, NEW c \in Call, pc[c] = "initialise", ~TextBesideWizer(c), ~Astray(c)
               PROVE  InputsReadable(c) /\ InitialisedFile(c) = SourceFile(c)
    BY DEF SourceReachesInitialiser, At
  <2>1. /\ arg[c] \in Argument /\ workDir[c] \in Dir /\ CallFiles(c)
        /\ witWorld[c] \in World /\ jsSource[c] \in Source
        /\ ~Legacy(c) => SourcePath[arg[c].opts] # Nil
    BY DEF IInv, CallTyped, HasWorld, HasSource, WithDir
  <2>2. disk[Work(c, "in")] # Nil /\ disk[Work(c, "initializer")] # Nil
    BY <2>1, OptionsAssumption DEF CallFiles, HasIn, HasInitializer
  <2>3. CASE TextFile(c)
    <3>1. SourceFile(c) = Work(c, "source") /\ InitialisedFile(c) = SourceFile(c)
      BY <2>1, <2>3 DEF Argument, InitialisedFile, SourceFile, TextFile, Astray
    <3>2. disk[Work(c, "source")] = jsSource[c]
      BY <2>1, <2>3 DEF CallFiles
    <3>3. Work(c, "source") # Nil
      BY <2>1, Paths DEF Work, WorkFile
    <3> QED
      BY <2>1, <2>2, <3>1, <3>2, <3>3, OptionsAssumption DEF InputsReadable
  <2>4. CASE ~TextFile(c)
    <3>1. SourceFile(c) = SourcePath[arg[c].opts] /\ SourceFile(c) \in UserPath
      BY <2>1, <2>4, OptionsAssumption DEF SourceFile, TextFile, Argument
    <3>2. InitialisedFile(c) = SourceFile(c)
      BY <2>4, <3>1, CutKeepsPath DEF InitialisedFile, TextFile, TextBesideWizer, Astray
    <3>3. disk[InitialisedFile(c)] \in Source
      BY <3>1, <3>2 DEF IInv, DiskTyped
    <3> QED
      BY <2>2, <3>1, <3>2, <3>3, OptionsAssumption DEF InputsReadable
  <2> QED
    BY <2>3, <2>4
<1> QED
  BY <1>1, Invariance, PTL

-----------------------------------------------------------------------------
(* Calls that own their options objects and files.                         *)

(* What a step of a call does to what other calls rely on.                 *)
Effects(c) ==
  \/ disk' = disk /\ dirs \subseteq dirs'
  \/ pc[c] \in WithDir /\ \E f \in WorkFile : \E v : Write(Work(c, f), v)
  \/ \E v : Write(BinaryWasm, v)
  \/ /\ pc[c] = "keepSource" /\ SourcePath[arg[c].opts] # Nil
     /\ \E v : Write(SourcePath[arg[c].opts], v)
  \/ pc[c] \in WithDir /\ RemoveTree(workDir[c])

LEMMA StepEffects ==
  ASSUME IInv, NEW c \in Call, Step(c)
  PROVE  Effects(c)
<1> USE DEF Throw, Settle, GoTo, At, locals, shared
<1>1. CASE \/ Invoke(c) \/ MakeBase(c) \/ MakeSources(c) \/ Destructure(c) \/ ReadSource(c)
           \/ Parse(c) \/ Splice(c) \/ ShowBindings(c) \/ ReadOut(c) \/ InitWasm(c)
           \/ CheckInit(c) \/ Compose(c)
  BY <1>1 DEF Invoke, MakeBase, MakeSources, Destructure, ReadSource, Parse, Splice,
              ShowBindings, ReadOut, InitWasm, CheckInit, Compose, Effects
<1>2. CASE WriteIn(c) \/ WriteInitializer(c)
  BY <1>2 DEF WriteIn, WriteInitializer, Effects, WorkFile, WithDir
<1>3. CASE KeepSource(c)
  BY <1>3 DEF KeepSource, SourceFile, Effects, WorkFile, WithDir
<1>4. CASE Initialise(c)
  BY <1>4 DEF Initialise, OutputFile, Effects, WorkFile, WithDir
<1>5. CASE RemoveAfterFailure(c) \/ RemoveWorkDir(c)
  BY <1>5 DEF RemoveAfterFailure, RemoveWorkDir, Effects, WithDir
<1>6. CASE WriteBinary(c)
  BY <1>6 DEF WriteBinary, Effects
<1> QED
  BY <1>1, <1>2, <1>3, <1>4, <1>5, <1>6 DEF Step

LEMMA StepFrame ==
  ASSUME IInv, NEW c \in Call, Step(c)
  PROVE  /\ OthersStay(c)
         /\ \A e \in Call \ {c} : DirStays(e)
         /\ \A u \in UserPath : \/ pc[c] = "keepSource" /\ u = SourcePath[arg[c].opts]
                                \/ disk'[u] = disk[u]
<1>1. OthersStay(c)
  BY DEF IInv, TypeOK, OthersStay, Step, Throw, Settle, GoTo, locals, shared,
         Invoke, MakeBase, MakeSources, Destructure, ReadSource, Parse, Splice, WriteIn,
         WriteInitializer, ShowBindings, KeepSource, Initialise, RemoveAfterFailure, ReadOut,
         InitWasm, RemoveWorkDir, CheckInit, WriteBinary, Compose
<1>2. Effects(c)
  BY StepEffects
<1>3. TypeOK /\ CallTyped(c) /\ OwnDir(c)
  BY DEF IInv
<1>4. pc[c] \in WithDir =>
        /\ workDir[c] \in Dir
        /\ \A e \in Call \ {c} : Holding(e) => workDir[e] # workDir[c]
  BY <1>3 DEF CallTyped, OwnDir, Holding, WithDir
<1>5. \A e \in Call \ {c} : Holding(e) => workDir[e] \in dirs /\ workDir[e] \in Dir
  BY DEF IInv, OwnDir, TypeOK
<1>6. CASE disk' = disk /\ dirs \subseteq dirs'
  BY <1>1, <1>5, <1>6 DEF DirStays
<1>7. ASSUME NEW p, NEW v, Write(p, v),
             \/ pc[c] \in WithDir /\ \E f \in WorkFile : p = Work(c, f)
             \/ p = BinaryWasm
             \/ p \in UserPath /\ pc[c] = "keepSource" /\ p = SourcePath[arg[c].opts]
      PROVE  /\ \A e \in Call \ {c} : DirStays(e)
             /\ \A u \in UserPath : \/ pc[c] = "keepSource" /\ u = SourcePath[arg[c].opts]
                                    \/ disk'[u] = disk[u]
  <2>1. dirs' = dirs /\ \A q \in Path : q # p => disk'[q] = disk[q]
    BY <1>3, <1>7 DEF Write, TypeOK
  <2>2. ASSUME NEW e \in Call \ {c}, Holding(e), NEW f \in WorkFile
        PROVE  <<workDir[e], f>> \in Path /\ <<workDir[e], f>> # p
    BY <1>4, <1>5, <1>7, <2>2, Paths DEF Work
  <2>3. ASSUME NEW u \in UserPath, u = p
        PROVE  pc[c] = "keepSource" /\ u = SourcePath[arg[c].opts]
    BY <1>4, <1>7, <2>3, Paths DEF Work
  <2> QED
    BY <1>5, <2>1, <2>2, <2>3, Paths DEF DirStays
<1>8. CASE pc[c] \in WithDir /\ RemoveTree(workDir[c])
  <2>1. /\ dirs' = dirs \ {workDir[c]}
        /\ \A p \in Path : p \notin Tree(workDir[c]) => disk'[p] = disk[p]
    BY <1>8 DEF RemoveTree
  <2>2. /\ \A u \in UserPath : u \notin Tree(workDir[c])
        /\ \A d, f : <<d, f>> \in Tree(workDir[c]) => d = workDir[c]
    BY <1>4, <1>8, PathAssumption DEF Tree
  <2>3. \A e \in Call \ {c} : DirStays(e)
    BY <1>4, <1>5, <1>8, <2>1, <2>2, Paths DEF DirStays
  <2> QED
    BY <1>1, <2>1, <2>2, <2>3, Paths
<1>9. pc[c] = "keepSource" /\ SourcePath[arg[c].opts] # Nil => SourcePath[arg[c].opts] \in UserPath
  BY <1>3, OptionsAssumption DEF CallTyped, Argument
<1> QED
  BY <1>1, <1>2, <1>6, <1>7, <1>8, <1>9 DEF Effects

(* Which way a call goes.                                                  *)
LEMMA StepKind ==
  ASSUME IInv, NEW c \in Call, Step(c)
  PROVE  \/ Invoke(c)
         \/ /\ pc[c] \in Progress /\ arg' = arg /\ optsWorld' = optsWorld
            /\ \/ pc'[c] = "settled" /\ outcome'[c] \in Failure
               \/ /\ pc[c] = "compose" /\ pc'[c] = "settled" /\ outcome'[c] = "component"
                  /\ bin'[c] = bin[c]
               \/ pc'[c] \in Progress /\ outcome' = outcome
<1>1. TypeOK
  BY DEF IInv
<1> USE DEF Throw, Settle, GoTo, At, locals, shared, Progress, WithDir, AfterDir, Failure,
            Write, RemoveTree
<1>2. CASE \/ MakeBase(c) \/ MakeSources(c) \/ Destructure(c) \/ ReadSource(c)
           \/ Parse(c) \/ Splice(c) \/ WriteIn(c) \/ WriteInitializer(c)
  BY <1>1, <1>2 DEF TypeOK, MakeBase, MakeSources, Destructure, ReadSource, Parse, Splice,
              WriteIn, WriteInitializer
<1>3. CASE ShowBindings(c) \/ KeepSource(c) \/ Initialise(c) \/ RemoveAfterFailure(c)
  BY <1>1, <1>3 DEF TypeOK, ShowBindings, KeepSource, Initialise, RemoveAfterFailure
<1>4. CASE ReadOut(c) \/ InitWasm(c) \/ RemoveWorkDir(c)
  BY <1>1, <1>4 DEF TypeOK, ReadOut, InitWasm, RemoveWorkDir
<1>5. CASE CheckInit(c) \/ WriteBinary(c) \/ Compose(c)
  BY <1>1, <1>5 DEF TypeOK, CheckInit, WriteBinary, Compose
<1> QED
  BY <1>2, <1>3, <1>4, <1>5 DEF Step

(* What every call relies on but its own directory: its source file.       *)
SourcesFollow(e) ==
  /\ offered[e] \subseteq offered'[e]
  /\ \A u \in UserPath : Exposed(e, u) => disk'[u] = disk[u] \/ disk'[u] \in offered'[e]

Stays(e) ==
  /\ pc'[e] = pc[e] /\ arg'[e] = arg[e] /\ workDir'[e] = workDir[e]
  /\ witWorld'[e] = witWorld[e] /\ jsSource'[e] = jsSource[e]
  /\ bin'[e] = bin[e] /\ outcome'[e] = outcome[e]

(* What a step of a call does to what other calls may be built from.       *)
LEMMA StepOffers ==
  ASSUME IInv, NEW c \in Call, Step(c)
  PROVE  \/ \E x : offered' = [offered EXCEPT ![c] = x] /\ disk' = disk
         \/ offered' = offered /\ \A u \in UserPath : disk'[u] = disk[u]
         \/ /\ pc[c] = "keepSource" /\ Legacy(c) /\ pc'[c] = "initialise"
            /\ Write(SourceFile(c), jsSource[c]) /\ Offer(SourceFile(c), jsSource[c])
<1>1. /\ \A u \in UserPath : \/ pc[c] = "keepSource" /\ u = SourcePath[arg[c].opts]
                             \/ disk'[u] = disk[u]
      /\ TypeOK
  BY StepFrame DEF IInv
<1>2. CASE Invoke(c)
  BY <1>2 DEF Invoke
<1>3. CASE ReadSource(c)
  BY <1>3 DEF ReadSource, Throw, Settle, locals, shared
<1>4. CASE KeepSource(c)
  BY <1>1, <1>4 DEF TypeOK, KeepSource, Throw, Settle, GoTo, At, locals, shared
<1>5. CASE ~Invoke(c) /\ ~ReadSource(c) /\ ~KeepSource(c)
  <2>1. offered' = offered /\ pc[c] # "keepSource"
    BY <1>5 DEF Step, Throw, Settle, GoTo, locals, shared, At,
         MakeBase, MakeSources, Destructure, Parse, Splice, WriteIn,
         WriteInitializer, ShowBindings, Initialise, RemoveAfterFailure, ReadOut,
         InitWasm, RemoveWorkDir, CheckInit, WriteBinary, Compose
  <2> QED
    BY <1>1, <2>1
<1> QED
  BY <1>2, <1>3, <1>4, <1>5

(* A file that a call rewrites is noticed by every call that has read it.  *)
LEMMA Noticed ==
  ASSUME TypeOK, NEW u \in UserPath, NEW s, Write(u, s), Offer(u, s), NEW e \in Call
  PROVE  SourcesFollow(e)
<1>1. \A v \in UserPath : v # u => disk'[v] = disk[v]
  BY Paths DEF TypeOK, Write
<1>2. disk'[u] = s
  BY Paths DEF TypeOK, Write
<1>3. /\ offered[e] \subseteq offered'[e]
      /\ Exposed(e, u) => s \in offered'[e]
  BY DEF Offer
<1> QED
  BY <1>1, <1>2, <1>3 DEF SourcesFollow

LEMMA OthersNotice ==
  ASSUME IInv, NEW c \in Call, Step(c), NEW e \in Call \ {c}
  PROVE  SourcesFollow(e)
<1>1. TypeOK /\ CallTyped(c)
  BY DEF IInv
<1>2. CASE \E x : offered' = [offered EXCEPT ![c] = x] /\ disk' = disk
  BY <1>1, <1>2 DEF SourcesFollow, TypeOK
<1>3. CASE offered' = offered /\ \A u \in UserPath : disk'[u] = disk[u]
  BY <1>3 DEF SourcesFollow
<1>4. CASE /\ pc[c] = "keepSource" /\ Legacy(c) /\ pc'[c] = "initialise"
           /\ Write(SourceFile(c), jsSource[c]) /\ Offer(SourceFile(c), jsSource[c])
  <2>1. CASE SourcePath[arg[c].opts] # Nil
    <3>1. SourceFile(c) \in UserPath
      BY <1>1, <1>4, <2>1, OptionsAssumption DEF CallTyped, SourceFile, Argument
    <3> QED
      BY <1>1, <1>4, <3>1, Noticed
  <2>2. CASE SourcePath[arg[c].opts] = Nil
    <3>1. \A u \in UserPath : disk'[u] = disk[u]
      BY <2>2, StepFrame, OptionsAssumption
    <3>2. offered[e] \subseteq offered'[e]
      BY <1>4 DEF Offer
    <3> QED
      BY <3>1, <3>2 DEF SourcesFollow
  <2> QED
    BY <2>1, <2>2
<1> QED
  BY <1>2, <1>3, <1>4, StepOffers

(* What a call has got stays so while others, or the user, take a step.    *)
LEMMA WaitingKeeps ==
  ASSUME IInv, NEW e \in Call, CallOwn(e), Stays(e), DirStays(e), SourcesFollow(e),
         ~ShareOptions /\ pc[e] \in Progress => optsWorld'[arg[e].opts] = optsWorld[arg[e].opts]
  PROVE  CallKept(e)'
<1>1. /\ pc'[e] = pc[e] /\ arg'[e] = arg[e] /\ workDir'[e] = workDir[e]
      /\ witWorld'[e] = witWorld[e] /\ jsSource'[e] = jsSource[e]
      /\ bin'[e] = bin[e] /\ outcome'[e] = outcome[e]
      /\ Legacy(e)' = Legacy(e) /\ \A f : Work(e, f)' = Work(e, f)
      /\ SourceFile(e)' = SourceFile(e) /\ Astray(e)' = Astray(e)
  BY DEF Stays, Legacy, Work, SourceFile, Astray
<1>2. CallKept(e) /\ CallTyped(e)
  BY DEF CallOwn, IInv
<1>3. pc[e] \in WithDir => \A f \in WorkFile : disk'[Work(e, f)] = disk[Work(e, f)]
  BY DEF DirStays, Holding, Work
<1>4. pc[e] = "readOut" => disk'[Work(e, "out")] = disk[Work(e, "out")]
  BY <1>3 DEF WorkFile, WithDir
<1>5. pc[e] \in Reading => pc[e] \in Progress /\ pc[e] \in HasSource /\ pc[e] # "idle"
  BY DEF Reading, Progress, HasSource, HasWorld, WithDir
<1>6. pc[e] \in Reading => arg[e] \in Argument
  BY <1>2, <1>5 DEF CallTyped
<1>7. offered[e] \subseteq offered'[e]
  BY DEF SourcesFollow
<1>8. ASSUME pc[e] \in Reading, Legacy(e) => pc[e] = "initialise",
             SourcePath[arg[e].opts] # Nil, disk[SourcePath[arg[e].opts]] \in offered[e]
      PROVE  disk'[SourcePath[arg[e].opts]] \in offered'[e]
  <2>1. SourcePath[arg[e].opts] \in UserPath
    BY <1>6, <1>8, OptionsAssumption DEF Argument
  <2>2. Exposed(e, SourcePath[arg[e].opts])
    BY <1>8 DEF Exposed, Reading, At
  <2> QED
    BY <1>7, <1>8, <2>1, <2>2 DEF SourcesFollow
<1>9. pc[e] = "initialise" /\ Legacy(e) => disk'[SourceFile(e)] \in offered'[e]
  <2> SUFFICES ASSUME pc[e] = "initialise", Legacy(e) PROVE disk'[SourceFile(e)] \in offered'[e]
    OBVIOUS
  <2>1. disk[SourceFile(e)] \in offered[e] /\ pc[e] \in Reading
    BY <1>2 DEF CallKept, SourceKept, Reading
  <2>2. CASE SourcePath[arg[e].opts] # Nil
    BY <1>8, <2>1, <2>2 DEF SourceFile
  <2>3. CASE SourcePath[arg[e].opts] = Nil
    BY <1>3, <1>7, <2>1, <2>3 DEF SourceFile, WorkFile, WithDir
  <2> QED
    BY <2>2, <2>3
<1>10. pc[e] \in Reading /\ ~Legacy(e) => disk'[SourcePath[arg[e].opts]] \in offered'[e]
  BY <1>2, <1>5, <1>8 DEF CallKept, SourceKept, CallTyped
<1>11. SourceKept(e)'
  BY <1>1, <1>2, <1>4, <1>7, <1>9, <1>10 DEF CallKept, SourceKept
<1>12. pc[e] \in {"mkdir", "mkdirSources", "options"} => pc[e] \in Progress
  BY DEF Progress, WithDir
<1>13. ~ShareOptions => WorldKept(e)'
  BY <1>1, <1>2, <1>4, <1>12 DEF CallKept, WorldKept
<1> QED
  BY <1>1, <1>2, <1>4, <1>11, <1>13 DEF CallKept

(* Invoke: the text or nothing is offered, the world is in the options.    *)
LEMMA InvokeOwn ==
  ASSUME OwnInv, NEW c \in Call, Invoke(c)
  PROVE  /\ pc'[c] = "mkdir" /\ arg'[c] \in Argument
         /\ optsWorld'[arg'[c].opts] = arg'[c].world
         /\ offered'[c] = {arg'[c].source} \ {Nil}
         /\ arg'[c].sig # "opts" => arg'[c].source \in offered'[c]
         /\ disk' = disk
         /\ ~ShareOptions =>
              \A e \in Call \ {c} : pc[e] \in Progress =>
                /\ arg[e].opts # arg'[c].opts
                /\ optsWorld'[arg[e].opts] = optsWorld[arg[e].opts]
<1>1. TypeOK /\ DiskTyped
  BY DEF OwnInv, IInv
<1>2. PICK o \in Options, sig \in {"opts", "source_opts", "source_world"},
           source \in Source, world \in World :
        /\ ShareOptions \/ ~InUse(o)
        /\ arg' = [arg EXCEPT ![c] = RequestOf(sig, o, source, world)]
        /\ optsWorld' = IF sig = "source_world"
                        THEN [optsWorld EXCEPT ![o] = world] ELSE optsWorld
  BY DEF Invoke
<1>3. pc'[c] = "mkdir" /\ disk' = disk
  BY <1>1 DEF Invoke, GoTo, TypeOK
<1>4. RequestOf(sig, o, source, world) \in Argument
  BY <1>1, Requests
<1>5. /\ arg'[c] = RequestOf(sig, o, source, world)
      /\ arg'[c].opts = o /\ arg'[c].sig = sig
      /\ arg'[c].source = IF sig = "opts" THEN Nil ELSE source
  BY <1>1, <1>2 DEF TypeOK, RequestOf
<1>6. optsWorld'[o] = arg'[c].world
  BY <1>1, <1>2, <1>5 DEF TypeOK, RequestOf
<1>7. /\ offered'[c] = {arg'[c].source} \ {Nil}
      /\ arg'[c].sig # "opts" => arg'[c].source \in offered'[c]
  <2>1. offered' = [offered EXCEPT ![c] = {arg'[c].source} \ {Nil}]
    BY DEF Invoke
  <2>2. offered'[c] = {arg'[c].source} \ {Nil}
    BY <1>1, <2>1 DEF TypeOK
  <2> QED
    BY <1>2, <1>5, <2>2, OptionsAssumption
<1>8. ASSUME ~ShareOptions, NEW e \in Call \ {c}, pc[e] \in Progress
      PROVE  arg[e].opts # o /\ optsWorld'[arg[e].opts] = optsWorld[arg[e].opts]
  <2>1. arg[e].opts # o
    BY <1>2, <1>8 DEF InUse
  <2> QED
    BY <1>1, <1>2, <2>1 DEF TypeOK
<1> QED
  BY <1>3, <1>4, <1>5, <1>6, <1>7, <1>8

(* What a call in flight relies on is its own: a step of another leaves it. *)
LEMMA OthersOwn ==
  ASSUME OwnInv, NEW c \in Call, Step(c), NEW e \in Call \ {c}
  PROVE  /\ CallOwn(e)'
         /\ ~ShareOptions /\ pc'[c] \in Progress /\ pc'[e] \in Progress =>
              arg'[e].opts # arg'[c].opts
<1>1. OthersStay(c) /\ Stays(e) /\ DirStays(e) /\ SourcesFollow(e)
  BY StepFrame, OthersNotice DEF OwnInv, OthersStay, Stays
<1>2. CallOwn(e) /\ CallOwn(c) /\ IInv
  BY DEF OwnInv
<1>3. ~ShareOptions /\ pc[e] \in Progress => optsWorld'[arg[e].opts] = optsWorld[arg[e].opts]
  BY InvokeOwn, StepKind DEF OwnInv
<1>4. CallKept(e)'
  BY <1>1, <1>2, <1>3, WaitingKeeps
<1>5. ~ShareOptions /\ pc'[c] \in Progress /\ pc[e] \in Progress => arg[e].opts # arg'[c].opts
  BY <1>2, InvokeOwn, StepKind DEF OwnInv, CallOwn, Progress
<1>6. ~ShareOptions => \A g \in Call \ {e} : pc'[g] \in Progress /\ pc[e] \in Progress =>
                             arg'[g].opts # arg[e].opts
  BY <1>1, <1>2, <1>5 DEF CallOwn, OthersStay
<1>7. pc'[e] = pc[e] /\ arg'[e] = arg[e]
  BY <1>1 DEF Stays
<1> QED
  BY <1>4, <1>5, <1>6, <1>7 DEF CallOwn

(* A step that settles with an exception, or goes on with the same locals. *)
LEMMA PlainOwn ==
  ASSUME OwnInv, NEW c \in Call, Step(c), pc[c] \in Progress, UNCHANGED <<arg, workDir, locals>>,
         \/ pc'[c] = "settled" /\ outcome'[c] \in Failure
         \/ /\ pc'[c] \in Progress /\ outcome' = outcome
            /\ pc'[c] \in HasWorld => pc[c] \in HasWorld
            /\ pc'[c] \in HasSource => pc[c] \in HasSource
            /\ pc'[c] \in Reading => pc[c] \in Reading
            /\ pc'[c] \in HasBin => pc[c] \in HasBin
            /\ pc'[c] \in {"mkdir", "mkdirSources", "options"} =>
                 pc[c] \in {"mkdir", "mkdirSources", "options"}
            /\ pc'[c] = "initialise" => ~Legacy(c)
            /\ pc'[c] # "readOut"
            /\ pc[c] = "keepSource" => disk' = disk
  PROVE  CallKept(c)'
<1>1. /\ arg' = arg /\ witWorld' = witWorld /\ jsSource' = jsSource /\ bin' = bin
      /\ offered' = offered
      /\ Legacy(c)' = Legacy(c) /\ Astray(c)' = Astray(c)
  BY DEF locals, Legacy, Astray, SourceFile, Work
<1>2. CallKept(c) /\ CallTyped(c) /\ pc[c] # "idle"
  BY DEF OwnInv, IInv, CallOwn, Progress, WithDir, AfterDir
<1>3. CASE pc'[c] = "settled" /\ outcome'[c] \in Failure
  BY <1>1, <1>2, <1>3 DEF CallKept, SourceKept, WorldKept, HasWorld, HasSource, HasBin, Reading,
                          Progress, WithDir, AfterDir, Failure
<1>4. CASE pc'[c] \in Progress /\ pc'[c] # "settled" /\ outcome' = outcome
  <2>1. optsWorld' = optsWorld
    BY <1>4, StepKind DEF OwnInv, Invoke, GoTo, At, Progress, WithDir, AfterDir
  <2>2. pc'[c] \in Reading => pc[c] \in Reading
    BY <1>4 DEF Progress, WithDir, AfterDir, Failure
  <2>3. pc[c] \in Reading /\ ~Legacy(c) =>
          disk'[SourcePath[arg[c].opts]] = disk[SourcePath[arg[c].opts]]
    <3>1. pc[c] \in Reading => pc[c] \in HasSource
      BY DEF Reading, HasSource, HasWorld, WithDir
    <3>2. pc[c] \in Reading /\ ~Legacy(c) => SourcePath[arg[c].opts] \in UserPath
      BY <1>2, <3>1, OptionsAssumption DEF Argument, CallTyped
    <3> QED
      BY <1>4, <3>2, StepFrame DEF OwnInv, Progress, WithDir, AfterDir
  <2>4. outcome'[c] # "component"
    BY <1>2, <1>4 DEF CallTyped, Progress, WithDir, AfterDir
  <2>5. SourceKept(c)'
    BY <1>1, <1>2, <1>4, <2>2, <2>3, <2>4 DEF CallKept, SourceKept
  <2>6. ~ShareOptions => WorldKept(c)'
    BY <1>1, <1>2, <1>4, <2>1, <2>4 DEF CallKept, WorldKept
  <2> QED
    BY <1>1, <1>2, <1>4, <2>4, <2>5, <2>6 DEF CallKept
<1> QED
  BY <1>3, <1>4 DEF Progress, WithDir, AfterDir, Failure

LEMMA PlainActions ==
  ASSUME OwnInv, NEW c \in Call,
         \/ MakeBase(c) \/ MakeSources(c) \/ Parse(c) \/ Splice(c) \/ WriteIn(c)
         \/ WriteInitializer(c) \/ ShowBindings(c) \/ RemoveAfterFailure(c)
         \/ InitWasm(c) \/ RemoveWorkDir(c) \/ CheckInit(c) \/ WriteBinary(c)
  PROVE  CallKept(c)'
<1>1. TypeOK /\ Step(c)
  BY DEF OwnInv, IInv, Step
<1> USE DEF Throw, Settle, GoTo, At, shared, Progress, WithDir, AfterDir, Failure, HasWorld,
            HasSource, HasBin, Reading
<1>2. CASE MakeBase(c) \/ MakeSources(c) \/ Parse(c) \/ Splice(c)
  BY <1>1, <1>2, PlainOwn DEF TypeOK, MakeBase, MakeSources, Parse, Splice
<1>3. CASE WriteIn(c) \/ WriteInitializer(c) \/ ShowBindings(c)
  BY <1>1, <1>3, PlainOwn DEF TypeOK, WriteIn, WriteInitializer, ShowBindings
<1>4. CASE RemoveAfterFailure(c) \/ InitWasm(c) \/ RemoveWorkDir(c)
  BY <1>1, <1>4, PlainOwn DEF TypeOK, RemoveAfterFailure, InitWasm, RemoveWorkDir
<1>5. CASE CheckInit(c) \/ WriteBinary(c)
  BY <1>1, <1>5, PlainOwn DEF TypeOK, CheckInit, WriteBinary
<1> QED
  BY <1>2, <1>3, <1>4, <1>5

(* The world and the source are loaded: the text, or what the file holds.  *)
LEMMA LoadOwn ==
  ASSUME OwnInv, NEW c \in Call, Destructure(c) \/ ReadSource(c)
  PROVE  CallKept(c)'
<1>1. /\ TypeOK /\ CallTyped(c) /\ CallFiles(c) /\ CallKept(c) /\ Step(c)
      /\ pc[c] \in {"options", "readSource"} /\ pc[c] \in Progress
  BY DEF OwnInv, IInv, CallOwn, Step, Destructure, ReadSource, At, Progress, WithDir
<1>2. CASE Throw(c, "io")
  BY <1>1, <1>2, PlainOwn DEF Throw, Settle, TypeOK, Failure
<1>3. CASE Destructure(c)
  <2>1. /\ pc[c] = "options" /\ UNCHANGED <<arg, outcome, offered, optsWorld, disk>>
        /\ witWorld'[c] = optsWorld[arg[c].opts]
        /\ \/ Legacy(c) /\ pc'[c] = "parse" /\ jsSource'[c] = arg[c].source
           \/ pc'[c] = "readSource"
        /\ Legacy(c)' = Legacy(c) /\ outcome[c] = "none"
    BY <1>1, <1>3 DEF TypeOK, CallTyped, Destructure, At, GoTo, shared, Legacy
  <2>2. SourceKept(c)'
    BY <1>1, <2>1 DEF CallKept, SourceKept, HasWorld, HasSource, HasBin, Reading,
                      WithDir, AfterDir
  <2>3. ~ShareOptions => WorldKept(c)'
    BY <1>1, <2>1 DEF CallKept, WorldKept, HasBin, WithDir, AfterDir
  <2> QED
    BY <2>1, <2>2, <2>3 DEF CallKept, HasBin, AfterDir
<1>4. CASE ReadSource(c) /\ ~Throw(c, "io")
  <2>1. /\ pc[c] = "readSource" /\ pc'[c] = "parse"
        /\ UNCHANGED <<arg, workDir, witWorld, outcome, optsWorld, disk>>
        /\ jsSource'[c] = disk[SourceFile(c)] /\ disk[SourceFile(c)] # Nil
        /\ offered'[c] = {disk[SourceFile(c)]}
        /\ Legacy(c)' = Legacy(c) /\ outcome[c] = "none" /\ ~Legacy(c)
    BY <1>1, <1>4 DEF TypeOK, CallTyped, ReadSource, At, GoTo, shared, Legacy
  <2>2. SourceFile(c) = SourcePath[arg[c].opts]
    BY <1>1, <2>1 DEF CallFiles, SourceFile, WithDir
  <2>3. SourceKept(c)'
    BY <2>1, <2>2 DEF SourceKept, HasBin, AfterDir
  <2>4. ~ShareOptions => WorldKept(c)'
    BY <1>1, <2>1 DEF CallKept, WorldKept, HasWorld, HasBin, WithDir, AfterDir
  <2> QED
    BY <2>1, <2>3, <2>4 DEF CallKept, HasBin, AfterDir
<1> QED
  BY <1>2, <1>3, <1>4

(* The file that text is written to holds what the call offers.            *)
LEMMA KeepOwn ==
  ASSUME OwnInv, NEW c \in Call, KeepSource(c)
  PROVE  CallKept(c)'
<1>1. /\ TypeOK /\ CallTyped(c) /\ CallKept(c) /\ Step(c)
      /\ pc[c] = "keepSource" /\ pc[c] \in Progress
  BY DEF OwnInv, IInv, CallOwn, Step, KeepSource, At, Progress, WithDir
<1>2. CASE \E why \in {"io", "reference"} : Throw(c, why)
  BY <1>1, <1>2, PlainOwn DEF Throw, Settle, TypeOK, Failure
<1>3. CASE ~Legacy(c) /\ GoTo(c, "initialise") /\ UNCHANGED <<arg, workDir, locals, shared>>
  BY <1>1, <1>3, PlainOwn
     DEF GoTo, TypeOK, shared, HasWorld, HasSource, HasBin, Reading, Progress, WithDir, AfterDir
<1>4. CASE /\ Legacy(c) /\ Write(SourceFile(c), jsSource[c]) /\ GoTo(c, "initialise")
           /\ Offer(SourceFile(c), jsSource[c])
           /\ UNCHANGED <<arg, workDir, witWorld, jsSource, bin>>
  <2>1. /\ pc'[c] = "initialise" /\ UNCHANGED <<arg, workDir, witWorld, jsSource, outcome>>
        /\ SourceFile(c)' = SourceFile(c) /\ Legacy(c)' = Legacy(c) /\ outcome[c] = "none"
    BY <1>1, <1>4 DEF TypeOK, CallTyped, GoTo, SourceFile, Work, Legacy
  <2>2. SourceFile(c) \in Path
    BY <1>1, OptionsAssumption, Paths
       DEF CallTyped, SourceFile, Work, WorkFile, Argument
  <2>3. disk'[SourceFile(c)] = jsSource[c]
    BY <1>1, <1>4, <2>2 DEF TypeOK, Write
  <2>4. offered[c] \subseteq offered'[c] /\ jsSource[c] \in offered[c]
    BY <1>1, <1>4 DEF Offer, CallKept, SourceKept, HasSource, HasWorld, WithDir
  <2>5. arg[c].source \in offered[c]
    BY <1>1, <1>4 DEF CallKept, SourceKept
  <2>6. SourceKept(c)'
    BY <1>4, <2>1, <2>3, <2>4, <2>5 DEF SourceKept, HasBin, AfterDir
  <2>7. ~ShareOptions => WorldKept(c)'
    BY <1>1, <2>1 DEF CallKept, WorldKept, HasWorld, HasBin, WithDir, AfterDir
  <2> QED
    BY <2>1, <2>6, <2>7 DEF CallKept, HasBin, AfterDir
<1> QED
  BY <1>2, <1>3, <1>4 DEF KeepSource

(* A call that has read or written a source file of the user's.            *)
LEMMA OpenedOwn ==
  ASSUME OwnInv, NEW c \in Call, pc[c] = "initialise", InputsReadable(c), ~Astray(c)
  PROVE  disk[InitialisedFile(c)] \in offered[c]
<1>1. CallTyped(c) /\ CallFiles(c) /\ CallKept(c)
  BY DEF OwnInv, IInv, CallOwn
<1>2. /\ ~Legacy(c) => SourcePath[arg[c].opts] # Nil
      /\ arg[c] \in Argument /\ jsSource[c] \in offered[c] /\ pc[c] \in Reading
  BY <1>1 DEF CallTyped, CallKept, SourceKept, HasSource, HasWorld, WithDir, Reading
<1>3. CASE Legacy(c)
  <2>1. disk[SourceFile(c)] \in offered[c]
    BY <1>1, <1>3 DEF CallKept, SourceKept
  <2>2. disk[Work(c, "source")] \in {jsSource[c], Nil}
    BY <1>1 DEF CallFiles
  <2>3. InitialisedFile(c) \in {SourceFile(c), Work(c, "source")}
    BY <1>3 DEF InitialisedFile, Astray
  <2> QED
    BY <1>2, <2>1, <2>2, <2>3 DEF InputsReadable
<1>4. CASE ~Legacy(c)
  <2>1. SourceFile(c) = SourcePath[arg[c].opts] /\ SourceFile(c) \in UserPath
    BY <1>2, <1>4, OptionsAssumption DEF SourceFile, Argument
  <2>2. InitialisedFile(c) = SourceFile(c)
    BY <1>4, <2>1, CutKeepsPath DEF InitialisedFile, Astray
  <2> QED
    BY <1>1, <1>2, <1>4, <2>1, <2>2 DEF CallKept, SourceKept
<1> QED
  BY <1>3, <1>4

(* The snapshot is made of the module of the call's world and a source its *)
(* caller offered.                                                         *)
LEMMA InitialiseOwn ==
  ASSUME OwnInv, NEW c \in Call, Initialise(c)
  PROVE  CallKept(c)'
<1>1. /\ IInv /\ TypeOK /\ CallTyped(c) /\ CallFiles(c) /\ CallKept(c) /\ Step(c)
      /\ pc[c] = "initialise" /\ pc[c] \in Progress
  BY DEF OwnInv, IInv, CallOwn, Step, Initialise, At, Progress, WithDir
<1>2. CASE Throw(c, "wizer")
  BY <1>1, <1>2, PlainOwn DEF Throw, Settle, TypeOK, Failure
<1>3. CASE GoTo(c, "rmFailed") /\ UNCHANGED <<arg, workDir, locals, shared>>
  BY <1>1, <1>3, PlainOwn
     DEF GoTo, TypeOK, shared, HasWorld, HasSource, HasBin, Reading, Progress, WithDir, AfterDir
<1>4. CASE /\ InputsReadable(c)
           /\ Write(OutputFile(c), [source |-> disk[InitialisedFile(c)],
                                    world |-> disk[Work(c, "in")]])
           /\ GoTo(c, "readOut")
           /\ UNCHANGED <<arg, workDir, locals>>
  <2> DEFINE out == [source |-> disk[InitialisedFile(c)], world |-> disk[Work(c, "in")]]
  <2>1. /\ pc'[c] = "readOut"
        /\ UNCHANGED <<arg, workDir, witWorld, jsSource, offered, outcome, optsWorld>>
        /\ Legacy(c)' = Legacy(c) /\ Astray(c)' = Astray(c) /\ outcome[c] = "none"
        /\ Work(c, "out")' = Work(c, "out") /\ OutputFile(c) = Work(c, "out")
    BY <1>1, <1>4 DEF TypeOK, CallTyped, GoTo, Write, locals, Legacy, Work, OutputFile, Astray,
                      SourceFile
  <2>2. Work(c, "out") \in Path
    BY <1>1, Paths DEF CallTyped, Work, WorkFile
  <2>3. disk'[Work(c, "out")] = out
    BY <1>1, <1>4, <2>1, <2>2 DEF TypeOK, Write
  <2>4. /\ disk[InitialisedFile(c)] \in Source
        /\ disk[Work(c, "in")] = witWorld[c] /\ witWorld[c] \in World
    BY <1>1, <1>4, Opened DEF CallFiles, CallTyped, InputsReadable, HasIn, HasWorld, WithDir
  <2>5. disk'[Work(c, "out")] \in Wasm
    BY <2>3, <2>4 DEF Wasm
  <2>6. ~Astray(c) => disk'[Work(c, "out")].source \in offered[c]
    BY <1>1, <1>4, <2>3, OpenedOwn
  <2>7. disk'[Work(c, "out")].world = witWorld[c]
    BY <2>3, <2>4
  <2>8. SourceKept(c)'
    BY <1>1, <2>1, <2>6 DEF CallKept, SourceKept, HasSource, HasWorld, HasBin, Reading, WithDir,
                            AfterDir
  <2>9. ~ShareOptions => WorldKept(c)'
    BY <1>1, <2>1, <2>7 DEF CallKept, WorldKept, HasWorld, HasBin, WithDir, AfterDir
  <2> QED
    BY <2>1, <2>5, <2>8, <2>9 DEF CallKept, HasBin, AfterDir
<1> QED
  BY <1>2, <1>3, <1>4 DEF Initialise

LEMMA ReadOutOwn ==
  ASSUME OwnInv, NEW c \in Call, ReadOut(c)
  PROVE  CallKept(c)'
<1>1. /\ TypeOK /\ CallTyped(c) /\ CallKept(c) /\ Step(c)
      /\ pc[c] = "readOut" /\ pc[c] \in Progress
  BY DEF OwnInv, IInv, CallOwn, Step, ReadOut, At, Progress, WithDir
<1>2. CASE Throw(c, "io")
  BY <1>1, <1>2, PlainOwn DEF Throw, Settle, TypeOK, Failure
<1>3. CASE ~Throw(c, "io")
  <2>1. /\ pc'[c] = "initWasm" /\ bin'[c] = disk[Work(c, "out")]
        /\ UNCHANGED <<arg, workDir, witWorld, jsSource, offered, outcome, optsWorld, disk>>
        /\ Legacy(c)' = Legacy(c) /\ Astray(c)' = Astray(c) /\ outcome[c] = "none"
    BY <1>1, <1>3 DEF TypeOK, CallTyped, ReadOut, GoTo, shared, Legacy, OutputFile, Astray,
                      SourceFile, Work
  <2>2. SourceKept(c)'
    BY <1>1, <2>1 DEF CallKept, SourceKept, HasSource, HasWorld, Reading, WithDir, AfterDir
  <2>3. ~ShareOptions => WorldKept(c)'
    BY <1>1, <2>1 DEF CallKept, WorldKept, HasWorld, WithDir, AfterDir
  <2> QED
    BY <1>1, <2>1, <2>2, <2>3 DEF CallKept
<1> QED
  BY <1>2, <1>3

LEMMA ComposeOwn ==
  ASSUME OwnInv, NEW c \in Call, Compose(c)
  PROVE  CallKept(c)'
<1>1. /\ TypeOK /\ CallTyped(c) /\ CallKept(c) /\ Step(c)
      /\ pc[c] = "compose" /\ pc[c] \in Progress
  BY DEF OwnInv, IInv, CallOwn, Step, Compose, At, Progress, AfterDir
<1>2. CASE \E why \in {"io", "type"} : Throw(c, why)
  BY <1>1, <1>2, PlainOwn DEF Throw, Settle, TypeOK, Failure
<1>3. CASE Settle(c, "component") /\ UNCHANGED <<arg, workDir, locals, shared>>
  <2>1. /\ pc'[c] = "settled" /\ UNCHANGED <<arg, workDir, bin, offered>>
        /\ Legacy(c)' = Legacy(c) /\ Astray(c)' = Astray(c) /\ pc[c] \in HasBin
    BY <1>1, <1>3 DEF TypeOK, Settle, locals, Legacy, Astray, SourceFile, Work, HasBin, AfterDir
  <2>2. SourceKept(c)'
    BY <1>1, <2>1 DEF CallKept, SourceKept, HasSource, HasWorld, Reading, WithDir, AfterDir
  <2>3. ~ShareOptions => WorldKept(c)'
    BY <1>1, <2>1 DEF CallKept, WorldKept, HasWorld, WithDir, AfterDir
  <2> QED
    BY <1>1, <2>1, <2>2, <2>3 DEF CallKept
<1> QED
  BY <1>2, <1>3 DEF Compose

LEMMA InvokeKept ==
  ASSUME OwnInv, NEW c \in Call, Invoke(c)
  PROVE  CallKept(c)'
<1>1. CallTyped(c) /\ pc[c] = "idle" /\ outcome' = outcome
  BY DEF OwnInv, IInv, Invoke, At, GoTo
<1>2. /\ pc'[c] = "mkdir" /\ outcome'[c] = "none" /\ arg'[c] \in Argument
      /\ Legacy(c)' <=> arg'[c].sig # "opts"
  BY <1>1, InvokeOwn DEF CallTyped, Legacy
<1> QED
  BY <1>2, InvokeOwn
     DEF CallKept, SourceKept, WorldKept, HasWorld, HasSource, HasBin, Reading, WithDir, AfterDir

(* An edit is noticed by the calls that have read the file.                *)
LEMMA EditOwn ==
  ASSUME OwnInv, NEW u \in UserPath, NEW s \in Source, Edit(u, s), NEW e \in Call
  PROVE  CallOwn(e)'
<1>1. /\ IInv /\ TypeOK /\ CallOwn(e) /\ OwnDir(e)
      /\ UNCHANGED <<pc, arg, workDir, witWorld, jsSource, bin, outcome, optsWorld, dirs>>
      /\ Write(u, s) /\ Offer(u, s)
  BY DEF OwnInv, IInv, Edit, Write
<1>2. Stays(e) /\ SourcesFollow(e)
  BY <1>1, Noticed DEF Stays
<1>3. \A p \in Path : p # u => disk'[p] = disk[p]
  BY <1>1 DEF TypeOK, Write
<1>4. DirStays(e)
  <2> SUFFICES ASSUME Holding(e), NEW f \in WorkFile
               PROVE  disk'[<<workDir[e], f>>] = disk[<<workDir[e], f>>]
    BY <1>1 DEF DirStays, OwnDir
  <2>1. workDir[e] \in Dir
    BY <1>1 DEF OwnDir, TypeOK
  <2> QED
    BY <1>3, <2>1, Paths
<1>5. CallKept(e)'
  BY <1>1, <1>2, <1>4, WaitingKeeps
<1> QED
  BY <1>1, <1>5 DEF CallOwn

LEMMA NextOwn ==
  ASSUME OwnInv, [Next]_vars
  PROVE  OwnInv'
<1>1. IInv'
  BY NextInvariant DEF OwnInv
<1>2. ASSUME NEW c \in Call, Step(c) PROVE OwnInv'
  <2>1. CallKept(c)'
    BY <1>2, InvokeKept, PlainActions, LoadOwn, KeepOwn, InitialiseOwn, ReadOutOwn, ComposeOwn
       DEF Step
  <2>2. \A e \in Call \ {c} :
          /\ CallOwn(e)'
          /\ ~ShareOptions /\ pc'[c] \in Progress /\ pc'[e] \in Progress =>
               arg'[e].opts # arg'[c].opts
    BY <1>2, OthersOwn
  <2>3. CallOwn(c)'
    BY <2>1, <2>2 DEF CallOwn
  <2> QED
    BY <1>1, <2>2, <2>3 DEF OwnInv
<1>3. ASSUME NEW u \in UserPath, NEW s \in Source, Edit(u, s) PROVE OwnInv'
  BY <1>1, <1>3, EditOwn DEF OwnInv
<1>4. CASE UNCHANGED vars
  <2>1. UNCHANGED <<pc, arg, workDir, witWorld, jsSource, bin, offered, outcome, optsWorld, disk>>
    BY <1>4 DEF vars, locals, shared
  <2> QED
    BY <1>1, <2>1 DEF OwnInv, CallOwn, CallKept, SourceKept, WorldKept, Legacy, SourceFile, Work,
                      Astray
<1> QED
  BY <1>2, <1>3, <1>4 DEF Next

LEMMA InitOwn ==
  ASSUME Init
  PROVE  OwnInv
<1>1. \A c \in Call : pc[c] = "idle" /\ outcome[c] = "none"
  BY DEF Init
<1>2. \A c \in Call : CallOwn(c)
  BY <1>1 DEF CallOwn, CallKept, SourceKept, WorldKept, HasWorld, HasSource, HasBin, Reading,
              Progress, WithDir, AfterDir
<1> QED
  BY <1>2, InitInvariant DEF OwnInv

(* What a call has is of its own making: a source its caller has offered   *)
(* and, unless calls in flight share options objects, the world its caller *)
(* asked for, whatever other calls and the user do to the files.           *)
THEOREM OwnInvariance == Spec => []OwnInv
<1>1. Init => OwnInv
  BY InitOwn
<1>2. OwnInv /\ [Next]_vars => OwnInv'
  BY NextOwn
<1> QED
  BY <1>1, <1>2, PTL DEF Spec

(* The source the initialisation runs and the one whose exports decided    *)
(* the features are both the call's own: they differ only if its source    *)
(* file was rewritten in between.                                          *)
THEOREM InitialisesWhatItAnalysed == Spec => []AnalysedIsInitialised
<1>1. OwnInv => AnalysedIsInitialised
  <2> SUFFICES ASSUME OwnInv, NEW c \in Call, pc[c] = "initialise", InputsReadable(c), ~Astray(c)
               PROVE  jsSource[c] \in offered[c] /\ disk[InitialisedFile(c)] \in offered[c]
    BY DEF AnalysedIsInitialised, At
  <2>1. jsSource[c] \in offered[c]
    BY DEF OwnInv, CallOwn, CallKept, SourceKept, HasSource, HasWorld, WithDir
  <2> QED
    BY <2>1, OpenedOwn
<1> QED
  BY <1>1, OwnInvariance, PTL

-----------------------------------------------------------------------------
(* The contract of BuildContract.                                          *)

(* No options object and no temporary directory is where a cut goes wrong. *)
PathsKept ==
  \/ Aot = Options
  \/ /\ \A u \in UserPath : ~CutAstray(u)
     /\ \A d \in Dir : ~IsPrefix(Cwd, SourcesDir[d])

(* A call makes no other call start, settle or return something else.      *)
LEMMA OthersKeepPromise ==
  ASSUME NEW c \in Call, OthersStay(c), NEW e \in Call \ {c}
  PROVE  StatusOf(e)' = StatusOf(e) /\ AskedOf(e)' = AskedOf(e) /\ BuiltOf(e)' = BuiltOf(e)
BY DEF OthersStay, StatusOf, AskedOf, BuiltOf, At

LEMMA Mapped ==
  ASSUME NEW c \in Call, OthersStay(c)
  PROVE  /\ status' = [status EXCEPT ![c] = StatusOf(c)']
         /\ asked' = [asked EXCEPT ![c] = AskedOf(c)']
         /\ built' = [built EXCEPT ![c] = BuiltOf(c)']
BY OthersKeepPromise DEF status, asked, built

(* The other steps leave the files of the user and the offers alone.       *)
LEMMA FilesStay ==
  ASSUME IInv, NEW c \in Call, Step(c), ~KeepSource(c)
  PROVE  /\ files' = files
         /\ ~Invoke(c) /\ ~ReadSource(c) => offered' = offered
<1>1. pc[c] # "keepSource"
  BY DEF Step, At, Invoke, MakeBase, MakeSources, Destructure, ReadSource, Parse, Splice, WriteIn,
         WriteInitializer, ShowBindings, Initialise, RemoveAfterFailure, ReadOut,
         InitWasm, RemoveWorkDir, CheckInit, WriteBinary, Compose
<1>2. files' = files
  BY <1>1, StepFrame DEF files
<1>3. ~Invoke(c) /\ ~ReadSource(c) => offered' = offered
  BY DEF Step, Throw, Settle, GoTo, locals, shared, At,
         MakeBase, MakeSources, Destructure, Parse, Splice, WriteIn,
         WriteInitializer, ShowBindings, Initialise, RemoveAfterFailure, ReadOut,
         InitWasm, RemoveWorkDir, CheckInit, WriteBinary, Compose
<1> QED
  BY <1>2, <1>3

(* A file is rewritten, by the user or by a call that keeps its source.    *)
LEMMA RewriteMaps ==
  ASSUME OwnInv, NEW u \in UserPath, NEW s \in Source, Write(u, s), Offer(u, s),
         UNCHANGED <<status, asked, built>>
  PROVE  Contract!Rewrite(u, s)
<1>1. files' = [files EXCEPT ![u] = s]
  BY Paths DEF OwnInv, IInv, TypeOK, Write, files
<1> DEFINE noticed == {c \in Call : Exposed(c, u)}
           concerned == {c \in Call : status[c] = "running" /\ asked[c].path = u}
<1>2. ASSUME NEW c \in Call, Exposed(c, u) PROVE status[c] = "running" /\ asked[c].path = u
  <2>1. ~At(c, "idle") /\ ~At(c, "settled")
    BY <1>2 DEF Exposed, At
  <2> QED
    BY <1>2, <2>1 DEF status, asked, StatusOf, AskedOf, Exposed
<1>3. noticed \in SUBSET concerned
  BY <1>2
<1>4. offered' = [c \in Call |-> IF c \in noticed THEN offered[c] \cup {s} ELSE offered[c]]
  BY DEF Offer
<1>5. UNCHANGED <<status, asked, built>>
  OBVIOUS
<1> HIDE DEF noticed
<1> QED
  BY <1>1, <1>3, <1>4, <1>5
     DEF Contract!Rewrite, status, asked, built, files

LEMMA StepMaps ==
  ASSUME ~ShareOptions, PathsKept, OwnInv, NEW c \in Call, Step(c)
  PROVE  [Contract!Next]_(Contract!vars)
<1>1. OthersStay(c)
  BY StepFrame DEF OwnInv
<1>2. IInv /\ TypeOK /\ CallTyped(c) /\ CallKept(c)
  BY DEF OwnInv, IInv, CallOwn
<1>3. /\ StatusOf(c) = status[c] /\ AskedOf(c) = asked[c] /\ BuiltOf(c) = built[c]
  BY DEF status, asked, built
<1>4. CASE Invoke(c)
  <2>1. pc[c] = "idle" /\ outcome[c] = "none" /\ outcome' = outcome
    BY <1>2, <1>4 DEF Invoke, At, GoTo, CallTyped
  <2>2. /\ pc'[c] = "mkdir" /\ arg'[c] \in Argument
        /\ offered'[c] = {arg'[c].source} \ {Nil} /\ disk' = disk
    BY <1>4, InvokeOwn
  <2>3. /\ StatusOf(c) = "idle" /\ StatusOf(c)' = "running"
        /\ AskedOf(c)' = [text |-> arg'[c].source, path |-> SourcePath[arg'[c].opts],
                          world |-> arg'[c].world]
        /\ BuiltOf(c)' = BuiltOf(c)
    BY <2>1, <2>2 DEF StatusOf, AskedOf, BuiltOf, At
  <2>4. AskedOf(c)' \in Contract!Request
    BY <2>2, <2>3, OptionsAssumption DEF Argument, Contract!Request
  <2>5. offered' = [offered EXCEPT ![c] = {AskedOf(c)'.text} \ {Nil}]
    <3>1. offered' = [offered EXCEPT ![c] = {arg'[c].source} \ {Nil}]
      BY <1>4 DEF Invoke
    <3>2. AskedOf(c)'.text = arg'[c].source
      BY <2>3
    <3> QED
      BY <3>1, <3>2
  <2>6. files' = files
    BY <2>2 DEF files
  <2>7. /\ status[c] = "idle" /\ status' = [status EXCEPT ![c] = "running"]
        /\ asked' = [asked EXCEPT ![c] = AskedOf(c)'] /\ built' = built
    BY <1>1, <1>3, <2>3, Mapped DEF built
  <2>8. Contract!Begin(c)
    BY <2>4, <2>5, <2>6, <2>7 DEF Contract!Begin
  <2> QED
    BY <2>8 DEF Contract!Next
<1>5. CASE ~Invoke(c)
  <2>1. /\ pc[c] \in Progress /\ arg' = arg
        /\ pc[c] # "idle" /\ pc[c] # "settled" /\ outcome[c] = "none"
    BY <1>2, <1>5, StepKind DEF CallTyped, Progress, WithDir, AfterDir
  <2>2. StatusOf(c) = "running" /\ BuiltOf(c) = Nil
    BY <2>1 DEF StatusOf, BuiltOf, At
  <2>3. pc'[c] # "idle" => AskedOf(c)' = AskedOf(c)
    BY <2>1 DEF AskedOf, At
  <2>4. CASE pc'[c] \in Progress /\ outcome' = outcome
    <3>1. pc'[c] # "idle" /\ pc'[c] # "settled"
      BY <2>4 DEF Progress, WithDir, AfterDir
    <3>2. StatusOf(c)' = StatusOf(c) /\ AskedOf(c)' = AskedOf(c) /\ BuiltOf(c)' = BuiltOf(c)
      BY <2>1, <2>2, <2>3, <2>4, <3>1 DEF StatusOf, BuiltOf, At
    <3>3. UNCHANGED <<status, asked, built>>
      BY <1>1, <1>3, <3>2, Mapped DEF status, asked, built
    <3>4. CASE ReadSource(c)
      <4>1. /\ pc[c] = "readSource" /\ ~Legacy(c) /\ disk' = disk
            /\ offered' = [offered EXCEPT ![c] = {disk[SourceFile(c)]}]
            /\ disk[SourceFile(c)] # Nil
        BY <1>2, <2>4, <3>1, <3>4
           DEF ReadSource, At, CallTyped, Throw, Settle, TypeOK, shared
      <4>2. SourcePath[arg[c].opts] # Nil /\ SourceFile(c) = SourcePath[arg[c].opts]
        BY <1>2, <4>1 DEF IInv, CallFiles, SourceFile, WithDir
      <4>3. SourcePath[arg[c].opts] \in UserPath /\ arg[c].source = Nil
        BY <1>2, <2>1, <4>1, <4>2, OptionsAssumption DEF CallTyped, Argument
      <4>4. asked[c].text = Nil /\ asked[c].path = SourcePath[arg[c].opts]
        BY <1>3, <2>1, <4>3 DEF AskedOf, At
      <4>5. files' = files /\ files[asked[c].path] = disk[SourceFile(c)]
        BY <4>1, <4>2, <4>3, <4>4 DEF files
      <4>6. Contract!Read(c)
        BY <1>3, <2>2, <3>3, <4>1, <4>2, <4>4, <4>5
           DEF Contract!Read, status, asked, built, files
      <4> QED
        BY <4>6 DEF Contract!Next
    <3>5. CASE ~ReadSource(c) /\ ~KeepSource(c)
      <4>1. files' = files /\ offered' = offered
        BY <1>2, <1>5, <3>5, FilesStay
      <4> QED
        BY <3>3, <4>1 DEF Contract!vars, status, asked, built, files
    <3>6. CASE KeepSource(c)
      <4>1. pc[c] = "keepSource" /\ pc'[c] # "settled"
        BY <3>1, <3>6 DEF KeepSource, At
      <4>2. CASE Legacy(c) /\ Write(SourceFile(c), jsSource[c]) /\ Offer(SourceFile(c), jsSource[c])
        <5>1. jsSource[c] \in Source
          BY <1>2, <4>1 DEF CallTyped, HasSource, HasWorld, WithDir
        <5>2. CASE SourcePath[arg[c].opts] # Nil
          <6>1. SourceFile(c) \in UserPath
            BY <1>2, <2>1, <5>2, OptionsAssumption DEF CallTyped, SourceFile, Argument
          <6>2. PICK u \in UserPath : u = SourceFile(c)
            BY <6>1
          <6>3. PICK s \in Source : s = jsSource[c]
            BY <5>1
          <6>4. Write(u, s) /\ Offer(u, s)
            BY <4>2, <6>2, <6>3
          <6>5. Contract!Rewrite(u, s)
            BY <3>3, <6>4, RewriteMaps
          <6> QED
            BY <6>5 DEF Contract!Next
        <5>3. CASE SourcePath[arg[c].opts] = Nil
          <6>1. files' = files
            BY <1>2, <5>3, StepFrame, OptionsAssumption DEF files
          <6>2. SourceFile(c) = Work(c, "source") /\ SourceFile(c) \notin UserPath /\ SourceFile(c) # Nil
            BY <1>2, <2>1, <5>3, Paths DEF CallTyped, SourceFile, Work, WorkFile
          <6>3. \A e \in Call : ~Exposed(e, SourceFile(c))
            <7> SUFFICES ASSUME NEW e \in Call, Exposed(e, SourceFile(c)) PROVE FALSE
              OBVIOUS
            <7>1. pc[e] # "idle" /\ SourcePath[arg[e].opts] = SourceFile(c)
              BY DEF Exposed
            <7>2. SourcePath[arg[e].opts] \in UserPath \cup {Nil}
              BY <1>2, <7>1, OptionsAssumption DEF IInv, CallTyped, Argument
            <7> QED
              BY <6>2, <7>1, <7>2
          <6>4. offered' = offered
            BY <1>2, <4>2, <6>3 DEF Offer, TypeOK
          <6> QED
            BY <3>3, <6>1, <6>4 DEF Contract!vars, status, asked, built, files
        <5> QED
          BY <5>2, <5>3
      <4>3. CASE offered' = offered /\ disk' = disk
        <5>1. files' = files
          BY <4>3 DEF files
        <5> QED
          BY <3>3, <4>3, <5>1 DEF Contract!vars, status, asked, built, files
      <4>4. \/ offered' = offered /\ disk' = disk
            \/ Legacy(c) /\ Write(SourceFile(c), jsSource[c]) /\ Offer(SourceFile(c), jsSource[c])
        BY <3>6 DEF KeepSource, Throw, Settle, locals, shared
      <4> QED
        BY <4>2, <4>3, <4>4
    <3> QED
      BY <3>4, <3>5, <3>6
  <2>5. CASE pc'[c] = "settled"
    <3>1. files' = files /\ offered' = offered
      <4>1. ~ReadSource(c) /\ ~KeepSource(c) => files' = files /\ offered' = offered
        BY <1>2, <1>5, FilesStay
      <4>2. ReadSource(c) \/ KeepSource(c) => offered' = offered /\ disk' = disk
        BY <1>2, <2>5 DEF ReadSource, KeepSource, Throw, Settle, GoTo, TypeOK, locals, shared
      <4> QED
        BY <4>1, <4>2 DEF files
    <3>2. CASE outcome'[c] \in Failure
      <4>1. StatusOf(c)' = "failed" /\ AskedOf(c)' = AskedOf(c) /\ BuiltOf(c)' = BuiltOf(c)
        BY <2>2, <2>3, <2>5, <3>2 DEF StatusOf, BuiltOf, At, Failure
      <4>2. /\ status[c] = "running" /\ status' = [status EXCEPT ![c] = "failed"]
            /\ asked' = asked /\ built' = built
        BY <1>1, <1>3, <2>2, <4>1, Mapped DEF asked, built
      <4>3. Contract!Fail(c)
        BY <3>1, <4>2 DEF Contract!Fail, status, asked, built, files
      <4> QED
        BY <4>3 DEF Contract!Next
    <3>3. CASE pc[c] = "compose" /\ outcome'[c] = "component" /\ bin'[c] = bin[c]
      <4>1. ~Astray(c)
        <5>1. arg[c] \in Argument /\ workDir[c] \in Dir
          BY <1>2, <2>1 DEF CallTyped
        <5>2. ~Legacy(c) => SourceFile(c) \in UserPath
          BY <1>2, <3>3, <5>1, OptionsAssumption
             DEF CallTyped, SourceFile, Argument, HasSource, HasWorld, AfterDir
        <5> QED
          BY <5>1, <5>2 DEF PathsKept, Astray, Argument
      <4>2. pc[c] \in HasBin
        BY <3>3 DEF HasBin, AfterDir
      <4>3. bin[c].source \in offered[c] /\ bin[c].world = arg[c].world /\ bin[c] \in Wasm
        BY <1>2, <4>1, <4>2 DEF CallKept, SourceKept, WorldKept
      <4>4. bin[c] = [source |-> bin[c].source, world |-> asked[c].world]
        <5>1. asked[c].world = arg[c].world
          BY <1>3, <2>1 DEF AskedOf, At
        <5> QED
          BY <4>3, <5>1 DEF Wasm
      <4>5. StatusOf(c)' = "returned" /\ AskedOf(c)' = AskedOf(c) /\ BuiltOf(c)' = bin[c]
        BY <2>2, <2>3, <2>5, <3>3 DEF StatusOf, BuiltOf, At
      <4>6. /\ status[c] = "running" /\ status' = [status EXCEPT ![c] = "returned"]
            /\ asked' = asked /\ built' = [built EXCEPT ![c] = bin[c]]
        BY <1>1, <1>3, <2>2, <4>5, Mapped DEF asked
      <4>7. \E s \in offered[c] :
              built' = [built EXCEPT ![c] = [source |-> s, world |-> asked[c].world]]
        BY <4>3, <4>4, <4>6
      <4>8. Contract!Deliver(c)
        BY <3>1, <4>6, <4>7
           DEF Contract!Deliver, status, asked, built, files
      <4> QED
        BY <4>8 DEF Contract!Next
    <3> QED
      BY <1>2, <1>5, <2>5, <3>2, <3>3, StepKind DEF Progress, WithDir, AfterDir
  <2> QED
    BY <1>2, <1>5, <2>4, <2>5, StepKind
<1> QED
  BY <1>4, <1>5

LEMMA EditMaps ==
  ASSUME OwnInv, NEW u \in UserPath, NEW s \in Source, Edit(u, s)
  PROVE  Contract!Next
<1>1. UNCHANGED <<status, asked, built>>
  BY DEF Edit, status, asked, built, StatusOf, AskedOf, BuiltOf, At
<1>2. Contract!Rewrite(u, s)
  BY <1>1, RewriteMaps DEF Edit
<1> QED
  BY <1>2 DEF Contract!Next

(* Calls that do not share options objects in flight implement the         *)
(* contract, where no path is cut astray: each settles once, and the       *)
(* component it returns is built from its own world and from its text, or  *)
(* from what its source file has held since the call read it.              *)
THEOREM ContractImplemented ==
  ASSUME ~ShareOptions, PathsKept
  PROVE  Spec => ImplementsContract
<1>1. Init => Contract!Init
  <2> SUFFICES ASSUME Init PROVE Contract!Init
    OBVIOUS
  <2>1. IInv
    BY InitInvariant
  <2>2. [u \in UserPath |-> disk[u]] \in [UserPath -> Source]
    BY <2>1 DEF IInv, DiskTyped
  <2> QED
    <3>1. \A c \in Call : pc[c] = "idle" /\ outcome[c] = "none" /\ offered[c] = {}
      BY DEF Init
    <3>2. /\ status = [c \in Call |-> "idle"] /\ asked = [c \in Call |-> Nil]
          /\ built = [c \in Call |-> Nil]
      BY <3>1 DEF status, asked, built, StatusOf, AskedOf, BuiltOf, At
    <3> QED
      BY <2>2, <3>2 DEF Init, Contract!Init, files
<1>2. OwnInv /\ [Next]_vars => [Contract!Next]_(Contract!vars)
  <2>1. ASSUME UNCHANGED vars PROVE UNCHANGED Contract!vars
    <3>1. \A c \in Call :
            StatusOf(c)' = StatusOf(c) /\ AskedOf(c)' = AskedOf(c) /\ BuiltOf(c)' = BuiltOf(c)
      BY <2>1 DEF vars, locals, StatusOf, AskedOf, BuiltOf, At
    <3> QED
      BY <2>1, <3>1 DEF vars, locals, shared, Contract!vars, status, asked, built, files
  <2> QED
    BY <2>1, StepMaps, EditMaps DEF Next
<1> QED
  BY <1>1, <1>2, OwnInvariance, PTL DEF Spec, ImplementsContract, Contract!Spec
=============================================================================

# A verification of ComponentizeJS in TLA+

ComponentizeJS turns a JavaScript module and a WIT world into a WebAssembly
component. This directory holds TLA+ models of its parts, the TLC
configurations that check them on small instances, and proofs, checked with
TLAPS, of the theorems about them that hold for every value of the constants.
Source paths below are relative to the repository.

## 1. Inventory

### The parts and how they meet

At **build time** `componentize` (`src/componentize.js`) makes a working
directory, finds out which names the source exports, selects features, and
calls the splicer (`crates/spidermonkey-embedding-splicer`). The splicer merges
the engine's world with the target world, generates JavaScript bindings
(`bindgen.rs`), and rewrites the engine's module (`splice.rs`): one import
wrapper per import, one export and one post-export wrapper per export.
`componentize` writes module, bindings and source into the working directory
and runs Wizer or Weval, which executes `componentize.wizer`
(`embedding/embedding.cpp`): it evaluates the source, looks the exports up,
parses their core types from the environment and binds the imports. The
snapshot is checked by calling `check_init`, its unused WASI imports are
replaced by stubs (`stub_wasi.rs`), and jco wraps it as a component.

At **run time** the host calls an export wrapper, which calls `call` in the
embedding, which calls the JavaScript binding and runs StarlingMonkey's event
loop until the promise it returned is settled; after the host has read the
results it calls the post wrapper, which calls `post_call`.

| component | state | operations | what makes it correct |
|---|---|---|---|
| call protocol (`embedding.cpp`, `embedding.h`, wrappers of `splice.rs`) | `cur_fn_idx`, `first_call`, `free_list`, the heap, the event loop's interest, task and job queues | export wrapper, `call`, the two promise handlers, `post_call`, `cabi_realloc`, `$realloc` | results stay allocated until `post_call` and are freed once; re-entry is refused; after an abort half-way no call goes on by mistake; a function that completes does return |
| pipeline (`componentize.js`) | options objects, working directories and files, one async call per caller | the awaits of `componentize`, in order | concurrent calls do not mix; nothing is left behind; every call settles with its own component or an error |
| features and stubs (`componentize.js`, `bindgen.rs`, `splice.rs`, `stub_wasi.rs`) | set of features, exports and imports of the module | selection, bindings, splicing, ten stub passes | one implementation per export; disabled features leave no import; nothing that is needed becomes a trap |
| `get-random-bytes` stub (`stub_wasi.rs`) | a block and a write position | the generated loop | fills exactly what it returns, within what it allocated |
| bindings generation (`bindgen.rs`) | lists of generated functions, sides of resources, variables and aliases of exports | one step per item of the world | different functions never stand in for each other; a use of a resource is on the right side |
| splicing (`splice.rs` 199-921) | the module's imports, function table and exports, the constant in `coreabi_get_import` | one wrapper per import, extend the table, patch the constant, one export per function | the n-th symbol of the bindings calls the n-th import; the n-th export runs the n-th function |
| initialisation (`embedding.cpp` 341-584, `bindgen.rs` 1185-1321) | `$bindings`, the script's variables, `Runtime.fns`, `init_err` | `install`, `bindExports`, `componentize.wizer`, `check_init` | what failed is reported; what is reported ready is complete |
| marshalling (`splice.rs` 564-1048, `embedding.cpp` 194-323 and 397-456, `bindgen.rs` 1033-1072, `componentize.js` 228-240) | linear memory, blocks, `CoreFn` records, JavaScript values | spill, box, unbox, store, load; encode and parse signatures | offsets, sizes and types agree on both sides of each call |
| memory view (`embedding.cpp` 508-525) | cached `ArrayBuffer`, `LAST_SBRK` | `GetMemBuffer` | covers every access, though memory grows |
| resources (`bindgen.rs` 332-355, 512-562) | handles of objects, finalization registries, the host's handle table | construct, lend, dispose, pass on, collect, finalize | every handle is dropped once, and never under its object |
| command line, splicer component, path conversion | none | argument and type conversion | not models for TLA+ |

### The hard behaviours

- `call` waits inside an event loop that also runs whatever earlier calls left
  behind: timers, promise chains nobody awaited, tasks that fail.
- Everything in the runtime aborts instead of unwinding, so each step between
  `cur_fn_idx = fn_idx` and the return can be the last one of a call, and the
  host may call the instance again. `post_call` does not ask how the call it
  belongs to ended.
- The free list mixes blocks with two lifetimes; the changelog records a leak
  (#295) and a use-after-free (#319) in it.
- `componentize` is async: options objects, the temporary directory and the
  current directory are shared by all calls in flight, and it throws from many
  places with a directory half filled.
- The decision which code implements an export, and which import is needed, is
  taken four times in three languages.
- Five lists (symbols, imports, table entries, exports, declarations) are
  connected by position only, and four kinds of names by spelling only; each is
  produced by another piece of code.
- An argument crosses four representations (wasm values, words of memory, a
  string that describes the words, JavaScript numbers with two tags) while the
  memory it lies in may grow and the view of it may be an old one.
- The host gives the index of a dropped handle to somebody else; the garbage
  collector decides when a finalizer uses the number it remembers.

`PROJECT.json` lists the hazards with their lines and the properties that
cover each.

## 2. Modules

| module | models | state |
|---|---|---|
| `CallContract` | what the host relies on: one call at a time, results until released, an abort is final unless a careless host releases it | abstract |
| `CallProtocol` | the call protocol in detail; implements `CallContract` | written |
| `CallProtocolProofs` | inductive invariant and ten theorems | proved |
| `BuildContract` | what callers of `componentize` rely on: each call gets a build of its own source and world, or an error | abstract |
| `Pipeline`, `PipelineProofs` | all awaits of `componentize`, several calls in flight; implements `BuildContract`; nine theorems | proved |
| `Features`, `FeaturesProofs` | feature selection, bound and overridden exports, stub passes; five theorems | proved |
| `RandomStub`, `RandomStubProofs` | the loop of the `get-random-bytes` stub and four theorems | proved |
| `Names` | how `bindgen.rs` derives names from names | operators only |
| `Bindgen` | `componentize_bindgen`: what is generated, in which order and under which names; extends `Names` | written |
| `Linking` | splicing, environment and initialisation of what `Bindgen` generated; extends it | written |
| `LinkingProofs` | the export side of `Linking`, five theorems | proved |
| `SplicingProofs` | the import side of `Linking`, the sides of resources and the worlds that fail, six theorems; extends `LinkingProofs` | proved |
| `Marshal`, `MarshalProofs` | the data of a call of an export that calls an import; the memory view; five theorems | proved |
| `Resources`, `ResourcesProofs` | the handles of an imported resource, and four theorems | proved |
| `MC*` | small instances for TLC | |

`CallProtocol` and `Pipeline` are each shown to implement a contract, through
`INSTANCE ... WITH`. `Linking` composes three programs: its `Next` runs the
generator of `Bindgen` to its end, then the splicer, then the initialisation,
all on one world. `CallProtocol` and `Marshal` look at the same calls, one at
their order and failures with data left out, the other at the data of a single
call that succeeds.

### What comes next, in this order

1. What is freed, and when: the areas that the bindings and the wrappers
   allocate for spilled parameters and results (`splice.rs` 931 and 1068) in a
   `Marshal` of several calls in a row, with the property that a block is freed
   once and not read afterwards, and which blocks are never freed.
2. The bodies of the stubs that leave an error number (`stub_wasi.rs` 351), next
   to `RandomStub`.

## 3. CallProtocol

**State.** `cur_fn_idx`, `first_call`, `free_list` and `retptr` are the
variables of that name. `heap` maps each block to its owner: `"arg"` for
spilled parameters, `"ret"` for what `call` allocates for results, `"data"` for
everything else (`cabi_realloc` from the host, `$realloc` from the bindings,
return areas of imports). `promise`, `reaction`, `jobs`, `tasks` and `interest`
are the part of the engine `call` depends on. `pc` says who has control; since
there is one thread, an action is what happens between two points where
JavaScript, the loop or the host chooses what is next. `trap` and `returned`
are the host's knowledge. `promise` and `reaction` are kept for each call that
can still be in the event loop: a call that returns leaves nothing there, so
calls are numbered by the aborted calls released before them (`revived`), and
jobs and tasks carry the number of their call.

**Actions.** `Enter` is the export wrapper and `call` up to the JavaScript
call; its failures are `WrapperOutOfMemory`, `EnterOutOfMemory` (after
`cur_fn_idx` has been set, as in the code) and `EnterRefused`. JavaScript is
any program: it allocates, awaits, spawns jobs and tasks, calls imports that
re-enter or abort for a BigInt (`ImportAborts`), completes, throws, or aborts
(`CallFails`). `AttachReactions` is
`AddPromiseReactions`, `RunReaction` either handler, and `Return`,
`ReturnAborts`, `ReturnOutOfMemory`, `NotFulfilled`, `TaskFails` and `Starve`
the ways out of the loop. Aborts leave every variable as it is (`Die`): wasm
has no unwinding. `PostCall` and `PostCallRefused` are the post wrapper.
`post_call` compares indices and nothing else (`embedding.cpp` 327), so
`PostCall` is also a step after a call that aborted: it resets `cur_fn_idx` and
frees the list, the next call is accepted, and the interest, the reaction, the
jobs and the tasks of the aborted call are still in the loop.

`CarefulHost` chooses between a host that follows the canonical ABI (no entry
after an abort or before `post_call`, no post wrapper but that of a call that
returned) and one that retries whatever it likes, the post wrapper of an aborted
call included.

**Left out.** The data of the calls (see `Marshal`); a post wrapper called by the host while
its call is still running, which no canonical-ABI host can do; a background
task that settles the promise of the exported function through state they
share (a continuation of the function stands for it).

| run | instance | shows |
|---|---|---|
| `call_careless` | 3 functions (parameters by value with return area; single value; pointer parameter without result), 4 blocks, 2 tasks, 4 steps, 1 revival, careless host | all safety properties and `ImplementsContract` |
| `call_live` | the same functions, 3 blocks, 2 tasks, 4 steps, careful host, fairness | `CarefulHostNeverRefused`, `CallEnds`, `CompletionReturns` |

**What a revived instance does.** `InterestBalanced` says that the interest is
the number of calls whose reaction has not run, aborted ones included. So a call
that was cut short before its reaction ran keeps the loops of later calls alive:
they return only when its promise has been answered too (`NothingSuspended`),
and if its reaction was never attached they all end by starving.
`NothingSuspended` says that nothing but aborted calls leaves functions or
reactions in the queues. `AbortIsFinal` names the one way out of an abort, the
post wrapper of that very call, and that it hands over nothing; for a careful
host there is none. `CallContract` has the same step (`ReleaseAborted`).

**Seen, without a run of its own.** `post_call` frees the return area of its
call and nothing else: spilled parameters (`splice.rs` 931), return areas of
imports (`splice.rs` 662) and what the bindings allocate stay for the life of
the instance. `splice.rs` 1052 and 1068 speak of a "bulk deallocation strategy"
that "is already tracking the frees needed". The heap of the model fills up in
this way, and `CompletionReturns` names running out of memory as one of the three
ways for a finished call to lose its results, beside a task that fails and a
BigInt that does not fit (see `Marshal`).

**Bounds.** In `call_careless`, four blocks are one spilled area, one return area and two blocks of
data, so a block can be freed, moved and handed out again while a return area
is live, and memory can run out at each of the allocations. Two tasks are one
of this call and one of an earlier one. Four steps per call allow an
allocation, a spawned task, an await and another step in one call. No bound is
put on the number of calls, but one on the aborted calls that a post wrapper
releases (`MaxRevivals`): one leaves a job, a task, a function and an
unattached or attached reaction to a later call, and a second one only more of
them. `call_live` needs none, its host is careful. Blocks are symmetric: only their owner matters.

**Fairness.** `FairSpec` has weak fairness on `JavaScript \/ EventLoop`: the
single thread runs whenever it has control, which is what a wasm engine does
with a call it has entered. Nothing is assumed of the host. `StepsPerCall`
bounds the JavaScript of one call, so user code that loops, or re-arms a timer,
for ever is excluded: no runtime could end such a call. A task that waits is
assumed to become ready; an operation the host never answers would suspend the
instance in `poll`.

**Proofs** (`CallProtocolProofs`, for any set of functions, any finite or
infinite set of blocks, any number of revivals and either host). The invariants
checked by TLC are not inductive: that the free list equals the set of return
areas depends on it being empty when a call starts, which depends on who has
control and on `cur_fn_idx`. `IInv` adds `Control` (which of `cur_fn_idx`,
`returned`, `pc` and `trap` occur together), `Areas` (who owns the blocks of
`free_list` and `retptr`), `Phases` (how far each call has come, with nothing
known of a number that is still to be given), `ReactionJob` (a `"react"` job of
a call is queued exactly when its `reaction` is `"queued"`, and once),
`OneContinuation` (the function of each call goes on in one place only, in one
job or one task or by running, its promise is pending as long as it does, and
between calls only an aborted call has one left), and `Drained` and `Answered`
(the loop has stopped before `call` returns). Each action preserves it, by one
lemma per action or group of actions. From `IInv` follow `TypeOK`,
`FreeListSound`, `ResultsReadable`, `InterestBalanced`, `NothingSuspended` and
`CarefulHostNeverRefused`; `AbortIsFinal` and `ImplementsContract` follow step
by step under `IInv`. The assumptions are `SignatureAssumption` (indices are
natural numbers, a single value excludes a return area) and `BoundAssumption`.

The two liveness properties are out of the prover's reach.

## 4. Pipeline

**State.** `pc` of each call; its arguments and locals; the options objects'
`witWorld`; `dirs` and `disk`. A module's content is the world it was spliced
for, a snapshot's content the world and the source. `offered` is history: the
text of a call, or what its source file has held since the call read it. Paths
are sequences of characters, since `componentize` compares and cuts them as
strings.

**Actions.** One per await of `componentize`, each with its failure exit
(`Throw`: nothing in `componentize` catches anything). `Invoke` handles the
three signatures, writing `witWorld` into the caller's object for the oldest;
`Destructure` reads it back two awaits later. `Initialise` is the synchronous
child process. The working directory is removed by `RemoveWorkDir` and
`RemoveAfterFailure` only. `Compose` is everything after `stubWasi`, with the
`TypeError` of the debug result. `Edit` is the user, who saves a source file at
any time. `InitialisedFile` is the path arithmetic that decides which file the
initialisation opens (247-281): `CwdIsPrefix` is `startsWith`, `Cut` is
`slice`, and `Remapped` is what Wizer makes of the result under its map of `/`
to the current directory.

| run | instance | shows |
|---|---|---|
| `pipeline` | 2 calls; options objects with text, file, AOT and debug; one source file that the user edits; 2 sources, 2 worlds, 2 directory names, one with the temporary directory in the current one | `ExclusiveWorkDir`, `DirsAccounted`, `AnalysedIsInitialised`, `SourceReachesInitialiser`, `DebugDirKept`, `ImplementsContract` |
| `pipeline_shared_options` | options objects may be shared | finding: the other call's world is built |
| `pipeline_debug_output` | 1 call | finding: the debug result throws |

**The contract.** `BuildContract` lets source files change at any time
(`Rewrite`). A call begins with a text or a path and a world, it may read its
file, and what it delivers is built from its world and from its text, or from
something its file has held since the read. The mapping gives it the status of
each call, the contents of the source files, the arguments, `offered` as the
sources seen, and the components returned.

**Bounds.** The calls are symmetric and interact through a directory name, a
file or an options object, each a matter between two calls. Two directory
names make collisions certain and leave room to avoid them.
`ShareOptions = FALSE` in the passing run restricts calls *in flight*; a later
call may use an object an earlier call has written. The options objects but
`text` name one file, which the user edits and which a call that is given its
source as text overwrites, so the file changes between any two steps of a call
that has read it. The paths of the run are one in the current directory, which
is cut, a working directory elsewhere and one in the current directory; what
other paths do is the matter of the theorem below. No fairness is assumed;
whether Wizer ends is not the pipeline's.

**Which paths are cut astray.** `CutAstray` holds where the current directory is
a prefix of the source's directory by characters but the character cut with it
is no separator. Either the current directory is `/`, or the source is in a
sibling whose name extends the current directory's: with the current directory
`/home/a` and `sourcePath` `/home/ab/foo.js`, `startsWith` (261) is true, the
cut path is `/foo.js` of the map, and Wizer is pointed at `/home/a/foo.js`, which
is another file or none. The comment above that code speaks of a path "within
the current working directory". `Astray` adds the case of a source passed as
text while the temporary directory is in the current one, where the bare name of
the source is cut. `AnalysedIsInitialised` and `SourceReachesInitialiser` say
that every path that is not cut astray leads to the file that was read or
written.

**Seen, without a run of its own.** A source that is passed as text together
with a `sourcePath` is written to `sourcePath`, over the user's file, and unless
Weval is used the initialisation looks for it elsewhere: `TextBesideWizer` names
the case. With `Astray`, `SourceReachesInitialiser` says, it is the only one.
`DirsAccounted` says which calls leave their directory behind: besides debug
calls, every call that throws before `RemoveWorkDir` anywhere but in the
initialisation, for instance because its source does not parse, which needs no
directory.

**Proofs** (`PipelineProofs`, for any number of calls, options objects,
sources, worlds and directory names, and for all paths). The invariant `IInv`
says what a call has at each of its steps: a directory of its own, among those
that exist, and in it the files it has written so far with what it wrote; which
files are still missing matters as much, as `Initialise` fails or not by them.
From it follow `TypeOK`, `ExclusiveWorkDir`, `DirsAccounted`, `DebugDirKept` and
`SourceReachesInitialiser`, with no assumption but that a user's source is not
in a directory whose name is still to be drawn and is not `binary.wasm`, and that
its path has no empty component (`PathAssumption`). A second invariant, `OwnInv`,
says where what a call has comes from: its source from `offered`, from which
`AnalysedIsInitialised` follows, and its world from its caller unless options
are shared. `ImplementsContract` is proved for callers that do not share an
options object between calls in flight (`pipeline_shared_options` shows what
happens to others) and for current directories in which no path is cut astray
(`PathsKept`). The refinement goes step by step: each action of a call is a step
of its own build in `BuildContract`, and an edit is a `Rewrite`, or none.

## 5. Features

A sequential computation with a large input space: `SelectFeatures`,
`GenerateBindings` and `Splice`, then one action per stub pass, in the order of
`stub_wasi`. `imports` holds interfaces with the index of their version, since
`stub_wasi_imports` replaces the first listed version that is imported and no
other. The run `features` starts from all sets of disabled features, all sets
of handler names and world exports, three versions of the target world (one not
listed in `WASI_VERSIONS`) and a world import of every kind the passes tell
apart. The engine's version is listed; the engine imports every interface the
passes name.

`OneImplementation` relates `bindgen.rs` and `splice.rs`, which decide
separately; `PureWhenDisabled`, `EnabledFeaturesKept` and `UngovernedKept`
relate the imports that are left to the features and the world.
`EnabledFeaturesKept` covers all five features, with one exception that it states:
the `wasi:io` of a fetch event without `clocks`, `stdio` and `http`, unless the
target world needs it (`FetchEventAlone`). `has_io` (177) does not look at
`fetch-event`, so the streams of its requests become traps, although
`stub_wasi.rs` 166 leaves `wasi:http/types` "in place for StarlingMonkey's
implementation of `FetchEvent` to use". `README.md` 204 asks for `http` with
`fetch-event`, but nothing enforces it.
`UngovernedKept` does not speak of a `wasi:io` import of the world itself:
`target_world_requires_io` does not list it, and a world that imports only
`wasi:io` gets traps for it when no feature needs it.

| run | instance | shows |
|---|---|---|
| `features` | all inputs above | `OneImplementation`, `PureWhenDisabled`, `EnabledFeaturesKept`, `UngovernedKept` |
| `features_handler` | the same | finding: a handler exported under its full name is not used |

**Proofs** (`FeaturesProofs`, for any target world, any list of WASI versions
and any engine version on it). The invariant follows the passes: `Swept` are the
interfaces that the passes up to `pc` have taken, and `ImportsAre` says that of
these nothing is left but what the target world imports itself, and that all
others are still there. `PassSweeps` is the lemma for one pass; that
`stub_wasi_imports` stops at the first version it finds does no harm because the
engine imports each interface in one version. All four invariants are proved.

**Seen, without a run of its own.** Of the bodies of the stubs only `get-random-bytes` is modelled.
Nearly all others are `unreachable`; two of the rest, `clock_time_get`
(`stub_wasi.rs` 351) and `fd_write` (404), leave a pointer parameter on the
stack as their result, which a caller reads as an error number.

## 6. RandomStub

The loop that `stub_random` generates, on addresses that wrap at `Words` (2^32
in the code, 64 in the run, which takes every length at every address up to the
end of memory). Lengths within 8 of `Words` are excluded: the engine asks for
bytes to fill a buffer it holds, so rounding up does not wrap. `Terminates`
assumes weak fairness, straight-line wasm code that runs. `RandomStubProofs`
proves `TypeOK`, `WritesInside` and `ListFilled` for every `Words` that is a
multiple of 8 and greater than 8, from the invariant that after `k` words
exactly the first `8 * k` bytes of the block are filled and `8 * k` is at most
the length rounded down to a multiple of 8 while the loop runs.

## 7. Linking

**State.** `Bindgen` holds what the generator gathers: `directions`
(`resource_directions`), `imports`, `exports`, `importedResources`, `classes`,
`esm` and `aliases`. `Linking` adds the spliced module (`moduleImports`,
`wrappers`, `table`, `base`, `exportNumbers`) and the initialised instance
(`bindings`, the source's exports, `locals`, `fns`, `initErr`). The last step of
`componentize_bindgen`, which renders the script, has no state of its own: its
lists (`Symbols`, `ResourceImports`) and the names it declares
(`DeclarationsClash`) are operators on what was gathered.

**Actions.** `ImportItem` and `ExportItem` are one round of the loops of
`imports_bindgen` and `exports_bindgen`, with the side a resource is put on and
the resource map of every function as it is at that moment; `SkipExport` is the
round that leaves `wasi:http/incoming-handler` to the engine. `SpliceImport` adds
a wrapper, and an import unless the engine has it; `PlaceWrappers` puts the
wrappers behind the first element segment and patches the constant of
`coreabi_get_import`; `SpliceExports` numbers the exports. `Install` fills
`$bindings`, `Evaluate` runs the script and a source that exports any names it
likes, `BindExports` or `BindFails` look the exports up, and `InitFn` fetches
the functions by name, the last declaration of a name winning.

**Names** are sequences of kebab words (`Longer` says which words begin with
another one); camel case keeps words apart and is left
out, and where the code loses a boundary (`ns:pkg/name` with every other
character replaced by an underscore) so do the operators.

**What is checked.** `ExportsRunOwn`, `ImportsReachHost` and
`IntrinsicsReachHost` follow a call through all lists and names and compare
what it reaches with what the world says. `DirectionsMatchSide`,
`NoObjectServesTwo`, `ReadyMeansComplete` and `CompleteSourceAccepted` are about
the steps on the way. `OtherWorldsEvaluate` lists the worlds that fail
(`Excepted`), of eight kinds. Five of them declare a name twice, a syntax error
when the script is evaluated:

- specifiers that differ in punctuation only (`SpelledAlike`);
- two imported interfaces with one name and equal resources (`NamedAlike`);
- a function that two resources of the world take (`TakenTwice`): `RootFuncs`
  compares names by characters (650), so `thing` takes the functions of `things`
  and of `thing-box`;
- two exported interfaces with equal resources (`SameResource`);
- an export whose variable has the name of something the script declares itself
  (`LikeScript`), such as a function `bind-exports`, a function `exports` of an
  interface `bind`, or a resource `bindings-error`. Variables are kept clear of
  the names that js-component-bindgen's intrinsics have (`Globals`), not of these.

Three make the generator panic:

- a function of a resource of the world that uses a resource listed later
  (`UsesLater`): resources of the world are put on a side one by one, each with
  its functions (620-655), and the lookup of the side panics (796);
- an asynchronous function in an imported interface, and
- one in an export: `todo!()` (498, 711, 979).

An asynchronous function that the world imports itself is passed over in silence
(569) and has no binding, so `ImportsReachHost` does not speak of it. Imports and
intrinsics have symbols of their own (`$import_`, `$resource_`, 374 and 378) and
never meet.

| run | instance | shows |
|---|---|---|
| `linking` | every world with up to 2 imports and 3 exports of a list of 11 and 9 items, four with two resources of their own, and worlds of rare items; every set of exports of the source; 2 engines | the eight invariants |
| `linking_names` | the same | finding: two exported interfaces with the same name share functions |

**Bounds.** The lists of items have a partner for each way two names can meet:
two versions of an interface, two packages with one interface, specifiers that
differ in punctuation, an inline interface with an interface's name, a function
of the world with that of an interface, and two interfaces with equal
resources; a third export is there to use a resource that a first one exports.
A conflict is between two items, so larger worlds only combine what is here.
Asynchronous functions and exports named like the script's own variables
(`RareImports`, `RareExports`) fail or do not by themselves, so worlds have at
most one of them on each side.
The engines differ in how the index of the sample function is computed (a
constant, or a global and a constant) and in whether they import what the world
imports. `EngineAssumption` states what `splice.rs` takes for granted of any
engine: the first element segment reaches to the end of the table, and the
constant lies between 1000 and 5000. The order of exports matters: an interface
that is generated before the one whose resources it uses would see them on the
other side (`directions`). wit-parser lists an interface after those it uses,
and so does the list of the run.

**Assumptions.** `WorldAssumption` says what WIT and wit-parser guarantee of a
world: the imports and the exports are maps from keys to items, functions and
resources have kebab names, a function of a world's own resource comes with that
resource, a world exports no resource of its own, and a function item
has one function, under its name. `OrderAssumption` says that the orders in which
exports are sorted and resources are numbered are sequences, and that each
resource has one number; `EngineAssumption` is explained above. Two assumptions
are there for the worlds that fail only. `NamesAssumption` is about what
wit-parser keeps apart: the functions and the resources of an item, the functions
of the world, whose keys have no package, and the words of a specifier from
`$root`, which is no kebab name. `OwnersAssumption` is about its order: it
resolves the types of a world before its functions, and lists an interface after
those whose types it uses, on the side of the exports too unless the used one is
imported. Resources of the world are types that may use each other in any order,
so nothing is assumed of those; the interface that is left to the engine has no
resources.

**Proofs of the export side** (`LinkingProofs`, for all such worlds and
engines). `ExportsRunOwn` relates a number of the export section to a place in
`Runtime.fns`, the wrapper at that place to a variable, and the variable to a
member of an object of the source. `IInv` holds these lists together: each export
comes from an item and has an entry in `bindExports` (`ExportsInv`, `EsmInv`),
aliases are what `populate_export_aliases` makes of the entries (`AliasesInv`),
numbers follow the list (`NumbersInv`), each variable holds a member of an object
found for an entry of that variable (`LocalsInv`), and each function fetched so
far is the last declaration of its name (`FnsInv`). That a script with two
declarations of one name does not evaluate (`ClashInv`) gives the rest: variables
are declared once. `NoObjectServesTwo`, `ReadyMeansComplete`,
`CompleteSourceAccepted` and `ExportsRunOwn` follow.

**Proofs of the import side** (`SplicingProofs`). `SInv` adds that the `n`-th
wrapper calls the `n`-th import of `SpliceList`, that wrappers are in the table
from the slot on that `get_import` counts from, and that `Install` reads as many
names as there are wrappers (`SpliceInv`); and which sides occur in resource maps
(`DirectionsInv`, `MapsInv`). `IntrinsicsAligned` is the lemma the rest turns on:
`resource_bindings` and the intrinsics' imports are pushed by separate loops and
have equal positions. `IntrinsicsReachHost` follows. `ImportsReachHost` also
needs to know from which item each import and each class came (`OriginsInv`);
two items that make the same class would have it declared twice, so a class that
is ready belongs to one item, and each property that user code can reach is one
function. `DirectionsMatchSide` is proved for worlds that list the owner of a
resource no later than its users and do not leave an interface with resources to
the engine (`UsesInOrder`). wit-parser lists interfaces so; a world that exports a
function of its own before an interface whose resource it uses is outside it,
there the function is generated for the import side.
Flattened lists occur in these proofs: `FlattenSeq` is recursive, and what it
returns is shown by a least counterexample instead of an induction theorem.

**Proof about the worlds that fail** (`SplicingProofs`, `OtherWorldsDoEvaluate`).
That nothing panics and nothing is declared twice is a matter of all the items
that came before, so `WInv` adds to `SInv` what is known of them. `OnceInv`: each
import and class is that of an item that has been generated, the symbols of the
imports are distinct unless two specifiers are spelled alike or a function is
taken twice, and so are the classes unless two interfaces are named alike.
`DeclaredInv`: what these items declare is on a side, and what is on the import
side was declared by an imported item. A function of an import can then panic
only for a resource of the world that comes later or because it is asynchronous
(`ImportPanics`), one of an export only because it is asynchronous
(`ExportPanics`). When the script is evaluated its names are the symbols of
imports, those of intrinsics, the classes and the variables of exports, and they
are compared pair by pair: two symbols of imports are equal for one specifier and
one function only, although a name does not say where the resource ends and the
function begins (`ImportsDiffer`); symbols of intrinsics for one resource and one
intrinsic (`SymbolsOnce`, `DropsDiffer`); classes for one resource
(`ClassNamesDiffer`). A symbol of an import and one of an intrinsic differ by
their prefix (`SymbolsApart`). The variables of exports are compared in
`LocalsApart`, and with the script's own names in `LikeScript`.

**Left out.** What js-component-bindgen's `LocalNames` does to a name that is
taken, which is to add a number: a variable it has changed so is taken to differ
from all others, and kebab names that end in a number are not used. Camel case
that is applied to such a name again drops its `$` (`bindgen.rs` 483).

## 8. Marshal

**State.** `mem` is made of words of 4 bytes, each holding a value or half of
one, so that a read with another type or at another offset gives `Garbage`.
`blocks` and `brk` are the allocator and the end of memory, `lastSbrk` and
`view` the cache of `GetMemBuffer`; `fn` is the entry of `Runtime.fns` as it was
parsed from the environment; the other variables are the values in flight.
A value's shape says whether it is an int32 number, and JavaScript may
represent an int32 number of a float type with either tag; for an i64, the other
shape is an s64 below 0.

**Actions** follow one call: `Spill` or `WithoutParameters` and `WrapperReturns`
are the export wrapper, `Call` and `Return` are `call`, `ImportWrapper` is the
wrapper of an import, and `LiftParams`, `CallImport`, `LiftResults` and
`LowerResults` are what the generated functions do according to the canonical
ABI; they belong to js-component-bindgen, which is not in the repository, and
are marked external. `ImportAborts` and `ReturnAborts` are the checks of BigInts
(`embedding.cpp` 69 and 303). `EngineGrows` and creating the buffer itself may move the
end of memory at any access.

| run | instance | shows |
|---|---|---|
| `marshal` | every list of up to 3 core types with 2 of them flat, 8 kinds of results, on the export and on the import; both shapes; memory of up to 64 words that grows by 8 | `ArgumentsArrive`, `ResultsArrive`, `WritesInside`, `AccessInView` |

**Bounds.** With `MaxFlat = 2` (16 in the canonical ABI) a list of three is
passed indirectly and a list of two has every pair of sizes, so offsets after
each type are reached. The smallest block has 3 words: an assumption
(`AllocatorAssumption` asks for 2) that the code needs, since `Return` asks for
`fn.retsize` bytes, which `core_fn` leaves 0 for a function without a return
pointer, and stores up to 8.

**Values that do not arrive.** On the stack, an s64 below 0 does not survive.
`from_bigint64` and `call` abort for every BigInt that is not a uint64, so an
import is not called with such an argument and a call does not return such a
result; the other way `to_bigint64` makes a positive BigInt of its bits. In
memory, behind a pointer, it passes unchanged. `ArgumentsArrive` and
`ResultsArrive` state this exactly: they allow these aborts for these values
alone, and a change of these values alone. The source calls the abort an
"Internal bindgen error" (71), and `test/cases/integers/test.js` 25 has the
assertions commented out as "TODO: negative bigints". Also excepted is an i32
that is not an int32 number, a u32 from 2^31 on, on its way to the host: the code
takes the low word of whatever represents it, and whether such a number reaches
it is decided by generated code.

Alignment is not modelled; every request asks for 4.

**Proofs** (`MarshalProofs`), for all worlds, any `MaxFlat`, `MinUsable`,
`Page` and `MaxBrk`. The four invariants speak of moments: an argument has
arrived, a result has arrived. `IInv` adds where the values are in between:
in a block of the heap laid out for the types of a signature (`ParamsInv`,
`AreaInv`, `ResultInv`), in `vp` with a tag that its type allows, or in the area
whose pointer the import wrapper added (`ImportInv`); what has made a call abort
(`AbortInv`); and that blocks end below
`brk` and the buffer is as long as memory was when it was asked for
(`MemoryInv`). Each step has a lemma. They rest on three facts about the code's
conventions: what is stored at the offsets of a list of types is what loading at
these offsets returns (`LoadedStored`, since values do not overlap,
`OffsetsAre`); a new block lies behind all others (`HeapGrows`); and parsing
`EXPORT_ARGS` and `EXPORT_RET` gives back `core_fn`'s signature (`Parses`). The
lemmas about offsets and about joining and parsing lists are proved by a least
counterexample and by position, not with an induction theorem. Assumed are
`AllocatorAssumption` and that signatures are lists of core types
(`WorldAssumption`).

## 9. Resources

**State.** `handle` and `registry` are an object's `symbolRscHandle` property
and the finalization registry; `due` are registrations whose object has been
collected, `table` is the host's handle table, `life` is what user code and
collector have done to an object. `misuse` records that user code has used an
object it had given up.

**Actions.** `Dispose` is the class's method in the order of the code:
unregister, drop, clear. `Finalize` is the registry's callback, at any time
after `Collect`. `LiftOwn`, `LiftBorrow`, `PassOn` are lifting and lowering,
`CallReturns` the host's check of what it has lent; the host may give a dropped
index to any other object.

| run | instance | shows |
|---|---|---|
| `resources` | 4 objects, 3 indices | `HandlesAreOwn`, `FinalizersMatchHandles`, `TrapsAreMisuse` |

**Bounds.** With more objects than indices, indices are reused while old
objects and their finalizers are still around. The run ends when all objects are
collected or the host has trapped.

**Proofs** (`ResourcesProofs`, for any objects and any number of indices). The
three invariants are not inductive: that a late finalizer takes no live object's
handle needs that the objects of `due` are collected and those of `registry` are
not (`Registered`), and that dispose leaves no second entry of its object needs
that an entry of the table is always the handle of its object
(`EntriesNamed`). `Released` is the lemma the proof turns on: giving an index
back preserves the invariant if its one registration goes with it. Dispose, a
transfer and a finalizer are its three uses; it is here that an object that is
disposed twice (it drops `undefined`, which is handle 0) can only end in a trap
that user code has caused.

## 10. Findings

Every finding is a run that TLC ends with a counterexample, quoted with its
line in `PROJECT.json`: `pipeline_shared_options`, `pipeline_debug_output`,
`features_handler` and `linking_names`. What was seen without a promise in the
repository that it breaks, or follows from a run above, is described in the
sections of the modules.

## 11. Not modelled

- **Data in JavaScript.** Lifting and lowering of compound types, strings and
  lists, and the intrinsics, are js-component-bindgen's; `Marshal` calls them by
  what the canonical ABI asks for. The registries of exported resources are
  filled by its code only.
- **Bodies of stubs** other than `get-random-bytes`: constants and traps.
- **Text.** Error messages, help, the layout of the generated JavaScript, and
  the debug output of wrappers (`debug` in `splice.rs`).
- **No state and no order worth a model:** the command lines (`cli.js`,
  `splicer.rs`, which read a file, call one function and write the result), the
  splicer component (`splicer-component`, `wit.rs`, conversions of records field
  by field), `maybeWindowsPath`, and the example host.
- **Not in the repository:** StarlingMonkey, SpiderMonkey, Wizer, Weval, jco,
  wit-parser and Node.js. Where the modules meet them they are modelled as the
  code uses them and marked external in `PROJECT.json`.
- **Out of the prover's reach:** the liveness properties `CallEnds`,
  `CompletionReturns` and `Terminates`, which TLC checks.
- **Only model-checked** are these three. Every other property of a passing run is
  also a theorem; two of them under a condition that is given with the theorem:
  `DirectionsMatchSide` (`UsesInOrder`), and `Pipeline`'s `ImplementsContract`
  (no shared options objects, `PathsKept`).

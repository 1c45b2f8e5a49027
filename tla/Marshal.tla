------------------------------ MODULE Marshal ------------------------------
(* The data of one call: of an exported function by the host and, inside    *)
(* it, of an imported function by the bindings.  Three programs that only   *)
(* share conventions handle it: the wrappers that splice.rs synthesises,    *)
(* call (embedding.cpp), which knows an export's signature from strings in  *)
(* the environment that componentize.js wrote, and the generated bindings.  *)
(*                                                                          *)
(* Memory is made of words of 4 bytes, the unit of all sizes here.  A       *)
(* value has an identity, a core type, and a shape: whether it is an int32  *)
(* number.  An i32 that is not stands for a u32 from 2^31 on, an i64 that   *)
(* is not for an s64 below 0; other i64s are as those that are.  A word     *)
(* holds a value, or half of one; reading with another type gives garbage.  *)
EXTENDS Integers, SequencesExt

CONSTANTS
  Worlds,     \* pairs of functions: exp is exported and calls imp
  MaxFlat,    \* most parameters passed as such (16 in the canonical ABI)
  MinUsable,  \* what the allocator hands out at least
  HeapBase,   \* where the heap begins
  Page,       \* by what memory grows
  MaxBrk      \* bound: where memory ends

CoreTy == {"i32", "i64", "f32", "f64"}

(* The smallest block of the allocator holds any single value.             *)
ASSUME AllocatorAssumption ==
  /\ {MaxFlat, MinUsable, HeapBase, Page} \subseteq Nat
  /\ MinUsable >= 2 /\ Page >= 1 /\ HeapBase >= 1
ASSUME WorldAssumption ==
  \A w \in Worlds : \A f \in {w.exp, w.imp} : f.params \in Seq(CoreTy) /\ f.results \in Seq(CoreTy)

VARIABLES
  pc,        \* the next step
  world,     \* the two functions
  shape,     \* the shape of the values of this call
  fn,        \* Runtime.fns
  mem,       \* the words written so far
  brk,       \* sbrk(0)
  blocks,    \* what cabi_realloc has returned: place and requested size
  lastSbrk,  \* LAST_SBRK
  view,      \* the length of AB
  access,    \* the end of the last access through AB
  argptr,    \* the pointer the export wrapper passes to call
  args,      \* the JavaScript arguments of the exported function
  retptr,    \* what call returns
  vp,        \* the JavaScript arguments of the imported function
  hostSaw,   \* the arguments the host's function was called with
  jsValue,   \* what the JavaScript function called last has returned
  jsSaw,     \* the results of the import, as the bindings read them
  returned   \* what the export wrapper returns

memory == <<mem, brk, blocks>>
buffer == <<lastSbrk, view, access>>
vars == <<pc, world, shape, fn, memory, buffer, argptr, args, retptr, vp, hostSaw, jsValue,
          jsSaw, returned>>

-----------------------------------------------------------------------------
(* Values and words.                                                       *)

Value(id, ty, s) == [id |-> id, ty |-> ty, shape |-> s]
Pointer(at) == Value(<<"pointer", at>>, "i32", "int32")
Garbage == Value(<<"garbage", 0>>, "i32", "int32")
PlaceOf(v) == v.id[2]

Words(ty) == IF ty \in {"i32", "f32"} THEN 1 ELSE 2
Offset(tys, n) ==
  LET offset[k \in 1..(Len(tys) + 1)] ==
        IF k = 1 THEN 0 ELSE offset[k - 1] + Words(tys[k - 1])
  IN  offset[n]

(* Mutant: every parameter takes one word. *)
ParameterCount(tys) == Len(tys)

ByteSize(tys) == Offset(tys, Len(tys) + 1)

(* Values are stored one behind the other.                                 *)
TypesOf(vs) == [n \in 1..Len(vs) |-> vs[n].ty]
WordsOf(at, vs, n) ==
  LET place == at + Offset(TypesOf(vs), n) IN place..(place + Words(vs[n].ty) - 1)
StoredAll(m, at, vs) ==
  LET new == UNION {WordsOf(at, vs, n) : n \in 1..Len(vs)}
      word(a) == LET n == CHOOSE k \in 1..Len(vs) : a \in WordsOf(at, vs, k)
                 IN  [v |-> vs[n], half |-> a - at - Offset(TypesOf(vs), n)]
  IN  [a \in DOMAIN m \cup new |-> IF a \in new THEN word(a) ELSE m[a]]
Stored(m, at, v) == StoredAll(m, at, <<v>>)

Loaded(m, at, ty) ==
  IF \E v \in {m[a].v : a \in {at} \cap DOMAIN m} :
       v.ty = ty /\ \A h \in 0..Words(ty) - 1 :
                      at + h \in DOMAIN m /\ m[at + h] = [v |-> v, half |-> h]
  THEN m[at].v ELSE Garbage
LoadedAll(m, at, tys) == [n \in 1..Len(tys) |-> Loaded(m, at + Offset(tys, n), tys[n])]

(* cabi_realloc of a new block: memory grows when it does not fit.         *)
UsableSize(size) == IF size > MinUsable THEN size ELSE MinUsable
Top(bs) == Max({HeapBase} \cup {b.at + UsableSize(b.size) : b \in bs})
GrownFor(end) == IF end <= brk THEN brk ELSE brk + Page * ((end - brk + Page - 1) \div Page)
Allocated(size) == [at |-> Top(blocks), size |-> size]
Allocate(size) ==
  /\ blocks' = blocks \cup {Allocated(size)}
  /\ brk' = GrownFor(Top(blocks'))

(* Numbers in JavaScript are tagged; one that is an int32 can have either  *)
(* tag when it has been computed.                                          *)
Js(v, tag) == [v |-> v, tag |-> tag]
Undefined == Js(Garbage, "undefined")
Tags(v) ==
  CASE v.ty = "i64" -> {"bigint"}
    [] v.ty = "i32" -> {IF v.shape = "int32" THEN "int" ELSE "double"}
    [] OTHER -> {"double"} \cup (IF v.shape = "int32" THEN {"int"} ELSE {})

(* An s64 below 0; BigIntFromUint64 makes of its bits a positive BigInt.   *)
Negative(v) == v.ty = "i64" /\ v.shape = "other"
FromUint64(v) == IF Negative(v) THEN [v EXCEPT !.shape = "unsigned"] ELSE v

-----------------------------------------------------------------------------
(* Signatures.  wasm_signature is wit-parser's.                            *)
Results(f) == Len(f.results) > 1
Indirect(f) == Len(f.params) > MaxFlat
Flat(f) == IF Indirect(f) THEN <<"i32">> ELSE f.params
ImportSignature(f) == IF Results(f) THEN Flat(f) \o <<"i32">> ELSE Flat(f)

CoreFn(f) ==
  [params |-> Flat(f), paramptr |-> Indirect(f), retptr |-> Results(f),
   ret |-> IF Results(f) THEN <<"i32">> ELSE f.results,
   retsize |-> IF Results(f) THEN ByteSize(f.results) ELSE 0]

(* EXPORT_ARGS and EXPORT_RET, as tokens.                                  *)
Joined(tys) ==
  [n \in 1..(IF tys = <<>> THEN 0 ELSE 2 * Len(tys) - 1) |->
     IF n % 2 = 1 THEN tys[(n + 1) \div 2] ELSE ","]
Env(core) ==
  [args |-> (IF core.paramptr THEN <<"*">> ELSE <<>>) \o Joined(core.params),
   ret |-> (IF core.retptr THEN <<"*">> ELSE <<>>) \o core.ret,
   retsize |-> core.retsize]

(* Mutant: the star that marks a pointer is skipped, not recorded. *)
NeverStarred(tokens) == FALSE

Starred(tokens) == tokens # <<>> /\ tokens[1] = "*"

Unstarred(tokens) == IF tokens # <<>> /\ tokens[1] = "*" THEN Tail(tokens) ELSE tokens

(* componentize.wizer parses them into a CoreFn: a type, and the comma that *)
(* may follow it, until the string ends.                                   *)
Types(tokens) == [n \in 1..((Len(tokens) + 1) \div 2) |-> tokens[2 * n - 1]]
Parsed(env) ==
  [params |-> Types(Unstarred(env.args)),
   paramptr |-> Starred(env.args), retptr |-> Starred(env.ret),
   ret |-> Unstarred(env.ret), retsize |-> env.retsize]

(* What the host passes, and what a function returns to it.                *)
ValuesOf(name, tys) == [n \in 1..Len(tys) |-> Value(<<name, n>>, tys[n], shape)]
Params == ValuesOf("param", world.exp.params)
ResultsOfExport == ValuesOf("result", world.exp.results)
ImportParams == ValuesOf("import param", world.imp.params)
ImportResults == ValuesOf("import result", world.imp.results)

Init ==
  /\ pc = "spill"
  /\ world \in Worlds
  /\ shape \in {"int32", "other"}
  /\ fn = Parsed(Env(CoreFn(world.exp)))
  /\ mem = [a \in {} |-> Garbage]
  /\ brk = HeapBase + 1
  /\ blocks = {}
  /\ lastSbrk = 0
  /\ view = 0
  /\ access = 0
  /\ argptr = 0
  /\ args = <<>>
  /\ retptr = 0
  /\ vp = <<>>
  /\ hostSaw = <<>>
  /\ jsValue = Undefined
  /\ jsSaw = <<>>
  /\ returned = Garbage

-----------------------------------------------------------------------------
(* The export wrapper, up to call.  Parameters that are passed in memory    *)
(* have been put there by the host, in a block of cabi_realloc.            *)

WithoutParameters ==
  /\ pc = "spill"
  /\ world.exp.params = <<>>
  /\ argptr' = 0
  /\ pc' = "call"
  /\ UNCHANGED <<world, shape, fn, memory, buffer, args, retptr, vp, hostSaw, jsValue, jsSaw,
                 returned>>

Spill ==
  /\ pc = "spill"
  /\ world.exp.params # <<>>
  /\ Allocate(IF Indirect(world.exp) THEN Offset(world.exp.params, Len(world.exp.params) + 1)
              ELSE ByteSize(Flat(world.exp)))
  /\ argptr' = Top(blocks)
  /\ mem' = StoredAll(mem, argptr', Params)
  /\ pc' = "call"
  /\ UNCHANGED <<world, shape, fn, buffer, args, retptr, vp, hostSaw, jsValue, jsSaw, returned>>

(* call, up to the JavaScript function.                                    *)
Boxed(v) ==
  Js(FromUint64(v),
     CASE v.ty = "i32" -> "int"
       [] v.ty = "i64" -> "bigint"
       [] OTHER -> IF v.shape = "int32" THEN "int" ELSE "double")

ReadArguments ==
  IF fn.paramptr THEN <<Js(Pointer(argptr), "int")>>
  ELSE [n \in 1..Len(fn.params) |-> Boxed(LoadedAll(mem, argptr, fn.params)[n])]

Call ==
  /\ pc = "call"
  /\ IF fn.retptr
     THEN /\ Allocate(fn.retsize)
          /\ retptr' = Top(blocks)
          /\ args' = Append(ReadArguments, Js(Pointer(retptr'), "int"))
     ELSE /\ args' = ReadArguments
          /\ UNCHANGED <<brk, blocks, retptr>>
  /\ pc' = "javascript"
  /\ UNCHANGED <<world, shape, fn, mem, buffer, argptr, vp, hostSaw, jsValue, jsSaw, returned>>

-----------------------------------------------------------------------------
(* The generated bindings, as they follow the signature.  Every access asks *)
(* for memory.buffer: GetMemBuffer makes a new one if memory has grown,    *)
(* and making it may grow memory itself.                                   *)

(* Mutant: the size is looked up again once the buffer has been made. *)
SbrkAfterwards(sbrk, grown) == sbrk + grown

RecordedSbrk(sbrk, grown) == sbrk

GetMemBuffer(sbrk, grown) ==
  /\ sbrk + grown <= MaxBrk
  /\ IF sbrk # lastSbrk
     THEN lastSbrk' = RecordedSbrk(sbrk, grown) /\ view' = sbrk /\ brk' = sbrk + grown
     ELSE grown = 0 /\ UNCHANGED <<lastSbrk, view>> /\ brk' = sbrk

Grows == {0, Page}
AccessTo(at, tys) == access' = at + Offset(tys, Len(tys) + 1)

(* Values the user's code computes take memory too.                        *)
EngineGrows ==
  /\ pc \in {"javascript", "imported"}
  /\ brk + Page <= MaxBrk
  /\ brk' = brk + Page
  /\ UNCHANGED <<pc, world, shape, fn, mem, blocks, buffer, argptr, args, retptr, vp, hostSaw,
                 jsValue, jsSaw, returned>>

ArgumentAt(n) == IF n \in DOMAIN args THEN args[n].v ELSE Garbage

(* The parameters the user's function gets.                                *)
SeenParams ==
  IF Indirect(world.exp) THEN LoadedAll(mem, PlaceOf(ArgumentAt(1)), world.exp.params)
  ELSE [n \in 1..Len(world.exp.params) |-> ArgumentAt(n)]

LiftParams ==
  /\ pc = "javascript"
  /\ IF Indirect(world.exp)
     THEN /\ \E grown \in Grows : GetMemBuffer(brk, grown)
          /\ AccessTo(PlaceOf(ArgumentAt(1)), world.exp.params)
     ELSE UNCHANGED <<buffer, brk>>
  /\ pc' = "lifted"
  /\ UNCHANGED <<world, shape, fn, mem, blocks, argptr, args, retptr, vp, hostSaw, jsValue, jsSaw,
                 returned>>

(* The call of the import, with its parameters as JavaScript values or, too *)
(* many, behind a pointer.                                                 *)
Boxings(vs) == {t \in [1..Len(vs) -> {"int", "double", "bigint"}] :
                  \A n \in 1..Len(vs) : t[n] \in Tags(vs[n])}

CallImport ==
  /\ pc = "lifted"
  /\ IF Indirect(world.imp)
     THEN /\ blocks' = blocks \cup {Allocated(Offset(world.imp.params, Len(world.imp.params) + 1))}
          /\ vp' = <<Js(Pointer(Top(blocks)), "int")>>
          /\ \E grown \in Grows : GetMemBuffer(GrownFor(Top(blocks')), grown)
          /\ AccessTo(Top(blocks), world.imp.params)
          /\ mem' = StoredAll(mem, Top(blocks), ImportParams)
     ELSE /\ \E tags \in Boxings(ImportParams) :
               vp' = [n \in 1..Len(ImportParams) |-> Js(ImportParams[n], tags[n])]
          /\ UNCHANGED <<memory, buffer>>
  /\ pc' = "import"
  /\ UNCHANGED <<world, shape, fn, argptr, args, retptr, hostSaw, jsValue, jsSaw, returned>>

-----------------------------------------------------------------------------
(* The import wrapper: the values of vp are unboxed by the type of the      *)
(* parameter; a pointer for the results is added and is what JavaScript    *)
(* gets.  The host may allocate before it stores the results.              *)

(* Mutant: numbers are taken for doubles. *)
AlwaysDouble(ty, js) ==
  CASE ty = "i32" -> IF js.tag = "int" THEN js.v ELSE Garbage
    [] ty = "i64" -> js.v
    [] OTHER -> IF js.tag = "double" THEN js.v ELSE Garbage

FromVp(ty, js) ==
  CASE ty = "i32" -> IF js.tag = "int" THEN js.v ELSE Garbage
    [] OTHER -> js.v

UnboxedArgs ==
  LET sig == ImportSignature(world.imp)
      count == IF Results(world.imp) THEN Len(sig) - 1 ELSE Len(sig)
  IN  [n \in 1..count |-> FromVp(sig[n], vp[n])]

HostReads(vs, f) == IF Indirect(f) THEN LoadedAll(mem, PlaceOf(vs[1]), f.params) ELSE vs

AreaToJs(area) == Js(Pointer(area.at), "int")

(* A number of a float type is stored as a double, an int32 or not.        *)
ToVp(v) ==
  Js(FromUint64(v),
     CASE v.ty = "i32" -> "int" [] v.ty = "i64" -> "bigint" [] OTHER -> "double")

(* coreabi_from_bigint64 aborts for a BigInt that is not a uint64.         *)
ParamRefused == \E n \in DOMAIN UnboxedArgs : Negative(UnboxedArgs[n])

ImportAborts ==
  /\ pc = "import"
  /\ ParamRefused
  /\ pc' = "import aborted"
  /\ UNCHANGED <<world, shape, fn, memory, buffer, argptr, args, retptr, vp, hostSaw, jsValue,
                 jsSaw, returned>>

ImportWrapper ==
  /\ pc = "import"
  /\ ~ParamRefused
  /\ hostSaw' = HostReads(UnboxedArgs, world.imp)
  /\ IF Results(world.imp)
     THEN LET area == Allocated(CoreFn(world.imp).retsize)
              withArea == blocks \cup {area}
          IN  /\ jsValue' = AreaToJs(area)
              /\ \E list \in {{}, {[at |-> Top(withArea), size |-> Page]}} :
                   blocks' = withArea \cup list
              /\ brk' = GrownFor(Top(blocks'))
              /\ brk' <= MaxBrk
              /\ mem' = StoredAll(mem, area.at, ImportResults)
     ELSE /\ jsValue' = IF ImportResults = <<>> THEN Undefined ELSE ToVp(ImportResults[1])
          /\ UNCHANGED memory
  /\ pc' = "imported"
  /\ UNCHANGED <<world, shape, fn, buffer, argptr, args, retptr, vp, jsSaw, returned>>

LiftResults ==
  /\ pc = "imported"
  /\ IF Results(world.imp)
     THEN /\ \E grown \in Grows : GetMemBuffer(brk, grown)
          /\ AccessTo(PlaceOf(jsValue.v), world.imp.results)
          /\ jsSaw' = LoadedAll(mem, PlaceOf(jsValue.v), world.imp.results)
     ELSE /\ jsSaw' = IF world.imp.results = <<>> THEN <<>> ELSE <<jsValue.v>>
          /\ UNCHANGED <<buffer, brk>>
  /\ pc' = "results"
  /\ UNCHANGED <<world, shape, fn, mem, blocks, argptr, args, retptr, vp, hostSaw, jsValue,
                 returned>>

-----------------------------------------------------------------------------
(* The exported function's results: stored behind its last parameter, or    *)
(* returned.                                                               *)
LowerResults ==
  LET at == PlaceOf(ArgumentAt(Len(ImportSignature(world.exp)))) IN
  /\ pc = "results"
  /\ IF Results(world.exp)
     THEN /\ \E grown \in Grows : GetMemBuffer(brk, grown)
          /\ AccessTo(at, world.exp.results)
          /\ mem' = StoredAll(mem, at, ResultsOfExport)
          /\ jsValue' = Undefined
     ELSE /\ \E tags \in Boxings(ResultsOfExport) :
               jsValue' = IF ResultsOfExport = <<>> THEN Undefined
                          ELSE Js(ResultsOfExport[1], tags[1])
          /\ UNCHANGED <<buffer, brk, mem>>
  /\ pc' = "fulfilled"
  /\ UNCHANGED <<world, shape, fn, blocks, argptr, args, retptr, vp, hostSaw, jsSaw, returned>>

(* call, from the promise's result.                                        *)
FromResult(ty, js) ==
  CASE ty = "i32" -> IF js.tag = "int" THEN js.v ELSE Garbage
    [] OTHER -> js.v

(* So does call for a BigInt that is not.                                  *)
ResultRefused == ~fn.retptr /\ fn.ret # <<>> /\ Negative(FromResult(fn.ret[1], jsValue))

ReturnAborts ==
  /\ pc = "fulfilled"
  /\ ResultRefused
  /\ Allocate(fn.retsize)
  /\ pc' = "return aborted"
  /\ UNCHANGED <<world, shape, fn, mem, buffer, argptr, args, retptr, vp, hostSaw, jsValue,
                 jsSaw, returned>>

Return ==
  /\ pc = "fulfilled"
  /\ ~ResultRefused
  /\ IF ~fn.retptr /\ fn.ret # <<>>
     THEN /\ Allocate(fn.retsize)
          /\ retptr' = Top(blocks)
          /\ mem' = Stored(mem, retptr', FromResult(fn.ret[1], jsValue))
     ELSE UNCHANGED <<memory, retptr>>
  /\ pc' = "return"
  /\ UNCHANGED <<world, shape, fn, buffer, argptr, args, vp, hostSaw, jsValue, jsSaw, returned>>

(* The export wrapper, from call.                                          *)
WrapperReturns ==
  LET core == CoreFn(world.exp) IN
  /\ pc = "return"
  /\ returned' = IF core.ret = <<>> THEN Garbage
                 ELSE IF core.retptr THEN Pointer(retptr)
                 ELSE Loaded(mem, retptr, core.ret[1])
  /\ pc' = "done"
  /\ UNCHANGED <<world, shape, fn, memory, buffer, argptr, args, retptr, vp, hostSaw, jsValue,
                 jsSaw>>

Done == pc \in {"done", "import aborted", "return aborted"} /\ UNCHANGED vars

Next ==
  \/ WithoutParameters \/ Spill \/ Call
  \/ EngineGrows \/ LiftParams \/ CallImport \/ ImportWrapper \/ ImportAborts \/ LiftResults
  \/ LowerResults \/ Return \/ ReturnAborts \/ WrapperReturns \/ Done

Spec == Init /\ [][Next]_vars
-----------------------------------------------------------------------------
(* All values arrive as they were sent, but for those of a type that are    *)
(* not int32 numbers.                                                      *)
AllBut(ty, seen, sent) ==
  /\ Len(seen) = Len(sent)
  /\ \A n \in DOMAIN sent : sent[n].ty # ty \/ sent[n].shape = "int32" => seen[n] = sent[n]

(* Arguments arrive as they were passed, at the user's function, as many as *)
(* the generated function declares and whether they were spilled by the    *)
(* wrapper and read back by call or come behind a pointer, and at the      *)
(* host's function, whatever representation the engine chose for a number. *)
(* On the stack, an s64 below 0 comes to the user as a positive BigInt and *)
(* for the host is a reason to abort, the only one; and a number of type   *)
(* i32 must be an int32 to come to the host.                               *)
ArgumentsArrive ==
  /\ pc = "javascript" =>
       /\ IF Indirect(world.exp) THEN SeenParams = Params ELSE AllBut("i64", SeenParams, Params)
       /\ Len(args) = Len(ImportSignature(world.exp))
  /\ pc = "imported" =>
       IF Indirect(world.imp) THEN hostSaw = ImportParams
       ELSE AllBut("i32", hostSaw, ImportParams)
  /\ pc = "import aborted" =>
       ~Indirect(world.imp) /\ \E n \in DOMAIN ImportParams : Negative(ImportParams[n])

(* Results arrive as they were returned: the user's at the host, directly   *)
(* or behind the pointer the wrapper returns, and the host's at the        *)
(* bindings, also when the host allocated memory in between; with the same *)
(* exceptions as arguments, for a function with a single result.           *)
ResultsArrive ==
  /\ pc = "done" /\ world.exp.results # <<>> =>
       IF Results(world.exp)
       THEN LoadedAll(mem, PlaceOf(returned), world.exp.results) = ResultsOfExport
       ELSE AllBut("i32", <<returned>>, ResultsOfExport)
  /\ pc = "results" =>
       IF Results(world.imp) THEN jsSaw = ImportResults ELSE AllBut("i64", jsSaw, ImportResults)
  /\ pc = "return aborted" =>
       ~Results(world.exp) /\ \E n \in DOMAIN ResultsOfExport : Negative(ResultsOfExport[n])

(* No word is written outside a block of the allocator: areas for spilled   *)
(* parameters and results are as large as what is stored in them, and the  *)
(* single result of a function, for which 0 bytes are asked for, fits into *)
(* the smallest block there is.                                            *)
WritesInside ==
  \A a \in DOMAIN mem : \E b \in blocks : a \in b.at..b.at + UsableSize(b.size) - 1

(* The bindings never access memory beyond the end of the buffer they have  *)
(* been given, though memory grows in between and while it is made.        *)
AccessInView == access <= view
=============================================================================

---------------------------- MODULE CallProtocol ----------------------------
(***************************************************************************)
(* The run-time call protocol of a component: the export and post-export   *)
(* wrappers the splicer synthesises (splice.rs), the embedding's call and  *)
(* post_call with their free list and event-loop interest (embedding.cpp), *)
(* the promise reactions that end a call, and StarlingMonkey's event loop  *)
(* as call drives it (external).                                           *)
(*                                                                         *)
(* Everything runs on one thread, so an action is what happens between two *)
(* points where JavaScript, the event loop or the host decides what is     *)
(* next.  Memory is a finite set of blocks; who asked for a block is its   *)
(* owner.  JavaScript is any program that takes at most StepsPerCall       *)
(* observable steps per call (the bound that keeps the model finite).      *)
(*                                                                         *)
(* An abort stops the wasm stack and undoes nothing.  post_call compares   *)
(* indices only, so a careless host can run it for the call that aborted   *)
(* and enter the instance again, with the promise, the reaction, the jobs  *)
(* and the tasks of that call still there: each of them carries its call.  *)
(***************************************************************************)
EXTENDS Integers, SequencesExt

CONSTANTS
  Fn,            \* indices of the exported core functions (Runtime.fns)
  FlatParams,    \* those with parameters passed by value, which the wrapper spills
  RetArea,       \* those with CoreFn.retptr set
  Singular,      \* those with a single core return value and no retptr
  Wide,          \* those of them whose value is an i64
  Block,         \* addresses of the linear memory's heap, one block each
  MaxTasks,      \* bound on the tasks queued in the event loop
  StepsPerCall,  \* bound on the observable steps of JavaScript in one call
  MaxRevivals,   \* bound on the aborted calls for which the host runs post_call
  CarefulHost    \* TRUE: the host follows the canonical ABI, as wasmtime does

None == -1       \* cur_fn_idx outside a call
NullPtr == "null"

ASSUME SignatureAssumption ==
  /\ Fn \subseteq Nat
  /\ FlatParams \subseteq Fn
  /\ RetArea \subseteq Fn
  /\ Singular \subseteq Fn \ RetArea
  /\ Wide \subseteq Singular

ASSUME BoundAssumption ==
  /\ MaxTasks \in Nat
  /\ StepsPerCall \in Nat
  /\ MaxRevivals \in Nat
  /\ CarefulHost \in BOOLEAN
  /\ NullPtr \notin Block

VARIABLES
  pc,           \* who has control: "host", "own", "background", "attach", "loop"
  cur_fn_idx,   \* Runtime.cur_fn_idx
  first_call,   \* Runtime.first_call
  free_list,    \* Runtime.free_list
  retptr,       \* the local of call that it returns
  fn_idx,       \* the parameter of the last call that call accepted
  heap,         \* owner of each block: "free", "arg", "ret" or "data"
  self,         \* the call whose function runs while pc = "own"
  interest,     \* the engine's event-loop interest counter
  promise,      \* per call: state of the promise the exported function returned
  reaction,     \* its then/catch reaction: "none", "registered", "queued", "run"
  jobs,         \* the engine's microtask queue
  tasks,        \* the engine's task queue, oldest first
  steps,        \* observable steps the JavaScript of this call may still take
  returned,     \* the host holds results it has not released with post_call
  trap,         \* why the instance last aborted since the last call it accepted
  revived       \* aborted calls for which the host ran post_call all the same

runtime == <<cur_fn_idx, first_call, free_list, retptr, fn_idx>>
loopState == <<self, interest, promise, reaction, jobs, tasks>>
hostState == <<returned, trap, revived>>
vars == <<pc, runtime, heap, loopState, steps, hostState>>

Owner == {"free", "arg", "ret", "data"}
Continuation == {"own", "background"}
Trap == {"none", "oom", "guard", "post_guard", "js", "bigint", "starved", "task", "rejected"}

(* A call is known by the number of aborted calls released before it: the   *)
(* calls that returned since then have left nothing behind.                 *)
Calls == 0..MaxRevivals

(* What a job or a task does: it goes on with the exported function of a    *)
(* call, runs the reaction of a call's promise, or runs other code.         *)
Task == [kind : Continuation, call : Calls]
Job == [kind : Continuation \cup {"react"}, call : Calls]
Own(c) == [kind |-> "own", call |-> c]
React(c) == [kind |-> "react", call |-> c]
Background == [kind |-> "background", call |-> 0]

-----------------------------------------------------------------------------
(* Memory.  JS_realloc moves a block or allocates one; only a block nobody  *)
(* holds can be handed out.  cabi_realloc does not record what it returns.  *)

FreeBlocks(h) == {b \in Block : h[b] = "free"}

Allocate(h, b, owner) == [h EXCEPT ![b] = owner]

(* Every heap that results from spilling the parameters of f for call.      *)
SpillParams(f) ==
  IF f \in FlatParams
  THEN {Allocate(heap, b, "arg") : b \in FreeBlocks(heap)}
  ELSE {heap}

(* Mutant: the return area is not recorded, as before #295. *)
TrackNothing(list, b) == list

(* Runtime.free_list.push_back. *)
Track(list, b) == Append(list, b)

(* The abort stops the wasm stack where it stands: no variable is undone.   *)
Die(reason) ==
  /\ pc' = "host"
  /\ trap' = reason

-----------------------------------------------------------------------------
(* The host's side of a call.                                               *)

Init ==
  /\ pc = "host"
  /\ cur_fn_idx = None
  /\ first_call = TRUE
  /\ free_list = <<>>
  /\ retptr = NullPtr
  /\ fn_idx = None
  /\ heap = [b \in Block |-> "free"]
  /\ self = 0
  /\ interest = 0
  /\ promise = [c \in Calls |-> "none"]
  /\ reaction = [c \in Calls |-> "none"]
  /\ jobs = <<>>
  /\ tasks = <<>>
  /\ steps = 0
  /\ returned = FALSE
  /\ trap = "none"
  /\ revived = 0

(* A careful host never enters an instance that aborted, nor one whose      *)
(* results it has not released.  A careless one retries whenever it likes.  *)
HostMayEnter ==
  /\ pc = "host"
  /\ CarefulHost => trap = "none" /\ ~returned

(* Mutant: call does not look at cur_fn_idx. *)
Unguarded == TRUE

(* The guard of call. *)
NoCallInProgress == cur_fn_idx = None

(* The host lowers an argument into the component's memory.                 *)
LowerArgument ==
  /\ HostMayEnter
  /\ \/ \E b \in FreeBlocks(heap) :
          /\ heap' = Allocate(heap, b, "data")
          /\ UNCHANGED <<pc, trap>>
     \/ /\ FreeBlocks(heap) = {}
        /\ Die("oom")
        /\ UNCHANGED heap
  /\ UNCHANGED <<runtime, loopState, steps, returned, revived>>

(* The export wrapper of f and call up to JS_CallFunctionValue.             *)
Enter(f) ==
  /\ HostMayEnter
  /\ NoCallInProgress
  /\ \E h \in SpillParams(f) :
       IF f \in RetArea
       THEN \E b \in FreeBlocks(h) :
              /\ heap' = Allocate(h, b, "ret")
              /\ free_list' = Track(free_list, b)
              /\ retptr' = b
       ELSE /\ heap' = h
            /\ retptr' = NullPtr
            /\ UNCHANGED free_list
  /\ cur_fn_idx' = f
  /\ fn_idx' = f
  /\ first_call' = FALSE
  /\ interest' = interest + 1
  /\ promise' = [promise EXCEPT ![revived] = "pending"]
  /\ reaction' = [reaction EXCEPT ![revived] = "none"]
  /\ pc' = "own"
  /\ self' = revived
  /\ steps' = StepsPerCall
  /\ trap' = "none"
  /\ UNCHANGED <<jobs, tasks, returned, revived>>

(* The wrapper cannot spill the parameters: call is not reached.            *)
WrapperOutOfMemory(f) ==
  /\ HostMayEnter
  /\ SpillParams(f) = {}
  /\ Die("oom")
  /\ UNCHANGED <<runtime, heap, loopState, steps, returned, revived>>

(* call cannot allocate the return area: the call is already recorded.      *)
EnterOutOfMemory(f) ==
  /\ HostMayEnter
  /\ NoCallInProgress
  /\ f \in RetArea
  /\ \E h \in SpillParams(f) : FreeBlocks(h) = {} /\ heap' = h
  /\ cur_fn_idx' = f
  /\ fn_idx' = f
  /\ first_call' = FALSE
  /\ Die("oom")
  /\ UNCHANGED <<free_list, retptr, loopState, steps, returned, revived>>

(* Mutant: cur_fn_idx is assigned before the guard looks at it. *)
EnterRefusedLate(f) ==
  /\ HostMayEnter
  /\ ~NoCallInProgress
  /\ heap' \in SpillParams(f)
  /\ first_call' = FALSE
  /\ cur_fn_idx' = f
  /\ Die("guard")
  /\ UNCHANGED <<free_list, retptr, fn_idx, loopState, steps, returned, revived>>

(* The guard of call: the parameters are spilled before it refuses.         *)
EnterRefused(f) ==
  /\ HostMayEnter
  /\ ~NoCallInProgress
  /\ heap' \in SpillParams(f)
  /\ first_call' = FALSE
  /\ Die("guard")
  /\ UNCHANGED <<cur_fn_idx, free_list, retptr, fn_idx, loopState, steps, returned, revived>>

(* Mutant: post_call does not reset cur_fn_idx. *)
KeepIndex == cur_fn_idx

(* What cur_fn_idx holds after post_call. *)
ResetIndex == None

FreeAll(h, list) == [b \in Block |-> IF b \in ToSet(list) THEN "free" ELSE h[b]]

(* A careful host runs cabi_post_f only for the call whose results it has   *)
(* read; a careless one runs the post wrapper of any function.              *)
HostMayPost(f) ==
  /\ pc = "host"
  /\ CarefulHost => returned /\ f = fn_idx

(* post_call for the index that call recorded.  It does not ask whether     *)
(* that call returned or aborted.                                           *)
PostCall(f) ==
  /\ HostMayPost(f)
  /\ f = cur_fn_idx
  /\ cur_fn_idx' = ResetIndex
  /\ heap' = FreeAll(heap, free_list)
  /\ free_list' = <<>>
  /\ returned' = FALSE
  /\ trap' = "none"
  /\ IF returned
     THEN UNCHANGED revived
     ELSE revived < MaxRevivals /\ revived' = revived + 1
  /\ UNCHANGED <<pc, first_call, retptr, fn_idx, loopState, steps>>

(* post_call for a function that is not the current one aborts.             *)
PostCallRefused(f) ==
  /\ HostMayPost(f)
  /\ f # cur_fn_idx
  /\ Die("post_guard")
  /\ UNCHANGED <<runtime, heap, loopState, steps, returned, revived>>

(* After an abort a careful host leaves the instance alone for good.        *)
Discarded ==
  /\ CarefulHost
  /\ pc = "host"
  /\ trap # "none"
  /\ UNCHANGED vars

-----------------------------------------------------------------------------
(* JavaScript: the exported function's own code ("own"), up to an await or  *)
(* its end, or any other code of the module ("background").                 *)

JSStep ==
  /\ pc \in Continuation
  /\ steps > 0
  /\ steps' = steps - 1

(* Mutant: every $realloc is recorded for post_call, as before #319. *)
JSAllocateTracked ==
  /\ JSStep
  /\ \E b \in FreeBlocks(heap) :
       /\ free_list' = Append(free_list, b)
       /\ \/ heap' = Allocate(heap, b, "data")
          \/ \E old \in Block :
               /\ heap[old] = "data"
               /\ heap' = Allocate(Allocate(heap, old, "free"), b, "data")
  /\ UNCHANGED <<pc, cur_fn_idx, first_call, retptr, fn_idx, loopState, hostState>>

(* $realloc from the bindings, or an import wrapper that allocates a return *)
(* area: a fresh block, or a block of lowered data that grows and may move. *)
JSAllocate ==
  /\ JSStep
  /\ \E b \in FreeBlocks(heap) :
       \/ heap' = Allocate(heap, b, "data")
       \/ \E old \in Block :
            /\ heap[old] = "data"
            /\ heap' = Allocate(Allocate(heap, old, "free"), b, "data")
  /\ UNCHANGED <<pc, runtime, loopState, hostState>>

JSOutOfMemory ==
  /\ JSStep
  /\ FreeBlocks(heap) = {}
  /\ Die("oom")
  /\ UNCHANGED <<runtime, heap, loopState, returned, revived>>

(* An import gets an i64 argument that is a BigInt outside uint64: its      *)
(* wrapper aborts in from_bigint64.                                         *)
ImportAborts ==
  /\ JSStep
  /\ Die("bigint")
  /\ UNCHANGED <<runtime, heap, loopState, returned, revived>>

(* An import whose host implementation calls back into the component: the   *)
(* inner call aborts, and the host passes the abort on or swallows it.      *)
ReenterRefused(f) ==
  /\ ~CarefulHost
  /\ JSStep
  /\ heap' \in SpillParams(f)
  /\ trap' = "guard"
  /\ pc' \in {pc, "host"}
  /\ first_call' = FALSE
  /\ UNCHANGED <<cur_fn_idx, free_list, retptr, fn_idx, loopState, returned, revived>>

(* A promise chain, a timer or a pending read that nobody awaits.           *)
SpawnJob ==
  /\ JSStep
  /\ jobs' = Append(jobs, Background)
  /\ UNCHANGED <<pc, runtime, heap, self, interest, promise, reaction, tasks, hostState>>

SpawnTask ==
  /\ JSStep
  /\ Len(tasks) < MaxTasks
  /\ tasks' = Append(tasks, Background)
  /\ UNCHANGED <<pc, runtime, heap, self, interest, promise, reaction, jobs, hostState>>

(* Where control goes when the code that runs has ended or awaits: back to  *)
(* call while the function's first stretch runs, else to the event loop.    *)
Yielded == IF reaction[self] = "none" THEN "attach" ELSE "loop"

(* The exported function awaits: something already settled, a task, or a    *)
(* promise that nothing will ever settle.                                   *)
AwaitJob ==
  /\ pc = "own"
  /\ JSStep
  /\ jobs' = Append(jobs, Own(self))
  /\ pc' = Yielded
  /\ UNCHANGED <<runtime, heap, self, interest, promise, reaction, tasks, hostState>>

AwaitTask ==
  /\ pc = "own"
  /\ JSStep
  /\ Len(tasks) < MaxTasks
  /\ tasks' = Append(tasks, Own(self))
  /\ pc' = Yielded
  /\ UNCHANGED <<runtime, heap, self, interest, promise, reaction, jobs, hostState>>

AwaitForever ==
  /\ pc = "own"
  /\ pc' = Yielded
  /\ UNCHANGED <<runtime, heap, loopState, steps, hostState>>

(* The exported function completes or throws.  Its promise settles, and a   *)
(* reaction that is registered becomes a job.                               *)
Settle(outcome) ==
  /\ pc = "own"
  /\ promise[self] = "pending"
  /\ promise' = [promise EXCEPT ![self] = outcome]
  /\ IF reaction[self] = "registered"
     THEN /\ reaction' = [reaction EXCEPT ![self] = "queued"]
          /\ jobs' = Append(jobs, React(self))
     ELSE UNCHANGED <<reaction, jobs>>
  /\ pc' = Yielded
  /\ UNCHANGED <<runtime, heap, self, interest, tasks, steps, hostState>>

(* JS_CallFunctionValue fails (uncatchable error in the first stretch).     *)
CallFails ==
  /\ pc = "own"
  /\ reaction[self] = "none"
  /\ Die("js")
  /\ UNCHANGED <<runtime, heap, loopState, steps, returned, revived>>

BackgroundEnds ==
  /\ pc = "background"
  /\ pc' = "loop"
  /\ UNCHANGED <<runtime, heap, loopState, steps, hostState>>

(* AddPromiseReactions: on a settled promise the reaction is a job at once. *)
AttachReactions ==
  /\ pc = "attach"
  /\ pc' = "loop"
  /\ IF promise[revived] = "pending"
     THEN /\ reaction' = [reaction EXCEPT ![revived] = "registered"]
          /\ UNCHANGED jobs
     ELSE /\ reaction' = [reaction EXCEPT ![revived] = "queued"]
          /\ jobs' = Append(jobs, React(revived))
  /\ UNCHANGED <<runtime, heap, self, interest, promise, tasks, steps, hostState>>

-----------------------------------------------------------------------------
(* The event loop that call runs: drain the microtasks, stop if nobody is   *)
(* interested, else run one task that is ready.                             *)

RunJob ==
  /\ pc = "loop"
  /\ jobs # <<>>
  /\ Head(jobs).kind \in Continuation
  /\ jobs' = Tail(jobs)
  /\ pc' = Head(jobs).kind
  /\ self' = Head(jobs).call
  /\ UNCHANGED <<runtime, heap, interest, promise, reaction, tasks, steps, hostState>>

(* Mutants: one of the two handlers gives nothing back, or gives it twice. *)
ThenKeepsInterest == IF promise[Head(jobs).call] = "fulfilled" THEN interest ELSE interest - 1
CatchKeepsInterest == IF promise[Head(jobs).call] = "rejected" THEN interest ELSE interest - 1
InterestGivenBackTwice == interest - 2

(* decr_event_loop_interest, in call_then_handler and call_catch_handler. *)
InterestGivenBack == interest - 1

(* The reaction of a call's promise: one of the two handlers, whichever     *)
(* call the promise belongs to.                                             *)
RunReaction ==
  /\ pc = "loop"
  /\ jobs # <<>>
  /\ Head(jobs).kind = "react"
  /\ jobs' = Tail(jobs)
  /\ reaction' = [reaction EXCEPT ![Head(jobs).call] = "run"]
  /\ interest' = InterestGivenBack
  /\ UNCHANGED <<pc, runtime, heap, self, promise, tasks, steps, hostState>>

Waiting == pc = "loop" /\ jobs = <<>> /\ interest > 0

(* A task that is ready runs: it resumes the function that awaits it, or    *)
(* calls back into the module.                                              *)
RunTask ==
  /\ Waiting
  /\ \E i \in DOMAIN tasks :
       /\ tasks' = RemoveAt(tasks, i)
       /\ IF tasks[i].kind = "own"
          THEN jobs' = Append(jobs, tasks[i]) /\ UNCHANGED pc
          ELSE pc' = "background" /\ UNCHANGED jobs
  /\ UNCHANGED <<runtime, heap, self, interest, promise, reaction, steps, hostState>>

(* A task that fails ends the loop with an error, whichever call made it.   *)
TaskFails ==
  /\ Waiting
  /\ \E i \in DOMAIN tasks : tasks' = RemoveAt(tasks, i)
  /\ Die("task")
  /\ UNCHANGED <<runtime, heap, self, interest, promise, reaction, jobs, steps, returned, revived>>

(* Mutant: the loop keeps polling when no task is left. *)
StarvePolls ==
  /\ Waiting
  /\ tasks = <<>>
  /\ UNCHANGED <<pc, trap>>
  /\ UNCHANGED <<runtime, heap, loopState, steps, returned, revived>>

(* Interest without any task left: the loop reports an error, call aborts.  *)
Starve ==
  /\ Waiting
  /\ tasks = <<>>
  /\ Die("starved")
  /\ UNCHANGED <<runtime, heap, loopState, steps, returned, revived>>

(* Mutant: the loop stops before the microtasks are drained. *)
LoopDoneEarly == pc = "loop" /\ interest = 0

LoopDone == pc = "loop" /\ jobs = <<>> /\ interest = 0

(* A single core value goes to a block of its own, which the free list      *)
(* keeps for post_call.                                                     *)
StoreSingle ==
  \E b \in FreeBlocks(heap) :
    /\ heap' = Allocate(heap, b, "ret")
    /\ free_list' = Track(free_list, b)
    /\ retptr' = b

(* call hands the results over.                                             *)
Return ==
  /\ LoopDone
  /\ promise[revived] = "fulfilled"
  /\ IF fn_idx \in Singular
     THEN StoreSingle
     ELSE UNCHANGED <<heap, free_list, retptr>>
  /\ returned' = TRUE
  /\ pc' = "host"
  /\ UNCHANGED <<cur_fn_idx, first_call, fn_idx, loopState, steps, trap, revived>>

(* A single i64 that is a BigInt outside uint64: the area is allocated and  *)
(* recorded when call aborts.                                               *)
ReturnAborts ==
  /\ LoopDone
  /\ promise[revived] = "fulfilled"
  /\ fn_idx \in Wide
  /\ StoreSingle
  /\ Die("bigint")
  /\ UNCHANGED <<cur_fn_idx, first_call, fn_idx, loopState, steps, returned, revived>>

ReturnOutOfMemory ==
  /\ LoopDone
  /\ promise[revived] = "fulfilled"
  /\ fn_idx \in Singular
  /\ FreeBlocks(heap) = {}
  /\ Die("oom")
  /\ UNCHANGED <<runtime, heap, loopState, steps, returned, revived>>

(* A promise that is rejected (or still pending) aborts the call.           *)
NotFulfilled ==
  /\ LoopDone
  /\ promise[revived] # "fulfilled"
  /\ Die("rejected")
  /\ UNCHANGED <<runtime, heap, loopState, steps, returned, revived>>

-----------------------------------------------------------------------------
Host ==
  \/ LowerArgument
  \/ \E f \in Fn : \/ Enter(f)
                   \/ WrapperOutOfMemory(f)
                   \/ EnterOutOfMemory(f)
                   \/ EnterRefused(f)
                   \/ PostCall(f)
                   \/ PostCallRefused(f)
  \/ Discarded

JavaScript ==
  \/ JSAllocate \/ JSOutOfMemory \/ ImportAborts
  \/ \E f \in Fn : ReenterRefused(f)
  \/ SpawnJob \/ SpawnTask
  \/ AwaitJob \/ AwaitTask \/ AwaitForever
  \/ \E outcome \in {"fulfilled", "rejected"} : Settle(outcome)
  \/ CallFails
  \/ BackgroundEnds

EventLoop ==
  \/ AttachReactions
  \/ RunJob \/ RunReaction \/ RunTask
  \/ TaskFails \/ Starve
  \/ Return \/ ReturnAborts \/ ReturnOutOfMemory \/ NotFulfilled

Next == Host \/ JavaScript \/ EventLoop

Spec == Init /\ [][Next]_vars

(* The instance's single thread runs whenever it has control.               *)
FairSpec == Spec /\ WF_vars(JavaScript \/ EventLoop)

-----------------------------------------------------------------------------
(* Properties.                                                              *)

(* The type of every variable. *)
TypeOK ==
  /\ pc \in Continuation \cup {"host", "attach", "loop"}
  /\ cur_fn_idx \in Fn \cup {None}
  /\ first_call \in BOOLEAN
  /\ free_list \in Seq(Block)
  /\ retptr \in Block \cup {NullPtr}
  /\ fn_idx \in Fn \cup {None}
  /\ heap \in [Block -> Owner]
  /\ self \in Calls
  /\ interest \in Nat
  /\ promise \in [Calls -> {"none", "pending", "fulfilled", "rejected"}]
  /\ reaction \in [Calls -> {"none", "registered", "queued", "run"}]
  /\ jobs \in Seq(Job)
  /\ tasks \in Seq(Task)
  /\ steps \in 0..StepsPerCall
  /\ returned \in BOOLEAN
  /\ trap \in Trap
  /\ revived \in Calls

(* A call that aborted half-way: the host has control, and cur_fn_idx still *)
(* names a call that will never return.                                     *)
Dead == pc = "host" /\ cur_fn_idx # None /\ ~returned

(* The free list holds exactly the return areas that are allocated, each    *)
(* once: post_call frees no block twice, frees no block that has moved or   *)
(* been handed out again, and misses no return area.                        *)
FreeListSound ==
  /\ ToSet(free_list) = {b \in Block : heap[b] = "ret"}
  /\ Len(free_list) <= 1

(* While the host reads results, cur_fn_idx names the call that made them,  *)
(* so its post-return is accepted, and the area call returned is allocated  *)
(* as a return area whatever the host tried in the meantime.                *)
ResultsReadable ==
  returned =>
    /\ pc = "host"
    /\ cur_fn_idx = fn_idx /\ fn_idx \in Fn
    /\ fn_idx \in RetArea \cup Singular =>
         retptr \in Block /\ heap[retptr] = "ret"

(* The calls whose reaction has still to run: the one in progress, and      *)
(* those that aborted before their reaction had run.                        *)
Unanswered == {c \in Calls : promise[c] # "none" /\ reaction[c] # "run"}

(* Each call keeps the loop alive until its own reaction has run, and no    *)
(* longer.  After an abort the interest stays, whether or not the host runs *)
(* post_call, and only the reaction of the aborted call takes it back: it   *)
(* never lets the loop of a later call stop before that call is answered.   *)
InterestBalanced == interest = Cardinality(Unanswered)

(* Between calls no function of a call that returned is suspended, and no   *)
(* reaction of one is queued; only aborted calls left any.  If none was     *)
(* brought back, and whenever results are handed over, no microtask is left *)
(* at all and every promise ever made is answered: only background tasks    *)
(* wait for the event loop of a later call.                                 *)
NothingSuspended ==
  pc = "host" /\ ~Dead =>
    /\ \A j \in ToSet(jobs) \cup ToSet(tasks) : j.kind # "background" => j.call < revived
    /\ returned \/ revived = 0 => jobs = <<>> /\ Unanswered = {}

(* The guard of call is a defence: a host that follows the canonical ABI    *)
(* never runs into it.                                                      *)
CarefulHostNeverRefused == CarefulHost => trap \notin {"guard", "post_guard"}

(* post_call takes the index back, hands over nothing and leaves what the   *)
(* aborted call put into the event loop.                                    *)
AbortReleased ==
  /\ ~CarefulHost
  /\ cur_fn_idx' = None
  /\ ~returned'
  /\ UNCHANGED <<pc, loopState>>

(* An instance that aborted inside a call completes no call, however often  *)
(* the host calls it: the guard of call refuses every one.  The only way on *)
(* is the post wrapper of the very call that aborted, which a host that     *)
(* follows the canonical ABI does not run.                                  *)
AbortIsFinal == [][Dead => Dead' \/ AbortReleased]_vars

(* The protocol implements the contract the host relies on. *)
Contract == INSTANCE CallContract WITH
  status <- IF cur_fn_idx = None THEN "idle"
            ELSE IF pc # "host" THEN "running"
            ELSE IF returned THEN "results" ELSE "dead",
  fn <- cur_fn_idx,
  areas <- {b \in Block : heap[b] = "ret"}

ImplementsContract == Contract!Spec

(* Every call ends: control comes back to the host, with results or not. In *)
(* particular awaiting what nothing will settle is an abort, not a hang.    *)
CallEnds == (pc # "host") ~> (pc = "host")

(* A function that completes does return to its caller: no wake-up of the   *)
(* event loop is lost between the promise and call.  Memory that runs out,  *)
(* a background task that fails and a BigInt outside uint64, as the result  *)
(* or as an import's argument, are the only ways to lose its results.       *)
CompletionReturns ==
  (pc # "host" /\ promise[revived] = "fulfilled")
    ~> (returned \/ trap \in {"oom", "task", "bigint"})
=============================================================================

------------------------- MODULE CallProtocolProofs -------------------------
(***************************************************************************)
(* Proofs about CallProtocol for every set of functions, every heap, every *)
(* bound and any number of calls brought back after an abort: type         *)
(* correctness, the soundness of the free list, the results a host may     *)
(* read, the balance of the event-loop interest, the one way out of an     *)
(* abort, the continuations and what they leave suspended, and that the    *)
(* protocol implements CallContract.                                       *)
(***************************************************************************)
EXTENDS CallProtocol, SequenceTheorems, FiniteSetTheorems, TLAPS

(* Where control is, whom cur_fn_idx names and what the host has been told. *)
Control ==
  /\ pc # "host" => cur_fn_idx \in Fn /\ cur_fn_idx = fn_idx /\ ~returned
  /\ returned => cur_fn_idx \in Fn /\ cur_fn_idx = fn_idx
  /\ Dead => trap # "none"
  /\ CarefulHost => trap \notin {"guard", "post_guard"}

(* The function of the call in progress, or of the results the host holds,  *)
(* has a return area.                                                       *)
AreaExpected ==
  \/ pc # "host" /\ cur_fn_idx \in RetArea
  \/ returned /\ cur_fn_idx \in RetArea \cup Singular

(* The free list is empty or holds one block; it is what retptr points to   *)
(* when an area is expected, and it alone is owned as a return area.        *)
Areas ==
  /\ free_list = <<>> \/ \E b \in Block : free_list = <<b>>
  /\ cur_fn_idx = None => free_list = <<>>
  /\ pc # "host" /\ cur_fn_idx \notin RetArea => free_list = <<>>
  /\ AreaExpected => retptr \in Block /\ free_list = <<retptr>>
  /\ \A b \in Block : heap[b] = "ret" <=> free_list = <<b>>

(* A reaction is a job exactly once, while it is queued.                    *)
ReactionJob ==
  /\ \A i \in 1..Len(jobs) : jobs[i].kind = "react" => reaction[jobs[i].call] = "queued"
  /\ \A i, j \in 1..Len(jobs) :
       jobs[i].kind = "react" /\ jobs[j].kind = "react" /\ jobs[i].call = jobs[j].call
         => i = j

(* How far each call has come, and what that says about where control is.   *)
Phases ==
  /\ \A c \in Calls : reaction[c] # "none" => promise[c] # "none"
  /\ \A c \in Calls : promise[c] # "none" => c <= revived
  /\ pc # "host" => promise[revived] # "none"
  /\ pc = "attach" => reaction[revived] = "none"
  /\ pc \in {"loop", "background"} => reaction[revived] # "none"
  /\ pc = "own" => self = revived \/ (reaction[self] # "none" /\ reaction[revived] # "none")
  /\ pc = "host" /\ ~Dead => promise[revived] = "none" \/ reaction[revived] = "run"

(* The jobs or tasks that resume the function of a call.                    *)
Suspended(s, c) == {i \in 1..Len(s) : s[i].kind = "own" /\ s[i].call = c}
Single(S) == \A i, j \in S : i = j
Running(c) == pc = "own" /\ self = c

(* The function of a call goes on in one place: it runs, or one job or one  *)
(* task resumes it, or nothing ever does; it does so only while its promise *)
(* is pending, and between calls only if the call was aborted.              *)
OneContinuationOf(c) ==
  /\ Suspended(jobs, c) = {} \/ Suspended(tasks, c) = {}
  /\ Single(Suspended(jobs, c)) /\ Single(Suspended(tasks, c))
  /\ Running(c) => Suspended(jobs, c) = {} /\ Suspended(tasks, c) = {} /\ promise[c] = "pending"
  /\ Suspended(jobs, c) # {} \/ Suspended(tasks, c) # {} =>
       /\ promise[c] = "pending"
       /\ reaction[c] # "none" \/ (pc = "attach" /\ c = revived)
       /\ pc = "host" /\ ~Dead => c # revived

OneContinuation == \A c \in Calls : OneContinuationOf(c)

(* call returns with the microtasks drained.                                *)
Drained == pc = "host" /\ ~Dead /\ (returned \/ revived = 0) => jobs = <<>>

(* It does so with no reaction outstanding.                                 *)
Answered == returned => interest = 0

IInv ==
  /\ TypeOK /\ Control /\ Areas
  /\ Phases /\ InterestBalanced
  /\ ReactionJob /\ OneContinuation /\ Drained /\ Answered

-----------------------------------------------------------------------------

(* cur_fn_idx tells a call in progress from none. *)
LEMMA NoneIsNoFunction == None \notin Fn
  BY SignatureAssumption DEF None

(* Handing out a block changes its owner and nothing else. *)
LEMMA AllocateType ==
  ASSUME NEW h \in [Block -> Owner], NEW b \in Block, NEW o \in Owner
  PROVE  /\ Allocate(h, b, o) \in [Block -> Owner]
         /\ Allocate(h, b, o)[b] = o
         /\ \A c \in Block \ {b} : Allocate(h, b, o)[c] = h[c]
  BY DEF Allocate

(* Spilling the parameters neither makes nor frees a return area. *)
LEMMA SpillType ==
  ASSUME TypeOK, NEW f \in Fn, NEW h \in SpillParams(f)
  PROVE  /\ h \in [Block -> Owner]
         /\ \A b \in Block : h[b] = "ret" <=> heap[b] = "ret"
  <1>1. CASE f \in FlatParams
    <2>1. PICK b \in FreeBlocks(heap) : h = Allocate(heap, b, "arg")
      BY <1>1 DEF SpillParams
    <2>2. b \in Block /\ heap[b] = "free"
      BY DEF FreeBlocks
    <2>3. heap \in [Block -> Owner] /\ "arg" \in Owner
      BY DEF TypeOK, Owner
    <2>4. \A c \in Block : h[c] = IF c = b THEN "arg" ELSE heap[c]
      BY <2>1, <2>2, <2>3 DEF Allocate
    <2> QED
      BY <2>1, <2>2, <2>3, <2>4, AllocateType
  <1>2. CASE f \notin FlatParams
    BY <1>2 DEF SpillParams, TypeOK
  <1> QED
    BY <1>1, <1>2

(* JavaScript never overdraws its budget of steps. *)
LEMMA StepsLeft == TypeOK /\ JSStep => steps' \in 0..StepsPerCall
  BY BoundAssumption DEF TypeOK, JSStep

(* Append stays within the element type. *)
LEMMA AppendType ==
  ASSUME NEW S, NEW s \in Seq(S), NEW e \in S
  PROVE  Append(s, e) \in Seq(S)
  BY AppendProperties

(* RemoveAt stays within the element type. *)
LEMMA RemoveAtType ==
  ASSUME NEW S, NEW s \in Seq(S), NEW i \in DOMAIN s
  PROVE  RemoveAt(s, i) \in Seq(S)
  <1>1. Len(s) \in Nat /\ i \in 1..Len(s)
    BY LenProperties
  <1>2. \A j \in 1..Len(s) : s[j] \in S
    BY ElementOfSeq
  <1>3. \A j \in 1..i - 1 : s[j] \in S
    BY <1>1, <1>2
  <1>4. \A j \in i + 1..Len(s) : s[j] \in S
    BY <1>1, <1>2
  <1>5. SubSeq(s, 1, i - 1) \in Seq(S)
    BY <1>1, <1>3, SubSeqProperties
  <1>6. SubSeq(s, i + 1, Len(s)) \in Seq(S)
    BY <1>1, <1>4, SubSeqProperties
  <1> QED
    BY <1>5, <1>6, ConcatProperties DEF RemoveAt

(* What is queued is a job, and a call that is named exists.                *)
LEMMA JobFields ==
  ASSUME TypeOK
  PROVE  /\ \A i \in 1..Len(jobs) : jobs[i].call \in Calls
         /\ \A i \in DOMAIN tasks : tasks[i] \in Task /\ tasks[i] \in Job
         /\ \A c \in Calls : Own(c) \in Task /\ Own(c) \in Job /\ React(c) \in Job
         /\ Background \in Task /\ Background \in Job
         /\ jobs # <<>> => /\ Head(jobs) \in Job /\ Head(jobs) = jobs[1]
                           /\ Tail(jobs) \in Seq(Job) /\ 1 \in 1..Len(jobs)
  <1>1. \A i \in 1..Len(jobs) : jobs[i] \in Job
    BY ElementOfSeq DEF TypeOK
  <1>2. \A i \in DOMAIN tasks : tasks[i] \in Task
    <2>1. DOMAIN tasks = 1..Len(tasks)
      BY LenProperties DEF TypeOK
    <2> QED
      BY <2>1, ElementOfSeq DEF TypeOK
  <1>3. Task \subseteq Job
    BY DEF Task, Job
  <1>4. 0 \in Calls
    BY BoundAssumption DEF Calls
  <1>5. jobs # <<>> => /\ Head(jobs) \in Job /\ Head(jobs) = jobs[1]
                       /\ Tail(jobs) \in Seq(Job) /\ 1 \in 1..Len(jobs)
    BY HeadTailProperties, LenProperties, EmptySeq DEF TypeOK
  <1> QED
    BY <1>1, <1>2, <1>3, <1>4, <1>5 DEF Task, Job, Own, React, Background, Continuation

(* A reaction at the head of the microtask queue is one that is queued. *)
LEMMA HeadReaction ==
  TypeOK /\ ReactionJob /\ jobs # <<>> /\ Head(jobs).kind = "react"
    => Head(jobs).call \in Calls /\ reaction[Head(jobs).call] = "queued"
  <1> SUFFICES ASSUME TypeOK, ReactionJob, jobs # <<>>, Head(jobs).kind = "react"
               PROVE  Head(jobs).call \in Calls /\ reaction[Head(jobs).call] = "queued"
    OBVIOUS
  <1>1. 1 \in 1..Len(jobs) /\ Head(jobs) = jobs[1]
    BY JobFields
  <1> QED
    BY <1>1, JobFields DEF ReactionJob

(* Steps that leave the microtasks and the queued reactions alone keep each *)
(* reaction unique. *)
LEMMA JobKept ==
  ASSUME TypeOK, ReactionJob, UNCHANGED jobs,
         \A c \in Calls : reaction[c] = "queued" => reaction'[c] = "queued"
  PROVE  ReactionJob'
  BY JobFields DEF ReactionJob

(* So do steps that append any other job, *)
LEMMA JobAppended ==
  ASSUME TypeOK, ReactionJob, UNCHANGED reaction,
         NEW j \in Job, j.kind # "react", jobs' = Append(jobs, j)
  PROVE  ReactionJob'
  <1>1. /\ Len(jobs) \in Nat /\ Len(jobs') = Len(jobs) + 1
        /\ \A i \in 1..Len(jobs) : jobs'[i] = jobs[i]
        /\ jobs'[Len(jobs) + 1] = j
    BY AppendProperties, LenProperties DEF TypeOK
  <1>2. \A i \in 1..Len(jobs') : jobs'[i].kind = "react" => i \in 1..Len(jobs)
    BY <1>1
  <1> QED
    BY <1>1, <1>2 DEF ReactionJob

(* the step that queues a reaction, *)
LEMMA ReactionAppended ==
  ASSUME TypeOK, ReactionJob, NEW c \in Calls, reaction[c] # "queued",
         jobs' = Append(jobs, React(c)), reaction' = [reaction EXCEPT ![c] = "queued"]
  PROVE  ReactionJob'
  <1>1. /\ Len(jobs) \in Nat /\ Len(jobs') = Len(jobs) + 1
        /\ \A i \in 1..Len(jobs) : jobs'[i] = jobs[i]
        /\ jobs'[Len(jobs) + 1] = React(c)
    BY AppendProperties, LenProperties, JobFields DEF TypeOK
  <1>2. \A i \in 1..Len(jobs') : i \in 1..Len(jobs) \/ i = Len(jobs) + 1
    BY <1>1
  <1>3. \A i \in 1..Len(jobs) : jobs[i].kind = "react" => jobs[i].call # c
    BY DEF ReactionJob
  <1>4. reaction'[c] = "queued" /\ \A d \in Calls \ {c} : reaction'[d] = reaction[d]
    BY DEF TypeOK
  <1>5. React(c).kind = "react" /\ React(c).call = c
    BY DEF React
  <1>6. ASSUME NEW i \in 1..Len(jobs'), jobs'[i].kind = "react"
        PROVE  reaction'[jobs'[i].call] = "queued"
    <2>1. CASE i \in 1..Len(jobs)
      <3>1. jobs'[i] = jobs[i] /\ reaction[jobs[i].call] = "queued" /\ jobs[i].call \in Calls
        BY <1>1, <1>6, <2>1, JobFields DEF ReactionJob
      <3> QED
        BY <1>4, <3>1
    <2>2. CASE i = Len(jobs) + 1
      BY <1>1, <1>4, <1>5, <2>2
    <2> QED
      BY <1>2, <2>1, <2>2
  <1>7. ASSUME NEW i \in 1..Len(jobs'), NEW k \in 1..Len(jobs'),
               jobs'[i].kind = "react", jobs'[k].kind = "react", jobs'[i].call = jobs'[k].call
        PROVE  i = k
    BY <1>1, <1>2, <1>3, <1>5, <1>7 DEF ReactionJob
  <1> QED
    BY <1>6, <1>7 DEF ReactionJob

(* and the steps that take the first job. *)
LEMMA JobTaken ==
  ASSUME TypeOK, ReactionJob, jobs # <<>>, jobs' = Tail(jobs),
         \/ UNCHANGED reaction
         \/ /\ Head(jobs).kind = "react"
            /\ reaction' = [reaction EXCEPT ![Head(jobs).call] = "run"]
  PROVE  ReactionJob'
  <1>1. /\ Len(jobs) \in Nat
        /\ Len(jobs') = Len(jobs) - 1
        /\ \A i \in 1..Len(jobs') : jobs'[i] = jobs[i + 1]
    BY HeadTailProperties, LenProperties DEF TypeOK
  <1>2. \A i \in 1..Len(jobs') : i + 1 \in 1..Len(jobs)
    BY <1>1
  <1>3. ASSUME NEW i \in 1..Len(jobs'), NEW j \in 1..Len(jobs'),
               jobs'[i].kind = "react", jobs'[j].kind = "react", jobs'[i].call = jobs'[j].call
        PROVE  i = j
    <2>1. i + 1 = j + 1
      BY <1>1, <1>2, <1>3 DEF ReactionJob
    <2> QED
      BY <2>1
  <1>4. CASE UNCHANGED reaction
    BY <1>1, <1>2, <1>3, <1>4 DEF ReactionJob
  <1>5. CASE Head(jobs).kind = "react" /\ reaction' = [reaction EXCEPT ![Head(jobs).call] = "run"]
    <2>1. 1 \in 1..Len(jobs) /\ Head(jobs) = jobs[1]
      BY JobFields
    <2>2. ASSUME NEW i \in 1..Len(jobs'), jobs'[i].kind = "react"
          PROVE  reaction'[jobs'[i].call] = "queued"
      <3>1. i + 1 # 1 /\ i + 1 \in 1..Len(jobs) /\ jobs'[i] = jobs[i + 1]
        BY <1>1, <1>2
      <3>2. jobs[i + 1].call # Head(jobs).call
        BY <1>5, <2>1, <2>2, <3>1 DEF ReactionJob
      <3>3. reaction[jobs[i + 1].call] = "queued" /\ jobs[i + 1].call \in Calls
        BY <2>2, <3>1, JobFields DEF ReactionJob
      <3> QED
        BY <1>5, <3>1, <3>2, <3>3 DEF TypeOK
    <2> QED
      BY <1>3, <2>2 DEF ReactionJob
  <1> QED
    BY <1>4, <1>5

(* Storing a single result gives a fresh area, *)
LEMMA StoreSingleType ==
  ASSUME TypeOK, StoreSingle
  PROVE  /\ heap' \in [Block -> Owner]
         /\ free_list' \in Seq(Block)
         /\ retptr' \in Block
  <1>1. ASSUME NEW b \in FreeBlocks(heap)
        PROVE  /\ b \in Block
               /\ Allocate(heap, b, "ret") \in [Block -> Owner]
               /\ Track(free_list, b) \in Seq(Block)
    BY AllocateType, AppendType DEF TypeOK, FreeBlocks, Owner, Track
  <1> QED
    BY <1>1 DEF StoreSingle

(* and when there was none, that area is the only one. *)
LEMMA StoreSingleArea ==
  ASSUME TypeOK, StoreSingle, free_list = <<>>, Areas
  PROVE  /\ retptr' \in Block /\ free_list' = <<retptr'>>
         /\ \A x \in Block : heap'[x] = "ret" <=> free_list' = <<x>>
  <1>1. PICK b \in FreeBlocks(heap) :
          /\ heap' = Allocate(heap, b, "ret")
          /\ free_list' = Track(free_list, b)
          /\ retptr' = b
    BY DEF StoreSingle
  <1>2. b \in Block /\ free_list' = <<b>>
    BY <1>1 DEF FreeBlocks, Track
  <1>3. \A x \in Block : heap[x] # "ret"
    BY DEF Areas
  <1>4. \A x \in Block : heap'[x] = "ret" <=> x = b
    BY <1>1, <1>2, <1>3, AllocateType DEF TypeOK, Owner
  <1> QED
    BY <1>1, <1>2, <1>4

(* Queues grow at their end, *)
LEMMA SuspendedAppend ==
  ASSUME NEW S, NEW s \in Seq(S), NEW e \in S, NEW c
  PROVE  /\ e.kind # "own" \/ e.call # c => Suspended(Append(s, e), c) = Suspended(s, c)
         /\ Suspended(s, c) = {} => Single(Suspended(Append(s, e), c))
         /\ e.kind = "own" /\ e.call = c => Suspended(Append(s, e), c) # {}
  <1>1. /\ Len(s) \in Nat /\ Len(Append(s, e)) = Len(s) + 1
        /\ \A i \in 1..Len(s) : Append(s, e)[i] = s[i]
        /\ Append(s, e)[Len(s) + 1] = e
    BY AppendProperties, LenProperties
  <1>2. \A i \in 1..Len(s) + 1 : i \in 1..Len(s) \/ i = Len(s) + 1
    BY <1>1
  <1>3. \A i \in 1..Len(s) : i \in Suspended(s, c) <=> i \in Suspended(Append(s, e), c)
    BY <1>1 DEF Suspended
  <1>4. Len(s) + 1 \in Suspended(Append(s, e), c) <=> e.kind = "own" /\ e.call = c
    BY <1>1 DEF Suspended
  <1>5. Suspended(s, c) \subseteq 1..Len(s) /\ Suspended(Append(s, e), c) \subseteq 1..Len(s) + 1
    BY <1>1 DEF Suspended
  <1> QED
    BY <1>2, <1>3, <1>4, <1>5 DEF Single

(* and lose their first element *)
LEMMA SuspendedTail ==
  ASSUME NEW S, NEW s \in Seq(S), s # <<>>, NEW c
  PROVE  /\ Suspended(s, c) = {} => Suspended(Tail(s), c) = {}
         /\ Single(Suspended(s, c)) => Single(Suspended(Tail(s), c))
         /\ Single(Suspended(s, c)) /\ Head(s).kind = "own" /\ Head(s).call = c
              => Suspended(Tail(s), c) = {}
         /\ Head(s).kind = "own" /\ Head(s).call = c => Suspended(s, c) # {}
  <1>1. /\ Len(s) \in Nat /\ Len(s) # 0 /\ Len(Tail(s)) = Len(s) - 1
        /\ \A i \in 1..Len(s) - 1 : Tail(s)[i] = s[i + 1]
        /\ Head(s) = s[1]
    BY HeadTailProperties, LenProperties, EmptySeq
  <1>2. \A i \in Suspended(Tail(s), c) : i + 1 \in Suspended(s, c)
    BY <1>1 DEF Suspended
  <1>3. Suspended(Tail(s), c) \subseteq 1..Len(s) - 1
    BY <1>1 DEF Suspended
  <1>4. Single(Suspended(s, c)) => Single(Suspended(Tail(s), c))
    <2> SUFFICES ASSUME Single(Suspended(s, c)), NEW i \in Suspended(Tail(s), c),
                        NEW j \in Suspended(Tail(s), c)
                 PROVE  i = j
      BY DEF Single
    <2>1. i + 1 = j + 1
      BY <1>2 DEF Single
    <2>2. i \in Nat /\ j \in Nat
      BY <1>3
    <2> QED
      BY <2>1, <2>2
  <1>5. Head(s).kind = "own" /\ Head(s).call = c => 1 \in Suspended(s, c)
    BY <1>1 DEF Suspended
  <1>6. Single(Suspended(s, c)) /\ 1 \in Suspended(s, c) => Suspended(Tail(s), c) = {}
    <2> SUFFICES ASSUME Single(Suspended(s, c)), 1 \in Suspended(s, c),
                        NEW i \in Suspended(Tail(s), c)
                 PROVE  FALSE
      OBVIOUS
    <2>1. i + 1 = 1
      BY <1>2 DEF Single
    <2>2. i \in 1..Len(s) - 1
      BY <1>3
    <2> QED
      BY <1>1, <2>1, <2>2
  <1> QED
    BY <1>2, <1>4, <1>5, <1>6

(* or the one that is ready. *)
LEMMA SuspendedRemove ==
  ASSUME NEW S, NEW s \in Seq(S), NEW i \in DOMAIN s, NEW c
  PROVE  /\ Suspended(s, c) = {} => Suspended(RemoveAt(s, i), c) = {}
         /\ Single(Suspended(s, c)) => Single(Suspended(RemoveAt(s, i), c))
         /\ Single(Suspended(s, c)) /\ s[i].kind = "own" /\ s[i].call = c
              => Suspended(RemoveAt(s, i), c) = {}
         /\ s[i].kind = "own" /\ s[i].call = c => Suspended(s, c) # {}
  <1>1. Len(s) \in Nat /\ i \in 1..Len(s)
    BY LenProperties
  <1>2. \A j \in 1..Len(s) : s[j] \in S
    BY ElementOfSeq
  <1> DEFINE a == SubSeq(s, 1, i - 1)
             b == SubSeq(s, i + 1, Len(s))
             at(k) == IF k < i THEN k ELSE k + 1
  <1>3. /\ a \in Seq(S) /\ Len(a) = i - 1 /\ \A k \in 1..i - 1 : a[k] = s[k]
    <2>1. \A j \in 1..i - 1 : s[j] \in S
      BY <1>1, <1>2
    <2> QED
      BY <1>1, <2>1, SubSeqProperties
  <1>4. /\ b \in Seq(S) /\ Len(b) = Len(s) - i /\ \A k \in 1..Len(s) - i : b[k] = s[i + k]
    <2>1. \A j \in i + 1..Len(s) : s[j] \in S
      BY <1>1, <1>2
    <2> QED
      BY <1>1, <2>1, SubSeqProperties
  <1>5. RemoveAt(s, i) = a \o b
    BY DEF RemoveAt
  <1> HIDE DEF a, b
  <1>6. /\ Len(RemoveAt(s, i)) = Len(s) - 1
        /\ \A k \in 1..i - 1 : RemoveAt(s, i)[k] = s[k]
        /\ \A k \in i..Len(s) - 1 : RemoveAt(s, i)[k] = s[k + 1]
    <2>1. /\ Len(a \o b) = Len(a) + Len(b)
          /\ \A k \in 1..Len(a) + Len(b) :
               (a \o b)[k] = IF k <= Len(a) THEN a[k] ELSE b[k - Len(a)]
      BY <1>3, <1>4, ConcatProperties
    <2>2. Len(a) = i - 1 /\ Len(a) + Len(b) = Len(s) - 1
      BY <1>1, <1>3, <1>4
    <2>3. ASSUME NEW k \in i..Len(s) - 1 PROVE (a \o b)[k] = s[k + 1]
      <3>1. /\ k \in 1..Len(a) + Len(b) /\ ~(k <= Len(a))
            /\ k - Len(a) \in 1..Len(s) - i /\ i + (k - Len(a)) = k + 1
        BY <1>1, <2>2
      <3>2. (a \o b)[k] = b[k - Len(a)]
        BY <2>1, <3>1
      <3>3. b[k - Len(a)] = s[i + (k - Len(a))]
        BY <1>4, <3>1
      <3> QED
        BY <3>1, <3>2, <3>3
    <2>4. ASSUME NEW k \in 1..i - 1 PROVE (a \o b)[k] = s[k]
      <3>1. k \in 1..Len(a) + Len(b) /\ k <= Len(a)
        BY <1>1, <2>2
      <3> QED
        BY <1>3, <2>1, <3>1
    <2> QED
      BY <1>5, <2>1, <2>2, <2>3, <2>4
  <1>7. \A k \in Suspended(RemoveAt(s, i), c) :
          k \in 1..Len(s) - 1 /\ at(k) \in Suspended(s, c) /\ at(k) # i
    BY <1>1, <1>6 DEF Suspended
  <1>8. \A k, l \in Suspended(RemoveAt(s, i), c) : at(k) = at(l) => k = l
    BY <1>1, <1>7
  <1>9. s[i].kind = "own" /\ s[i].call = c => i \in Suspended(s, c)
    BY <1>1 DEF Suspended
  <1> HIDE DEF at
  <1> QED
    BY <1>7, <1>8, <1>9 DEF Single

(* A finite number of calls is unanswered.                                  *)
LEMMA UnansweredFinite ==
  /\ IsFiniteSet(Unanswered)
  /\ Cardinality(Unanswered) \in Nat
  <1>1. IsFiniteSet(Calls)
    BY FS_Interval, BoundAssumption DEF Calls
  <1>2. Unanswered \subseteq Calls
    BY DEF Unanswered
  <1> QED
    BY <1>1, <1>2, FS_Subset, FS_CardinalityType

(* The invariant keeps every variable in its type. *)
LEMMA TypeStep == IInv /\ [Next]_vars => TypeOK'
  <1> SUFFICES ASSUME IInv, [Next]_vars PROVE TypeOK'
    OBVIOUS
  <1>0. TypeOK /\ ReactionJob
    BY DEF IInv
  <1> USE <1>0 DEF runtime, loopState, hostState
  <1>1. CASE LowerArgument
    <2>1. ASSUME NEW b \in FreeBlocks(heap)
          PROVE  Allocate(heap, b, "data") \in [Block -> Owner]
      BY AllocateType DEF TypeOK, FreeBlocks, Owner
    <2> QED
      BY <1>1, <2>1 DEF LowerArgument, HostMayEnter, Die, TypeOK, Trap
  <1>2. ASSUME NEW f \in Fn, Enter(f) PROVE TypeOK'
    <2>1. PICK h \in SpillParams(f) :
            IF f \in RetArea
            THEN \E b \in FreeBlocks(h) :
                   /\ heap' = Allocate(h, b, "ret")
                   /\ free_list' = Track(free_list, b)
                   /\ retptr' = b
            ELSE /\ heap' = h
                 /\ retptr' = NullPtr
                 /\ UNCHANGED free_list
      BY <1>2 DEF Enter
    <2>2. h \in [Block -> Owner]
      BY SpillType
    <2>3. ASSUME NEW b \in FreeBlocks(h)
          PROVE  /\ b \in Block
                 /\ Allocate(h, b, "ret") \in [Block -> Owner]
                 /\ Track(free_list, b) \in Seq(Block)
      BY <2>2, AllocateType, AppendType DEF TypeOK, FreeBlocks, Owner, Track
    <2>4. /\ heap' \in [Block -> Owner]
          /\ free_list' \in Seq(Block)
          /\ retptr' \in Block \cup {NullPtr}
      BY <2>1, <2>2, <2>3 DEF TypeOK
    <2>5. /\ interest' \in Nat
          /\ steps' \in 0..StepsPerCall
      BY <1>2, BoundAssumption DEF Enter, TypeOK
    <2> QED
      BY <1>2, <2>4, <2>5 DEF Enter, TypeOK, Trap, Continuation
  <1>3. ASSUME NEW f \in Fn, WrapperOutOfMemory(f) PROVE TypeOK'
    BY <1>3 DEF WrapperOutOfMemory, HostMayEnter, Die, TypeOK, Continuation, Trap
  <1>4. ASSUME NEW f \in Fn, EnterOutOfMemory(f) PROVE TypeOK'
    BY <1>4, SpillType DEF EnterOutOfMemory, HostMayEnter, NoCallInProgress, Die, TypeOK, Trap
  <1>5. ASSUME NEW f \in Fn, EnterRefused(f) PROVE TypeOK'
    BY <1>5, SpillType DEF EnterRefused, HostMayEnter, NoCallInProgress, Die, TypeOK, Trap
  <1>6. ASSUME NEW f \in Fn, PostCallRefused(f) PROVE TypeOK'
    BY <1>6 DEF PostCallRefused, HostMayPost, Die, TypeOK, Continuation, Trap
  <1>7. ASSUME NEW f \in Fn, PostCall(f) PROVE TypeOK'
    <2>1. heap' \in [Block -> Owner]
      BY <1>7 DEF PostCall, FreeAll, TypeOK, Owner
    <2>2. revived' \in Calls
      BY <1>7, BoundAssumption DEF PostCall, TypeOK, Calls
    <2> QED
      BY <1>7, <2>1, <2>2, EmptySeq DEF PostCall, HostMayPost, ResetIndex, TypeOK, Trap
  <1>8. CASE Discarded
    BY <1>8 DEF Discarded, vars, TypeOK, Continuation, Trap
  <1>9. CASE JSAllocate
    <2>1. ASSUME NEW b \in FreeBlocks(heap), NEW old \in Block
          PROVE  /\ Allocate(heap, b, "data") \in [Block -> Owner]
                 /\ Allocate(Allocate(heap, old, "free"), b, "data") \in [Block -> Owner]
      BY AllocateType DEF TypeOK, FreeBlocks, Owner
    <2>2. heap' \in [Block -> Owner]
      BY <1>9, <2>1 DEF JSAllocate, TypeOK, FreeBlocks
    <2>3. steps' \in 0..StepsPerCall
      BY <1>9, StepsLeft DEF JSAllocate
    <2> QED
      BY <1>9, <2>2, <2>3 DEF JSAllocate, TypeOK
  <1>10. CASE JSOutOfMemory
    BY <1>10, StepsLeft DEF JSOutOfMemory, JSStep, Die, TypeOK, Trap
  <1>11. ASSUME NEW f \in Fn, ReenterRefused(f) PROVE TypeOK'
    BY <1>11, SpillType, StepsLeft DEF ReenterRefused, JSStep, TypeOK, Trap, Continuation
  <1>12. CASE SpawnJob
    <2>1. jobs' \in Seq(Job)
      BY <1>12, AppendType, JobFields DEF SpawnJob, TypeOK
    <2>2. steps' \in 0..StepsPerCall
      BY <1>12, StepsLeft DEF SpawnJob
    <2> QED
      BY <1>12, <2>1, <2>2 DEF SpawnJob, TypeOK, Continuation
  <1>13. CASE SpawnTask
    <2>1. tasks' \in Seq(Task)
      BY <1>13, AppendType, JobFields DEF SpawnTask, TypeOK
    <2>2. steps' \in 0..StepsPerCall
      BY <1>13, StepsLeft DEF SpawnTask
    <2> QED
      BY <1>13, <2>1, <2>2 DEF SpawnTask, TypeOK, Continuation
  <1>14. CASE AwaitJob
    <2>1. jobs' \in Seq(Job)
      BY <1>14, AppendType, JobFields DEF AwaitJob, TypeOK
    <2>2. steps' \in 0..StepsPerCall
      BY <1>14, StepsLeft DEF AwaitJob
    <2> QED
      BY <1>14, <2>1, <2>2 DEF AwaitJob, TypeOK, Continuation, Yielded
  <1>15. CASE AwaitTask
    <2>1. tasks' \in Seq(Task)
      BY <1>15, AppendType, JobFields DEF AwaitTask, TypeOK
    <2>2. steps' \in 0..StepsPerCall
      BY <1>15, StepsLeft DEF AwaitTask
    <2> QED
      BY <1>15, <2>1, <2>2 DEF AwaitTask, TypeOK, Continuation, Yielded
  <1>16. CASE AwaitForever
    BY <1>16 DEF AwaitForever, Yielded, TypeOK, Continuation, Trap
  <1>17. ASSUME NEW o \in {"fulfilled", "rejected"}, Settle(o) PROVE TypeOK'
    <2>1. jobs' \in Seq(Job)
      <3>1. React(self) \in Job
        BY JobFields DEF TypeOK
      <3>2. jobs \in Seq(Job)
        BY DEF TypeOK
      <3>3. Append(jobs, React(self)) \in Seq(Job)
        BY <3>1, <3>2, AppendType
      <3>4. jobs' = Append(jobs, React(self)) \/ jobs' = jobs
        BY <1>17 DEF Settle
      <3> QED
        BY <3>2, <3>3, <3>4
    <2>2. reaction' \in [Calls -> {"none", "registered", "queued", "run"}]
      BY <1>17 DEF Settle, TypeOK
    <2>3. pc' \in {"attach", "loop"}
      BY <1>17 DEF Settle, Yielded
    <2> QED
      BY <1>17, <2>1, <2>2, <2>3 DEF Settle, TypeOK
  <1>18. CASE CallFails
    BY <1>18 DEF CallFails, Die, TypeOK, Continuation, Trap
  <1>19. CASE BackgroundEnds
    BY <1>19 DEF BackgroundEnds, TypeOK, Continuation, Trap
  <1>20. CASE AttachReactions
    <2>1. jobs' \in Seq(Job)
      <3>1. React(revived) \in Job
        BY JobFields DEF TypeOK
      <3>2. jobs \in Seq(Job)
        BY DEF TypeOK
      <3>3. Append(jobs, React(revived)) \in Seq(Job)
        BY <3>1, <3>2, AppendType
      <3>4. jobs' = Append(jobs, React(revived)) \/ jobs' = jobs
        BY <1>20 DEF AttachReactions
      <3> QED
        BY <3>2, <3>3, <3>4
    <2>2. reaction' \in [Calls -> {"none", "registered", "queued", "run"}]
      BY <1>20 DEF AttachReactions, TypeOK
    <2> QED
      BY <1>20, <2>1, <2>2 DEF AttachReactions, TypeOK
  <1>21. CASE RunJob
    <2>1. Tail(jobs) \in Seq(Job)
      BY <1>21, HeadTailProperties DEF RunJob, TypeOK
    <2>2. Head(jobs).call \in Calls
      BY <1>21, JobFields DEF RunJob
    <2> QED
      BY <1>21, <2>1, <2>2 DEF RunJob, TypeOK, Continuation
  <1>22. CASE RunReaction
    <2>1. Tail(jobs) \in Seq(Job)
      BY <1>22, HeadTailProperties DEF RunReaction, TypeOK
    <2>2. interest' \in Nat
      <3>1. PICK c \in Calls : c = Head(jobs).call /\ reaction[c] = "queued" /\ promise[c] # "none"
        BY <1>22, HeadReaction DEF RunReaction, IInv, Phases
      <3>2. Unanswered # {}
        BY <3>1 DEF Unanswered
      <3>3. interest # 0
        BY <3>2, UnansweredFinite, FS_EmptySet DEF IInv, InterestBalanced
      <3> QED
        BY <1>22, <3>3 DEF RunReaction, InterestGivenBack, TypeOK
    <2>3. reaction' \in [Calls -> {"none", "registered", "queued", "run"}]
      BY <1>22 DEF RunReaction, TypeOK
    <2> QED
      BY <1>22, <2>1, <2>2, <2>3 DEF RunReaction, TypeOK
  <1>23. CASE RunTask
    <2>1. tasks' \in Seq(Task)
      BY <1>23, RemoveAtType DEF RunTask, TypeOK
    <2>2. jobs' \in Seq(Job)
      <3>1. PICK i \in DOMAIN tasks :
              IF tasks[i].kind = "own" THEN jobs' = Append(jobs, tasks[i]) ELSE UNCHANGED jobs
        BY <1>23 DEF RunTask
      <3>2. tasks[i] \in Job
        BY JobFields
      <3> QED
        BY <3>1, <3>2, AppendType DEF TypeOK
    <2>3. pc' \in Continuation \cup {"host", "attach", "loop"}
      BY <1>23 DEF RunTask, TypeOK, Continuation
    <2> QED
      BY <1>23, <2>1, <2>2, <2>3 DEF RunTask, TypeOK
  <1>24. CASE TaskFails
    <2>1. tasks' \in Seq(Task)
      BY <1>24, RemoveAtType DEF TaskFails, TypeOK
    <2> QED
      BY <1>24, <2>1 DEF TaskFails, Die, TypeOK, Trap
  <1>25. CASE Starve
    BY <1>25 DEF Starve, Waiting, Die, TypeOK, Continuation, Trap
  <1>26. CASE Return
    BY <1>26, StoreSingleType DEF Return, TypeOK
  <1>27. CASE ReturnOutOfMemory
    BY <1>27 DEF ReturnOutOfMemory, LoopDone, Die, TypeOK, Continuation, Trap
  <1>28. CASE NotFulfilled
    BY <1>28 DEF NotFulfilled, LoopDone, Die, TypeOK, Continuation, Trap
  <1>30. CASE ImportAborts
    BY <1>30, StepsLeft DEF ImportAborts, JSStep, Die, TypeOK, Trap
  <1>31. CASE ReturnAborts
    BY <1>31, StoreSingleType DEF ReturnAborts, LoopDone, Die, TypeOK, Trap
  <1>29. CASE UNCHANGED vars
    BY <1>29 DEF vars, TypeOK
  <1> QED
    BY <1>1, <1>2, <1>3, <1>4, <1>5, <1>6, <1>7, <1>8, <1>9, <1>10, <1>11, <1>12, <1>13, <1>14, <1>15, <1>16, <1>17, <1>18, <1>19, <1>20, <1>21, <1>22, <1>23, <1>24, <1>25, <1>26, <1>27, <1>28, <1>29, <1>30, <1>31
       DEF Next, Host, JavaScript, EventLoop

(* It keeps cur_fn_idx and what the host knows consistent with pc. *)
LEMMA ControlStep == IInv /\ [Next]_vars => Control'
  <1> SUFFICES ASSUME IInv, [Next]_vars PROVE Control'
    OBVIOUS
  <1> USE NoneIsNoFunction DEF runtime, loopState, hostState, IInv, TypeOK, Control, Dead, Continuation
  <1>1. CASE LowerArgument
    BY <1>1 DEF LowerArgument, HostMayEnter, Die
  <1>2. ASSUME NEW f \in Fn, Enter(f) PROVE Control'
    BY <1>2 DEF Enter, HostMayEnter, NoCallInProgress
  <1>3. ASSUME NEW f \in Fn, WrapperOutOfMemory(f) PROVE Control'
    BY <1>3 DEF WrapperOutOfMemory, HostMayEnter, Die
  <1>4. ASSUME NEW f \in Fn, EnterOutOfMemory(f) PROVE Control'
    BY <1>4 DEF EnterOutOfMemory, HostMayEnter, NoCallInProgress, Die
  <1>5. ASSUME NEW f \in Fn, EnterRefused(f) PROVE Control'
    BY <1>5 DEF EnterRefused, HostMayEnter, NoCallInProgress, Die
  <1>6. ASSUME NEW f \in Fn, PostCallRefused(f) PROVE Control'
    BY <1>6 DEF PostCallRefused, HostMayPost, Die
  <1>7. ASSUME NEW f \in Fn, PostCall(f) PROVE Control'
    BY <1>7 DEF PostCall, HostMayPost, ResetIndex
  <1>8. CASE Discarded
    BY <1>8 DEF Discarded, vars
  <1>9. CASE JSAllocate
    BY <1>9 DEF JSAllocate, JSStep
  <1>10. CASE JSOutOfMemory
    BY <1>10 DEF JSOutOfMemory, JSStep, Die
  <1>11. ASSUME NEW f \in Fn, ReenterRefused(f) PROVE Control'
    BY <1>11 DEF ReenterRefused, JSStep
  <1>12. CASE SpawnJob
    BY <1>12 DEF SpawnJob, JSStep
  <1>13. CASE SpawnTask
    BY <1>13 DEF SpawnTask, JSStep
  <1>14. CASE AwaitJob
    BY <1>14 DEF AwaitJob, JSStep, Yielded
  <1>15. CASE AwaitTask
    BY <1>15 DEF AwaitTask, JSStep, Yielded
  <1>16. CASE AwaitForever
    BY <1>16 DEF AwaitForever, Yielded
  <1>17. ASSUME NEW o \in {"fulfilled", "rejected"}, Settle(o) PROVE Control'
    BY <1>17 DEF Settle, Yielded
  <1>18. CASE CallFails
    BY <1>18 DEF CallFails, Die
  <1>19. CASE BackgroundEnds
    BY <1>19 DEF BackgroundEnds
  <1>20. CASE AttachReactions
    BY <1>20 DEF AttachReactions
  <1>21. CASE RunJob
    BY <1>21 DEF RunJob
  <1>22. CASE RunReaction
    BY <1>22 DEF RunReaction, InterestGivenBack
  <1>23. CASE RunTask
    BY <1>23 DEF RunTask, Waiting
  <1>24. CASE TaskFails
    BY <1>24 DEF TaskFails, Waiting, Die
  <1>25. CASE Starve
    BY <1>25 DEF Starve, Waiting, Die
  <1>26. CASE Return
    BY <1>26 DEF Return, LoopDone
  <1>27. CASE ReturnOutOfMemory
    BY <1>27 DEF ReturnOutOfMemory, LoopDone, Die
  <1>28. CASE NotFulfilled
    BY <1>28 DEF NotFulfilled, LoopDone, Die
  <1>30. CASE ImportAborts
    BY <1>30 DEF ImportAborts, JSStep, Die
  <1>31. CASE ReturnAborts
    BY <1>31 DEF ReturnAborts, LoopDone, Die
  <1>29. CASE UNCHANGED vars
    BY <1>29 DEF vars
  <1> QED
    BY <1>1, <1>2, <1>3, <1>4, <1>5, <1>6, <1>7, <1>8, <1>9, <1>10, <1>11, <1>12, <1>13, <1>14, <1>15, <1>16, <1>17, <1>18, <1>19, <1>20, <1>21, <1>22, <1>23, <1>24, <1>25, <1>26, <1>27, <1>28, <1>29, <1>30, <1>31
       DEF Next, Host, JavaScript, EventLoop

(* It keeps the free list equal to the return areas of the heap. *)
LEMMA AreasStep == IInv /\ [Next]_vars => Areas'
  <1> SUFFICES ASSUME IInv, [Next]_vars PROVE Areas'
    OBVIOUS
  <1>0. TypeOK
    BY DEF IInv
  <1>a. Areas
    BY DEF IInv
  <1> USE <1>0, SignatureAssumption DEF runtime, loopState, hostState
  <1>1. CASE LowerArgument
    <2>1. ASSUME NEW b \in FreeBlocks(heap), heap' = Allocate(heap, b, "data")
          PROVE  \A x \in Block : heap'[x] = "ret" <=> heap[x] = "ret"
      BY <2>1 DEF Allocate, FreeBlocks, IInv, TypeOK, Owner
    <2>2. \A x \in Block : heap'[x] = "ret" <=> heap[x] = "ret"
      BY <1>1, <2>1 DEF LowerArgument
    <2> QED
      BY <1>1, <2>2 DEF LowerArgument, HostMayEnter, Die, IInv, Areas, AreaExpected
  <1>2. ASSUME NEW f \in Fn, Enter(f) PROVE Areas'
    <2>1. PICK h \in SpillParams(f) :
            IF f \in RetArea
            THEN \E b \in FreeBlocks(h) :
                   /\ heap' = Allocate(h, b, "ret")
                   /\ free_list' = Track(free_list, b)
                   /\ retptr' = b
            ELSE /\ heap' = h
                 /\ retptr' = NullPtr
                 /\ UNCHANGED free_list
      BY <1>2 DEF Enter
    <2>2. h \in [Block -> Owner] /\ \A b \in Block : h[b] # "ret"
      BY <1>2, SpillType DEF Enter, NoCallInProgress, IInv, Areas
    <2>3. free_list = <<>> /\ pc' = "own" /\ cur_fn_idx' = f /\ f # None /\ ~returned'
      BY <1>2, NoneIsNoFunction DEF Enter, NoCallInProgress, HostMayEnter, IInv, TypeOK, Control, Areas
    <2>4. CASE f \in RetArea
      <3>1. PICK b \in FreeBlocks(h) :
              /\ heap' = Allocate(h, b, "ret")
              /\ free_list' = Track(free_list, b)
              /\ retptr' = b
        BY <2>1, <2>4
      <3>2. b \in Block /\ free_list' = <<b>>
        BY <2>3, <3>1 DEF FreeBlocks, Track
      <3>3. \A x \in Block : heap'[x] = "ret" <=> x = b
        BY <2>2, <3>1, <3>2, AllocateType DEF Owner
      <3> QED
        BY <2>3, <2>4, <3>1, <3>2, <3>3 DEF Areas, AreaExpected
    <2>5. CASE f \notin RetArea
      BY <2>1, <2>2, <2>3, <2>5 DEF Areas, AreaExpected
    <2> QED
      BY <2>4, <2>5
  <1>3. ASSUME NEW f \in Fn, WrapperOutOfMemory(f) PROVE Areas'
    BY <1>3 DEF WrapperOutOfMemory, HostMayEnter, Die, IInv, TypeOK, Control, Areas, AreaExpected, Continuation, Dead
  <1>4. ASSUME NEW f \in Fn, EnterOutOfMemory(f) PROVE Areas'
    <2>1. heap' \in [Block -> Owner] /\ \A b \in Block : heap'[b] # "ret"
      BY <1>4, SpillType DEF EnterOutOfMemory, NoCallInProgress, IInv, Areas
    <2>2. /\ free_list' = <<>>
          /\ pc' = "host"
          /\ cur_fn_idx' = f
          /\ ~returned'
      BY <1>4, NoneIsNoFunction DEF EnterOutOfMemory, NoCallInProgress, HostMayEnter, Die, IInv, TypeOK, Control, Areas
    <2> QED
      BY <2>1, <2>2 DEF Areas, AreaExpected
  <1>5. ASSUME NEW f \in Fn, EnterRefused(f) PROVE Areas'
    BY <1>5, SpillType DEF EnterRefused, HostMayEnter, NoCallInProgress, Die, IInv, TypeOK, Control, Areas, AreaExpected, Continuation, Dead
  <1>6. ASSUME NEW f \in Fn, PostCallRefused(f) PROVE Areas'
    BY <1>6 DEF PostCallRefused, HostMayPost, Die, IInv, TypeOK, Control, Areas, AreaExpected, Continuation, Dead
  <1>7. ASSUME NEW f \in Fn, PostCall(f) PROVE Areas'
    <2>1. /\ free_list' = <<>>
          /\ pc' = "host"
          /\ ~returned'
      BY <1>7 DEF PostCall, HostMayPost
    <2>2. ASSUME NEW b \in Block
          PROVE  heap'[b] # "ret"
      <3>1. CASE free_list = <<b>>
        <4>1. b \in ToSet(free_list)
          BY <3>1 DEF ToSet
        <4> QED
          BY <1>7, <4>1 DEF PostCall, FreeAll
      <3>2. CASE free_list # <<b>>
        BY <1>7, <3>2 DEF PostCall, FreeAll, IInv, Areas
      <3> QED
        BY <3>1, <3>2
    <2> QED
      BY <2>1, <2>2 DEF Areas, AreaExpected
  <1>8. CASE Discarded
    BY <1>8 DEF Discarded, vars, IInv, TypeOK, Control, Areas, AreaExpected, Continuation, Dead
  <1>9. CASE JSAllocate
    <2>1. \A x \in Block : heap'[x] = "ret" <=> heap[x] = "ret"
      BY <1>9 DEF JSAllocate, FreeBlocks, Allocate, IInv, TypeOK, Owner
    <2> QED
      BY <1>9, <2>1 DEF JSAllocate, IInv, Areas, AreaExpected
  <1>10. CASE JSOutOfMemory
    BY <1>10 DEF JSOutOfMemory, JSStep, Die, IInv, TypeOK, Control, Areas, AreaExpected, Continuation, Dead
  <1>11. ASSUME NEW f \in Fn, ReenterRefused(f) PROVE Areas'
    BY <1>11, SpillType DEF ReenterRefused, JSStep, IInv, TypeOK, Control, Areas, AreaExpected, Continuation, Dead
  <1>12. CASE SpawnJob
    BY <1>12 DEF SpawnJob, JSStep, IInv, TypeOK, Control, Areas, AreaExpected, Continuation, Dead
  <1>13. CASE SpawnTask
    BY <1>13 DEF SpawnTask, JSStep, IInv, TypeOK, Control, Areas, AreaExpected, Continuation, Dead
  <1>14. CASE AwaitJob
    BY <1>14 DEF AwaitJob, JSStep, Yielded, IInv, TypeOK, Control, Areas, AreaExpected, Continuation, Dead
  <1>15. CASE AwaitTask
    BY <1>15 DEF AwaitTask, JSStep, Yielded, IInv, TypeOK, Control, Areas, AreaExpected, Continuation, Dead
  <1>16. CASE AwaitForever
    BY <1>16 DEF AwaitForever, Yielded, IInv, TypeOK, Control, Areas, AreaExpected, Continuation, Dead
  <1>17. ASSUME NEW o \in {"fulfilled", "rejected"}, Settle(o) PROVE Areas'
    BY <1>17 DEF Settle, Yielded, IInv, TypeOK, Control, Areas, AreaExpected, Continuation, Dead
  <1>18. CASE CallFails
    BY <1>18 DEF CallFails, Die, IInv, TypeOK, Control, Areas, AreaExpected, Continuation, Dead
  <1>19. CASE BackgroundEnds
    BY <1>19 DEF BackgroundEnds, IInv, TypeOK, Control, Areas, AreaExpected, Continuation, Dead
  <1>20. CASE AttachReactions
    BY <1>20 DEF AttachReactions, IInv, TypeOK, Control, Areas, AreaExpected, Continuation, Dead
  <1>21. CASE RunJob
    BY <1>21 DEF RunJob, IInv, TypeOK, Control, Areas, AreaExpected, Continuation, Dead
  <1>22. CASE RunReaction
    BY <1>22 DEF RunReaction, InterestGivenBack, IInv, TypeOK, Control, Areas, AreaExpected, Continuation, Dead
  <1>23. CASE RunTask
    BY <1>23 DEF RunTask, Waiting, IInv, TypeOK, Control, Areas, AreaExpected, Continuation, Dead
  <1>24. CASE TaskFails
    BY <1>24 DEF TaskFails, Waiting, Die, IInv, TypeOK, Control, Areas, AreaExpected, Continuation, Dead
  <1>25. CASE Starve
    BY <1>25 DEF Starve, Waiting, Die, IInv, TypeOK, Control, Areas, AreaExpected, Continuation, Dead
  <1>26. CASE Return
    <2>1. /\ pc = "loop" /\ cur_fn_idx \in Fn /\ ~returned
          /\ pc' = "host" /\ returned' /\ cur_fn_idx' = cur_fn_idx
          /\ cur_fn_idx # None
      BY <1>26, NoneIsNoFunction DEF Return, LoopDone, IInv, Control
    <2>2. CASE fn_idx \in Singular
      <3>1. free_list = <<>> /\ StoreSingle
        BY <1>26, <2>1, <2>2 DEF Return, IInv, Control, Areas
      <3> QED
        BY <2>1, <3>1, <1>a, StoreSingleArea DEF Areas, AreaExpected
    <2>3. CASE fn_idx \notin Singular
      BY <1>26, <2>1, <2>3 DEF Return, IInv, Control, Areas, AreaExpected
    <2> QED
      BY <2>2, <2>3
  <1>27. CASE ReturnOutOfMemory
    BY <1>27 DEF ReturnOutOfMemory, LoopDone, Die, IInv, TypeOK, Control, Areas, AreaExpected, Continuation, Dead
  <1>28. CASE NotFulfilled
    BY <1>28 DEF NotFulfilled, LoopDone, Die, IInv, TypeOK, Control, Areas, AreaExpected, Continuation, Dead
  <1>30. CASE ImportAborts
    BY <1>30 DEF ImportAborts, JSStep, Die, IInv, TypeOK, Control, Areas, AreaExpected, Continuation, Dead
  <1>31. CASE ReturnAborts
    <2>1. /\ pc' = "host" /\ ~returned' /\ cur_fn_idx' = cur_fn_idx /\ cur_fn_idx # None
          /\ fn_idx \in Singular /\ StoreSingle
      BY <1>31, NoneIsNoFunction DEF ReturnAborts, LoopDone, Die, IInv, Control
    <2>2. free_list = <<>>
      BY <1>31, <2>1 DEF ReturnAborts, LoopDone, IInv, Control, Areas
    <2> QED
      BY <2>1, <2>2, <1>a, StoreSingleArea DEF Areas, AreaExpected
  <1>29. CASE UNCHANGED vars
    BY <1>29 DEF vars, IInv, Areas, AreaExpected
  <1> QED
    BY <1>1, <1>2, <1>3, <1>4, <1>5, <1>6, <1>7, <1>8, <1>9, <1>10, <1>11, <1>12, <1>13, <1>14, <1>15, <1>16, <1>17, <1>18, <1>19, <1>20, <1>21, <1>22, <1>23, <1>24, <1>25, <1>26, <1>27, <1>28, <1>29, <1>30, <1>31
       DEF Next, Host, JavaScript, EventLoop

(* A step that neither moves control nor touches a promise keeps the phases.*)
LEMMA PhasesKept ==
  ASSUME Phases, UNCHANGED <<pc, self, promise, reaction, revived, cur_fn_idx, returned>>
  PROVE  Phases'
  BY DEF Phases, Dead

(* Neither does an abort inside a call, whose instance is dead.             *)
LEMMA PhasesAbort ==
  ASSUME IInv, pc # "host", pc' = "host",
         UNCHANGED <<promise, reaction, revived, cur_fn_idx, returned>>
  PROVE  Phases'
  <1>1. Dead'
    BY NoneIsNoFunction DEF IInv, Control, Dead
  <1> QED
    BY <1>1 DEF IInv, Phases

(* Where the code that yields goes is where its call is.                    *)
LEMMA PhasesYield ==
  ASSUME Phases, pc = "own", pc' = Yielded,
         UNCHANGED <<promise, reaction, revived, cur_fn_idx, returned>>
  PROVE  Phases'
  BY DEF Phases, Yielded

(* It keeps the phases of each call.                                        *)
LEMMA PhasesStep == IInv /\ [Next]_vars => Phases'
  <1> SUFFICES ASSUME IInv, [Next]_vars PROVE Phases'
    OBVIOUS
  <1>0. TypeOK /\ Control /\ Phases
    BY DEF IInv
  <1>r. revived \in Calls /\ self \in Calls /\ revived \in Nat
    BY <1>0, BoundAssumption DEF TypeOK, Calls
  <1> USE <1>0, NoneIsNoFunction DEF runtime, loopState, hostState
  <1>1. CASE LowerArgument
    BY <1>1, PhasesKept DEF LowerArgument, HostMayEnter, Die
  <1>2. ASSUME NEW f \in Fn, Enter(f) PROVE Phases'
    <2>1. /\ promise' = [promise EXCEPT ![revived] = "pending"]
          /\ reaction' = [reaction EXCEPT ![revived] = "none"]
          /\ pc' = "own" /\ self' = revived /\ revived' = revived
      BY <1>2 DEF Enter
    <2>2. /\ promise'[revived] = "pending" /\ reaction'[revived] = "none"
          /\ \A c \in Calls \ {revived} : promise'[c] = promise[c] /\ reaction'[c] = reaction[c]
      BY <1>r, <2>1 DEF TypeOK
    <2> QED
      BY <1>r, <2>1, <2>2 DEF Phases
  <1>3. ASSUME NEW f \in Fn,
               WrapperOutOfMemory(f) \/ EnterRefused(f) \/ PostCallRefused(f)
        PROVE  Phases'
    BY <1>3, PhasesKept DEF WrapperOutOfMemory, EnterRefused, PostCallRefused, HostMayEnter,
                            HostMayPost, Die
  <1>4. ASSUME NEW f \in Fn, EnterOutOfMemory(f) PROVE Phases'
    <2>1. Dead' /\ pc' = "host" /\ UNCHANGED <<promise, reaction, revived>>
      BY <1>4 DEF EnterOutOfMemory, HostMayEnter, NoCallInProgress, Die, Control, TypeOK, Dead
    <2> QED
      BY <2>1 DEF Phases
  <1>5. ASSUME NEW f \in Fn, PostCall(f) PROVE Phases'
    <2>1. /\ pc = "host" /\ pc' = "host" /\ UNCHANGED <<promise, reaction>>
          /\ f = cur_fn_idx /\ f # None
      BY <1>5 DEF PostCall, HostMayPost
    <2>2. CASE returned
      <3>1. revived' = revived
        BY <1>5, <2>2 DEF PostCall
      <3>2. ~Dead
        BY <2>2 DEF Dead
      <3> QED
        BY <2>1, <3>1, <3>2 DEF Phases
    <2>3. CASE ~returned
      <3>1. revived' = revived + 1 /\ revived' \in Calls
        BY <1>5, <1>r, <2>3, BoundAssumption DEF PostCall, Calls
      <3>2. promise[revived'] = "none"
        BY <1>r, <3>1 DEF Phases
      <3>3. \A c \in Calls : c <= revived => c <= revived'
        BY <1>r, <3>1 DEF Calls
      <3> QED
        BY <2>1, <3>2, <3>3 DEF Phases
    <2> QED
      BY <2>2, <2>3
  <1>6. CASE Discarded
    BY <1>6, PhasesKept DEF Discarded, vars
  <1>7. CASE JSAllocate \/ SpawnJob \/ SpawnTask
    BY <1>7, PhasesKept DEF JSAllocate, SpawnJob, SpawnTask
  <1>8. CASE JSOutOfMemory \/ ImportAborts \/ CallFails
    BY <1>8, PhasesAbort DEF JSOutOfMemory, ImportAborts, CallFails, JSStep, Continuation, Die
  <1>9. ASSUME NEW f \in Fn, ReenterRefused(f) PROVE Phases'
    BY <1>9, PhasesKept, PhasesAbort DEF ReenterRefused, JSStep, Continuation
  <1>10. CASE AwaitJob \/ AwaitTask \/ AwaitForever
    BY <1>10, PhasesYield DEF AwaitJob, AwaitTask, AwaitForever
  <1>11. ASSUME NEW o \in {"fulfilled", "rejected"}, Settle(o) PROVE Phases'
    <2>1. /\ promise' = [promise EXCEPT ![self] = o]
          /\ pc = "own" /\ pc' = Yielded /\ UNCHANGED <<self, revived, cur_fn_idx, returned>>
          /\ promise[self] = "pending"
      BY <1>11 DEF Settle
    <2>2. \A c \in Calls : promise'[c] # "none" <=> promise[c] # "none"
      BY <2>1 DEF TypeOK
    <2>3. \A c \in Calls : reaction'[c] = "none" <=> reaction[c] = "none"
      BY <1>r, <1>11 DEF Settle, TypeOK
    <2> QED
      BY <1>r, <2>1, <2>2, <2>3 DEF Phases, Yielded
  <1>12. CASE BackgroundEnds
    BY <1>12 DEF BackgroundEnds, Phases
  <1>13. CASE AttachReactions
    <2>1. /\ pc = "attach" /\ pc' = "loop" /\ UNCHANGED <<promise, revived>>
          /\ \A c \in Calls \ {revived} : reaction'[c] = reaction[c]
          /\ reaction'[revived] # "none"
      BY <1>r, <1>13 DEF AttachReactions, TypeOK
    <2> QED
      BY <1>r, <2>1 DEF Phases
  <1>14. CASE RunJob
    <2>1. /\ pc = "loop" /\ jobs # <<>> /\ UNCHANGED <<promise, reaction, revived>>
          /\ pc' = Head(jobs).kind /\ self' = Head(jobs).call /\ pc' \in Continuation
      BY <1>14 DEF RunJob
    <2>2. Head(jobs) = jobs[1] /\ 1 \in 1..Len(jobs) /\ Head(jobs).call \in Calls
      BY <2>1, JobFields
    <2>3. CASE pc' = "own"
      <3>1. 1 \in Suspended(jobs, self')
        BY <2>1, <2>2, <2>3 DEF Suspended
      <3>2. reaction[self'] # "none"
        BY <2>1, <2>2, <3>1 DEF IInv, OneContinuation, OneContinuationOf
      <3> QED
        BY <2>1, <2>3, <3>2 DEF Phases
    <2>4. CASE pc' = "background"
      BY <2>1, <2>4 DEF Phases
    <2> QED
      BY <2>1, <2>3, <2>4 DEF Continuation
  <1>15. CASE RunReaction
    <2>1. PICK c \in Calls : c = Head(jobs).call /\ reaction[c] = "queued"
      BY <1>15, HeadReaction DEF RunReaction, IInv
    <2>2. /\ pc = "loop" /\ pc' = "loop" /\ UNCHANGED <<promise, revived>>
          /\ reaction'[c] = "run" /\ \A d \in Calls \ {c} : reaction'[d] = reaction[d]
      BY <1>15, <2>1 DEF RunReaction, TypeOK
    <2> QED
      BY <1>r, <2>1, <2>2 DEF Phases
  <1>16. CASE RunTask
    BY <1>16 DEF RunTask, Waiting, Phases
  <1>17. CASE TaskFails \/ Starve \/ ReturnAborts \/ ReturnOutOfMemory \/ NotFulfilled
    BY <1>17, PhasesAbort DEF TaskFails, Starve, ReturnAborts, ReturnOutOfMemory, NotFulfilled,
                              Waiting, LoopDone, Die
  <1>18. CASE Return
    <2>1. interest = 0 /\ pc = "loop" /\ pc' = "host" /\ UNCHANGED <<promise, reaction, revived>>
      BY <1>18 DEF Return, LoopDone
    <2>2. Unanswered = {}
      BY <2>1, UnansweredFinite, FS_EmptySet DEF IInv, InterestBalanced
    <2>3. reaction[revived] = "run"
      BY <1>r, <2>1, <2>2 DEF Phases, Unanswered
    <2> QED
      BY <2>1, <2>3 DEF Phases
  <1>19. CASE UNCHANGED vars
    BY <1>19, PhasesKept DEF vars
  <1> QED
    BY <1>1, <1>2, <1>3, <1>4, <1>5, <1>6, <1>7, <1>8, <1>9, <1>10, <1>11, <1>12, <1>13, <1>14,
       <1>15, <1>16, <1>17, <1>18, <1>19
       DEF Next, Host, JavaScript, EventLoop

(* A step that answers no call and opens none keeps the interest.           *)
LEMMA InterestKept ==
  ASSUME InterestBalanced, UNCHANGED interest,
         \A c \in Calls : /\ promise'[c] # "none" <=> promise[c] # "none"
                          /\ reaction'[c] # "run" <=> reaction[c] # "run"
  PROVE  InterestBalanced'
  <1>1. Unanswered' = Unanswered
    BY DEF Unanswered
  <1> QED
    BY <1>1 DEF InterestBalanced

(* It keeps the interest equal to the number of unanswered calls.           *)
LEMMA InterestStep == IInv /\ [Next]_vars => InterestBalanced'
  <1> SUFFICES ASSUME IInv, [Next]_vars PROVE InterestBalanced'
    OBVIOUS
  <1>0. TypeOK /\ Control /\ Phases /\ InterestBalanced
    BY DEF IInv
  <1>r. revived \in Calls /\ self \in Calls
    BY <1>0 DEF TypeOK
  <1> USE <1>0 DEF runtime, loopState, hostState
  <1>1. ASSUME NEW f \in Fn, Enter(f) PROVE InterestBalanced'
    <2>1. /\ promise' = [promise EXCEPT ![revived] = "pending"]
          /\ reaction' = [reaction EXCEPT ![revived] = "none"]
          /\ interest' = interest + 1
          /\ pc = "host" /\ ~Dead
      BY <1>1 DEF Enter, HostMayEnter, NoCallInProgress, Dead
    <2>2. /\ promise'[revived] = "pending" /\ reaction'[revived] = "none"
          /\ \A c \in Calls \ {revived} : promise'[c] = promise[c] /\ reaction'[c] = reaction[c]
      BY <1>r, <2>1 DEF TypeOK
    <2>3. revived \notin Unanswered
      BY <2>1 DEF Phases, Unanswered
    <2>4. Unanswered' = Unanswered \cup {revived}
      BY <1>r, <2>2 DEF Unanswered
    <2> QED
      BY <2>1, <2>3, <2>4, UnansweredFinite, FS_AddElement DEF InterestBalanced
  <1>2. ASSUME NEW f \in Fn, PostCall(f) \/ WrapperOutOfMemory(f) \/ EnterOutOfMemory(f)
                             \/ EnterRefused(f) \/ PostCallRefused(f) \/ ReenterRefused(f)
        PROVE  InterestBalanced'
    BY <1>2, InterestKept DEF PostCall, WrapperOutOfMemory, EnterOutOfMemory, EnterRefused,
                              PostCallRefused, ReenterRefused
  <1>3. CASE LowerArgument \/ Discarded \/ UNCHANGED vars
    BY <1>3, InterestKept DEF LowerArgument, Discarded, vars
  <1>4. CASE JSAllocate \/ JSOutOfMemory \/ ImportAborts \/ SpawnJob \/ SpawnTask \/ CallFails
             \/ BackgroundEnds
    BY <1>4, InterestKept DEF JSAllocate, JSOutOfMemory, ImportAborts, SpawnJob, SpawnTask,
                              CallFails, BackgroundEnds
  <1>5. CASE AwaitJob \/ AwaitTask \/ AwaitForever
    BY <1>5, InterestKept DEF AwaitJob, AwaitTask, AwaitForever
  <1>6. ASSUME NEW o \in {"fulfilled", "rejected"}, Settle(o) PROVE InterestBalanced'
    <2>1. \A c \in Calls : promise'[c] # "none" <=> promise[c] # "none"
      BY <1>6 DEF Settle, TypeOK
    <2>2. \A c \in Calls : reaction'[c] # "run" <=> reaction[c] # "run"
      BY <1>6 DEF Settle, TypeOK
    <2> QED
      BY <1>6, <2>1, <2>2, InterestKept DEF Settle
  <1>7. CASE AttachReactions
    <2>1. \A c \in Calls : reaction'[c] # "run" <=> reaction[c] # "run"
      BY <1>7, <1>r DEF AttachReactions, Phases, TypeOK
    <2> QED
      BY <1>7, <2>1, InterestKept DEF AttachReactions
  <1>8. CASE RunReaction
    <2>1. PICK c \in Calls : c = Head(jobs).call /\ reaction[c] = "queued"
      BY <1>8, HeadReaction DEF RunReaction, IInv
    <2>2. /\ UNCHANGED promise /\ interest' = interest - 1
          /\ reaction'[c] = "run" /\ \A d \in Calls \ {c} : reaction'[d] = reaction[d]
      BY <1>8, <2>1 DEF RunReaction, InterestGivenBack, TypeOK
    <2>3. c \in Unanswered /\ Unanswered' = Unanswered \ {c}
      BY <2>1, <2>2 DEF Unanswered, Phases
    <2> QED
      BY <2>2, <2>3, UnansweredFinite, FS_RemoveElement DEF InterestBalanced
  <1>9. CASE RunJob \/ RunTask \/ TaskFails \/ Starve \/ Return \/ ReturnAborts
             \/ ReturnOutOfMemory \/ NotFulfilled
    BY <1>9, InterestKept DEF RunJob, RunTask, TaskFails, Starve, Return, ReturnAborts,
                              ReturnOutOfMemory, NotFulfilled
  <1> QED
    BY <1>1, <1>2, <1>3, <1>4, <1>5, <1>6, <1>7, <1>8, <1>9 DEF Next, Host, JavaScript, EventLoop

(* It keeps the reaction in the microtask queue at most once. *)
LEMMA ReactionJobStep == IInv /\ [Next]_vars => ReactionJob'
  <1> SUFFICES ASSUME IInv, [Next]_vars PROVE ReactionJob'
    OBVIOUS
  <1>0. TypeOK /\ ReactionJob /\ Control /\ Phases
    BY DEF IInv
  <1>r. revived \in Calls /\ self \in Calls
    BY <1>0 DEF TypeOK
  <1> USE <1>0 DEF runtime, loopState, hostState
  <1>1. CASE LowerArgument
    BY <1>1, JobKept DEF LowerArgument, HostMayEnter, Die
  <1>2. ASSUME NEW f \in Fn, Enter(f) PROVE ReactionJob'
    <2>1. /\ reaction' = [reaction EXCEPT ![revived] = "none"] /\ UNCHANGED jobs
          /\ pc = "host" /\ ~Dead
      BY <1>2 DEF Enter, HostMayEnter, NoCallInProgress, Dead
    <2>2. reaction[revived] # "queued"
      BY <1>r, <2>1 DEF Phases
    <2>3. \A c \in Calls : reaction[c] = "queued" => reaction'[c] = "queued"
      BY <2>1, <2>2 DEF TypeOK
    <2> QED
      BY <2>1, <2>3, JobKept
  <1>3. ASSUME NEW f \in Fn, WrapperOutOfMemory(f) PROVE ReactionJob'
    BY <1>3, JobKept DEF WrapperOutOfMemory, HostMayEnter, Die
  <1>4. ASSUME NEW f \in Fn, EnterOutOfMemory(f) PROVE ReactionJob'
    BY <1>4, JobKept DEF EnterOutOfMemory, HostMayEnter, NoCallInProgress, Die
  <1>5. ASSUME NEW f \in Fn, EnterRefused(f) PROVE ReactionJob'
    BY <1>5, JobKept DEF EnterRefused, HostMayEnter, NoCallInProgress, Die
  <1>6. ASSUME NEW f \in Fn, PostCallRefused(f) PROVE ReactionJob'
    BY <1>6, JobKept DEF PostCallRefused, HostMayPost, Die
  <1>7. ASSUME NEW f \in Fn, PostCall(f) PROVE ReactionJob'
    BY <1>7, JobKept DEF PostCall
  <1>8. CASE Discarded
    BY <1>8, JobKept DEF Discarded, vars
  <1>9. CASE JSAllocate
    BY <1>9, JobKept DEF JSAllocate, JSStep
  <1>10. CASE JSOutOfMemory
    BY <1>10, JobKept DEF JSOutOfMemory, JSStep, Die
  <1>11. ASSUME NEW f \in Fn, ReenterRefused(f) PROVE ReactionJob'
    BY <1>11, JobKept DEF ReenterRefused, JSStep
  <1>12. CASE SpawnJob
    BY <1>12, JobAppended, JobFields DEF SpawnJob, Background
  <1>13. CASE SpawnTask
    BY <1>13, JobKept DEF SpawnTask, JSStep
  <1>14. CASE AwaitJob
    BY <1>14, <1>r, JobAppended, JobFields DEF AwaitJob, Own
  <1>15. CASE AwaitTask
    BY <1>15, JobKept DEF AwaitTask, JSStep, Yielded
  <1>16. CASE AwaitForever
    BY <1>16, JobKept DEF AwaitForever, Yielded
  <1>17. ASSUME NEW o \in {"fulfilled", "rejected"}, Settle(o) PROVE ReactionJob'
    <2>1. CASE reaction[self] = "registered"
      BY <1>17, <1>r, <2>1, ReactionAppended DEF Settle
    <2>2. CASE reaction[self] # "registered"
      BY <1>17, <2>2, JobKept DEF Settle
    <2> QED
      BY <2>1, <2>2
  <1>18. CASE CallFails
    BY <1>18, JobKept DEF CallFails, Die
  <1>19. CASE BackgroundEnds
    BY <1>19, JobKept DEF BackgroundEnds
  <1>20. CASE AttachReactions
    <2>0. reaction[revived] = "none"
      BY <1>20 DEF AttachReactions, Phases
    <2>1. CASE promise[revived] = "pending"
      <3>1. \A c \in Calls : reaction[c] = "queued" => reaction'[c] = "queued"
        BY <1>20, <2>0, <2>1 DEF AttachReactions, TypeOK
      <3> QED
        BY <1>20, <2>1, <3>1, JobKept DEF AttachReactions
    <2>2. CASE promise[revived] # "pending"
      BY <1>20, <1>r, <2>0, <2>2, ReactionAppended DEF AttachReactions
    <2> QED
      BY <2>1, <2>2
  <1>21. CASE RunJob
    BY <1>21, JobTaken DEF RunJob
  <1>22. CASE RunReaction
    BY <1>22, JobTaken DEF RunReaction, InterestGivenBack
  <1>23. CASE RunTask
    <2>1. PICK i \in DOMAIN tasks :
            IF tasks[i].kind = "own" THEN jobs' = Append(jobs, tasks[i]) ELSE UNCHANGED jobs
      BY <1>23 DEF RunTask
    <2>2. UNCHANGED reaction
      BY <1>23 DEF RunTask
    <2>3. CASE tasks[i].kind = "own"
      BY <2>1, <2>2, <2>3, JobAppended, JobFields
    <2>4. CASE tasks[i].kind # "own"
      BY <2>1, <2>2, <2>4, JobKept
    <2> QED
      BY <2>3, <2>4
  <1>24. CASE TaskFails
    BY <1>24, JobKept DEF TaskFails, Waiting, Die
  <1>25. CASE Starve
    BY <1>25, JobKept DEF Starve, Waiting, Die
  <1>26. CASE Return
    BY <1>26, JobKept DEF Return, LoopDone
  <1>27. CASE ReturnOutOfMemory
    BY <1>27, JobKept DEF ReturnOutOfMemory, LoopDone, Die
  <1>28. CASE NotFulfilled
    BY <1>28, JobKept DEF NotFulfilled, LoopDone, Die
  <1>30. CASE ImportAborts
    BY <1>30, JobKept DEF ImportAborts
  <1>31. CASE ReturnAborts
    BY <1>31, JobKept DEF ReturnAborts
  <1>29. CASE UNCHANGED vars
    BY <1>29, JobKept DEF vars
  <1> QED
    BY <1>1, <1>2, <1>3, <1>4, <1>5, <1>6, <1>7, <1>8, <1>9, <1>10, <1>11, <1>12, <1>13, <1>14, <1>15, <1>16, <1>17, <1>18, <1>19, <1>20, <1>21, <1>22, <1>23, <1>24, <1>25, <1>26, <1>27, <1>28, <1>29, <1>30, <1>31
       DEF Next, Host, JavaScript, EventLoop

(* A queue s that becomes u holds no continuation of c it did not hold.     *)
Fewer(s, u, c) ==
  /\ Suspended(s, c) = {} => Suspended(u, c) = {}
  /\ Single(Suspended(s, c)) => Single(Suspended(u, c))

LEMMA FewerSame == ASSUME NEW s, NEW c PROVE Fewer(s, s, c)
  BY DEF Fewer

(* Steps that resume nothing and lose, at most, a continuation of c.        *)
LEMMA ContinuationLost ==
  ASSUME NEW c \in Calls, OneContinuationOf(c),
         Fewer(jobs, jobs', c), Fewer(tasks, tasks', c),
         promise'[c] = promise[c],
         reaction[c] # "none" => reaction'[c] # "none",
         Running(c)' => Running(c),
         pc = "attach" /\ c = revived
           => reaction'[c] # "none" \/ (pc' = "attach" /\ revived' = revived),
         pc' = "host" /\ ~Dead'
           => (pc = "host" /\ ~Dead /\ revived' = revived) \/ c # revived' \/ promise[c] # "pending"
  PROVE  OneContinuationOf(c)'
  BY DEF OneContinuationOf, Fewer

(* A call that dies leaves its continuation where it is. *)
LEMMA DiesInCall ==
  ASSUME IInv, pc \notin {"host", "attach"}, pc' = "host",
         UNCHANGED <<cur_fn_idx, returned, jobs, promise, reaction>>,
         \A c \in Calls : Fewer(tasks, tasks', c)
  PROVE  OneContinuation'
  <1>1. Dead'
    BY NoneIsNoFunction DEF IInv, Control, Dead
  <1>2. ASSUME NEW c \in Calls PROVE OneContinuationOf(c)'
    <2>1. OneContinuationOf(c) /\ ~Running(c)'
      BY DEF IInv, OneContinuation, Running
    <2> QED
      BY <1>1, <2>1, FewerSame, ContinuationLost
  <1> QED
    BY <1>2 DEF OneContinuation

(* What the host does between calls queues nothing. *)
LEMMA BetweenCalls ==
  ASSUME IInv, pc = "host", pc' = "host",
         UNCHANGED <<jobs, tasks, promise, reaction, revived>>, Dead => Dead'
  PROVE  OneContinuation'
  <1>1. ASSUME NEW c \in Calls PROVE OneContinuationOf(c)'
    <2>1. OneContinuationOf(c) /\ ~Running(c)'
      BY DEF IInv, OneContinuation, Running
    <2> QED
      BY <2>1, FewerSame, ContinuationLost
  <1> QED
    BY <1>1 DEF OneContinuation

(* It keeps the continuation of each call unique, whatever the host does,   *)
LEMMA HostContinues == IInv /\ Host => OneContinuation'
  <1> SUFFICES ASSUME IInv, Host PROVE OneContinuation'
    OBVIOUS
  <1>0. TypeOK /\ Control /\ Phases /\ OneContinuation
    BY DEF IInv
  <1>r. revived \in Calls
    BY <1>0 DEF TypeOK
  <1> USE DEF runtime, loopState, hostState, HostMayEnter, HostMayPost, NoCallInProgress, Die
  <1>1. CASE LowerArgument
    BY <1>1, BetweenCalls DEF LowerArgument, Dead
  <1>2. ASSUME NEW f \in Fn, Enter(f) PROVE OneContinuation'
    <2>1. /\ pc = "host" /\ ~Dead /\ pc' = "own" /\ self' = revived
          /\ UNCHANGED <<jobs, tasks, revived>>
          /\ promise' = [promise EXCEPT ![revived] = "pending"]
          /\ reaction' = [reaction EXCEPT ![revived] = "none"]
      BY <1>2 DEF Enter, Dead
    <2>2. ASSUME NEW c \in Calls, c # revived PROVE OneContinuationOf(c)'
      <3>1. promise'[c] = promise[c] /\ reaction'[c] = reaction[c] /\ ~Running(c)'
        BY <1>0, <2>1, <2>2 DEF TypeOK, Running
      <3>2. OneContinuationOf(c)
        BY <1>0 DEF OneContinuation
      <3> QED
        BY <2>1, <2>2, <3>1, <3>2, FewerSame, ContinuationLost
    <2>3. OneContinuationOf(revived)'
      <3>1. Suspended(jobs, revived) = {} /\ Suspended(tasks, revived) = {}
        BY <1>0, <1>r, <2>1 DEF OneContinuation, OneContinuationOf
      <3>2. promise'[revived] = "pending"
        BY <1>0, <1>r, <2>1 DEF TypeOK
      <3> QED
        BY <2>1, <3>1, <3>2 DEF OneContinuationOf, Single
    <2> QED
      BY <2>1, <2>2, <2>3 DEF OneContinuation
  <1>3. ASSUME NEW f \in Fn,
               WrapperOutOfMemory(f) \/ EnterRefused(f) \/ PostCallRefused(f)
        PROVE  OneContinuation'
    BY <1>3, BetweenCalls DEF WrapperOutOfMemory, EnterRefused, PostCallRefused, Dead
  <1>4. ASSUME NEW f \in Fn, EnterOutOfMemory(f) PROVE OneContinuation'
    BY <1>4, BetweenCalls DEF EnterOutOfMemory, Dead
  <1>5. ASSUME NEW f \in Fn, PostCall(f) PROVE OneContinuation'
    <2>1. CASE returned
      <3>1. pc = "host" /\ pc' = "host" /\ UNCHANGED <<jobs, tasks, promise, reaction, revived>>
        BY <1>5, <2>1 DEF PostCall
      <3> QED
        BY <2>1, <3>1, BetweenCalls DEF Dead
    <2>2. CASE ~returned
      <3>1. /\ pc = "host" /\ pc' = "host" /\ UNCHANGED <<jobs, tasks, promise, reaction>>
            /\ revived' = revived + 1 /\ revived' \in Calls
        BY <1>5, <1>r, <2>2, BoundAssumption DEF PostCall, Calls
      <3>2. promise[revived'] = "none"
        BY <1>0, <1>r, <3>1 DEF Phases, Calls
      <3>3. ASSUME NEW c \in Calls PROVE OneContinuationOf(c)'
        <4>1. OneContinuationOf(c) /\ ~Running(c)'
          BY <1>0, <3>1 DEF OneContinuation, Running
        <4> QED
          BY <3>1, <3>2, <4>1, FewerSame, ContinuationLost
      <3> QED
        BY <3>3 DEF OneContinuation
    <2> QED
      BY <2>1, <2>2
  <1>6. CASE Discarded
    BY <1>6, BetweenCalls DEF Discarded, vars, Dead
  <1> QED
    BY <1>1, <1>2, <1>3, <1>4, <1>5, <1>6 DEF Host

(* whatever the JavaScript does,                                            *)
LEMMA JavaScriptContinues == IInv /\ JavaScript => OneContinuation'
  <1> SUFFICES ASSUME IInv, JavaScript PROVE OneContinuation'
    OBVIOUS
  <1>0. TypeOK /\ Control /\ Phases /\ OneContinuation
    BY DEF IInv
  <1>r. /\ revived \in Calls /\ self \in Calls
        /\ jobs \in Seq(Job) /\ tasks \in Seq(Task)
    BY <1>0 DEF TypeOK
  <1>j. /\ Background \in Job /\ Background \in Task /\ Background.kind # "own"
        /\ Own(self) \in Job /\ Own(self) \in Task
        /\ Own(self).kind = "own" /\ Own(self).call = self
        /\ React(self) \in Job /\ React(self).kind # "own"
    BY <1>0, <1>r, JobFields DEF Background, Own, React
  <1>b. \A c : Suspended(Append(jobs, Background), c) = Suspended(jobs, c)
    BY <1>r, <1>j, SuspendedAppend
  <1>t. \A c : Suspended(Append(tasks, Background), c) = Suspended(tasks, c)
    BY <1>r, <1>j, SuspendedAppend
  <1> USE DEF runtime, loopState, hostState, JSStep, Die, Continuation
  <1>1. CASE JSAllocate
    BY <1>0, <1>1 DEF JSAllocate, OneContinuation, OneContinuationOf, Running, Dead
  <1>2. CASE JSOutOfMemory \/ ImportAborts \/ CallFails
    BY <1>2, FewerSame, DiesInCall DEF JSOutOfMemory, ImportAborts, CallFails
  <1>3. ASSUME NEW f \in Fn, ReenterRefused(f) PROVE OneContinuation'
    <2>1. CASE pc' = "host"
      BY <1>3, <2>1, FewerSame, DiesInCall DEF ReenterRefused
    <2>2. CASE pc' = pc
      BY <1>0, <1>3, <2>2 DEF ReenterRefused, OneContinuation, OneContinuationOf, Running, Dead
    <2> QED
      BY <1>3, <2>1, <2>2 DEF ReenterRefused
  <1>4. CASE SpawnJob
    <2>1. \A c : Suspended(jobs', c) = Suspended(jobs, c)
      BY <1>4, <1>b DEF SpawnJob
    <2> QED
      BY <1>0, <1>4, <2>1 DEF SpawnJob, OneContinuation, OneContinuationOf, Running, Dead
  <1>5. CASE SpawnTask
    <2>1. \A c : Suspended(tasks', c) = Suspended(tasks, c)
      BY <1>5, <1>t DEF SpawnTask
    <2> QED
      BY <1>0, <1>5, <2>1 DEF SpawnTask, OneContinuation, OneContinuationOf, Running, Dead
  <1>6. ASSUME AwaitJob \/ AwaitTask \/ AwaitForever
        PROVE  OneContinuation'
    <2>1. /\ pc = "own" /\ pc' = Yielded
          /\ UNCHANGED <<self, promise, reaction, revived, cur_fn_idx, returned>>
          /\ \/ jobs' = Append(jobs, Own(self)) /\ UNCHANGED tasks
             \/ tasks' = Append(tasks, Own(self)) /\ UNCHANGED jobs
             \/ UNCHANGED <<jobs, tasks>>
      BY <1>6 DEF AwaitJob, AwaitTask, AwaitForever
    <2>2. pc' \in {"attach", "loop"} /\ (pc' = "loop" => reaction[self] # "none")
      BY <2>1 DEF Yielded
    <2>3. ASSUME NEW c \in Calls, c # self PROVE OneContinuationOf(c)'
      <3>1. OneContinuationOf(c) /\ ~Running(c)'
        BY <1>0, <2>2 DEF OneContinuation, Running
      <3>2. /\ Suspended(Append(jobs, Own(self)), c) = Suspended(jobs, c)
            /\ Suspended(Append(tasks, Own(self)), c) = Suspended(tasks, c)
        <4>1. Own(self).call # c
          BY <1>j, <2>3
        <4> QED
          BY <1>r, <1>j, <4>1, SuspendedAppend
      <3>3. Fewer(jobs, jobs', c) /\ Fewer(tasks, tasks', c)
        BY <2>1, <3>2 DEF Fewer
      <3> QED
        BY <2>1, <2>2, <3>1, <3>3, ContinuationLost
    <2>4. OneContinuationOf(self)'
      <3>1. /\ Suspended(jobs, self) = {} /\ Suspended(tasks, self) = {}
            /\ promise[self] = "pending"
        BY <1>0, <1>r, <2>1 DEF OneContinuation, OneContinuationOf, Running
      <3>2. /\ Suspended(jobs', self) = {} \/ Suspended(tasks', self) = {}
            /\ Single(Suspended(jobs', self)) /\ Single(Suspended(tasks', self))
        <4>1. /\ Single(Suspended(Append(jobs, Own(self)), self))
              /\ Single(Suspended(Append(tasks, Own(self)), self))
          BY <1>r, <1>j, <3>1, SuspendedAppend
        <4>2. Single(Suspended(jobs, self)) /\ Single(Suspended(tasks, self))
          BY <3>1 DEF Single
        <4>3. CASE jobs' = Append(jobs, Own(self)) /\ UNCHANGED tasks
          BY <3>1, <4>1, <4>2, <4>3
        <4>4. CASE tasks' = Append(tasks, Own(self)) /\ UNCHANGED jobs
          BY <3>1, <4>1, <4>2, <4>4
        <4>5. CASE UNCHANGED <<jobs, tasks>>
          BY <3>1, <4>2, <4>5
        <4> QED
          BY <2>1, <4>3, <4>4, <4>5
      <3>3. reaction[self] # "none" \/ (pc' = "attach" /\ self = revived)
        BY <1>0, <2>1 DEF Yielded, Phases
      <3> QED
        BY <2>1, <2>2, <3>1, <3>2, <3>3 DEF OneContinuationOf, Running
    <2> QED
      BY <2>1, <2>3, <2>4 DEF OneContinuation
  <1>9. ASSUME NEW outcome \in {"fulfilled", "rejected"}, Settle(outcome)
        PROVE  OneContinuation'
    <2>1. /\ pc = "own" /\ pc' = Yielded
          /\ UNCHANGED <<self, revived, cur_fn_idx, returned, tasks>>
          /\ promise' = [promise EXCEPT ![self] = outcome]
          /\ jobs' = Append(jobs, React(self)) \/ UNCHANGED jobs
          /\ reaction' = [reaction EXCEPT ![self] = "queued"] \/ UNCHANGED reaction
      BY <1>9 DEF Settle
    <2>2. pc' \in {"attach", "loop"}
      BY <2>1 DEF Yielded
    <2>3. \A c \in Calls : Suspended(jobs', c) = Suspended(jobs, c)
      <3>1. CASE jobs' = Append(jobs, React(self))
        BY <1>r, <1>j, <3>1, SuspendedAppend
      <3> QED
        BY <2>1, <3>1
    <2>4. ASSUME NEW c \in Calls, c # self PROVE OneContinuationOf(c)'
      <3>1. OneContinuationOf(c) /\ ~Running(c)'
        BY <1>0, <2>2 DEF OneContinuation, Running
      <3>2. promise'[c] = promise[c] /\ reaction'[c] = reaction[c]
        BY <1>0, <2>1, <2>4 DEF TypeOK
      <3>3. Fewer(jobs, jobs', c) /\ Fewer(tasks, tasks', c)
        BY <2>1, <2>3, FewerSame DEF Fewer
      <3> QED
        BY <2>1, <2>2, <3>1, <3>2, <3>3, ContinuationLost
    <2>5. OneContinuationOf(self)'
      <3>1. Suspended(jobs, self) = {} /\ Suspended(tasks, self) = {}
        BY <1>0, <1>r, <2>1 DEF OneContinuation, OneContinuationOf, Running
      <3>2. Suspended(jobs', self) = {} /\ Suspended(tasks', self) = {}
        BY <1>r, <2>1, <2>3, <3>1
      <3> QED
        BY <2>1, <2>2, <3>2 DEF OneContinuationOf, Running, Single
    <2> QED
      BY <2>1, <2>4, <2>5 DEF OneContinuation
  <1>10. CASE BackgroundEnds
    BY <1>0, <1>10 DEF BackgroundEnds, OneContinuation, OneContinuationOf, Running, Dead
  <1> QED
    BY <1>1, <1>2, <1>3, <1>4, <1>5, <1>6, <1>9, <1>10 DEF JavaScript

(* What is left of the continuations of c when entry i of s resumes it.     *)
TaskTaken(s, i, c) ==
  s[i].kind = "own" /\ s[i].call = c =>
    /\ Suspended(s, c) # {}
    /\ Single(Suspended(s, c)) => Suspended(RemoveAt(s, i), c) = {}

LEMMA TaskIsTaken ==
  ASSUME NEW S, NEW s \in Seq(S), NEW i \in DOMAIN s, NEW c
  PROVE  TaskTaken(s, i, c)
  <1>1. /\ Single(Suspended(s, c)) /\ s[i].kind = "own" /\ s[i].call = c
             => Suspended(RemoveAt(s, i), c) = {}
        /\ s[i].kind = "own" /\ s[i].call = c => Suspended(s, c) # {}
    BY SuspendedRemove
  <1> QED
    BY <1>1 DEF TaskTaken

(* and whatever the event loop runs.                                        *)
LEMMA EventLoopContinues == IInv /\ EventLoop => OneContinuation'
  <1> SUFFICES ASSUME IInv, EventLoop PROVE OneContinuation'
    OBVIOUS
  <1>0. TypeOK /\ Control /\ Phases /\ OneContinuation
    BY DEF IInv
  <1>r. /\ revived \in Calls /\ self \in Calls
        /\ jobs \in Seq(Job) /\ tasks \in Seq(Task)
    BY <1>0 DEF TypeOK
  <1>o. \A c \in Calls : OneContinuationOf(c)
    BY <1>0 DEF OneContinuation
  <1> USE DEF runtime, loopState, hostState, Die, Waiting, LoopDone
  <1>1. CASE AttachReactions
    <2>1. /\ pc = "attach" /\ pc' = "loop" /\ UNCHANGED <<promise, revived, tasks>>
          /\ jobs' = Append(jobs, React(revived)) \/ UNCHANGED jobs
          /\ reaction'[revived] # "none"
          /\ \A c \in Calls \ {revived} : reaction'[c] = reaction[c]
      BY <1>0, <1>r, <1>1 DEF AttachReactions, TypeOK
    <2>2. \A c \in Calls : Fewer(jobs, jobs', c)
      <3>1. React(revived) \in Job /\ React(revived).kind # "own"
        BY <1>0, <1>r, JobFields DEF React
      <3>2. \A c : Suspended(Append(jobs, React(revived)), c) = Suspended(jobs, c)
        BY <1>r, <3>1, SuspendedAppend
      <3> QED
        BY <2>1, <3>2 DEF Fewer
    <2>3. ASSUME NEW c \in Calls PROVE OneContinuationOf(c)'
      <3>1. ~Running(c)' /\ Fewer(tasks, tasks', c)
        BY <2>1, FewerSame DEF Running
      <3>2. reaction[c] # "none" => reaction'[c] # "none"
        BY <2>1
      <3> QED
        BY <1>o, <2>1, <2>2, <3>1, <3>2, ContinuationLost
    <2> QED
      BY <2>3 DEF OneContinuation
  <1>2. CASE RunJob
    <2>1. /\ pc = "loop" /\ jobs # <<>> /\ jobs' = Tail(jobs)
          /\ pc' = Head(jobs).kind /\ self' = Head(jobs).call /\ pc' \in Continuation
          /\ UNCHANGED <<tasks, promise, reaction, revived>>
      BY <1>2 DEF RunJob
    <2>2. pc' \in {"own", "background"}
      BY <2>1 DEF Continuation
    <2>3. ASSUME NEW c \in Calls, ~Running(c)' PROVE OneContinuationOf(c)'
      <3>1. /\ Suspended(jobs, c) = {} => Suspended(Tail(jobs), c) = {}
            /\ Single(Suspended(jobs, c)) => Single(Suspended(Tail(jobs), c))
        BY <1>r, <2>1, SuspendedTail
      <3>2. Fewer(jobs, jobs', c) /\ Fewer(tasks, tasks', c)
        BY <2>1, <3>1 DEF Fewer
      <3> QED
        BY <1>o, <2>1, <2>2, <2>3, <3>2, ContinuationLost
    <2>4. ASSUME NEW c \in Calls, Running(c)' PROVE OneContinuationOf(c)'
      <3>1. Head(jobs).kind = "own" /\ Head(jobs).call = c
        BY <2>1, <2>4 DEF Running
      <3>2. OneContinuationOf(c)
        BY <1>o
      <3>3. Suspended(jobs, c) # {} /\ Suspended(jobs', c) = {}
        <4>1. Single(Suspended(jobs, c))
          BY <3>2 DEF OneContinuationOf
        <4>2. Suspended(jobs, c) # {} /\ Suspended(Tail(jobs), c) = {}
          BY <1>r, <2>1, <3>1, <4>1, SuspendedTail
        <4> QED
          BY <2>1, <4>2
      <3> QED
        BY <2>1, <2>2, <3>2, <3>3 DEF OneContinuationOf, Single
    <2> QED
      BY <2>3, <2>4 DEF OneContinuation
  <1>3. CASE RunReaction
    <2>1. PICK d \in Calls : d = Head(jobs).call
      BY <1>3, HeadReaction DEF RunReaction, IInv
    <2>2. /\ pc = "loop" /\ pc' = "loop" /\ jobs # <<>> /\ jobs' = Tail(jobs)
          /\ UNCHANGED <<tasks, promise, revived>>
          /\ reaction' = [reaction EXCEPT ![d] = "run"]
      BY <1>3, <2>1 DEF RunReaction
    <2>3. \A c \in Calls : reaction[c] # "none" => reaction'[c] # "none"
      BY <1>0, <2>1, <2>2 DEF TypeOK
    <2>4. ASSUME NEW c \in Calls PROVE OneContinuationOf(c)'
      <3>1. /\ Suspended(jobs, c) = {} => Suspended(Tail(jobs), c) = {}
            /\ Single(Suspended(jobs, c)) => Single(Suspended(Tail(jobs), c))
        BY <1>r, <2>2, SuspendedTail
      <3>2. Fewer(jobs, jobs', c) /\ Fewer(tasks, tasks', c) /\ ~Running(c)'
        BY <2>2, <3>1 DEF Fewer, Running
      <3> QED
        BY <1>o, <2>2, <2>3, <3>2, ContinuationLost
    <2> QED
      BY <2>4 DEF OneContinuation
  <1>4. CASE RunTask
    <2>1. PICK i \in DOMAIN tasks :
            /\ tasks' = RemoveAt(tasks, i)
            /\ IF tasks[i].kind = "own"
               THEN jobs' = Append(jobs, tasks[i]) /\ UNCHANGED pc
               ELSE pc' = "background" /\ UNCHANGED jobs
      BY <1>4 DEF RunTask
    <2>2. pc = "loop" /\ pc' \in {"loop", "background"} /\ UNCHANGED <<promise, reaction, revived>>
      BY <1>4, <2>1 DEF RunTask
    <2>i. tasks[i] \in Job
      BY <1>0, JobFields
    <2>3. ASSUME NEW c \in Calls, tasks[i].kind # "own" \/ tasks[i].call # c
          PROVE  OneContinuationOf(c)'
      <3>1. /\ Suspended(tasks, c) = {} => Suspended(RemoveAt(tasks, i), c) = {}
            /\ Single(Suspended(tasks, c)) => Single(Suspended(RemoveAt(tasks, i), c))
        BY <1>r, SuspendedRemove
      <3>2. Suspended(Append(jobs, tasks[i]), c) = Suspended(jobs, c)
        BY <1>r, <2>i, <2>3, SuspendedAppend
      <3>3. Fewer(tasks, tasks', c) /\ Fewer(jobs, jobs', c) /\ ~Running(c)'
        BY <2>1, <2>2, <3>1, <3>2 DEF Fewer, Running
      <3> QED
        BY <1>o, <2>2, <3>3, ContinuationLost
    <2>4. ASSUME NEW c \in Calls, tasks[i].kind = "own", tasks[i].call = c
          PROVE  OneContinuationOf(c)'
      <3>1. OneContinuationOf(c)
        BY <1>o
      <3>2. Suspended(tasks', c) = {} /\ Suspended(tasks, c) # {}
        <4>1. Single(Suspended(tasks, c))
          BY <3>1 DEF OneContinuationOf
        <4>2. Suspended(RemoveAt(tasks, i), c) = {} /\ Suspended(tasks, c) # {}
          <5>1. TaskTaken(tasks, i, c)
            BY <1>r, TaskIsTaken
          <5> QED
            BY <2>4, <4>1, <5>1 DEF TaskTaken
        <4> QED
          BY <2>1, <4>2
      <3>3. /\ Suspended(jobs, c) = {} /\ promise[c] = "pending" /\ reaction[c] # "none"
        BY <2>2, <3>1, <3>2 DEF OneContinuationOf
      <3>4. Single(Suspended(jobs', c))
        <4>1. Single(Suspended(Append(jobs, tasks[i]), c))
          BY <1>r, <2>i, <3>3, SuspendedAppend
        <4> QED
          BY <2>1, <2>4, <4>1
      <3> QED
        BY <2>2, <3>2, <3>3, <3>4 DEF OneContinuationOf, Running, Single
    <2> QED
      BY <2>3, <2>4 DEF OneContinuation
  <1>5. CASE TaskFails
    <2>1. PICK i \in DOMAIN tasks : tasks' = RemoveAt(tasks, i)
      BY <1>5 DEF TaskFails
    <2>2. \A c \in Calls : Fewer(tasks, tasks', c)
      <3>1. \A c \in Calls :
              /\ Suspended(tasks, c) = {} => Suspended(RemoveAt(tasks, i), c) = {}
              /\ Single(Suspended(tasks, c)) => Single(Suspended(RemoveAt(tasks, i), c))
        BY <1>r, SuspendedRemove
      <3> QED
        BY <2>1, <3>1 DEF Fewer
    <2> QED
      BY <1>5, <2>2, DiesInCall DEF TaskFails
  <1>6. CASE Starve \/ ReturnAborts \/ ReturnOutOfMemory \/ NotFulfilled
    BY <1>6, FewerSame, DiesInCall DEF Starve, ReturnAborts, ReturnOutOfMemory, NotFulfilled
  <1>7. CASE Return
    <2>1. /\ pc = "loop" /\ pc' = "host" /\ promise[revived] = "fulfilled"
          /\ UNCHANGED <<jobs, tasks, promise, reaction, revived>>
      BY <1>7 DEF Return
    <2>2. ASSUME NEW c \in Calls PROVE OneContinuationOf(c)'
      <3>1. Fewer(jobs, jobs', c) /\ Fewer(tasks, tasks', c) /\ ~Running(c)'
        BY <2>1, FewerSame DEF Running
      <3>2. c # revived' \/ promise[c] # "pending"
        BY <2>1
      <3> QED
        BY <1>o, <2>1, <3>1, <3>2, ContinuationLost
    <2> QED
      BY <2>2 DEF OneContinuation
  <1> QED
    BY <1>1, <1>2, <1>3, <1>4, <1>5, <1>6, <1>7 DEF EventLoop

(* Nothing queues a microtask between calls.                                *)
LEMMA DrainedStep == IInv /\ [Next]_vars => Drained'
  <1> SUFFICES ASSUME IInv, [Next]_vars, pc' = "host", ~Dead', returned' \/ revived' = 0
               PROVE  jobs' = <<>>
    BY DEF Drained
  <1>0. TypeOK /\ Control /\ Drained
    BY DEF IInv
  <1> USE <1>0, NoneIsNoFunction DEF runtime, loopState, hostState, Drained, Dead, Control, Die
  <1>1. CASE Host
    <2>1. ASSUME NEW f \in Fn, PostCall(f) PROVE jobs' = <<>>
      <3>1. CASE returned
        BY <2>1, <3>1 DEF PostCall, HostMayPost
      <3>2. CASE ~returned
        <4>1. revived' = revived + 1 /\ revived \in Nat
          BY <2>1, <3>2, BoundAssumption DEF PostCall, TypeOK, Calls
        <4>2. revived' # 0 /\ ~returned'
          BY <2>1, <4>1 DEF PostCall
        <4> QED
          BY <4>2
      <3> QED
        BY <3>1, <3>2
    <2>2. CASE LowerArgument \/ Discarded
      BY <2>2 DEF LowerArgument, Discarded, vars, HostMayEnter
    <2>3. ASSUME NEW f \in Fn, WrapperOutOfMemory(f) \/ EnterRefused(f) \/ PostCallRefused(f)
          PROVE  jobs' = <<>>
      BY <2>3 DEF WrapperOutOfMemory, EnterRefused, PostCallRefused, HostMayEnter, HostMayPost
    <2>4. ASSUME NEW f \in Fn, Enter(f) \/ EnterOutOfMemory(f) PROVE jobs' = <<>>
      BY <2>4 DEF Enter, EnterOutOfMemory, HostMayEnter, NoCallInProgress
    <2> QED
      BY <1>1, <2>1, <2>2, <2>3, <2>4 DEF Host
  <1>2. CASE JavaScript
    <2>1. pc \in Continuation /\ UNCHANGED <<cur_fn_idx, returned>>
      BY <1>2 DEF JavaScript, JSStep, JSAllocate, JSOutOfMemory, ImportAborts, ReenterRefused,
                  SpawnJob, SpawnTask, AwaitJob, AwaitTask, AwaitForever, Settle, CallFails,
                  BackgroundEnds, Continuation
    <2> QED
      BY <2>1 DEF Continuation
  <1>3. CASE EventLoop
    <2>1. CASE Return
      BY <2>1 DEF Return, LoopDone
    <2>2. CASE ~Return
      <3>1. pc # "host" /\ UNCHANGED <<cur_fn_idx, returned>>
        BY <1>3, <2>2 DEF EventLoop, AttachReactions, RunJob, RunReaction, Waiting, RunTask,
                  TaskFails, Starve, LoopDone, ReturnAborts, ReturnOutOfMemory, NotFulfilled
      <3> QED
        BY <3>1
    <2> QED
      BY <2>1, <2>2
  <1>4. CASE UNCHANGED vars
    BY <1>4 DEF vars
  <1> QED
    BY <1>1, <1>2, <1>3, <1>4 DEF Next

(* The interest moves only while the host holds no results.                 *)
LEMMA AnsweredStep == IInv /\ [Next]_vars => Answered'
  <1> SUFFICES ASSUME IInv, [Next]_vars, returned' PROVE interest' = 0
    BY DEF Answered
  <1>0. Control /\ Answered
    BY DEF IInv
  <1> USE <1>0, NoneIsNoFunction DEF runtime, loopState, hostState, Control, Answered
  <1>1. CASE Host
    <2>1. ASSUME NEW f \in Fn, Enter(f) PROVE interest' = 0
      BY <2>1 DEF Enter, NoCallInProgress
    <2>2. ASSUME ~(\E f \in Fn : Enter(f)) PROVE UNCHANGED interest /\ returned
      BY <1>1, <2>2 DEF Host, LowerArgument, WrapperOutOfMemory, EnterOutOfMemory, EnterRefused,
                        PostCall, PostCallRefused, Discarded, vars
    <2> QED
      BY <2>1, <2>2
  <1>2. CASE JavaScript
    <2>1. pc \in Continuation /\ UNCHANGED returned
      BY <1>2 DEF JavaScript, JSStep, JSAllocate, JSOutOfMemory, ImportAborts, ReenterRefused,
                  SpawnJob, SpawnTask, AwaitJob, AwaitTask, AwaitForever, Settle, CallFails,
                  BackgroundEnds, Continuation
    <2> QED
      BY <2>1 DEF Continuation
  <1>3. CASE EventLoop
    <2>1. CASE Return
      BY <2>1 DEF Return, LoopDone
    <2>2. CASE ~Return
      <3>1. pc # "host" /\ UNCHANGED returned
        BY <1>3, <2>2 DEF EventLoop, AttachReactions, RunJob, RunReaction, Waiting, RunTask,
                  TaskFails, Starve, LoopDone, ReturnAborts, ReturnOutOfMemory, NotFulfilled
      <3> QED
        BY <3>1
    <2> QED
      BY <2>1, <2>2
  <1>4. CASE UNCHANGED vars
    BY <1>4 DEF vars
  <1> QED
    BY <1>1, <1>2, <1>3, <1>4 DEF Next

(* The invariant holds initially. *)
LEMMA InitInv == Init => IInv
  <1> SUFFICES ASSUME Init PROVE IInv
    OBVIOUS
  <1>0. 0 \in Calls /\ \A c \in Calls : promise[c] = "none" /\ reaction[c] = "none"
    BY BoundAssumption DEF Init, Calls
  <1>1. TypeOK
    <2>1. free_list \in Seq(Block) /\ jobs \in Seq(Job) /\ tasks \in Seq(Task)
      BY EmptySeq DEF Init
    <2>2. steps \in 0..StepsPerCall
      BY BoundAssumption DEF Init
    <2> QED
      BY <1>0, <2>1, <2>2 DEF Init, TypeOK, Owner, Trap
  <1>2. Control /\ Areas
    BY NoneIsNoFunction DEF Init, Control, Areas, AreaExpected, Dead
  <1>3. Phases
    BY <1>0 DEF Init, Phases
  <1>4. InterestBalanced
    <2>1. Unanswered = {}
      BY <1>0 DEF Unanswered
    <2> QED
      BY <2>1, FS_EmptySet DEF Init, InterestBalanced
  <1>5. 1..Len(jobs) = {} /\ 1..Len(tasks) = {}
    BY EmptySeq DEF Init
  <1>6. ReactionJob /\ Drained /\ Answered
    BY <1>5 DEF ReactionJob, Init, Drained, Answered
  <1>7. OneContinuation
    <2>1. \A c : Suspended(jobs, c) = {} /\ Suspended(tasks, c) = {}
      BY <1>5 DEF Suspended
    <2> QED
      BY <2>1 DEF Init, OneContinuation, OneContinuationOf, Running, Single
  <1> QED
    BY <1>1, <1>2, <1>3, <1>4, <1>6, <1>7 DEF IInv

(* Every reachable state satisfies the inductive invariant: what call has   *)
(* recorded, what the allocator handed out, what the event loop still waits *)
(* for, where each call's function goes on and what the host knows agree    *)
(* with one another, after any number of aborts and post wrappers.          *)
THEOREM Invariance == Spec => []IInv
  <1>1. IInv /\ [Next]_vars => OneContinuation'
    <2>1. IInv /\ UNCHANGED vars => OneContinuation'
      BY DEF vars, runtime, loopState, hostState, IInv, OneContinuation, OneContinuationOf,
             Running, Dead
    <2> QED
      BY <2>1, HostContinues, JavaScriptContinues, EventLoopContinues DEF Next
  <1>2. IInv /\ [Next]_vars => IInv'
    <2> SUFFICES ASSUME IInv, [Next]_vars PROVE IInv'
      OBVIOUS
    <2>1. TypeOK' /\ Control' /\ Areas'
      BY TypeStep, ControlStep, AreasStep
    <2>2. Phases' /\ InterestBalanced'
      BY PhasesStep, InterestStep
    <2>3. ReactionJob' /\ OneContinuation' /\ Drained' /\ Answered'
      BY <1>1, ReactionJobStep, DrainedStep, AnsweredStep
    <2> QED
      BY <2>1, <2>2, <2>3 DEF IInv
  <1> QED
    BY InitInv, <1>2, PTL DEF Spec

(* Type correctness of every variable of the protocol. *)
THEOREM TypeCorrect == Spec => []TypeOK
  <1>1. IInv => TypeOK
    BY DEF IInv
  <1> QED
    BY Invariance, <1>1, PTL

(* post_call never frees a block twice, nor one that was moved or handed    *)
(* out again, and never misses a return area.                               *)
THEOREM FreeListCorrect == Spec => []FreeListSound
  <1>1. IInv => FreeListSound
    <2> SUFFICES ASSUME IInv PROVE FreeListSound
      OBVIOUS
    <2>1. CASE free_list = <<>>
      <3>1. ToSet(free_list) = {} /\ Len(free_list) = 0
        BY <2>1 DEF ToSet
      <3>2. {b \in Block : heap[b] = "ret"} = {}
        BY <2>1 DEF IInv, Areas
      <3> QED
        BY <3>1, <3>2 DEF FreeListSound
    <2>2. ASSUME NEW b \in Block, free_list = <<b>>
          PROVE  FreeListSound
      <3>1. ToSet(free_list) = {b} /\ Len(free_list) = 1
        BY <2>2 DEF ToSet
      <3>2. {x \in Block : heap[x] = "ret"} = {b}
        BY <2>2 DEF IInv, Areas
      <3> QED
        BY <3>1, <3>2 DEF FreeListSound
    <2> QED
      BY <2>1, <2>2 DEF IInv, Areas
  <1> QED
    BY Invariance, <1>1, PTL

(* Whatever the host tries between call and post_call, the results of the   *)
(* call stay readable and its post-return stays the one that is accepted.   *)
THEOREM ResultsStayReadable == Spec => []ResultsReadable
  <1>1. IInv => ResultsReadable
    <2> SUFFICES ASSUME IInv, returned PROVE ResultsReadable
      BY DEF ResultsReadable
    <2>1. pc = "host" /\ cur_fn_idx \in Fn /\ cur_fn_idx = fn_idx
      BY DEF IInv, Control
    <2>2. cur_fn_idx \in RetArea \cup Singular => retptr \in Block /\ free_list = <<retptr>>
      BY DEF IInv, Areas, AreaExpected
    <2> QED
      BY <2>1, <2>2 DEF IInv, Areas, ResultsReadable
  <1> QED
    BY Invariance, <1>1, PTL

(* The event loop is kept alive by the reaction of the call in progress,    *)
(* and by nothing else.                                                     *)
THEOREM InterestIsBalanced == Spec => []InterestBalanced
  <1>1. IInv => InterestBalanced
    BY DEF IInv, Phases
  <1> QED
    BY Invariance, <1>1, PTL

(* A host that follows the canonical ABI never meets the guards.            *)
THEOREM GuardsAreDefensive == Spec => []CarefulHostNeverRefused
  <1>1. IInv => CarefulHostNeverRefused
    BY DEF IInv, Control, CarefulHostNeverRefused
  <1> QED
    BY Invariance, <1>1, PTL

(* Once a call has aborted, no action of any host gets another call through *)
(* but the post wrapper of that same call, which hands over nothing and     *)
(* which a host that follows the canonical ABI does not run.                *)
THEOREM AbortFinality == Spec => AbortIsFinal
  <1>1. IInv /\ [Next]_vars => [Dead => Dead' \/ AbortReleased]_vars
    <2> SUFFICES ASSUME IInv, [Next]_vars, Dead PROVE Dead' \/ AbortReleased
      OBVIOUS
    <2>1. pc = "host" /\ cur_fn_idx # None /\ ~returned
      BY DEF Dead
    <2>2. ASSUME Host PROVE Dead' \/ AbortReleased
      <3> USE <2>1 DEF Dead, runtime, loopState, hostState
      <3>1. CASE LowerArgument
        BY <3>1 DEF LowerArgument, Die
      <3>2. ASSUME NEW f \in Fn, Enter(f) PROVE Dead'
        BY <3>2 DEF Enter, NoCallInProgress
      <3>3. ASSUME NEW f \in Fn, WrapperOutOfMemory(f) PROVE Dead'
        BY <3>3 DEF WrapperOutOfMemory, Die
      <3>4. ASSUME NEW f \in Fn, EnterOutOfMemory(f) PROVE Dead'
        BY <3>4 DEF EnterOutOfMemory, NoCallInProgress
      <3>5. ASSUME NEW f \in Fn, EnterRefused(f) PROVE Dead'
        BY <3>5 DEF EnterRefused, Die
      <3>6. ASSUME NEW f \in Fn, PostCallRefused(f) PROVE Dead'
        BY <3>6 DEF PostCallRefused, HostMayPost, Die
      <3>7. ASSUME NEW f \in Fn, PostCall(f) PROVE AbortReleased
        BY <3>7 DEF PostCall, HostMayPost, ResetIndex, AbortReleased
      <3>8. CASE Discarded
        BY <3>8 DEF Discarded, vars
      <3> QED
        BY <2>2, <3>1, <3>2, <3>3, <3>4, <3>5, <3>6, <3>7, <3>8 DEF Host
    <2>3. ~JavaScript
      BY <2>1 DEF JavaScript, JSStep, JSAllocate, JSOutOfMemory, ImportAborts, ReenterRefused,
                  SpawnJob, SpawnTask, AwaitJob, AwaitTask, AwaitForever, Settle, CallFails,
                  BackgroundEnds, Continuation
    <2>4. ~EventLoop
      BY <2>1 DEF EventLoop, AttachReactions, RunJob, RunReaction, Waiting, RunTask, TaskFails,
                  Starve, LoopDone, Return, ReturnAborts, ReturnOutOfMemory, NotFulfilled
    <2>5. CASE UNCHANGED vars
      BY <2>5, <2>1 DEF vars, runtime, hostState, Dead
    <2> QED
      BY <2>2, <2>3, <2>4, <2>5 DEF Next
  <1> QED
    BY Invariance, <1>1, PTL DEF Spec, AbortIsFinal

(* The exported function of a call goes on in at most one place at a time,  *)
(* and in none once it has settled, whatever it awaits, whatever else is    *)
(* queued and however many calls aborted before.                            *)
THEOREM ContinuationIsUnique == Spec => []OneContinuation
  <1>1. IInv => OneContinuation
    BY DEF IInv
  <1> QED
    BY Invariance, <1>1, PTL

(* Between calls only functions and reactions of calls that aborted are     *)
(* left in the queues; none of them unless the host brought one back, and   *)
(* none whose promise is unanswered when results are handed over.           *)
THEOREM NothingLeftSuspended == Spec => []NothingSuspended
  <1>1. IInv => NothingSuspended
    <2> SUFFICES ASSUME IInv, pc = "host", ~Dead
                 PROVE  /\ \A j \in ToSet(jobs) \cup ToSet(tasks) :
                             j.kind # "background" => j.call < revived
                        /\ returned \/ revived = 0 => jobs = <<>> /\ Unanswered = {}
      BY DEF NothingSuspended
    <2>1. /\ jobs \in Seq(Job) /\ tasks \in Seq(Task)
          /\ revived \in Calls /\ Calls \subseteq Nat
      BY BoundAssumption DEF IInv, TypeOK, Calls
    <2>2. ASSUME NEW c \in Calls, Suspended(jobs, c) # {} \/ Suspended(tasks, c) # {}
          PROVE  c < revived
      <3>1. promise[c] = "pending" /\ c # revived
        BY <2>2 DEF IInv, OneContinuation, OneContinuationOf
      <3>2. c <= revived
        BY <3>1 DEF IInv, Phases
      <3> QED
        BY <2>1, <3>1, <3>2
    <2>3. ASSUME NEW i \in 1..Len(jobs), jobs[i].kind # "background"
          PROVE  jobs[i].call < revived
      <3>1. jobs[i] \in Job
        BY <2>1, ElementOfSeq
      <3>2. jobs[i].kind \in {"own", "react"} /\ jobs[i].call \in Calls
        BY <2>3, <3>1 DEF Job, Continuation
      <3>3. CASE jobs[i].kind = "own"
        <4>1. i \in Suspended(jobs, jobs[i].call)
          BY <3>3 DEF Suspended
        <4> QED
          BY <2>2, <3>2, <4>1
      <3>4. CASE jobs[i].kind = "react"
        <4>1. reaction[jobs[i].call] = "queued"
          BY <3>4 DEF IInv, ReactionJob
        <4>2. promise[jobs[i].call] # "none" /\ jobs[i].call <= revived
          BY <3>2, <4>1 DEF IInv, Phases
        <4>3. jobs[i].call # revived
          BY <4>1, <4>2 DEF IInv, Phases
        <4>4. jobs[i].call \in Nat /\ revived \in Nat
          BY <2>1, <3>2
        <4> QED
          BY <4>2, <4>3, <4>4
      <3> QED
        BY <3>2, <3>3, <3>4
    <2>4. ASSUME NEW i \in 1..Len(tasks), tasks[i].kind # "background"
          PROVE  tasks[i].call < revived
      <3>1. tasks[i] \in Task
        BY <2>1, ElementOfSeq
      <3>2. tasks[i].kind = "own" /\ tasks[i].call \in Calls
        BY <2>4, <3>1 DEF Task, Continuation
      <3>3. i \in Suspended(tasks, tasks[i].call)
        BY <3>2 DEF Suspended
      <3> QED
        BY <2>2, <3>2, <3>3
    <2>5. DOMAIN jobs = 1..Len(jobs) /\ DOMAIN tasks = 1..Len(tasks)
      BY <2>1, LenProperties
    <2>6. returned \/ revived = 0 => jobs = <<>>
      BY DEF IInv, Drained
    <2>7. CASE returned
      <3>1. Cardinality(Unanswered) = 0
        BY <2>7 DEF IInv, InterestBalanced, Answered
      <3>2. Unanswered = {}
        BY <3>1, UnansweredFinite, FS_EmptySet
      <3> QED
        BY <2>3, <2>4, <2>5, <2>6, <3>2 DEF ToSet
    <2>8. CASE ~returned
      <3>1. ASSUME revived = 0, NEW c \in Unanswered PROVE FALSE
        <4>1. c \in Calls /\ promise[c] # "none" /\ reaction[c] # "run"
          BY DEF Unanswered
        <4>2. c = revived
          BY <2>1, <3>1, <4>1 DEF IInv, Phases
        <4> QED
          BY <4>1, <4>2 DEF IInv, Phases
      <3> QED
        BY <2>3, <2>4, <2>5, <2>6, <2>8, <3>1 DEF ToSet
    <2> QED
      BY <2>7, <2>8
  <1> QED
    BY Invariance, <1>1, PTL

-----------------------------------------------------------------------------
(* The refinement.  Each lemma treats one way the contract's variables can  *)
(* change, or not change, in a step of the protocol.                        *)

(* The contract sees the return areas of the heap, not the other blocks.    *)
LEMMA SameAreas ==
  ASSUME \A b \in Block : heap'[b] = "ret" <=> heap[b] = "ret",
         UNCHANGED <<cur_fn_idx, returned>>,
         UNCHANGED pc \/ (pc # "host" /\ pc' # "host")
  PROVE  UNCHANGED Contract!vars
  <1>1. {b \in Block : heap[b] = "ret"}' = {b \in Block : heap[b] = "ret"}
    OBVIOUS
  <1> QED
    BY <1>1 DEF Contract!vars

(* Whatever makes the instance abort inside a call aborts it in the contract.*)
LEMMA AbortStep ==
  ASSUME IInv, pc # "host", pc' = "host", UNCHANGED <<cur_fn_idx, returned>>,
         \A b \in Block : heap'[b] = "ret" <=> heap[b] = "ret"
  PROVE  Contract!Abort
  <1>1. UNCHANGED {b \in Block : heap[b] = "ret"}
    OBVIOUS
  <1>2. cur_fn_idx # None /\ ~returned
    BY NoneIsNoFunction DEF IInv, Control
  <1> QED
    BY <1>1, <1>2 DEF Contract!Abort

(* A call that is accepted begins the call of the contract. *)
LEMMA EnterRefines ==
  ASSUME IInv, IInv', NEW f \in Fn, Enter(f)
  PROVE  Contract!Begin(f)
  <1>1. cur_fn_idx = None /\ cur_fn_idx' = f /\ f # None /\ pc' = "own"
    BY NoneIsNoFunction DEF Enter, NoCallInProgress
  <1>2. CASE f \in RetArea
    <2>1. retptr' \in Block /\ free_list' = <<retptr'>>
      BY <1>1, <1>2 DEF IInv, Areas, AreaExpected
    <2>2. {b \in Block : heap'[b] = "ret"} = {retptr'}
      BY <2>1 DEF IInv, Areas
    <2> QED
      BY <1>1, <1>2, <2>1, <2>2 DEF Contract!Begin
  <1>3. CASE f \notin RetArea
    <2>1. free_list' = <<>>
      BY <1>1, <1>3 DEF IInv, Areas
    <2>2. {b \in Block : heap'[b] = "ret"} = {}
      BY <2>1 DEF IInv, Areas
    <2> QED
      BY <1>1, <1>3, <2>2 DEF Contract!Begin
  <1> QED
    BY <1>2, <1>3

(* A call that finds no room for its return area is dead before it runs. *)
LEMMA EnterOutOfMemoryRefines ==
  ASSUME IInv, IInv', NEW f \in Fn, EnterOutOfMemory(f)
  PROVE  Contract!BeginAborts(f)
  <1>1. /\ cur_fn_idx = None /\ cur_fn_idx' = f /\ f # None
        /\ pc' = "host" /\ ~returned'
    BY NoneIsNoFunction DEF EnterOutOfMemory, NoCallInProgress, Die, IInv, Control
  <1>2. free_list' = <<>>
    BY <1>1 DEF EnterOutOfMemory, IInv, Areas
  <1>3. {b \in Block : heap'[b] = "ret"} = {}
    BY <1>2 DEF IInv, Areas
  <1> QED
    BY <1>1, <1>3 DEF Contract!BeginAborts

(* A value of its own goes to an area of its own, on the free list. *)
LEMMA SingleAreaRefines ==
  ASSUME IInv, IInv', cur_fn_idx \in Singular, StoreSingle, LoopDone
  PROVE  Contract!SingleArea
  <1>1. free_list = <<>>
    BY SignatureAssumption DEF IInv, Areas, LoopDone
  <1>2. PICK b \in Block : free_list' = <<b>>
    BY <1>1 DEF StoreSingle, Track, FreeBlocks
  <1>3. {x \in Block : heap'[x] = "ret"} = {b}
    BY <1>2 DEF IInv, Areas
  <1> QED
    BY <1>3 DEF Contract!SingleArea

(* A return completes the call. *)
LEMMA ReturnRefines ==
  ASSUME IInv, IInv', Return
  PROVE  Contract!Complete
  <1>1. /\ pc = "loop" /\ cur_fn_idx # None /\ ~returned /\ cur_fn_idx = fn_idx
        /\ pc' = "host" /\ cur_fn_idx' = cur_fn_idx /\ returned'
    BY NoneIsNoFunction DEF Return, LoopDone, IInv, Control
  <1>2. CASE cur_fn_idx \in Singular
    <2>1. Contract!SingleArea
      BY <1>1, <1>2, SingleAreaRefines DEF Return
    <2> QED
      BY <1>1, <2>1 DEF Contract!Complete
  <1>3. CASE cur_fn_idx \notin Singular
    <2>1. UNCHANGED {b \in Block : heap[b] = "ret"}
      BY <1>1, <1>3 DEF Return
    <2> QED
      BY <1>1, <1>3, <2>1 DEF Contract!Complete
  <1> QED
    BY <1>2, <1>3

(* A result that does not fit aborts the call with its area allocated. *)
LEMMA ReturnAbortsRefines ==
  ASSUME IInv, IInv', ReturnAborts
  PROVE  Contract!Abort
  <1>1. /\ pc = "loop" /\ cur_fn_idx # None /\ ~returned /\ cur_fn_idx = fn_idx
        /\ pc' = "host" /\ cur_fn_idx' = cur_fn_idx /\ ~returned'
    BY NoneIsNoFunction DEF ReturnAborts, LoopDone, Die, IInv, Control
  <1>2. Contract!SingleArea
    BY <1>1, SignatureAssumption, SingleAreaRefines DEF ReturnAborts
  <1> QED
    BY <1>1, <1>2 DEF Contract!Abort

(* post_call releases the results, or the call that aborted. *)
LEMMA PostCallRefines ==
  ASSUME IInv, IInv', NEW f \in Fn, PostCall(f)
  PROVE  Contract!Release \/ Contract!ReleaseAborted
  <1>1. pc = "host" /\ cur_fn_idx # None /\ cur_fn_idx' = None
    BY NoneIsNoFunction DEF PostCall, HostMayPost, ResetIndex
  <1>2. free_list' = <<>>
    BY DEF PostCall
  <1>3. {b \in Block : heap'[b] = "ret"} = {}
    BY <1>2 DEF IInv, Areas
  <1>4. CASE returned
    BY <1>1, <1>3, <1>4 DEF Contract!Release
  <1>5. CASE ~returned
    <2>1. ~CarefulHost
      BY <1>5 DEF PostCall, HostMayPost
    <2> QED
      BY <1>1, <1>3, <1>5, <2>1 DEF Contract!ReleaseAborted
  <1> QED
    BY <1>4, <1>5

(* Every step of the host is a step of the contract or invisible to it.     *)
LEMMA HostRefines ==
  ASSUME IInv, IInv', Host
  PROVE  [Contract!Next]_(Contract!vars)
  <1> USE DEF runtime, hostState
  <1>1. CASE LowerArgument
    <2>1. UNCHANGED <<pc, cur_fn_idx, returned, free_list>>
      BY <1>1 DEF LowerArgument, HostMayEnter, Die
    <2> QED
      BY <2>1, SameAreas DEF IInv, Areas
  <1>2. ASSUME NEW f \in Fn, Enter(f)
        PROVE  [Contract!Next]_(Contract!vars)
    BY <1>2, EnterRefines DEF Contract!Next
  <1>3. ASSUME NEW f \in Fn, WrapperOutOfMemory(f) \/ EnterRefused(f) \/ PostCallRefused(f)
        PROVE  [Contract!Next]_(Contract!vars)
    <2>1. UNCHANGED <<pc, cur_fn_idx, returned, free_list>>
      BY <1>3 DEF WrapperOutOfMemory, EnterRefused, PostCallRefused, HostMayEnter, HostMayPost, Die
    <2> QED
      BY <2>1, SameAreas DEF IInv, Areas
  <1>4. ASSUME NEW f \in Fn, EnterOutOfMemory(f)
        PROVE  [Contract!Next]_(Contract!vars)
    BY <1>4, EnterOutOfMemoryRefines DEF Contract!Next
  <1>5. ASSUME NEW f \in Fn, PostCall(f)
        PROVE  [Contract!Next]_(Contract!vars)
    BY <1>5, PostCallRefines DEF Contract!Next
  <1>6. CASE Discarded
    BY <1>6, SameAreas DEF Discarded, vars
  <1> QED
    BY <1>1, <1>2, <1>3, <1>4, <1>5, <1>6 DEF Host

(* JavaScript is invisible to the contract unless it makes the call abort.  *)
LEMMA JavaScriptRefines ==
  ASSUME IInv, IInv', JavaScript
  PROVE  [Contract!Next]_(Contract!vars)
  <1>1. pc # "host" /\ UNCHANGED <<cur_fn_idx, returned, free_list>>
    BY DEF JavaScript, JSStep, JSAllocate, JSOutOfMemory, ImportAborts, ReenterRefused,
           SpawnJob, SpawnTask, AwaitJob, AwaitTask, AwaitForever, Settle, CallFails,
           BackgroundEnds, Continuation, runtime, hostState
  <1>2. \A b \in Block : heap'[b] = "ret" <=> heap[b] = "ret"
    BY <1>1 DEF IInv, Areas
  <1> QED
    BY <1>1, <1>2, SameAreas, AbortStep DEF Contract!Next

(* The event loop is invisible too, unless call returns or aborts.          *)
LEMMA EventLoopRefines ==
  ASSUME IInv, IInv', EventLoop
  PROVE  [Contract!Next]_(Contract!vars)
  <1>1. CASE Return
    BY <1>1, ReturnRefines DEF Contract!Next
  <1>3. CASE ReturnAborts
    BY <1>3, ReturnAbortsRefines DEF Contract!Next
  <1>2. CASE ~Return /\ ~ReturnAborts
    <2>1. pc # "host" /\ UNCHANGED <<cur_fn_idx, returned, free_list>>
      BY <1>2 DEF EventLoop, AttachReactions, RunJob, RunReaction, Waiting, RunTask,
                  TaskFails, Starve, LoopDone, ReturnOutOfMemory, NotFulfilled,
                  runtime, hostState
    <2>2. \A b \in Block : heap'[b] = "ret" <=> heap[b] = "ret"
      BY <2>1 DEF IInv, Areas
    <2> QED
      BY <2>1, <2>2, SameAreas, AbortStep DEF Contract!Next
  <1> QED
    BY <1>1, <1>2, <1>3

(* The protocol implements the contract the host relies on: sequential      *)
(* calls, results or an abort that is final unless a careless host releases *)
(* it, and no live return area but that of the last call.                   *)
THEOREM ContractImplemented == Spec => ImplementsContract
  <1>1. Init => Contract!Init
    <2> SUFFICES ASSUME Init PROVE Contract!Init
      OBVIOUS
    <2>1. {b \in Block : heap[b] = "ret"} = {}
      BY DEF Init
    <2> QED
      BY <2>1 DEF Init, Contract!Init
  <1>2. IInv /\ IInv' /\ [Next]_vars => [Contract!Next]_(Contract!vars)
    <2> SUFFICES ASSUME IInv, IInv', [Next]_vars
                 PROVE  [Contract!Next]_(Contract!vars)
      OBVIOUS
    <2>1. CASE UNCHANGED vars
      BY <2>1, SameAreas DEF vars, runtime, hostState
    <2> QED
      BY <2>1, HostRefines, JavaScriptRefines, EventLoopRefines DEF Next
  <1> QED
    BY <1>1, <1>2, Invariance, PTL DEF Spec, ImplementsContract, Contract!Spec
=============================================================================

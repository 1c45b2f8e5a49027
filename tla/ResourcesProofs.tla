-------------------------- MODULE ResourcesProofs --------------------------
(* What holds of resource handles for every number of objects and handles. *)
(* The three properties that TLC checks are not inductive on their own: a  *)
(* finalizer that runs takes no live object's handle because the object it *)
(* was registered for is collected (Registered), and dispose frees the only *)
(* entry there is for its object (EntriesNamed).                            *)
EXTENDS Resources, TLAPS

TypeOK ==
  /\ life \in [Object -> {"unused", "live", "lost", "collected"}]
  /\ handle \in [Object -> 0..MaxHandle]
  /\ registry \subseteq Object \X Handle
  /\ due \subseteq Object \X Handle
  /\ table \in [Handle -> Entry]
  /\ trap \in {"none", "drop", "borrow"}
  /\ misuse \in BOOLEAN

(* An index is given to an object that has been made, and is its handle.    *)
EntriesNamed ==
  Running => \A h \in Handle : table[h] # Free =>
               /\ life[table[h].to] # "unused"
               /\ handle[table[h].to] = h

(* Only collected objects are due, only others are registered.             *)
Registered ==
  /\ \A r \in registry : life[r[1]] \in {"live", "lost"}
  /\ \A r \in due : life[r[1]] = "collected"

IInv ==
  /\ TypeOK
  /\ EntriesNamed
  /\ Registered
  /\ HandlesAreOwn
  /\ FinalizersMatchHandles
  /\ TrapsAreMisuse


LEMMA EntryFields ==
  ASSUME NEW e \in Entry, e # Free
  PROVE  e.to \in Object /\ e.kind \in {"own", "borrow"}
BY DEF Entry, Free

LEMMA OwnEntry ==
  ASSUME NEW o \in Object, NEW k \in {"own", "borrow"}
  PROVE  /\ [kind |-> k, to |-> o] \in Entry
         /\ [kind |-> k, to |-> o] # Free
         /\ Free \in Entry /\ Free.kind # "own"
BY DEF Entry, Free

(* A handle that is registered or due is owned by the object.              *)
LEMMA RegisteredOwned ==
  ASSUME TypeOK, FinalizersMatchHandles, Running,
         NEW r \in registry \cup due
  PROVE  /\ r[2] \in Handle
         /\ r[1] \in Object
         /\ r = <<r[1], r[2]>>
         /\ table[r[2]] # Free
         /\ table[r[2]].kind = "own"
         /\ table[r[2]].to = r[1]
<1>1. PICK h \in Handle : table[h].kind = "own" /\ r = <<table[h].to, h>>
  BY DEF FinalizersMatchHandles
<1>2. r \in Object \X Handle
  BY DEF TypeOK
<1>3. table[h] # Free
  BY <1>1 DEF Free
<1> QED
  BY <1>1, <1>2, <1>3

(* The initial states and every step of the inductive invariant.           *)
LEMMA InitInvariant == Init => IInv
<1> SUFFICES ASSUME Init PROVE IInv
  OBVIOUS
<1>1. TypeOK
  <2>1. handle \in [Object -> 0..MaxHandle]
    BY HandleAssumption DEF Init
  <2>2. table \in [Handle -> Entry]
    BY DEF Init, Entry
  <2> QED
    BY <2>1, <2>2 DEF Init, TypeOK
<1>2. \A h \in Handle : table[h] = Free /\ table[h].kind # "own"
  BY DEF Init, Free
<1>3. EntriesNamed /\ Registered /\ HandlesAreOwn /\ TrapsAreMisuse
  BY <1>2 DEF Init, EntriesNamed, Registered, HandlesAreOwn, TrapsAreMisuse, Running
<1>4. FinalizersMatchHandles
  BY <1>2 DEF Init, FinalizersMatchHandles
<1> QED
  BY <1>1, <1>3, <1>4 DEF IInv

LEMMA LiftOwnStep ==
  ASSUME IInv, NEW o \in Object, LiftOwn(o)
  PROVE  IInv'
<1> PICK h \in Handle :
      /\ table[h] = Free
      /\ table' = [table EXCEPT ![h] = [kind |-> "own", to |-> o]]
      /\ handle' = [handle EXCEPT ![o] = h]
      /\ registry' = registry \cup {<<o, h>>}
  BY DEF LiftOwn
<1> /\ life[o] = "unused"
    /\ life' = [life EXCEPT ![o] = "live"]
    /\ due' = due /\ trap' = trap /\ misuse' = misuse
    /\ Running /\ Running'
  BY DEF LiftOwn, Running
<1> /\ TypeOK /\ EntriesNamed /\ Registered
    /\ HandlesAreOwn /\ FinalizersMatchHandles /\ TrapsAreMisuse
  BY DEF IInv
<1>1. TypeOK'
  <2>1. handle' \in [Object -> 0..MaxHandle]
    BY HandleAssumption DEF TypeOK, Handle
  <2>2. table' \in [Handle -> Entry]
    BY OwnEntry DEF TypeOK
  <2>3. registry' \subseteq Object \X Handle
    BY DEF TypeOK
  <2>4. life' \in [Object -> {"unused", "live", "lost", "collected"}]
    BY DEF TypeOK
  <2> QED
    BY <2>1, <2>2, <2>3, <2>4 DEF TypeOK
<1>2. /\ table'[h] = [kind |-> "own", to |-> o]
      /\ table'[h] # Free /\ table'[h].kind = "own" /\ table'[h].to = o
      /\ \A k \in Handle \ {h} : table'[k] = table[k]
  BY OwnEntry DEF TypeOK
<1>3. \A k \in Handle : table[k] # Free => table[k].to \in Object /\ table[k].to # o
  BY EntryFields DEF TypeOK, EntriesNamed
<1>4. handle'[o] = h /\ \A p \in Object \ {o} : handle'[p] = handle[p] /\ life'[p] = life[p]
  BY DEF TypeOK
<1>5. life'[o] = "live"
  BY DEF TypeOK
<1>6. EntriesNamed'
  <2> SUFFICES ASSUME NEW k \in Handle, table'[k] # Free
               PROVE  life'[table'[k].to] # "unused" /\ handle'[table'[k].to] = k
    BY DEF EntriesNamed
  <2>1. CASE k = h
    BY <2>1, <1>2, <1>4, <1>5
  <2>2. CASE k # h
    BY <2>2, <1>2, <1>3, <1>4 DEF EntriesNamed
  <2> QED
    BY <2>1, <2>2
<1>7. Registered'
  <2>1. \A r \in registry \cup due : r[1] \in Object /\ r[1] # o
    BY DEF Registered, TypeOK
  <2> QED
    BY <2>1, <1>4, <1>5 DEF Registered
<1>8. HandlesAreOwn'
  <2> SUFFICES ASSUME NEW p \in Object, life'[p] = "live", Has(p)'
               PROVE  table'[handle'[p]] # Free /\ table'[handle'[p]].to = p
    BY DEF HandlesAreOwn
  <2>1. CASE p = o
    BY <2>1, <1>2, <1>4
  <2>2. CASE p # o
    <3>1. handle'[p] = handle[p] /\ handle[p] \in Handle /\ life[p] = "live"
      BY <2>2, <1>4 DEF Has
    <3>2. table[handle[p]] # Free /\ table[handle[p]].to = p
      BY <3>1 DEF HandlesAreOwn, Has
    <3> QED
      BY <3>1, <3>2, <1>2
  <2> QED
    BY <2>1, <2>2
<1>9. FinalizersMatchHandles'
  <2>1. Free.kind # "own"
    BY DEF Free
  <2>2. \A k \in Handle : table'[k].kind = "own" <=> k = h \/ table[k].kind = "own"
    BY <1>2, <2>1
  <2>3. \A k \in Handle : table[k].kind = "own" => k # h /\ table'[k].to = table[k].to
    BY <1>2, <2>1
  <2>4. registry \cup due = {<<table[k].to, k>> : k \in {j \in Handle : table[j].kind = "own"}}
    BY DEF FinalizersMatchHandles
  <2>5. registry' \cup due' = (registry \cup due) \cup {<<o, h>>}
    OBVIOUS
  <2>6. ASSUME NEW r \in registry' \cup due'
        PROVE  \E k \in Handle : table'[k].kind = "own" /\ r = <<table'[k].to, k>>
    BY <2>2, <2>3, <2>4, <2>5, <1>2
  <2>7. ASSUME NEW k \in Handle, table'[k].kind = "own"
        PROVE  <<table'[k].to, k>> \in registry' \cup due'
    <3>1. CASE k = h
      BY <3>1, <1>2
    <3>2. CASE k # h
      <4>1. table[k].kind = "own" /\ table'[k].to = table[k].to
        BY <3>2, <1>2, <2>7
      <4>2. <<table[k].to, k>> \in registry \cup due
        BY <4>1, <2>4
      <4> QED
        BY <4>1, <4>2, <2>5
    <3> QED
      BY <3>1, <3>2
  <2> QED
    BY <2>6, <2>7 DEF FinalizersMatchHandles
<1>10. TrapsAreMisuse'
  BY DEF TrapsAreMisuse
<1> QED
  BY <1>1, <1>6, <1>7, <1>8, <1>9, <1>10 DEF IInv

LEMMA LiftBorrowStep ==
  ASSUME IInv, NEW o \in Object, LiftBorrow(o)
  PROVE  IInv'
<1> PICK h \in Handle :
      /\ table[h] = Free
      /\ table' = [table EXCEPT ![h] = [kind |-> "borrow", to |-> o]]
      /\ handle' = [handle EXCEPT ![o] = h]
  BY DEF LiftBorrow
<1> /\ life[o] = "unused"
    /\ life' = [life EXCEPT ![o] = "live"]
    /\ registry' = registry /\ due' = due /\ trap' = trap /\ misuse' = misuse
    /\ Running /\ Running'
  BY DEF LiftBorrow, Running
<1> /\ TypeOK /\ EntriesNamed /\ Registered
    /\ HandlesAreOwn /\ FinalizersMatchHandles /\ TrapsAreMisuse
  BY DEF IInv
<1>1. TypeOK'
  <2>1. handle' \in [Object -> 0..MaxHandle]
    BY HandleAssumption DEF TypeOK, Handle
  <2>2. table' \in [Handle -> Entry]
    BY OwnEntry DEF TypeOK
  <2> QED
    BY <2>1, <2>2 DEF TypeOK
<1>2. /\ table'[h] # Free /\ table'[h].kind = "borrow" /\ table'[h].to = o
      /\ \A k \in Handle \ {h} : table'[k] = table[k]
  BY OwnEntry DEF TypeOK
<1>3. \A k \in Handle : table[k] # Free => table[k].to \in Object /\ table[k].to # o
  BY EntryFields DEF TypeOK, EntriesNamed
<1>4. handle'[o] = h /\ \A p \in Object \ {o} : handle'[p] = handle[p] /\ life'[p] = life[p]
  BY DEF TypeOK
<1>5. life'[o] = "live"
  BY DEF TypeOK
<1>6. EntriesNamed'
  <2> SUFFICES ASSUME NEW k \in Handle, table'[k] # Free
               PROVE  life'[table'[k].to] # "unused" /\ handle'[table'[k].to] = k
    BY DEF EntriesNamed
  <2>1. CASE k = h
    BY <2>1, <1>2, <1>4, <1>5
  <2>2. CASE k # h
    BY <2>2, <1>2, <1>3, <1>4 DEF EntriesNamed
  <2> QED
    BY <2>1, <2>2
<1>7. Registered'
  <2>1. \A r \in registry \cup due : r[1] \in Object /\ r[1] # o
    BY DEF Registered, TypeOK
  <2> QED
    BY <2>1, <1>4, <1>5 DEF Registered
<1>8. HandlesAreOwn'
  <2> SUFFICES ASSUME NEW p \in Object, life'[p] = "live", Has(p)'
               PROVE  table'[handle'[p]] # Free /\ table'[handle'[p]].to = p
    BY DEF HandlesAreOwn
  <2>1. CASE p = o
    BY <2>1, <1>2, <1>4
  <2>2. CASE p # o
    <3>1. handle'[p] = handle[p] /\ handle[p] \in Handle /\ life[p] = "live"
      BY <2>2, <1>4 DEF Has
    <3>2. table[handle[p]] # Free /\ table[handle[p]].to = p
      BY <3>1 DEF HandlesAreOwn, Has
    <3> QED
      BY <3>1, <3>2, <1>2
  <2> QED
    BY <2>1, <2>2
<1>9. FinalizersMatchHandles'
  <2>1. Free.kind # "own"
    BY DEF Free
  <2>2. \A k \in Handle : table'[k].kind = "own" <=> table[k].kind = "own"
    BY <1>2, <2>1
  <2>3. \A k \in Handle : table[k].kind = "own" => table'[k].to = table[k].to
    BY <1>2, <2>1
  <2> QED
    BY <2>2, <2>3 DEF FinalizersMatchHandles
<1>10. TrapsAreMisuse'
  BY DEF TrapsAreMisuse
<1> QED
  BY <1>1, <1>6, <1>7, <1>8, <1>9, <1>10 DEF IInv

(* An index that is given back while its object has no registration left,   *)
(* and is no longer that object's handle or the object is collected.       *)
LEMMA Released ==
  ASSUME TypeOK, Running, EntriesNamed, HandlesAreOwn, FinalizersMatchHandles,
         NEW h \in Handle, table[h] # Free,
         table' = [table EXCEPT ![h] = Free],
         registry' \cup due' = (registry \cup due) \ {<<table[h].to, h>>},
         life' = life,
         \A p \in Object \ {table[h].to} : handle'[p] = handle[p],
         life[table[h].to] = "live" => handle'[table[h].to] \notin Handle
  PROVE  EntriesNamed' /\ HandlesAreOwn' /\ FinalizersMatchHandles'
<1> DEFINE o == table[h].to
<1>1. o \in Object /\ handle[o] = h
  BY EntryFields DEF TypeOK, EntriesNamed
<1>2. table'[h] = Free /\ \A k \in Handle \ {h} : table'[k] = table[k]
  BY DEF TypeOK
<1>3. \A k \in Handle \ {h} : table[k] # Free => table[k].to \in Object \ {o}
  BY <1>1, EntryFields DEF TypeOK, EntriesNamed
<1>4. EntriesNamed'
  BY <1>2, <1>3 DEF EntriesNamed
<1>5. HandlesAreOwn'
  <2> SUFFICES ASSUME NEW p \in Object, life[p] = "live", handle'[p] \in Handle
               PROVE  table'[handle'[p]] # Free /\ table'[handle'[p]].to = p
    BY DEF HandlesAreOwn, Has
  <2>1. p # o /\ handle'[p] = handle[p]
    OBVIOUS
  <2>2. table[handle[p]] # Free /\ table[handle[p]].to = p
    BY <2>1 DEF HandlesAreOwn, Has
  <2>3. handle[p] # h
    BY <2>1, <2>2
  <2> QED
    BY <2>1, <2>2, <2>3, <1>2
<1>6. FinalizersMatchHandles'
  <2>1. Free.kind # "own"
    BY DEF Free
  <2>2. \A k \in Handle : table'[k].kind = "own" <=> k # h /\ table[k].kind = "own"
    BY <1>2, <2>1
  <2>3. \A k \in Handle \ {h} : table'[k].to = table[k].to
    BY <1>2
  <2>4. registry \cup due = {<<table[k].to, k>> : k \in {j \in Handle : table[j].kind = "own"}}
    BY DEF FinalizersMatchHandles
  <2>5. ASSUME NEW r \in registry' \cup due'
        PROVE  \E k \in Handle : table'[k].kind = "own" /\ r = <<table'[k].to, k>>
    <3>1. PICK k \in Handle : table[k].kind = "own" /\ r = <<table[k].to, k>>
      BY <2>4
    <3>2. k # h
      BY <3>1
    <3> QED
      BY <3>1, <3>2, <2>2, <2>3
  <2>6. ASSUME NEW k \in Handle, table'[k].kind = "own"
        PROVE  <<table'[k].to, k>> \in registry' \cup due'
    <3>1. k # h /\ table[k].kind = "own" /\ table'[k].to = table[k].to
      BY <2>2, <2>3, <2>6
    <3>2. <<table[k].to, k>> \in registry \cup due
      BY <3>1, <2>4
    <3>3. <<table[k].to, k>> # <<table[h].to, h>>
      BY <3>1
    <3> QED
      BY <3>1, <3>2, <3>3
  <2> QED
    BY <2>5, <2>6 DEF FinalizersMatchHandles
<1> QED
  BY <1>4, <1>5, <1>6

(* What is said of a running instance says nothing of one that is gone.     *)
LEMMA Trapped ==
  ASSUME TypeOK', Registered', ~Running', misuse'
  PROVE  IInv'
BY DEF IInv, EntriesNamed, HandlesAreOwn, FinalizersMatchHandles, TrapsAreMisuse

LEMMA Unregistering ==
  ASSUME TypeOK, Registered, FinalizersMatchHandles, EntriesNamed, Running,
         NEW o \in Object, life[o] = "live"
  PROVE  /\ Unregistered(o) \cup due = (registry \cup due) \ {<<o, handle[o]>>}
         /\ Unregistered(o) \subseteq registry
<1>1. ASSUME NEW r \in registry \cup due, r[1] = o
      PROVE  r = <<o, handle[o]>>
  BY <1>1, RegisteredOwned DEF EntriesNamed
<1>2. ASSUME NEW r \in due
      PROVE  r[1] # o
  BY DEF Registered
<1> QED
  BY <1>1, <1>2 DEF Unregistered

LEMMA DisposeStep ==
  ASSUME IInv, NEW o \in Object, Dispose(o)
  PROVE  IInv'
<1> /\ Running /\ life[o] = "live"
    /\ registry' = Unregistered(o)
    /\ handle' = Cleared(o)
    /\ misuse' = (misuse \/ ~Has(o))
    /\ life' = life /\ due' = due
    /\ Drop(handle[o])
  BY DEF Dispose, HandleToDrop
<1> /\ TypeOK /\ EntriesNamed /\ Registered
    /\ HandlesAreOwn /\ FinalizersMatchHandles /\ TrapsAreMisuse
  BY DEF IInv
<1>1. registry' \cup due' = (registry \cup due) \ {<<o, handle[o]>>} /\ registry' \subseteq registry
  BY Unregistering
<1>2. /\ handle'[o] = 0 /\ \A p \in Object \ {o} : handle'[p] = handle[p]
      /\ handle' \in [Object -> 0..MaxHandle]
  BY HandleAssumption DEF TypeOK, Cleared, UndefinedHandle
<1>3. table' \in [Handle -> Entry] /\ trap' \in {"none", "drop", "borrow"}
  BY OwnEntry DEF TypeOK, Drop
<1>4. misuse' \in BOOLEAN
  BY DEF TypeOK, Has
<1>5. TypeOK'
  BY <1>1, <1>2, <1>3, <1>4 DEF TypeOK
<1>6. Registered'
  BY <1>1 DEF Registered
<1>7. CASE Has(o)
  <2>1. handle[o] \in Handle /\ table[handle[o]] # Free /\ table[handle[o]].to = o
    BY <1>7 DEF Has, HandlesAreOwn
  <2>2. table' = [table EXCEPT ![handle[o]] = Free] /\ trap' = trap
    BY <2>1 DEF Drop
  <2>3. 0 \notin Handle
    BY DEF Handle
  <2>4. EntriesNamed' /\ HandlesAreOwn' /\ FinalizersMatchHandles'
    BY <1>1, <1>2, <2>1, <2>2, <2>3, Released
  <2>5. TrapsAreMisuse'
    BY <2>2 DEF TrapsAreMisuse, Running
  <2> QED
    BY <1>5, <1>6, <2>4, <2>5 DEF IInv
<1>8. CASE ~Has(o)
  <2>1. trap' = "drop"
    BY <1>8 DEF Has, Drop
  <2>2. misuse' = TRUE
    BY <1>8
  <2> QED
    BY <1>5, <1>6, <2>1, <2>2, Trapped DEF Running
<1> QED
  BY <1>7, <1>8

LEMMA PassOnStep ==
  ASSUME IInv, NEW o \in Object, PassOn(o)
  PROVE  IInv'
<1> /\ Running /\ life[o] = "live" /\ Has(o)
    /\ registry' = Unregistered(o)
    /\ handle' = Cleared(o)
    /\ life' = life /\ due' = due
  BY DEF PassOn
<1> /\ TypeOK /\ EntriesNamed /\ Registered
    /\ HandlesAreOwn /\ FinalizersMatchHandles /\ TrapsAreMisuse
  BY DEF IInv
<1>1. registry' \cup due' = (registry \cup due) \ {<<o, handle[o]>>} /\ registry' \subseteq registry
  BY Unregistering
<1>2. /\ handle'[o] = 0 /\ \A p \in Object \ {o} : handle'[p] = handle[p]
      /\ handle' \in [Object -> 0..MaxHandle]
  BY HandleAssumption DEF TypeOK, Cleared, UndefinedHandle
<1>3. handle[o] \in Handle /\ table[handle[o]] # Free /\ table[handle[o]].to = o
  BY DEF Has, HandlesAreOwn
<1>4. Registered'
  BY <1>1 DEF Registered
<1>5. CASE table[handle[o]].kind = "own"
  <2>1. table' = [table EXCEPT ![handle[o]] = Free] /\ trap' = trap /\ misuse' = misuse
    BY <1>3, <1>5 DEF PassOn, Drop
  <2>2. table' \in [Handle -> Entry]
    BY <2>1, OwnEntry DEF TypeOK
  <2>3. TypeOK'
    BY <1>1, <1>2, <2>1, <2>2 DEF TypeOK
  <2>4. 0 \notin Handle
    BY DEF Handle
  <2>5. EntriesNamed' /\ HandlesAreOwn' /\ FinalizersMatchHandles'
    BY <1>1, <1>2, <1>3, <2>1, <2>4, Released
  <2>6. TrapsAreMisuse'
    BY <2>1 DEF TrapsAreMisuse, Running
  <2> QED
    BY <1>4, <2>3, <2>5, <2>6 DEF IInv
<1>6. CASE table[handle[o]].kind # "own"
  <2>1. trap' = "borrow" /\ misuse' = TRUE /\ table' = table
    BY <1>6 DEF PassOn
  <2>2. TypeOK'
    BY <1>1, <1>2, <2>1 DEF TypeOK
  <2> QED
    BY <1>4, <2>1, <2>2, Trapped DEF Running
<1> QED
  BY <1>5, <1>6

LEMMA LoseStep ==
  ASSUME IInv, NEW o \in Object, Lose(o)
  PROVE  IInv'
<1> /\ Running /\ life[o] = "live"
    /\ life' = [life EXCEPT ![o] = "lost"]
    /\ UNCHANGED <<handle, registry, due, table, trap, misuse>>
  BY DEF Lose
<1> /\ TypeOK /\ EntriesNamed /\ Registered
    /\ HandlesAreOwn /\ FinalizersMatchHandles /\ TrapsAreMisuse
  BY DEF IInv
<1>1. life'[o] = "lost" /\ \A p \in Object \ {o} : life'[p] = life[p]
  BY DEF TypeOK
<1>2. TypeOK'
  BY DEF TypeOK
<1>3. EntriesNamed'
  <2>1. \A h \in Handle : table[h] # Free => table[h].to \in Object
    BY EntryFields DEF TypeOK
  <2> QED
    BY <1>1, <2>1 DEF EntriesNamed, Running
<1>4. Registered'
  <2>1. \A r \in registry \cup due : r[1] \in Object
    BY DEF TypeOK
  <2> QED
    BY <1>1, <2>1 DEF Registered
<1>5. HandlesAreOwn'
  BY <1>1 DEF HandlesAreOwn, Has, Running
<1>6. FinalizersMatchHandles' /\ TrapsAreMisuse'
  BY DEF FinalizersMatchHandles, TrapsAreMisuse, Running
<1> QED
  BY <1>2, <1>3, <1>4, <1>5, <1>6 DEF IInv

LEMMA CollectStep ==
  ASSUME IInv, NEW o \in Object, Collect(o)
  PROVE  IInv'
<1> /\ Running /\ life[o] = "lost"
    /\ life' = [life EXCEPT ![o] = "collected"]
    /\ due' = due \cup {r \in registry : r[1] = o}
    /\ registry' = {r \in registry : r[1] # o}
    /\ UNCHANGED <<handle, table, trap, misuse>>
  BY DEF Collect
<1> /\ TypeOK /\ EntriesNamed /\ Registered
    /\ HandlesAreOwn /\ FinalizersMatchHandles /\ TrapsAreMisuse
  BY DEF IInv
<1>1. life'[o] = "collected" /\ \A p \in Object \ {o} : life'[p] = life[p]
  BY DEF TypeOK
<1>2. registry' \cup due' = registry \cup due
  OBVIOUS
<1>3. TypeOK'
  <2>1. registry' \subseteq Object \X Handle /\ due' \subseteq Object \X Handle
    BY DEF TypeOK
  <2> QED
    BY <2>1 DEF TypeOK
<1>4. EntriesNamed'
  <2>1. \A h \in Handle : table[h] # Free => table[h].to \in Object
    BY EntryFields DEF TypeOK
  <2> QED
    BY <1>1, <2>1 DEF EntriesNamed, Running
<1>5. Registered'
  <2>1. \A r \in registry \cup due : r[1] \in Object
    BY DEF TypeOK
  <2> QED
    BY <1>1, <2>1 DEF Registered
<1>6. HandlesAreOwn'
  BY <1>1 DEF HandlesAreOwn, Has, Running
<1>7. FinalizersMatchHandles' /\ TrapsAreMisuse'
  BY <1>2 DEF FinalizersMatchHandles, TrapsAreMisuse, Running
<1> QED
  BY <1>3, <1>4, <1>5, <1>6, <1>7 DEF IInv

LEMMA FinalizeStep ==
  ASSUME IInv, Finalize
  PROVE  IInv'
<1> PICK r \in due : due' = due \ {r} /\ Drop(r[2])
  BY DEF Finalize, Callback
<1> /\ Running
    /\ UNCHANGED <<life, handle, registry, misuse>>
  BY DEF Finalize
<1> /\ TypeOK /\ EntriesNamed /\ Registered
    /\ HandlesAreOwn /\ FinalizersMatchHandles /\ TrapsAreMisuse
  BY DEF IInv
<1>1. /\ r[2] \in Handle /\ r[1] \in Object /\ r = <<r[1], r[2]>>
      /\ table[r[2]] # Free /\ table[r[2]].to = r[1]
  BY RegisteredOwned
<1>2. table' = [table EXCEPT ![r[2]] = Free] /\ trap' = trap
  BY <1>1 DEF Drop
<1>3. life[r[1]] = "collected" /\ r \notin registry
  BY DEF Registered
<1>4. registry' \cup due' = (registry \cup due) \ {<<table[r[2]].to, r[2]>>}
  BY <1>1, <1>3
<1>5. TypeOK'
  <2>1. table' \in [Handle -> Entry]
    BY <1>2, OwnEntry DEF TypeOK
  <2> QED
    BY <1>2, <2>1 DEF TypeOK
<1>6. Registered'
  BY DEF Registered
<1>7. EntriesNamed' /\ HandlesAreOwn' /\ FinalizersMatchHandles'
  BY <1>1, <1>2, <1>3, <1>4, Released
<1>8. TrapsAreMisuse'
  BY <1>2 DEF TrapsAreMisuse, Running
<1> QED
  BY <1>5, <1>6, <1>7, <1>8 DEF IInv

LEMMA CallReturnsStep ==
  ASSUME IInv, CallReturns
  PROVE  IInv'
<1>1. TypeOK' /\ Registered'
  BY DEF IInv, CallReturns, TypeOK, Registered
<1> QED
  BY <1>1, Trapped DEF CallReturns, Running

LEMMA Stutter ==
  ASSUME IInv, UNCHANGED vars
  PROVE  IInv'
BY DEF IInv, vars, TypeOK, EntriesNamed, Registered, HandlesAreOwn, FinalizersMatchHandles,
       TrapsAreMisuse, Running, Has

LEMMA StepInvariant == IInv /\ [Next]_vars => IInv'
<1> SUFFICES ASSUME IInv, [Next]_vars PROVE IInv'
  OBVIOUS
<1>1. CASE \E o \in Object :
             LiftOwn(o) \/ LiftBorrow(o) \/ Dispose(o) \/ PassOn(o) \/ Lose(o) \/ Collect(o)
  BY <1>1, LiftOwnStep, LiftBorrowStep, DisposeStep, PassOnStep, LoseStep, CollectStep
<1>2. CASE Finalize
  BY <1>2, FinalizeStep
<1>3. CASE CallReturns
  BY <1>3, CallReturnsStep
<1>4. CASE Over \/ UNCHANGED vars
  BY <1>4, Stutter DEF Over
<1> QED
  BY <1>1, <1>2, <1>3, <1>4 DEF Next

THEOREM Invariance == Spec => []IInv
<1>1. Init => IInv
  BY InitInvariant
<1>2. IInv /\ [Next]_vars => IInv'
  BY StepInvariant
<1> QED
  BY <1>1, <1>2, PTL DEF Spec

(* For any number of objects and handles: user code never holds an object  *)
(* whose handle dispose, a transfer or a finalizer has dropped.            *)
THEOREM ReachableHandlesOwn == Spec => []HandlesAreOwn
<1>1. IInv => HandlesAreOwn
  BY DEF IInv
<1> QED
  BY <1>1, Invariance, PTL

(* For any number of objects and handles: the finalizers that may still run *)
(* are exactly those of the handles that are owned.                        *)
THEOREM FinalizersComplete == Spec => []FinalizersMatchHandles
<1>1. IInv => FinalizersMatchHandles
  BY DEF IInv
<1> QED
  BY <1>1, Invariance, PTL

(* For any number of objects and handles: the garbage collector never makes *)
(* the host trap; only user code that keeps or reuses what is gone does.   *)
THEOREM OnlyMisuseTraps == Spec => []TrapsAreMisuse
<1>1. IInv => TrapsAreMisuse
  BY DEF IInv
<1> QED
  BY <1>1, Invariance, PTL
=============================================================================

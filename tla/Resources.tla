----------------------------- MODULE Resources -----------------------------
(* The handles behind objects of an imported resource.  An object gets its  *)
(* handle when it is constructed or lifted, and gives it up when user code  *)
(* disposes it (resource_bindgen) or passes it on, or when it is collected  *)
(* and its finalizer runs (finalization_registries).  The host hands out    *)
(* indices it has got back again, so a handle kept too long is another      *)
(* object's.  Lifting and lowering are js-component-bindgen's.              *)
EXTENDS Integers, FiniteSets

CONSTANTS
  Object,     \* JavaScript objects
  MaxHandle   \* indices of the handle table

ASSUME HandleAssumption == MaxHandle \in Nat \ {0}

VARIABLES
  life,       \* "unused", "live", "lost" to user code, or "collected"
  handle,     \* the object's symbolRscHandle property
  registry,   \* finalizationRegistry_import$..: an object, and the handle held for it
  due,        \* the registrations of collected objects
  table,      \* the handle table: whom an index was given to, and how
  trap,       \* why the instance is gone
  misuse      \* user code has used an object it had given up, or kept a borrowed one

vars == <<life, handle, registry, due, table, trap, misuse>>

Handle == 1..MaxHandle
Free == [kind |-> "free"]
Entry == {Free} \cup [kind : {"own", "borrow"}, to : Object]

UndefinedHandle == 0

Init ==
  /\ life = [o \in Object |-> "unused"]
  /\ handle = [o \in Object |-> 0]
  /\ registry = {}
  /\ due = {}
  /\ table = [h \in Handle |-> Free]
  /\ trap = "none"
  /\ misuse = FALSE

Running == trap = "none"
Has(o) == handle[o] \in Handle

(* An object for a handle that is owned: finalized unless it is disposed.   *)
LiftOwn(o) ==
  /\ Running
  /\ life[o] = "unused"
  /\ \E h \in Handle :
       /\ table[h] = Free
       /\ table' = [table EXCEPT ![h] = [kind |-> "own", to |-> o]]
       /\ handle' = [handle EXCEPT ![o] = h]
       /\ registry' = registry \cup {<<o, h>>}
  /\ life' = [life EXCEPT ![o] = "live"]
  /\ UNCHANGED <<due, trap, misuse>>

(* An object for a handle that is lent for the length of a call.           *)
LiftBorrow(o) ==
  /\ Running
  /\ life[o] = "unused"
  /\ \E h \in Handle :
       /\ table[h] = Free
       /\ table' = [table EXCEPT ![h] = [kind |-> "borrow", to |-> o]]
       /\ handle' = [handle EXCEPT ![o] = h]
  /\ life' = [life EXCEPT ![o] = "live"]
  /\ UNCHANGED <<registry, due, trap, misuse>>

(* resource.drop: undefined reaches the host as 0, which is no handle.     *)
Drop(h) ==
  IF h \in Handle /\ table[h] # Free
  THEN table' = [table EXCEPT ![h] = Free] /\ UNCHANGED trap
  ELSE trap' = "drop" /\ UNCHANGED table

(* Mutant: the registration stays. *)
Kept(o) == registry

Unregistered(o) == {r \in registry : r[1] # o}

(* Mutant: the object keeps its handle. *)
NotCleared(o) == handle

Cleared(o) == [handle EXCEPT ![o] = UndefinedHandle]

(* Mutant: the handle is read after it has been cleared. *)
ClearedFirst(o) == UndefinedHandle

HandleToDrop(o) == handle[o]

(* [Symbol.dispose]() of the class.                                        *)
Dispose(o) ==
  /\ Running
  /\ life[o] = "live"
  /\ registry' = Unregistered(o)
  /\ Drop(HandleToDrop(o))
  /\ handle' = Cleared(o)
  /\ misuse' = (misuse \/ ~Has(o))
  /\ UNCHANGED <<life, due>>

(* The object is passed to the host as an owned argument or result; the     *)
(* host does not take a handle that was only lent.                         *)
PassOn(o) ==
  /\ Running
  /\ life[o] = "live"
  /\ Has(o)
  /\ registry' = Unregistered(o)
  /\ handle' = Cleared(o)
  /\ IF table[handle[o]].kind = "own"
     THEN Drop(handle[o]) /\ UNCHANGED misuse
     ELSE trap' = "borrow" /\ misuse' = TRUE /\ UNCHANGED table
  /\ UNCHANGED <<life, due>>

(* User code forgets the object, the engine collects it, now or later.      *)
Lose(o) ==
  /\ Running
  /\ life[o] = "live"
  /\ life' = [life EXCEPT ![o] = "lost"]
  /\ UNCHANGED <<handle, registry, due, table, trap, misuse>>

Collect(o) ==
  /\ Running
  /\ life[o] = "lost"
  /\ life' = [life EXCEPT ![o] = "collected"]
  /\ due' = due \cup {r \in registry : r[1] = o}
  /\ registry' = {r \in registry : r[1] # o}
  /\ UNCHANGED <<handle, table, trap, misuse>>

(* (handle) => { $resource_import$..drop$..(handle); }                     *)
Callback(h) == Drop(h)

Finalize ==
  /\ Running
  /\ \E r \in due : due' = due \ {r} /\ Callback(r[2])
  /\ UNCHANGED <<life, handle, registry, misuse>>

(* A call returns without having dropped a handle it was lent: the host     *)
(* traps.  Without such a handle nothing changes.                          *)
CallReturns ==
  /\ Running
  /\ \E h \in Handle : table[h].kind = "borrow"
  /\ trap' = "borrow"
  /\ misuse' = TRUE
  /\ UNCHANGED <<life, handle, registry, due, table>>

Over == (~Running \/ \A o \in Object : life[o] = "collected") /\ UNCHANGED vars

Next ==
  \/ \E o \in Object :
       LiftOwn(o) \/ LiftBorrow(o) \/ Dispose(o) \/ PassOn(o) \/ Lose(o) \/ Collect(o)
  \/ Finalize \/ CallReturns \/ Over

Spec == Init /\ [][Next]_vars
-----------------------------------------------------------------------------
(* The handle of an object that user code can still reach is its own in the *)
(* host's table: it has not been dropped under it, by dispose or by any     *)
(* finalizer, and its index has not been given to another object.          *)
HandlesAreOwn ==
  Running => \A o \in Object : life[o] = "live" /\ Has(o) =>
               table[handle[o]] # Free /\ table[handle[o]].to = o

(* Finalizers and owned handles match, in every state of dispose, transfer  *)
(* and collection: a finalizer that may still run holds a handle that is   *)
(* its object's, not one that took over its index, and a handle that user  *)
(* code may forget about has a finalizer that will drop it.                *)
FinalizersMatchHandles ==
  Running => registry \cup due = {<<table[h].to, h>> : h \in {k \in Handle : table[k].kind = "own"}}

(* The host only traps when user code disposes an object that it disposed   *)
(* or passed on before, passes on a borrowed one or keeps it beyond the    *)
(* call; never through the garbage collector.                              *)
TrapsAreMisuse == ~Running => misuse
=============================================================================

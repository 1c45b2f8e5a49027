---------------------------- MODULE CallContract ----------------------------
(***************************************************************************)
(* What a componentized JavaScript module promises the host that drives    *)
(* it through its core export wrappers: calls are strictly sequential, a   *)
(* call either hands over results or kills the instance, for good unless   *)
(* the host runs the post-return function of a call that never returned,   *)
(* and the only return area that is live is the one of the last call.      *)
(* CallProtocol is shown to implement this specification.                  *)
(***************************************************************************)
CONSTANTS Fn,       \* the exported functions
          RetArea,  \* those whose results are written to a return area
          Singular, \* those that return a single core value
          Block,    \* the addresses the allocator may hand out
          None,     \* "no function", outside a call
          CarefulHost \* TRUE: the host leaves an instance that aborted alone

VARIABLES status,   \* "idle", "running", "results" or "dead"
          fn,       \* the function the current call is for
          areas     \* the return areas that are allocated

vars == <<status, fn, areas>>

Init == /\ status = "idle"
        /\ fn = None
        /\ areas = {}

(* The host enters the instance; results go to one fresh area, if to any. *)
Begin(f) ==
  /\ status = "idle"
  /\ status' = "running"
  /\ fn' = f
  /\ IF f \in RetArea THEN \E b \in Block : areas' = {b} ELSE areas' = {}

(* The instance aborts before the function runs. *)
BeginAborts(f) ==
  /\ status = "idle"
  /\ status' = "dead"
  /\ fn' = f
  /\ areas' = {}

(* A single core value travels in an area too. *)
SingleArea == fn \in Singular /\ \E b \in Block : areas' = {b}

(* The function completed. *)
Complete ==
  /\ status = "running"
  /\ status' = "results"
  /\ SingleArea \/ (fn \notin Singular /\ UNCHANGED areas)
  /\ UNCHANGED fn

(* An abort while the function runs, or while its value is handed over. *)
Abort ==
  /\ status = "running"
  /\ status' = "dead"
  /\ SingleArea \/ UNCHANGED areas
  /\ UNCHANGED fn

(* The host has read the results and runs the post-return function, *)
Release ==
  /\ status = "results"
  /\ status' = "idle"
  /\ fn' = None
  /\ areas' = {}

(* or runs the one of a call that aborted. *)
ReleaseAborted ==
  /\ ~CarefulHost
  /\ status = "dead"
  /\ status' = "idle"
  /\ fn' = None
  /\ areas' = {}

Next ==
  \/ \E f \in Fn : Begin(f) \/ BeginAborts(f)
  \/ Complete
  \/ Abort
  \/ Release
  \/ ReleaseAborted

Spec == Init /\ [][Next]_vars
=============================================================================

---------------------------- MODULE BuildContract ----------------------------
(* What componentize promises its callers, however many calls one Node.js  *)
(* process has in flight: every call settles on its own, and a component   *)
(* it returns is built from the world of that very call and from its text, *)
(* or from what its source file has held since the call read it.           *)

CONSTANTS
  Call, Source, World,
  UserPath, \* the paths of source files
  Nil       \* what was not given, or is not built

VARIABLES
  status,   \* of each call: "idle", "running", "returned" or "failed"
  files,    \* the source in each source file
  asked,    \* the text or path, and the world, each call was made with
  seen,     \* the sources each call may be built from
  built     \* the source and world of the component each call returned

vars == <<status, files, asked, seen, built>>

Request == [text : Source \cup {Nil}, path : UserPath \cup {Nil}, world : World]

Init ==
  /\ status = [c \in Call |-> "idle"]
  /\ files \in [UserPath -> Source]
  /\ asked = [c \in Call |-> Nil]
  /\ seen = [c \in Call |-> {}]
  /\ built = [c \in Call |-> Nil]

Begin(c) ==
  /\ status[c] = "idle"
  /\ status' = [status EXCEPT ![c] = "running"]
  /\ \E r \in Request :
       /\ asked' = [asked EXCEPT ![c] = r]
       /\ seen' = [seen EXCEPT ![c] = {r.text} \ {Nil}]
  /\ UNCHANGED <<files, built>>

Read(c) ==
  /\ status[c] = "running"
  /\ asked[c].text = Nil /\ asked[c].path # Nil
  /\ seen' = [seen EXCEPT ![c] = {files[asked[c].path]}]
  /\ UNCHANGED <<status, files, asked, built>>

(* A source file changes, and running calls with its path may notice.      *)
Rewrite(u, s) ==
  /\ files' = [files EXCEPT ![u] = s]
  /\ \E noticed \in SUBSET {c \in Call : status[c] = "running" /\ asked[c].path = u} :
       seen' = [c \in Call |-> IF c \in noticed THEN seen[c] \cup {s} ELSE seen[c]]
  /\ UNCHANGED <<status, asked, built>>

Deliver(c) ==
  /\ status[c] = "running"
  /\ status' = [status EXCEPT ![c] = "returned"]
  /\ \E s \in seen[c] :
       built' = [built EXCEPT ![c] = [source |-> s, world |-> asked[c].world]]
  /\ UNCHANGED <<files, asked, seen>>

Fail(c) ==
  /\ status[c] = "running"
  /\ status' = [status EXCEPT ![c] = "failed"]
  /\ UNCHANGED <<files, asked, seen, built>>

Next ==
  \/ \E c \in Call : Begin(c) \/ Read(c) \/ Deliver(c) \/ Fail(c)
  \/ \E u \in UserPath, s \in Source : Rewrite(u, s)

Spec == Init /\ [][Next]_vars
=============================================================================

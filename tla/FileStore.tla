------------------------------ MODULE FileStore ------------------------------
(***************************************************************************)
(* What a diskette promises its user: a map from file names to contents,   *)
(* and requests whose outcome says what became of the map.                 *)
(***************************************************************************)
CONSTANTS Names,      \* names of files
          Contents,   \* what a file may hold
          Absent      \* the value of a name without a file, no contents

VARIABLES store,
          request,    \* the last request
          outcome     \* and what its user was told

TypeOK == store \in [Names -> Contents \union {Absent}]

Init ==
  /\ store   = [n \in Names |-> Absent]
  /\ request = [op |-> "none"]
  /\ outcome = "none"

Asks(op, n) == request'.op = op /\ request'.name = n

(* The contents of the request replace the file of its name.               *)
Put(n) ==
  /\ Asks("write", n) /\ outcome' = "ok"
  /\ request'.bytes \in Contents
  /\ store' = [store EXCEPT ![n] = request'.bytes]

Remove(n) ==
  /\ Asks("kill", n) /\ outcome' = "ok"
  /\ store' = [store EXCEPT ![n] = Absent]

(* A request that is refused changes nothing.                              *)
Refuse(n) ==
  /\ Asks("write", n) \/ Asks("unreadable", n)
  /\ outcome' = "error"
  /\ store' = store

(* One that breaks down may leave anything under its name, and is the last *)
(* of the diskette.                                                        *)
Spoil(n) ==
  /\ Asks("write", n) \/ Asks("kill", n)
  /\ outcome' = "commit failed"
  /\ \A m \in Names \ {n} : store'[m] = store[m]

Next ==
  /\ outcome # "commit failed"
  /\ \E n \in Names : Put(n) \/ Remove(n) \/ Refuse(n) \/ Spoil(n)

Spec == Init /\ [][Next]_<<store, request, outcome>>
=============================================================================

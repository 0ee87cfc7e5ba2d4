---------------------------- MODULE EntityDirectory ----------------------------
(***************************************************************************)
(* What the entity framework promises its callers: a directory from the    *)
(* type and the instance of an entity to the entity.  Registration writes  *)
(* one entry, a later one with the same key replacing it; once the library *)
(* is up the directory never changes.  Whether the start succeeded is      *)
(* known only when it is up, and says little (see EntityFramework).        *)
(***************************************************************************)
CONSTANTS
  Keys,         \* the pairs <<type, instance>>
  Records,      \* the entities that may be registered
  KeyOf(_),     \* the key of a record
  None          \* no entity

VARIABLES
  directory,    \* the entity found for each key
  up,           \* the library is ready for callers
  status        \* the status of the start

vars == <<directory, up, status>>

Init ==
  /\ directory = [k \in Keys |-> None]
  /\ up = FALSE
  /\ status = "ok"

\* An entity with key k is registered.
Register(k) ==
  /\ ~up
  /\ directory' = [directory EXCEPT ![k] = directory'[k]]
  /\ directory'[k] \in Records
  /\ KeyOf(directory'[k]) = k
  /\ UNCHANGED <<up, status>>

\* An entity of the directory is initialised, well or badly.
Visit ==
  /\ ~up
  /\ status' \in {"ok", "EPERM"}
  /\ UNCHANGED <<directory, up>>

\* The start is over.
Open ==
  /\ ~up
  /\ up' = TRUE
  /\ UNCHANGED <<directory, status>>

Next == (\E k \in Keys : Register(k)) \/ Visit \/ Open

Spec == Init /\ [][Next]_vars
=============================================================================

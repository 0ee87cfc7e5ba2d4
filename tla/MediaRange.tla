------------------------------ MODULE MediaRange ------------------------------
(***************************************************************************)
(* What sdi_media_info_get and sdi_media_info_set promise of a transfer: a *)
(* range of the module's memory and the buffer are gone through from their *)
(* first byte on, byte p of the buffer stands for byte p of the range, and *)
(* success means that all of it was moved.  A transfer to the module may   *)
(* fail with all moved, when only its last answer is lost.                 *)
(*                                                                         *)
(* The module may be exchanged at any time, which is not seen here.        *)
(***************************************************************************)
EXTENDS Integers

CONSTANT Ranges    \* ranges that are asked for: records [page, addr, size]

VARIABLES
  dir,      \* "get", "set", or "none" outside a transfer
  range,    \* the range
  bytes,    \* pairs <<offset in the buffer, address>> of the bytes moved
  status    \* "pending" until the transfer ends

vars == <<dir, range, bytes, status>>

NoRange == [page |-> 0, addr |-> 0, size |-> 0]

\* The first n bytes of range r.
Prefix(r, n) == {<<p, r.addr + p>> : p \in 0 .. n - 1}

Init == dir = "none" /\ range = NoRange /\ bytes = {} /\ status = "ok"

Begin ==
  /\ dir = "none"
  /\ dir' \in {"get", "set"}
  /\ range' \in Ranges
  /\ bytes' = {}
  /\ status' \in {"pending", "EINVAL"}

\* Some more bytes are moved.  A transfer to the module may do so and fail.
Move ==
  /\ status = "pending"
  /\ \E n \in 1 .. range.size :
       <<n - 1, range.addr + n - 1>> \notin bytes /\ bytes' = Prefix(range, n)
  /\ status' \in IF dir = "set" THEN {"pending", "error"} ELSE {"pending"}
  /\ UNCHANGED <<dir, range>>

Stop ==
  /\ status = "pending"
  /\ \/ status' = "ok" /\ bytes = Prefix(range, range.size)
     \/ status' = "error" /\ bytes # Prefix(range, range.size)
  /\ UNCHANGED <<dir, range, bytes>>

Return ==
  /\ dir # "none"
  /\ status # "pending"
  /\ dir' = "none" /\ range' = NoRange /\ bytes' = {} /\ status' = "ok"

Next == Begin \/ Move \/ Stop \/ Return

\* A transfer ends.
Spec == Init /\ [][Next]_vars /\ WF_vars(Move \/ Stop)
=============================================================================

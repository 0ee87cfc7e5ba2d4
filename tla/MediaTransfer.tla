---------------------------- MODULE MediaTransfer ----------------------------
(***************************************************************************)
(* Access to the memory of a transceiver through the MCIA register of the  *)
(* switch (utils/sdi_media_utils.c).  sdi_media_info_get and _set take     *)
(* a range in batches of 48 bytes and a tail, one register transaction     *)
(* each; sdi_media_identifier_get is one transaction.  A transaction that  *)
(* fails ends the call.  Between two transactions the module may be        *)
(* exchanged.                                                              *)
(*                                                                         *)
(* The swaps of the bytes of a double word (ntohl, htonl) put the bytes of *)
(* the register in the order of their addresses.  What a byte holds does   *)
(* not matter here; it is known by its address.                            *)
(***************************************************************************)
EXTENDS Integers

CONSTANT Ranges    \* ranges that are asked for: records [page, addr, size]

\* The last address of a range fits the uint16_t device_address.
ASSUME TransferAssumption ==
  \A r \in Ranges : r \in [page : Nat, addr : Nat, size : Nat] /\ r.addr + r.size <= 65536

VARIABLES
  module,    \* the type of the transceiver in the cage, or "absent"
  dir,       \* "get", "set", or "none" outside a transfer
  range,     \* page, addr and size
  count,     \* i
  bytes,     \* pairs <<offset in the buffer, address>> of the bytes moved
  sources,   \* types of the modules that they were moved from, or to
  status     \* the status of the transfer, "pending" until it ends

transfer == <<dir, range, count, bytes, sources, status>>

\* sizeof(uint32_t) * 12
MCIA_DATA_BATCH_SIZE == 48

NoRange == [page |-> 0, addr |-> 0, size |-> 0]

TransferInit ==
  /\ dir = "none"
  /\ range = NoRange
  /\ count = 0
  /\ bytes = {}
  /\ sources = {}
  /\ status = "ok"

\* Entry of info_get and info_set; without a buffer they do nothing.
Begin(d, r, buf) ==
  /\ dir = "none"
  /\ dir' = d
  /\ range' = r
  /\ count' = 0
  /\ bytes' = {}
  /\ sources' = {}
  /\ status' = IF buf THEN "pending" ELSE "EINVAL"

batch_count == range.size \div MCIA_DATA_BATCH_SIZE
tail_size   == range.size % MCIA_DATA_BATCH_SIZE

Offset == MCIA_DATA_BATCH_SIZE * count
Length == IF count < batch_count THEN MCIA_DATA_BATCH_SIZE ELSE tail_size

\* Transactions are left: the batches, and the tail if there is one.
Left == count < batch_count \/ (count = batch_count /\ tail_size # 0)

\* One transaction: a batch, or the tail.
Moved ==
  /\ module # "absent"
  /\ bytes' = bytes \cup {<<Offset + k, range.addr + Offset + k>> : k \in 0 .. Length - 1}
  /\ sources' = sources \cup {module}

\* Bug: the tail is moved to and from the start of the range.
TransactTail ==
  /\ status = "pending" /\ Left
  /\ module # "absent"
  /\ bytes' = bytes \cup
       {<<k, range.addr + k>> : k \in 0 .. Length - 1}
  /\ sources' = sources \cup {module}
  /\ count' = count + 1
  /\ UNCHANGED <<dir, range, status>>

Transact ==
  /\ status = "pending" /\ Left
  /\ Moved
  /\ count' = count + 1
  /\ UNCHANGED <<dir, range, status>>

\* A transaction fails.  A write may have been done and its answer lost.
TransactFails ==
  /\ status = "pending" /\ Left
  /\ status' = "error"
  /\ \/ UNCHANGED <<bytes, sources>>
     \/ dir = "set" /\ Moved
  /\ UNCHANGED <<dir, range, count>>

Complete ==
  /\ status = "pending" /\ ~Left
  /\ status' = "ok"
  /\ UNCHANGED <<dir, range, count, bytes, sources>>

\* The caller takes the result.
Finish ==
  /\ dir # "none" /\ status # "pending"
  /\ dir' = "none"
  /\ range' = NoRange
  /\ count' = 0
  /\ bytes' = {}
  /\ sources' = {}
  /\ status' = "ok"

TransferStep == Transact \/ TransactFails \/ Complete

-----------------------------------------------------------------------------
(* Properties. *)

TransferTypeOK ==
  /\ dir \in {"none", "get", "set"}
  /\ range \in Ranges \cup {NoRange}
  /\ count \in Nat
  /\ bytes \subseteq Nat \X Nat
  /\ status \in {"pending", "ok", "error", "EINVAL"}

Range == INSTANCE MediaRange

\* A transfer, in whatever batches, goes through its range from the first byte
\* on, puts every byte in its place, succeeds if and only if it has moved all
\* of them, and ends: one that fails half way has moved a prefix.
ImplementsRange == Range!Spec
=============================================================================

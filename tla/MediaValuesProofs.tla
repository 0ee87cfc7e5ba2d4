--------------------------- MODULE MediaValuesProofs ---------------------------
(***************************************************************************)
(* Proofs about the getters of a transceiver and the transfers below them, *)
(* for all tables of vendor lengths, requests and ranges: types, what a    *)
(* failed getter leaves behind, and that a transfer in batches is one of   *)
(* MediaRange.                                                             *)
(***************************************************************************)
EXTENDS MediaValues, TLAPS

-----------------------------------------------------------------------------
(* Transfers. *)

\* The number of bytes moved after count transactions.
Reached == IF count <= batch_count THEN Offset ELSE range.size

\* The transactions go through the range in order, the tail last.
InOrder ==
  status = "pending" =>
    /\ dir # "none"
    /\ count <= batch_count \/ (count = batch_count + 1 /\ tail_size # 0)
    /\ bytes = Range!Prefix(range, Reached)

\* Between two transfers nothing is left of the last one.
Clean ==
  /\ dir = "none" => range = NoRange /\ bytes = {} /\ status = "ok"
  /\ dir # "none" => range \in Ranges

\* A transfer that succeeded has moved its range.
Completed == status = "ok" /\ dir # "none" => bytes = Range!Prefix(range, range.size)

TransferInv == TransferTypeOK /\ sources \subseteq Types /\ Clean /\ InOrder /\ Completed

\* Batches and tail make up the range.
LEMMA BatchesAndTail ==
  ASSUME NEW n \in Nat
  PROVE  /\ n \div 48 \in Nat /\ n % 48 \in 0 .. 47
         /\ n = 48 * (n \div 48) + (n % 48)
  OBVIOUS

LEMMA RangeType ==
  ASSUME NEW r \in Ranges \cup {NoRange}
  PROVE  r.page \in Nat /\ r.addr \in Nat /\ r.size \in Nat
  BY TransferAssumption DEF NoRange

\* Where a transaction starts and ends.
LEMMA TransactionBounds ==
  ASSUME TransferInv, status = "pending"
  PROVE  /\ Reached \in Nat /\ range.size \in Nat /\ range.addr \in Nat
         /\ Offset \in Nat /\ Length \in Nat
         /\ Left => Reached = Offset /\ Length > 0 /\ Offset + Length <= range.size
         /\ ~Left => Reached = range.size
<1>1. range.size \in Nat /\ range.addr \in Nat /\ count \in Nat
  BY RangeType DEF TransferInv, TransferTypeOK
<1>2. /\ batch_count \in Nat /\ tail_size \in 0 .. 47
      /\ range.size = 48 * batch_count + tail_size
  BY <1>1, BatchesAndTail DEF batch_count, tail_size, MCIA_DATA_BATCH_SIZE
<1>3. count <= batch_count \/ (count = batch_count + 1 /\ tail_size # 0)
  BY DEF TransferInv, InOrder
<1>4. Offset = 48 * count /\ Offset \in Nat
  BY <1>1 DEF Offset, MCIA_DATA_BATCH_SIZE
<1>5. Length = IF count < batch_count THEN 48 ELSE tail_size
  BY DEF Length, MCIA_DATA_BATCH_SIZE
<1> QED BY <1>1, <1>2, <1>3, <1>4, <1>5 DEF Reached, Left

\* The bytes behind a prefix make it longer.
Behind(r, n, l) == {<<n + k, r.addr + n + k>> : k \in 0 .. l - 1}

LEMMA PrefixGrows ==
  ASSUME NEW r \in Ranges \cup {NoRange}, NEW n \in Nat, NEW l \in Nat
  PROVE  Range!Prefix(r, n) \cup Behind(r, n, l) = Range!Prefix(r, n + l)
<1> DEFINE More == Behind(r, n, l)
<1> r.addr \in Nat
  BY RangeType
<1>1. ASSUME NEW b \in Range!Prefix(r, n + l) PROVE b \in Range!Prefix(r, n) \cup More
  <2>1. PICK p \in 0 .. n + l - 1 : b = <<p, r.addr + p>>
    BY DEF Range!Prefix
  <2>2. CASE p < n
    <3>1. p \in 0 .. n - 1
      BY <2>2
    <3> QED BY <2>1, <3>1 DEF Range!Prefix
  <2>3. CASE p >= n
    <3>1. p - n \in 0 .. l - 1 /\ n + (p - n) = p /\ r.addr + n + (p - n) = r.addr + p
      BY <2>3
    <3> QED BY <2>1, <3>1 DEF Behind
  <2> QED BY <2>2, <2>3
<1>2. ASSUME NEW b \in More PROVE b \in Range!Prefix(r, n + l)
  <2>1. PICK k \in 0 .. l - 1 : b = <<n + k, r.addr + n + k>>
    BY DEF Behind
  <2>2. n + k \in 0 .. n + l - 1 /\ r.addr + (n + k) = r.addr + n + k
    OBVIOUS
  <2> QED BY <2>1, <2>2 DEF Range!Prefix
<1>3. ASSUME NEW b \in Range!Prefix(r, n) PROVE b \in Range!Prefix(r, n + l)
  <2>1. PICK p \in 0 .. n - 1 : b = <<p, r.addr + p>>
    BY DEF Range!Prefix
  <2>2. p \in 0 .. n + l - 1
    OBVIOUS
  <2> QED BY <2>1, <2>2 DEF Range!Prefix
<1> QED BY <1>1, <1>2, <1>3

\* A prefix does not hold the bytes behind it.
LEMMA PrefixEnds ==
  ASSUME NEW r, r.addr \in Nat, NEW n \in Nat, NEW p \in Nat, p >= n
  PROVE  <<p, r.addr + p>> \notin Range!Prefix(r, n)
  BY DEF Range!Prefix

\* A transaction moves the next bytes of the range.
LEMMA MovedBytes ==
  ASSUME TransferInv, status = "pending", Left, Moved, module \in Types \cup {"absent"}
  PROVE  /\ bytes' = Range!Prefix(range, Reached + Length)
         /\ bytes' \subseteq Nat \X Nat
         /\ sources' \subseteq Types
         /\ \E n \in 1 .. range.size :
              <<n - 1, range.addr + n - 1>> \notin bytes /\ bytes' = Range!Prefix(range, n)
<1>1. /\ Reached \in Nat /\ range.size \in Nat /\ range.addr \in Nat /\ Length \in Nat
      /\ Reached = Offset /\ Length > 0 /\ Offset + Length <= range.size
  BY TransactionBounds
<1>2. bytes = Range!Prefix(range, Reached)
  BY DEF TransferInv, InOrder
<1>3. bytes' = bytes \cup Behind(range, Reached, Length)
  BY <1>1 DEF Moved, Behind
<1>4. bytes' = Range!Prefix(range, Reached + Length)
  <2>1. Range!Prefix(range, Reached) \cup Behind(range, Reached, Length)
          = Range!Prefix(range, Reached + Length)
    <3>1. range \in Ranges \cup {NoRange} /\ Reached \in Nat /\ Length \in Nat
      BY <1>1 DEF TransferInv, TransferTypeOK
    <3> QED BY <3>1, PrefixGrows
  <2> QED BY <1>2, <1>3, <2>1
<1>5. bytes' \subseteq Nat \X Nat
  BY <1>1, <1>4 DEF Range!Prefix
<1>6. sources' \subseteq Types
  BY DEF Moved, TransferInv
<1> DEFINE n == Reached + Length
<1>7. n \in 1 .. range.size /\ n - 1 \in Nat /\ n - 1 >= Reached
      /\ range.addr + (n - 1) = range.addr + n - 1
  BY <1>1
<1>8. <<n - 1, range.addr + (n - 1)>> \notin bytes
  <2> HIDE DEF n
  <2> QED BY <1>1, <1>2, <1>7, PrefixEnds
<1>9. <<n - 1, range.addr + n - 1>> \notin bytes /\ bytes' = Range!Prefix(range, n)
  BY <1>4, <1>7, <1>8
<1>10. \E m \in 1 .. range.size :
         <<m - 1, range.addr + m - 1>> \notin bytes /\ bytes' = Range!Prefix(range, m)
  <2> HIDE DEF n
  <2> QED BY <1>7, <1>9
<1> QED BY <1>4, <1>5, <1>6, <1>10

\* A transaction that succeeds.
LEMMA TransactHolds ==
  ASSUME TransferInv, Transact, module \in Types \cup {"absent"}
  PROVE  TransferInv' /\ Range!Move
<1>1. /\ status = "pending" /\ Left /\ Moved
      /\ count' = count + 1 /\ UNCHANGED <<dir, range, status>>
  BY DEF Transact
<1>2. /\ bytes' = Range!Prefix(range, Reached + Length)
      /\ bytes' \subseteq Nat \X Nat
      /\ sources' \subseteq Types
      /\ \E n \in 1 .. range.size :
           <<n - 1, range.addr + n - 1>> \notin bytes /\ bytes' = Range!Prefix(range, n)
  BY <1>1, MovedBytes
<1>3. /\ count \in Nat /\ range.size \in Nat /\ Reached = Offset
      /\ count <= batch_count \/ (count = batch_count + 1 /\ tail_size # 0)
      /\ dir # "none"
  BY <1>1, TransactionBounds DEF TransferInv, TransferTypeOK, InOrder
<1>4. /\ batch_count \in Nat /\ tail_size \in 0 .. 47
      /\ range.size = 48 * batch_count + tail_size
  BY <1>3, BatchesAndTail DEF batch_count, tail_size, MCIA_DATA_BATCH_SIZE
<1>5. batch_count' = batch_count /\ tail_size' = tail_size
  BY <1>1 DEF batch_count, tail_size
<1>6. Reached' = Reached + Length
  BY <1>1, <1>3, <1>4, <1>5 DEF Reached, Offset, Length, Left, MCIA_DATA_BATCH_SIZE
<1>7. (count <= batch_count \/ (count = batch_count + 1 /\ tail_size # 0))'
  BY <1>1, <1>3, <1>4, <1>5 DEF Left
<1>8. Range!Prefix(range, Reached)' = Range!Prefix(range, Reached + Length)
  BY <1>1, <1>6 DEF Range!Prefix
<1>9. TransferInv'
  BY <1>1, <1>2, <1>3, <1>7, <1>8 DEF TransferInv, TransferTypeOK, Clean, InOrder, Completed
<1>10. Range!Move
  <2>1. status' \in IF dir = "set" THEN {"pending", "error"} ELSE {"pending"}
    BY <1>1
  <2> QED BY <1>1, <1>2, <2>1 DEF Range!Move
<1> QED BY <1>9, <1>10

\* A transaction that fails; one that writes may have been done.
LEMMA TransactFailsHolds ==
  ASSUME TransferInv, TransactFails, module \in Types \cup {"absent"}
  PROVE  TransferInv' /\ (Range!Move \/ Range!Stop)
<1>1. /\ status = "pending" /\ Left /\ status' = "error"
      /\ UNCHANGED <<dir, range, count>>
      /\ dir # "none"
  BY DEF TransactFails, TransferInv, InOrder
<1>2. CASE UNCHANGED <<bytes, sources>>
  <2>1. TransferInv'
    BY <1>1, <1>2 DEF TransferInv, TransferTypeOK, Clean, InOrder, Completed
  <2>2. bytes # Range!Prefix(range, range.size)
    <3>1. /\ Reached \in Nat /\ range.size \in Nat /\ range.addr \in Nat
          /\ Reached < range.size
      BY <1>1, TransactionBounds
    <3>2. <<Reached, range.addr + Reached>> \in Range!Prefix(range, range.size)
      BY <3>1 DEF Range!Prefix
    <3>3. <<Reached, range.addr + Reached>> \notin bytes
      BY <1>1, <3>1, PrefixEnds DEF TransferInv, InOrder
    <3> QED BY <3>2, <3>3
  <2> QED BY <1>1, <1>2, <2>1, <2>2 DEF Range!Stop
<1>3. CASE dir = "set" /\ Moved
  <2>1. /\ bytes' = Range!Prefix(range, Reached + Length)
        /\ bytes' \subseteq Nat \X Nat
        /\ sources' \subseteq Types
        /\ \E n \in 1 .. range.size :
             <<n - 1, range.addr + n - 1>> \notin bytes /\ bytes' = Range!Prefix(range, n)
    BY <1>1, <1>3, MovedBytes
  <2>2. TransferInv'
    BY <1>1, <2>1 DEF TransferInv, TransferTypeOK, Clean, InOrder, Completed
  <2> QED BY <1>1, <1>3, <2>1, <2>2 DEF Range!Move
<1> QED BY <1>2, <1>3 DEF TransactFails

\* The end of a transfer that has no transaction left.
LEMMA CompleteHolds ==
  ASSUME TransferInv, Complete
  PROVE  TransferInv' /\ Range!Stop
<1>1. bytes = Range!Prefix(range, range.size)
  BY TransactionBounds DEF Complete, TransferInv, InOrder
<1>2. TransferInv'
  <2>1. Range!Prefix(range, range.size)' = Range!Prefix(range, range.size)
    BY DEF Complete, Range!Prefix
  <2> QED BY <1>1, <2>1 DEF Complete, TransferInv, TransferTypeOK, Clean, InOrder, Completed
<1> QED BY <1>1, <1>2 DEF Complete, Range!Stop

\* The start of a transfer.
LEMMA BeginHolds ==
  ASSUME TransferInv, NEW d \in {"get", "set"}, NEW r \in Ranges, NEW b \in BOOLEAN, Begin(d, r, b)
  PROVE  TransferInv' /\ Range!Begin
<1>1. /\ dir = "none" /\ dir' = d /\ range' = r /\ count' = 0 /\ bytes' = {} /\ sources' = {}
      /\ status' = IF b THEN "pending" ELSE "EINVAL"
  BY DEF Begin
<1>2. r.size \in Nat
  BY RangeType
<1>3. batch_count' \in Nat
  BY <1>1, <1>2, BatchesAndTail DEF batch_count, MCIA_DATA_BATCH_SIZE
<1>4. Reached' = 0
  BY <1>1, <1>3 DEF Reached, Offset, MCIA_DATA_BATCH_SIZE
<1>5. Range!Prefix(range, Reached)' = {}
  BY <1>4 DEF Range!Prefix
<1>6. InOrder'
  <2>1. dir' # "none" /\ count' <= batch_count'
    BY <1>1, <1>3
  <2>2. bytes' = Range!Prefix(range, Reached)'
    BY <1>1, <1>5
  <2> QED BY <2>1, <2>2 DEF InOrder
<1>7. TransferTypeOK' /\ sources' \subseteq Types /\ Clean' /\ Completed'
  BY <1>1 DEF TransferTypeOK, Clean, Completed
<1> QED BY <1>1, <1>6, <1>7 DEF Range!Begin, TransferInv

\* The caller takes the result of a transfer.
LEMMA FinishHolds ==
  ASSUME TransferInv, Finish
  PROVE  TransferInv' /\ Range!Return
<1>1. TransferInv'
  BY DEF Finish, TransferInv, TransferTypeOK, Clean, InOrder, Completed
<1> QED BY <1>1 DEF Finish, Range!Return, NoRange, Range!NoRange

\* Nothing of a transfer changes.
LEMMA StutterHolds ==
  ASSUME TransferInv, UNCHANGED transfer
  PROVE  TransferInv' /\ UNCHANGED Range!vars
<1>1. Reached' = Reached /\ batch_count' = batch_count /\ tail_size' = tail_size
  BY DEF transfer, Reached, Offset, batch_count, tail_size
<1>2. /\ Range!Prefix(range, Reached)' = Range!Prefix(range, Reached)
      /\ Range!Prefix(range, range.size)' = Range!Prefix(range, range.size)
  BY <1>1 DEF transfer, Range!Prefix
<1> QED BY <1>1, <1>2 DEF transfer, TransferInv, TransferTypeOK, Clean, InOrder, Completed, Range!vars

-----------------------------------------------------------------------------
(* Getters. *)

\* A getter up to the identification, and from there to its last range.
Asked == call \in Requests /\ call.op \in Getters

Fresh == out = Entered(call.op) /\ read = {}

Planned ==
  /\ Asked
  /\ id \in Types \ {"other"}
  /\ Verdict(call.op, call.arg, call.n, id) = "ok"
  /\ step <= Len(Plan)
  /\ step = 0 => Fresh

Phases ==
  /\ pc \in {"idle", "raw"} => step = 0 /\ out = "kept" /\ read = {}
  /\ pc = "identify" => Asked /\ Fresh /\ step = 0
  /\ pc \in {"next", "transfer"} => Planned
  /\ pc = "transfer" => step < Len(Plan)

IInv == TypeOK /\ TransferInv /\ Phases /\ FailureKeepsOutput

\* The switch over the type.
LEMMA VerdictType ==
  ASSUME NEW op, NEW arg, NEW n, NEW t \in Types
  PROVE  /\ Verdict(op, arg, n, t) \in {"ok", "EINVAL", "EOPNOTSUPP", "error"}
         /\ Verdict(op, arg, n, t) = "ok" => t # "other"
  BY DEF Verdict, Types

\* Most getters read one range, two of them none or two.
LEMMA PlanLength ==
  ASSUME call.op \in Getters
  PROVE  /\ Len(Plan) \in Nat
         /\ call.op # "features" => Len(Plan) <= 1
         /\ call.op = "features" => Len(Plan) = 2
  BY DEF Plan, Reads, Getters

\* What a getter asks for is one of the ranges.
LEMMA PlanRange ==
  ASSUME Planned, step \in Nat, step < Len(Plan)
  PROVE  Plan[step + 1] \in Ranges
<1>1. Len(Plan) \in Nat
  BY PlanLength DEF Planned, Asked
<1>2. step + 1 \in 1 .. Len(Plan)
  BY <1>1
<1> QED BY <1>2, MediaValuesAssumption DEF Planned, Asked, Plan

LEMMA InitHolds == Init => IInv
<1> SUFFICES ASSUME Init PROVE IInv
  OBVIOUS
<1>1. TransferInv
  BY DEF Init, TransferInit, TransferInv, TransferTypeOK, Clean, InOrder, Completed
<1>2. TypeOK
  BY <1>1 DEF Init, TransferInit, TransferInv, TypeOK, Types, Outs
<1> QED BY <1>1, <1>2 DEF Init, IInv, Phases, FailureKeepsOutput

\* Steps outside a transfer.
LEMMA CallHolds ==
  ASSUME IInv, NEW r \in Requests, Call(r)
  PROVE  IInv' /\ UNCHANGED Range!vars
<1>1. TransferInv' /\ UNCHANGED Range!vars
  BY StutterHolds DEF Call, IInv
<1>2. CASE r.op \in Getters /\ out' = Entered(r.op)
  <2>1. TypeOK'
    BY <1>1, <1>2 DEF IInv, TypeOK, TransferInv, Call, Goto, transfer, Entered, Outs, Getters, Stubs
  <2>2. Phases' /\ FailureKeepsOutput'
    BY <1>2 DEF IInv, Phases, Asked, Fresh, FailureKeepsOutput, Call, Goto, Entered, Getters, Stubs
  <2> QED BY <1>1, <2>1, <2>2 DEF IInv
<1>3. CASE r.op \in DOMAIN Stubs /\ Goto("idle", "done") /\ rc' = Stubs[r.op]
           /\ out' = IF r.op = "is_dell_qualified" THEN "read" ELSE out
  <2>1. rc' \in {"ok", "EOPNOTSUPP", "unimplemented"} /\ r.op \notin Getters
    BY <1>3 DEF Stubs, Getters
  <2>2. TypeOK'
    BY <1>1, <1>3, <2>1 DEF IInv, TypeOK, TransferInv, Call, Goto, transfer, Outs
  <2>3. Phases' /\ FailureKeepsOutput'
    BY <1>3, <2>1 DEF IInv, Phases, FailureKeepsOutput, Call, Goto
  <2> QED BY <1>1, <2>2, <2>3 DEF IInv
<1> QED BY <1>2, <1>3 DEF Call

LEMMA IdentifyHolds ==
  ASSUME IInv, Identify
  PROVE  IInv' /\ UNCHANGED Range!vars
<1>1. TransferInv' /\ UNCHANGED Range!vars
  BY StutterHolds DEF Identify, IInv
<1>2. pc = "identify" /\ Asked /\ Fresh /\ step = 0
  BY DEF Identify, Goto, IInv, Phases
<1>3. CASE Goto("identify", "done") /\ rc' = "error" /\ UNCHANGED id
  BY <1>1, <1>2, <1>3 
       DEF Identify, Goto, IInv, TypeOK, TransferInv, transfer, Phases, FailureKeepsOutput, Fresh
<1>4. CASE module # "absent" /\ id' = module /\ rc' = Verdict(call.op, call.arg, call.n, id')
           /\ pc' = IF rc' = "ok" THEN "next" ELSE "done"
  <2>1. id' \in Types
    BY <1>4 DEF IInv, TypeOK
  <2>2. rc' \in {"ok", "EINVAL", "EOPNOTSUPP", "error"} /\ (rc' = "ok" => id' # "other")
    BY <1>4, <2>1, VerdictType
  <2>3. TypeOK'
    BY <1>1, <1>2, <1>4, <2>1, <2>2 DEF Identify, IInv, TypeOK, TransferInv, transfer
  <2>4. Len(Plan)' \in Nat
    <3>1. call' = call
      BY DEF Identify
    <3>2. Len(Reads(call.op, call.arg, call.n, id')) \in Nat
      BY <1>2 DEF Reads, Asked, Getters
    <3> QED BY <3>1, <3>2 DEF Plan
  <2>5. Phases' /\ FailureKeepsOutput'
    BY <1>2, <1>4, <2>1, <2>2, <2>4
       DEF Identify, Phases, Planned, Asked, Fresh, FailureKeepsOutput, Plan
  <2> QED BY <1>1, <2>3, <2>5 DEF IInv
<1> QED BY <1>3, <1>4 DEF Identify

LEMMA ValueHolds ==
  ASSUME IInv, Value
  PROVE  IInv' /\ UNCHANGED Range!vars
<1>1. TransferInv' /\ UNCHANGED Range!vars
  BY StutterHolds DEF Value, IInv
<1>2. rc = "ok" /\ rc' = "ok" /\ pc' = "done"
  BY DEF Value, Goto, IInv, TypeOK
<1>3. TypeOK'
  BY <1>1, <1>2 DEF Value, Goto, IInv, TypeOK, TransferInv, transfer, Outs
<1>4. Phases' /\ FailureKeepsOutput'
  BY <1>2 DEF Phases, FailureKeepsOutput
<1> QED BY <1>1, <1>3, <1>4 DEF IInv

LEMMA ReturnHolds ==
  ASSUME IInv, Return
  PROVE  IInv' /\ UNCHANGED Range!vars
<1>1. TransferInv' /\ UNCHANGED Range!vars
  BY StutterHolds DEF Return, IInv
<1>2. TypeOK'
  BY <1>1 DEF Return, Goto, IInv, TypeOK, TransferInv, transfer, Outs, Types
<1>3. Phases' /\ FailureKeepsOutput'
  BY DEF Return, Goto, Phases, FailureKeepsOutput
<1> QED BY <1>1, <1>2, <1>3 DEF IInv

LEMMA HotSwapHolds ==
  ASSUME IInv, HotSwap
  PROVE  IInv' /\ UNCHANGED Range!vars
<1>1. TransferInv' /\ UNCHANGED Range!vars
  BY StutterHolds DEF HotSwap, IInv
<1>2. TypeOK'
  BY <1>1 DEF HotSwap, IInv, TypeOK, TransferInv, transfer
<1>3. Phases' /\ FailureKeepsOutput'
  BY DEF HotSwap, IInv, Phases, Planned, Plan, Asked, Fresh, FailureKeepsOutput
<1> QED BY <1>1, <1>2, <1>3 DEF IInv

\* Steps that begin a transfer.
LEMMA BeginRangeHolds ==
  ASSUME IInv, BeginRange
  PROVE  IInv' /\ Range!Begin
<1>1. Planned /\ step \in Nat /\ step < Len(Plan) /\ Begin("get", Plan[step + 1], TRUE)
  BY DEF BeginRange, Goto, IInv, Phases, TypeOK
<1>2. Plan[step + 1] \in Ranges
  BY <1>1, PlanRange
<1>3. TransferInv' /\ Range!Begin
  BY <1>1, <1>2, BeginHolds DEF IInv
<1>4. TypeOK'
  BY <1>1, <1>3 DEF BeginRange, Goto, Begin, IInv, TypeOK, TransferInv
<1>5. Phases' /\ FailureKeepsOutput'
  BY <1>1 DEF BeginRange, Goto, Phases, Planned, Plan, Asked, Fresh, FailureKeepsOutput
<1> QED BY <1>3, <1>4, <1>5 DEF IInv

LEMMA RawCallHolds ==
  ASSUME IInv, NEW r \in RawRequests, RawCall(r)
  PROVE  IInv' /\ Range!Begin
<1>1. r.range \in Ranges /\ r.buf \in BOOLEAN
  BY MediaValuesAssumption
<1>2. PICK d \in {"get", "set"} : Begin(d, r.range, r.buf)
  BY DEF RawCall
<1>3. TransferInv' /\ Range!Begin
  BY <1>1, <1>2, BeginHolds DEF IInv
<1>4. TypeOK'
  BY <1>2, <1>3 DEF RawCall, Goto, Begin, IInv, TypeOK, TransferInv
<1>5. Phases' /\ FailureKeepsOutput'
  BY DEF RawCall, Goto, IInv, Phases, FailureKeepsOutput
<1> QED BY <1>3, <1>4, <1>5 DEF IInv

\* Steps of a transfer.
LEMMA TransferStepHolds ==
  ASSUME IInv, TransferStep, UNCHANGED <<module, control>>
  PROVE  IInv' /\ (Range!Move \/ Range!Stop)
<1>1. TransferInv /\ module \in Types \cup {"absent"}
  BY DEF IInv, TypeOK
<1>2. TransferInv' /\ (Range!Move \/ Range!Stop)
  BY <1>1, TransactHolds, TransactFailsHolds, CompleteHolds DEF TransferStep
<1>3. UNCHANGED dir
  BY DEF TransferStep, Transact, TransactFails, Complete
<1>4. TypeOK'
  BY <1>2, <1>3 DEF IInv, TypeOK, TransferInv, control
<1>5. Phases' /\ FailureKeepsOutput'
  BY DEF control, IInv, Phases, Planned, Plan, Asked, Fresh, FailureKeepsOutput
<1> QED BY <1>2, <1>4, <1>5 DEF IInv

\* Steps that end a transfer.
LEMMA RawReturnHolds ==
  ASSUME IInv, RawReturn
  PROVE  IInv' /\ Range!Return
<1>1. TransferInv' /\ Range!Return
  BY FinishHolds DEF RawReturn, IInv
<1>2. TypeOK'
  BY <1>1 DEF RawReturn, Goto, Finish, IInv, TypeOK, TransferInv
<1>3. Phases' /\ FailureKeepsOutput'
  BY DEF RawReturn, Goto, IInv, Phases, FailureKeepsOutput
<1> QED BY <1>1, <1>2, <1>3 DEF IInv

LEMMA TransferredHolds ==
  ASSUME IInv, Transferred
  PROVE  IInv' /\ Range!Return
<1>1. TransferInv' /\ Range!Return
  BY FinishHolds DEF Transferred, IInv
<1>2. /\ pc = "transfer" /\ Planned /\ step \in Nat /\ step < Len(Plan) /\ rc = "ok"
      /\ status # "pending" /\ UNCHANGED <<call, id>>
  BY DEF Transferred, Goto, Finish, IInv, Phases, TypeOK
<1>3. /\ Len(Plan) \in Nat
      /\ call.op # "features" => Len(Plan) <= 1
      /\ call.op = "features" => Len(Plan) = 2
  BY <1>2, PlanLength DEF Planned, Asked
<1>4. Plan' = Plan
  BY <1>2 DEF Plan
<1>5. CASE pc' = "next" /\ step' = step + 1 /\ UNCHANGED rc
           /\ read' = read \cup {<<t, range.page, b[2]>> : t \in sources, b \in bytes}
           /\ out' \in IF call.op \in Floats THEN {"read", "stray"}
                       ELSE IF call.op = "features" /\ step = 0 THEN {"cleared", "part"}
                       ELSE {"read"}
  <2>1. out' \in Outs
    BY <1>5 DEF Outs
  <2>2. read' \subseteq Types \X Nat \X Nat
    <3>1. range.page \in Nat /\ bytes \subseteq Nat \X Nat /\ sources \subseteq Types
      BY RangeType DEF IInv, TransferInv, TransferTypeOK
    <3>2. \A t \in sources, b \in bytes : <<t, range.page, b[2]>> \in Types \X Nat \X Nat
      BY <3>1
    <3> QED BY <1>5, <3>2 DEF IInv, TypeOK
  <2>3. TypeOK'
    BY <1>1, <1>2, <1>5, <2>1, <2>2 DEF Transferred, Finish, IInv, TypeOK, TransferInv
  <2>4. Phases' /\ FailureKeepsOutput'
    BY <1>2, <1>3, <1>4, <1>5 DEF Phases, Planned, Asked, FailureKeepsOutput
  <2> QED BY <1>1, <2>3, <2>4 DEF IInv
<1>6. CASE pc' = "done" /\ status # "ok" /\ rc' = status /\ UNCHANGED <<step, read, out>>
  <2>1. rc' \in {"error", "EINVAL"}
    BY <1>2, <1>6 DEF IInv, TransferInv, TransferTypeOK
  <2>2. TypeOK'
    BY <1>1, <1>2, <1>6, <2>1 DEF Transferred, Finish, IInv, TypeOK, TransferInv
  <2>3. step = 0 \/ (call.op = "features" /\ step = 1)
    <3>1. step \in Nat /\ Len(Plan) \in Nat /\ step < Len(Plan)
      BY <1>2, <1>3
    <3>2. CASE call.op = "features"
      <4>1. Len(Plan) = 2
        BY <1>3, <3>2
      <4>2. step < 2
        BY <3>1, <4>1
      <4> QED BY <3>1, <3>2, <4>2
    <3>3. CASE call.op # "features"
      BY <1>3, <3>1, <3>3
    <3> QED BY <3>2, <3>3
  <2>4. Phases' /\ FailureKeepsOutput'
    BY <1>2, <1>6, <2>3 DEF Phases, Planned, Fresh, FailureKeepsOutput
  <2> QED BY <1>1, <2>2, <2>4 DEF IInv
<1> QED BY <1>5, <1>6 DEF Transferred, Goto

\* Every step keeps the invariant, and is a step of MediaRange or none.
LEMMA StepHolds == IInv /\ [Next]_vars => IInv' /\ [Range!Next]_(Range!vars)
<1> SUFFICES ASSUME IInv, [Next]_vars PROVE IInv' /\ [Range!Next]_(Range!vars)
  OBVIOUS
<1>1. ASSUME NEW r \in Requests, Call(r) PROVE IInv' /\ [Range!Next]_(Range!vars)
  BY <1>1, CallHolds
<1>2. ASSUME NEW r \in RawRequests, RawCall(r) PROVE IInv' /\ [Range!Next]_(Range!vars)
  BY <1>2, RawCallHolds DEF Range!Next
<1>3. CASE Step
  BY <1>3, IdentifyHolds, BeginRangeHolds, TransferStepHolds, TransferredHolds, ValueHolds,
     ReturnHolds, RawReturnHolds DEF Step, Transferring, RawStep, Range!Next
<1>4. CASE HotSwap
  BY <1>4, HotSwapHolds
<1>5. CASE UNCHANGED vars
  <2>1. TransferInv' /\ UNCHANGED Range!vars
    BY <1>5, StutterHolds DEF vars, IInv
  <2>2. TypeOK'
    BY <1>5, <2>1 DEF vars, control, transfer, IInv, TypeOK, TransferInv
  <2>3. Phases' /\ FailureKeepsOutput'
    BY <1>5 DEF vars, control, IInv, Phases, Planned, Plan, Asked, Fresh, FailureKeepsOutput
  <2> QED BY <2>1, <2>2, <2>3 DEF IInv
<1> QED BY <1>1, <1>2, <1>3, <1>4, <1>5 DEF Next

\* The inductive invariant.
THEOREM Invariant == Spec => []IInv
  BY InitHolds, StepHolds, PTL DEF Spec

\* Every variable of the getters and the transfers keeps its type, for ranges
\* of any size: a transfer is under way exactly where a call waits for one.
THEOREM TypesHold == Spec => []TypeOK
<1>1. IInv => TypeOK
  BY DEF IInv
<1> QED BY Invariant, <1>1, PTL

\* A getter that fails, at the identification or at any of its transfers,
\* leaves the caller's variable as it was or cleared, and every variable keeps
\* its type (sdi_media.c:802-1553).
THEOREM FailuresKeepOutput == Spec => [](TypeOK /\ FailureKeepsOutput)
<1>1. IInv => TypeOK /\ FailureKeepsOutput
  BY DEF IInv
<1> QED BY <1>1, Invariant, PTL

-----------------------------------------------------------------------------
(* A value is made of all its bytes. *)

\* The bytes of the ranges of the plan up to the i-th, in a module of type t.
Bytes(t, r) == {<<t, r.page, r.addr + k>> : k \in 0 .. r.size - 1}
FirstBytes(i) == UNION {Bytes(id, Plan[j]) : j \in 1 .. i}

\* As long as the module is the one that was identified, what is read is the
\* next part of the plan.
Gathered ==
  ~swapped =>
    /\ pc \in {"next", "transfer"} => module = id /\ read = FirstBytes(step)
    /\ pc = "transfer" =>
         /\ range = Plan[step + 1]
         /\ sources \subseteq {id}
         /\ bytes # {} => sources = {id}
    /\ pc = "done" /\ rc = "ok" /\ call.op \in Getters =>
         call \in Requests /\ read = Cells[call][id]

\* The first step of a plan, and one more.
LEMMA NoBytes == FirstBytes(0) = {}
  BY DEF FirstBytes

LEMMA MoreBytes ==
  ASSUME NEW i \in Nat
  PROVE  FirstBytes(i + 1) = FirstBytes(i) \cup Bytes(id, Plan[i + 1])
<1> DEFINE B(j) == Bytes(id, Plan[j])
<1> HIDE DEF B
<1>1. UNION {B(j) : j \in 1 .. i + 1} = (UNION {B(j) : j \in 1 .. i}) \cup B(i + 1)
  <2>1. \A j : j \in 1 .. i + 1 <=> j \in 1 .. i \/ j = i + 1
    OBVIOUS
  <2> QED BY <2>1
<1> QED BY <1>1 DEF B, FirstBytes

\* The places that a value stands for are the bytes of its plan.
LEMMA CellsArePlanned ==
  ASSUME Planned
  PROVE  Cells[call][id] = FirstBytes(Len(Plan))
<1>1. call \in {q \in Requests : q.op \in Getters} /\ id \in Types
  BY DEF Planned, Asked
<1>2. Verdict(call.op, call.arg, call.n, id) = "ok"
  BY DEF Planned
<1>3. Cells[call][id] =
        UNION {{<<id, Plan[i].page, Plan[i].addr + k>> : k \in 0 .. Plan[i].size - 1} :
                 i \in 1 .. Len(Plan)}
  BY <1>1, <1>2 DEF Cells, Plan
<1> QED BY <1>3 DEF FirstBytes, Bytes

\* A transfer that succeeded on one module has the bytes of its range.
LEMMA RangeBytes ==
  ASSUME TransferInv, status = "ok", dir # "none", sources \subseteq {id},
         bytes # {} => sources = {id}
  PROVE  {<<t, range.page, b[2]>> : t \in sources, b \in bytes} = Bytes(id, range)
<1>1. bytes = {<<p, range.addr + p>> : p \in 0 .. range.size - 1}
  BY DEF TransferInv, Completed, Range!Prefix
<1>2. CASE sources = {id}
  <2>1. ASSUME NEW p \in 0 .. range.size - 1
        PROVE  <<id, range.page, range.addr + p>>
                 \in {<<t, range.page, b[2]>> : t \in sources, b \in bytes}
    <3>1. <<p, range.addr + p>> \in bytes /\ <<p, range.addr + p>>[2] = range.addr + p
      BY <1>1
    <3> QED BY <1>2, <3>1
  <2>2. ASSUME NEW b \in bytes
        PROVE  <<id, range.page, b[2]>> \in Bytes(id, range)
    <3>1. PICK p \in 0 .. range.size - 1 : b = <<p, range.addr + p>>
      BY <1>1
    <3>2. b[2] = range.addr + p
      BY <3>1
    <3> QED BY <3>2 DEF Bytes
  <2>3. {<<t, range.page, b[2]>> : t \in sources, b \in bytes} \subseteq Bytes(id, range)
    BY <1>2, <2>2
  <2>4. Bytes(id, range) \subseteq {<<t, range.page, b[2]>> : t \in sources, b \in bytes}
    BY <2>1 DEF Bytes
  <2> QED BY <2>3, <2>4
<1>3. CASE sources = {}
  <2>1. bytes = {} /\ 0 .. range.size - 1 = {}
    BY <1>1, <1>3
  <2> QED BY <1>3, <2>1 DEF Bytes
<1> QED BY <1>2, <1>3

\* A step of a transfer moves bytes of the module that is in the cage.
LEMMA SourcesAreIdentified ==
  ASSUME TransferStep, module = id, UNCHANGED id,
         sources \subseteq {id}, bytes # {} => sources = {id}
  PROVE  sources' \subseteq {id}' /\ (bytes' # {} => sources' = {id}')
<1>1. CASE Moved
  BY <1>1 DEF Moved
<1>2. CASE UNCHANGED <<bytes, sources>>
  BY <1>2
<1> QED BY <1>1, <1>2 DEF TransferStep, Transact, TransactFails, Complete

LEMMA GatheredHolds == IInv /\ Gathered /\ [Next]_vars => Gathered'
<1> SUFFICES ASSUME IInv, Gathered, [Next]_vars PROVE Gathered'
  OBVIOUS
<1> DEFINE Same == UNCHANGED <<call, id>>
<1>1. ASSUME Same PROVE Plan' = Plan /\ Cells[call][id]' = Cells[call][id]
  BY <1>1 DEF Plan, Cells
<1>2. ASSUME Same, UNCHANGED step PROVE FirstBytes(step)' = FirstBytes(step)
  BY <1>1, <1>2 DEF FirstBytes
<1>3. ASSUME NEW r \in Requests, Call(r) PROVE Gathered'
  <2>1. r.op \in DOMAIN Stubs => r.op \notin Getters
    BY DEF Stubs, Getters
  <2> QED BY <1>3, <2>1 DEF Call, Goto, Gathered
<1>4. ASSUME NEW r \in RawRequests, RawCall(r) PROVE Gathered'
  BY <1>4 DEF RawCall, Goto, Gathered
<1>5. CASE Identify
  <2>1. read = {} /\ step = 0
    BY <1>5 DEF Identify, Goto, IInv, Phases, Fresh
  <2>2. CASE Goto("identify", "done") /\ rc' = "error"
    BY <2>2 DEF Goto, Gathered
  <2>3. CASE module # "absent" /\ id' = module /\ pc' = IF rc' = "ok" THEN "next" ELSE "done"
    <3>1. FirstBytes(step)' = {}
      <4>1. step' = 0
        BY <1>5, <2>1 DEF Identify
      <4> QED BY <4>1 DEF FirstBytes
    <3> QED BY <1>5, <2>1, <2>3, <3>1 DEF Identify, Gathered
  <2> QED BY <1>5, <2>2, <2>3 DEF Identify
<1>6. CASE BeginRange
  <2>1. Same /\ UNCHANGED <<module, step, read, swapped>> /\ pc = "next" /\ pc' = "transfer"
        /\ range' = Plan[step + 1] /\ bytes' = {} /\ sources' = {}
    BY <1>6 DEF BeginRange, Begin, Goto
  <2> QED BY <1>1, <1>2, <2>1 DEF Gathered
<1>7. CASE Transferring
  <2>1. Same /\ UNCHANGED <<module, step, read, swapped, pc>> /\ pc = "transfer" /\ TransferStep
    BY <1>7 DEF Transferring, control
  <2>2. UNCHANGED range
    BY <2>1 DEF TransferStep, Transact, TransactFails, Complete
  <2> QED BY <1>1, <1>2, <2>1, <2>2, SourcesAreIdentified DEF Gathered
<1>8. CASE Transferred
  <2>1. Same /\ UNCHANGED <<module, swapped>> /\ pc = "transfer"
    BY <1>8 DEF Transferred, Goto
  <2>2. CASE pc' = "next" /\ status = "ok" /\ step' = step + 1
             /\ read' = read \cup {<<t, range.page, b[2]>> : t \in sources, b \in bytes}
    <3>1. TransferInv /\ dir # "none" /\ step \in Nat
      BY <2>1 DEF IInv, TypeOK
    <3>2. SUFFICES ASSUME ~swapped PROVE module' = id' /\ read' = FirstBytes(step)'
      BY <2>1, <2>2 DEF Gathered
    <3>3. /\ module = id /\ read = FirstBytes(step) /\ range = Plan[step + 1]
          /\ sources \subseteq {id} /\ (bytes # {} => sources = {id})
      BY <2>1, <3>2 DEF Gathered
    <3>4. read' = FirstBytes(step) \cup Bytes(id, Plan[step + 1])
      BY <2>2, <3>1, <3>3, RangeBytes
    <3>5. read' = FirstBytes(step + 1)
      BY <3>1, <3>4, MoreBytes
    <3>6. FirstBytes(step)' = FirstBytes(step + 1)
      BY <1>1, <2>1, <2>2 DEF FirstBytes
    <3> QED BY <2>1, <3>3, <3>5, <3>6
  <2>3. CASE pc' = "done" /\ status # "ok" /\ rc' = status
    BY <2>3 DEF Gathered
  <2> QED BY <1>8, <2>2, <2>3 DEF Transferred, Goto
<1>9. CASE Value
  <2>1. /\ Same /\ UNCHANGED <<module, step, read, swapped>>
        /\ pc = "next" /\ pc' = "done" /\ step = Len(Plan)
    BY <1>9 DEF Value, Goto
  <2>2. call \in Requests /\ Cells[call][id] = FirstBytes(Len(Plan))
    BY <2>1, CellsArePlanned DEF IInv, Phases, Planned, Asked
  <2> QED BY <1>1, <2>1, <2>2 DEF Gathered
<1>10. CASE Return
  BY <1>10 DEF Return, Goto, Gathered
<1>11. CASE RawStep
  BY <1>11 DEF RawStep, control, Gathered
<1>12. CASE RawReturn
  BY <1>12 DEF RawReturn, Goto, Gathered
<1>13. CASE HotSwap
  <2>1. Same /\ UNCHANGED <<pc, rc, read, range, bytes, sources>>
        /\ swapped' = (swapped \/ pc \in {"next", "transfer"})
    BY <1>13 DEF HotSwap, transfer
  <2> QED BY <1>1, <2>1 DEF Gathered
<1>14. CASE UNCHANGED vars
  <2>1. Same /\ UNCHANGED <<pc, rc, read, range, bytes, sources, swapped, step, module>>
    BY <1>14 DEF vars, control, transfer
  <2> QED BY <1>1, <1>2, <2>1 DEF Gathered
<1> QED BY <1>3, <1>4, <1>5, <1>6, <1>7, <1>8, <1>9, <1>10, <1>11, <1>12, <1>13, <1>14
        DEF Next, Step

\* Whatever the tables of the ranges, and however often a transfer is split, a
\* getter that succeeds on a module that stayed in the cage has read all the
\* bytes of its value, in that module, and no other byte (sdi_media.c:802-1553).
THEOREM ValuesAreWhole ==
  Spec => [](pc = "done" /\ rc = "ok" /\ call.op \in Getters /\ ~swapped => read = Cells[call][id])
<1>1. Init => Gathered
  BY DEF Init, Gathered
<1>2. Gathered =>
        (pc = "done" /\ rc = "ok" /\ call.op \in Getters /\ ~swapped => read = Cells[call][id])
  BY DEF Gathered
<1> QED BY <1>1, <1>2, Invariant, GatheredHolds, PTL DEF Spec

\* The safety part of ImplementsRange: in its batches of 48 bytes and a tail, a
\* transfer of sdi_media_info_get or _set goes through its range from the first
\* byte to the last, whatever its size.
THEOREM RefinesRange == Spec => Range!Init /\ [][Range!Next]_(Range!vars)
<1>1. Init => Range!Init
  BY DEF Init, TransferInit, Range!Init, NoRange, Range!NoRange
<1> QED BY <1>1, Invariant, StepHolds, PTL DEF Spec

-----------------------------------------------------------------------------
(* Which value a byte belongs to. *)

Covers(e, x) == e.addr <= x /\ x < e.addr + e.size

\* The room that the addresses of the vendor entries leave.
VendorWidths == <<16, 3, 16, 8, 16, 2>>
VendorsFit == \A i \in 1 .. 6 : VendorLength[i] <= VendorWidths[i]

\* Of the tables of one family no two entries share a byte.
LEMMA ParametersApart ==
  ASSUME NEW f \in {"sfp", "qsfp"}
  PROVE  \A a, b \in 1 .. 23, x \in Nat : Covers(Info[f][a], x) /\ Covers(Info[f][b], x) => a = b
<1>1. CASE f = "sfp"
  BY <1>1 DEF Info, Entry, None, Covers
<1>2. CASE f = "qsfp"
  BY <1>2 DEF Info, Entry, None, Covers
<1> QED BY <1>1, <1>2

LEMMA ThresholdsApart ==
  ASSUME NEW f \in {"sfp", "qsfp"}
  PROVE  \A a, b \in 1 .. 20, x \in Nat :
           Covers(Thresholds[f][a], x) /\ Covers(Thresholds[f][b], x) => a = b
<1>1. CASE f = "sfp"
  BY <1>1 DEF Thresholds, Entry, None, Covers
<1>2. CASE f = "qsfp"
  BY <1>2 DEF Thresholds, Entry, None, Covers
<1> QED BY <1>1, <1>2

VendorEntry(f, a) == Entry(VendorAddr[f][a], VendorWidths[a])

LEMMA VendorsApart ==
  ASSUME NEW f \in {"sfp", "qsfp"}
  PROVE  \A a, b \in 1 .. 6, x \in Nat :
           Covers(VendorEntry(f, a), x) /\ Covers(VendorEntry(f, b), x) => a = b
<1>1. CASE f = "sfp"
  BY <1>1 DEF VendorEntry, VendorAddr, VendorWidths, Entry, Covers
<1>2. CASE f = "qsfp"
  BY <1>2 DEF VendorEntry, VendorAddr, VendorWidths, Entry, Covers
<1> QED BY <1>1, <1>2

\* The getters of one range share the pages out among them.
VendorZone(f) ==
  IF f = "sfp" THEN (20 .. 35) \cup (37 .. 57) \cup (68 .. 91)
  ELSE (148 .. 163) \cup (165 .. 185) \cup (196 .. 219)
ChannelZone(f) == IF f = "sfp" THEN 100 .. 105 ELSE 34 .. 49
CodeZone(f)    == IF f = "sfp" THEN 3 .. 10 ELSE 131 .. 138
ModuleZone(f)  == IF f = "sfp" THEN 96 .. 99 ELSE 22 .. 27

Zone(f, p, x) ==
  IF p = (IF f = "sfp" THEN 2 ELSE 3) THEN
    IF f = "sfp" /\ x \in ModuleZone(f) THEN "module_monitor" ELSE "threshold"
  ELSE IF x \in VendorZone(f) THEN "vendor"
  ELSE IF x \in ChannelZone(f) THEN "channel_monitor"
  ELSE IF x \in CodeZone(f) THEN "code"
  ELSE IF f = "qsfp" /\ x \in ModuleZone(f) THEN "module_monitor"
  ELSE "parameter"

LEMMA ParametersInZone ==
  ASSUME NEW f \in {"sfp", "qsfp"}
  PROVE  \A a \in 1 .. 23, x \in Nat : Covers(Info[f][a], x) =>
           x \notin VendorZone(f) \cup ChannelZone(f) \cup CodeZone(f) \cup ModuleZone(f)
<1>1. CASE f = "sfp"
  BY <1>1 DEF Info, Entry, None, Covers, VendorZone, ChannelZone, CodeZone, ModuleZone
<1>2. CASE f = "qsfp"
  BY <1>2 DEF Info, Entry, None, Covers, VendorZone, ChannelZone, CodeZone, ModuleZone
<1> QED BY <1>1, <1>2

LEMMA VendorsInZone ==
  ASSUME NEW f \in {"sfp", "qsfp"}
  PROVE  \A a \in 1 .. 6, x \in Nat : Covers(VendorEntry(f, a), x) => x \in VendorZone(f)
<1>1. CASE f = "sfp"
  BY <1>1 DEF VendorEntry, VendorAddr, VendorWidths, Entry, Covers, VendorZone
<1>2. CASE f = "qsfp"
  BY <1>2 DEF VendorEntry, VendorAddr, VendorWidths, Entry, Covers, VendorZone
<1> QED BY <1>1, <1>2

LEMMA ThresholdsInZone ==
  \A a \in 1 .. 20, x \in Nat : Covers(Thresholds["sfp"][a], x) => x \notin ModuleZone("sfp")
  BY DEF Thresholds, Entry, Covers, ModuleZone

\* A getter of one range has the byte at an address of a page in its value.
Shows(r, t, p, x) ==
  /\ r.op \in Getters \ {"speed", "features"}
  /\ Verdict(r.op, r.arg, r.n, t) = "ok"
  /\ LET s == Reads(r.op, r.arg, r.n, t)[1] IN s.page = p /\ Covers(s, x)

\* What each of these getters shows, and where.
LEMMA ParameterShows ==
  ASSUME NEW r \in Requests, NEW t \in Types, NEW p, NEW x \in Nat, Shows(r, t, p, x),
         r.op = "parameter"
  PROVE  r.arg \in 1 .. 23 /\ p = 0 /\ Covers(Info[Family(t)][r.arg], x)
<1>1. r.arg \in 1 .. 23
  <2>1. r.arg \in DOMAIN Info["sfp"]
    BY MediaValuesAssumption
  <2>2. DOMAIN Info["sfp"] = 1 .. 23
    BY DEF Info
  <2> QED BY <2>1, <2>2
<1>2. Reads(r.op, r.arg, r.n, t)[1] = Where(0, Info[Family(t)][r.arg])
  BY DEF Reads
<1> QED BY <1>1, <1>2 DEF Shows, Where, Covers

LEMMA ThresholdShows ==
  ASSUME NEW r \in Requests, NEW t \in Types, NEW p, NEW x \in Nat, Shows(r, t, p, x),
         r.op = "threshold"
  PROVE  /\ r.arg \in 1 .. 20 /\ p = IF Family(t) = "sfp" THEN 2 ELSE 3
         /\ Covers(Thresholds[Family(t)][r.arg], x)
<1>1. r.arg \in 1 .. 20
  BY MediaValuesAssumption DEF Thresholds
<1>2. Reads(r.op, r.arg, r.n, t)[1] =
        Where(IF Family(t) = "sfp" THEN 2 ELSE 3, Thresholds[Family(t)][r.arg])
  BY DEF Reads
<1> QED BY <1>1, <1>2 DEF Shows, Where, Covers

LEMMA VendorShows ==
  ASSUME VendorsFit,
         NEW r \in Requests, NEW t \in Types, NEW p, NEW x \in Nat, Shows(r, t, p, x),
         r.op = "vendor"
  PROVE  r.arg \in 1 .. 6 /\ p = 0 /\ Covers(VendorEntry(Family(t), r.arg), x)
<1> DEFINE a == VendorAddr[Family(t)][r.arg]
           l == VendorLength[r.arg]
           w == VendorWidths[r.arg]
<1>1. r.arg \in 1 .. 6 /\ r.n \in Nat
  BY MediaValuesAssumption DEF VendorAddr
<1>2. Reads(r.op, r.arg, r.n, t)[1] = [page |-> 0, addr |-> a, size |-> Shorter(l, r.n)]
  BY DEF Reads, Where, Entry
<1>3. p = 0 /\ a <= x /\ x < a + Shorter(l, r.n)
  BY <1>2 DEF Shows, Covers
<1>4. l \in Nat /\ l <= w
  BY <1>1, VendorLengthAssumption DEF VendorsFit
<1>5. a \in Nat /\ w \in Nat
  BY <1>1 DEF VendorAddr, VendorWidths, Family
<1> HIDE DEF a, l, w
<1>6. a <= x /\ x < a + w
  BY <1>1, <1>3, <1>4, <1>5 DEF Shorter
<1> QED BY <1>1, <1>3, <1>6 DEF VendorEntry, Entry, Covers, a, w

LEMMA CodeShows ==
  ASSUME NEW r \in Requests, NEW t \in Types, NEW p, NEW x \in Nat, Shows(r, t, p, x),
         r.op = "code"
  PROVE  r.arg = 0 /\ p = 0 /\ x \in CodeZone(Family(t))
<1>1. r.arg = 0
  BY MediaValuesAssumption
<1>2. Reads(r.op, r.arg, r.n, t)[1] =
        [page |-> 0, addr |-> IF Family(t) = "sfp" THEN 3 ELSE 131, size |-> 8]
  BY DEF Reads, Where, Entry
<1> QED BY <1>1, <1>2 DEF Shows, Covers, CodeZone

LEMMA ModuleMonitorShows ==
  ASSUME NEW r \in Requests, NEW t \in Types, NEW p, NEW x \in Nat, Shows(r, t, p, x),
         r.op = "module_monitor"
  PROVE  /\ r.arg \in {TEMP, VOLT}
         /\ p = IF Family(t) = "sfp" THEN 2 ELSE 0
         /\ Covers(Entry(ModuleMonitor[Family(t)][r.arg], 2), x)
<1>1. r.arg \in {TEMP, VOLT}
  BY DEF Shows, Verdict
<1>2. Reads(r.op, r.arg, r.n, t)[1] =
        Where(IF Family(t) = "sfp" THEN 2 ELSE 0, Entry(ModuleMonitor[Family(t)][r.arg], 2))
  BY DEF Reads
<1> QED BY <1>1, <1>2 DEF Shows, Where, Entry, Covers

LEMMA ChannelMonitorShows ==
  ASSUME NEW r \in Requests, NEW t \in Types, NEW p, NEW x \in Nat, Shows(r, t, p, x),
         r.op = "channel_monitor"
  PROVE  /\ p = 0 /\ Covers(ChannelMonitor(r.arg, r.n, t), x)
         /\ t # "sfp" => r.arg \in {RX_POWER, TX_BIAS} /\ r.n \in 0 .. 3
<1>1. t # "sfp" => r.arg \in {RX_POWER, TX_BIAS} /\ r.n \in 0 .. 3
  BY DEF Shows, Verdict, Types
<1>2. Reads(r.op, r.arg, r.n, t)[1] = Where(0, ChannelMonitor(r.arg, r.n, t))
  BY DEF Reads
<1> QED BY <1>1, <1>2 DEF Shows, Where, Covers

\* The getter that shows a byte is the one whose zone it is in.
LEMMA ShownInZone ==
  ASSUME VendorsFit,
         NEW r \in Requests, NEW t \in Types, NEW p, NEW x \in Nat, Shows(r, t, p, x)
  PROVE  r.op = Zone(Family(t), p, x)
<1> DEFINE f == Family(t)
<1>1. f \in {"sfp", "qsfp"}
  BY DEF Family
<1>2. CASE r.op = "parameter"
  <2>1. r.arg \in 1 .. 23 /\ p = 0 /\ Covers(Info[f][r.arg], x)
    BY <1>2, ParameterShows
  <2>2. x \notin VendorZone(f) \cup ChannelZone(f) \cup CodeZone(f) \cup ModuleZone(f)
    BY <1>1, <2>1, ParametersInZone
  <2> QED BY <1>2, <2>1, <2>2 DEF Zone
<1>3. CASE r.op = "threshold"
  <2>1. /\ r.arg \in 1 .. 20 /\ p = IF f = "sfp" THEN 2 ELSE 3
        /\ Covers(Thresholds[f][r.arg], x)
    BY <1>3, ThresholdShows
  <2>2. f = "sfp" => x \notin ModuleZone(f)
    BY <2>1, ThresholdsInZone
  <2> QED BY <1>3, <2>1, <2>2 DEF Zone
<1>4. CASE r.op = "vendor"
  <2>1. r.arg \in 1 .. 6 /\ p = 0 /\ Covers(VendorEntry(f, r.arg), x)
    BY <1>4, VendorShows
  <2>2. x \in VendorZone(f)
    BY <1>1, <2>1, VendorsInZone
  <2> QED BY <1>4, <2>1, <2>2 DEF Zone
<1>5. CASE r.op = "code"
  <2>1. p = 0 /\ x \in CodeZone(f)
    BY <1>5, CodeShows
  <2> QED BY <1>1, <1>5, <2>1 DEF Zone, VendorZone, ChannelZone, CodeZone
<1>6. CASE r.op = "module_monitor"
  <2>1. /\ r.arg \in {TEMP, VOLT} /\ p = IF f = "sfp" THEN 2 ELSE 0
        /\ Covers(Entry(ModuleMonitor[f][r.arg], 2), x)
    BY <1>6, ModuleMonitorShows
  <2>2. x \in ModuleZone(f)
    BY <1>1, <2>1 DEF ModuleMonitor, TEMP, VOLT, Entry, Covers, ModuleZone
  <2> QED BY <1>1, <1>6, <2>1, <2>2 DEF Zone, VendorZone, ChannelZone, CodeZone, ModuleZone
<1>7. CASE r.op = "channel_monitor"
  <2>1. /\ p = 0 /\ Covers(ChannelMonitor(r.arg, r.n, t), x)
        /\ t # "sfp" => r.arg \in {RX_POWER, TX_BIAS} /\ r.n \in 0 .. 3
    BY <1>7, ChannelMonitorShows
  <2>2. f = "sfp" <=> t = "sfp"
    BY DEF Family
  <2>3. x \in ChannelZone(f)
    BY <2>1, <2>2 DEF ChannelMonitor, RX_POWER, TX_BIAS, TX_POWER, Entry, Covers, ChannelZone
  <2> QED BY <1>1, <1>7, <2>1, <2>3 DEF Zone, VendorZone, ChannelZone
<1> QED BY <1>2, <1>3, <1>4, <1>5, <1>6, <1>7 DEF Shows, Getters

\* Two requests that show one byte are requests for the same value, unless one
\* of them is for a monitor that is not known.
LEMMA ShownOnce ==
  ASSUME VendorsFit,
         NEW r \in Requests, NEW s \in Requests, NEW t \in Types, NEW p, NEW x \in Nat,
         Shows(r, t, p, x), Shows(s, t, p, x),
         {r.op, s.op} = {"channel_monitor"} => {r.arg, s.arg} \subseteq 1 .. 3
  PROVE  SameValue(r, s, t)
<1> DEFINE f == Family(t)
<1>1. f \in {"sfp", "qsfp"}
  BY DEF Family
<1>2. r.op = s.op
  BY ShownInZone
<1>3. CASE r.op = "parameter"
  BY <1>1, <1>2, <1>3, ParameterShows, ParametersApart DEF SameValue
<1>4. CASE r.op = "threshold"
  BY <1>1, <1>2, <1>4, ThresholdShows, ThresholdsApart DEF SameValue
<1>5. CASE r.op = "vendor"
  BY <1>1, <1>2, <1>5, VendorShows, VendorsApart DEF SameValue
<1>6. CASE r.op = "code"
  BY <1>2, <1>6, CodeShows DEF SameValue
<1>7. CASE r.op = "module_monitor"
  <2>1. \A q \in {r, s} : /\ q.arg \in {TEMP, VOLT}
                          /\ Covers(Entry(ModuleMonitor[f][q.arg], 2), x)
    BY <1>2, <1>7, ModuleMonitorShows
  <2>2. r.arg = s.arg
    BY <1>1, <2>1 DEF ModuleMonitor, TEMP, VOLT, Entry, Covers
  <2> QED BY <1>2, <1>7, <2>2 DEF SameValue
<1>8. CASE r.op = "channel_monitor"
  <2>1. \A q \in {r, s} : /\ Covers(ChannelMonitor(q.arg, q.n, t), x)
                          /\ t # "sfp" => q.arg \in {RX_POWER, TX_BIAS} /\ q.n \in 0 .. 3
    BY <1>2, <1>8, ChannelMonitorShows
  <2>2. r.arg \in 1 .. 3 /\ s.arg \in 1 .. 3
    BY <1>2, <1>8
  <2>3. r.arg = s.arg /\ (t # "sfp" => r.n = s.n)
    BY <2>1, <2>2 DEF ChannelMonitor, RX_POWER, TX_BIAS, TX_POWER, Entry, Covers
  <2> QED BY <1>2, <2>3 DEF SameValue
<1> QED BY <1>3, <1>4, <1>5, <1>6, <1>7, <1>8 DEF Shows, Getters

\* A byte of a value is shown by the getter of the value.
LEMMA CellIsShown ==
  ASSUME NEW r \in Requests, r.op \in Getters \ {"features"}, NEW t \in Types,
         NEW c \in Cells[r][t]
  PROVE  \E p, x \in Nat : c = <<t, p, x>> /\ Shows(r, t, p, x)
<1> DEFINE reads == Reads(r.op, r.arg, r.n, t)
<1>1. /\ Verdict(r.op, r.arg, r.n, t) = "ok"
      /\ c \in UNION {{<<t, reads[i].page, reads[i].addr + k>> : k \in 0 .. reads[i].size - 1} :
                        i \in 1 .. Len(reads)}
  BY DEF Cells
<1>2. PICK i \in 1 .. Len(reads) : \E k \in 0 .. reads[i].size - 1 :
        c = <<t, reads[i].page, reads[i].addr + k>>
  BY <1>1
<1>3. PICK k \in 0 .. reads[i].size - 1 : c = <<t, reads[i].page, reads[i].addr + k>>
  BY <1>2
<1>4. r.op # "speed" /\ i = 1
  BY DEF Reads, Getters
<1>5. reads[1] \in Ranges
  BY <1>1, <1>4, VerdictType, MediaValuesAssumption
<1>6. reads[1].page \in Nat /\ reads[1].addr \in Nat /\ reads[1].size \in Nat
  BY <1>5, RangeType
<1> HIDE DEF reads
<1>7. /\ c = <<t, reads[1].page, reads[1].addr + k>> /\ reads[1].addr + k \in Nat
      /\ reads[1].addr <= reads[1].addr + k
      /\ reads[1].addr + k < reads[1].addr + reads[1].size
  BY <1>3, <1>4, <1>6
<1>8. Shows(r, t, reads[1].page, reads[1].addr + k)
  BY <1>1, <1>4, <1>7 DEF Shows, Covers, reads
<1> QED BY <1>6, <1>7, <1>8

\* An entry starts at an address that is listed for its page, and ends before
\* the next.
Placed(f, p, e) ==
  e.addr \in Listed(f, p) /\ \A b \in Listed(f, p) : b > e.addr => b >= e.addr + e.size

\* The entries of the tables are placed.
LEMMA ParametersPlaced ==
  ASSUME NEW f \in {"sfp", "qsfp"}
  PROVE  \A a \in 1 .. 23 : Info[f][a].size # 0 => Placed(f, 0, Info[f][a])
<1>1. CASE f = "sfp"
  BY <1>1 DEF Info, Entry, None, Placed, Listed
<1>2. CASE f = "qsfp"
  BY <1>2 DEF Info, Entry, None, Placed, Listed
<1> QED BY <1>1, <1>2

LEMMA VendorsPlaced ==
  ASSUME NEW f \in {"sfp", "qsfp"}
  PROVE  \A a \in 1 .. 6 : Placed(f, 0, VendorEntry(f, a))
<1>1. CASE f = "sfp"
  BY <1>1 DEF VendorEntry, VendorAddr, VendorWidths, Entry, Placed, Listed
<1>2. CASE f = "qsfp"
  BY <1>2 DEF VendorEntry, VendorAddr, VendorWidths, Entry, Placed, Listed
<1> QED BY <1>1, <1>2

LEMMA ThresholdsPlaced ==
  /\ \A a \in 1 .. 20 : Placed("sfp", 2, Thresholds["sfp"][a])
  /\ \A a \in 1 .. 20 :
       Thresholds["qsfp"][a].size # 0 => Placed("qsfp", 3, Thresholds["qsfp"][a])
<1>1. ASSUME NEW a \in 1 .. 20 PROVE Placed("sfp", 2, Thresholds["sfp"][a])
  <2> DEFINE e == Thresholds["sfp"][a]
  <2>1. e.size = 2 /\ \E i \in 0 .. 19 : e.addr = 2 * i
    BY DEF Thresholds, Entry
  <2> HIDE DEF e
  <2>2. PICK i \in 0 .. 19 : e.addr = 2 * i
    BY <2>1
  <2>3. e.addr \in Listed("sfp", 2)
    BY <2>2 DEF Listed
  <2>4. ASSUME NEW b \in Listed("sfp", 2), b > 2 * i PROVE b >= 2 * i + 2
    <3>1. b \in {2 * j : j \in 0 .. 19} \/ (b \in Nat /\ b >= 56)
      BY DEF Listed
    <3>2. CASE b \in {2 * j : j \in 0 .. 19}
      <4>1. PICK j \in 0 .. 19 : b = 2 * j
        BY <3>2
      <4> QED BY <2>4, <4>1
    <3> QED BY <3>1, <3>2
  <2>5. Placed("sfp", 2, e)
    BY <2>1, <2>2, <2>3, <2>4 DEF Placed
  <2> QED BY <2>5 DEF e
<1>2. ASSUME NEW a \in 1 .. 20, Thresholds["qsfp"][a].size # 0
      PROVE  Placed("qsfp", 3, Thresholds["qsfp"][a])
  <2> DEFINE e == Thresholds["qsfp"][a]
             Bases == {128, 144, 176, 184}
  <2>1. e.size = 2 /\ \E c \in Bases, i \in 0 .. 3 : e.addr = c + 2 * i
    BY <1>2 DEF Thresholds, Entry, None
  <2> HIDE DEF e
  <2>2. PICK c \in Bases, i \in 0 .. 3 : e.addr = c + 2 * i
    BY <2>1
  <2>3. e.addr \in Listed("qsfp", 3)
    BY <2>2 DEF Listed
  <2>4. ASSUME NEW b \in Listed("qsfp", 3), b > c + 2 * i PROVE b >= c + 2 * i + 2
    <3>1. PICK d \in Bases, j \in 0 .. 3 : b = d + 2 * j
      BY DEF Listed
    <3> QED BY <2>4, <3>1
  <2>5. Placed("qsfp", 3, e)
    BY <2>1, <2>2, <2>3, <2>4 DEF Placed
  <2> QED BY <2>5 DEF e
<1> QED BY <1>1, <1>2

LEMMA MonitorsPlaced ==
  /\ \A a \in {TEMP, VOLT} : /\ Placed("sfp", 2, Entry(ModuleMonitor["sfp"][a], 2))
                             /\ Placed("qsfp", 0, Entry(ModuleMonitor["qsfp"][a], 2))
  /\ \A a \in {RX_POWER, TX_BIAS}, n \in 0 .. 3, t \in Types \ {"sfp"} :
       Placed("qsfp", 0, ChannelMonitor(a, n, t))
  /\ Placed("sfp", 0, Entry(3, 8)) /\ Placed("qsfp", 0, Entry(131, 8))
<1>1. \A a \in {TEMP, VOLT} : /\ Placed("sfp", 2, Entry(ModuleMonitor["sfp"][a], 2))
                              /\ Placed("qsfp", 0, Entry(ModuleMonitor["qsfp"][a], 2))
  BY DEF ModuleMonitor, TEMP, VOLT, Entry, Placed, Listed
<1>2. \A a \in {RX_POWER, TX_BIAS}, n \in 0 .. 3, t \in Types \ {"sfp"} :
        Placed("qsfp", 0, ChannelMonitor(a, n, t))
  BY DEF ChannelMonitor, RX_POWER, TX_BIAS, Entry, Placed, Listed
<1>3. Placed("sfp", 0, Entry(3, 8)) /\ Placed("qsfp", 0, Entry(131, 8))
  BY DEF Entry, Placed, Listed
<1> QED BY <1>1, <1>2, <1>3

\* What a getter of one range reads is placed, the channel monitors of an SFP
\* module apart.
LEMMA ReadIsPlaced ==
  ASSUME VendorsFit,
         NEW r \in Requests, NEW t \in Types, NEW p, NEW x \in Nat, Shows(r, t, p, x),
         ~(t = "sfp" /\ r.op = "channel_monitor")
  PROVE  /\ p \in 0 .. 3
         /\ Placed(Family(t), p, Reads(r.op, r.arg, r.n, t)[1])
<1> DEFINE f == Family(t)
           s == Reads(r.op, r.arg, r.n, t)[1]
<1>1. f \in {"sfp", "qsfp"} /\ (f = "sfp" <=> t = "sfp")
  BY DEF Family
<1>2. CASE r.op = "parameter"
  <2>1. r.arg \in 1 .. 23 /\ p = 0 /\ Covers(Info[f][r.arg], x)
    BY <1>2, ParameterShows
  <2>2. Info[f][r.arg].size # 0
    BY <1>1, <2>1 DEF Covers, Info, Entry, None
  <2>3. Placed(f, 0, Info[f][r.arg])
    BY <1>1, <2>1, <2>2, ParametersPlaced
  <2>4. s = Where(0, Info[f][r.arg])
    BY <1>2 DEF Reads
  <2> HIDE DEF s, f
  <2>5. p = 0 /\ Placed(f, 0, s)
    BY <2>1, <2>3, <2>4 DEF Placed, Where
  <2> QED BY <2>5 DEF s, f
<1>3. CASE r.op = "threshold"
  <2>1. r.arg \in 1 .. 20 /\ p = (IF f = "sfp" THEN 2 ELSE 3) /\ Covers(Thresholds[f][r.arg], x)
    BY <1>3, ThresholdShows
  <2>2. Placed(f, p, Thresholds[f][r.arg])
    <3>1. CASE f = "sfp"
      BY <2>1, <3>1, ThresholdsPlaced
    <3>2. CASE f = "qsfp"
      <4>1. Thresholds["qsfp"][r.arg].size # 0
        BY <2>1, <3>2 DEF Covers, Thresholds, Entry, None
      <4> QED BY <2>1, <3>2, <4>1, ThresholdsPlaced
    <3> QED BY <1>1, <3>1, <3>2
  <2>3. s = Where(p, Thresholds[f][r.arg])
    BY <1>3, <2>1 DEF Reads
  <2> HIDE DEF s, f
  <2>4. p \in 0 .. 3 /\ Placed(f, p, s)
    BY <2>1, <2>2, <2>3 DEF Placed, Where
  <2> QED BY <2>4 DEF s, f
<1>4. CASE r.op = "vendor"
  <2>1. r.arg \in 1 .. 6 /\ p = 0
    BY <1>4, VendorShows
  <2>2. Placed(f, 0, VendorEntry(f, r.arg))
    BY <1>1, <2>1, VendorsPlaced
  <2>3. s = [page |-> 0, addr |-> VendorAddr[f][r.arg],
             size |-> Shorter(VendorLength[r.arg], r.n)]
    BY <1>4 DEF Reads, Where, Entry
  <2>4. Shorter(VendorLength[r.arg], r.n) \in Nat
        /\ Shorter(VendorLength[r.arg], r.n) <= VendorWidths[r.arg]
    <3>1. VendorLength[r.arg] \in Nat /\ VendorLength[r.arg] <= VendorWidths[r.arg]
      BY <2>1, VendorLengthAssumption DEF VendorsFit
    <3>2. r.n \in Nat /\ VendorWidths[r.arg] \in Nat
      BY <2>1, MediaValuesAssumption DEF VendorWidths
    <3> QED BY <3>1, <3>2 DEF Shorter
  <2>5. VendorWidths[r.arg] \in Nat /\ VendorAddr[f][r.arg] \in Nat
    BY <1>1, <2>1 DEF VendorWidths, VendorAddr
  <2>6. \A b \in Listed(f, 0) : b \in Nat
    BY <1>1 DEF Listed
  <2> HIDE DEF s, f
  <2>7. p = 0 /\ Placed(f, 0, s)
    BY <2>1, <2>2, <2>3, <2>4, <2>5, <2>6 DEF Placed, VendorEntry, Entry
  <2> QED BY <2>7 DEF s, f
<1>5. CASE r.op = "code"
  <2>1. p = 0
    BY <1>5, CodeShows
  <2>2. s = Where(0, Entry(IF f = "sfp" THEN 3 ELSE 131, 8))
    BY <1>5 DEF Reads
  <2> HIDE DEF s, f
  <2>3. p = 0 /\ Placed(f, 0, s)
    BY <1>1, <2>1, <2>2, MonitorsPlaced DEF Placed, Where
  <2> QED BY <2>3 DEF s, f
<1>6. CASE r.op = "module_monitor"
  <2>1. r.arg \in {TEMP, VOLT} /\ p = (IF f = "sfp" THEN 2 ELSE 0)
    BY <1>6, ModuleMonitorShows
  <2>2. Placed(f, p, Entry(ModuleMonitor[f][r.arg], 2))
    BY <1>1, <2>1, MonitorsPlaced
  <2>3. s = Where(p, Entry(ModuleMonitor[f][r.arg], 2))
    BY <1>6, <2>1 DEF Reads
  <2> HIDE DEF s, f
  <2>4. p \in 0 .. 3 /\ Placed(f, p, s)
    BY <2>1, <2>2, <2>3 DEF Placed, Where
  <2> QED BY <2>4 DEF s, f
<1>7. CASE r.op = "channel_monitor"
  <2>1. p = 0 /\ t \in Types \ {"sfp"} /\ r.arg \in {RX_POWER, TX_BIAS} /\ r.n \in 0 .. 3
    BY <1>7, ChannelMonitorShows
  <2>2. Placed("qsfp", 0, ChannelMonitor(r.arg, r.n, t)) /\ f = "qsfp"
    BY <1>1, <2>1, MonitorsPlaced
  <2>3. s = Where(0, ChannelMonitor(r.arg, r.n, t))
    BY <1>7 DEF Reads
  <2> HIDE DEF s, f
  <2>4. p = 0 /\ Placed(f, 0, s)
    BY <2>1, <2>2, <2>3 DEF Placed, Where
  <2> QED BY <2>4 DEF s, f
<1> QED BY <1>2, <1>3, <1>4, <1>5, <1>6, <1>7 DEF Shows, Getters

\* The bytes of a value are where the header lists one value.
LEMMA CellsInOneField ==
  ASSUME VendorsFit,
         NEW r \in Requests, r.op \in Getters \ {"features"}, NEW t \in Types,
         ~(t = "sfp" /\ r.op = "channel_monitor")
  PROVE  InOneField(Cells[r][t], t)
<1> DEFINE s == Reads(r.op, r.arg, r.n, t)[1]
           Cs == Cells[r][t]
<1> SUFFICES ASSUME NEW c0 \in Cs PROVE InOneField(Cs, t)
  BY DEF InOneField
<1>1. ASSUME NEW c \in Cs
      PROVE  \E x \in Nat : c = <<t, s.page, x>> /\ Shows(r, t, s.page, x) /\ Covers(s, x)
  <2>1. PICK p, x \in Nat : c = <<t, p, x>> /\ Shows(r, t, p, x)
    BY CellIsShown
  <2> QED BY <2>1 DEF Shows
<1>2. PICK x0 \in Nat : Shows(r, t, s.page, x0) /\ Covers(s, x0)
  BY <1>1
<1>3. s.page \in 0 .. 3 /\ Placed(Family(t), s.page, s)
  BY <1>2, ReadIsPlaced
<1>4. \A b \in Listed(Family(t), s.page) : b \in Nat
  BY DEF Listed
<1>5. s.size \in Nat /\ s.addr \in Nat /\ s.size > 0
  <2>1. s \in Ranges
    <3>1. r.op # "speed" /\ Verdict(r.op, r.arg, r.n, t) = "ok"
      BY <1>2 DEF Shows
    <3>2. 1 \in 1 .. Len(Reads(r.op, r.arg, r.n, t))
      BY <3>1 DEF Reads, Getters
    <3> QED BY <3>1, <3>2, VerdictType, MediaValuesAssumption
  <2>2. s.size \in Nat /\ s.addr \in Nat
    BY <2>1, RangeType
  <2> QED BY <1>2, <2>2 DEF Covers
<1>6. <<t, s.page, s.addr>> \in Cs
  <2>1. r.op # "speed" /\ Verdict(r.op, r.arg, r.n, t) = "ok"
    BY <1>2 DEF Shows
  <2>2. 1 \in 1 .. Len(Reads(r.op, r.arg, r.n, t))
    BY <2>1 DEF Reads, Getters
  <2>3. 0 \in 0 .. s.size - 1 /\ s.addr + 0 = s.addr
    BY <1>5
  <2>4. Cs = UNION {{<<t, Reads(r.op, r.arg, r.n, t)[i].page, Reads(r.op, r.arg, r.n, t)[i].addr + k>> :
                      k \in 0 .. Reads(r.op, r.arg, r.n, t)[i].size - 1} :
                    i \in 1 .. Len(Reads(r.op, r.arg, r.n, t))}
    BY <2>1 DEF Cells
  <2>5. <<t, s.page, s.addr>> \in {<<t, s.page, s.addr + k>> : k \in 0 .. s.size - 1}
    BY <2>3
  <2> QED BY <2>2, <2>4, <2>5
<1> HIDE DEF s, Cs
<1>7. ASSUME NEW c \in Cs
      PROVE  /\ c[1] = t /\ c[2] = s.page /\ c[3] >= s.addr
             /\ \A next \in Listed(Family(t), s.page) : next > s.addr => next > c[3]
  <2>1. PICK x \in Nat : c = <<t, s.page, x>> /\ Covers(s, x)
    BY <1>1
  <2> QED BY <1>3, <1>4, <1>5, <2>1 DEF Covers, Placed
<1>8. s.addr \in Listed(Family(t), s.page)
  BY <1>3 DEF Placed
<1> QED BY <1>3, <1>6, <1>7, <1>8 DEF InOneField

\* Two values share no byte.
LEMMA NoByteShared ==
  ASSUME VendorsFit,
         NEW r \in Requests, NEW s \in Requests, NEW t \in Types,
         r.op \in Getters \ {"features"}, s.op \in Getters \ {"features"},
         ~SameValue(r, s, t),
         {r.op, s.op} = {"channel_monitor"} => {r.arg, s.arg} \subseteq 1 .. 3
  PROVE  Cells[s][t] \cap Cells[r][t] = {}
<1> SUFFICES ASSUME NEW c \in Cells[s][t], c \in Cells[r][t] PROVE FALSE
  OBVIOUS
<1>1. PICK p, x \in Nat : c = <<t, p, x>> /\ Shows(r, t, p, x)
  BY CellIsShown
<1>2. PICK q, y \in Nat : c = <<t, q, y>> /\ Shows(s, t, q, y)
  BY CellIsShown
<1>3. p = q /\ x = y
  BY <1>1, <1>2
<1> QED BY <1>1, <1>2, <1>3, ShownOnce

\* ValuesFromTheirOwnBytes, for any transfers, exchanges and requests: where
\* the vendor entries are no longer than the room their addresses leave, every
\* entry of the tables of sdi_media_utils.h, and every address that the getters
\* have of their own (sdi_media.c:802-1553), is that of one value of the lists
\* of addresses in this header, stays before the next and reaches into no
\* other; the channel monitors of an SFP module only reach into no other.
THEOREM ValuesAreTheirOwn == VendorsFit => (Spec => []ValuesFromTheirOwnBytes)
<1> SUFFICES ASSUME VendorsFit PROVE Spec => []ValuesFromTheirOwnBytes
  OBVIOUS
<1>1. IInv /\ Gathered => ValuesFromTheirOwnBytes
  <2> SUFFICES ASSUME IInv, Gathered, pc = "done", rc = "ok", call.op \in Getters, ~swapped
               PROVE  /\ read = Cells[call][id]
                      /\ call.op # "features" /\ ~(id = "sfp" /\ call.op = "channel_monitor") =>
                           InOneField(read, id)
                      /\ call.op # "features" =>
                           \A r \in {q \in Requests : q.op \in Getters \ {"features"}} :
                             ~SameValue(r, call, id)
                             /\ ({r.op, call.op} = {"channel_monitor"} =>
                                   {r.arg, call.arg} \subseteq 1 .. 3)
                             => read \cap Cells[r][id] = {}
    BY DEF ValuesFromTheirOwnBytes
  <2>1. call \in Requests /\ id \in Types /\ read = Cells[call][id]
    BY DEF IInv, TypeOK, Gathered
  <2>2. call.op # "features" /\ ~(id = "sfp" /\ call.op = "channel_monitor") =>
          InOneField(read, id)
    BY <2>1, CellsInOneField
  <2>3. ASSUME call.op # "features",
               NEW r \in Requests, r.op \in Getters \ {"features"}, ~SameValue(r, call, id),
               {r.op, call.op} = {"channel_monitor"} => {r.arg, call.arg} \subseteq 1 .. 3
        PROVE  read \cap Cells[r][id] = {}
    BY <2>1, <2>3, NoByteShared
  <2> QED BY <2>1, <2>2, <2>3
<1>2. Init => Gathered
  BY DEF Init, Gathered
<1> QED BY <1>1, <1>2, Invariant, GatheredHolds, PTL DEF Spec
=============================================================================

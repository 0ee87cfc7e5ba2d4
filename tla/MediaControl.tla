----------------------------- MODULE MediaControl -----------------------------
(***************************************************************************)
(* The controls of a transceiver (sdi_media.c): tx_control and             *)
(* cdr_status_set change bits of one control byte, tx_control_status_get   *)
(* and cdr_status_get read them back.  Every call first reads the type of  *)
(* the module, then the byte, and a control then writes the byte back: two *)
(* or three accesses through the MCIA register of the switch, with no lock *)
(* around them.  Between two accesses other callers, the hardware and a    *)
(* hot swap may change the module; any access may fail.                    *)
(*                                                                         *)
(* A byte is the set of its bits that are 1.  All accesses are of one byte *)
(* or one word, so each is a single MCIA transaction.                      *)
(***************************************************************************)
EXTENDS MediaCalls

CONSTANTS
  Asked,        \* the requests that each caller makes
  FreshBytes    \* bytes of a module that was just plugged

Bits  == 0 .. 7
Byte  == SUBSET Bits

\* Control bytes, and the type of module that has one there.
Cells == {"qsfp_tx", "qsfp_cdr", "sfp_tx"}
CellType == [qsfp_tx |-> "qsfp", qsfp_cdr |-> "qsfp", sfp_tx |-> "sfp"]

SoftTxDisable == 6    \* written by tx_control on an SFP
TxDisable     == 7    \* read by tx_control_status_get on an SFP: the input pin

Absent == [type |-> "absent", mem |-> [cell \in Cells |-> {}]]
Present == [type : Types, mem : [Cells -> FreshBytes]]

Ops == {"tx_control", "tx_status", "cdr_set", "cdr_get"}
Controls == {"tx_control", "cdr_set"}

Requests ==
       [op : Controls, module : Modules \cup {NotMedia}, channel : Channels,
        enable : BOOLEAN]
  \cup [op : Ops \ Controls, module : Modules \cup {NotMedia}, channel : Channels,
        enable : {TRUE}]    \* a getter has no such argument
NoRequest == [op |-> "tx_status", module |-> NotMedia, channel |-> 0, enable |-> TRUE]

ASSUME MediaControlAssumption ==
  /\ Channels \subseteq 0 .. 30        \* 1 << channel is defined
  /\ Asked \in [Callers -> SUBSET Requests]
  /\ FreshBytes \subseteq SUBSET (0 .. 7)

\* The pairs <<c, m>> such that c controls module m.
Writers ==
  {w \in Callers \X Modules : \E r \in Asked[w[1]] : r.op \in Controls /\ r.module = w[2]}

\* A module is its type and its control bytes; status is a truth value;
\* swapped counts from the identification on.
VARIABLES
  seen,     \* the control byte a caller read and is going to write back
  wanted    \* history: <<cell, bit, value>> as last set in each module by a control

vars == <<module, pc, call, id, seen, rc, status, wanted, swapped>>
locals == <<id, seen, rc, status>>

Steps == {"idle", "identify", "read", "write", "done"}
Statuses == {"ok", "EPERM", "EOPNOTSUPP", "error"}

Init ==
  /\ module \in [Modules -> Present \cup {Absent}]
  /\ pc = [c \in Callers |-> "idle"]
  /\ call = [c \in Callers |-> NoRequest]
  /\ id = [c \in Callers |-> "other"]
  /\ seen = [c \in Callers |-> {}]
  /\ rc = [c \in Callers |-> "ok"]
  /\ status = [c \in Callers |-> FALSE]
  /\ wanted = [m \in Modules |-> {}]
  /\ swapped = {}

-----------------------------------------------------------------------------
Op(c) == call[c].op

\* The control byte of a call, by the type that it identified.
Cell(c) ==
  IF id[c] = "sfp" THEN "sfp_tx"
  ELSE IF Op(c) \in {"cdr_set", "cdr_get"} THEN "qsfp_cdr" ELSE "qsfp_tx"

\* The bits of a call in its byte: a shift by the channel, cut to one byte.
OwnBits(c) ==
  (CASE Cell(c) = "sfp_tx"   -> {SoftTxDisable}
     [] Cell(c) = "qsfp_tx"  -> {call[c].channel}
     [] Cell(c) = "qsfp_cdr" -> {call[c].channel, call[c].channel + 4}) \cap Bits

\* A transmitter is disabled by a 1, a CDR is enabled by a 1.
SetsBits(c) == IF Op(c) = "cdr_set" THEN call[c].enable ELSE ~call[c].enable

\* Bug: the mask is written without the byte that was read.
ModifiedMask(c) == IF SetsBits(c) THEN OwnBits(c) ELSE {}

Modified(c) == IF SetsBits(c) THEN seen[c] \cup OwnBits(c) ELSE seen[c] \ OwnBits(c)

\* Bug: a disabled transmitter is taken for an enabled one.
StatusOfInverted(c, byte) == OwnBits(c) \cap byte # {}

\* What a getter makes of the byte it reads.
StatusOf(c, byte) ==
  CASE Cell(c) = "sfp_tx"   -> TxDisable \notin byte
    [] Cell(c) = "qsfp_tx"  -> ~(call[c].channel \in 0 .. 3 /\ call[c].channel \in byte)
    [] Cell(c) = "qsfp_cdr" -> OwnBits(c) \cap byte # {}

Fails(c, s) == rc' = [rc EXCEPT ![c] = s]

Call(c, r) ==
  /\ r \in Asked[c]
  /\ call' = [call EXCEPT ![c] = r]
  /\ \/ /\ r.module = NotMedia
        /\ Goto(c, "idle", "done")
        /\ Fails(c, "EPERM")
     \/ /\ r.module # NotMedia
        /\ Goto(c, "idle", "identify")
        /\ UNCHANGED rc
  /\ UNCHANGED <<module, id, seen, status, wanted, swapped>>

\* sdi_media_identifier_get and the switch over the type.
Identify(c) ==
  /\ \/ /\ Goto(c, "identify", "done")
        /\ Fails(c, "error")
        /\ UNCHANGED id
     \/ /\ pc[c] = "identify"
        /\ module[Mod(c)] # Absent
        /\ id' = [id EXCEPT ![c] = module[Mod(c)].type]
        /\ \/ /\ id'[c] = "other"
              /\ Goto(c, "identify", "done")
              /\ Fails(c, "error")
           \/ /\ id'[c] = "sfp" /\ Op(c) \in {"cdr_set", "cdr_get"}
              /\ Goto(c, "identify", "done")
              /\ Fails(c, "EOPNOTSUPP")
           \/ /\ id'[c] = "qsfp" \/ (id'[c] = "sfp" /\ Op(c) \notin {"cdr_set", "cdr_get"})
              /\ Goto(c, "identify", "read")
              /\ UNCHANGED rc
  /\ swapped' = swapped \ {c}
  /\ UNCHANGED <<module, call, seen, status, wanted>>

\* Bug: the status of the read is not tested, and a byte of zeros goes on.
ReadUntested(c) ==
  /\ Goto(c, "read", IF Op(c) \in Controls THEN "write" ELSE "done")
  /\ Fails(c, "error")
  /\ UNCHANGED <<module, call, id, seen, status, wanted, swapped>>

\* sdi_media_info_get of the control byte.
Read(c) ==
  /\ pc[c] = "read"
  /\ \/ /\ Goto(c, "read", "done")
        /\ Fails(c, "error")
        /\ UNCHANGED <<seen, status>>
     \/ /\ module[Mod(c)] # Absent
        /\ LET byte == module[Mod(c)].mem[Cell(c)] IN
             IF Op(c) \in Controls
             THEN /\ Goto(c, "read", "write")
                  /\ seen' = [seen EXCEPT ![c] = byte]
                  /\ UNCHANGED status
             ELSE /\ Goto(c, "read", "done")
                  /\ status' = [status EXCEPT ![c] = StatusOf(c, byte)]
                  /\ UNCHANGED seen
        /\ UNCHANGED rc
  /\ UNCHANGED <<module, call, id, wanted, swapped>>

\* A module takes a byte, but the bit that shows its input pin is its own.
Stored(m, cell, byte) ==
  IF cell = "sfp_tx"
  THEN (byte \ {TxDisable}) \cup (module[m].mem[cell] \cap {TxDisable})
  ELSE byte

WriteByte(c) ==
  LET m == Mod(c) IN
    module' = [module EXCEPT ![m].mem[Cell(c)] = Stored(m, Cell(c), Modified(c))]

\* What is wanted of the bits that no control names again stays wanted.
StillWanted(c) ==
  {w \in wanted[Mod(c)] : w[1] # Cell(c) \/ w[2] \notin OwnBits(c)}

\* Bug: a write that fails is tried again, from the read on.
WriteRetry(c) ==
  /\ Goto(c, "write", "read")
  /\ UNCHANGED <<module, call, locals, wanted, swapped>>

\* sdi_media_info_set of the control byte.
Write(c) ==
  /\ Goto(c, "write", "done")
  /\ \/ /\ module[Mod(c)] # Absent
        /\ WriteByte(c)
        /\ wanted' = [wanted EXCEPT ![Mod(c)] =
                        StillWanted(c) \cup {<<Cell(c), b, SetsBits(c)>> : b \in OwnBits(c)}]
        /\ UNCHANGED rc
     \/ /\ Fails(c, "error")         \* lost, or done and its answer lost
        /\ UNCHANGED module \/ (module[Mod(c)] # Absent /\ WriteByte(c))
        /\ wanted' = [wanted EXCEPT ![Mod(c)] = StillWanted(c)]
  /\ seen' = [seen EXCEPT ![c] = {}]
  /\ swapped' = swapped \ {c}
  /\ UNCHANGED <<call, id, status>>

Return(c) ==
  /\ Goto(c, "done", "idle")
  /\ call' = [call EXCEPT ![c] = NoRequest]
  /\ id' = [id EXCEPT ![c] = "other"]
  /\ rc' = [rc EXCEPT ![c] = "ok"]
  /\ status' = [status EXCEPT ![c] = FALSE]
  /\ swapped' = swapped \ {c}
  /\ UNCHANGED <<module, seen, wanted>>

\* A module is pulled, plugged or replaced.
HotSwap(m) ==
  /\ \E new \in Present \cup {Absent} : module' = [module EXCEPT ![m] = new]
  /\ wanted' = [wanted EXCEPT ![m] = {}]
  /\ swapped' = swapped \cup {c \in Callers : pc[c] \in {"read", "write"} /\ Mod(c) = m}
  /\ UNCHANGED <<pc, call, locals>>

\* The input pin of an SFP module changes.
Pin(m) ==
  /\ module[m].type = "sfp"
  /\ \E byte \in {module[m].mem["sfp_tx"] \cup {TxDisable}, module[m].mem["sfp_tx"] \ {TxDisable}} :
       module' = [module EXCEPT ![m].mem["sfp_tx"] = byte]
  /\ UNCHANGED <<pc, call, locals, wanted, swapped>>

-----------------------------------------------------------------------------
Step(c) == Identify(c) \/ Read(c) \/ Write(c) \/ Return(c)

Next ==
  \/ \E c \in Callers : (\E r \in Requests : Call(c, r)) \/ Step(c)
  \/ \E m \in Modules : HotSwap(m) \/ Pin(m)

\* A call is straight-line code and every access is answered.
Spec == Init /\ [][Next]_vars /\ \A c \in Callers : WF_vars(Step(c))

-----------------------------------------------------------------------------
(* Properties. *)

Typed ==
  /\ module \in [Modules -> [type : Types, mem : [Cells -> Byte]] \cup {Absent}]
  /\ pc \in [Callers -> Steps]
  /\ call \in [Callers -> Requests \cup {NoRequest}]
  /\ id \in [Callers -> Types]
  /\ seen \in [Callers -> Byte]
  /\ rc \in [Callers -> Statuses]
  /\ status \in [Callers -> BOOLEAN]
  /\ wanted \in [Modules -> SUBSET (Cells \X Bits \X BOOLEAN)]
  /\ swapped \in SUBSET Callers

\* A call goes no further than the first test it fails: it accesses the
\* module of a media resource only, a control byte only of a type that has
\* one for it, and writes only if it is a control whose read succeeded.
OnlyTested ==
  \A c \in Callers :
    /\ pc[c] # "done" => rc[c] = "ok"
    /\ pc[c] \in {"identify", "read", "write"} => Mod(c) \in Modules
    /\ pc[c] \in {"read", "write"} =>
         id[c] = "qsfp" \/ (id[c] = "sfp" /\ Op(c) \in {"tx_control", "tx_status"})
    /\ pc[c] = "write" => Op(c) \in Controls

\* Types, and the error paths of tx_control, cdr_status_set and their getters.
TypeOK == Typed /\ OnlyTested

\* What the last successful control of a bit set is what the module holds,
\* until the module is replaced or a later control of the bit fails: no call
\* undoes a setting that it does not name.  It takes one writer per module,
\* because tx_control and cdr_status_set write back a byte they read before.
SettingsHold ==
  \A m \in Modules : \A w \in wanted[m] : w[3] = (w[2] \in module[m].mem[w[1]])

\* A write changes no bits but those of its channel, in a module of the type
\* that was identified, if the module was not replaced meanwhile and its
\* byte is the one that was read.
WritesOwnBitsOnly ==
  [][\A c \in Callers :
       pc[c] = "write" /\ pc'[c] = "done" /\ c \notin swapped =>
         LET before == module[Mod(c)]
             after  == module'[Mod(c)]
         IN before # Absent /\ before.mem[Cell(c)] = seen[c] =>
              /\ before.type = CellType[Cell(c)]
              /\ \A cell \in Cells \ {Cell(c)} : after.mem[cell] = before.mem[cell]
              /\ \A b \in Bits \ OwnBits(c) :
                   b \in after.mem[Cell(c)] <=> b \in before.mem[Cell(c)]]_vars

\* The value a getter returns for a QSFP module is what the last controls of
\* the channel asked for, at the moment of the read.
ReadsBackQsfp ==
  [][\A c \in Callers :
       pc[c] = "read" /\ pc'[c] = "done" /\ rc'[c] = "ok" /\ id[c] = "qsfp" =>
         \A on \in BOOLEAN :
           {<<Cell(c), b, on>> : b \in OwnBits(c)} \subseteq wanted[Mod(c)] =>
             /\ Op(c) = "tx_status" /\ call[c].channel \in 0 .. 3 => status'[c] = ~on
             /\ Op(c) = "cdr_get" /\ OwnBits(c) # {} => status'[c] = on]_vars

\* Every call returns.
CallsReturn == \A c \in Callers : pc[c] # "idle" ~> pc[c] = "idle"

-----------------------------------------------------------------------------
(* What the comments of sdi_media.c say, and the code does not do. *)

\* "channel number that is of interest" (sdi_media.c:533): a control changes
\* the bits of its channel and no others.
ControlsOwnChannelOnly ==
  [][\A c \in Callers :
       pc[c] = "write" /\ pc'[c] = "done" /\ module[Mod(c)] # Absent =>
         \A b \in Bits \ OwnBits(c) :
           b \in module'[Mod(c)].mem[Cell(c)] <=> b \in module[Mod(c)].mem[Cell(c)]]_vars
=============================================================================

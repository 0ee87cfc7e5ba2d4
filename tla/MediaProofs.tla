------------------------------ MODULE MediaProofs ------------------------------
(***************************************************************************)
(* Proofs about the calls of a transceiver, for every number of callers,   *)
(* modules and channels.                                                   *)
(*                                                                         *)
(* MediaControl: settings hold and are read back if every module has at    *)
(* most one caller that controls it (with two, TLC shows the lost update); *)
(* a write stays in the bits of its call whoever else writes.              *)
(*                                                                         *)
(* MediaStatus: a getter adds no flag whose condition did not hold, and    *)
(* misses none whose condition lasted.                                     *)
(***************************************************************************)
EXTENDS MediaControl, MediaStatus, TLAPS

\* One writer per module: what the callers of the library have to see to.
SingleWriter ==
  \A c, d \in Callers, m \in Modules :
    <<c, m>> \in Writers /\ <<d, m>> \in Writers => c = d

-----------------------------------------------------------------------------
(* The inductive invariant. *)

\* A control in progress comes from a writer of its module.
WritersControl ==
  \A c \in Callers : pc[c] \in {"identify", "read", "write"} =>
    /\ Mod(c) \in Modules
    /\ Op(c) \in Controls => <<c, Mod(c)>> \in Writers

\* Only a control reaches its write.
OnlyControlsWrite == \A c \in Callers : pc[c] = "write" => Op(c) \in Controls

\* The byte that is going to be written back agrees with what is wanted.
SeenAgrees ==
  \A c \in Callers : pc[c] = "write" =>
    \A w \in wanted[Mod(c)] : w[1] = Cell(c) => w[3] = (w[2] \in seen[c])

\* Nothing is wanted of the input pin.
PinNotWanted ==
  \A m \in Modules : \A w \in wanted[m] : w[1] = "sfp_tx" => w[2] # TxDisable

IInv == /\ Typed /\ WritersControl /\ OnlyControlsWrite
        /\ SeenAgrees /\ PinNotWanted /\ SettingsHold

-----------------------------------------------------------------------------
\* The fields of a request, whatever its operation.
LEMMA RequestType ==
  ASSUME NEW r \in Requests \cup {NoRequest}
  PROVE  /\ r.op \in Ops
         /\ r.enable \in BOOLEAN
         /\ r.module \in Modules \cup {NotMedia}
<1>1. CASE r \in [op : Controls, module : Modules \cup {NotMedia}, channel : Channels,
                  enable : BOOLEAN]
  BY <1>1 DEF Controls, Ops
<1>2. CASE r \in [op : Ops \ Controls, module : Modules \cup {NotMedia},
                  channel : Channels, enable : {TRUE}]
  <2>1. r.enable = TRUE
    BY <1>2
  <2> QED BY <1>2, <2>1
<1>3. CASE r = NoRequest
  BY <1>3 DEF NoRequest, Ops
<1> QED BY <1>1, <1>2, <1>3 DEF Requests

\* The bits of a call are bits of a byte.
LEMMA OwnBitsType ==
  ASSUME NEW c \in Callers
  PROVE  OwnBits(c) \subseteq Bits
  BY DEF OwnBits

\* The byte of a call is one of the control bytes.
LEMMA CellInCells ==
  ASSUME NEW c \in Callers PROVE Cell(c) \in Cells
  BY DEF Cell, Cells

\* Every variable keeps its type.
LEMMA TypeCorrect == Typed /\ WritersControl /\ [Next]_vars => Typed'
<1> SUFFICES ASSUME Typed, WritersControl, [Next]_vars PROVE Typed'
  OBVIOUS
<1> USE MediaControlAssumption DEF Typed
<1> DEFINE Loaded == [type : Types, mem : [Cells -> Byte]]
<1>1. ASSUME NEW c \in Callers, NEW r \in Requests, Call(c, r) PROVE Typed'
  BY <1>1 DEF Call, Goto, Fails, Steps, Statuses
<1>2. ASSUME NEW c \in Callers, Identify(c) PROVE Typed'
  <2>1. id' \in [Callers -> Types]
    <3>1. CASE UNCHANGED id
      BY <3>1
    <3>2. CASE /\ pc[c] = "identify" /\ module[Mod(c)] # Absent
               /\ id' = [id EXCEPT ![c] = module[Mod(c)].type]
      <4>1. Mod(c) \in Modules
        BY <3>2 DEF WritersControl
      <4>2. module[Mod(c)] \in Loaded
        BY <3>2, <4>1
      <4> QED BY <3>2, <4>2
    <3> QED BY <1>2, <3>1, <3>2 DEF Identify
  <2>2. pc' \in [Callers -> Steps] /\ rc' \in [Callers -> Statuses]
    BY <1>2 DEF Identify, Goto, Fails, Steps, Statuses
  <2> QED BY <1>2, <2>1, <2>2 DEF Identify
<1>3. ASSUME NEW c \in Callers, Read(c) PROVE Typed'
  <2>1. seen' \in [Callers -> Byte] /\ status' \in [Callers -> BOOLEAN]
    <3>1. CASE UNCHANGED <<seen, status>>
      BY <3>1
    <3>2. CASE pc[c] = "read" /\ module[Mod(c)] # Absent
               /\ \/ seen' = [seen EXCEPT ![c] = module[Mod(c)].mem[Cell(c)]] /\ UNCHANGED status
                  \/ /\ status' = [status EXCEPT ![c] = StatusOf(c, module[Mod(c)].mem[Cell(c)])]
                     /\ UNCHANGED seen
      <4>1. module[Mod(c)] \in Loaded
        BY <3>2 DEF WritersControl
      <4>2. module[Mod(c)].mem[Cell(c)] \in Byte
        BY <4>1, CellInCells
      <4>3. StatusOf(c, module[Mod(c)].mem[Cell(c)]) \in BOOLEAN
        BY DEF StatusOf, Cell
      <4> QED BY <3>2, <4>2, <4>3
    <3> QED BY <1>3, <3>1, <3>2 DEF Read
  <2>2. pc' \in [Callers -> Steps] /\ rc' \in [Callers -> Statuses]
    BY <1>3 DEF Read, Goto, Fails, Steps, Statuses
  <2> QED BY <1>3, <2>1, <2>2 DEF Read
<1>4. ASSUME NEW c \in Callers, Write(c) PROVE Typed'
  <2>0. Mod(c) \in Modules
    BY <1>4 DEF Write, Goto, WritersControl
  <2>1. module' \in [Modules -> Loaded \cup {Absent}]
    <3>1. CASE UNCHANGED module
      BY <3>1
    <3>2. CASE module[Mod(c)] # Absent /\ WriteByte(c)
      <4>1. module[Mod(c)] \in Loaded
        BY <2>0, <3>2
      <4>2. Modified(c) \in Byte
        BY OwnBitsType DEF Modified, Byte
      <4>3. Stored(Mod(c), Cell(c), Modified(c)) \in Byte
        BY <4>1, <4>2, CellInCells DEF Stored, Byte
      <4>4. [module[Mod(c)] EXCEPT !.mem[Cell(c)] = Stored(Mod(c), Cell(c), Modified(c))] \in Loaded
        BY <4>1, <4>3, CellInCells
      <4> QED BY <3>2, <4>4, <2>0 DEF WriteByte
    <3> QED BY <1>4, <3>1, <3>2 DEF Write
  <2>2. wanted' \in [Modules -> SUBSET (Cells \X Bits \X BOOLEAN)]
    <3>1. StillWanted(c) \in SUBSET (Cells \X Bits \X BOOLEAN)
      BY <2>0 DEF StillWanted
    <3>2. SetsBits(c) \in BOOLEAN
      BY RequestType DEF SetsBits, Op
    <3>3. {<<Cell(c), b, SetsBits(c)>> : b \in OwnBits(c)} \in SUBSET (Cells \X Bits \X BOOLEAN)
      BY <3>2, OwnBitsType, CellInCells
    <3> QED BY <1>4, <2>0, <3>1, <3>3 DEF Write
  <2>3. pc' \in [Callers -> Steps] /\ rc' \in [Callers -> Statuses]
    BY <1>4 DEF Write, Goto, Fails, Steps, Statuses
  <2>4. seen' \in [Callers -> Byte] /\ swapped' \in SUBSET Callers
    BY <1>4 DEF Write, Byte
  <2> QED BY <1>4, <2>1, <2>2, <2>3, <2>4 DEF Write
<1>5. ASSUME NEW c \in Callers, Return(c) PROVE Typed'
  BY <1>5 DEF Return, Goto, Steps, Statuses, Types
<1>6. ASSUME NEW m \in Modules, HotSwap(m) PROVE Typed'
  <2>1. Present \subseteq Loaded
    BY DEF Present, Byte, Bits
  <2> QED BY <1>6, <2>1 DEF HotSwap, locals
<1>7. ASSUME NEW m \in Modules, Pin(m) PROVE Typed'
  <2>1. module[m] \in Loaded
    BY <1>7 DEF Pin, Absent
  <2>2. PICK byte \in Byte : module' = [module EXCEPT ![m].mem["sfp_tx"] = byte]
    <3>1. module[m].mem["sfp_tx"] \in Byte /\ TxDisable \in Bits
      BY <2>1 DEF Cells, TxDisable, Bits
    <3>2. /\ module[m].mem["sfp_tx"] \cup {TxDisable} \in Byte
          /\ module[m].mem["sfp_tx"] \ {TxDisable} \in Byte
      BY <3>1 DEF Byte
    <3> QED BY <1>7, <3>2 DEF Pin
  <2>3. [module[m] EXCEPT !.mem["sfp_tx"] = byte] \in Loaded
    BY <2>1
  <2> QED BY <1>7, <2>2, <2>3 DEF Pin, locals
<1>8. CASE UNCHANGED vars
  BY <1>8 DEF vars
<1> QED BY <1>1, <1>2, <1>3, <1>4, <1>5, <1>6, <1>7, <1>8 DEF Next, Step

-----------------------------------------------------------------------------
(* The parts of the invariant, each over one step. *)

\* Nobody but the caller itself, by starting a call, becomes a writer.
LEMMA ControlsKept ==
  Typed /\ WritersControl /\ OnlyControlsWrite /\ [Next]_vars
    => WritersControl' /\ OnlyControlsWrite'
<1> SUFFICES ASSUME Typed, WritersControl, OnlyControlsWrite, [Next]_vars
             PROVE WritersControl' /\ OnlyControlsWrite'
  OBVIOUS
<1> USE DEF Typed, WritersControl, OnlyControlsWrite, Mod, Op
<1>1. ASSUME NEW c \in Callers, NEW r \in Requests, Call(c, r)
      PROVE WritersControl' /\ OnlyControlsWrite'
  <2>1. r.module \in Modules \cup {NotMedia}
    BY RequestType
  <2>2. r.module \in Modules /\ r.op \in Controls => <<c, r.module>> \in Writers
    BY <1>1 DEF Call, Writers
  <2>3. Modules \cap {NotMedia} = {}
    BY MediaCallsAssumption
  <2> QED BY <1>1, <2>1, <2>2, <2>3 DEF Call, Goto
<1>2. ASSUME NEW c \in Callers, Step(c) PROVE WritersControl' /\ OnlyControlsWrite'
  <2>1. CASE Identify(c)
    BY <2>1 DEF Identify, Goto
  <2>2. CASE Read(c)
    BY <2>2 DEF Read, Goto
  <2>3. CASE Write(c)
    BY <2>3 DEF Write, Goto
  <2>4. CASE Return(c)
    BY <2>4 DEF Return, Goto
  <2> QED BY <1>2, <2>1, <2>2, <2>3, <2>4 DEF Step
<1>3. ASSUME NEW m \in Modules, HotSwap(m) \/ Pin(m) PROVE WritersControl' /\ OnlyControlsWrite'
  BY <1>3 DEF HotSwap, Pin, locals
<1>4. CASE UNCHANGED vars
  BY <1>4 DEF vars
<1> QED BY <1>1, <1>2, <1>3, <1>4 DEF Next

\* What a write leaves wanted of its module: the bits it set, or none of them,
\* and what was wanted of other bits.
LEMMA WantedAfterWrite ==
  ASSUME Typed, WritersControl, NEW c \in Callers, Write(c), NEW w \in wanted'[Mod(c)]
  PROVE  \/ /\ w \in wanted[Mod(c)]
            /\ w[1] # Cell(c) \/ w[2] \notin OwnBits(c)
         \/ /\ w[1] = Cell(c) /\ w[2] \in OwnBits(c) /\ w[3] = SetsBits(c)
            /\ module[Mod(c)] # Absent /\ WriteByte(c)
<1>1. Mod(c) \in Modules
  BY DEF Write, Goto, WritersControl
<1> QED BY <1>1 DEF Write, StillWanted, Typed

\* No control bit of an SFP module is its input pin.
LEMMA PinNotOwned ==
  ASSUME NEW c \in Callers, Cell(c) = "sfp_tx"
  PROVE  TxDisable \notin OwnBits(c)
  BY DEF OwnBits, TxDisable, SoftTxDisable

\* Nothing is ever wanted of the input pin.
LEMMA PinKept ==
  Typed /\ WritersControl /\ PinNotWanted /\ [Next]_vars => PinNotWanted'
<1> SUFFICES ASSUME Typed, WritersControl, PinNotWanted, [Next]_vars,
                    NEW m \in Modules, NEW w \in wanted'[m], w[1] = "sfp_tx"
             PROVE w[2] # TxDisable
  BY DEF PinNotWanted
<1>1. CASE UNCHANGED wanted
  BY <1>1 DEF PinNotWanted
<1>2. ASSUME NEW c \in Callers, Write(c) PROVE w[2] # TxDisable
  <2>1. CASE m = Mod(c)
    BY <1>2, <2>1, WantedAfterWrite, PinNotOwned DEF PinNotWanted
  <2>2. CASE m # Mod(c)
    <3>1. wanted'[m] = wanted[m]
      BY <1>2, <2>2 DEF Write, Typed
    <3> QED BY <3>1 DEF PinNotWanted
  <2> QED BY <2>1, <2>2
<1>3. ASSUME NEW n \in Modules, HotSwap(n) PROVE w[2] # TxDisable
  BY <1>3 DEF HotSwap, Typed, PinNotWanted
<1> QED BY <1>1, <1>2, <1>3 DEF Next, Step, Call, Identify, Read, Return, Pin, vars

\* The bytes of a module after a write that reached it.
LEMMA MemAfterWrite ==
  ASSUME Typed, WritersControl, NEW c \in Callers, pc[c] = "write",
         module[Mod(c)] # Absent, WriteByte(c), NEW cell \in Cells
  PROVE  module'[Mod(c)].mem[cell] =
           IF cell = Cell(c) THEN Stored(Mod(c), Cell(c), Modified(c))
                             ELSE module[Mod(c)].mem[cell]
<1>1. Mod(c) \in Modules
  BY DEF WritersControl
<1>2. module[Mod(c)] \in [type : Types, mem : [Cells -> Byte]]
  BY <1>1 DEF Typed
<1>3. module'[Mod(c)] =
        [module[Mod(c)] EXCEPT !.mem[Cell(c)] = Stored(Mod(c), Cell(c), Modified(c))]
  BY <1>1 DEF WriteByte, Typed
<1> QED BY <1>2, <1>3, CellInCells

\* A stored byte has the modified bits, the input pin apart.
LEMMA StoredBits ==
  ASSUME NEW c \in Callers, NEW b \in Bits, Cell(c) = "sfp_tx" => b # TxDisable
  PROVE  /\ b \in Stored(Mod(c), Cell(c), Modified(c)) <=> b \in Modified(c)
         /\ b \in OwnBits(c) => (b \in Modified(c) <=> SetsBits(c))
         /\ b \notin OwnBits(c) => (b \in Modified(c) <=> b \in seen[c])
  BY DEF Stored, Modified

\* What is wanted of a module is what it holds, after every step: this is
\* where a write relies on the byte it read.
LEMMA SettingsKept == IInv /\ [Next]_vars => SettingsHold'
<1> SUFFICES ASSUME IInv, [Next]_vars, NEW m \in Modules, NEW w \in wanted'[m]
             PROVE w[3] = (w[2] \in module'[m].mem[w[1]])
  BY DEF SettingsHold
<1> USE DEF IInv
<1>0. /\ w \in Cells \X Bits \X BOOLEAN
      /\ w[1] \in Cells /\ w[2] \in Bits /\ w[3] \in BOOLEAN
  BY TypeCorrect DEF Typed
<1>1. CASE UNCHANGED <<module, wanted>>
  BY <1>1 DEF SettingsHold
<1>2. ASSUME NEW c \in Callers, Write(c) PROVE w[3] = (w[2] \in module'[m].mem[w[1]])
  <2>0. pc[c] = "write" /\ Mod(c) \in Modules
    BY <1>2 DEF Write, Goto, WritersControl
  <2>1. CASE m # Mod(c)
    BY <1>2, <2>1 DEF Write, WriteByte, Typed, SettingsHold
  <2>2. CASE m = Mod(c) /\ UNCHANGED module
    <3>1. CASE w \in wanted[m]
      BY <2>2, <3>1 DEF SettingsHold
    <3>2. CASE w \notin wanted[m]
      <4>1. /\ w[1] = Cell(c) /\ w[2] \in OwnBits(c) /\ w[3] = SetsBits(c)
            /\ module[Mod(c)] # Absent /\ WriteByte(c)
        BY <1>2, <2>2, <3>2, WantedAfterWrite
      <4> DEFINE byte == Stored(Mod(c), Cell(c), Modified(c))
      <4>2. module'[m].mem[w[1]] = byte
        BY <1>0, <2>0, <2>2, <4>1, MemAfterWrite
      <4>3. w[2] \in byte <=> SetsBits(c)
        BY <1>0, <4>1, StoredBits, PinNotOwned
      <4> QED BY <1>0, <4>1, <4>2, <4>3
    <3> QED BY <3>1, <3>2
  <2>3. CASE m = Mod(c) /\ module[Mod(c)] # Absent /\ WriteByte(c)
    <3> DEFINE byte == Stored(Mod(c), Cell(c), Modified(c))
    <3>1. CASE w[1] # Cell(c)
      <4>1. w \in wanted[m]
        BY <1>2, <2>3, <3>1, WantedAfterWrite
      <4>2. module'[m].mem[w[1]] = module[m].mem[w[1]]
        BY <1>0, <2>0, <2>3, <3>1, MemAfterWrite
      <4> QED BY <4>1, <4>2 DEF SettingsHold
    <3>2. CASE w[1] = Cell(c) /\ w[2] \in OwnBits(c)
      <4>1. w[3] = SetsBits(c)
        BY <1>2, <2>3, <3>2, WantedAfterWrite
      <4>2. module'[m].mem[w[1]] = byte
        BY <1>0, <2>0, <2>3, <3>2, MemAfterWrite
      <4>3. w[2] \in byte <=> SetsBits(c)
        BY <1>0, <3>2, StoredBits, PinNotOwned
      <4> QED BY <1>0, <4>1, <4>2, <4>3
    <3>3. CASE w[1] = Cell(c) /\ w[2] \notin OwnBits(c)
      <4>1. w \in wanted[m]
        BY <1>2, <2>3, <3>3, WantedAfterWrite
      <4>2. w[3] = (w[2] \in seen[c])
        BY <2>0, <2>3, <3>3, <4>1 DEF SeenAgrees
      <4>3. module'[m].mem[w[1]] = byte
        BY <1>0, <2>0, <2>3, <3>3, MemAfterWrite
      <4>4. Cell(c) = "sfp_tx" => w[2] # TxDisable
        BY <3>3, <4>1 DEF PinNotWanted
      <4>5. w[2] \in byte <=> w[2] \in seen[c]
        BY <1>0, <3>3, <4>4, StoredBits
      <4> QED BY <4>2, <4>3, <4>5
    <3> QED BY <3>1, <3>2, <3>3
  <2> QED BY <1>2, <2>1, <2>2, <2>3 DEF Write
<1>3. ASSUME NEW n \in Modules, HotSwap(n) PROVE w[3] = (w[2] \in module'[m].mem[w[1]])
  BY <1>3 DEF HotSwap, Typed, SettingsHold
<1>4. ASSUME NEW n \in Modules, Pin(n) PROVE w[3] = (w[2] \in module'[m].mem[w[1]])
  <2>1. w \in wanted[m]
    BY <1>4 DEF Pin
  <2>2. CASE m # n
    BY <1>4, <2>1, <2>2 DEF Pin, Typed, SettingsHold
  <2>3. CASE m = n
    <3>1. module[n] \in [type : Types, mem : [Cells -> Byte]]
      BY <1>4 DEF Pin, Absent, Typed
    <3>2. PICK byte : /\ module' = [module EXCEPT ![n].mem["sfp_tx"] = byte]
                      /\ \A b \in Bits \ {TxDisable} :
                           b \in byte <=> b \in module[n].mem["sfp_tx"]
      BY <1>4 DEF Pin
    <3>3. module'[n] = [module[n] EXCEPT !.mem["sfp_tx"] = byte]
      BY <3>2 DEF Typed
    <3>4. CASE w[1] = "sfp_tx"
      <4>1. w[2] # TxDisable
        BY <2>1, <3>4 DEF PinNotWanted
      <4>2. module'[n].mem["sfp_tx"] = byte
        BY <3>1, <3>3 DEF Cells
      <4> QED BY <1>0, <2>1, <2>3, <3>2, <3>4, <4>1, <4>2 DEF SettingsHold
    <3>5. CASE w[1] # "sfp_tx"
      <4>1. module'[n].mem[w[1]] = module[n].mem[w[1]]
        BY <1>0, <3>1, <3>3, <3>5
      <4> QED BY <2>1, <2>3, <4>1 DEF SettingsHold
    <3> QED BY <3>4, <3>5
  <2> QED BY <2>2, <2>3
<1> QED BY <1>1, <1>2, <1>3, <1>4 DEF Next, Step, Call, Identify, Read, Return, vars

\* The byte about to be written back agrees with what is wanted.  Nobody else
\* writes to the module meanwhile: this is where one writer per module counts.
LEMMA SeenKept == SingleWriter /\ IInv /\ [Next]_vars => SeenAgrees'
<1> SUFFICES ASSUME SingleWriter, IInv, [Next]_vars,
                    NEW d \in Callers, pc'[d] = "write",
                    NEW w \in wanted'[Mod(d)'], w[1] = Cell(d)'
             PROVE w[3] = (w[2] \in seen'[d])
  BY DEF SeenAgrees
<1> USE DEF IInv, Typed
<1>1. ASSUME NEW c \in Callers, Read(c) PROVE w[3] = (w[2] \in seen'[d])
  <2>0. Mod(d)' = Mod(d) /\ Cell(d)' = Cell(d) /\ wanted' = wanted
    BY <1>1 DEF Read, Mod, Cell, Op
  <2>1. CASE c = d
    <3>1. seen'[d] = module[Mod(d)].mem[Cell(d)]
      BY <1>1, <2>1 DEF Read, Goto
    <3>2. Mod(d) \in Modules
      BY <1>1, <2>1 DEF Read, WritersControl
    <3> QED BY <2>0, <3>1, <3>2 DEF SettingsHold
  <2>2. CASE c # d
    BY <1>1, <2>0, <2>2 DEF Read, Goto, SeenAgrees
  <2> QED BY <2>1, <2>2
<1>2. ASSUME NEW c \in Callers, Write(c) PROVE w[3] = (w[2] \in seen'[d])
  <2>0. Mod(d)' = Mod(d) /\ Cell(d)' = Cell(d)
    BY <1>2 DEF Write, Mod, Cell, Op
  <2>1. c # d /\ pc[c] = "write" /\ pc[d] = "write" /\ seen'[d] = seen[d]
    BY <1>2 DEF Write, Goto
  <2>2. Mod(c) # Mod(d)
    BY <2>1 DEF SingleWriter, WritersControl, OnlyControlsWrite
  <2>3. wanted'[Mod(d)] = wanted[Mod(d)]
    <3>1. Mod(d) \in Modules
      BY <2>1 DEF WritersControl
    <3>2. PICK W : wanted' = [wanted EXCEPT ![Mod(c)] = W]
      BY <1>2 DEF Write
    <3> QED BY <2>2, <3>1, <3>2
  <2> QED BY <2>0, <2>1, <2>3 DEF SeenAgrees
<1>3. ASSUME NEW m \in Modules, HotSwap(m) PROVE w[3] = (w[2] \in seen'[d])
  <2>0. Mod(d)' = Mod(d) /\ Cell(d)' = Cell(d) /\ pc' = pc /\ seen' = seen
    BY <1>3 DEF HotSwap, locals, Mod, Cell, Op
  <2>1. w \in wanted[Mod(d)]
    BY <1>3, <2>0 DEF HotSwap
  <2> QED BY <2>0, <2>1 DEF SeenAgrees
<1>4. ASSUME NEW c \in Callers, NEW r \in Requests, Call(c, r)
      PROVE w[3] = (w[2] \in seen'[d])
  BY <1>4 DEF Call, Goto, Mod, Cell, Op, SeenAgrees
<1>5. ASSUME NEW c \in Callers, Identify(c) PROVE w[3] = (w[2] \in seen'[d])
  BY <1>5 DEF Identify, Goto, Mod, Cell, Op, SeenAgrees
<1>6. ASSUME NEW c \in Callers, Return(c) PROVE w[3] = (w[2] \in seen'[d])
  BY <1>6 DEF Return, Goto, Mod, Cell, Op, SeenAgrees
<1>7. ASSUME NEW m \in Modules, Pin(m) PROVE w[3] = (w[2] \in seen'[d])
  BY <1>7 DEF Pin, locals, Mod, Cell, Op, SeenAgrees
<1>8. CASE UNCHANGED vars
  BY <1>8 DEF vars, Mod, Cell, Op, SeenAgrees
<1> QED BY <1>1, <1>2, <1>3, <1>4, <1>5, <1>6, <1>7, <1>8 DEF Next, Step

\* The invariant holds in the initial states.
LEMMA InitIInv == Init => IInv
<1> SUFFICES ASSUME Init PROVE IInv
  OBVIOUS
<1> USE DEF Init
<1>1. Typed
  <2>1. Present \subseteq [type : Types, mem : [Cells -> Byte]]
    BY MediaControlAssumption DEF Present, Byte, Bits
  <2> QED BY <2>1 DEF Typed, Steps, Types, Byte, Statuses
<1> QED BY <1>1 DEF IInv, WritersControl, OnlyControlsWrite, SeenAgrees, PinNotWanted,
                    SettingsHold

\* The inductive invariant.
THEOREM Invariant == SingleWriter => (Spec => []IInv)
<1> SUFFICES ASSUME SingleWriter PROVE Spec => []IInv
  OBVIOUS
<1>1. IInv /\ [Next]_vars => IInv'
  BY TypeCorrect, ControlsKept, SeenKept, PinKept, SettingsKept DEF IInv
<1> QED BY InitIInv, <1>1, PTL DEF Spec

\* With one writer per module, no control undoes what another one set,
\* whatever the hardware, the hot swaps and the failed accesses in between
\* (sdi_media_tx_control, sdi_media_cdr_status_set).
THEOREM SettingsAlwaysHold == SingleWriter => (Spec => []SettingsHold)
<1> SUFFICES ASSUME SingleWriter PROVE Spec => []SettingsHold
  OBVIOUS
<1>1. IInv => SettingsHold
  BY DEF IInv
<1>2. Spec => []IInv
  BY Invariant
<1> QED BY <1>1, <1>2, PTL

-----------------------------------------------------------------------------
(* What a getter returns of a setting. *)

\* Only the read of a caller ends its call at the control byte.
LEMMA OnlyReadEndsRead ==
  ASSUME Typed, Next, NEW c \in Callers, pc[c] = "read", pc'[c] = "done"
  PROVE  Read(c)
<1> USE DEF Typed, Goto
<1>1. ASSUME NEW d \in Callers, NEW r \in Requests, Call(d, r) PROVE FALSE
  BY <1>1 DEF Call
<1>2. ASSUME NEW d \in Callers, Identify(d) PROVE FALSE
  BY <1>2 DEF Identify
<1>3. ASSUME NEW d \in Callers, Write(d) PROVE FALSE
  BY <1>3 DEF Write
<1>4. ASSUME NEW d \in Callers, Return(d) PROVE FALSE
  BY <1>4 DEF Return
<1>5. ASSUME NEW m \in Modules, HotSwap(m) \/ Pin(m) PROVE FALSE
  BY <1>5 DEF HotSwap, Pin
<1>6. ASSUME NEW d \in Callers, Read(d) PROVE d = c
  BY <1>6 DEF Read
<1> QED BY <1>1, <1>2, <1>3, <1>4, <1>5, <1>6 DEF Next, Step

\* What ReadsBackQsfp says of one read: all bits of the channel are as they
\* were last set, because no later write undid them.
LEMMA ReadIsWanted ==
  ASSUME IInv, NEW c \in Callers, Read(c), pc'[c] = "done", rc'[c] = "ok",
         id[c] = "qsfp", NEW on \in BOOLEAN,
         {<<Cell(c), b, on>> : b \in OwnBits(c)} \subseteq wanted[Mod(c)]
  PROVE  /\ Op(c) = "tx_status" /\ call[c].channel \in 0 .. 3 => status'[c] = ~on
         /\ Op(c) = "cdr_get" /\ OwnBits(c) # {} => status'[c] = on
<1> DEFINE byte == module[Mod(c)].mem[Cell(c)]
<1>1. Mod(c) \in Modules
  BY DEF IInv, WritersControl, Read
<1>2. status'[c] = StatusOf(c, byte)
  BY DEF IInv, Typed, Read, Goto, Fails
<1>3. ASSUME NEW b \in OwnBits(c) PROVE on = (b \in byte)
  <2> DEFINE w == <<Cell(c), b, on>>
  <2>1. w \in wanted[Mod(c)]
    OBVIOUS
  <2>2. w[1] = Cell(c) /\ w[2] = b
    OBVIOUS
  <2>3. w[3] = on
    OBVIOUS
  <2> HIDE DEF w
  <2>4. w[3] = (w[2] \in module[Mod(c)].mem[w[1]])
    BY <1>1, <2>1 DEF IInv, SettingsHold
  <2> QED BY <2>2, <2>3, <2>4, Zenon
<1> HIDE DEF byte
<1>4. CASE Op(c) = "tx_status" /\ call[c].channel \in 0 .. 3
  <2>1. Cell(c) = "qsfp_tx"
    BY <1>4 DEF Cell
  <2>2. call[c].channel \in OwnBits(c)
    <3>1. OwnBits(c) = {call[c].channel} \cap Bits
      BY <2>1 DEF OwnBits
    <3>2. \A n \in 0 .. 3 : n \in Bits
      BY DEF Bits
    <3>3. call[c].channel \in Bits
      BY <1>4, <3>2
    <3> QED BY <3>1, <3>3
  <2>3. StatusOf(c, byte) = ~(call[c].channel \in byte)
    BY <1>4, <2>1 DEF StatusOf
  <2> QED BY <1>2, <1>3, <1>4, <2>2, <2>3
<1>5. CASE Op(c) = "cdr_get" /\ OwnBits(c) # {}
  <2>1. Cell(c) = "qsfp_cdr"
    BY <1>5 DEF Cell
  <2>2. StatusOf(c, byte) = (OwnBits(c) \cap byte # {})
    BY <2>1 DEF StatusOf
  <2> QED BY <1>2, <1>3, <1>5, <2>2
<1> QED BY <1>4, <1>5

\* With one writer per module, what tx_control_status_get and cdr_status_get
\* return for a QSFP module is what the last controls of the channel asked
\* for, at the moment of the read.
THEOREM SettingsAreReadBack == SingleWriter => (Spec => ReadsBackQsfp)
<1> SUFFICES ASSUME SingleWriter PROVE Spec => ReadsBackQsfp
  OBVIOUS
<1> DEFINE Back ==
      \A c \in Callers :
        pc[c] = "read" /\ pc'[c] = "done" /\ rc'[c] = "ok" /\ id[c] = "qsfp" =>
          \A on \in BOOLEAN :
            {<<Cell(c), b, on>> : b \in OwnBits(c)} \subseteq wanted[Mod(c)] =>
              /\ Op(c) = "tx_status" /\ call[c].channel \in 0 .. 3 => status'[c] = ~on
              /\ Op(c) = "cdr_get" /\ OwnBits(c) # {} => status'[c] = on
<1>1. IInv /\ [Next]_vars => [Back]_vars
  <2> SUFFICES ASSUME IInv, Next PROVE Back
    OBVIOUS
  <2> QED BY OnlyReadEndsRead, ReadIsWanted DEF IInv
<1>2. ReadsBackQsfp <=> [][Back]_vars
  BY DEF ReadsBackQsfp
<1>3. Spec => []IInv
  BY Invariant
<1> QED BY <1>1, <1>2, <1>3, PTL DEF Spec

-----------------------------------------------------------------------------
(* Writes, with any number of writers. *)

\* The module of a caller that was not swapped has the type that the caller
\* identified, one that has control bytes.
TypeSeen ==
  \A c \in Callers : pc[c] \in {"read", "write"} /\ c \notin swapped =>
    module[Mod(c)].type = id[c] /\ id[c] \in {"qsfp", "sfp"}

WriteInv == Typed /\ WritersControl /\ OnlyControlsWrite /\ TypeSeen

\* Only a swap changes what type of module is in a cage.
LEMMA TypesStay ==
  ASSUME Typed, WritersControl, NEW c \in Callers, Write(c), NEW m \in Modules
  PROVE  module'[m].type = module[m].type
<1>1. CASE UNCHANGED module
  BY <1>1
<1>2. CASE module[Mod(c)] # Absent /\ WriteByte(c)
  <2>1. Mod(c) \in Modules
    BY DEF Write, Goto, WritersControl
  <2>2. module[Mod(c)] \in [type : Types, mem : [Cells -> Byte]]
    BY <1>2, <2>1 DEF Typed
  <2>3. [module[Mod(c)] EXCEPT !.mem[Cell(c)] = Stored(Mod(c), Cell(c), Modified(c))].type
          = module[Mod(c)].type
    BY <2>2
  <2> QED BY <1>2, <2>1, <2>3 DEF WriteByte, Typed
<1> QED BY <1>1, <1>2 DEF Write

\* A pin is not a type either.
LEMMA PinKeepsTypes ==
  ASSUME Typed, NEW n \in Modules, Pin(n), NEW m \in Modules
  PROVE  module'[m].type = module[m].type
<1>1. module[n] \in [type : Types, mem : [Cells -> Byte]]
  BY DEF Pin, Absent, Typed
<1>2. PICK byte : module' = [module EXCEPT ![n].mem["sfp_tx"] = byte]
  BY DEF Pin
<1>3. [module[n] EXCEPT !.mem["sfp_tx"] = byte].type = module[n].type
  BY <1>1
<1> QED BY <1>2, <1>3 DEF Typed

LEMMA TypeSeenKept == WriteInv /\ [Next]_vars => TypeSeen'
<1> SUFFICES ASSUME WriteInv, [Next]_vars, NEW d \in Callers,
                    pc'[d] \in {"read", "write"}, d \notin swapped'
             PROVE  module'[Mod(d)'].type = id'[d] /\ id'[d] \in {"qsfp", "sfp"}
  BY DEF TypeSeen
<1> USE DEF WriteInv, Typed, Mod
<1>1. CASE UNCHANGED vars
  BY <1>1 DEF vars, TypeSeen
<1>2. ASSUME NEW c \in Callers, NEW r \in Requests, Call(c, r)
      PROVE  module'[Mod(d)'].type = id'[d] /\ id'[d] \in {"qsfp", "sfp"}
  BY <1>2 DEF Call, Goto, TypeSeen
<1>3. ASSUME NEW c \in Callers, Identify(c)
      PROVE  module'[Mod(d)'].type = id'[d] /\ id'[d] \in {"qsfp", "sfp"}
  <2>1. CASE c # d
    BY <1>3, <2>1 DEF Identify, Goto, TypeSeen
  <2>2. CASE c = d
    BY <1>3, <2>2 DEF Identify, Goto
  <2> QED BY <2>1, <2>2
<1>4. ASSUME NEW c \in Callers, Read(c)
      PROVE  module'[Mod(d)'].type = id'[d] /\ id'[d] \in {"qsfp", "sfp"}
  <2>1. pc[d] \in {"read", "write"}
    BY <1>4 DEF Read, Goto
  <2> QED BY <1>4, <2>1 DEF Read, TypeSeen
<1>5. ASSUME NEW c \in Callers, Write(c)
      PROVE  module'[Mod(d)'].type = id'[d] /\ id'[d] \in {"qsfp", "sfp"}
  <2>1. c # d /\ pc[d] \in {"read", "write"} /\ d \notin swapped /\ id'[d] = id[d]
        /\ Mod(d)' = Mod(d)
    BY <1>5 DEF Write, Goto
  <2>2. Mod(d) \in Modules
    BY <2>1 DEF WritersControl
  <2>3. module'[Mod(d)].type = module[Mod(d)].type
    BY <1>5, <2>2, TypesStay
  <2> QED BY <2>1, <2>3 DEF TypeSeen
<1>6. ASSUME NEW c \in Callers, Return(c)
      PROVE  module'[Mod(d)'].type = id'[d] /\ id'[d] \in {"qsfp", "sfp"}
  BY <1>6 DEF Return, Goto, TypeSeen
<1>7. ASSUME NEW m \in Modules, HotSwap(m)
      PROVE  module'[Mod(d)'].type = id'[d] /\ id'[d] \in {"qsfp", "sfp"}
  BY <1>7 DEF HotSwap, locals, TypeSeen
<1>8. ASSUME NEW m \in Modules, Pin(m)
      PROVE  module'[Mod(d)'].type = id'[d] /\ id'[d] \in {"qsfp", "sfp"}
  <2>1. UNCHANGED <<pc, call, id, swapped>>
    BY <1>8 DEF Pin, locals
  <2>2. Mod(d) \in Modules
    BY <2>1 DEF WritersControl
  <2>3. module'[Mod(d)].type = module[Mod(d)].type
    BY <1>8, <2>2, PinKeepsTypes
  <2> QED BY <2>1, <2>3 DEF TypeSeen
<1> QED BY <1>1, <1>2, <1>3, <1>4, <1>5, <1>6, <1>7, <1>8 DEF Next, Step

\* What WritesOwnBitsOnly says of one write.
LEMMA WriteIsOwn ==
  ASSUME WriteInv, NEW c \in Callers, Write(c), c \notin swapped,
         module[Mod(c)] # Absent, module[Mod(c)].mem[Cell(c)] = seen[c]
  PROVE  /\ module[Mod(c)].type = CellType[Cell(c)]
         /\ \A cell \in Cells \ {Cell(c)} :
              module'[Mod(c)].mem[cell] = module[Mod(c)].mem[cell]
         /\ \A b \in Bits \ OwnBits(c) :
              b \in module'[Mod(c)].mem[Cell(c)] <=> b \in module[Mod(c)].mem[Cell(c)]
<1>1. pc[c] = "write"
  BY DEF Write, Goto
<1>2. module[Mod(c)].type = CellType[Cell(c)]
  BY <1>1 DEF WriteInv, TypeSeen, CellType, Cell
<1>3. CASE UNCHANGED module
  BY <1>2, <1>3
<1>4. CASE WriteByte(c)
  <2>1. \A cell \in Cells :
          module'[Mod(c)].mem[cell] =
            IF cell = Cell(c) THEN Stored(Mod(c), Cell(c), Modified(c))
                              ELSE module[Mod(c)].mem[cell]
    BY <1>1, <1>4, MemAfterWrite DEF WriteInv
  <2>2. \A b \in Bits \ OwnBits(c) : b \in Modified(c) <=> b \in seen[c]
    BY DEF Modified
  <2>3. \A b \in Bits \ OwnBits(c) :
          b \in Stored(Mod(c), Cell(c), Modified(c)) <=> b \in module[Mod(c)].mem[Cell(c)]
    BY <2>2 DEF Stored
  <2> QED BY <1>2, <2>1, <2>3, CellInCells
<1> QED BY <1>3, <1>4 DEF Write

\* The invariant without SingleWriter.
LEMMA WriteInvariant == Spec => []WriteInv
<1>1. Init => WriteInv
  BY InitIInv DEF WriteInv, IInv, TypeSeen, Init
<1>2. WriteInv /\ [Next]_vars => WriteInv'
  BY TypeCorrect, ControlsKept, TypeSeenKept DEF WriteInv
<1> QED BY <1>1, <1>2, PTL DEF Spec

\* No step goes on after a test that fails.
LEMMA TestedKept == WriteInv /\ OnlyTested /\ [Next]_vars => OnlyTested'
<1> SUFFICES ASSUME WriteInv, OnlyTested, [Next]_vars PROVE OnlyTested'
  OBVIOUS
<1> USE DEF WriteInv, Typed, OnlyTested, Mod, Op
<1>1. ASSUME NEW c \in Callers, NEW r \in Requests, Call(c, r) PROVE OnlyTested'
  <2>1. r.module \in Modules \cup {NotMedia}
    BY RequestType
  <2> QED BY <1>1, <2>1 DEF Call, Goto, Fails
<1>2. ASSUME NEW c \in Callers, Identify(c) PROVE OnlyTested'
  <2>1. call[c].op \in Ops
    BY RequestType
  <2>2. call[c].op \in {"tx_control", "tx_status"} \/ call[c].op \in {"cdr_set", "cdr_get"}
    BY <2>1 DEF Ops
  <2> QED BY <1>2, <2>2 DEF Identify, Goto, Fails
<1>3. ASSUME NEW c \in Callers, Read(c) PROVE OnlyTested'
  BY <1>3 DEF Read, Goto, Fails
<1>4. ASSUME NEW c \in Callers, Write(c) PROVE OnlyTested'
  BY <1>4 DEF Write, Goto, Fails
<1>5. ASSUME NEW c \in Callers, Return(c) PROVE OnlyTested'
  BY <1>5 DEF Return, Goto
<1>6. ASSUME NEW m \in Modules, HotSwap(m) \/ Pin(m) PROVE OnlyTested'
  BY <1>6 DEF HotSwap, Pin, locals
<1>7. CASE UNCHANGED vars
  BY <1>7 DEF vars
<1> QED BY <1>1, <1>2, <1>3, <1>4, <1>5, <1>6, <1>7 DEF Next, Step

\* No control and no getter of a control bit goes on after a test it fails
\* (the returns of tx_control, cdr_status_set and their getters), however
\* many threads control a module and whatever is swapped: nothing is written
\* but by a control that read a byte of a type of module that it knows.
THEOREM ControlTypesHold == Spec => []TypeOK
<1>1. Init => OnlyTested
  BY DEF Init, OnlyTested
<1>2. WriteInv /\ OnlyTested => TypeOK
  BY DEF WriteInv, TypeOK
<1> QED BY WriteInvariant, TestedKept, <1>1, <1>2, PTL DEF Spec

\* WritesOwnBitsOnly, however many threads control a module: a write to a
\* module that was not swapped, and whose byte is the one that was read, goes
\* to a module of the right type and changes the bits of its channel only.
THEOREM WritesStayInBits == Spec => WritesOwnBitsOnly
<1> DEFINE Own ==
      \A c \in Callers :
        pc[c] = "write" /\ pc'[c] = "done" /\ c \notin swapped =>
          LET old == module[Mod(c)]
              new == module'[Mod(c)]
          IN old # Absent /\ old.mem[Cell(c)] = seen[c] =>
               /\ old.type = CellType[Cell(c)]
               /\ \A cell \in Cells \ {Cell(c)} : new.mem[cell] = old.mem[cell]
               /\ \A b \in Bits \ OwnBits(c) :
                    b \in new.mem[Cell(c)] <=> b \in old.mem[Cell(c)]
<1>1. WriteInv /\ [Next]_vars => [Own]_vars
  <2> SUFFICES ASSUME WriteInv, Next, NEW c \in Callers,
                      pc[c] = "write", pc'[c] = "done", c \notin swapped,
                      module[Mod(c)] # Absent, module[Mod(c)].mem[Cell(c)] = seen[c]
               PROVE  /\ module[Mod(c)].type = CellType[Cell(c)]
                      /\ \A cell \in Cells \ {Cell(c)} :
                           module'[Mod(c)].mem[cell] = module[Mod(c)].mem[cell]
                      /\ \A b \in Bits \ OwnBits(c) :
                           b \in module'[Mod(c)].mem[Cell(c)]
                             <=> b \in module[Mod(c)].mem[Cell(c)]
    OBVIOUS
  <2>1. Write(c)
    <3> USE DEF WriteInv, Typed, Goto
    <3>1. ASSUME NEW d \in Callers, NEW r \in Requests, Call(d, r) PROVE FALSE
      BY <3>1 DEF Call
    <3>2. ASSUME NEW d \in Callers, Identify(d) PROVE FALSE
      BY <3>2 DEF Identify
    <3>3. ASSUME NEW d \in Callers, Read(d) PROVE FALSE
      BY <3>3 DEF Read
    <3>4. ASSUME NEW d \in Callers, Return(d) PROVE FALSE
      BY <3>4 DEF Return
    <3>5. ASSUME NEW m \in Modules, HotSwap(m) \/ Pin(m) PROVE FALSE
      BY <3>5 DEF HotSwap, Pin
    <3>6. ASSUME NEW d \in Callers, Write(d) PROVE d = c
      BY <3>6 DEF Write
    <3> QED BY <3>1, <3>2, <3>3, <3>4, <3>5, <3>6 DEF Next, Step
  <2> QED BY <2>1, WriteIsOwn
<1>2. WritesOwnBitsOnly <=> [][Own]_vars
  BY DEF WritesOwnBitsOnly
<1> QED BY WriteInvariant, <1>1, <1>2, PTL DEF Spec

-----------------------------------------------------------------------------
(* MediaStatus: the bit where a condition is shown, and the flag that a     *)
(* getter makes of a bit.                                                   *)

\* The parts of a flag.
LEMMA FlagParts ==
  ASSUME NEW flag \in Flags
  PROVE  /\ flag = <<flag[1], flag[2], flag[3]>>
         /\ flag[1] \in Monitors => flag[2] \in Sides /\ flag[3] \in Kinds
         /\ flag[1] \in States => flag[2] = "STATE" /\ flag[3] = "STATE"
         /\ flag[1] \in Monitors \cup States
<1>1. CASE flag \in Monitors \X Sides \X Kinds
  BY <1>1 DEF Monitors, States
<1>2. CASE flag \in {<<s, "STATE", "STATE">> : s \in States}
  BY <1>2 DEF Monitors, States
<1> QED BY <1>1, <1>2 DEF Flags

\* The four levels of a value are four different bits.
LEMMA LevelBits ==
  /\ LevelBit("HIGH", "ALARM") = 7
  /\ LevelBit("LOW", "ALARM") = 6
  /\ LevelBit("HIGH", "WARNING") = 5
  /\ LevelBit("LOW", "WARNING") = 4
  BY DEF LevelBit

LEMMA LevelBitInjective ==
  ASSUME NEW s \in Sides, NEW k \in Kinds
  PROVE  /\ LevelBit(s, k) \in 4 .. 7
         /\ \A t \in Sides, l \in Kinds : LevelBit(t, l) = LevelBit(s, k) => t = s /\ l = k
  BY LevelBits DEF Sides, Kinds

\* The half of a byte that shows a channel of a QSFP module.
Half(ch) == IF ch \in {0, 2} THEN 0 ELSE 4

LEMMA Halves ==
  ASSUME NEW ch \in QsfpChannels
  PROVE  /\ 4 * (ch % 2) = Half(ch)
         /\ ch < 2 <=> ch \in {0, 1}
         /\ ch \in {0, 1, 2, 3}
<1>1. ch \in {0, 1, 2, 3}
  BY DEF QsfpChannels
<1>2. 0 % 2 = 0 /\ 1 % 2 = 1 /\ 2 % 2 = 0 /\ 3 % 2 = 1
  OBVIOUS
<1> QED BY <1>1, <1>2 DEF Half

\* Where a QSFP module shows each condition (sdi_media_utils.h).
LEMMA QsfpPlaces ==
  ASSUME NEW flag \in Flags, NEW ch \in QsfpChannels
  PROVE  LET level == LevelBit(flag[2], flag[3])
             place == WhereQsfp(flag, ch)
         IN /\ flag[1] = "TEMP" => place = <<6, level>>
            /\ flag[1] = "VOLT" => place = <<7, level>>
            /\ flag[1] = "RX_PWR" => place = <<IF ch < 2 THEN 9 ELSE 10, level - Half(ch)>>
            /\ flag[1] = "TX_BIAS" => place = <<IF ch < 2 THEN 11 ELSE 12, level - Half(ch)>>
            /\ flag[1] = "TX_PWR" => place = <<>>
            /\ flag[1] = "TXDISABLE" => place = <<86, ch>>
            /\ flag[1] = "TXFAULT" => place = <<4, ch>>
            /\ flag[1] = "TXLOSS" => place = <<3, ch + 4>>
            /\ flag[1] = "RXLOSS" => place = <<3, ch>>
  BY Halves DEF WhereQsfp

\* Where an SFP module shows each condition.
LEMMA SfpPlaces ==
  ASSUME NEW flag \in Flags
  PROVE  LET alarm == flag[3] = "ALARM"
             low   == IF flag[2] = "HIGH" THEN 0 ELSE 1
             place == WhereSfp(flag)
         IN /\ flag[1] = "TEMP" => place = <<IF alarm THEN 112 ELSE 116, 7 - low>>
            /\ flag[1] = "VOLT" => place = <<IF alarm THEN 112 ELSE 116, 5 - low>>
            /\ flag[1] = "TX_BIAS" => place = <<IF alarm THEN 112 ELSE 116, 3 - low>>
            /\ flag[1] = "TX_PWR" => place = <<IF alarm THEN 112 ELSE 116, 1 - low>>
            /\ flag[1] = "RX_PWR" => place = <<IF alarm THEN 113 ELSE 117, 7 - low>>
            /\ flag[1] = "TXDISABLE" => place = <<110, 7>>
            /\ flag[1] = "TXFAULT" => place = <<110, 2>>
            /\ flag[1] = "TXLOSS" => place = <<>>
            /\ flag[1] = "RXLOSS" => place = <<110, 1>>
  BY DEF WhereSfp
\* The elements of a sequence.
Elements(s) == {s[i] : i \in 1 .. Len(s)}

LEMMA ElementsOfTuples ==
  /\ \A a : Elements(<<a>>) = {a}
  /\ \A a, b : Elements(<<a, b>>) = {a, b}
  /\ \A a, b, d : Elements(<<a, b, d>>) = {a, b, d}
  /\ \A a, b, d, e : Elements(<<a, b, d, e>>) = {a, b, d, e}
<1>1. 1 .. 1 = {1} /\ 1 .. 2 = {1, 2} /\ 1 .. 3 = {1, 2, 3} /\ 1 .. 4 = {1, 2, 3, 4}
  OBVIOUS
<1>2. \A a : Elements(<<a>>) = {a}
  BY <1>1 DEF Elements
<1>3. \A a, b : Elements(<<a, b>>) = {a, b}
  BY <1>1 DEF Elements
<1>4. \A a, b, d : Elements(<<a, b, d>>) = {a, b, d}
  BY <1>1 DEF Elements
<1>5. \A a, b, d, e : Elements(<<a, b, d, e>>) = {a, b, d, e}
  BY <1>1 DEF Elements
<1> QED BY <1>2, <1>3, <1>4, <1>5

\* The addresses that a getter reads.
LEMMA AddressesRead ==
  ASSUME NEW ch \in Nat
  PROVE  /\ Elements(Reads("module_monitor", "qsfp", ch)) = {6, 7}
         /\ Elements(Reads("module_monitor", "sfp", ch)) = {112, 116}
         /\ ch \in {0, 1} => Elements(Reads("channel_monitor", "qsfp", ch)) = {9, 11}
         /\ ch \in {2, 3} => Elements(Reads("channel_monitor", "qsfp", ch)) = {10, 12}
         /\ ch \notin QsfpChannels => Elements(Reads("channel_monitor", "qsfp", ch)) = {0}
         /\ Elements(Reads("channel_monitor", "sfp", ch)) = {112, 113, 116, 117}
         /\ Elements(Reads("channel_status", "qsfp", ch)) = {86, 4, 3}
         /\ Elements(Reads("channel_status", "sfp", ch)) = {110}
<1>1. ch \notin QsfpChannels => ch \notin {0, 1} /\ ch \notin {2, 3}
  BY DEF QsfpChannels
<1>2. /\ Reads("module_monitor", "qsfp", ch) = <<6, 7>>
      /\ Reads("module_monitor", "sfp", ch) = <<112, 116>>
      /\ Reads("channel_monitor", "sfp", ch) = <<112, 113, 116, 117>>
      /\ Reads("channel_status", "qsfp", ch) = <<86, 4, 3>>
      /\ Reads("channel_status", "sfp", ch) = <<110>>
  BY DEF Reads
<1>3. /\ ch \in {0, 1} => Reads("channel_monitor", "qsfp", ch) = <<9, 11>>
      /\ ch \in {2, 3} => Reads("channel_monitor", "qsfp", ch) = <<10, 12>>
      /\ ch \notin QsfpChannels => Reads("channel_monitor", "qsfp", ch) = <<0, 0>>
  BY <1>1 DEF Reads
<1>4. /\ Elements(<<6, 7>>) = {6, 7}
      /\ Elements(<<112, 116>>) = {112, 116}
      /\ Elements(<<112, 113, 116, 117>>) = {112, 113, 116, 117}
      /\ Elements(<<86, 4, 3>>) = {86, 4, 3}
      /\ Elements(<<110>>) = {110}
      /\ Elements(<<9, 11>>) = {9, 11}
      /\ Elements(<<10, 12>>) = {10, 12}
      /\ Elements(<<0, 0>>) = {0}
  BY ElementsOfTuples
<1>5. /\ ch \in {0, 1} => Elements(Reads("channel_monitor", "qsfp", ch)) = {9, 11}
      /\ ch \in {2, 3} => Elements(Reads("channel_monitor", "qsfp", ch)) = {10, 12}
      /\ ch \notin QsfpChannels => Elements(Reads("channel_monitor", "qsfp", ch)) = {0}
  BY <1>3, <1>4
<1> QED BY <1>2, <1>4, <1>5

\* What the sets of bits with their flags hold.
LEMMA FlagsOfBits ==
  ASSUME NEW flag \in Flags, NEW b, NEW what \in Monitors
  PROVE  /\ \A shift \in {0, 4} :
              <<b, flag>> \in FourFlags(what, shift) <=>
                flag[1] = what /\ b = LevelBit(flag[2], flag[3]) - shift
         /\ \A kind \in Kinds, high \in {1, 3, 5, 7} :
              <<b, flag>> \in TwoFlags(what, kind, high) <=>
                /\ flag[1] = what /\ flag[3] = kind
                /\ b = IF flag[2] = "HIGH" THEN high ELSE high - 1
<1>1. ASSUME NEW shift \in {0, 4}
      PROVE  <<b, flag>> \in FourFlags(what, shift) <=>
               flag[1] = what /\ b = LevelBit(flag[2], flag[3]) - shift
  <2>1. ASSUME <<b, flag>> \in FourFlags(what, shift)
        PROVE  flag[1] = what /\ b = LevelBit(flag[2], flag[3]) - shift
    BY <2>1 DEF FourFlags
  <2>2. ASSUME flag[1] = what, b = LevelBit(flag[2], flag[3]) - shift
        PROVE  <<b, flag>> \in FourFlags(what, shift)
    <3>1. flag[2] \in Sides /\ flag[3] \in Kinds /\ flag = <<what, flag[2], flag[3]>>
      BY <2>2, FlagParts
    <3> QED BY <2>2, <3>1 DEF FourFlags
  <2> QED BY <2>1, <2>2
<1>2. ASSUME NEW kind \in Kinds, NEW high \in {1, 3, 5, 7}
      PROVE  <<b, flag>> \in TwoFlags(what, kind, high) <=>
                /\ flag[1] = what /\ flag[3] = kind
                /\ b = IF flag[2] = "HIGH" THEN high ELSE high - 1
  <2>1. ASSUME <<b, flag>> \in TwoFlags(what, kind, high)
        PROVE  /\ flag[1] = what /\ flag[3] = kind
               /\ b = IF flag[2] = "HIGH" THEN high ELSE high - 1
    BY <2>1 DEF TwoFlags
  <2>2. ASSUME flag[1] = what, flag[3] = kind, b = IF flag[2] = "HIGH" THEN high ELSE high - 1
        PROVE  <<b, flag>> \in TwoFlags(what, kind, high)
    <3>1. flag[2] \in {"HIGH", "LOW"} /\ flag = <<what, flag[2], kind>>
      BY <2>2, FlagParts DEF Sides
    <3> QED BY <2>2, <3>1 DEF TwoFlags
  <2> QED BY <2>1, <2>2
<1> QED BY <1>1, <1>2

LEMMA FlagsOfStates ==
  ASSUME NEW flag \in Flags, NEW b, NEW bit, NEW what \in States
  PROVE  <<b, flag>> \in State(bit, what) <=> flag[1] = what /\ b = bit
<1>1. ASSUME <<b, flag>> \in State(bit, what) PROVE flag[1] = what /\ b = bit
  BY <1>1 DEF State
<1>2. ASSUME flag[1] = what, b = bit PROVE <<b, flag>> \in State(bit, what)
  <2>1. flag = <<what, "STATE", "STATE">>
    BY <1>2, FlagParts
  <2> QED BY <1>2, <2>1 DEF State
<1> QED BY <1>1, <1>2

\* The condition of a call that a flag stands for: the channel counts in a
\* QSFP module only, and not for the module monitors.
OfChannel(op, type, ch) == IF op = "module_monitor" \/ type = "sfp" THEN 0 ELSE ch

\* What a getter makes of the bytes of a QSFP module.
LEMMA QsfpShown ==
  ASSUME NEW flag \in Flags, NEW ch \in Nat, NEW b
  PROVE  /\ <<b, flag>> \in ShownQsfp(ch, 6) <=>
              flag[1] = "TEMP" /\ b = LevelBit(flag[2], flag[3])
         /\ <<b, flag>> \in ShownQsfp(ch, 7) <=>
              flag[1] = "VOLT" /\ b = LevelBit(flag[2], flag[3])
         /\ \A addr \in {9, 10} : <<b, flag>> \in ShownQsfp(ch, addr) <=>
              flag[1] = "RX_PWR" /\ b = LevelBit(flag[2], flag[3]) - Half(ch)
         /\ \A addr \in {11, 12} : <<b, flag>> \in ShownQsfp(ch, addr) <=>
              flag[1] = "TX_BIAS" /\ b = LevelBit(flag[2], flag[3]) - Half(ch)
         /\ <<b, flag>> \in ShownQsfp(ch, 86) <=>
              ch \in QsfpChannels /\ flag[1] = "TXDISABLE" /\ b = ch
         /\ <<b, flag>> \in ShownQsfp(ch, 4) <=>
              ch \in QsfpChannels /\ flag[1] = "TXFAULT" /\ b = ch
         /\ <<b, flag>> \in ShownQsfp(ch, 3) <=>
              /\ ch \in QsfpChannels
              /\ (flag[1] = "TXLOSS" /\ b = ch + 4) \/ (flag[1] = "RXLOSS" /\ b = ch)
         /\ <<b, flag>> \notin ShownQsfp(ch, 0)
<1>1. /\ ShownQsfp(ch, 6) = FourFlags("TEMP", 0)
      /\ ShownQsfp(ch, 7) = FourFlags("VOLT", 0)
      /\ \A addr \in {9, 10} : ShownQsfp(ch, addr) = FourFlags("RX_PWR", Half(ch))
      /\ \A addr \in {11, 12} : ShownQsfp(ch, addr) = FourFlags("TX_BIAS", Half(ch))
      /\ ShownQsfp(ch, 0) = {}
  BY DEF ShownQsfp, Half
<1>2. ch \in QsfpChannels =>
        /\ ShownQsfp(ch, 86) = State(ch, "TXDISABLE")
        /\ ShownQsfp(ch, 4) = State(ch, "TXFAULT")
        /\ ShownQsfp(ch, 3) = State(ch + 4, "TXLOSS") \cup State(ch, "RXLOSS")
  BY DEF ShownQsfp
<1>3. ch \notin QsfpChannels => \A addr \in {86, 4, 3} : ShownQsfp(ch, addr) = {}
  BY DEF ShownQsfp
<1>4. Half(ch) \in {0, 4}
  BY DEF Half
<1>5. /\ <<b, flag>> \in FourFlags("TEMP", 0) <=>
           flag[1] = "TEMP" /\ b = LevelBit(flag[2], flag[3]) - 0
      /\ <<b, flag>> \in FourFlags("VOLT", 0) <=>
           flag[1] = "VOLT" /\ b = LevelBit(flag[2], flag[3]) - 0
      /\ <<b, flag>> \in FourFlags("RX_PWR", Half(ch)) <=>
           flag[1] = "RX_PWR" /\ b = LevelBit(flag[2], flag[3]) - Half(ch)
      /\ <<b, flag>> \in FourFlags("TX_BIAS", Half(ch)) <=>
           flag[1] = "TX_BIAS" /\ b = LevelBit(flag[2], flag[3]) - Half(ch)
  BY <1>4, FlagsOfBits DEF Monitors
<1>6. /\ <<b, flag>> \in State(ch, "TXDISABLE") <=> flag[1] = "TXDISABLE" /\ b = ch
      /\ <<b, flag>> \in State(ch, "TXFAULT") <=> flag[1] = "TXFAULT" /\ b = ch
      /\ <<b, flag>> \in State(ch + 4, "TXLOSS") <=> flag[1] = "TXLOSS" /\ b = ch + 4
      /\ <<b, flag>> \in State(ch, "RXLOSS") <=> flag[1] = "RXLOSS" /\ b = ch
  BY FlagsOfStates DEF States
<1>7. flag[1] \in {"TEMP", "VOLT"} => LevelBit(flag[2], flag[3]) - 0 = LevelBit(flag[2], flag[3])
  BY FlagParts, LevelBitInjective DEF Monitors
<1>8. /\ <<b, flag>> \in ShownQsfp(ch, 6) <=>
           flag[1] = "TEMP" /\ b = LevelBit(flag[2], flag[3])
      /\ <<b, flag>> \in ShownQsfp(ch, 7) <=>
           flag[1] = "VOLT" /\ b = LevelBit(flag[2], flag[3])
      /\ <<b, flag>> \notin ShownQsfp(ch, 0)
  BY <1>1, <1>5, <1>7
<1>9. /\ \A addr \in {9, 10} : <<b, flag>> \in ShownQsfp(ch, addr) <=>
           flag[1] = "RX_PWR" /\ b = LevelBit(flag[2], flag[3]) - Half(ch)
      /\ \A addr \in {11, 12} : <<b, flag>> \in ShownQsfp(ch, addr) <=>
           flag[1] = "TX_BIAS" /\ b = LevelBit(flag[2], flag[3]) - Half(ch)
  BY <1>1, <1>5
<1>10. /\ <<b, flag>> \in ShownQsfp(ch, 86) <=>
            ch \in QsfpChannels /\ flag[1] = "TXDISABLE" /\ b = ch
       /\ <<b, flag>> \in ShownQsfp(ch, 4) <=>
            ch \in QsfpChannels /\ flag[1] = "TXFAULT" /\ b = ch
       /\ <<b, flag>> \in ShownQsfp(ch, 3) <=>
            /\ ch \in QsfpChannels
            /\ (flag[1] = "TXLOSS" /\ b = ch + 4) \/ (flag[1] = "RXLOSS" /\ b = ch)
  BY <1>2, <1>3, <1>6
<1> QED BY <1>8, <1>9, <1>10

\* What a getter makes of the bytes of an SFP module.
LEMMA SfpShown ==
  ASSUME NEW flag \in Flags, NEW b
  PROVE  LET low == IF flag[2] = "HIGH" THEN 0 ELSE 1 IN
         /\ \A addr \in {112, 116} :
              LET kind == IF addr = 112 THEN "ALARM" ELSE "WARNING" IN
              /\ <<b, flag>> \in ShownSfp("module_monitor", addr) <=>
                   /\ flag[3] = kind
                   /\ (flag[1] = "TEMP" /\ b = 7 - low) \/ (flag[1] = "VOLT" /\ b = 5 - low)
              /\ <<b, flag>> \in ShownSfp("channel_monitor", addr) <=>
                   /\ flag[3] = kind
                   /\ (flag[1] = "TX_BIAS" /\ b = 3 - low) \/ (flag[1] = "TX_PWR" /\ b = 1 - low)
         /\ \A addr \in {113, 117} :
              <<b, flag>> \in ShownSfp("channel_monitor", addr) <=>
                /\ flag[3] = IF addr = 113 THEN "ALARM" ELSE "WARNING"
                /\ flag[1] = "RX_PWR" /\ b = 7 - low
         /\ <<b, flag>> \in ShownSfp("channel_status", 110) <=>
              \/ flag[1] = "TXDISABLE" /\ b = 7
              \/ flag[1] = "TXFAULT" /\ b = 2
              \/ flag[1] = "RXLOSS" /\ b = 1
<1> DEFINE low == IF flag[2] = "HIGH" THEN 0 ELSE 1
<1>1. ASSUME NEW what \in Monitors, NEW kind \in Kinds, NEW high \in {1, 3, 5, 7}
      PROVE  <<b, flag>> \in TwoFlags(what, kind, high) <=>
               flag[1] = what /\ flag[3] = kind /\ b = high - low
  <2>1. high - low = IF flag[2] = "HIGH" THEN high ELSE high - 1
    OBVIOUS
  <2> QED BY <2>1, FlagsOfBits
<1>2. /\ ShownSfp("module_monitor", 112) = TwoFlags("TEMP", "ALARM", 7) \cup TwoFlags("VOLT", "ALARM", 5)
      /\ ShownSfp("module_monitor", 116) = TwoFlags("TEMP", "WARNING", 7) \cup TwoFlags("VOLT", "WARNING", 5)
      /\ ShownSfp("channel_monitor", 112) = TwoFlags("TX_BIAS", "ALARM", 3) \cup TwoFlags("TX_PWR", "ALARM", 1)
      /\ ShownSfp("channel_monitor", 116) = TwoFlags("TX_BIAS", "WARNING", 3) \cup TwoFlags("TX_PWR", "WARNING", 1)
      /\ ShownSfp("channel_monitor", 113) = TwoFlags("RX_PWR", "ALARM", 7)
      /\ ShownSfp("channel_monitor", 117) = TwoFlags("RX_PWR", "WARNING", 7)
      /\ ShownSfp("channel_status", 110) =
           State(7, "TXDISABLE") \cup State(2, "TXFAULT") \cup State(1, "RXLOSS")
  BY DEF ShownSfp
<1>3. /\ <<b, flag>> \in State(7, "TXDISABLE") <=> flag[1] = "TXDISABLE" /\ b = 7
      /\ <<b, flag>> \in State(2, "TXFAULT") <=> flag[1] = "TXFAULT" /\ b = 2
      /\ <<b, flag>> \in State(1, "RXLOSS") <=> flag[1] = "RXLOSS" /\ b = 1
  BY FlagsOfStates DEF States
<1> HIDE DEF low
<1>4. ASSUME NEW kind \in Kinds
      PROVE  /\ <<b, flag>> \in TwoFlags("TEMP", kind, 7) \cup TwoFlags("VOLT", kind, 5) <=>
                  /\ flag[3] = kind
                  /\ (flag[1] = "TEMP" /\ b = 7 - low) \/ (flag[1] = "VOLT" /\ b = 5 - low)
             /\ <<b, flag>> \in TwoFlags("TX_BIAS", kind, 3) \cup TwoFlags("TX_PWR", kind, 1) <=>
                  /\ flag[3] = kind
                  /\ (flag[1] = "TX_BIAS" /\ b = 3 - low) \/ (flag[1] = "TX_PWR" /\ b = 1 - low)
             /\ <<b, flag>> \in TwoFlags("RX_PWR", kind, 7) <=>
                  flag[3] = kind /\ flag[1] = "RX_PWR" /\ b = 7 - low
  BY <1>1 DEF Monitors
<1>5. "ALARM" \in Kinds /\ "WARNING" \in Kinds
  BY DEF Kinds
<1>6. /\ <<b, flag>> \in ShownSfp("channel_status", 110) <=>
              \/ flag[1] = "TXDISABLE" /\ b = 7
              \/ flag[1] = "TXFAULT" /\ b = 2
              \/ flag[1] = "RXLOSS" /\ b = 1
  BY <1>2, <1>3
<1>7. \A addr \in {112, 116} :
              LET kind == IF addr = 112 THEN "ALARM" ELSE "WARNING" IN
              /\ <<b, flag>> \in ShownSfp("module_monitor", addr) <=>
                   /\ flag[3] = kind
                   /\ (flag[1] = "TEMP" /\ b = 7 - low) \/ (flag[1] = "VOLT" /\ b = 5 - low)
              /\ <<b, flag>> \in ShownSfp("channel_monitor", addr) <=>
                   /\ flag[3] = kind
                   /\ (flag[1] = "TX_BIAS" /\ b = 3 - low) \/ (flag[1] = "TX_PWR" /\ b = 1 - low)
  BY <1>2, <1>4, <1>5
<1>8. \A addr \in {113, 117} :
              <<b, flag>> \in ShownSfp("channel_monitor", addr) <=>
                /\ flag[3] = IF addr = 113 THEN "ALARM" ELSE "WARNING"
                /\ flag[1] = "RX_PWR" /\ b = 7 - low
  BY <1>2, <1>4, <1>5
<1> QED BY <1>6, <1>7, <1>8 DEF low

\* The address of a byte tells the getter that reads it.
LEMMA GetterOfAddress ==
  ASSUME NEW op \in Getters, NEW ch \in Nat, NEW addr
  PROVE  /\ addr \in Elements(Reads(op, "qsfp", ch)) =>
              /\ addr \in {6, 7} => op = "module_monitor"
              /\ addr \in {9, 11} => op = "channel_monitor" /\ ch \in {0, 1}
              /\ addr \in {10, 12} => op = "channel_monitor" /\ ch \in {2, 3}
              /\ addr \in {86, 4, 3} => op = "channel_status"
              /\ addr \in {0, 3, 4, 6, 7, 9, 10, 11, 12, 86}
         /\ addr \in Elements(Reads(op, "sfp", ch)) =>
              /\ op = "module_monitor" => addr \in {112, 116}
              /\ op = "channel_monitor" => addr \in {112, 113, 116, 117}
              /\ op = "channel_status" => addr = 110
<1>1. ch \notin {0, 1} /\ ch \notin {2, 3} => ch \notin QsfpChannels
  BY DEF QsfpChannels
<1>2. CASE op = "module_monitor"
  BY <1>2, AddressesRead
<1>3. CASE op = "channel_monitor"
  BY <1>1, <1>3, AddressesRead
<1>4. CASE op = "channel_status"
  BY <1>4, AddressesRead
<1> QED BY <1>2, <1>3, <1>4 DEF Getters

\* Every flag that a getter can report stands for a bit that the getter
\* reads and makes this flag of.
LEMMA ReportableIsShownQsfp ==
  ASSUME NEW op \in Getters, NEW ch \in Nat, NEW flag \in Reportable(op, "qsfp"),
         OfChannel(op, "qsfp", ch) \in QsfpChannels
  PROVE  \E addr \in Elements(Reads(op, "qsfp", ch)), b \in 0 .. 7 :
           /\ WhereQsfp(flag, OfChannel(op, "qsfp", ch)) = <<addr, b>>
           /\ <<b, flag>> \in ShownQsfp(ch, addr)
<1> DEFINE of == OfChannel(op, "qsfp", ch)
           level == LevelBit(flag[2], flag[3])
<1>0. flag \in Flags
  BY DEF Reportable
<1>1. CASE op = "module_monitor"
  <2>1. flag[1] \in {"TEMP", "VOLT"}
    BY <1>1 DEF Reportable
  <2>2. level \in 0 .. 7
    BY <1>0, <2>1, FlagParts, LevelBitInjective DEF Monitors
  <2>3. 6 \in Elements(Reads(op, "qsfp", ch)) /\ 7 \in Elements(Reads(op, "qsfp", ch))
    BY <1>1, AddressesRead
  <2>4. CASE flag[1] = "TEMP"
    <3>1. WhereQsfp(flag, of) = <<6, level>> /\ <<level, flag>> \in ShownQsfp(ch, 6)
      BY <1>0, <2>4, QsfpPlaces, QsfpShown
    <3> QED BY <2>2, <2>3, <3>1
  <2>5. CASE flag[1] = "VOLT"
    <3>1. WhereQsfp(flag, of) = <<7, level>> /\ <<level, flag>> \in ShownQsfp(ch, 7)
      BY <1>0, <2>5, QsfpPlaces, QsfpShown
    <3> QED BY <2>2, <2>3, <3>1
  <2> QED BY <2>1, <2>4, <2>5
<1>2. CASE op = "channel_monitor"
  <2>0. of = ch /\ ch \in QsfpChannels
    BY <1>2 DEF OfChannel
  <2>1. flag[1] \in {"RX_PWR", "TX_BIAS"}
    BY <1>2 DEF Reportable
  <2>2. level - Half(ch) \in 0 .. 7
    <3>1. level \in 4 .. 7
      BY <1>0, <2>1, FlagParts, LevelBitInjective DEF Monitors
    <3>2. Half(ch) \in {0, 4}
      BY DEF Half
    <3> HIDE DEF level
    <3> QED BY <3>1, <3>2
  <2>3. IF ch < 2 THEN Elements(Reads(op, "qsfp", ch)) = {9, 11}
                  ELSE Elements(Reads(op, "qsfp", ch)) = {10, 12}
    BY <1>2, <2>0, Halves, AddressesRead
  <2>4. CASE flag[1] = "RX_PWR"
    <3> DEFINE addr == IF ch < 2 THEN 9 ELSE 10
    <3>1. WhereQsfp(flag, of) = <<addr, level - Half(ch)>>
      BY <1>0, <2>0, <2>4, QsfpPlaces
    <3>2. <<level - Half(ch), flag>> \in ShownQsfp(ch, addr)
      BY <1>0, <2>4, QsfpShown
    <3>3. addr \in Elements(Reads(op, "qsfp", ch))
      BY <2>3
    <3> QED BY <2>2, <3>1, <3>2, <3>3
  <2>5. CASE flag[1] = "TX_BIAS"
    <3> DEFINE addr == IF ch < 2 THEN 11 ELSE 12
    <3>1. WhereQsfp(flag, of) = <<addr, level - Half(ch)>>
      BY <1>0, <2>0, <2>5, QsfpPlaces
    <3>2. <<level - Half(ch), flag>> \in ShownQsfp(ch, addr)
      BY <1>0, <2>5, QsfpShown
    <3>3. addr \in Elements(Reads(op, "qsfp", ch))
      BY <2>3
    <3> QED BY <2>2, <3>1, <3>2, <3>3
  <2> QED BY <2>1, <2>4, <2>5
<1>3. CASE op = "channel_status"
  <2>0. of = ch /\ ch \in QsfpChannels
    BY <1>3 DEF OfChannel
  <2>1. flag[1] \in {"TXDISABLE", "TXFAULT", "TXLOSS", "RXLOSS"}
    BY <1>3 DEF Reportable, States
  <2>2. ch \in 0 .. 7 /\ ch + 4 \in 0 .. 7
    BY <2>0 DEF QsfpChannels
  <2>3. Elements(Reads(op, "qsfp", ch)) = {86, 4, 3}
    BY <1>3, AddressesRead
  <2>4. CASE flag[1] = "TXDISABLE"
    <3>1. WhereQsfp(flag, of) = <<86, ch>> /\ <<ch, flag>> \in ShownQsfp(ch, 86)
      BY <1>0, <2>0, <2>4, QsfpPlaces, QsfpShown
    <3> QED BY <2>2, <2>3, <3>1
  <2>5. CASE flag[1] = "TXFAULT"
    <3>1. WhereQsfp(flag, of) = <<4, ch>> /\ <<ch, flag>> \in ShownQsfp(ch, 4)
      BY <1>0, <2>0, <2>5, QsfpPlaces, QsfpShown
    <3> QED BY <2>2, <2>3, <3>1
  <2>6. CASE flag[1] = "TXLOSS"
    <3>1. WhereQsfp(flag, of) = <<3, ch + 4>> /\ <<ch + 4, flag>> \in ShownQsfp(ch, 3)
      BY <1>0, <2>0, <2>6, QsfpPlaces, QsfpShown
    <3> QED BY <2>2, <2>3, <3>1
  <2>7. CASE flag[1] = "RXLOSS"
    <3>1. WhereQsfp(flag, of) = <<3, ch>> /\ <<ch, flag>> \in ShownQsfp(ch, 3)
      BY <1>0, <2>0, <2>7, QsfpPlaces, QsfpShown
    <3> QED BY <2>2, <2>3, <3>1
  <2> QED BY <2>1, <2>4, <2>5, <2>6, <2>7
<1> QED BY <1>1, <1>2, <1>3 DEF Getters

LEMMA ReportableIsShownSfp ==
  ASSUME NEW op \in Getters, NEW ch \in Nat, NEW flag \in Reportable(op, "sfp")
  PROVE  \E addr \in Elements(Reads(op, "sfp", ch)), b \in 0 .. 7 :
           /\ WhereSfp(flag) = <<addr, b>>
           /\ <<b, flag>> \in ShownSfp(op, addr)
<1> DEFINE low == IF flag[2] = "HIGH" THEN 0 ELSE 1
           alarm == flag[3] = "ALARM"
           level == IF alarm THEN 112 ELSE 116
<1>0. flag \in Flags
  BY DEF Reportable
<1>1. low \in {0, 1} /\ 7 - low \in 0 .. 7 /\ 5 - low \in 0 .. 7 /\ 3 - low \in 0 .. 7 /\ 1 - low \in 0 .. 7
  OBVIOUS
<1>2. flag[1] \in Monitors => flag[3] = IF alarm THEN "ALARM" ELSE "WARNING"
  BY <1>0, FlagParts DEF Kinds
<1>3. CASE op = "module_monitor"
  <2>1. flag[1] \in {"TEMP", "VOLT"}
    BY <1>3 DEF Reportable
  <2>2. level \in Elements(Reads(op, "sfp", ch))
    BY <1>3, AddressesRead
  <2>3. CASE flag[1] = "TEMP"
    <3>1. WhereSfp(flag) = <<level, 7 - low>>
      BY <1>0, <2>3, SfpPlaces
    <3>2. <<7 - low, flag>> \in ShownSfp(op, level)
      BY <1>0, <1>2, <1>3, <2>3, SfpShown DEF Monitors
    <3> QED BY <1>1, <2>2, <3>1, <3>2
  <2>4. CASE flag[1] = "VOLT"
    <3>1. WhereSfp(flag) = <<level, 5 - low>>
      BY <1>0, <2>4, SfpPlaces
    <3>2. <<5 - low, flag>> \in ShownSfp(op, level)
      BY <1>0, <1>2, <1>3, <2>4, SfpShown DEF Monitors
    <3> QED BY <1>1, <2>2, <3>1, <3>2
  <2> QED BY <2>1, <2>3, <2>4
<1>4. CASE op = "channel_monitor"
  <2>1. flag[1] \in {"RX_PWR", "TX_BIAS", "TX_PWR"}
    BY <1>4 DEF Reportable
  <2>2. Elements(Reads(op, "sfp", ch)) = {112, 113, 116, 117}
    BY <1>4, AddressesRead
  <2>3. CASE flag[1] = "TX_BIAS"
    <3>1. WhereSfp(flag) = <<level, 3 - low>>
      BY <1>0, <2>3, SfpPlaces
    <3>2. <<3 - low, flag>> \in ShownSfp(op, level)
      BY <1>0, <1>2, <1>4, <2>3, SfpShown DEF Monitors
    <3> QED BY <1>1, <2>2, <3>1, <3>2
  <2>4. CASE flag[1] = "TX_PWR"
    <3>1. WhereSfp(flag) = <<level, 1 - low>>
      BY <1>0, <2>4, SfpPlaces
    <3>2. <<1 - low, flag>> \in ShownSfp(op, level)
      BY <1>0, <1>2, <1>4, <2>4, SfpShown DEF Monitors
    <3> QED BY <1>1, <2>2, <3>1, <3>2
  <2>5. CASE flag[1] = "RX_PWR"
    <3> DEFINE addr == IF alarm THEN 113 ELSE 117
    <3>1. WhereSfp(flag) = <<addr, 7 - low>>
      BY <1>0, <2>5, SfpPlaces
    <3>2. <<7 - low, flag>> \in ShownSfp(op, addr)
      BY <1>0, <1>2, <1>4, <2>5, SfpShown DEF Monitors
    <3> QED BY <1>1, <2>2, <3>1, <3>2
  <2> QED BY <2>1, <2>3, <2>4, <2>5
<1>5. CASE op = "channel_status"
  <2>1. flag[1] \in {"TXDISABLE", "TXFAULT", "RXLOSS"}
    BY <1>5 DEF Reportable, States
  <2>2. 110 \in Elements(Reads(op, "sfp", ch))
    BY <1>5, AddressesRead
  <2>3. CASE flag[1] = "TXDISABLE"
    <3>1. WhereSfp(flag) = <<110, 7>> /\ <<7, flag>> \in ShownSfp(op, 110)
      BY <1>0, <1>5, <2>3, SfpPlaces, SfpShown
    <3> QED BY <2>2, <3>1
  <2>4. CASE flag[1] = "TXFAULT"
    <3>1. WhereSfp(flag) = <<110, 2>> /\ <<2, flag>> \in ShownSfp(op, 110)
      BY <1>0, <1>5, <2>4, SfpPlaces, SfpShown
    <3> QED BY <2>2, <3>1
  <2>5. CASE flag[1] = "RXLOSS"
    <3>1. WhereSfp(flag) = <<110, 1>> /\ <<1, flag>> \in ShownSfp(op, 110)
      BY <1>0, <1>5, <2>5, SfpPlaces, SfpShown
    <3> QED BY <2>2, <3>1
  <2> QED BY <2>1, <2>3, <2>4, <2>5
<1> QED BY <1>3, <1>4, <1>5 DEF Getters

\* A bit makes no other flag than the one of the condition it shows.
LEMMA ShownIsOfConditionQsfp ==
  ASSUME NEW op \in Getters, NEW ch \in Nat, NEW flag \in Flags,
         NEW shown \in Flags, NEW of \in QsfpChannels,
         shown[1] \in {"TEMP", "VOLT"} => of = 0,
         NEW addr \in Elements(Reads(op, "qsfp", ch)), NEW b,
         <<b, flag>> \in ShownQsfp(ch, addr), WhereQsfp(shown, of) = <<addr, b>>
  PROVE  shown = flag /\ of = OfChannel(op, "qsfp", ch)
<1> DEFINE level == LevelBit(flag[2], flag[3])
           there == LevelBit(shown[2], shown[3])
<1>0. ASSUME flag[1] = shown[1], flag[1] \in Monitors, level = there PROVE shown = flag
  BY <1>0, FlagParts, LevelBitInjective
<1>1. ASSUME flag[1] = shown[1], flag[1] \in States PROVE shown = flag
  BY <1>1, FlagParts
<1>2. flag[1] \in Monitors => level \in 4 .. 7
  BY FlagParts, LevelBitInjective
<1>3. shown[1] \in Monitors => there \in 4 .. 7
  BY FlagParts, LevelBitInjective
<1>4. shown[1] \in {"TEMP", "VOLT", "RX_PWR", "TX_BIAS", "TX_PWR",
                    "TXDISABLE", "TXFAULT", "TXLOSS", "RXLOSS"}
  BY FlagParts DEF Monitors, States
<1>5. CASE shown[1] \in {"TEMP", "VOLT"}
  <2>1. addr = (IF shown[1] = "TEMP" THEN 6 ELSE 7) /\ b = there
    BY <1>5, QsfpPlaces
  <2>2. flag[1] = shown[1] /\ level = there
    BY <1>5, <2>1, QsfpShown
  <2>3. op = "module_monitor"
    BY <2>1, GetterOfAddress
  <2> QED BY <1>0, <1>5, <2>2, <2>3 DEF OfChannel, Monitors
<1>6. CASE shown[1] = "RX_PWR"
  <2>1. addr = (IF of < 2 THEN 9 ELSE 10) /\ b = there - Half(of)
    BY <1>6, QsfpPlaces
  <2>2. flag[1] = "RX_PWR" /\ b = level - Half(ch)
    BY <2>1, QsfpShown
  <2>3. op = "channel_monitor" /\ ch \in (IF of < 2 THEN {0, 1} ELSE {2, 3})
    BY <2>1, GetterOfAddress
  <2>4. level \in 4 .. 7 /\ there \in 4 .. 7
    BY <1>2, <1>3, <1>6, <2>2 DEF Monitors
  <2> HIDE DEF level, there
  <2>5. Half(ch) = Half(of) /\ level = there
    BY <2>1, <2>2, <2>4 DEF Half
  <2>6. of = ch
    BY <2>3, <2>5, Halves DEF Half
  <2> QED BY <1>0, <1>6, <2>2, <2>3, <2>5, <2>6 DEF OfChannel, Monitors, level, there
<1>7. CASE shown[1] = "TX_BIAS"
  <2>1. addr = (IF of < 2 THEN 11 ELSE 12) /\ b = there - Half(of)
    BY <1>7, QsfpPlaces
  <2>2. flag[1] = "TX_BIAS" /\ b = level - Half(ch)
    BY <2>1, QsfpShown
  <2>3. op = "channel_monitor" /\ ch \in (IF of < 2 THEN {0, 1} ELSE {2, 3})
    BY <2>1, GetterOfAddress
  <2>4. level \in 4 .. 7 /\ there \in 4 .. 7
    BY <1>2, <1>3, <1>7, <2>2 DEF Monitors
  <2> HIDE DEF level, there
  <2>5. Half(ch) = Half(of) /\ level = there
    BY <2>1, <2>2, <2>4 DEF Half
  <2>6. of = ch
    BY <2>3, <2>5, Halves DEF Half
  <2> QED BY <1>0, <1>7, <2>2, <2>3, <2>5, <2>6 DEF OfChannel, Monitors, level, there
<1>8. CASE shown[1] = "TX_PWR"
  BY <1>8, QsfpPlaces
<1>9. CASE shown[1] \in States
  <2>1. \/ shown[1] = "TXDISABLE" /\ addr = 86 /\ b = of
        \/ shown[1] = "TXFAULT" /\ addr = 4 /\ b = of
        \/ shown[1] = "TXLOSS" /\ addr = 3 /\ b = of + 4
        \/ shown[1] = "RXLOSS" /\ addr = 3 /\ b = of
    BY <1>9, QsfpPlaces DEF States
  <2>2. op = "channel_status"
    BY <2>1, GetterOfAddress
  <2>3. ch \in {0, 1, 2, 3} /\ of \in {0, 1, 2, 3}
    BY <2>1, QsfpShown, Halves
  <2>4. flag[1] = shown[1] /\ ch = of
    BY <2>1, <2>3, QsfpShown
  <2> QED BY <1>1, <1>9, <2>2, <2>4 DEF OfChannel
<1> QED BY <1>4, <1>5, <1>6, <1>7, <1>8, <1>9 DEF States

LEMMA ShownIsOfConditionSfp ==
  ASSUME NEW op \in Getters, NEW ch \in Nat, NEW flag \in Flags, NEW shown \in Flags,
         NEW addr \in Elements(Reads(op, "sfp", ch)), NEW b,
         <<b, flag>> \in ShownSfp(op, addr), WhereSfp(shown) = <<addr, b>>
  PROVE  shown = flag
<1> DEFINE low(f) == IF f[2] = "HIGH" THEN 0 ELSE 1
           alarm(f) == f[3] = "ALARM"
           level(f) == IF alarm(f) THEN 112 ELSE 116
<1>0. ASSUME flag[1] = shown[1], flag[1] \in Monitors, flag[3] = shown[3], low(flag) = low(shown)
      PROVE  shown = flag
  <2>1. flag[2] \in {"HIGH", "LOW"} /\ shown[2] \in {"HIGH", "LOW"}
    BY <1>0, FlagParts DEF Sides
  <2>2. flag[2] = shown[2]
    BY <1>0, <2>1
  <2> QED BY <1>0, <2>2, FlagParts
<1>1. ASSUME flag[1] = shown[1], flag[1] \in States PROVE shown = flag
  BY <1>1, FlagParts
<1>2. low(flag) \in {0, 1} /\ low(shown) \in {0, 1}
  OBVIOUS
<1>3. shown[1] \in Monitors => shown[3] = IF alarm(shown) THEN "ALARM" ELSE "WARNING"
  BY FlagParts DEF Kinds
<1>4. CASE shown[1] \in {"TEMP", "VOLT", "TX_BIAS", "TX_PWR"}
  <2> DEFINE high == IF shown[1] = "TEMP" THEN 7 ELSE IF shown[1] = "VOLT" THEN 5
                     ELSE IF shown[1] = "TX_BIAS" THEN 3 ELSE 1
  <2>1. addr = level(shown) /\ b = high - low(shown)
    BY <1>4, SfpPlaces
  <2>2. op \in {"module_monitor", "channel_monitor"}
    BY <2>1, GetterOfAddress DEF Getters
  <2>3. /\ flag[3] = shown[3]
        /\ \/ flag[1] = "TEMP" /\ b = 7 - low(flag)
           \/ flag[1] = "VOLT" /\ b = 5 - low(flag)
           \/ flag[1] = "TX_BIAS" /\ b = 3 - low(flag)
           \/ flag[1] = "TX_PWR" /\ b = 1 - low(flag)
    BY <1>3, <1>4, <2>1, <2>2, SfpShown DEF Monitors
  <2> HIDE DEF low
  <2>4. flag[1] = shown[1] /\ low(flag) = low(shown)
    BY <1>2, <1>4, <2>1, <2>3
  <2> QED BY <1>0, <1>4, <2>3, <2>4 DEF Monitors
<1>5. CASE shown[1] = "RX_PWR"
  <2>1. addr = (IF alarm(shown) THEN 113 ELSE 117) /\ b = 7 - low(shown)
    BY <1>5, SfpPlaces
  <2>2. op = "channel_monitor"
    BY <2>1, GetterOfAddress DEF Getters
  <2>3. flag[3] = shown[3] /\ flag[1] = "RX_PWR" /\ b = 7 - low(flag)
    BY <1>3, <1>5, <2>1, <2>2, SfpShown DEF Monitors
  <2> HIDE DEF low
  <2>4. low(flag) = low(shown)
    BY <1>2, <2>1, <2>3
  <2> QED BY <1>0, <1>5, <2>3, <2>4 DEF Monitors
<1>6. CASE shown[1] \in States
  <2>1. \/ shown[1] = "TXDISABLE" /\ addr = 110 /\ b = 7
        \/ shown[1] = "TXFAULT" /\ addr = 110 /\ b = 2
        \/ shown[1] = "RXLOSS" /\ addr = 110 /\ b = 1
    BY <1>6, SfpPlaces DEF States
  <2>2. op = "channel_status"
    BY <2>1, GetterOfAddress DEF Getters
  <2>3. flag[1] = shown[1]
    BY <2>1, <2>2, SfpShown
  <2> QED BY <1>1, <1>6, <2>3
<1> QED BY <1>4, <1>5, <1>6, FlagParts DEF Monitors

\* Both types of module in one: a bit that a getter reads and makes a flag of
\* shows the condition that the flag stands for ...
LEMMA ShownIsOfCondition ==
  ASSUME NEW op \in Getters, NEW type \in {"qsfp", "sfp"}, NEW ch \in Nat,
         NEW flag \in Flags, NEW condition \in Conditions,
         NEW addr \in Elements(Reads(op, type, ch)), NEW b,
         <<b, flag>> \in Shown(op, type, ch, addr), Where(type, condition) = <<addr, b>>
  PROVE  condition = <<flag, OfChannel(op, type, ch)>>
<1> DEFINE shown == condition[1]
           of == condition[2]
<1>1. /\ condition = <<shown, of>> /\ shown \in Flags /\ of \in QsfpChannels
      /\ shown[1] \in {"TEMP", "VOLT"} => of = 0
  BY MediaStatusAssumption DEF AllConditions
<1>2. CASE type = "qsfp"
  <2>1. <<b, flag>> \in ShownQsfp(ch, addr)
    BY <1>2 DEF Shown
  <2>2. WhereQsfp(shown, of) = <<addr, b>>
    BY <1>2 DEF Where
  <2>3. shown = flag /\ of = OfChannel(op, "qsfp", ch)
    BY <1>1, <1>2, <2>1, <2>2, ShownIsOfConditionQsfp
  <2> QED BY <1>1, <1>2, <2>3
<1>3. CASE type = "sfp"
  <2>1. <<b, flag>> \in ShownSfp(op, addr)
    BY <1>3 DEF Shown
  <2>2. of = 0
    BY <1>3 DEF Where
  <2>3. WhereSfp(shown) = <<addr, b>>
    BY <1>3, <2>2 DEF Where
  <2>4. shown = flag
    BY <1>1, <1>3, <2>1, <2>3, ShownIsOfConditionSfp
  <2> QED BY <1>1, <1>3, <2>2, <2>4 DEF OfChannel
<1> QED BY <1>2, <1>3

\* ... and every flag that it can report has such a bit.
LEMMA ReportableIsShown ==
  ASSUME NEW op \in Getters, NEW type \in {"qsfp", "sfp"}, NEW ch \in Nat,
         NEW flag \in Reportable(op, type), <<flag, OfChannel(op, type, ch)>> \in Conditions
  PROVE  \E addr \in Elements(Reads(op, type, ch)), b \in 0 .. 7 :
           /\ Where(type, <<flag, OfChannel(op, type, ch)>>) = <<addr, b>>
           /\ <<b, flag>> \in Shown(op, type, ch, addr)
<1>1. OfChannel(op, type, ch) \in QsfpChannels
  BY MediaStatusAssumption DEF AllConditions
<1>2. CASE type = "qsfp"
  BY <1>1, <1>2, ReportableIsShownQsfp DEF Where, Shown
<1>3. CASE type = "sfp"
  BY <1>3, ReportableIsShownSfp DEF Where, Shown, OfChannel
<1> QED BY <1>2, <1>3

\* A shown bit is a pair of a bit and a flag.
LEMMA ShownArePairs ==
  ASSUME NEW op \in Getters, NEW type \in {"qsfp", "sfp"}, NEW ch \in Nat,
         NEW addr \in Elements(Reads(op, type, ch)), NEW s \in Shown(op, type, ch, addr)
  PROVE  s = <<s[1], s[2]>>
<1>1. \A what, shift : \A u \in FourFlags(what, shift) : u = <<u[1], u[2]>>
  BY DEF FourFlags
<1>2. \A what, kind, high : \A u \in TwoFlags(what, kind, high) : u = <<u[1], u[2]>>
  BY DEF TwoFlags
<1>3. \A bit, what : \A u \in State(bit, what) : u = <<u[1], u[2]>>
  BY DEF State
<1>4. CASE type = "qsfp"
  <2>1. s \in ShownQsfp(ch, addr)
    BY <1>4 DEF Shown
  <2> QED BY <1>1, <1>3, <2>1 DEF ShownQsfp
<1>5. CASE type = "sfp"
  <2>1. s \in ShownSfp(op, addr)
    BY <1>5 DEF Shown
  <2>2. /\ op = "module_monitor" => addr \in {112, 116}
        /\ op = "channel_monitor" => addr \in {112, 113, 116, 117}
        /\ op = "channel_status" => addr = 110
    BY <1>5, GetterOfAddress
  <2> QED BY <1>2, <1>3, <2>1, <2>2 DEF ShownSfp, Getters
<1> QED BY <1>4, <1>5

-----------------------------------------------------------------------------
(* MediaStatus: the inductive invariant. *)

\* A getter in progress is of a media resource.
GettersOfModules ==
  \A c \in Callers : pc[c] \in {"identify", "read"} => Mod(c) \in Modules

\* Nothing is added before the first read.
NothingAddedYet == \A c \in Callers : pc[c] = "identify" => status[c] = before[c]

\* What is still to be read are bytes that the getter reads of this type.
ReadsAreOfCall ==
  \A c \in Callers : pc[c] = "read" =>
    /\ id[c] \in {"qsfp", "sfp"}
    /\ Elements(reads[c]) \subseteq Elements(Reads(call[c].op, id[c], call[c].channel))

\* The history of a getter agrees with its module, and the module with the
\* type that was identified, as long as it is the same one.
HistoryKept ==
  \A c \in Callers : pc[c] \in {"identify", "read"} /\ c \notin swapped =>
    /\ always[c] \subseteq module[Mod(c)].on
    /\ module[Mod(c)].on \subseteq ever[c]
    /\ pc[c] = "read" => module[Mod(c)].type = id[c]

\* What AddedFlagsHeld says, from the first read on.
AddedHeld ==
  \A c \in Callers : pc[c] \in {"read", "done"} /\ c \notin swapped =>
    \A flag \in status[c] \ before[c] :
      flag \in call[c].flags /\ ConditionOf(c, flag) \in ever[c]

\* What LastingConditionsReported says of the bytes that were read.
LastingAreSeen ==
  \A c \in Callers :
    (pc[c] = "read" \/ (pc[c] = "done" /\ rc[c] = "ok")) /\ c \notin swapped =>
      \A flag \in call[c].flags \cap Reportable(call[c].op, id[c]) :
        ConditionOf(c, flag) \in always[c] =>
          flag \in status[c] \/ Where(id[c], ConditionOf(c, flag))[1] \in Elements(reads[c])

StatusInv == /\ StatusTyped /\ GettersOfModules /\ NothingAddedYet /\ ReadsAreOfCall
             /\ HistoryKept /\ AddedHeld /\ LastingAreSeen

-----------------------------------------------------------------------------
\* The fields of a getter's request.
LEMMA GetterType ==
  ASSUME NEW r \in GetterRequests \cup {NoGetter}
  PROVE  /\ r.op \in Getters /\ r.module \in Modules \cup {NotMedia}
         /\ r.channel \in Nat /\ r.flags \in SUBSET Flags
<1>1. CASE r \in GetterRequests
  BY <1>1, MediaCallsAssumption, MediaStatusAssumption DEF GetterRequests
<1>2. CASE r = NoGetter
  BY <1>2 DEF NoGetter, Getters
<1> QED BY <1>1, <1>2

\* The addresses left after a read.
LEMMA TailOfReads ==
  ASSUME NEW s \in Seq(Nat), s # <<>>
  PROVE  /\ Head(s) \in Elements(s)
         /\ Tail(s) \in Seq(Nat)
         /\ Len(s) = 1 <=> Tail(s) = <<>>
         /\ Elements(Tail(s)) \subseteq Elements(s)
         /\ \A a \in Elements(s) : a = Head(s) \/ a \in Elements(Tail(s))
<1>1. Len(s) \in Nat /\ Len(s) # 0 /\ Len(Tail(s)) = Len(s) - 1 /\ Tail(s) \in Seq(Nat)
  OBVIOUS
<1>2. \A i \in 1 .. Len(Tail(s)) : Tail(s)[i] = s[i + 1] /\ i + 1 \in 1 .. Len(s)
  BY <1>1
<1>3. Head(s) = s[1]
  OBVIOUS
<1>4. ASSUME NEW i \in 1 .. Len(s) PROVE s[i] = Head(s) \/ s[i] \in Elements(Tail(s))
  <2>1. CASE i = 1
    BY <1>3, <2>1
  <2>2. CASE i # 1
    <3>1. i - 1 \in 1 .. Len(Tail(s)) /\ (i - 1) + 1 = i
      BY <1>1, <2>2
    <3>2. Tail(s)[i - 1] = s[i]
      BY <1>2, <3>1
    <3> QED BY <3>1, <3>2 DEF Elements
  <2> QED BY <2>1, <2>2
<1>5. Elements(Tail(s)) \subseteq Elements(s)
  BY <1>2 DEF Elements
<1>6. Head(s) \in Elements(s)
  BY <1>1, <1>3 DEF Elements
<1>7. Len(s) = 1 <=> Tail(s) = <<>>
  <2>1. \A t \in Seq(Nat) : t # <<>> => Len(t) # 0
    OBVIOUS
  <2>2. Tail(s) # <<>> => Len(Tail(s)) # 0
    BY <1>1, <2>1
  <2>3. ASSUME Tail(s) = <<>> PROVE Len(s) = 1
    <3>1. Len(<<>>) = 0
      OBVIOUS
    <3>2. Len(Tail(s)) = 0
      BY <2>3, <3>1, Zenon
    <3>3. Len(s) \in Nat /\ Len(s) - 1 = 0
      BY <1>1, <3>2, Zenon
    <3> QED BY <3>3
  <2> QED BY <1>1, <2>2, <2>3
<1>8. \A a \in Elements(s) : a = Head(s) \/ a \in Elements(Tail(s))
  BY <1>4 DEF Elements
<1> QED BY <1>1, <1>5, <1>6, <1>7, <1>8

\* The addresses that a getter starts with.
LEMMA ReadsType ==
  ASSUME NEW op \in Getters, NEW type \in {"qsfp", "sfp"}, NEW ch \in Nat
  PROVE  Reads(op, type, ch) \in Seq(Nat) /\ Reads(op, type, ch) # <<>>
<1>1. CASE op = "module_monitor"
  BY <1>1 DEF Reads
<1>2. CASE op = "channel_monitor"
  BY <1>2 DEF Reads
<1>3. CASE op = "channel_status"
  BY <1>3 DEF Reads
<1> QED BY <1>1, <1>2, <1>3 DEF Getters

\* The conditions of a module become another set, which its getters see.
Becomes(m, new) ==
  /\ module' = [module EXCEPT ![m].on = new]
  /\ ever' = [c \in Callers |-> IF c \in Watching(m) THEN ever[c] \cup new ELSE ever[c]]
  /\ always' = [c \in Callers |-> IF c \in Watching(m) THEN always[c] \cap new ELSE always[c]]

LEMMA ChangeBecomes ==
  ASSUME StatusTyped, NEW m \in Modules, Change(m)
  PROVE  \E new \in SUBSET Conditions : Becomes(m, new)
<1> DEFINE toggled(condition) ==
             IF condition \in module[m].on THEN module[m].on \ {condition}
                                           ELSE module[m].on \cup {condition}
<1>1. \A condition \in Conditions : toggled(condition) \in SUBSET Conditions
  BY DEF StatusTyped, NoModule
<1>2. \E condition \in Conditions : Becomes(m, toggled(condition))
  BY Zenon DEF Change, Becomes
<1> HIDE DEF toggled
<1> QED BY <1>1, <1>2

\* Every variable of the getters keeps its type.
LEMMA StatusTypesKept ==
  StatusTyped /\ GettersOfModules /\ ReadsAreOfCall /\ [StatusNext]_statusVars => StatusTyped'
<1> SUFFICES ASSUME StatusTyped, GettersOfModules, ReadsAreOfCall, [StatusNext]_statusVars
             PROVE  StatusTyped'
  OBVIOUS
<1> USE DEF StatusTyped
<1> DEFINE Loaded == [type : Types, on : SUBSET Conditions]
<1>0. \A m \in Modules : module[m].on \in SUBSET Conditions
  BY DEF NoModule
<1>1. ASSUME NEW c \in Callers, NEW r \in GetterRequests, NEW leftover \in Leftovers,
             CallGetter(c, r, leftover)
      PROVE  StatusTyped'
  <2>1. leftover \in SUBSET Flags /\ r.module \in Modules \cup {NotMedia}
    BY MediaStatusAssumption, GetterType
  <2>2. /\ ever' \in [Callers -> SUBSET Conditions]
        /\ always' \in [Callers -> SUBSET Conditions]
    <3>1. CASE r.module = NotMedia
      BY <1>1, <3>1 DEF CallGetter
    <3>2. CASE r.module # NotMedia
      <4>1. module[r.module].on \in SUBSET Conditions
        BY <1>0, <2>1, <3>2
      <4> QED BY <1>1, <3>2, <4>1 DEF CallGetter
    <3> QED BY <3>1, <3>2
  <2>3. /\ pc' \in [Callers -> {"idle", "identify", "read", "done"}]
        /\ rc' \in [Callers -> {"ok", "EPERM", "error"}]
        /\ \A d \in Callers : pc'[d] = "read" <=> reads'[d] # <<>>
    BY <1>1 DEF CallGetter, EndWith, Goto
  <2> QED BY <1>1, <2>1, <2>2, <2>3 DEF CallGetter
<1>2. ASSUME NEW c \in Callers, IdentifyModule(c) PROVE StatusTyped'
  <2>1. pc[c] = "identify" /\ Mod(c) \in Modules
    BY <1>2 DEF IdentifyModule, EndWith, Goto, GettersOfModules
  <2>2. CASE EndWith(c, "identify", "error") /\ UNCHANGED <<id, reads>>
    BY <1>2, <2>2 DEF IdentifyModule, EndWith, Goto
  <2>3. CASE module[Mod(c)] # NoModule /\ id' = [id EXCEPT ![c] = module[Mod(c)].type]
    <3>1. id' \in [Callers -> Types]
      BY <2>1, <2>3
    <3>2. CASE EndWith(c, "identify", "error") /\ UNCHANGED reads
      BY <1>2, <3>1, <3>2 DEF IdentifyModule, EndWith, Goto
    <3>3. CASE /\ id'[c] # "other" /\ Goto(c, "identify", "read") /\ UNCHANGED rc
               /\ reads' = [reads EXCEPT ![c] = Reads(call[c].op, id'[c], call[c].channel)]
      <4>1. id'[c] \in {"qsfp", "sfp"}
        BY <3>1, <3>3 DEF Types
      <4>2. /\ Reads(call[c].op, id'[c], call[c].channel) \in Seq(Nat)
            /\ Reads(call[c].op, id'[c], call[c].channel) # <<>>
        BY <4>1, GetterType, ReadsType
      <4>3. pc' \in [Callers -> {"idle", "identify", "read", "done"}]
        BY <3>3 DEF Goto
      <4>4. /\ reads' \in [Callers -> Seq(Nat)]
            /\ \A d \in Callers : pc'[d] = "read" <=> reads'[d] # <<>>
        BY <3>3, <4>2 DEF Goto
      <4> QED BY <1>2, <3>1, <3>3, <4>3, <4>4 DEF IdentifyModule
    <3> QED BY <1>2, <2>1, <2>3, <3>2, <3>3 DEF IdentifyModule, EndWith, Goto
  <2> QED BY <1>2, <2>2, <2>3 DEF IdentifyModule
<1>3. ASSUME NEW c \in Callers, ReadNext(c) PROVE StatusTyped'
  <2>1. pc[c] = "read" /\ reads[c] \in Seq(Nat) /\ reads[c] # <<>>
    BY <1>3 DEF ReadNext
  <2>2. CASE /\ EndWith(c, "read", "error") /\ reads' = [reads EXCEPT ![c] = <<>>]
             /\ UNCHANGED status
    BY <1>3, <2>2 DEF ReadNext, EndWith, Goto
  <2>3. CASE /\ reads' = [reads EXCEPT ![c] = Tail(@)]
             /\ Goto(c, "read", IF Len(reads[c]) = 1 THEN "done" ELSE "read")
             /\ UNCHANGED rc
             /\ \E set : status' = [status EXCEPT ![c] = @ \cup (set \cap call[c].flags)]
    <3>1. Tail(reads[c]) \in Seq(Nat) /\ (Len(reads[c]) = 1 <=> Tail(reads[c]) = <<>>)
      BY <2>1, TailOfReads
    <3>2. /\ reads' \in [Callers -> Seq(Nat)]
          /\ \A d \in Callers : pc'[d] = "read" <=> reads'[d] # <<>>
          /\ pc' \in [Callers -> {"idle", "identify", "read", "done"}]
      BY <2>3, <3>1 DEF Goto
    <3>3. status' \in [Callers -> SUBSET Flags]
      <4>1. call[c].flags \in SUBSET Flags
        BY GetterType
      <4> QED BY <2>3, <4>1
    <3> QED BY <1>3, <2>3, <3>2, <3>3 DEF ReadNext
  <2> QED BY <1>3, <2>2, <2>3 DEF ReadNext
<1>4. ASSUME NEW c \in Callers, ReturnFlags(c) PROVE StatusTyped'
  BY <1>4 DEF ReturnFlags, Goto, Types
<1>5. ASSUME NEW m \in Modules, Change(m) PROVE StatusTyped'
  <2>1. module[m] \in Loaded
    BY <1>5 DEF Change
  <2>2. PICK new \in SUBSET Conditions : Becomes(m, new)
    BY <1>5, ChangeBecomes
  <2>3. [module[m] EXCEPT !.on = new] \in Loaded
    BY <2>1
  <2>4. module' \in [Modules -> Loaded \cup {NoModule}]
    BY <2>2, <2>3 DEF Becomes
  <2>5. ever' \in [Callers -> SUBSET Conditions] /\ always' \in [Callers -> SUBSET Conditions]
    BY <2>2 DEF Becomes
  <2> QED BY <1>5, <2>4, <2>5 DEF Change
<1>6. ASSUME NEW m \in Modules, Replace(m) PROVE StatusTyped'
  <2>1. Plugged \subseteq Loaded
    BY MediaStatusAssumption DEF Plugged
  <2>2. module' \in [Modules -> Loaded \cup {NoModule}]
    BY <1>6, <2>1 DEF Replace
  <2>3. ever' \in [Callers -> SUBSET Conditions] /\ always' \in [Callers -> SUBSET Conditions]
        /\ swapped' \in SUBSET Callers
    BY <1>6 DEF Replace, Inside
  <2> QED BY <1>6, <2>2, <2>3 DEF Replace
<1>7. CASE UNCHANGED statusVars
  BY <1>7 DEF statusVars
<1> QED BY <1>1, <1>2, <1>3, <1>4, <1>5, <1>6, <1>7 DEF StatusNext

\* The condition of a flag, by the parts of the call.
LEMMA ConditionIs ==
  ASSUME NEW c \in Callers, NEW flag
  PROVE  ConditionOf(c, flag) = <<flag, OfChannel(call[c].op, id[c], call[c].channel)>>
  BY DEF ConditionOf, OfChannel

\* A getter moves through its own call only.
LEMMA GettersKept ==
  StatusInv /\ [StatusNext]_statusVars
    => GettersOfModules' /\ NothingAddedYet' /\ ReadsAreOfCall'
<1> SUFFICES ASSUME StatusInv, [StatusNext]_statusVars
             PROVE  GettersOfModules' /\ NothingAddedYet' /\ ReadsAreOfCall'
  OBVIOUS
<1> USE DEF StatusInv, StatusTyped, GettersOfModules, NothingAddedYet, ReadsAreOfCall, Mod
<1>1. ASSUME NEW c \in Callers, NEW r \in GetterRequests, NEW leftover \in Leftovers,
             CallGetter(c, r, leftover)
      PROVE  GettersOfModules' /\ NothingAddedYet' /\ ReadsAreOfCall'
  <2>1. r.module \in Modules \cup {NotMedia}
    BY GetterType
  <2> QED BY <1>1, <2>1 DEF CallGetter, EndWith, Goto
<1>2. ASSUME NEW c \in Callers, IdentifyModule(c)
      PROVE  GettersOfModules' /\ NothingAddedYet' /\ ReadsAreOfCall'
  <2>1. GettersOfModules' /\ NothingAddedYet'
    BY <1>2 DEF IdentifyModule, EndWith, Goto
  <2>2. ASSUME NEW d \in Callers, d # c, pc'[d] = "read"
        PROVE  UNCHANGED <<pc[d], id[d], reads[d], call[d]>>
    BY <1>2, <2>2 DEF IdentifyModule, EndWith, Goto
  <2>3. ASSUME pc'[c] = "read"
        PROVE  /\ id'[c] \in {"qsfp", "sfp"} /\ call'[c] = call[c]
               /\ reads'[c] = Reads(call[c].op, id'[c], call[c].channel)
    <3>1. module[Mod(c)] # NoModule /\ Mod(c) \in Modules /\ id' = [id EXCEPT ![c] = module[Mod(c)].type]
      BY <1>2, <2>3 DEF IdentifyModule, EndWith, Goto
    <3>2. id'[c] \in Types
      BY <3>1
    <3>3. /\ id'[c] # "other" /\ call' = call
          /\ reads' = [reads EXCEPT ![c] = Reads(call[c].op, id'[c], call[c].channel)]
      BY <1>2, <2>3 DEF IdentifyModule, EndWith, Goto
    <3> QED BY <3>2, <3>3 DEF Types
  <2>4. ReadsAreOfCall'
    BY <2>2, <2>3
  <2> QED BY <2>1, <2>4
<1>3. ASSUME NEW c \in Callers, ReadNext(c)
      PROVE  GettersOfModules' /\ NothingAddedYet' /\ ReadsAreOfCall'
  <2>1. pc[c] = "read" /\ reads[c] \in Seq(Nat) /\ reads[c] # <<>>
    BY <1>3 DEF ReadNext
  <2>2. GettersOfModules' /\ NothingAddedYet'
    BY <1>3 DEF ReadNext, EndWith, Goto
  <2>3. pc'[c] = "read" => reads'[c] = Tail(reads[c])
    BY <1>3 DEF ReadNext, EndWith, Goto
  <2>4. Elements(Tail(reads[c])) \subseteq Elements(reads[c])
    BY <2>1, TailOfReads
  <2>5. \A d \in Callers : d # c => pc'[d] = pc[d] /\ reads'[d] = reads[d]
    BY <1>3 DEF ReadNext, EndWith, Goto
  <2>6. UNCHANGED <<id, call>>
    BY <1>3 DEF ReadNext
  <2>7. ReadsAreOfCall'
    BY <2>1, <2>3, <2>4, <2>5, <2>6
  <2> QED BY <2>2, <2>7
<1>4. ASSUME NEW c \in Callers, ReturnFlags(c)
      PROVE  GettersOfModules' /\ NothingAddedYet' /\ ReadsAreOfCall'
  BY <1>4 DEF ReturnFlags, Goto
<1>5. ASSUME NEW m \in Modules, Change(m) \/ Replace(m)
      PROVE  GettersOfModules' /\ NothingAddedYet' /\ ReadsAreOfCall'
  BY <1>5 DEF Change, Replace
<1>6. CASE UNCHANGED statusVars
  BY <1>6 DEF statusVars
<1> QED BY <1>1, <1>2, <1>3, <1>4, <1>5, <1>6 DEF StatusNext

\* The history follows the module as long as it is not replaced.
LEMMA HistoryStaysKept == StatusInv /\ [StatusNext]_statusVars => HistoryKept'
<1> SUFFICES ASSUME StatusInv, [StatusNext]_statusVars, NEW d \in Callers,
                    pc'[d] \in {"identify", "read"}, d \notin swapped'
             PROVE  /\ always'[d] \subseteq module'[Mod(d)'].on
                    /\ module'[Mod(d)'].on \subseteq ever'[d]
                    /\ pc'[d] = "read" => module'[Mod(d)'].type = id'[d]
  BY DEF HistoryKept
<1> DEFINE Kept == /\ always'[d] \subseteq module'[Mod(d)'].on
                   /\ module'[Mod(d)'].on \subseteq ever'[d]
                   /\ pc'[d] = "read" => module'[Mod(d)'].type = id'[d]
<1> USE DEF StatusInv, StatusTyped, Mod
<1>0. ASSUME pc'[d] = pc[d], call'[d] = call[d], id'[d] = id[d], ever'[d] = ever[d],
             always'[d] = always[d], d \notin swapped, module'[Mod(d)] = module[Mod(d)]
      PROVE  Kept
  BY <1>0 DEF HistoryKept
<1>1. ASSUME NEW c \in Callers, NEW r \in GetterRequests, NEW leftover \in Leftovers,
             CallGetter(c, r, leftover)
      PROVE  Kept
  <2>1. CASE d = c
    <3>1. r.module # NotMedia /\ pc'[d] = "identify"
      BY <1>1, <2>1 DEF CallGetter, EndWith, Goto
    <3> QED BY <1>1, <2>1, <3>1 DEF CallGetter
  <2>2. CASE d # c
    BY <1>0, <1>1, <2>2 DEF CallGetter, EndWith, Goto
  <2> QED BY <2>1, <2>2
<1>2. ASSUME NEW c \in Callers, IdentifyModule(c) PROVE Kept
  <2>1. CASE d = c
    <3>1. pc[c] = "identify" /\ pc'[c] = "read"
      BY <1>2, <2>1 DEF IdentifyModule, EndWith, Goto
    <3>2. id'[c] = module[Mod(c)].type
      BY <1>2, <3>1 DEF IdentifyModule, EndWith, Goto
    <3>3. UNCHANGED <<module, call, ever, always, swapped>>
      BY <1>2 DEF IdentifyModule
    <3> QED BY <2>1, <3>1, <3>2, <3>3 DEF HistoryKept
  <2>2. CASE d # c
    BY <1>0, <1>2, <2>2 DEF IdentifyModule, EndWith, Goto
  <2> QED BY <2>1, <2>2
<1>3. ASSUME NEW c \in Callers, ReadNext(c) PROVE Kept
  BY <1>0, <1>3 DEF ReadNext, EndWith, Goto
<1>4. ASSUME NEW c \in Callers, ReturnFlags(c) PROVE Kept
  BY <1>0, <1>4 DEF ReturnFlags, Goto
<1>5. ASSUME NEW m \in Modules, Change(m) PROVE Kept
  <2>0. UNCHANGED <<pc, call, id, swapped>> /\ Mod(d) \in Modules
    BY <1>5 DEF Change, GettersOfModules
  <2>1. PICK new \in SUBSET Conditions : Becomes(m, new)
    BY <1>5, ChangeBecomes
  <2>2. CASE Mod(d) = m
    <3>1. d \in Watching(m)
      BY <2>0, <2>2 DEF Watching, Inside
    <3>2. module[m] \in [type : Types, on : SUBSET Conditions]
      BY <1>5 DEF Change
    <3>3. module'[m].on = new /\ module'[m].type = module[m].type
      BY <2>1, <3>2 DEF Becomes
    <3> QED BY <2>0, <2>1, <2>2, <3>1, <3>3 DEF HistoryKept, Becomes
  <2>3. CASE Mod(d) # m
    <3>1. d \notin Watching(m) /\ module'[Mod(d)] = module[Mod(d)]
      BY <2>0, <2>1, <2>3 DEF Watching, Inside, Becomes
    <3> QED BY <1>0, <2>0, <2>1, <3>1 DEF Becomes
  <2> QED BY <2>2, <2>3
<1>6. ASSUME NEW m \in Modules, Replace(m) PROVE Kept
  <2>1. UNCHANGED <<pc, call, id>> /\ d \notin swapped /\ d \notin Inside(m) /\ Mod(d) \in Modules
    BY <1>6 DEF Replace, GettersOfModules
  <2>2. Mod(d) # m
    BY <2>1 DEF Inside
  <2> QED BY <1>0, <1>6, <2>1, <2>2 DEF Replace
<1>7. CASE UNCHANGED statusVars
  BY <1>0, <1>7 DEF statusVars
<1> QED BY <1>1, <1>2, <1>3, <1>4, <1>5, <1>6, <1>7 DEF StatusNext

\* The flags in the variable after a read: those of before, and those asked
\* for of a bit that is set and looked at.
LEMMA StatusAfterRead ==
  ASSUME StatusInv, NEW c \in Callers, ReadNext(c), NEW flag \in Flags
  PROVE  \/ rc'[c] = "error" /\ pc'[c] = "done" /\ status'[c] = status[c]
         \/ /\ reads'[c] = Tail(reads[c])
            /\ flag \in status'[c] <=>
                 \/ flag \in status[c]
                 \/ /\ flag \in call[c].flags
                    /\ \E b \in ByteAt(Mod(c), Head(reads[c])) :
                         <<b, flag>> \in Shown(call[c].op, id[c], call[c].channel, Head(reads[c]))
<1> USE DEF StatusInv, StatusTyped
<1> DEFINE addr == Head(reads[c])
           byte == ByteAt(Mod(c), addr)
           shown == Shown(call[c].op, id[c], call[c].channel, addr)
           set == {s[2] : s \in {s \in shown : s[1] \in byte}}
<1>0. pc[c] = "read" /\ reads[c] # <<>>
  BY DEF ReadNext
<1>1. CASE EndWith(c, "read", "error") /\ UNCHANGED status
  BY <1>1 DEF EndWith, Goto
<1>2. CASE /\ status' = [status EXCEPT ![c] = @ \cup (set \cap call[c].flags)]
           /\ reads' = [reads EXCEPT ![c] = Tail(@)]
  <2>1. addr \in Elements(Reads(call[c].op, id[c], call[c].channel))
    BY <1>0, TailOfReads DEF ReadsAreOfCall
  <2>2. \A s \in shown : s = <<s[1], s[2]>>
    BY <1>0, <2>1, GetterType, ShownArePairs DEF ReadsAreOfCall
  <2> HIDE DEF addr, byte, shown
  <2>3. flag \in set <=> \E b \in byte : <<b, flag>> \in shown
    <3>1. ASSUME flag \in set PROVE \E b \in byte : <<b, flag>> \in shown
      <4>1. PICK s \in shown : s[1] \in byte /\ s[2] = flag
        BY <3>1
      <4> QED BY <2>2, <4>1
    <3>2. ASSUME NEW b \in byte, <<b, flag>> \in shown PROVE flag \in set
      <4> DEFINE s == <<b, flag>>
      <4>1. s \in shown /\ s[1] \in byte /\ s[2] = flag
        BY <3>2
      <4> HIDE DEF s
      <4> QED BY <4>1
    <3> QED BY <3>1, <3>2
  <2> HIDE DEF set
  <2>4. status'[c] = status[c] \cup (set \cap call[c].flags) /\ reads'[c] = Tail(reads[c])
    BY <1>2
  <2> QED BY <2>3, <2>4 DEF addr, byte, shown
<1> QED BY <1>1, <1>2 DEF ReadNext

\* What a getter adds is asked for and was there.
LEMMA AddedStaysHeld == StatusInv /\ [StatusNext]_statusVars => AddedHeld'
<1> SUFFICES ASSUME StatusInv, [StatusNext]_statusVars, NEW d \in Callers,
                    pc'[d] \in {"read", "done"}, d \notin swapped',
                    NEW flag \in status'[d] \ before'[d]
             PROVE  flag \in call'[d].flags /\ ConditionOf(d, flag)' \in ever'[d]
  BY DEF AddedHeld
<1> DEFINE Held == flag \in call'[d].flags /\ ConditionOf(d, flag)' \in ever'[d]
<1> USE DEF StatusInv, StatusTyped, Mod
<1>0. ASSUME pc'[d] = pc[d], call'[d] = call[d], id'[d] = id[d], ever[d] \subseteq ever'[d],
             d \notin swapped, status'[d] = status[d], before'[d] = before[d]
      PROVE  Held
  BY <1>0, ConditionIs DEF AddedHeld, ConditionOf
<1>1. ASSUME NEW c \in Callers, NEW r \in GetterRequests, NEW leftover \in Leftovers,
             CallGetter(c, r, leftover)
      PROVE  Held
  <2>1. CASE d = c
    <3>1. status'[c] = before'[c]
      BY <1>1 DEF CallGetter
    <3> QED BY <2>1, <3>1
  <2>2. CASE d # c
    BY <1>0, <1>1, <2>2 DEF CallGetter, EndWith, Goto
  <2> QED BY <2>1, <2>2
<1>2. ASSUME NEW c \in Callers, IdentifyModule(c) PROVE Held
  <2>1. CASE d = c
    <3>1. pc[c] = "identify" /\ UNCHANGED <<status, before>>
      BY <1>2 DEF IdentifyModule, EndWith, Goto
    <3> QED BY <2>1, <3>1 DEF NothingAddedYet
  <2>2. CASE d # c
    BY <1>0, <1>2, <2>2 DEF IdentifyModule, EndWith, Goto
  <2> QED BY <2>1, <2>2
<1>3. ASSUME NEW c \in Callers, ReadNext(c) PROVE Held
  <2>1. UNCHANGED <<module, call, before, id, ever, swapped>> /\ pc[c] = "read"
    BY <1>3 DEF ReadNext
  <2>2. CASE d = c
    <3>1. CASE flag \in status[c]
      BY <2>1, <2>2, <3>1 DEF AddedHeld, ConditionOf
    <3>2. CASE flag \notin status[c]
      <4> DEFINE addr == Head(reads[c])
                 op == call[c].op
                 ch == call[c].channel
      <4>0. status'[c] \in SUBSET Flags
        BY <2>1, StatusTypesKept
      <4>1. flag \in Flags
        BY <2>2, <4>0
      <4>2. PICK b \in ByteAt(Mod(c), addr) : <<b, flag>> \in Shown(op, id[c], ch, addr)
        BY <1>3, <2>2, <3>2, <4>1, StatusAfterRead
      <4>3. flag \in call[c].flags
        BY <1>3, <2>2, <3>2, <4>1, StatusAfterRead
      <4>4. /\ module[Mod(c)].type = id[c] /\ module[Mod(c)].on \subseteq ever[c]
            /\ id[c] \in {"qsfp", "sfp"} /\ Mod(c) \in Modules
        BY <2>1, <2>2 DEF HistoryKept, ReadsAreOfCall, GettersOfModules
      <4>5. PICK condition \in module[Mod(c)].on : Where(id[c], condition) = <<addr, b>>
        BY <4>4 DEF ByteAt
      <4>6. addr \in Elements(Reads(op, id[c], ch))
        BY <2>1, TailOfReads DEF ReadsAreOfCall
      <4>7. op \in Getters /\ ch \in Nat
        BY GetterType
      <4>8. condition \in Conditions
        BY <4>4, <4>5 DEF NoModule
      <4>9. condition = <<flag, OfChannel(op, id[c], ch)>>
        BY <4>1, <4>2, <4>4, <4>5, <4>6, <4>7, <4>8, ShownIsOfCondition
      <4>10. ConditionOf(c, flag) \in ever[c]
        BY <4>4, <4>5, <4>9, ConditionIs
      <4> QED BY <2>1, <2>2, <4>3, <4>10 DEF ConditionOf
    <3> QED BY <3>1, <3>2
  <2>3. CASE d # c
    BY <1>0, <1>3, <2>1, <2>3 DEF ReadNext, EndWith, Goto
  <2> QED BY <2>2, <2>3
<1>4. ASSUME NEW c \in Callers, ReturnFlags(c) PROVE Held
  BY <1>0, <1>4 DEF ReturnFlags, Goto
<1>5. ASSUME NEW m \in Modules, Change(m) PROVE Held
  <2>1. PICK new \in SUBSET Conditions : Becomes(m, new)
    BY <1>5, ChangeBecomes
  <2> QED BY <1>0, <1>5, <2>1 DEF Change, Becomes
<1>6. ASSUME NEW m \in Modules, Replace(m) PROVE Held
  <2>1. d \notin Inside(m) /\ d \notin swapped
    BY <1>6 DEF Replace
  <2> QED BY <1>0, <1>6, <2>1 DEF Replace
<1>7. CASE UNCHANGED statusVars
  BY <1>0, <1>7 DEF statusVars
<1> QED BY <1>1, <1>2, <1>3, <1>4, <1>5, <1>6, <1>7 DEF StatusNext

\* A condition that lasts is in the variable, or its byte is still to be read.
LEMMA LastingStaySeen == StatusInv /\ [StatusNext]_statusVars => LastingAreSeen'
<1> SUFFICES ASSUME StatusInv, [StatusNext]_statusVars, NEW d \in Callers,
                    pc'[d] = "read" \/ (pc'[d] = "done" /\ rc'[d] = "ok"), d \notin swapped',
                    NEW flag \in call'[d].flags \cap Reportable(call'[d].op, id'[d]),
                    ConditionOf(d, flag)' \in always'[d]
             PROVE  flag \in status'[d]
                      \/ Where(id'[d], ConditionOf(d, flag)')[1] \in Elements(reads'[d])
  BY DEF LastingAreSeen
<1> DEFINE Seen == flag \in status'[d]
                     \/ Where(id'[d], ConditionOf(d, flag)')[1] \in Elements(reads'[d])
<1> USE DEF StatusInv, StatusTyped, Mod
<1>0. ASSUME pc'[d] = pc[d], rc'[d] = rc[d], call'[d] = call[d], id'[d] = id[d],
             always'[d] \subseteq always[d], d \notin swapped, status'[d] = status[d],
             reads'[d] = reads[d]
      PROVE  Seen
  <2>1. ConditionOf(d, flag)' = ConditionOf(d, flag)
    BY <1>0 DEF ConditionOf
  <2> QED BY <1>0, <2>1 DEF LastingAreSeen
<1>1. ASSUME NEW c \in Callers, NEW r \in GetterRequests, NEW leftover \in Leftovers,
             CallGetter(c, r, leftover)
      PROVE  Seen
  <2>1. d # c
    BY <1>1 DEF CallGetter, EndWith, Goto
  <2> QED BY <1>0, <1>1, <2>1 DEF CallGetter, EndWith, Goto
<1>2. ASSUME NEW c \in Callers, IdentifyModule(c) PROVE Seen
  <2>1. CASE d = c
    <3> DEFINE op == call[c].op
               ch == call[c].channel
               type == id'[c]
    <3>0. UNCHANGED <<call, always>>
      BY <1>2 DEF IdentifyModule
    <3>1. pc'[c] = "read" /\ reads'[c] = Reads(op, type, ch)
      BY <1>2, <2>1 DEF IdentifyModule, EndWith, Goto
    <3>2. type \in {"qsfp", "sfp"} /\ always'[c] \subseteq Conditions
      BY <3>0, <3>1, GettersKept DEF ReadsAreOfCall
    <3>3. op \in Getters /\ ch \in Nat
      BY GetterType
    <3>4. ConditionOf(c, flag)' = <<flag, OfChannel(op, type, ch)>>
      BY <3>0 DEF ConditionOf, OfChannel
    <3>5. flag \in Reportable(op, type) /\ <<flag, OfChannel(op, type, ch)>> \in Conditions
      BY <2>1, <3>0, <3>2, <3>4
    <3> HIDE DEF op, ch, type
    <3>6. \E addr \in Elements(Reads(op, type, ch)), b \in 0 .. 7 :
            /\ Where(type, <<flag, OfChannel(op, type, ch)>>) = <<addr, b>>
            /\ <<b, flag>> \in Shown(op, type, ch, addr)
      BY <3>2, <3>3, <3>5, ReportableIsShown
    <3>7. Where(type, <<flag, OfChannel(op, type, ch)>>)[1] \in Elements(Reads(op, type, ch))
      BY <3>6
    <3> QED BY <2>1, <3>1, <3>4, <3>7 DEF type
  <2>2. CASE d # c
    BY <1>0, <1>2, <2>2 DEF IdentifyModule, EndWith, Goto
  <2> QED BY <2>1, <2>2
<1>3. ASSUME NEW c \in Callers, ReadNext(c) PROVE Seen
  <2>1. UNCHANGED <<module, call, before, id, always, swapped>> /\ pc[c] = "read"
    BY <1>3 DEF ReadNext
  <2>2. CASE d = c
    <3> DEFINE addr == Head(reads[c])
               op == call[c].op
               ch == call[c].channel
               place == Where(id[c], ConditionOf(c, flag))
    <3>0. flag \in call[c].flags \cap Reportable(op, id[c]) /\ flag \in Flags
      BY <2>1, <2>2, GetterType
    <3>1. ConditionOf(c, flag)' = ConditionOf(c, flag) /\ ConditionOf(c, flag) \in always[c]
      BY <2>1, <2>2 DEF ConditionOf
    <3>2. /\ reads'[c] = Tail(reads[c])
          /\ flag \in status'[c] <=>
               \/ flag \in status[c]
               \/ /\ flag \in call[c].flags
                  /\ \E b \in ByteAt(Mod(c), addr) : <<b, flag>> \in Shown(op, id[c], ch, addr)
      BY <1>3, <2>2, <3>0, StatusAfterRead
    <3>3. CASE flag \in status[c]
      BY <2>2, <3>2, <3>3
    <3>4. CASE flag \notin status[c]
      <4>0. place[1] \in Elements(reads[c])
        BY <2>1, <2>2, <3>0, <3>1, <3>4 DEF LastingAreSeen
      <4>1. place[1] = addr \/ place[1] \in Elements(Tail(reads[c]))
        BY <2>1, <4>0, TailOfReads
      <4>2. CASE place[1] = addr
        <5>1. /\ module[Mod(c)].type = id[c] /\ always[c] \subseteq module[Mod(c)].on
              /\ id[c] \in {"qsfp", "sfp"} /\ Mod(c) \in Modules
          BY <2>1, <2>2 DEF HistoryKept, ReadsAreOfCall, GettersOfModules
        <5>2. op \in Getters /\ ch \in Nat
          BY GetterType
        <5>3. ConditionOf(c, flag) = <<flag, OfChannel(op, id[c], ch)>>
          BY ConditionIs
        <5>4. <<flag, OfChannel(op, id[c], ch)>> \in Conditions
          BY <3>1, <5>3
        <5> HIDE DEF op, ch
        <5>5. \E a \in Elements(Reads(op, id[c], ch)), b \in 0 .. 7 :
                /\ Where(id[c], <<flag, OfChannel(op, id[c], ch)>>) = <<a, b>>
                /\ <<b, flag>> \in Shown(op, id[c], ch, a)
          BY <3>0, <5>1, <5>2, <5>4, ReportableIsShown
        <5>6. PICK a \in Elements(Reads(op, id[c], ch)), b \in 0 .. 7 :
                /\ place = <<a, b>>
                /\ <<b, flag>> \in Shown(op, id[c], ch, a)
          BY <5>3, <5>5
        <5>7. a = addr
          BY <4>2, <5>6
        <5>8. b \in ByteAt(Mod(c), addr)
          BY <3>1, <5>1, <5>6, <5>7 DEF ByteAt
        <5> QED BY <2>2, <3>0, <3>2, <5>6, <5>7, <5>8
      <4>3. CASE place[1] \in Elements(Tail(reads[c]))
        BY <2>1, <2>2, <3>1, <3>2, <4>3
      <4> QED BY <4>1, <4>2, <4>3
    <3> QED BY <3>3, <3>4
  <2>3. CASE d # c
    BY <1>0, <1>3, <2>1, <2>3 DEF ReadNext, EndWith, Goto
  <2> QED BY <2>2, <2>3
<1>4. ASSUME NEW c \in Callers, ReturnFlags(c) PROVE Seen
  BY <1>0, <1>4 DEF ReturnFlags, Goto
<1>5. ASSUME NEW m \in Modules, Change(m) PROVE Seen
  <2>1. PICK new \in SUBSET Conditions : Becomes(m, new)
    BY <1>5, ChangeBecomes
  <2> QED BY <1>0, <1>5, <2>1 DEF Change, Becomes
<1>6. ASSUME NEW m \in Modules, Replace(m) PROVE Seen
  <2>1. d \notin Inside(m) /\ d \notin swapped
    BY <1>6 DEF Replace
  <2> QED BY <1>0, <1>6, <2>1 DEF Replace
<1>7. CASE UNCHANGED statusVars
  BY <1>0, <1>7 DEF statusVars
<1> QED BY <1>1, <1>2, <1>3, <1>4, <1>5, <1>6, <1>7 DEF StatusNext

LEMMA InitStatusInv == StatusInit => StatusInv
<1> SUFFICES ASSUME StatusInit PROVE StatusInv
  OBVIOUS
<1> USE DEF StatusInit
<1>1. StatusTyped
  <2>1. Plugged \subseteq [type : Types, on : SUBSET Conditions]
    BY MediaStatusAssumption DEF Plugged
  <2>2. reads \in [Callers -> Seq(Nat)]
    OBVIOUS
  <2> QED BY <2>1, <2>2 DEF StatusTyped, Types
<1> QED BY <1>1 DEF StatusInv, GettersOfModules, NothingAddedYet, ReadsAreOfCall, HistoryKept,
                    AddedHeld, LastingAreSeen

\* The inductive invariant of the getters of flags.
THEOREM StatusInvariant == StatusSpec => []StatusInv
<1>1. StatusInv /\ [StatusNext]_statusVars => StatusInv'
  BY StatusTypesKept, GettersKept, HistoryStaysKept, AddedStaysHeld, LastingStaySeen DEF StatusInv
<1> QED BY InitStatusInv, <1>1, PTL DEF StatusSpec

\* No step of a getter goes on after a test that fails.
LEMMA ReadsTestedKept ==
  StatusInv /\ OnlyReadsTested /\ [StatusNext]_statusVars => OnlyReadsTested'
<1> SUFFICES ASSUME StatusInv, OnlyReadsTested, [StatusNext]_statusVars
             PROVE  OnlyReadsTested'
  OBVIOUS
<1> USE DEF StatusInv, StatusTyped, OnlyReadsTested, Mod
<1>1. ASSUME NEW c \in Callers, NEW r \in GetterRequests, NEW leftover \in Leftovers,
             CallGetter(c, r, leftover)
      PROVE  OnlyReadsTested'
  <2>1. r.module \in Modules \cup {NotMedia}
    BY GetterType
  <2> QED BY <1>1, <2>1 DEF CallGetter, EndWith, Goto
<1>2. ASSUME NEW c \in Callers, IdentifyModule(c) PROVE OnlyReadsTested'
  <2>1. id' \in [Callers -> Types]
    BY <1>2, StatusTypesKept DEF StatusNext
  <2> QED BY <1>2, <2>1 DEF IdentifyModule, EndWith, Goto, Types
<1>3. ASSUME NEW c \in Callers, ReadNext(c) PROVE OnlyReadsTested'
  BY <1>3 DEF ReadNext, EndWith, Goto
<1>4. ASSUME NEW c \in Callers, ReturnFlags(c) PROVE OnlyReadsTested'
  BY <1>4 DEF ReturnFlags, Goto
<1>5. ASSUME NEW m \in Modules, Change(m) \/ Replace(m) PROVE OnlyReadsTested'
  BY <1>5 DEF Change, Replace
<1>6. CASE UNCHANGED statusVars
  BY <1>6 DEF statusVars
<1> QED BY <1>1, <1>2, <1>3, <1>4, <1>5, <1>6 DEF StatusNext

\* No getter of flags goes on after a test it fails (the returns of
\* module_monitor_status_get, channel_monitor_status_get and
\* channel_status_get), however many callers there are and whatever comes and
\* goes in the modules.
THEOREM StatusTypesHold == StatusSpec => []StatusTypeOK
<1>1. StatusInit => OnlyReadsTested
  BY DEF StatusInit, OnlyReadsTested
<1>2. StatusInv /\ OnlyReadsTested => StatusTypeOK
  BY DEF StatusInv, StatusTypeOK
<1> QED BY StatusInvariant, ReadsTestedKept, <1>1, <1>2, PTL DEF StatusSpec

\* No flag is made up (module_monitor_status_get, channel_monitor_status_get,
\* channel_status_get): what is added was asked for and held in the module,
\* on the channel, at some time during the call.
THEOREM FlagsNeverMadeUp == StatusSpec => []AddedFlagsHeld
<1>1. StatusInv => AddedFlagsHeld
  BY DEF StatusInv, AddedHeld, AddedFlagsHeld
<1> QED BY StatusInvariant, <1>1, PTL

\* No lasting condition is missed by a getter that succeeds, although its
\* bytes are read one after the other.
THEOREM LastingNeverMissed == StatusSpec => []LastingConditionsReported
<1>1. StatusInv => LastingConditionsReported
  <2> SUFFICES ASSUME StatusInv, NEW c \in Callers,
                      pc[c] = "done", rc[c] = "ok", c \notin swapped,
                      NEW flag \in call[c].flags \cap Reportable(call[c].op, id[c]),
                      ConditionOf(c, flag) \in always[c]
               PROVE  flag \in status[c]
    BY DEF LastingConditionsReported
  <2>1. Elements(reads[c]) = {}
    <3>1. reads[c] = <<>>
      BY DEF StatusInv, StatusTyped
    <3> QED BY <3>1 DEF Elements
  <2> QED BY <2>1 DEF StatusInv, LastingAreSeen
<1> QED BY StatusInvariant, <1>1, PTL
=============================================================================

------------------------------ MODULE MediaStatus ------------------------------
(***************************************************************************)
(* The status getters of a transceiver (sdi_media.c):                      *)
(* module_monitor_status_get, channel_monitor_status_get and               *)
(* channel_status_get.  Each identifies the type of the module, reads one  *)
(* to four status bytes one after the other, and adds a flag to the        *)
(* caller's variable for every bit that is set and asked for.  The         *)
(* variable is never cleared.                                              *)
(*                                                                         *)
(* A module is the set of conditions that hold in it.  Where says which    *)
(* bit of which byte shows a condition (the layout of sdi_media_utils.h),  *)
(* Shown which flag the code makes of a bit.  While a getter runs,         *)
(* conditions come and go and the module may be swapped.                   *)
(***************************************************************************)
EXTENDS MediaCalls, Sequences

CONSTANTS
  Requested,    \* the sets of flags that callers ask for
  Leftovers,    \* the sets of flags that a caller's variable may hold before
  Conditions,   \* the conditions that come and go
  Fresh         \* the sets of conditions of a module that was just plugged

\* A module is its type and the conditions in it; status is the caller's
\* variable; swapped counts from the call on.
VARIABLES
  before,   \* the variable of each caller when it called
  reads,    \* addresses of the bytes it still has to read
  ever,     \* history: conditions that held at some time since it called
  always    \* history: conditions that held all the time since it called

statusVars == <<module, pc, call, before, id, reads, status, rc, ever, always, swapped>>

-----------------------------------------------------------------------------
(* Flags and conditions. *)

Sides == {"HIGH", "LOW"}
Kinds == {"ALARM", "WARNING"}
Monitors == {"TEMP", "VOLT", "RX_PWR", "TX_BIAS", "TX_PWR"}
States   == {"TXDISABLE", "TXFAULT", "TXLOSS", "RXLOSS"}
Flags == (Monitors \X Sides \X Kinds) \cup {<<s, "STATE", "STATE">> : s \in States}

QsfpChannels == 0 .. 3

\* A condition of a channel, 0 for a condition of the whole module.
AllConditions == Flags \X QsfpChannels

ASSUME MediaStatusAssumption ==
  /\ Requested \subseteq SUBSET Flags
  /\ Leftovers \subseteq SUBSET Flags
  /\ Conditions \subseteq AllConditions
  /\ Fresh \subseteq SUBSET Conditions
  /\ \A condition \in Conditions :
       condition[1][1] \in {"TEMP", "VOLT"} => condition[2] = 0

\* Four bits: high alarm, low alarm, high warning, low warning.
LevelBit(side, kind) ==
  CASE side = "HIGH" /\ kind = "ALARM"   -> 7
    [] side = "LOW"  /\ kind = "ALARM"   -> 6
    [] side = "HIGH" /\ kind = "WARNING" -> 5
    [] side = "LOW"  /\ kind = "WARNING" -> 4

\* Address and bit that show a condition in a QSFP module; channels 0 and 2
\* use the upper half of a byte, 1 and 3 the lower half.
WhereQsfp(flag, channel) ==
  LET what == flag[1]
      pair(a, b) == IF channel < 2 THEN a ELSE b
      level == LevelBit(flag[2], flag[3])
  IN CASE what = "TEMP"      -> <<6, level>>
       [] what = "VOLT"      -> <<7, level>>
       [] what = "RX_PWR"    -> <<pair(9, 10), level - 4 * (channel % 2)>>
       [] what = "TX_BIAS"   -> <<pair(11, 12), level - 4 * (channel % 2)>>
       [] what = "TXDISABLE" -> <<86, channel>>
       [] what = "TXFAULT"   -> <<4, channel>>
       [] what = "TXLOSS"    -> <<3, channel + 4>>
       [] what = "RXLOSS"    -> <<3, channel>>
       [] OTHER              -> <<>>

\* The same in an SFP module, which has one channel and no TX loss.
WhereSfp(flag) ==
  LET what == flag[1]
      addr(alarm, warning) == IF flag[3] = "ALARM" THEN alarm ELSE warning
      bit(high) == IF flag[2] = "HIGH" THEN high ELSE high - 1
  IN CASE what = "TEMP"      -> <<addr(112, 116), bit(7)>>
       [] what = "VOLT"      -> <<addr(112, 116), bit(5)>>
       [] what = "TX_BIAS"   -> <<addr(112, 116), bit(3)>>
       [] what = "TX_PWR"    -> <<addr(112, 116), bit(1)>>
       [] what = "RX_PWR"    -> <<addr(113, 117), bit(7)>>
       [] what = "TXDISABLE" -> <<110, 7>>
       [] what = "TXFAULT"   -> <<110, 2>>
       [] what = "RXLOSS"    -> <<110, 1>>
       [] OTHER              -> <<>>

Where(type, condition) ==
  CASE type = "qsfp" -> WhereQsfp(condition[1], condition[2])
    [] type = "sfp" /\ condition[2] = 0 -> WhereSfp(condition[1])
    [] OTHER -> <<>>

\* The bits that are set in the byte at an address.
ByteAt(m, addr) ==
  {b \in 0 .. 7 : \E condition \in module[m].on : Where(module[m].type, condition) = <<addr, b>>}

NoModule == [type |-> "absent", on |-> {}]
Plugged == [type : Types, on : Fresh]

-----------------------------------------------------------------------------
(* What the getters read, and what they make of it. *)

Getters == {"module_monitor", "channel_monitor", "channel_status"}

GetterRequests == [op : Getters, module : Modules \cup {NotMedia}, channel : Channels, flags : Requested]
NoGetter == [op |-> "module_monitor", module |-> NotMedia, channel |-> 0, flags |-> {}]

\* Bug: the warnings of an SFP channel are not read.
ReadsAlarmsOnly(op, type, channel) ==
  CASE op = "module_monitor" -> IF type = "qsfp" THEN <<6, 7>> ELSE <<112, 116>>
    [] op = "channel_monitor" ->
         IF type = "sfp" THEN <<112, 113>>
         ELSE IF channel < 2 THEN <<9, 11>> ELSE <<10, 12>>
    [] op = "channel_status" -> IF type = "qsfp" THEN <<86, 4, 3>> ELSE <<110>>

\* The bytes a getter reads, in order.  The address stays 0 for a channel
\* that a QSFP module does not have.
Reads(op, type, channel) ==
  CASE op = "module_monitor" /\ type = "qsfp" -> <<6, 7>>
    [] op = "module_monitor" /\ type = "sfp"  -> <<112, 116>>
    [] op = "channel_monitor" /\ type = "qsfp" ->
         CASE channel \in {0, 1} -> <<9, 11>>
           [] channel \in {2, 3} -> <<10, 12>>
           [] OTHER -> <<0, 0>>
    [] op = "channel_monitor" /\ type = "sfp" -> <<112, 113, 116, 117>>
    [] op = "channel_status" /\ type = "qsfp" -> <<86, 4, 3>>
    [] op = "channel_status" /\ type = "sfp"  -> <<110>>

\* The four levels of a value in the upper (shift 0) or lower (4) half.
FourFlags(what, shift) ==
  {<<LevelBit(side, kind) - shift, <<what, side, kind>>>> : side \in Sides, kind \in Kinds}

\* The high and the low level of a value in two neighbouring bits.
TwoFlags(what, kind, high) ==
  {<<high, <<what, "HIGH", kind>>>>, <<high - 1, <<what, "LOW", kind>>>>}

State(bit, what) == {<<bit, <<what, "STATE", "STATE">>>>}

\* Bug: channel 1 is looked up in the half of channel 0.
ShownQsfpWrongHalf(channel, addr) ==
  CASE addr \in {9, 10}  -> FourFlags("RX_PWR", IF channel < 2 THEN 0 ELSE 4)
    [] addr \in {11, 12} -> FourFlags("TX_BIAS", IF channel < 2 THEN 0 ELSE 4)
    [] OTHER -> {}

\* The bits of a byte that a getter looks at, each with its flag.
ShownQsfp(channel, addr) ==
  LET half == IF channel \in {0, 2} THEN 0 ELSE 4 IN
  CASE addr = 6 -> FourFlags("TEMP", 0)
    [] addr = 7 -> FourFlags("VOLT", 0)
    [] addr \in {9, 10}  -> FourFlags("RX_PWR", half)
    [] addr \in {11, 12} -> FourFlags("TX_BIAS", half)
    [] addr = 86 /\ channel \in QsfpChannels -> State(channel, "TXDISABLE")
    [] addr = 4  /\ channel \in QsfpChannels -> State(channel, "TXFAULT")
    [] addr = 3  /\ channel \in QsfpChannels ->
         State(channel + 4, "TXLOSS") \cup State(channel, "RXLOSS")
    [] OTHER -> {}

ShownSfp(op, addr) ==
  LET kind == IF addr \in {112, 113} THEN "ALARM" ELSE "WARNING" IN
  CASE addr \in {112, 116} /\ op = "module_monitor" ->
         TwoFlags("TEMP", kind, 7) \cup TwoFlags("VOLT", kind, 5)
    [] addr \in {112, 116} /\ op = "channel_monitor" ->
         TwoFlags("TX_BIAS", kind, 3) \cup TwoFlags("TX_PWR", kind, 1)
    [] addr \in {113, 117} -> TwoFlags("RX_PWR", kind, 7)
    [] addr = 110 -> State(7, "TXDISABLE") \cup State(2, "TXFAULT") \cup State(1, "RXLOSS")

Shown(op, type, channel, addr) ==
  IF type = "qsfp" THEN ShownQsfp(channel, addr) ELSE ShownSfp(op, addr)

-----------------------------------------------------------------------------
StatusInit ==
  /\ module \in [Modules -> Plugged \cup {NoModule}]
  /\ pc = [c \in Callers |-> "idle"]
  /\ call = [c \in Callers |-> NoGetter]
  /\ before = [c \in Callers |-> {}]
  /\ id = [c \in Callers |-> "other"]
  /\ reads = [c \in Callers |-> <<>>]
  /\ status = [c \in Callers |-> {}]
  /\ rc = [c \in Callers |-> "ok"]
  /\ ever = [c \in Callers |-> {}]
  /\ always = [c \in Callers |-> {}]
  /\ swapped = {}

\* The call ends with an error.
EndWith(c, from, s) ==
  /\ Goto(c, from, "done")
  /\ rc' = [rc EXCEPT ![c] = s]

CallGetter(c, r, leftover) ==
  /\ call' = [call EXCEPT ![c] = r]
  /\ before' = [before EXCEPT ![c] = leftover]
  /\ status' = [status EXCEPT ![c] = leftover]
  /\ IF r.module = NotMedia
     THEN EndWith(c, "idle", "EPERM") /\ UNCHANGED <<ever, always>>
     ELSE /\ Goto(c, "idle", "identify")
          /\ ever' = [ever EXCEPT ![c] = module[r.module].on]
          /\ always' = [always EXCEPT ![c] = module[r.module].on]
          /\ UNCHANGED rc
  /\ UNCHANGED <<module, id, reads, swapped>>

\* sdi_media_identifier_get and the switch over the type.
IdentifyModule(c) ==
  /\ \/ EndWith(c, "identify", "error") /\ UNCHANGED <<id, reads>>
     \/ /\ pc[c] = "identify"
        /\ module[Mod(c)] # NoModule
        /\ id' = [id EXCEPT ![c] = module[Mod(c)].type]
        /\ \/ id'[c] = "other" /\ EndWith(c, "identify", "error") /\ UNCHANGED reads
           \/ /\ id'[c] # "other"
              /\ Goto(c, "identify", "read")
              /\ reads' = [reads EXCEPT ![c] = Reads(call[c].op, id'[c], call[c].channel)]
              /\ UNCHANGED rc
  /\ UNCHANGED <<module, call, before, status, ever, always, swapped>>

\* Bug: the status of a read is not tested, and the getter goes on.
ReadNextUntested(c) ==
  /\ Goto(c, "read", IF Len(reads[c]) = 1 THEN "done" ELSE "read")
  /\ reads' = [reads EXCEPT ![c] = Tail(@)]
  /\ rc' = [rc EXCEPT ![c] = "error"]
  /\ UNCHANGED <<module, call, before, id, status, ever, always, swapped>>

\* sdi_media_info_get of the next byte, and the tests of its bits.  When an
\* access fails, the flags of the bytes before it stay in the variable.
ReadNext(c) ==
  /\ pc[c] = "read"
  /\ \/ EndWith(c, "read", "error") /\ reads' = [reads EXCEPT ![c] = <<>>] /\ UNCHANGED status
     \/ /\ module[Mod(c)] # NoModule
        /\ LET addr == Head(reads[c])
               byte == ByteAt(Mod(c), addr)
               set  == {s[2] : s \in {s \in Shown(call[c].op, id[c], call[c].channel, addr) :
                                        s[1] \in byte}}
           IN status' = [status EXCEPT ![c] = @ \cup (set \cap call[c].flags)]
        /\ reads' = [reads EXCEPT ![c] = Tail(@)]
        /\ Goto(c, "read", IF Len(reads[c]) = 1 THEN "done" ELSE "read")
        /\ UNCHANGED rc
  /\ UNCHANGED <<module, call, before, id, ever, always, swapped>>

ReturnFlags(c) ==
  /\ Goto(c, "done", "idle")
  /\ call' = [call EXCEPT ![c] = NoGetter]
  /\ before' = [before EXCEPT ![c] = {}]
  /\ id' = [id EXCEPT ![c] = "other"]
  /\ status' = [status EXCEPT ![c] = {}]
  /\ rc' = [rc EXCEPT ![c] = "ok"]
  /\ ever' = [ever EXCEPT ![c] = {}]
  /\ always' = [always EXCEPT ![c] = {}]
  /\ swapped' = swapped \ {c}
  /\ UNCHANGED <<module, reads>>

\* The callers that are inside a getter of module m.
Inside(m) == {c \in Callers : pc[c] \in {"identify", "read"} /\ Mod(c) = m}

\* The history of callers inside a getter; that of a swapped module is over.
Watching(m) == Inside(m) \ swapped

\* A condition of a module appears or disappears.
Change(m) ==
  /\ module[m] # NoModule
  /\ \E condition \in Conditions :
       LET on == module[m].on
           new == IF condition \in on THEN on \ {condition} ELSE on \cup {condition}
       IN /\ module' = [module EXCEPT ![m].on = new]
          /\ ever' = [c \in Callers |-> IF c \in Watching(m) THEN ever[c] \cup new ELSE ever[c]]
          /\ always' = [c \in Callers |-> IF c \in Watching(m) THEN always[c] \cap new ELSE always[c]]
  /\ UNCHANGED <<pc, call, before, id, reads, status, rc, swapped>>

\* A module is pulled, plugged or replaced.
Replace(m) ==
  /\ \E new \in Plugged \cup {NoModule} : module' = [module EXCEPT ![m] = new]
  /\ swapped' = swapped \cup Inside(m)
  /\ ever' = [c \in Callers |-> IF c \in Inside(m) THEN {} ELSE ever[c]]
  /\ always' = [c \in Callers |-> IF c \in Inside(m) THEN {} ELSE always[c]]
  /\ UNCHANGED <<pc, call, before, id, reads, status, rc>>

StatusNext ==
  \/ \E c \in Callers :
       \/ \E r \in GetterRequests, leftover \in Leftovers : CallGetter(c, r, leftover)
       \/ IdentifyModule(c) \/ ReadNext(c) \/ ReturnFlags(c)
  \/ \E m \in Modules : Change(m) \/ Replace(m)

StatusSpec == StatusInit /\ [][StatusNext]_statusVars

-----------------------------------------------------------------------------
(* Properties. *)

StatusTyped ==
  /\ module \in [Modules -> [type : Types, on : SUBSET Conditions] \cup {NoModule}]
  /\ pc \in [Callers -> {"idle", "identify", "read", "done"}]
  /\ call \in [Callers -> GetterRequests \cup {NoGetter}]
  /\ before \in [Callers -> Leftovers \cup {{}}]
  /\ id \in [Callers -> Types]
  /\ reads \in [Callers -> Seq(Nat)]
  /\ \A c \in Callers : pc[c] = "read" <=> reads[c] # <<>>
  /\ status \in [Callers -> SUBSET Flags]
  /\ rc \in [Callers -> {"ok", "EPERM", "error"}]
  /\ ever \in [Callers -> SUBSET Conditions]
  /\ always \in [Callers -> SUBSET Conditions]
  /\ swapped \in SUBSET Callers

\* A getter goes no further than the first test it fails: it accesses the
\* module of a media resource only, and reads a status byte only of a type
\* of module that it knows and only while every read before succeeded.
OnlyReadsTested ==
  \A c \in Callers :
    /\ pc[c] # "done" => rc[c] = "ok"
    /\ pc[c] \in {"identify", "read"} => Mod(c) \in Modules
    /\ pc[c] = "read" => id[c] \in {"qsfp", "sfp"}

\* Types, and the error paths of the three getters.
StatusTypeOK == StatusTyped /\ OnlyReadsTested

\* The condition of the module that a flag stands for in a call.
ConditionOf(c, flag) ==
  <<flag, IF call[c].op = "module_monitor" \/ id[c] = "sfp" THEN 0 ELSE call[c].channel>>

\* The flags that a getter can report for a type of module.
Reportable(op, type) ==
  LET what ==
    CASE op = "module_monitor"  -> {"TEMP", "VOLT"}
      [] op = "channel_monitor" -> {"RX_PWR", "TX_BIAS"} \cup (IF type = "sfp" THEN {"TX_PWR"} ELSE {})
      [] op = "channel_status"  -> States \ (IF type = "sfp" THEN {"TXLOSS"} ELSE {})
  IN {flag \in Flags : flag[1] \in what}

\* A getter adds no flag but those asked for, each for a condition that held
\* in this module, on this channel, at some time during the call; also when
\* it fails half-way.  It takes a module that stays in its cage.
AddedFlagsHeld ==
  \A c \in Callers :
    pc[c] = "done" /\ c \notin swapped =>
      \A flag \in status[c] \ before[c] :
        flag \in call[c].flags /\ ConditionOf(c, flag) \in ever[c]

\* A getter that succeeds reports every condition asked for that held from
\* its call to its last read, although its reads are apart.
LastingConditionsReported ==
  \A c \in Callers :
    pc[c] = "done" /\ rc[c] = "ok" /\ c \notin swapped =>
      \A flag \in call[c].flags \cap Reportable(call[c].op, id[c]) :
        ConditionOf(c, flag) \in always[c] => flag \in status[c]

=============================================================================

------------------------------ MODULE EntityInfo ------------------------------
(***************************************************************************)
(* sdi_entity_info_read (sdi_entity_info.c) of the info resource of a tray *)
(* or of the system board.  The size of the EEPROM is read in one access   *)
(* and its data in a second one; then the data is parsed, a tray asks the  *)
(* board for the names it has not, and adds the number and the speed of    *)
(* its fans, a PSU its rating.  Devices are exchanged between any two      *)
(* accesses, and any access may fail.                                      *)
(*                                                                         *)
(* Calls share no memory, so there is one caller.  The helpers are those   *)
(* of SysfsRegister: a raw read gets all the bytes it asks for or fails, a *)
(* getter may succeed without a value and leave the 0 of its variable.     *)
(***************************************************************************)
EXTENDS Eeprom, FiniteSets

CONSTANTS
  Configs,   \* configurations: see ConfigType
  Speeds,    \* maximum speeds that a fan may show
  Ratings    \* power ratings that a PSU may show

Slots == {"tray", "board"}

\* board: there is no system board, it has no info resource, or it has one.
\* format: the type given in the configuration of each info resource.
ConfigType ==
  [tray : {"fan_tray", "psu_tray"}, board : {"none", "bare", "full"},
   format : [Slots -> Formats], fans : Nat]

ASSUME EntityInfoAssumption ==
  /\ Configs \subseteq ConfigType
  /\ Speeds \subseteq Nat /\ Ratings \subseteq Nat
  /\ {"gone", "stale", "zero", "default", "number"} \cap DOMAIN Images = {}

VARIABLES
  config,    \* the configuration
  image,     \* the image in the EEPROM of each entity, or "gone"
  pc,        \* the next step of the call, or "dead"
  target,    \* the entity whose info was asked for
  reading,   \* the entity whose EEPROM is being read
  size,      \* buf_size
  buf,       \* the image that the data was read from
  pos, left, \* ONIE: position in the TLVs and tlv_len
  info,      \* the caller's structure, and tmp_info while a tray asks the board
  fan,       \* resources of the loop over the fans that are done
  best,      \* fan_max_speed
  shown,     \* history: the speeds that the loop has read
  rc         \* the status the call will return

vars == <<config, image, pc, target, reading, size, buf, pos, left, info,
          fan, best, shown, rc>>
parsing == <<pos, left>>
fans    == <<fan, best, shown>>

Init ==
  /\ config \in Configs
  /\ image \in [Slots -> DOMAIN Images \cup {"gone"}]
  /\ \A s \in Slots : image[s] # "gone" => Images[image[s]].format = config.format[s]
  /\ pc = "idle"
  /\ target = "tray" /\ reading = "tray"
  /\ size = 0 /\ buf = "gone" /\ pos = 0 /\ left = 0
  /\ info = [s \in Slots |-> Untouched]
  /\ fan = 0 /\ best = 0 /\ shown = {}
  /\ rc = "ok"

-----------------------------------------------------------------------------
Goto(from, to) == pc = from /\ pc' = to

Stop(from, s) == Goto(from, "done") /\ rc' = s

\* The process ends: an assertion, or an access through NULL.
Die(from) ==
  /\ Goto(from, "dead")
  /\ UNCHANGED <<config, image, target, reading, size, buf, parsing, info, fans, rc>>

\* A call on an info resource, or on a resource of another type.
Call(s) ==
  /\ s = "board" => config.board = "full"
  /\ target' = s
  /\ reading' = s
  /\ \/ Goto("idle", "measure") /\ UNCHANGED rc
     \/ Stop("idle", "EPERM")
  /\ UNCHANGED <<config, image, size, buf, parsing, info, fans>>

\* What a tray takes from the info of the board.
WithBoard(own, boards) == [f \in Fields |-> IF f \in BoardFields THEN boards[f] ELSE own[f]]

\* Bug: the status of the board's info is the status of the tray's.
GotFromBoard(from, s, i) ==
  IF reading = target
  THEN /\ info' = [info EXCEPT ![reading] = i]
       /\ IF s = "ok" /\ target = "tray" THEN Goto(from, "board") /\ UNCHANGED rc
          ELSE Stop(from, s)
  ELSE /\ info' = [tray  |-> IF s = "ok" THEN WithBoard(info["tray"], i) ELSE info["tray"],
                   board |-> Untouched]
       /\ IF s = "ok" THEN Goto(from, "fans") /\ UNCHANGED rc ELSE Stop(from, s)

\* End of sdi_entity_info_get with status s and structure i: the info of the
\* board counts only for a tray and only if it could be read.
Got(from, s, i) ==
  IF reading = target
  THEN /\ info' = [info EXCEPT ![reading] = i]
       /\ IF s = "ok" /\ target = "tray" THEN Goto(from, "board") /\ UNCHANGED rc
          ELSE Stop(from, s)
  ELSE /\ info' = [tray  |-> IF s = "ok" THEN WithBoard(info["tray"], i) ELSE info["tray"],
                   board |-> Untouched]
       /\ Goto(from, "fans")
       /\ UNCHANGED rc

\* sdi_sysfs_attr_data_size_get and calloc.
Measure ==
  /\ \/ /\ Got("measure", "error", info[reading])
        /\ UNCHANGED size
     \/ /\ image[reading] # "gone"
        /\ size' = Images[image[reading]].size
        /\ \/ size' = 0 /\ Got("measure", "error", info[reading])
           \/ size' > 0 /\ Got("measure", "ENOMEM", info[reading])
           \/ size' > 0 /\ Goto("measure", "read") /\ UNCHANGED <<info, rc>>
  /\ UNCHANGED <<config, image, target, reading, buf, parsing, fans>>

\* Bug: the structure is not cleared.
ReadUncleared ==
  /\ \/ Got("read", "EIO", info[reading]) /\ UNCHANGED buf
     \/ /\ image[reading] # "gone"
        /\ Images[image[reading]].size >= size
        /\ buf' = image[reading]
        /\ Goto("read", "parse")
        /\ UNCHANGED <<info, rc>>
  /\ UNCHANGED <<config, image, target, reading, size, parsing, fans>>

\* Bug: a failed read does not end the call.
ReadUntested ==
  /\ \/ UNCHANGED buf
     \/ /\ image[reading] # "gone"
        /\ Images[image[reading]].size >= size
        /\ buf' = image[reading]
  /\ info' = [info EXCEPT ![reading] = Cleared]
  /\ Goto("read", "parse")
  /\ UNCHANGED rc
  /\ UNCHANGED <<config, image, target, reading, size, parsing, fans>>

\* sdi_sysfs_attr_data_get, and the memset of the structure.
Read ==
  /\ \/ Got("read", "EIO", info[reading]) /\ UNCHANGED buf
     \/ /\ image[reading] # "gone"
        /\ Images[image[reading]].size >= size
        /\ buf' = image[reading]
        /\ info' = [info EXCEPT ![reading] = Cleared]
        /\ Goto("read", "parse")
        /\ UNCHANGED rc
  /\ UNCHANGED <<config, image, target, reading, size, parsing, fans>>

\* The head of sdi_eeprom_sys_onie_get.
OpenTlvs ==
  /\ pc = "parse"
  /\ config.format[reading] = "onie"
  /\ \/ /\ Images[buf].total >= size
        /\ Got("parse", "EINVAL", info[reading])
        /\ UNCHANGED parsing
     \/ /\ Images[buf].total < size
        /\ info' = [info EXCEPT ![reading] = OnieStart]
        /\ pos' = 0 /\ left' = Images[buf].total
        /\ Goto("parse", "tlvs")
        /\ UNCHANGED rc
  /\ UNCHANGED <<config, image, target, reading, size, buf, fans>>

\* Its loop.
Tlv ==
  /\ pc = "tlvs"
  /\ left > 0
  /\ info' = [info EXCEPT ![reading] = TakeTlv(buf, pos, @)]
  /\ pos' = pos + TlvSize(buf, pos)
  /\ left' = left - TlvSize(buf, pos)
  /\ UNCHANGED <<config, image, pc, target, reading, size, buf, fans, rc>>

CloseTlvs ==
  /\ left <= 0
  /\ Got("tlvs", "ok", info[reading])
  /\ pos' = 0 /\ left' = 0
  /\ UNCHANGED <<config, image, target, reading, size, buf, fans>>

\* The other two parsers.
Outcomes ==
  IF config.format[reading] = "fan" THEN FanParse(buf, size, info[reading])
  ELSE PsuParse(buf, size, info[reading])

Parse ==
  /\ pc = "parse"
  /\ config.format[reading] # "onie"
  /\ \E o \in Outcomes :
       \/ o.rc = "killed" /\ Die("parse")
       \/ /\ o.rc # "killed"
          /\ Got("parse", o.rc, o.info)
          /\ UNCHANGED <<config, image, target, reading, size, buf, parsing, fans>>

\* The handle of the board is used before it is tested for NULL, and its
\* info resource is asserted to be there.
AskBoard ==
  \/ config.board # "full" /\ Die("board")
  \/ /\ config.board = "full"
     /\ Goto("board", "measure")
     /\ reading' = "board"
     /\ info' = [info EXCEPT !["board"] = Cleared]
     /\ UNCHANGED <<config, image, target, size, buf, parsing, fans, rc>>

\* Bug: the test for the first speed is gone.
SlowerStrict(max, speed) == IF speed < max THEN speed ELSE max

\* sdi_fan_max_speed: a fan that shows 0 makes the next one the first again.
Slower(max, speed) == IF max = 0 \/ speed < max THEN speed ELSE max

\* The next fan of sdi_entity_for_each_resource; one that fails is left out.
ReadFan ==
  /\ pc = "fans"
  /\ fan < config.fans
  /\ fan' = fan + 1
  /\ \/ UNCHANGED <<best, shown>>
     \/ \E v \in Speeds \cup {0} : best' = Slower(best, v) /\ shown' = shown \cup {v}
  /\ UNCHANGED <<config, image, pc, target, reading, size, buf, parsing, info, rc>>

FansEnd ==
  /\ fan = config.fans
  /\ fan' = 0 /\ best' = 0
  /\ UNCHANGED <<config, image, target, reading, size, buf, parsing, shown>>

WithFans(i) == [i EXCEPT !["num_fans"] = Number(config.fans), !["max_speed"] = Number(best)]

\* sdi_fan_info_fill.
FanTray ==
  /\ config.tray = "fan_tray"
  /\ \/ /\ config.fans = 0 \/ best = 0
        /\ Stop("fans", "error")
        /\ UNCHANGED info
     \/ /\ config.fans # 0 /\ best # 0
        /\ Stop("fans", "ok")
        /\ info' = [info EXCEPT !["tray"] = WithFans(@)]
  /\ FansEnd

\* sdi_psu_info_fill up to the rating.
PsuTray ==
  /\ config.tray = "psu_tray"
  /\ Goto("fans", "rating")
  /\ info' = [info EXCEPT !["tray"] = [WithFans(@) EXCEPT !["power_type"] = Number(0)]]
  /\ UNCHANGED rc
  /\ FansEnd

MilliPerUnit == 1000

Rating ==
  /\ \/ Stop("rating", "errno") /\ UNCHANGED info
     \/ /\ Stop("rating", "ok")
        /\ \E v \in Ratings \cup {0} :
             info' = [info EXCEPT !["tray"]["power_rating"] = Number(v \div MilliPerUnit)]
  /\ UNCHANGED <<config, image, target, reading, size, buf, parsing, fans>>

Return ==
  /\ Goto("done", "idle")
  /\ target' = "tray" /\ reading' = "tray"
  /\ size' = 0 /\ buf' = "gone" /\ pos' = 0 /\ left' = 0
  /\ info' = [s \in Slots |-> Untouched]
  /\ fan' = 0 /\ best' = 0 /\ shown' = {}
  /\ rc' = "ok"
  /\ UNCHANGED <<config, image>>

\* A device is pulled, plugged or exchanged, or its EEPROM is written.
HotSwap(s) ==
  /\ \E new \in DOMAIN Images \cup {"gone"} :
       /\ new # "gone" => Images[new].format = config.format[s]
       /\ image' = [image EXCEPT ![s] = new]
  /\ UNCHANGED <<config, pc, target, reading, size, buf, parsing, info, fans, rc>>

-----------------------------------------------------------------------------
Step == Measure \/ Read \/ OpenTlvs \/ Tlv \/ CloseTlvs \/ Parse \/ AskBoard
          \/ ReadFan \/ FanTray \/ PsuTray \/ Rating \/ Return

Next == (\E s \in Slots : Call(s) \/ HotSwap(s)) \/ Step

\* A call is straight-line code and loops, and every access is answered.
Spec == Init /\ [][Next]_vars /\ WF_vars(Step)

-----------------------------------------------------------------------------
(* Properties. *)

ValueType ==
  [kind : DOMAIN Images \cup {"stale", "zero", "default", "number"}, at : Nat]

\* Types; what a parser gets was read, from an image of the format that is
\* configured for the entity.
TypeOK ==
  /\ config \in Configs
  /\ image \in [Slots -> DOMAIN Images \cup {"gone"}]
  /\ pc \in {"idle", "measure", "read", "parse", "tlvs", "board", "fans", "rating", "done", "dead"}
  /\ target \in Slots /\ reading \in Slots
  /\ size \in Nat
  /\ buf \in DOMAIN Images \cup {"gone"}
  /\ pc \in {"parse", "tlvs"} =>
       buf \in DOMAIN Images /\ Images[buf].format = config.format[reading]
  /\ pos \in Nat /\ left \in Int
  /\ pc # "tlvs" => pos = 0 /\ left = 0
  /\ info \in [Slots -> [Fields -> ValueType]]
  /\ fan \in 0 .. config.fans
  /\ best \in Nat /\ shown \subseteq Nat
  /\ rc \in {"ok", "error", "errno", "EPERM", "ENOMEM", "EIO", "EINVAL"}

\* The images that fields of a structure come from.
Origins(i, fields) == {i[f].kind : f \in fields} \cap DOMAIN Images

\* Whatever fails, and whatever is swapped between the accesses of a call, the
\* caller gets its structure back as it was, with an error, or without a field
\* of its own making: the texts of a device come from one image, and the three
\* names that a tray takes from the board from one image too.
InfoWholeOrUntouched ==
  pc = "done" =>
    LET i == info[target] IN
      /\ \/ i = Untouched /\ rc # "ok"
         \/ \A f \in Fields : i[f] # Stale
      /\ Cardinality(Origins(i, Fields \ BoardFields)) <= 1
      /\ Cardinality(Origins(i, BoardFields)) <= 1

\* The TLVs of image i start at the positions in S and fill its total length.
Tiled(i, S) ==
  LET end(p) == p + TlvHeader + Images[i].tlv[p].length
      total  == Images[i].total
  IN /\ S \subseteq 0 .. total - 1
     /\ 0 \in S \cup {total}
     /\ \A p \in S : end(p) \in S \cup {total}
     /\ \A p, q \in S : p < q => end(p) <= q

Tilings ==
  [i \in {j \in DOMAIN Images : Images[j].format = "onie"} |->
     {S \in SUBSET (0 .. Images[i].total - 1) : Tiled(i, S)}]

\* The field f of text p of image i ends before position n of the buffer.
EndsInside(i, f, p, n) ==
  CASE Images[i].format = "onie" -> OnieHeader + p + TlvHeader + Images[i].tlv[p].length <= n
    [] Images[i].format = "fan"  -> p + FanLen[f] <= n
    [] Images[i].format = "psu"  -> p + PsuLen[f] <= n

FanEnd == FanAt["prod_name"] + 64

\* What an image must keep to: the TLVs of an ONIE image fill its total length
\* and end, with the header, inside the image, and so do the texts that block 1
\* of a FAN image stands for.  Nothing is asked of a PSU image.
WellFormed(i) ==
  CASE Images[i].format = "onie" -> Tilings[i] # {} /\ OnieHeader + Images[i].total <= Images[i].size
    [] Images[i].format = "fan"  -> Images[i].block1 * 16 + FanEnd <= Images[i].size
    [] Images[i].format = "psu"  -> TRUE

\* The buffer holds the whole of an image.  It does not if the device was
\* exchanged, after its size was read, for one with a larger EEPROM: only the
\* parser of the PSU images keeps to the buffer then.
WholeImage == Images[buf].format # "psu" => size = Images[buf].size

\* No field of a well-formed image is copied from behind the buffer, and none of
\* any PSU image, however short it is cut.
TextsInsideBuffer ==
  buf # "gone" /\ WellFormed(buf) /\ WholeImage =>
    \A f \in TextFields \cup MacFields :
      info[reading][f].kind = buf => EndsInside(buf, f, info[reading][f].at, size)

\* The last of the TLVs in S that sets field f, or what f is before the first.
LastOf(i, S, f) ==
  LET T == {p \in S : f \in SetBy(Images[i].tlv[p])}
  IN IF T = {} THEN OnieStart[f] ELSE TlvValue(i, CHOOSE p \in T : \A q \in T : q <= p)

\* The loop over the TLVs meets each of them once, in their order: of several
\* with one type the last that fits counts, and one that is too long for its
\* field does not undo an earlier one.  Each byte of base_mac is of the last
\* base_mac that reaches it, so a short one leaves the tail of a longer one.
LastTlvWins ==
  pc = "tlvs" =>
    \A S \in Tilings[buf] : \A f \in Fields :
      info[reading][f] = LastOf(buf, {p \in S : p < pos}, f)

\* The loop over the fans finds the slowest of those that showed a speed, as
\* long as none of them shows 0.
SlowestFan ==
  pc = "fans" =>
    /\ best \in shown \cup {0}
    /\ 0 \notin shown => \A v \in shown : 0 < best /\ best <= v

\* Where the board has an info, a tray fails for itself only: once its own
\* EEPROM has been read, whatever happens to the board's leaves no trace in the
\* status, which is an error only if no fan is the slowest of its fan tray (one
\* shows 0, or none shows a speed) or if its rating cannot be read.  And then
\* nothing ends the process but a PSU image of less than four bytes.
TrayFailsForItself ==
  /\ pc = "done" /\ reading # target /\ rc # "ok" =>
       \/ config.tray = "fan_tray" /\ rc = "error" /\ (shown = {} \/ 0 \in shown)
       \/ config.tray = "psu_tray" /\ rc = "errno"
  /\ pc = "dead" /\ config.board = "full" => Images[buf].format = "psu" /\ size < 4

\* Every call returns, unless it kills the process: the loop over the TLVs ends
\* for any lengths.
CallReturns == (pc # "idle") ~> (pc \in {"idle", "dead"})
=============================================================================

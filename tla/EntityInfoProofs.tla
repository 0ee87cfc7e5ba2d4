--------------------------- MODULE EntityInfoProofs ---------------------------
(***************************************************************************)
(* Proofs about sdi_entity_info_read, for any images, sizes of the fields, *)
(* configurations, speeds and ratings.                                     *)
(***************************************************************************)
EXTENDS EntityInfo, FiniteSetTheorems, WellFoundedInduction, TLAPS

-----------------------------------------------------------------------------
(* Values and structures. *)

InfoType == [Fields -> ValueType]
Codes == {"ok", "error", "errno", "EPERM", "ENOMEM", "EIO", "EINVAL"}

LEMMA ValueTypes ==
  /\ Stale \in ValueType /\ Zero \in ValueType /\ Default \in ValueType
  /\ \A n \in Nat : Number(n) \in ValueType
  /\ \A i \in DOMAIN Images, p \in Nat : Copied(i, p) \in ValueType
  BY DEF ValueType, Stale, Zero, Default, Number, Copied, Value

LEMMA StartTypes == Untouched \in InfoType /\ Cleared \in InfoType /\ OnieStart \in InfoType
  BY ValueTypes DEF InfoType, Untouched, Cleared, OnieStart

LEMMA FilledType ==
  ASSUME NEW i \in InfoType, NEW texts, \A f \in DOMAIN texts : texts[f] \in ValueType
  PROVE  Filled(i, texts) \in InfoType
  BY DEF InfoType, Filled

LEMMA NtohsType ==
  ASSUME NEW n \in Nat
  PROVE  Ntohs(n) \in Nat
  BY DEF Ntohs

LEMMA TakeTlvType ==
  ASSUME NEW i \in DOMAIN Images, Images[i].format = "onie",
         NEW p \in 0 .. Images[i].total, NEW s \in InfoType
  PROVE  TakeTlv(i, p, s) \in InfoType /\ TlvSize(i, p) \in Nat \ {0, 1}
<1>1. Images[i].tlv[p].length \in Nat /\ Images[i].tlv[p].num \in Nat /\ Images[i].total \in Nat
  BY EepromAssumption
<1>2. TlvValue(i, p) \in ValueType
  <2>1. Number(Ntohs(Images[i].tlv[p].num)) \in ValueType
    BY <1>1, NtohsType, ValueTypes
  <2>2. Copied(i, p) \in ValueType
    BY <1>1, ValueTypes
  <2> QED BY <2>1, <2>2 DEF TlvValue
<1>3. TakeTlv(i, p, s) \in InfoType
  BY <1>2 DEF TakeTlv, InfoType
<1> QED BY <1>1, <1>3 DEF TlvSize, TlvHeader

LEMMA FanOffsetType ==
  ASSUME NEW b \in Nat, NEW o \in Nat
  PROVE  FanOffset(b, o) \in Nat /\ FanOffset(b, o) < 256 /\ FanOffset(b, o) <= b * 16 + o
  BY DEF FanOffset

\* What sdi_eeprom_fan_mlnx_get makes of a structure: nothing, the texts of
\* block 1, or these and the direction.
FanTexts(i, s) ==
  Filled(s, [f \in DOMAIN FanAt |-> Copied(i, FanOffset(Images[i].block1, FanAt[f]))])

LEMMA FanOutcomes ==
  ASSUME NEW i \in DOMAIN Images, Images[i].format = "fan", NEW n \in Nat, NEW s,
         NEW o \in FanParse(i, n, s)
  PROVE  /\ o.rc \in Codes
         /\ \/ o.info = s
            \/ o.info = FanTexts(i, s)
            \/ \E a \in Nat : o.info = [FanTexts(i, s) EXCEPT !["air_flow"] = Number(a)]
<1> DEFINE air == FanOffset(Images[i].block2, FanAir)
           texts == FanTexts(i, s)
<1>1. Images[i].block2 \in 0 .. 255 /\ Images[i].byte \in [0 .. 255 -> 0 .. 255]
  BY EepromAssumption
<1>2. air \in 0 .. 255
  <2>1. Images[i].block2 \in Nat
    <3>1. \A x \in 0 .. 255 : x \in Nat
      OBVIOUS
    <3> QED BY <1>1, <3>1
  <2>2. air \in Nat /\ air < 256
    BY <2>1, FanOffsetType DEF FanAir
  <2> QED BY <2>2
<1> HIDE DEF air
<1>3. Images[i].byte[air] \in Nat /\ air \in Nat
  <2>1. Images[i].byte[air] \in 0 .. 255
    BY <1>1, <1>2
  <2> QED BY <1>2, <2>1
<1> HIDE DEF texts
<1>4. CASE air >= n
  <2>1. ~(air < n)
    BY <1>3, <1>4
  <2>2. FanParse(i, n, s) = {Outcome("EINVAL", s)}
    BY <1>4, <2>1 DEF FanParse, air
  <2> QED BY <2>2 DEF Outcome, Codes
<1>5. CASE air < n /\ ~(Images[i].label /\ Images[i].type1 = 1)
  <2>1. ~(air >= n)
    BY <1>3, <1>5
  <2>2. FanParse(i, n, s) = {Outcome("error", s)}
    BY <1>5, <2>1 DEF FanParse, air
  <2> QED BY <2>2 DEF Outcome, Codes
<1>6. CASE air < n /\ Images[i].label /\ Images[i].type1 = 1
  <2>1. ~(air >= n)
    BY <1>3, <1>6
  <2>2. FanParse(i, n, s) =
          IF Images[i].type2 = 5 /\ Images[i].byte[air] \in {1, 2}
          THEN {Outcome("ok", [texts EXCEPT !["air_flow"] = Number(Images[i].byte[air])])}
          ELSE {Outcome("error", texts)}
    BY <1>6, <2>1 DEF FanParse, FanTexts, air, texts
  <2>3. CASE o = Outcome("error", texts)
    BY <2>3 DEF Outcome, Codes, texts
  <2>4. CASE o = Outcome("ok", [texts EXCEPT !["air_flow"] = Number(Images[i].byte[air])])
    BY <1>3, <2>4 DEF Outcome, Codes, texts
  <2> QED BY <2>2, <2>3, <2>4
<1>7. air >= n \/ air < n
  BY <1>3
<1> QED BY <1>4, <1>5, <1>6, <1>7

LEMMA FanParseType ==
  ASSUME NEW i \in DOMAIN Images, Images[i].format = "fan", NEW n \in Nat, NEW s \in InfoType,
         NEW o \in FanParse(i, n, s)
  PROVE  o.rc \in Codes /\ o.info \in InfoType
<1>1. Images[i].block1 \in Nat
  <2>1. Images[i].block1 \in 0 .. 255
    BY EepromAssumption
  <2> QED BY <2>1
<1>2. FanTexts(i, s) \in InfoType
  <2>1. \A f \in DOMAIN FanAt : FanAt[f] \in Nat
    BY DEF FanAt
  <2>2. \A f \in DOMAIN FanAt : FanOffset(Images[i].block1, FanAt[f]) \in Nat
    BY <1>1, <2>1, FanOffsetType
  <2>3. \A f \in DOMAIN FanAt : Copied(i, FanOffset(Images[i].block1, FanAt[f])) \in ValueType
    BY <2>2, ValueTypes
  <2> QED BY <2>3, FilledType DEF FanTexts
<1>3. \A a \in Nat : [FanTexts(i, s) EXCEPT !["air_flow"] = Number(a)] \in InfoType
  BY <1>2, ValueTypes DEF InfoType
<1>4. /\ o.rc \in Codes
      /\ \/ o.info = s
         \/ o.info = FanTexts(i, s)
         \/ \E a \in Nat : o.info = [FanTexts(i, s) EXCEPT !["air_flow"] = Number(a)]
  BY FanOutcomes
<1> QED BY <1>2, <1>3, <1>4

\* Of some numbers one is the least.
LEMMA LeastNumber ==
  ASSUME NEW T, T \subseteq Nat, T # {}
  PROVE  \E x \in T : \A y \in T : x <= y
<1> DEFINE R == OpToRel(<, Nat)
<1>1. IsWellFoundedOn(R, Nat)
  BY NatLessThanWellFounded
<1>2. \A x, y \in Nat : y < x => <<y, x>> \in R
  BY DEF OpToRel
<1> HIDE DEF R
<1>3. PICK x \in T : \A y \in T : ~ (<<y, x>> \in R)
  BY <1>1, WFMin
<1>4. \A y \in T : ~ (y < x)
  BY <1>2, <1>3
<1>5. \A y \in T : x <= y
  BY <1>4
<1> QED BY <1>5

\* The first label of a PSU image is where the search stops.
FirstLabel(i, n) == CHOOSE x \in PsuLabels(i, n) : \A y \in PsuLabels(i, n) : x <= y

LEMMA LowestLabel ==
  ASSUME NEW i \in DOMAIN Images, Images[i].format = "psu", NEW n \in Nat,
         PsuLabels(i, n) # {}
  PROVE  FirstLabel(i, n) \in Nat
<1>1. PsuLabels(i, n) \subseteq Nat
  BY EepromAssumption DEF PsuLabels
<1>2. \E x \in PsuLabels(i, n) : \A y \in PsuLabels(i, n) : x <= y
  BY <1>1, LeastNumber
<1> QED BY <1>1, <1>2 DEF FirstLabel

\* What sdi_eeprom_psu_mlnx_get makes of a structure: nothing, or a name and
\* the texts behind the first label that fit.
PsuNamed(s) == [s EXCEPT !["prod_name"] = Default]

PsuTexts(i, n, s) ==
  Filled(PsuNamed(s), [f \in PsuFitting(FirstLabel(i, n), n) |->
                         Copied(i, FirstLabel(i, n) + PsuAt[f])])

LEMMA PsuOutcomes ==
  ASSUME NEW i \in DOMAIN Images, Images[i].format = "psu", NEW n \in Nat, NEW s,
         NEW o \in PsuParse(i, n, s)
  PROVE  \/ o.rc = "killed" /\ n < 4
         \/ /\ o.rc \in Codes
            /\ o.info \in {s, PsuNamed(s)} \/ (PsuLabels(i, n) # {} /\ o.info = PsuTexts(i, n, s))
<1>1. CASE n < 4
  BY <1>1 DEF PsuParse, PsuNamed, Outcome, Codes
<1>2. CASE n >= 4 /\ PsuLabels(i, n) = {}
  BY <1>2 DEF PsuParse, Outcome, Codes
<1>3. CASE n >= 4 /\ PsuLabels(i, n) # {}
  <2>1. o = Outcome(IF PsuFitting(FirstLabel(i, n), n) = LabelFields THEN "ok" ELSE "EINVAL",
                    PsuTexts(i, n, s))
    BY <1>3 DEF PsuParse, FirstLabel, PsuTexts, PsuNamed
  <2> QED BY <1>3, <2>1 DEF Outcome, Codes
<1> QED BY <1>1, <1>2, <1>3

LEMMA PsuParseType ==
  ASSUME NEW i \in DOMAIN Images, Images[i].format = "psu", NEW n \in Nat, NEW s \in InfoType,
         NEW o \in PsuParse(i, n, s)
  PROVE  (o.rc = "killed" /\ n < 4) \/ (o.rc \in Codes /\ o.info \in InfoType)
<1>1. PsuNamed(s) \in InfoType
  BY ValueTypes DEF PsuNamed, InfoType
<1>2. ASSUME PsuLabels(i, n) # {} PROVE PsuTexts(i, n, s) \in InfoType
  <2> DEFINE first == FirstLabel(i, n)
  <2>1. first \in Nat
    BY <1>2, LowestLabel
  <2> HIDE DEF first
  <2>2. \A f \in PsuFitting(first, n) : first + PsuAt[f] \in Nat
    BY <2>1 DEF PsuFitting, PsuAt, LabelFields
  <2>3. \A f \in PsuFitting(first, n) : Copied(i, first + PsuAt[f]) \in ValueType
    BY <2>2, ValueTypes
  <2> QED BY <1>1, <2>3, FilledType DEF PsuTexts, first
<1> QED BY <1>1, <1>2, PsuOutcomes

-----------------------------------------------------------------------------
(* Types and the flow of control. *)

\* The board is read only when there is one, on its own or for a tray; the
\* status is decided when the call is done.
Flow ==
  /\ target = "board" => config.board = "full"
  /\ reading # target => reading = "board" /\ config.board = "full"
  /\ pc \in {"fans", "rating"} => target = "tray" /\ reading = "board"
  /\ pc = "board" => target = "tray" /\ reading = "tray"
  /\ pc # "done" => rc = "ok"
  /\ pc = "done" /\ rc = "ok" => config.board = "full"

\* The loop over the TLVs counts the total length down.
Counters == pc = "tlvs" => Images[buf].format = "onie" /\ pos + left = Images[buf].total

\* An image has the format of the entity that it is in.
FormatsKept == \A s \in Slots : image[s] # "gone" => Images[image[s]].format = config.format[s]

\* With a board, only a PSU image of less than four bytes ends the process.
Deaths ==
  pc = "dead" /\ config.board = "full" => Images[buf].format = "psu" /\ size < 4

IInv == TypeOK /\ FormatsKept /\ Flow /\ Counters /\ Deaths

LEMMA WithBoardType ==
  ASSUME NEW i \in InfoType, NEW j \in InfoType
  PROVE  WithBoard(i, j) \in InfoType
  BY DEF InfoType, WithBoard

LEMMA GotControl ==
  ASSUME IInv, NEW from \in {"measure", "read", "parse", "tlvs"}, NEW s \in Codes,
         NEW i \in InfoType, Got(from, s, i), UNCHANGED <<config, target, reading>>
  PROVE  /\ pc = from /\ pc' \in {"done", "board", "fans"} /\ rc' \in Codes
         /\ info' \in [Slots -> InfoType]
         /\ Flow'
<1>1. info \in [Slots -> InfoType] /\ target \in Slots /\ reading \in Slots /\ rc = "ok"
  BY DEF IInv, TypeOK, InfoType, Flow, Got, Goto, Stop
<1>2. CASE reading = target
  <2>1. pc = from /\ info' = [info EXCEPT ![reading] = i]
    BY <1>2 DEF Got, Goto, Stop
  <2>2. info' \in [Slots -> InfoType]
    BY <1>1, <2>1
  <2>3. CASE s = "ok" /\ target = "tray"
    BY <1>1, <1>2, <2>1, <2>2, <2>3 DEF Got, Goto, IInv, Flow, Codes
  <2>4. CASE ~(s = "ok" /\ target = "tray")
    <3>1. pc' = "done" /\ rc' = s
      BY <1>2, <2>4 DEF Got, Goto, Stop
    <3> QED BY <1>1, <1>2, <2>1, <2>2, <2>4, <3>1 DEF IInv, Flow, Slots
  <2> QED BY <2>3, <2>4
<1>3. CASE reading # target
  <2>1. /\ pc = from /\ pc' = "fans" /\ rc' = rc
        /\ info' = [tray  |-> IF s = "ok" THEN WithBoard(info["tray"], i) ELSE info["tray"],
                    board |-> Untouched]
    BY <1>3 DEF Got, Goto
  <2>2. info["tray"] \in InfoType /\ WithBoard(info["tray"], i) \in InfoType
    BY <1>1, WithBoardType DEF Slots
  <2>3. info' \in [Slots -> InfoType]
    BY <2>1, <2>2, StartTypes DEF Slots
  <2> QED BY <1>1, <1>3, <2>1, <2>3 DEF IInv, Flow, Slots, Codes
<1> QED BY <1>2, <1>3

\* Steps that leave sdi_entity_info_get.
LEMMA GotHolds ==
  ASSUME IInv, NEW from \in {"measure", "read", "parse", "tlvs"}, NEW s \in Codes,
         NEW i \in InfoType, Got(from, s, i), UNCHANGED <<config, image, target, reading, fans>>,
         size' \in Nat, buf' \in DOMAIN Images \cup {"gone"}, pos' = 0, left' = 0
  PROVE  IInv'
<1>1. /\ pc = from /\ pc' \in {"done", "board", "fans"} /\ rc' \in Codes
      /\ info' \in [Slots -> InfoType]
      /\ Flow'
  BY GotControl
<1>2. TypeOK'
  BY <1>1 DEF IInv, TypeOK, fans, InfoType, Codes
<1>3. Counters'
  BY <1>1 DEF Counters
<1>4. Deaths'
  BY <1>1 DEF Deaths, Flow
<1> QED BY <1>1, <1>2, <1>3, <1>4 DEF IInv, FormatsKept

LEMMA InitHolds == Init => IInv
<1> SUFFICES ASSUME Init PROVE IInv
  OBVIOUS
<1>1. info \in [Slots -> [Fields -> ValueType]]
  BY StartTypes DEF Init, InfoType
<1>2. config.fans \in Nat
  BY EntityInfoAssumption DEF Init, ConfigType
<1>3. TypeOK
  BY <1>1, <1>2 DEF Init, TypeOK, Slots
<1> QED BY <1>3 DEF Init, IInv, Flow, Counters, Deaths, FormatsKept

LEMMA CallHolds ==
  ASSUME IInv, NEW s \in Slots, Call(s)
  PROVE  IInv'
<1>1. TypeOK'
  BY DEF Call, Goto, Stop, parsing, fans, IInv, TypeOK
<1>2. Flow' /\ Counters' /\ Deaths' /\ FormatsKept'
  BY DEF Call, Goto, Stop, parsing, fans, IInv, Flow, Counters, Deaths, FormatsKept
<1> QED BY <1>1, <1>2 DEF IInv

LEMMA MeasureHolds ==
  ASSUME IInv, Measure
  PROVE  IInv'
<1>1. info[reading] \in InfoType /\ {"error", "ENOMEM"} \subseteq Codes
  BY DEF IInv, TypeOK, InfoType, Codes
<1>2. size' \in Nat
  <2>1. CASE UNCHANGED size
    BY <2>1 DEF IInv, TypeOK
  <2>2. CASE image[reading] # "gone" /\ size' = Images[image[reading]].size
    <3>1. \A i \in DOMAIN Images : Images[i].size \in Nat
      BY EepromAssumption
    <3>2. image[reading] \in DOMAIN Images
      BY <2>2 DEF IInv, TypeOK
    <3> QED BY <2>2, <3>1, <3>2
  <2> QED BY <2>1, <2>2 DEF Measure
<1>3. CASE \E s \in {"error", "ENOMEM"} : Got("measure", s, info[reading])
  <2>1. PICK s \in {"error", "ENOMEM"} : Got("measure", s, info[reading])
    BY <1>3
  <2>2. pos' = 0 /\ left' = 0 /\ buf' \in DOMAIN Images \cup {"gone"}
    BY <2>1 DEF Measure, parsing, Got, Goto, Stop, IInv, TypeOK
  <2> QED BY <1>1, <1>2, <2>1, <2>2, GotHolds DEF Measure
<1>4. CASE Goto("measure", "read") /\ UNCHANGED <<info, rc>>
  <2>1. TypeOK'
    BY <1>2, <1>4 DEF Measure, Goto, parsing, fans, IInv, TypeOK
  <2> QED BY <1>4, <2>1 DEF Measure, Goto, IInv, Flow, Counters, Deaths, FormatsKept
<1> QED BY <1>3, <1>4 DEF Measure

LEMMA ReadHolds ==
  ASSUME IInv, Read
  PROVE  IInv'
<1>1. info[reading] \in InfoType /\ "EIO" \in Codes
  BY DEF IInv, TypeOK, InfoType, Codes
<1>2. CASE Got("read", "EIO", info[reading]) /\ UNCHANGED buf
  <2>1. pos' = 0 /\ left' = 0 /\ size' \in Nat /\ buf' \in DOMAIN Images \cup {"gone"}
    BY <1>2 DEF Read, parsing, Got, Goto, Stop, IInv, TypeOK
  <2> QED BY <1>1, <1>2, <2>1, GotHolds DEF Read
<1>3. CASE /\ image[reading] # "gone" /\ buf' = image[reading]
           /\ info' = [info EXCEPT ![reading] = Cleared]
           /\ Goto("read", "parse") /\ UNCHANGED rc
  <2>1. buf' \in DOMAIN Images /\ Images[buf'].format = config.format[reading]
    BY <1>3 DEF FormatsKept, IInv, TypeOK
  <2>2. info' \in [Slots -> [Fields -> ValueType]]
    BY <1>3, StartTypes DEF IInv, TypeOK, InfoType
  <2>3. TypeOK'
    BY <1>3, <2>1, <2>2 DEF Read, Goto, parsing, fans, IInv, TypeOK
  <2> QED BY <1>3, <2>3 DEF Read, Goto, IInv, Flow, Counters, Deaths, FormatsKept
<1> QED BY <1>2, <1>3 DEF Read

LEMMA OpenTlvsHolds ==
  ASSUME IInv, OpenTlvs
  PROVE  IInv'
<1>1. /\ info[reading] \in InfoType /\ "EINVAL" \in Codes /\ pc = "parse"
      /\ buf \in DOMAIN Images /\ Images[buf].format = "onie" /\ Images[buf].total \in Nat
  BY EepromAssumption DEF OpenTlvs, IInv, TypeOK, InfoType, Codes
<1>2. CASE Got("parse", "EINVAL", info[reading]) /\ UNCHANGED parsing
  <2>1. pos' = 0 /\ left' = 0 /\ size' \in Nat /\ buf' \in DOMAIN Images \cup {"gone"}
    BY <1>1, <1>2 DEF OpenTlvs, parsing, IInv, TypeOK
  <2> QED BY <1>1, <1>2, <2>1, GotHolds DEF OpenTlvs
<1>3. CASE /\ info' = [info EXCEPT ![reading] = OnieStart]
           /\ pos' = 0 /\ left' = Images[buf].total
           /\ Goto("parse", "tlvs") /\ UNCHANGED rc
  <2>1. info' \in [Slots -> [Fields -> ValueType]]
    BY <1>3, StartTypes DEF IInv, TypeOK, InfoType
  <2>2. TypeOK'
    BY <1>1, <1>3, <2>1 DEF OpenTlvs, Goto, fans, IInv, TypeOK
  <2>3. Counters'
    BY <1>1, <1>3 DEF OpenTlvs, Counters
  <2> QED BY <1>3, <2>2, <2>3 DEF OpenTlvs, Goto, IInv, Flow, Deaths, FormatsKept
<1> QED BY <1>2, <1>3 DEF OpenTlvs

\* The position of the loop is a position of a TLV of the image.
LEMMA TlvPosition ==
  ASSUME IInv, pc = "tlvs", left > 0
  PROVE  /\ buf \in DOMAIN Images /\ Images[buf].format = "onie"
         /\ Images[buf].total \in Nat /\ pos \in 0 .. Images[buf].total
         /\ pos < Images[buf].total
<1>1. buf \in DOMAIN Images /\ Images[buf].format = "onie" /\ pos + left = Images[buf].total
  BY DEF IInv, TypeOK, Counters
<1>2. Images[buf].total \in Nat
  BY <1>1, EepromAssumption
<1> QED BY <1>1, <1>2 DEF IInv, TypeOK

LEMMA TlvHolds ==
  ASSUME IInv, Tlv
  PROVE  IInv'
<1>1. /\ buf \in DOMAIN Images /\ Images[buf].format = "onie"
      /\ pos \in 0 .. Images[buf].total
  BY TlvPosition DEF Tlv
<1>2. info[reading] \in InfoType
  BY DEF IInv, TypeOK, InfoType
<1>3. TakeTlv(buf, pos, info[reading]) \in InfoType /\ TlvSize(buf, pos) \in Nat
  BY <1>1, <1>2, TakeTlvType
<1>4. info' \in [Slots -> [Fields -> ValueType]]
  BY <1>3 DEF Tlv, IInv, TypeOK, InfoType
<1>5. pos' \in Nat /\ left' \in Int /\ pos' + left' = pos + left
  BY <1>3 DEF Tlv, IInv, TypeOK
<1>6. TypeOK'
  BY <1>4, <1>5 DEF Tlv, fans, IInv, TypeOK
<1>7. Counters'
  BY <1>5 DEF Tlv, IInv, Counters
<1> QED BY <1>6, <1>7 DEF Tlv, IInv, Flow, Deaths, FormatsKept

LEMMA CloseTlvsHolds ==
  ASSUME IInv, CloseTlvs
  PROVE  IInv'
<1>1. info[reading] \in InfoType /\ "ok" \in Codes
  BY DEF IInv, TypeOK, InfoType, Codes
<1>2. size' \in Nat /\ buf' \in DOMAIN Images \cup {"gone"}
  BY DEF CloseTlvs, IInv, TypeOK
<1> QED BY <1>1, <1>2, GotHolds DEF CloseTlvs

LEMMA ParseHolds ==
  ASSUME IInv, Parse
  PROVE  IInv'
<1>1. /\ pc = "parse" /\ buf \in DOMAIN Images /\ Images[buf].format = config.format[reading]
      /\ info[reading] \in InfoType /\ size \in Nat /\ config.format[reading] # "onie"
  BY DEF Parse, IInv, TypeOK, InfoType
<1>2. PICK o \in Outcomes :
        \/ o.rc = "killed" /\ Die("parse")
        \/ /\ o.rc # "killed"
           /\ Got("parse", o.rc, o.info)
           /\ UNCHANGED <<config, image, target, reading, size, buf, parsing, fans>>
  BY DEF Parse
<1>3. \/ o.rc \in Codes /\ o.info \in InfoType
      \/ o.rc = "killed" /\ Images[buf].format = "psu" /\ size < 4
  <2>1. CASE Images[buf].format = "fan"
    BY <1>1, <1>2, <2>1, FanParseType DEF Outcomes
  <2>2. CASE Images[buf].format = "psu"
    BY <1>1, <1>2, <2>2, PsuParseType DEF Outcomes
  <2> QED BY <1>1, <2>1, <2>2, EepromAssumption DEF Formats
<1>4. CASE o.rc = "killed" /\ Die("parse")
  <2>1. Images[buf].format = "psu" /\ size < 4
    BY <1>3, <1>4 DEF Codes
  <2>2. TypeOK'
    BY <1>1, <1>4 DEF Die, Goto, parsing, fans, IInv, TypeOK
  <2> QED BY <1>1, <1>4, <2>1, <2>2
        DEF Die, Goto, parsing, fans, IInv, Flow, Counters, Deaths, FormatsKept
<1>5. CASE o.rc # "killed" /\ Got("parse", o.rc, o.info)
           /\ UNCHANGED <<config, image, target, reading, size, buf, parsing, fans>>
  <2>1. pos' = 0 /\ left' = 0 /\ size' \in Nat /\ buf' \in DOMAIN Images \cup {"gone"}
    BY <1>1, <1>5 DEF parsing, IInv, TypeOK
  <2> QED BY <1>3, <1>5, <2>1, GotHolds
<1> QED BY <1>2, <1>4, <1>5

LEMMA AskBoardHolds ==
  ASSUME IInv, AskBoard
  PROVE  IInv'
<1>1. CASE config.board # "full" /\ Die("board")
  <2>1. TypeOK'
    BY <1>1 DEF Die, Goto, parsing, fans, IInv, TypeOK
  <2> QED BY <1>1, <2>1
        DEF Die, Goto, parsing, fans, IInv, Flow, Counters, Deaths, FormatsKept
<1>2. CASE /\ config.board = "full" /\ Goto("board", "measure") /\ reading' = "board"
           /\ info' = [info EXCEPT !["board"] = Cleared]
           /\ UNCHANGED <<config, image, target, size, buf, parsing, fans, rc>>
  <2>1. info' \in [Slots -> [Fields -> ValueType]]
    BY <1>2, StartTypes DEF IInv, TypeOK, InfoType
  <2>2. TypeOK'
    BY <1>2, <2>1 DEF Goto, parsing, fans, IInv, TypeOK, Slots
  <2> QED BY <1>2, <2>2 DEF Goto, IInv, Flow, Counters, Deaths, FormatsKept
<1> QED BY <1>1, <1>2 DEF AskBoard

LEMMA ReadFanHolds ==
  ASSUME IInv, ReadFan
  PROVE  IInv'
<1>1. config.fans \in Nat
  BY EntityInfoAssumption DEF IInv, TypeOK, ConfigType
<1>2. best' \in Nat /\ shown' \subseteq Nat
  BY EntityInfoAssumption DEF ReadFan, Slower, IInv, TypeOK
<1>3. fan' \in 0 .. config.fans
  BY <1>1 DEF ReadFan, IInv, TypeOK
<1>4. TypeOK'
  BY <1>2, <1>3 DEF ReadFan, parsing, IInv, TypeOK
<1> QED BY <1>4 DEF ReadFan, parsing, IInv, Flow, Counters, Deaths, FormatsKept

LEMMA WithFansType ==
  ASSUME IInv
  PROVE  WithFans(info["tray"]) \in InfoType
<1>1. config.fans \in Nat /\ best \in Nat /\ info["tray"] \in InfoType
  BY EntityInfoAssumption DEF IInv, TypeOK, ConfigType, InfoType, Slots
<1> QED BY <1>1, ValueTypes DEF WithFans, InfoType

LEMMA FanTrayHolds ==
  ASSUME IInv, FanTray
  PROVE  IInv'
<1>1. pc = "fans" /\ pc' = "done" /\ rc' \in {"ok", "error"}
  BY DEF FanTray, Stop, Goto
<1>2. info' \in [Slots -> [Fields -> ValueType]]
  BY WithFansType DEF FanTray, IInv, TypeOK, InfoType
<1>3. fan' \in 0 .. config.fans /\ best' \in Nat
  BY EntityInfoAssumption DEF FanTray, FansEnd, IInv, TypeOK, ConfigType
<1>4. TypeOK'
  BY <1>1, <1>2, <1>3 DEF FanTray, FansEnd, parsing, IInv, TypeOK
<1> QED BY <1>1, <1>4
      DEF FanTray, FansEnd, parsing, IInv, Flow, Counters, Deaths, FormatsKept

LEMMA PsuTrayHolds ==
  ASSUME IInv, PsuTray
  PROVE  IInv'
<1>1. pc = "fans" /\ pc' = "rating" /\ UNCHANGED rc
  BY DEF PsuTray, Goto
<1>2. info' \in [Slots -> [Fields -> ValueType]]
  <2>1. [WithFans(info["tray"]) EXCEPT !["power_type"] = Number(0)] \in InfoType
    BY WithFansType, ValueTypes DEF InfoType
  <2> QED BY <2>1 DEF PsuTray, IInv, TypeOK, InfoType
<1>3. fan' \in 0 .. config.fans /\ best' \in Nat
  BY EntityInfoAssumption DEF PsuTray, FansEnd, IInv, TypeOK, ConfigType
<1>4. TypeOK'
  BY <1>1, <1>2, <1>3 DEF PsuTray, FansEnd, parsing, IInv, TypeOK
<1> QED BY <1>1, <1>4
      DEF PsuTray, FansEnd, parsing, IInv, Flow, Counters, Deaths, FormatsKept

LEMMA RatingHolds ==
  ASSUME IInv, Rating
  PROVE  IInv'
<1>1. pc = "rating" /\ pc' = "done" /\ rc' \in {"ok", "errno"}
  BY DEF Rating, Stop, Goto
<1>2. info' \in [Slots -> [Fields -> ValueType]]
  <2>1. CASE UNCHANGED info
    BY <2>1 DEF IInv, TypeOK
  <2>2. CASE \E v \in Ratings \cup {0} :
               info' = [info EXCEPT !["tray"]["power_rating"] = Number(v \div MilliPerUnit)]
    <3>1. PICK v \in Ratings \cup {0} :
            info' = [info EXCEPT !["tray"]["power_rating"] = Number(v \div MilliPerUnit)]
      BY <2>2
    <3>2. v \div MilliPerUnit \in Nat
      BY EntityInfoAssumption DEF MilliPerUnit
    <3>3. Number(v \div MilliPerUnit) \in ValueType
      BY <3>2, ValueTypes
    <3> QED BY <3>1, <3>3 DEF IInv, TypeOK
  <2> QED BY <2>1, <2>2 DEF Rating
<1>3. TypeOK'
  BY <1>1, <1>2 DEF Rating, parsing, fans, IInv, TypeOK
<1> QED BY <1>1, <1>3
      DEF Rating, parsing, fans, IInv, Flow, Counters, Deaths, FormatsKept

LEMMA ReturnHolds ==
  ASSUME IInv, Return
  PROVE  IInv'
<1>1. info' \in [Slots -> [Fields -> ValueType]]
  BY StartTypes DEF Return, InfoType
<1>2. config.fans \in Nat
  BY EntityInfoAssumption DEF IInv, TypeOK, ConfigType
<1>3. TypeOK'
  BY <1>1, <1>2 DEF Return, Goto, IInv, TypeOK, Slots
<1> QED BY <1>3 DEF Return, Goto, IInv, Flow, Counters, Deaths, FormatsKept

LEMMA HotSwapHolds ==
  ASSUME IInv, NEW s \in Slots, HotSwap(s)
  PROVE  IInv'
<1>1. TypeOK' /\ FormatsKept'
  BY DEF HotSwap, parsing, fans, IInv, TypeOK, FormatsKept
<1> QED BY <1>1 DEF HotSwap, parsing, fans, IInv, Flow, Counters, Deaths

LEMMA NextHolds == IInv /\ [Next]_vars => IInv'
<1> SUFFICES ASSUME IInv, [Next]_vars PROVE IInv'
  OBVIOUS
<1>1. ASSUME NEW s \in Slots, Call(s) \/ HotSwap(s) PROVE IInv'
  BY <1>1, CallHolds, HotSwapHolds
<1>2. CASE Step
  BY <1>2, MeasureHolds, ReadHolds, OpenTlvsHolds, TlvHolds, CloseTlvsHolds, ParseHolds,
     AskBoardHolds, ReadFanHolds, FanTrayHolds, PsuTrayHolds, RatingHolds, ReturnHolds DEF Step
<1>3. CASE UNCHANGED vars
  BY <1>3 DEF vars, parsing, fans, IInv, TypeOK, Flow, Counters, Deaths, FormatsKept
<1> QED BY <1>1, <1>2, <1>3 DEF Next

\* The inductive invariant.
THEOREM Invariant == Spec => []IInv
  BY InitHolds, NextHolds, PTL DEF Spec

\* Every variable of the info calls keeps its type, for any images: what is
\* parsed was read, from an image of the format that is configured for the slot
\* (sdi_entity_info.c:180-233).
THEOREM TypesHold == Spec => []TypeOK
<1>1. IInv => TypeOK
  BY DEF IInv
<1> QED BY Invariant, <1>1, PTL

-----------------------------------------------------------------------------
(* The slowest fan. *)

\* The loop over the fans starts afresh.
FansFresh ==
  pc \in {"idle", "measure", "read", "parse", "tlvs", "board"} => best = 0 /\ shown = {}

FansInv == FansFresh /\ SlowestFan

\* One more fan, which may show 0.
LEMMA SlowerIsSlowest ==
  ASSUME NEW b \in Nat, NEW v \in Nat, NEW S, S \subseteq Nat, b \in S \cup {0},
         0 \notin S => \A w \in S : 0 < b /\ b <= w
  PROVE  /\ Slower(b, v) \in S \cup {v} \cup {0}
         /\ 0 \notin S \cup {v} => \A w \in S \cup {v} : 0 < Slower(b, v) /\ Slower(b, v) <= w
  BY DEF Slower

LEMMA FansHold == IInv /\ FansInv /\ [Next]_vars => FansInv'
<1> SUFFICES ASSUME IInv, FansInv, [Next]_vars PROVE FansInv'
  OBVIOUS
<1>1. ASSUME NEW s \in Slots, Call(s) \/ HotSwap(s) PROVE FansInv'
  BY <1>1 DEF Call, HotSwap, Goto, Stop, parsing, fans, FansInv, FansFresh, SlowestFan
<1>2. ASSUME NEW from \in {"measure", "read", "parse", "tlvs"}, NEW s, NEW i,
             Got(from, s, i), UNCHANGED fans
      PROVE  FansInv'
  BY <1>2 DEF Got, Goto, Stop, fans, FansInv, FansFresh, SlowestFan
<1>3. CASE Measure
  BY <1>2, <1>3 DEF Measure, Goto, fans, FansInv, FansFresh, SlowestFan
<1>4. CASE Read
  BY <1>2, <1>4 DEF Read, Goto, fans, FansInv, FansFresh, SlowestFan
<1>5. CASE OpenTlvs
  BY <1>2, <1>5 DEF OpenTlvs, Goto, fans, FansInv, FansFresh, SlowestFan
<1>6. CASE Tlv
  BY <1>6 DEF Tlv, fans, FansInv, FansFresh, SlowestFan
<1>7. CASE CloseTlvs
  BY <1>2, <1>7 DEF CloseTlvs
<1>8. CASE Parse
  BY <1>2, <1>8 DEF Parse, Die, Goto, fans, FansInv, FansFresh, SlowestFan
<1>9. CASE AskBoard
  BY <1>9 DEF AskBoard, Die, Goto, fans, FansInv, FansFresh, SlowestFan
<1>10. CASE ReadFan
  <2>1. pc = "fans" /\ pc' = "fans" /\ best \in Nat /\ shown \subseteq Nat
    BY <1>10 DEF ReadFan, IInv, TypeOK
  <2>2. CASE UNCHANGED <<best, shown>>
    BY <2>1, <2>2 DEF FansInv, FansFresh, SlowestFan
  <2>3. CASE \E v \in Speeds \cup {0} : best' = Slower(best, v) /\ shown' = shown \cup {v}
    <3>1. PICK v \in Speeds \cup {0} : best' = Slower(best, v) /\ shown' = shown \cup {v}
      BY <2>3
    <3>2. v \in Nat
      BY EntityInfoAssumption
    <3>3. /\ best \in shown \cup {0}
          /\ 0 \notin shown => \A w \in shown : 0 < best /\ best <= w
      BY <2>1 DEF FansInv, SlowestFan
    <3>4. /\ Slower(best, v) \in shown \cup {v} \cup {0}
          /\ 0 \notin shown \cup {v} =>
               \A w \in shown \cup {v} : 0 < Slower(best, v) /\ Slower(best, v) <= w
      BY <2>1, <3>2, <3>3, SlowerIsSlowest
    <3> QED BY <2>1, <3>1, <3>4 DEF FansInv, FansFresh, SlowestFan
  <2> QED BY <1>10, <2>2, <2>3 DEF ReadFan
<1>11. CASE FanTray \/ PsuTray \/ Rating
  BY <1>11 DEF FanTray, PsuTray, Rating, Goto, Stop, FansInv, FansFresh, SlowestFan
<1>12. CASE Return
  BY <1>12 DEF Return, Goto, FansInv, FansFresh, SlowestFan
<1>13. CASE UNCHANGED vars
  BY <1>13 DEF vars, fans, FansInv, FansFresh, SlowestFan
<1> QED BY <1>1, <1>3, <1>4, <1>5, <1>6, <1>7, <1>8, <1>9, <1>10, <1>11, <1>12, <1>13
        DEF Next, Step

\* The loop over the fans finds the slowest speed of all that it has read, also
\* across failed reads, as long as none of them is 0 (sdi_entity_info.c:86-117).
THEOREM SlowestFanFound == Spec => []SlowestFan
<1>1. Init => FansInv
  BY DEF Init, FansInv, FansFresh, SlowestFan
<1>2. FansInv => SlowestFan
  BY DEF FansInv
<1> QED BY <1>1, <1>2, Invariant, FansHold, PTL DEF Spec

-----------------------------------------------------------------------------
(* The status of a tray. *)

\* Speeds are read from fans, ratings from PSU trays, and the status of a tray
\* that asked the board is its own.
OwnStatus ==
  /\ config.fans = 0 => shown = {}
  /\ pc = "rating" => config.tray = "psu_tray"
  /\ pc = "done" /\ reading # target /\ rc # "ok" =>
       \/ config.tray = "fan_tray" /\ rc = "error" /\ (shown = {} \/ 0 \in shown)
       \/ config.tray = "psu_tray" /\ rc = "errno"

LEMMA OwnStatusHolds == IInv /\ FansInv /\ OwnStatus /\ [Next]_vars => OwnStatus'
<1> SUFFICES ASSUME IInv, FansInv, OwnStatus, [Next]_vars PROVE OwnStatus'
  OBVIOUS
<1>1. ASSUME NEW s \in Slots, Call(s) \/ HotSwap(s) PROVE OwnStatus'
  BY <1>1 DEF Call, HotSwap, Goto, Stop, parsing, fans, OwnStatus
<1>2. ASSUME NEW from, NEW s, NEW i, Got(from, s, i), UNCHANGED <<config, target, reading, fans>>
      PROVE  OwnStatus'
  BY <1>2 DEF Got, Goto, Stop, fans, OwnStatus
<1>3. CASE Measure
  BY <1>2, <1>3 DEF Measure, Goto, fans, OwnStatus
<1>4. CASE Read
  BY <1>2, <1>4 DEF Read, Goto, fans, OwnStatus
<1>5. CASE OpenTlvs
  BY <1>2, <1>5 DEF OpenTlvs, Goto, fans, OwnStatus
<1>6. CASE Tlv
  BY <1>6 DEF Tlv, fans, OwnStatus
<1>7. CASE CloseTlvs
  BY <1>2, <1>7 DEF CloseTlvs
<1>8. CASE Parse
  BY <1>2, <1>8 DEF Parse, Die, Goto, fans, OwnStatus
<1>9. CASE AskBoard
  BY <1>9 DEF AskBoard, Die, Goto, fans, OwnStatus
<1>10. CASE ReadFan
  <2>1. config.fans # 0
    BY <1>10 DEF ReadFan, IInv, TypeOK
  <2> QED BY <1>10, <2>1 DEF ReadFan, OwnStatus
<1>11. CASE FanTray
  <2>1. config.fans = 0 \/ best = 0 => shown = {} \/ 0 \in shown
    BY <1>11 DEF FanTray, Stop, Goto, OwnStatus, FansInv, SlowestFan
  <2> QED BY <1>11, <2>1 DEF FanTray, FansEnd, Stop, Goto, OwnStatus
<1>12. CASE PsuTray
  BY <1>12 DEF PsuTray, FansEnd, Goto, OwnStatus
<1>13. CASE Rating
  BY <1>13 DEF Rating, Stop, Goto, fans, OwnStatus
<1>14. CASE Return
  BY <1>14 DEF Return, Goto, OwnStatus
<1>15. CASE UNCHANGED vars
  BY <1>15 DEF vars, fans, OwnStatus
<1> QED BY <1>1, <1>3, <1>4, <1>5, <1>6, <1>7, <1>8, <1>9, <1>10, <1>11, <1>12, <1>13, <1>14, <1>15
        DEF Next, Step

\* For any images, and whatever happens to the EEPROM of the board: where the
\* board has an info, a tray fails only for its own fans or rating once its own
\* EEPROM has been read, and only a tiny PSU image ends the process
\* (sdi_entity_info.c:263-283).
THEOREM TrayFailsAlone == Spec => []TrayFailsForItself
<1>1. Init => FansInv /\ OwnStatus
  BY DEF Init, FansInv, FansFresh, SlowestFan, OwnStatus
<1>2. IInv /\ OwnStatus => TrayFailsForItself
  BY DEF IInv, Deaths, OwnStatus, TrayFailsForItself
<1> QED BY <1>1, <1>2, Invariant, FansHold, OwnStatusHolds, PTL DEF Spec

-----------------------------------------------------------------------------
(* What the structures hold. *)

Written(i) == \A f \in Fields : i[f] # Stale

\* The texts in the fields fs of structure i come from image x.
From(i, fs, x) == \A f \in fs : i[f].kind \in DOMAIN Images => i[f].kind = x

Contents ==
  /\ \A s \in Slots : info[s] = Untouched \/ Written(info[s])
  /\ \A s \in Slots : \E x : From(info[s], BoardFields, x)
  /\ \A s \in Slots : \E x : From(info[s], Fields \ BoardFields, x)
  /\ From(info[reading], Fields, buf)
  /\ pc = "idle" => \A s \in Slots : info[s] = Untouched
  /\ pc \in {"measure", "read"} => info[reading] \in {Untouched, Cleared}
  /\ pc = "parse" => info[reading] = Cleared
  /\ pc = "tlvs" => Written(info[reading])
  /\ pc \in {"board", "fans", "rating"} \/ reading # target => Written(info["tray"])
  /\ pc \in {"fans", "rating"} => info["board"] = Untouched
  /\ pc = "done" /\ rc = "ok" => Written(info[target])

\* Values that are not texts of an image.
LEMMA PlainValues ==
  /\ Stale.kind \notin DOMAIN Images /\ Zero.kind \notin DOMAIN Images
  /\ Default.kind \notin DOMAIN Images /\ \A n : Number(n).kind \notin DOMAIN Images
  /\ Zero # Stale /\ Default # Stale /\ \A n : Number(n) # Stale
  /\ \A i, p : Copied(i, p).kind = i
  /\ \A i \in DOMAIN Images : \A p : Copied(i, p) # Stale
<1>1. /\ Stale.kind = "stale" /\ Zero.kind = "zero" /\ Default.kind = "default"
      /\ \A n : Number(n).kind = "number" /\ \A i, p : Copied(i, p).kind = i
  BY DEF Stale, Zero, Default, Number, Copied, Value
<1>2. {"gone", "stale", "zero", "default", "number"} \cap DOMAIN Images = {}
  BY EntityInfoAssumption
<1>3. \A i \in DOMAIN Images : i # "stale"
  BY <1>2
<1> QED BY <1>1, <1>2, <1>3

\* Structures without a text.
LEMMA PlainStructures ==
  /\ \A fs \in SUBSET Fields : \A x :
       From(Untouched, fs, x) /\ From(Cleared, fs, x) /\ From(OnieStart, fs, x)
  /\ Written(Cleared) /\ Written(OnieStart) /\ ~Written(Untouched)
<1>1. \A f \in Fields : Untouched[f] = Stale /\ Cleared[f] = Zero
                         /\ OnieStart[f] \in {Zero, Default}
  BY DEF Untouched, Cleared, OnieStart
<1>2. "vendor_name" \in Fields
  BY DEF Fields, TextFields, BoardFields
<1> QED BY <1>1, <1>2, PlainValues DEF From, Written

LEMMA FieldParts == BoardFields \subseteq Fields /\ Fields \ BoardFields \subseteq Fields
  BY DEF Fields, TextFields

LEMMA FromParts ==
  ASSUME NEW i, NEW x, From(i, Fields, x)
  PROVE  From(i, BoardFields, x) /\ From(i, Fields \ BoardFields, x)
  BY FieldParts DEF From

\* The end of sdi_entity_info_get.
LEMMA GotContents ==
  ASSUME IInv, Contents, NEW from \in {"measure", "read", "parse", "tlvs"},
         NEW s \in Codes, NEW i \in InfoType, Got(from, s, i),
         UNCHANGED <<config, target, reading, buf>>,
         From(i, Fields, buf), i = Untouched \/ Written(i), s = "ok" => Written(i)
  PROVE  Contents'
<1>1. /\ pc = from /\ pc' \in {"done", "board", "fans"} /\ Flow
      /\ info \in [Slots -> InfoType] /\ reading \in Slots /\ target \in Slots
  BY GotControl DEF IInv, TypeOK, InfoType
<1>2. CASE reading = target
  <2>1. info' = [info EXCEPT ![reading] = i]
    BY <1>2 DEF Got
  <2>2. info'[reading] = i /\ \A t \in Slots : info'[t] = IF t = reading THEN i ELSE info[t]
    BY <1>1, <2>1
  <2>3. pc' # "fans" /\ (pc' = "board" => target = "tray" /\ Written(i))
        /\ (pc' = "done" => rc' = s)
    BY <1>2 DEF Got, Goto, Stop
  <2>4. From(i, BoardFields, buf) /\ From(i, Fields \ BoardFields, buf)
    BY FromParts
  <2> QED BY <1>1, <1>2, <2>2, <2>3, <2>4 DEF Contents
<1>3. CASE reading # target
  <2> DEFINE j == IF s = "ok" THEN WithBoard(info["tray"], i) ELSE info["tray"]
  <2>1. /\ pc' = "fans" /\ reading = "board" /\ target = "tray"
        /\ info' = [tray |-> j, board |-> Untouched]
    BY <1>1, <1>3 DEF Got, Goto, Flow, Slots
  <2>2. info'["tray"] = j /\ info'["board"] = Untouched
    BY <2>1
  <2>3. Written(info["tray"]) /\ "tray" \in Slots
    BY <1>3 DEF Contents, Slots
  <2>4. Written(j)
    BY <2>3 DEF WithBoard, Written
  <2>5. PICK x : From(info["tray"], Fields \ BoardFields, x)
    BY <2>3 DEF Contents
  <2>6. From(j, Fields \ BoardFields, x)
    BY <2>5 DEF WithBoard, From
  <2>7. \E y : From(j, BoardFields, y)
    <3>1. CASE s = "ok"
      <4>1. From(j, BoardFields, buf)
        BY <3>1, FieldParts DEF WithBoard, From
      <4> QED BY <4>1
    <3>2. CASE s # "ok"
      BY <2>3, <3>2 DEF Contents
    <3> QED BY <3>1, <3>2
  <2> HIDE DEF j
  <2>8. From(Untouched, BoardFields, buf) /\ From(Untouched, Fields \ BoardFields, buf)
        /\ From(Untouched, Fields, buf)
    BY PlainStructures, FieldParts
  <2> QED BY <2>1, <2>2, <2>4, <2>6, <2>7, <2>8 DEF Contents, Slots
<1> QED BY <1>2, <1>3

\* Another structure for the entity that is read.
LEMMA ReadingContents ==
  ASSUME IInv, Contents, NEW i, info' = [info EXCEPT ![reading] = i],
         UNCHANGED <<target, reading, rc>>, pc' \in {"parse", "tlvs"},
         Written(i), From(i, Fields, buf'), pc' = "parse" => i = Cleared
  PROVE  Contents'
<1>1. info \in [Slots -> InfoType] /\ reading \in Slots /\ target \in Slots
  BY DEF IInv, TypeOK, InfoType
<1>2. info'[reading] = i /\ \A t \in Slots : info'[t] = IF t = reading THEN i ELSE info[t]
  BY <1>1
<1>3. From(i, BoardFields, buf') /\ From(i, Fields \ BoardFields, buf')
  BY FromParts
<1>4. reading # target => reading # "tray" /\ "tray" \in Slots
  BY DEF IInv, Flow, Slots
<1> QED BY <1>1, <1>2, <1>3, <1>4 DEF Contents

\* The structures that the parsers return.
LEMMA TlvContents ==
  ASSUME NEW i \in DOMAIN Images, NEW p, NEW s \in InfoType, Written(s), From(s, Fields, i)
  PROVE  Written(TakeTlv(i, p, s)) /\ From(TakeTlv(i, p, s), Fields, i)
<1>1. TlvValue(i, p) # Stale /\ (TlvValue(i, p).kind \in DOMAIN Images => TlvValue(i, p).kind = i)
  BY PlainValues DEF TlvValue
<1>2. \A f \in Fields : TakeTlv(i, p, s)[f] \in {s[f], TlvValue(i, p)}
  BY DEF TakeTlv, InfoType
<1> QED BY <1>1, <1>2 DEF Written, From

LEMMA FanContents ==
  ASSUME NEW i \in DOMAIN Images, Images[i].format = "fan", NEW n \in Nat,
         NEW o \in FanParse(i, n, Cleared)
  PROVE  Written(o.info) /\ From(o.info, Fields, i)
<1>1. \A f \in Fields : \/ FanTexts(i, Cleared)[f] = Zero
                         \/ \E p : FanTexts(i, Cleared)[f] = Copied(i, p)
  BY DEF FanTexts, Filled, Cleared
<1>2. Written(FanTexts(i, Cleared)) /\ From(FanTexts(i, Cleared), Fields, i)
  BY <1>1, PlainValues DEF Written, From
<1>3. \A a \in Nat : \A f \in Fields :
        [FanTexts(i, Cleared) EXCEPT !["air_flow"] = Number(a)][f]
          \in {FanTexts(i, Cleared)[f], Number(a)}
  BY DEF FanTexts, Filled
<1>4. ASSUME NEW a \in Nat, o.info = [FanTexts(i, Cleared) EXCEPT !["air_flow"] = Number(a)]
      PROVE  Written(o.info) /\ From(o.info, Fields, i)
  <2>1. \A f \in Fields : o.info[f] \in {FanTexts(i, Cleared)[f], Number(a)}
    BY <1>3, <1>4
  <2> QED BY <1>2, <2>1, PlainValues DEF Written, From
<1>5. Written(Cleared) /\ From(Cleared, Fields, i)
  BY PlainStructures
<1>6. \/ o.info = Cleared
      \/ o.info = FanTexts(i, Cleared)
      \/ \E a \in Nat : o.info = [FanTexts(i, Cleared) EXCEPT !["air_flow"] = Number(a)]
  BY FanOutcomes
<1> QED BY <1>2, <1>4, <1>5, <1>6

LEMMA PsuContents ==
  ASSUME NEW i \in DOMAIN Images, Images[i].format = "psu", NEW n \in Nat,
         NEW o \in PsuParse(i, n, Cleared), o.rc # "killed"
  PROVE  Written(o.info) /\ From(o.info, Fields, i)
<1>1. \A f \in Fields : PsuNamed(Cleared)[f] \in {Zero, Default}
  BY DEF PsuNamed, Cleared
<1>2. \A f \in Fields : \/ PsuTexts(i, n, Cleared)[f] = PsuNamed(Cleared)[f]
                         \/ \E p : PsuTexts(i, n, Cleared)[f] = Copied(i, p)
  BY DEF PsuTexts, Filled
<1>3. Written(Cleared) /\ From(Cleared, Fields, i)
  BY PlainStructures
<1>4. Written(PsuNamed(Cleared)) /\ From(PsuNamed(Cleared), Fields, i)
  BY <1>1, PlainValues DEF Written, From
<1>5. Written(PsuTexts(i, n, Cleared)) /\ From(PsuTexts(i, n, Cleared), Fields, i)
  BY <1>2, <1>4, PlainValues DEF Written, From
<1> QED BY <1>3, <1>4, <1>5, PsuOutcomes

\* Steps that read the EEPROM of one entity.
LEMMA ReadingHolds ==
  ASSUME IInv, Contents, Measure \/ Read \/ OpenTlvs \/ Tlv \/ CloseTlvs \/ Parse
  PROVE  Contents'
<1>1. /\ info \in [Slots -> InfoType] /\ info[reading] \in InfoType /\ reading \in Slots
      /\ From(info[reading], Fields, buf)
      /\ info[reading] = Untouched \/ Written(info[reading])
      /\ {"ok", "error", "ENOMEM", "EIO", "EINVAL"} \subseteq Codes
  BY DEF IInv, TypeOK, InfoType, Contents, Codes
<1>2. ASSUME NEW from \in {"measure", "read", "parse"}, NEW s \in Codes \ {"ok"},
             Got(from, s, info[reading]), UNCHANGED <<config, target, reading, buf>>
      PROVE  Contents'
  BY <1>1, <1>2, GotContents
<1>3. CASE Measure
  <2>1. CASE Got("measure", "error", info[reading]) \/ Got("measure", "ENOMEM", info[reading])
    BY <1>1, <1>2, <1>3, <2>1 DEF Measure, Codes
  <2>2. CASE Goto("measure", "read") /\ UNCHANGED <<info, rc>>
    BY <1>3, <2>2 DEF Measure, Goto, Contents
  <2> QED BY <1>3, <2>1, <2>2 DEF Measure
<1>4. CASE Read
  <2>1. CASE Got("read", "EIO", info[reading]) /\ UNCHANGED buf
    BY <1>1, <1>2, <1>4, <2>1 DEF Read, Codes
  <2>2. CASE info' = [info EXCEPT ![reading] = Cleared] /\ Goto("read", "parse") /\ UNCHANGED rc
    BY <1>4, <2>2, PlainStructures, ReadingContents DEF Read, Goto
  <2> QED BY <1>4, <2>1, <2>2 DEF Read
<1>5. CASE OpenTlvs
  <2>1. CASE Got("parse", "EINVAL", info[reading])
    BY <1>1, <1>2, <1>5, <2>1 DEF OpenTlvs, Codes
  <2>2. CASE info' = [info EXCEPT ![reading] = OnieStart] /\ Goto("parse", "tlvs") /\ UNCHANGED rc
    BY <1>5, <2>2, PlainStructures, ReadingContents DEF OpenTlvs, Goto
  <2> QED BY <1>5, <2>1, <2>2 DEF OpenTlvs
<1>6. CASE Tlv
  <2>1. /\ pc = "tlvs" /\ pc' = "tlvs" /\ UNCHANGED <<target, reading, rc, buf>>
        /\ info' = [info EXCEPT ![reading] = TakeTlv(buf, pos, info[reading])]
        /\ buf \in DOMAIN Images /\ Written(info[reading])
    BY <1>1, <1>6 DEF Tlv, IInv, TypeOK, Contents
  <2>2. /\ Written(TakeTlv(buf, pos, info[reading]))
        /\ From(TakeTlv(buf, pos, info[reading]), Fields, buf)
    BY <1>1, <2>1, TlvContents
  <2> QED BY <2>1, <2>2, ReadingContents
<1>7. CASE CloseTlvs
  <2>1. pc = "tlvs" /\ Got("tlvs", "ok", info[reading])
    BY <1>7 DEF CloseTlvs, Got, Goto, Stop
  <2> QED BY <1>1, <1>7, <2>1, GotContents DEF CloseTlvs, Contents
<1>8. CASE Parse
  <2>1. /\ pc = "parse" /\ info[reading] = Cleared /\ size \in Nat
        /\ buf \in DOMAIN Images /\ Images[buf].format = config.format[reading]
        /\ config.format[reading] # "onie"
    BY <1>8 DEF Parse, Contents, IInv, TypeOK
  <2>2. CASE Die("parse")
    BY <2>1, <2>2 DEF Die, Goto, IInv, Flow, Contents
  <2>3. ASSUME NEW o \in Outcomes, o.rc # "killed", Got("parse", o.rc, o.info),
               UNCHANGED <<config, target, reading, buf>>
        PROVE  Contents'
    <3>1. CASE Images[buf].format = "fan"
      <4>1. o \in FanParse(buf, size, Cleared)
        BY <2>1, <2>3, <3>1 DEF Outcomes
      <4>2. Written(o.info) /\ From(o.info, Fields, buf)
        BY <2>1, <3>1, <4>1, FanContents
      <4>3. o.rc \in Codes /\ o.info \in InfoType
        BY <2>1, <3>1, <4>1, StartTypes, FanParseType
      <4> QED BY <2>3, <4>2, <4>3, GotContents
    <3>2. CASE Images[buf].format = "psu"
      <4>1. o \in PsuParse(buf, size, Cleared)
        BY <2>1, <2>3, <3>2 DEF Outcomes
      <4>2. Written(o.info) /\ From(o.info, Fields, buf)
        BY <2>1, <2>3, <3>2, <4>1, PsuContents
      <4>3. o.rc \in Codes /\ o.info \in InfoType
        BY <2>1, <2>3, <3>2, <4>1, StartTypes, PsuParseType
      <4> QED BY <2>3, <4>2, <4>3, GotContents
    <3> QED BY <2>1, <3>1, <3>2, EepromAssumption DEF Formats
  <2> QED BY <1>8, <2>2, <2>3 DEF Parse
<1> QED BY <1>3, <1>4, <1>5, <1>6, <1>7, <1>8

\* Numbers that are put into the structure of a tray.
LEMMA NumberContents ==
  ASSUME IInv, Contents, NEW i, info' = [info EXCEPT !["tray"] = i],
         UNCHANGED <<target, reading, buf>>, pc \in {"fans", "rating"}, pc' \in {"rating", "done"},
         \A f \in Fields : i[f] = info["tray"][f] \/ \E n : i[f] = Number(n)
  PROVE  Contents'
<1>1. /\ info \in [Slots -> InfoType] /\ target = "tray" /\ reading = "board"
      /\ Written(info["tray"]) /\ info["board"] = Untouched
  BY DEF IInv, TypeOK, InfoType, Flow, Contents
<1>2. info'["tray"] = i /\ info'["board"] = info["board"] /\ Slots = {"tray", "board"}
  BY <1>1 DEF Slots
<1>3. Written(i)
  BY <1>1, PlainValues DEF Written
<1>4. \A fs \in SUBSET Fields : \A x : From(info["tray"], fs, x) => From(i, fs, x)
  BY PlainValues DEF From
<1>5. /\ \E x : From(i, BoardFields, x)
      /\ \E x : From(i, Fields \ BoardFields, x)
  BY <1>1, <1>2, <1>4, FieldParts DEF Contents
<1> QED BY <1>1, <1>2, <1>3, <1>5 DEF Contents

LEMMA ContentsHold == IInv /\ Contents /\ [Next]_vars => Contents'
<1> SUFFICES ASSUME IInv, Contents, [Next]_vars PROVE Contents'
  OBVIOUS
<1> Slots = {"tray", "board"}
  BY DEF Slots
<1>1. ASSUME NEW s \in Slots, Call(s) PROVE Contents'
  <2>1. From(Untouched, Fields, buf)
    BY PlainStructures
  <2>2. /\ pc = "idle" /\ UNCHANGED <<info, buf>> /\ target' = s /\ reading' = s
        /\ pc' = "measure" \/ (pc' = "done" /\ rc' = "EPERM")
    BY <1>1 DEF Call, Goto, Stop
  <2> QED BY <2>1, <2>2 DEF Contents
<1>2. ASSUME NEW s \in Slots, HotSwap(s) PROVE Contents'
  BY <1>2 DEF HotSwap, Contents
<1>3. CASE AskBoard
  <2>1. CASE Die("board")
    BY <2>1 DEF Die, Goto, IInv, Flow, Contents
  <2>2. CASE /\ config.board = "full" /\ Goto("board", "measure") /\ reading' = "board"
             /\ info' = [info EXCEPT !["board"] = Cleared]
             /\ UNCHANGED <<config, image, target, size, buf, parsing, fans, rc>>
    <3>1. info'["board"] = Cleared /\ info'["tray"] = info["tray"]
      BY <2>2 DEF IInv, TypeOK
    <3>2. From(Cleared, BoardFields, buf) /\ From(Cleared, Fields \ BoardFields, buf)
          /\ From(Cleared, Fields, buf) /\ Written(Cleared)
      BY PlainStructures, FieldParts
    <3>3. rc = "ok" /\ target = "tray" /\ Written(info["tray"])
      BY <2>2 DEF Goto, IInv, Flow, Contents
    <3> QED BY <2>2, <3>1, <3>2, <3>3 DEF Goto, Contents
  <2> QED BY <1>3, <2>1, <2>2 DEF AskBoard
<1>4. CASE ReadFan
  BY <1>4 DEF ReadFan, Contents
<1>5. ASSUME pc \in {"fans", "rating"}, pc' = "done", UNCHANGED <<info, target, reading, buf>>
      PROVE  Contents'
  BY <1>5 DEF IInv, Flow, Contents
<1>6. CASE FanTray
  <2>1. pc = "fans" /\ pc' = "done" /\ UNCHANGED <<target, reading, buf>>
    BY <1>6 DEF FanTray, FansEnd, Stop, Goto
  <2>2. CASE UNCHANGED info
    BY <1>5, <2>1, <2>2
  <2>3. CASE info' = [info EXCEPT !["tray"] = WithFans(info["tray"])]
    <3>1. \A f \in Fields : \/ WithFans(info["tray"])[f] = info["tray"][f]
                             \/ \E n : WithFans(info["tray"])[f] = Number(n)
      BY DEF WithFans, IInv, TypeOK
    <3> QED BY <2>1, <2>3, <3>1, NumberContents
  <2> QED BY <1>6, <2>2, <2>3 DEF FanTray
<1>7. CASE PsuTray
  <2> DEFINE i == [WithFans(info["tray"]) EXCEPT !["power_type"] = Number(0)]
  <2>1. /\ pc = "fans" /\ pc' = "rating" /\ UNCHANGED <<target, reading, buf>>
        /\ info' = [info EXCEPT !["tray"] = i]
    BY <1>7 DEF PsuTray, FansEnd, Goto
  <2>2. \A f \in Fields : i[f] = info["tray"][f] \/ \E n : i[f] = Number(n)
    BY DEF WithFans, IInv, TypeOK
  <2> HIDE DEF i
  <2> QED BY <2>1, <2>2, NumberContents
<1>8. CASE Rating
  <2>1. pc = "rating" /\ pc' = "done" /\ UNCHANGED <<target, reading, buf>>
    BY <1>8 DEF Rating, Stop, Goto
  <2>2. CASE UNCHANGED info
    BY <1>5, <2>1, <2>2
  <2>3. ASSUME NEW n, info' = [info EXCEPT !["tray"]["power_rating"] = Number(n)]
        PROVE  Contents'
    <3> DEFINE i == [info["tray"] EXCEPT !["power_rating"] = Number(n)]
    <3>1. info' = [info EXCEPT !["tray"] = i]
      BY <2>3 DEF IInv, TypeOK
    <3>2. \A f \in Fields : i[f] = info["tray"][f] \/ \E m : i[f] = Number(m)
      BY DEF IInv, TypeOK
    <3> HIDE DEF i
    <3> QED BY <2>1, <3>1, <3>2, NumberContents
  <2> QED BY <1>8, <2>2, <2>3 DEF Rating
<1>9. CASE Return
  <2>1. \A fs \in SUBSET Fields : \A x : From(Untouched, fs, x)
    BY PlainStructures
  <2>2. /\ pc' = "idle" /\ \A s \in Slots : info'[s] = Untouched
        /\ reading' = "tray" /\ target' = "tray"
    BY <1>9 DEF Return, Goto
  <2> QED BY <2>1, <2>2, FieldParts DEF Contents
<1>10. CASE UNCHANGED vars
  BY <1>10 DEF vars, Contents
<1> QED BY <1>1, <1>2, <1>3, <1>4, <1>6, <1>7, <1>8, <1>9, <1>10, ReadingHolds DEF Next, Step

LEMMA InitContents == Init => Contents
<1> SUFFICES ASSUME Init PROVE Contents
  OBVIOUS
<1>1. \A fs \in SUBSET Fields : \A x : From(Untouched, fs, x)
  BY PlainStructures
<1>2. \A s \in Slots : info[s] = Untouched
  BY DEF Init
<1> QED BY <1>1, <1>2, FieldParts DEF Init, Contents, Slots

\* Texts that come from one image at most.
LEMMA OneOrigin ==
  ASSUME NEW i, NEW fs, NEW x, From(i, fs, x)
  PROVE  Cardinality(Origins(i, fs)) <= 1
<1>1. Origins(i, fs) \subseteq {x}
  BY DEF From, Origins
<1>2. CASE Origins(i, fs) = {}
  BY <1>2, FS_EmptySet
<1>3. CASE Origins(i, fs) = {x}
  <2>1. \A y : Cardinality({y}) = 1
    BY FS_Singleton, Zenon
  <2>2. Cardinality(Origins(i, fs)) = 1
    BY <1>3, <2>1
  <2> QED BY <2>2
<1>4. Origins(i, fs) = {} \/ Origins(i, fs) = {x}
  BY <1>1
<1> QED BY <1>2, <1>3, <1>4

\* Whatever fails and whatever is swapped between the accesses of a call, for
\* any images: the caller's structure is as it was, with an error, or has no
\* field of the caller's making, the texts of a device from one image and the
\* names of the board from one image (sdi_entity_info.c:180-306).
THEOREM InfoNeverMixed == Spec => []InfoWholeOrUntouched
<1>1. ASSUME IInv, Contents PROVE InfoWholeOrUntouched
  <2>1. target \in Slots
    BY <1>1 DEF IInv, TypeOK
  <2>2. /\ Cardinality(Origins(info[target], BoardFields)) <= 1
        /\ Cardinality(Origins(info[target], Fields \ BoardFields)) <= 1
    BY <1>1, <2>1, OneOrigin DEF Contents
  <2>3. pc = "done" => \/ info[target] = Untouched /\ rc # "ok"
                      \/ \A f \in Fields : info[target][f] # Stale
    BY <1>1, <2>1 DEF Contents, Written
  <2> QED BY <2>2, <2>3 DEF InfoWholeOrUntouched
<1> QED BY <1>1, InitContents, ContentsHold, Invariant, PTL DEF Spec

-----------------------------------------------------------------------------
(* The loop over the TLVs. *)

\* The loop stops at the start of a TLV, or at the end of the last one.
OnTile == pc = "tlvs" => \A S \in Tilings[buf] : pos \in S \cup {Images[buf].total}

\* What a tiling says of the positions in it.
LEMMA TilingOf ==
  ASSUME NEW i \in DOMAIN Images, Images[i].format = "onie", NEW S \in Tilings[i]
  PROVE  /\ Images[i].total \in Nat /\ S \subseteq 0 .. Images[i].total - 1
         /\ 0 \in S \cup {Images[i].total}
         /\ \A p \in S : p \in Nat /\ p < Images[i].total /\ Images[i].tlv[p].length \in Nat
                       /\ TlvSize(i, p) = 2 + Images[i].tlv[p].length
                       /\ p + TlvSize(i, p) \in S \cup {Images[i].total}
         /\ \A p, q \in S : p < q => p + TlvSize(i, p) <= q
<1>1. Images[i].total \in Nat
      /\ \A p \in 0 .. Images[i].total : Images[i].tlv[p].length \in Nat
  BY EepromAssumption
<1>2. S \in SUBSET (0 .. Images[i].total - 1) /\ Tiled(i, S)
  BY DEF Tilings
<1>3. \A p \in S : p \in Nat /\ p < Images[i].total /\ Images[i].tlv[p].length \in Nat
  <2> SUFFICES ASSUME NEW p \in S
               PROVE  p \in Nat /\ p < Images[i].total /\ Images[i].tlv[p].length \in Nat
    OBVIOUS
  <2>1. p \in 0 .. Images[i].total - 1
    BY <1>2
  <2>2. p \in Nat /\ p < Images[i].total /\ p \in 0 .. Images[i].total
    BY <1>1, <2>1
  <2> QED BY <1>1, <2>2
<1>4. \A p \in S : /\ TlvSize(i, p) = 2 + Images[i].tlv[p].length
                   /\ p + TlvSize(i, p) = p + 2 + Images[i].tlv[p].length
  BY <1>3 DEF TlvSize, TlvHeader
<1>5. \A p \in S : p + 2 + Images[i].tlv[p].length \in S \cup {Images[i].total}
  BY <1>2 DEF Tiled, TlvHeader
<1>6. \A p, q \in S : p < q => p + 2 + Images[i].tlv[p].length <= q
  BY <1>2 DEF Tiled, TlvHeader
<1>7. 0 \in S \cup {Images[i].total}
  BY <1>2 DEF Tiled
<1> QED BY <1>1, <1>2, <1>3, <1>4, <1>5, <1>6, <1>7

Before(S, p) == {q \in S : q < p}

\* One more TLV lies before the next position.
LEMMA OneMoreTlv ==
  ASSUME NEW i \in DOMAIN Images, Images[i].format = "onie", NEW S \in Tilings[i],
         NEW p \in S
  PROVE  Before(S, p + TlvSize(i, p)) = Before(S, p) \cup {p}
<1>1. /\ \A q \in S : q \in Nat
      /\ TlvSize(i, p) = 2 + Images[i].tlv[p].length /\ Images[i].tlv[p].length \in Nat
      /\ \A q \in S : p < q => p + TlvSize(i, p) <= q
  BY TilingOf
<1>2. \A q \in S : q < p + TlvSize(i, p) <=> q < p \/ q = p
  BY <1>1
<1> QED BY <1>2 DEF Before

\* Of several TLVs with one type, the last that fits.
LEMMA LastOfMore ==
  \A i, f : \A T \in SUBSET Nat : \A p \in Nat :
    (\A q \in T : q < p) =>
      /\ f \in SetBy(Images[i].tlv[p]) => LastOf(i, T \cup {p}, f) = TlvValue(i, p)
      /\ f \notin SetBy(Images[i].tlv[p]) => LastOf(i, T \cup {p}, f) = LastOf(i, T, f)
<1> SUFFICES ASSUME NEW i, NEW f, NEW T \in SUBSET Nat, NEW p \in Nat, \A q \in T : q < p
             PROVE  /\ f \in SetBy(Images[i].tlv[p]) => LastOf(i, T \cup {p}, f) = TlvValue(i, p)
                    /\ f \notin SetBy(Images[i].tlv[p]) => LastOf(i, T \cup {p}, f) = LastOf(i, T, f)
  OBVIOUS
<1> DEFINE U(S) == {q \in S : f \in SetBy(Images[i].tlv[q])}
<1>1. CASE f \in SetBy(Images[i].tlv[p])
  <2>1. U(T \cup {p}) = U(T) \cup {p}
    BY <1>1
  <2>2. U(T) \subseteq Nat /\ \A q \in U(T) : q < p
    OBVIOUS
  <2> DEFINE last == CHOOSE x \in U(T \cup {p}) : \A q \in U(T \cup {p}) : q <= x
  <2>3. p \in U(T \cup {p}) /\ \A q \in U(T \cup {p}) : q <= p
    BY <2>1, <2>2
  <2>4. \A x \in U(T \cup {p}) : (\A q \in U(T \cup {p}) : q <= x) => x = p
    BY <2>1, <2>2
  <2>5. last = p
    <3> HIDE DEF U
    <3> QED BY <2>3, <2>4
  <2>6. LastOf(i, T \cup {p}, f) = TlvValue(i, last)
    BY <2>3 DEF LastOf
  <2> QED BY <1>1, <2>5, <2>6
<1>2. CASE ~(f \in SetBy(Images[i].tlv[p]))
  <2>1. U(T \cup {p}) = U(T)
    BY <1>2
  <2> DEFINE L(V) == IF V = {} THEN OnieStart[f]
                     ELSE TlvValue(i, CHOOSE x \in V : \A q \in V : q <= x)
  <2>2. LastOf(i, T \cup {p}, f) = L(U(T \cup {p}))
    BY Zenon DEF LastOf
  <2>3. LastOf(i, T, f) = L(U(T))
    BY Zenon DEF LastOf
  <2> HIDE DEF U, L
  <2>4. LastOf(i, T \cup {p}, f) = LastOf(i, T, f)
    BY <2>1, <2>2, <2>3
  <2> QED BY <1>2, <2>4
<1> QED BY <1>1, <1>2

LEMMA LastOfNone ==
  ASSUME NEW i, NEW f
  PROVE  LastOf(i, {}, f) = OnieStart[f]
  BY DEF LastOf

TlvInv == OnTile /\ LastTlvWins

LEMMA TlvsBegin ==
  ASSUME IInv, OpenTlvs
  PROVE  TlvInv'
<1>1. CASE pc' # "tlvs"
  BY <1>1 DEF TlvInv, OnTile, LastTlvWins
<1>2. CASE pc' = "tlvs"
  <2>1. /\ info' = [info EXCEPT ![reading] = OnieStart] /\ pos' = 0 /\ UNCHANGED <<buf, reading>>
        /\ buf \in DOMAIN Images /\ Images[buf].format = "onie" /\ reading \in Slots
        /\ info \in [Slots -> InfoType]
    BY <1>2 DEF OpenTlvs, Got, Goto, Stop, IInv, TypeOK, InfoType
  <2>2. info'[reading] = OnieStart
    BY <2>1
  <2>3. ASSUME NEW S \in Tilings[buf], NEW f \in Fields
        PROVE  /\ 0 \in S \cup {Images[buf].total}
               /\ info'[reading][f] = LastOf(buf, {p \in S : p < 0}, f)
    <3>1. \A p \in S : p \in Nat
      BY <2>1, TilingOf
    <3>2. {p \in S : p < 0} = {}
      BY <3>1
    <3>3. LastOf(buf, {p \in S : p < 0}, f) = OnieStart[f]
      BY <3>2, LastOfNone
    <3>4. 0 \in S \cup {Images[buf].total}
      BY <2>1, TilingOf
    <3> QED BY <2>2, <3>3, <3>4
  <2>4. \A S \in Tilings[buf] : 0 \in S \cup {Images[buf].total}
    BY <2>1, TilingOf
  <2> QED BY <2>1, <2>3, <2>4 DEF TlvInv, OnTile, LastTlvWins
<1> QED BY <1>1, <1>2

LEMMA TlvsGoOn ==
  ASSUME IInv, TlvInv, Tlv
  PROVE  TlvInv'
<1>1. /\ pc = "tlvs" /\ buf \in DOMAIN Images /\ Images[buf].format = "onie"
      /\ pos \in Nat /\ pos < Images[buf].total /\ Images[buf].total \in Nat
      /\ UNCHANGED <<pc, buf, reading>> /\ pos' = pos + TlvSize(buf, pos)
  BY TlvPosition DEF Tlv
<1>2. /\ info' = [info EXCEPT ![reading] = TakeTlv(buf, pos, info[reading])]
      /\ info \in [Slots -> InfoType] /\ reading \in Slots
  BY DEF Tlv, IInv, TypeOK, InfoType
<1>3. info'[reading] = TakeTlv(buf, pos, info[reading]) /\ info[reading] \in InfoType
  BY <1>2
<1>4. ASSUME NEW f \in Fields
      PROVE  info'[reading][f] =
               IF f \in SetBy(Images[buf].tlv[pos])
               THEN TlvValue(buf, pos) ELSE info[reading][f]
  BY <1>3 DEF TakeTlv, InfoType
<1>5. ASSUME NEW S \in Tilings[buf]
      PROVE  /\ pos' \in S \cup {Images[buf].total}
             /\ \A f \in Fields : info'[reading][f] = LastOf(buf, {p \in S : p < pos'}, f)
  <2>1. pos \in S
    BY <1>1 DEF TlvInv, OnTile
  <2>2. pos' \in S \cup {Images[buf].total} /\ \A p \in S : p \in Nat
    BY <1>1, <2>1, TilingOf
  <2>3. Before(S, pos') = Before(S, pos) \cup {pos}
    BY <1>1, <2>1, OneMoreTlv
  <2>4. Before(S, pos) \subseteq Nat /\ \A q \in Before(S, pos) : q < pos
    BY <2>2 DEF Before
  <2>5. ASSUME NEW f \in Fields PROVE info'[reading][f] = LastOf(buf, Before(S, pos'), f)
    <3>1. info[reading][f] = LastOf(buf, Before(S, pos), f)
      BY <1>1 DEF TlvInv, LastTlvWins, Before
    <3>2. /\ f \in SetBy(Images[buf].tlv[pos]) =>
               LastOf(buf, Before(S, pos) \cup {pos}, f) = TlvValue(buf, pos)
          /\ f \notin SetBy(Images[buf].tlv[pos]) =>
               LastOf(buf, Before(S, pos) \cup {pos}, f) = LastOf(buf, Before(S, pos), f)
      BY <1>1, <2>4, LastOfMore, SMTT(30)
    <3> QED BY <1>4, <2>3, <3>1, <3>2
  <2> QED BY <2>2, <2>5 DEF Before
<1> QED BY <1>1, <1>5 DEF TlvInv, OnTile, LastTlvWins

LEMMA TlvsHold == IInv /\ TlvInv /\ [Next]_vars => TlvInv'
<1> SUFFICES ASSUME IInv, TlvInv, [Next]_vars PROVE TlvInv'
  OBVIOUS
<1>1. ASSUME pc' # "tlvs" PROVE TlvInv'
  BY <1>1 DEF TlvInv, OnTile, LastTlvWins
<1>2. CASE UNCHANGED <<pc, buf, reading, info, pos>>
  BY <1>2 DEF TlvInv, OnTile, LastTlvWins
<1>3. ASSUME NEW s \in Slots, Call(s) \/ HotSwap(s) PROVE TlvInv'
  BY <1>1, <1>2, <1>3 DEF Call, HotSwap, Goto, Stop, parsing
<1>4. CASE Measure \/ Read \/ CloseTlvs \/ Parse \/ AskBoard
  BY <1>1, <1>4 DEF Measure, Read, CloseTlvs, Parse, AskBoard, Die, Got, Goto, Stop
<1>5. CASE ReadFan \/ FanTray \/ PsuTray \/ Rating \/ Return
  BY <1>1, <1>5 DEF ReadFan, FanTray, PsuTray, Rating, Return, Goto, Stop
<1> QED BY <1>1, <1>2, <1>3, <1>4, <1>5, TlvsBegin, TlvsGoOn DEF Next, Step, vars, parsing

\* The loop over the TLVs of any image, with TLVs of any types and lengths in
\* any order, meets each of them once: a text or a number is of the last TLV of
\* its type that fits, and each byte of base_mac of the last that reaches it
\* (sdi_eeprom_utils.c:55-148).
THEOREM LastTlvAlwaysWins == Spec => []LastTlvWins
<1>1. Init => TlvInv
  BY DEF Init, TlvInv, OnTile, LastTlvWins
<1>2. TlvInv => LastTlvWins
  BY DEF TlvInv
<1> QED BY <1>1, <1>2, Invariant, TlvsHold, PTL DEF Spec

-----------------------------------------------------------------------------
(* Where the texts are copied from. *)

\* TextsInsideBuffer of any structure, image and size.
Inside(i, b, n) ==
  b # "gone" /\ WellFormed(b) /\ (Images[b].format # "psu" => n = Images[b].size) =>
    \A f \in TextFields \cup MacFields : i[f].kind = b => EndsInside(b, f, i[f].at, n)

\* What a buffer was read from.
Buffers == DOMAIN Images \cup {"gone"}

LEMMA PlainInside ==
  ASSUME NEW b \in Buffers, NEW n, NEW i \in {Untouched, Cleared, OnieStart}
  PROVE  Inside(i, b, n)
<1>1. \A f \in TextFields \cup MacFields : i[f] \in {Stale, Zero, Default}
  BY DEF Untouched, Cleared, OnieStart, Fields
<1> QED BY <1>1, PlainValues DEF Inside, Buffers

LEMMA TlvInside ==
  ASSUME NEW i \in DOMAIN Images, Images[i].format = "onie", NEW n \in Nat,
         NEW p \in Nat, p < Images[i].total,
         \A S \in Tilings[i] : p \in S \cup {Images[i].total},
         NEW s \in InfoType, Inside(s, i, n)
  PROVE  Inside(TakeTlv(i, p, s), i, n)
<1>1. SUFFICES ASSUME i # "gone", WellFormed(i), n = Images[i].size,
                      NEW f \in TextFields \cup MacFields,
                      TakeTlv(i, p, s)[f].kind = i
               PROVE  EndsInside(i, f, TakeTlv(i, p, s)[f].at, n)
  BY DEF Inside
<1>2. f \in Fields
  BY DEF Fields
<1>3. CASE TakeTlv(i, p, s)[f] = s[f]
  BY <1>1, <1>3 DEF Inside
<1>4. CASE TakeTlv(i, p, s)[f] = TlvValue(i, p)
  <2>1. TlvValue(i, p) = Copied(i, p)
    BY <1>1, <1>4, PlainValues DEF TlvValue
  <2>2. TakeTlv(i, p, s)[f].at = p
    BY <1>4, <2>1 DEF Copied, Value
  <2>3. Tilings[i] # {} /\ OnieHeader + Images[i].total <= n
    BY <1>1 DEF WellFormed
  <2>4. PICK S \in Tilings[i] : TRUE
    BY <2>3
  <2>5. p \in S
    <3>1. Images[i].total \in Nat
      BY EepromAssumption
    <3> QED BY <3>1
  <2>6. /\ Images[i].tlv[p].length \in Nat /\ TlvSize(i, p) = 2 + Images[i].tlv[p].length
        /\ p + TlvSize(i, p) \in S \cup {Images[i].total} /\ Images[i].total \in Nat
        /\ \A q \in S : q \in Nat /\ q < Images[i].total
    BY <2>5, TilingOf
  <2>7. p + TlvSize(i, p) <= Images[i].total
    BY <2>6
  <2>8. OnieHeader + p + TlvHeader + Images[i].tlv[p].length <= n
    BY <2>3, <2>6, <2>7 DEF OnieHeader, TlvHeader
  <2> QED BY <2>2, <2>8 DEF EndsInside
<1> QED BY <1>2, <1>3, <1>4 DEF TakeTlv, InfoType

\* A serial number takes the size of another field if it does not fit: these
\* sizes are not in the repository.
PpidFits == FieldSize["ppid"] < 24 => FieldSize["part_number"] <= 116

LEMMA FanFieldEnds ==
  ASSUME PpidFits, NEW f \in DOMAIN FanAt
  PROVE  FanLen[f] \in Nat /\ FanAt[f] \in Nat /\ FanAt[f] + FanLen[f] <= FanEnd
<1>1. /\ FieldSize["ppid"] \in Nat /\ FieldSize["part_number"] \in Nat
      /\ FieldSize["hw_revision"] \in Nat /\ FieldSize["prod_name"] \in Nat
  BY EepromAssumption DEF TextFields, LabelFields
<1>2. \A a, b \in Nat : Shorter(a, b) \in Nat /\ Shorter(a, b) <= a
  BY DEF Shorter
<1>3. f \in {"ppid", "part_number", "hw_revision", "prod_name"}
  BY DEF FanAt
<1>4. FanEnd = 124
  BY DEF FanEnd, FanAt
<1>5. CASE f = "ppid"
  BY <1>1, <1>4, <1>5 DEF FanLen, FanAt, PpidFits
<1>6. CASE f = "part_number"
  <2>1. FanLen[f] = Shorter(20, FieldSize["part_number"]) /\ FanAt[f] = 32
    BY <1>6 DEF FanLen, FanAt
  <2>2. Shorter(20, FieldSize["part_number"]) \in Nat /\ Shorter(20, FieldSize["part_number"]) <= 20
    BY <1>1, <1>2
  <2> QED BY <1>4, <2>1, <2>2
<1>7. CASE f = "hw_revision"
  <2>1. FanLen[f] = Shorter(4, FieldSize["hw_revision"]) /\ FanAt[f] = 52
    BY <1>7 DEF FanLen, FanAt
  <2>2. Shorter(4, FieldSize["hw_revision"]) \in Nat /\ Shorter(4, FieldSize["hw_revision"]) <= 4
    BY <1>1, <1>2
  <2> QED BY <1>4, <2>1, <2>2
<1>8. CASE f = "prod_name"
  <2>1. FanLen[f] = Shorter(64, FieldSize["prod_name"]) /\ FanAt[f] = 60
    BY <1>8 DEF FanLen, FanAt
  <2>2. Shorter(64, FieldSize["prod_name"]) \in Nat /\ Shorter(64, FieldSize["prod_name"]) <= 64
    BY <1>1, <1>2
  <2> QED BY <1>4, <2>1, <2>2
<1> QED BY <1>3, <1>5, <1>6, <1>7, <1>8

LEMMA FanInside ==
  ASSUME PpidFits, NEW i \in DOMAIN Images, Images[i].format = "fan", NEW n \in Nat,
         NEW o \in FanParse(i, n, Cleared)
  PROVE  Inside(o.info, i, n)
<1>1. CASE o.info = Cleared
  BY <1>1, PlainInside DEF Buffers
<1>2. ASSUME \A f \in TextFields \cup MacFields : o.info[f] = FanTexts(i, Cleared)[f]
      PROVE  Inside(o.info, i, n)
  <2>1. SUFFICES ASSUME WellFormed(i), n = Images[i].size,
                        NEW f \in TextFields \cup MacFields, o.info[f].kind = i
                 PROVE  EndsInside(i, f, o.info[f].at, n)
    BY DEF Inside
  <2>2. o.info[f] = FanTexts(i, Cleared)[f] /\ f \in Fields
    BY <1>2 DEF Fields
  <2>3. f \in DOMAIN FanAt /\ o.info[f] = Copied(i, FanOffset(Images[i].block1, FanAt[f]))
    <3>1. CASE f \in DOMAIN FanAt
      BY <2>2, <3>1 DEF FanTexts, Filled
    <3>2. CASE f \notin DOMAIN FanAt
      <4>1. o.info[f] = Zero
        BY <2>2, <3>2 DEF FanTexts, Filled, Cleared
      <4> QED BY <2>1, <4>1, PlainValues
    <3> QED BY <3>1, <3>2
  <2>4. o.info[f].at = FanOffset(Images[i].block1, FanAt[f])
    BY <2>3 DEF Copied, Value
  <2>5. Images[i].block1 \in Nat
    <3>1. Images[i].block1 \in 0 .. 255
      BY EepromAssumption
    <3> QED BY <3>1
  <2>6. FanLen[f] \in Nat /\ FanAt[f] \in Nat /\ FanAt[f] + FanLen[f] <= FanEnd
    BY <2>3, FanFieldEnds
  <2>7. FanOffset(Images[i].block1, FanAt[f]) \in Nat
        /\ FanOffset(Images[i].block1, FanAt[f]) <= Images[i].block1 * 16 + FanAt[f]
    BY <2>5, <2>6, FanOffsetType
  <2>8. Images[i].block1 * 16 + FanEnd <= n
    BY <2>1 DEF WellFormed
  <2>9. FanOffset(Images[i].block1, FanAt[f]) + FanLen[f] <= n
    <3>1. FanEnd \in Nat
      BY DEF FanEnd, FanAt
    <3> DEFINE b == Images[i].block1
               l == FanLen[f]
               a == FanAt[f]
               x == FanOffset(Images[i].block1, FanAt[f])
    <3>2. /\ b \in Nat /\ l \in Nat /\ a \in Nat /\ x \in Nat
          /\ x <= b * 16 + a /\ a + l <= FanEnd /\ b * 16 + FanEnd <= n
      BY <2>5, <2>6, <2>7, <2>8
    <3> HIDE DEF b, l, a, x
    <3>3. x + l <= n
      BY <3>1, <3>2
    <3> QED BY <3>3 DEF x, l
  <2> QED BY <2>4, <2>9 DEF EndsInside
<1>3. CASE o.info = FanTexts(i, Cleared)
  BY <1>2, <1>3
<1>4. ASSUME NEW a, o.info = [FanTexts(i, Cleared) EXCEPT !["air_flow"] = Number(a)]
      PROVE  Inside(o.info, i, n)
  <2>1. \A f \in TextFields \cup MacFields : o.info[f] = FanTexts(i, Cleared)[f]
    BY <1>4, EepromAssumption
       DEF FanTexts, Filled, Fields, TextFields, BoardFields, LabelFields, NumberFields
  <2> QED BY <1>2, <2>1
<1>5. \/ o.info = Cleared
      \/ o.info = FanTexts(i, Cleared)
      \/ \E a \in Nat : o.info = [FanTexts(i, Cleared) EXCEPT !["air_flow"] = Number(a)]
  BY FanOutcomes
<1> QED BY <1>1, <1>3, <1>4, <1>5

LEMMA PsuInside ==
  ASSUME NEW i \in DOMAIN Images, Images[i].format = "psu", NEW n \in Nat,
         NEW o \in PsuParse(i, n, Cleared), o.rc # "killed"
  PROVE  Inside(o.info, i, n)
<1>1. CASE o.info = Cleared
  BY <1>1, PlainInside DEF Buffers
<1>2. \A f \in Fields : PsuNamed(Cleared)[f] \in {Zero, Default}
  BY DEF PsuNamed, Cleared
<1>3. CASE o.info = PsuNamed(Cleared)
  <2>1. \A f \in TextFields \cup MacFields : o.info[f].kind # i
    BY <1>2, <1>3, PlainValues DEF Fields
  <2> QED BY <2>1 DEF Inside
<1>4. CASE o.info = PsuTexts(i, n, Cleared)
  <2> DEFINE first == FirstLabel(i, n)
  <2>1. SUFFICES ASSUME NEW f \in TextFields \cup MacFields, o.info[f].kind = i
                 PROVE  EndsInside(i, f, o.info[f].at, n)
    BY DEF Inside
  <2>2. f \in Fields
    BY DEF Fields
  <2>3. CASE f \in PsuFitting(first, n)
    <3>1. o.info[f] = Copied(i, first + PsuAt[f])
      BY <1>4, <2>2, <2>3 DEF PsuTexts, Filled
    <3>2. o.info[f].at = first + PsuAt[f]
      BY <3>1 DEF Copied, Value
    <3>3. first + PsuAt[f] + PsuLen[f] <= n
      BY <2>3 DEF PsuFitting
    <3> QED BY <3>2, <3>3 DEF EndsInside
  <2>4. CASE f \notin PsuFitting(first, n)
    <3>1. o.info[f] = PsuNamed(Cleared)[f]
      BY <1>4, <2>2, <2>4 DEF PsuTexts, Filled
    <3> QED BY <1>2, <2>1, <2>2, <3>1, PlainValues
  <2> QED BY <2>3, <2>4
<1> QED BY <1>1, <1>3, <1>4, PsuOutcomes

LEMMA GotInside ==
  ASSUME IInv, Contents, NEW from, NEW s, NEW i, Got(from, s, i),
         UNCHANGED <<reading, size, buf>>, Inside(i, buf, size)
  PROVE  TextsInsideBuffer'
<1>1. info \in [Slots -> InfoType] /\ reading \in Slots /\ target \in Slots /\ buf \in Buffers
  BY DEF IInv, TypeOK, InfoType, Buffers
<1>2. CASE reading = target
  <2>1. info'[reading] = i
    BY <1>1, <1>2 DEF Got
  <2> QED BY <2>1 DEF Inside, TextsInsideBuffer, WholeImage
<1>3. CASE reading # target
  <2>1. reading = "board"
    BY <1>3 DEF IInv, Flow
  <2>2. info'[reading] = Untouched
    BY <1>3, <2>1 DEF Got
  <2>3. Inside(Untouched, buf, size)
    BY <1>1, PlainInside
  <2> QED BY <2>2, <2>3 DEF Inside, TextsInsideBuffer, WholeImage
<1> QED BY <1>2, <1>3

\* Steps after which the structure of the entity that is read holds no text.
LEMMA PlainStep ==
  ASSUME IInv', info'[reading'] \in {Untouched, Cleared, OnieStart}
  PROVE  TextsInsideBuffer'
<1>1. buf' \in Buffers
  BY DEF IInv, TypeOK, Buffers
<1>2. Inside(info'[reading'], buf', size')
  BY <1>1, PlainInside
<1> QED BY <1>2 DEF Inside, TextsInsideBuffer, WholeImage

LEMMA InsideHolds ==
  ASSUME PpidFits
  PROVE  IInv /\ Contents /\ TlvInv /\ TextsInsideBuffer /\ [Next]_vars => TextsInsideBuffer'
<1> SUFFICES ASSUME IInv, Contents, TlvInv, TextsInsideBuffer, [Next]_vars
             PROVE  TextsInsideBuffer'
  OBVIOUS
<1> IInv'
  BY NextHolds
<1>1. /\ info \in [Slots -> InfoType] /\ info[reading] \in InfoType
      /\ reading \in Slots /\ target \in Slots /\ buf \in Buffers /\ size \in Nat
      /\ Inside(info[reading], buf, size)
  BY DEF IInv, TypeOK, InfoType, Buffers, Inside, TextsInsideBuffer, WholeImage
<1>2. ASSUME UNCHANGED <<info, reading, buf, size>> PROVE TextsInsideBuffer'
  BY <1>2 DEF TextsInsideBuffer, WholeImage
<1>3. ASSUME NEW s \in Slots, Call(s) PROVE TextsInsideBuffer'
  <2>1. info'[reading'] = Untouched
    BY <1>3 DEF Call, Goto, Stop, Contents
  <2> QED BY <2>1, PlainStep
<1>4. ASSUME NEW s \in Slots, HotSwap(s) PROVE TextsInsideBuffer'
  BY <1>2, <1>4 DEF HotSwap
<1>5. CASE Measure
  <2>1. info[reading] \in {Untouched, Cleared} /\ UNCHANGED reading
    BY <1>5 DEF Measure, Got, Goto, Stop, Contents
  <2>2. info'[reading] \in {Untouched, Cleared}
    <3>1. CASE UNCHANGED info
      BY <2>1, <3>1
    <3>2. CASE \E s \in {"error", "ENOMEM"} : Got("measure", s, info[reading])
      <4>1. CASE reading = target
        BY <1>1, <2>1, <3>2, <4>1 DEF Got
      <4>2. CASE reading # target
        BY <3>2, <4>2 DEF Got, IInv, Flow
      <4> QED BY <4>1, <4>2
    <3> QED BY <1>5, <3>1, <3>2 DEF Measure
  <2> QED BY <2>1, <2>2, PlainStep
<1>6. CASE Read
  <2>1. CASE Got("read", "EIO", info[reading]) /\ UNCHANGED buf
    BY <1>1, <1>6, <2>1, GotInside DEF Read
  <2>2. CASE info' = [info EXCEPT ![reading] = Cleared]
    BY <1>1, <1>6, <2>2, PlainStep DEF Read
  <2> QED BY <1>6, <2>1, <2>2 DEF Read
<1>7. CASE OpenTlvs
  <2>1. CASE Got("parse", "EINVAL", info[reading])
    BY <1>1, <1>7, <2>1, GotInside DEF OpenTlvs
  <2>2. CASE info' = [info EXCEPT ![reading] = OnieStart]
    BY <1>1, <1>7, <2>2, PlainStep DEF OpenTlvs
  <2> QED BY <1>7, <2>1, <2>2 DEF OpenTlvs
<1>8. CASE Tlv
  <2>1. /\ buf \in DOMAIN Images /\ Images[buf].format = "onie" /\ pos \in Nat
        /\ pos < Images[buf].total /\ pc = "tlvs" /\ UNCHANGED <<reading, buf, size>>
        /\ info' = [info EXCEPT ![reading] = TakeTlv(buf, pos, info[reading])]
    BY <1>8, TlvPosition DEF Tlv
  <2>2. \A S \in Tilings[buf] : pos \in S \cup {Images[buf].total}
    BY <2>1 DEF TlvInv, OnTile
  <2>3. Inside(TakeTlv(buf, pos, info[reading]), buf, size)
    BY <1>1, <2>1, <2>2, TlvInside
  <2>4. info'[reading] = TakeTlv(buf, pos, info[reading])
    BY <1>1, <2>1
  <2> QED BY <2>1, <2>3, <2>4 DEF Inside, TextsInsideBuffer, WholeImage
<1>9. CASE CloseTlvs
  BY <1>1, <1>9, GotInside DEF CloseTlvs
<1>10. CASE Parse
  <2>1. /\ pc = "parse" /\ info[reading] = Cleared
        /\ buf \in DOMAIN Images /\ Images[buf].format = config.format[reading]
        /\ config.format[reading] # "onie"
    BY <1>10 DEF Parse, Contents, IInv, TypeOK
  <2>2. CASE Die("parse")
    BY <1>2, <2>2 DEF Die
  <2>3. ASSUME NEW o \in Outcomes, o.rc # "killed", Got("parse", o.rc, o.info),
               UNCHANGED <<reading, size, buf>>
        PROVE  TextsInsideBuffer'
    <3>1. CASE Images[buf].format = "fan"
      <4>1. o \in FanParse(buf, size, Cleared)
        BY <2>1, <2>3, <3>1 DEF Outcomes
      <4>2. Inside(o.info, buf, size)
        BY <1>1, <2>1, <3>1, <4>1, FanInside
      <4> QED BY <2>3, <4>2, GotInside
    <3>2. CASE Images[buf].format = "psu"
      <4>1. o \in PsuParse(buf, size, Cleared)
        BY <2>1, <2>3, <3>2 DEF Outcomes
      <4>2. Inside(o.info, buf, size)
        BY <1>1, <2>1, <2>3, <3>2, <4>1, PsuInside
      <4> QED BY <2>3, <4>2, GotInside
    <3> QED BY <2>1, <3>1, <3>2, EepromAssumption DEF Formats
  <2> QED BY <1>10, <2>2, <2>3 DEF Parse
<1>11. CASE AskBoard
  <2>1. CASE Die("board")
    BY <1>2, <2>1 DEF Die
  <2>2. CASE reading' = "board" /\ info' = [info EXCEPT !["board"] = Cleared]
    <3>1. info'[reading'] = Cleared
      BY <1>1, <2>2 DEF Slots
    <3> QED BY <3>1, PlainStep
  <2> QED BY <1>11, <2>1, <2>2 DEF AskBoard
<1>12. CASE ReadFan
  BY <1>2, <1>12 DEF ReadFan
<1>13. CASE FanTray \/ PsuTray \/ Rating
  <2>1. pc \in {"fans", "rating"} /\ UNCHANGED reading
    BY <1>13 DEF FanTray, PsuTray, Rating, FansEnd, Goto, Stop
  <2>2. reading = "board" /\ info["board"] = Untouched
    BY <2>1 DEF IInv, Flow, Contents
  <2>3. info'["board"] = info["board"]
    BY <1>1, <1>13 DEF FanTray, PsuTray, Rating, Slots
  <2> QED BY <2>1, <2>2, <2>3, PlainStep
<1>14. CASE Return
  <2>1. info'[reading'] = Untouched
    BY <1>14 DEF Return, Slots
  <2> QED BY <2>1, PlainStep
<1>15. CASE UNCHANGED vars
  BY <1>2, <1>15 DEF vars
<1> QED BY <1>3, <1>4, <1>5, <1>6, <1>7, <1>8, <1>9, <1>10, <1>11, <1>12, <1>13, <1>14, <1>15
        DEF Next, Step

\* No field of a well-formed image is copied from behind the buffer that holds
\* the whole of it, and none of any PSU image from behind any buffer, for images
\* of any size, as long as the size of the part number's field does no harm
\* (sdi_eeprom_utils.c:55-335).
THEOREM TextsStayInside ==
  ASSUME PpidFits
  PROVE  Spec => []TextsInsideBuffer
<1>1. Init => TextsInsideBuffer
  BY DEF Init, TextsInsideBuffer
<1>2. Init => TlvInv
  BY DEF Init, TlvInv, OnTile, LastTlvWins
<1>3. IInv /\ Contents /\ TlvInv /\ TextsInsideBuffer /\ [Next]_vars => TextsInsideBuffer'
  BY InsideHolds
<1> QED BY <1>1, <1>2, <1>3, Invariant, InitContents, ContentsHold, TlvsHold, PTL DEF Spec
=============================================================================

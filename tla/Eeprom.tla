-------------------------------- MODULE Eeprom --------------------------------
(***************************************************************************)
(* The three EEPROM formats of utils/sdi_eeprom_utils.c.  An image is what *)
(* its parser sees of it: lengths, pointers, types and labels are numbers  *)
(* and positions as in the code, a text is known by the place it is copied *)
(* from.  FAN and PSU images are parsed in one go here; the loop over the  *)
(* TLVs of an ONIE image is in EntityInfo, one step per TLV.               *)
(*                                                                         *)
(* The parsers compare few of their positions with the size of the buffer. *)
(* What lies behind the buffer is a part of the image, with any content.   *)
(***************************************************************************)
EXTENDS Integers, Sequences

CONSTANTS
  Images,      \* the images: a function from their names to records
  FieldSize,   \* sizeof of the texts of sdi_entity_info_t
  MacBytes     \* names for the bytes of its base_mac, in their order

Formats == {"onie", "fan", "psu"}

\* Fields of sdi_entity_info_t.
BoardFields == {"vendor_name", "service_tag", "platform_name"}
LabelFields == {"ppid", "part_number", "hw_revision"}
TextFields  == BoardFields \cup LabelFields \cup {"prod_name"}
MacFields   == {MacBytes[k] : k \in DOMAIN MacBytes}
NumberFields ==
  {"mac_size", "air_flow", "num_fans", "max_speed", "power_type", "power_rating"}
Fields == TextFields \cup MacFields \cup NumberFields

ASSUME EepromAssumption ==
  /\ FieldSize \in [TextFields -> Nat \ {0}]
  /\ MacBytes \in Seq(STRING) /\ MacFields \cap (TextFields \cup NumberFields) = {}
  /\ \A j, k \in DOMAIN MacBytes : MacBytes[j] = MacBytes[k] => j = k
  /\ \A i \in DOMAIN Images :
       /\ Images[i].format \in Formats
       /\ Images[i].size \in Nat
       /\ Images[i].format = "onie" =>
            /\ Images[i].total \in Nat
            /\ \A p \in 0 .. Images[i].total :
                 Images[i].tlv[p].type \in TextFields \cup {"base_mac", "mac_size", "other"}
                 /\ Images[i].tlv[p].length \in Nat /\ Images[i].tlv[p].num \in Nat
       /\ Images[i].format = "psu" => Images[i].labels \subseteq Nat
       /\ Images[i].format = "fan" =>
            /\ Images[i].block1 \in 0 .. 255 /\ Images[i].block2 \in 0 .. 255
            /\ Images[i].byte \in [0 .. 255 -> 0 .. 255]

\* Contents of a field.
Value(kind, at) == [kind |-> kind, at |-> at]
Stale   == Value("stale", 0)      \* as the caller left it
Zero    == Value("zero", 0)       \* cleared
Default == Value("default", 0)    \* "N/A", "0"
Number(n)    == Value("number", n)
Copied(i, p) == Value(i, p)       \* the text at position p of image i

Untouched == [f \in Fields |-> Stale]
Cleared   == [f \in Fields |-> Zero]

-----------------------------------------------------------------------------
(* ONIE. *)

OnieHeader == 11    \* sizeof(sdi_eeprom_onie_header_t)
TlvHeader  == 2     \* type and length

\* Bug: the header of a TLV is not counted.
TlvSizeBare(i, p) == Images[i].tlv[p].length

\* The bytes that the loop steps over for the TLV at position p.
TlvSize(i, p) == Images[i].tlv[p].length + TlvHeader

\* ntohs on a little-endian host.
Ntohs(n) == ((n % 256) * 256) + ((n \div 256) % 256)

\* The fields that a TLV sets.  One that is too long for its field is left
\* out; a text is replaced as a whole, of base_mac only the bytes that are there.
SetBy(t) ==
  CASE t.type \in TextFields -> IF t.length < FieldSize[t.type] THEN {t.type} ELSE {}
    [] t.type = "base_mac" ->
         IF t.length <= Len(MacBytes) THEN {MacBytes[k] : k \in 1 .. t.length} ELSE {}
    [] t.type = "mac_size" -> {"mac_size"}
    [] OTHER -> {}

\* The two bytes of a number of MACs are put together in the order of the
\* network, and swapped once more.
TlvValue(i, p) ==
  IF Images[i].tlv[p].type = "mac_size" THEN Number(Ntohs(Images[i].tlv[p].num))
  ELSE Copied(i, p)

\* Bug: a field that is set is not set again.
TakeTlvOnce(i, p, info) ==
  [f \in Fields |->
     IF f \in SetBy(Images[i].tlv[p]) /\ info[f] \in {Zero, Default} THEN TlvValue(i, p)
     ELSE info[f]]

TakeTlv(i, p, info) ==
  [f \in Fields |-> IF f \in SetBy(Images[i].tlv[p]) THEN TlvValue(i, p) ELSE info[f]]

\* The fields before the first TLV.
OnieStart ==
  [Cleared EXCEPT !["service_tag"] = Default, !["hw_revision"] = Default]

-----------------------------------------------------------------------------
(* FAN and PSU.  A parser returns the set of its outcomes. *)

Outcome(rc, info) == [rc |-> rc, info |-> info]

\* The fields of f in texts, a function from fields to values.
Filled(info, texts) ==
  [f \in Fields |-> IF f \in DOMAIN texts THEN texts[f] ELSE info[f]]

\* Positions are computed in an uint8_t.
FanOffset(block, offset) == (block * 16 + offset) % 256

FanAt  == [ppid |-> 8, part_number |-> 32, hw_revision |-> 52, prod_name |-> 60]
FanAir == 14

Shorter(a, b) == IF a < b THEN a ELSE b

\* Lengths of the copies; a serial number that does not fit takes the size
\* of the part number's field.
FanLen == [
  ppid        |-> IF FieldSize["ppid"] < 24 THEN FieldSize["part_number"] ELSE 24,
  part_number |-> Shorter(20, FieldSize["part_number"]),
  hw_revision |-> Shorter(4, FieldSize["hw_revision"]),
  prod_name   |-> Shorter(64, FieldSize["prod_name"])]

\* sdi_eeprom_fan_mlnx_get of an image in a buffer of n bytes.
FanParse(i, n, info) ==
  LET image == Images[i]
      air   == FanOffset(image.block2, FanAir)
      texts == Filled(info, [f \in DOMAIN FanAt |-> Copied(i, FanOffset(image.block1, FanAt[f]))])
  IN CASE air >= n -> {Outcome("EINVAL", info)}
       [] air < n /\ ~(image.label /\ image.type1 = 1) -> {Outcome("error", info)}
       [] air < n /\ image.label /\ image.type1 = 1 ->
            IF image.type2 = 5 /\ image.byte[air] \in {1, 2}
            THEN {Outcome("ok", [texts EXCEPT !["air_flow"] = Number(image.byte[air])])}
            ELSE {Outcome("error", texts)}

PsuAt  == [ppid |-> 4, part_number |-> 28, hw_revision |-> 48]
PsuLen == [f \in LabelFields |->
             Shorter([ppid |-> 24, part_number |-> 20, hw_revision |-> 4][f], FieldSize[f])]

\* The places where the label is looked for: index < size - 4.
PsuLabels(i, n) == {x \in Images[i].labels : x < n - 4}

\* Bug: texts are copied wherever they end.
PsuFittingAll(x, n) == LabelFields

\* The texts behind a label at x that end inside the buffer.
PsuFitting(x, n) == {f \in LabelFields : x + PsuAt[f] + PsuLen[f] <= n}

\* sdi_eeprom_psu_mlnx_get of an image in a buffer of n bytes.  For less than
\* four bytes, size - 4 wraps around: the search goes on behind the buffer
\* until it finds a label, or leaves the memory of the process.
PsuParse(i, n, info) ==
  LET named == [info EXCEPT !["prod_name"] = Default]
      first == CHOOSE x \in PsuLabels(i, n) : \A y \in PsuLabels(i, n) : x <= y
      fit   == PsuFitting(first, n)
  IN CASE n < 4 -> {Outcome("EINVAL", named), Outcome("killed", info)}
       [] n >= 4 /\ PsuLabels(i, n) = {} -> {Outcome("error", info)}
       [] n >= 4 /\ PsuLabels(i, n) # {} ->
            {Outcome(IF fit = LabelFields THEN "ok" ELSE "EINVAL",
                     Filled(named, [f \in fit |-> Copied(i, first + PsuAt[f])]))}
=============================================================================

----------------------------- MODULE MCEntityInfo -----------------------------
(* Small instance of EntityInfo.                                             *)
EXTENDS EntityInfo

\* An ONIE image with the given TLVs, the rest of its positions of no meaning.
Onie(sz, total, tlvs) ==
  [format |-> "onie", size |-> sz, total |-> total,
   tlv |-> [p \in 0 .. total |->
     IF p \in DOMAIN tlvs THEN tlvs[p] ELSE [type |-> "other", length |-> 0, num |-> 0]]]

Tlv3(type, length) == [type |-> type, length |-> length, num |-> 258]

FanImage(sz, block1, type2, air) ==
  [format |-> "fan", size |-> sz, label |-> TRUE, block1 |-> block1, type1 |-> 1,
   block2 |-> 1, type2 |-> type2, byte |-> [p \in 0 .. 255 |-> air]]

PsuImage(sz, labels) == [format |-> "psu", size |-> sz, labels |-> labels]

At(p, t) == [q \in {p} |-> t]

\* o1: two names, the second too long, then two revisions, the last one empty;
\* o2: the total reaches behind the buffer, the last TLV behind the total;
\* o3: larger than o1, a service tag, a base MAC and one that is shorter.
\* f1: sound, f2: a position wraps around, f3: no direction, f4: wrong block 2.
\* p1: sound, p2: label too near to the end, p3: tiny, p4: no room for a label.
MCImages == [
  o1 |-> Onie(24, 13, [p \in {0, 3, 8, 11} |->
           CASE p = 0 -> Tlv3("vendor_name", 1) [] p = 3 -> Tlv3("vendor_name", 3)
             [] p = 8 -> Tlv3("hw_revision", 1) [] p = 11 -> Tlv3("hw_revision", 0)]),
  o2 |-> Onie(14, 13, [p \in {0, 4, 10} |->
           CASE p = 0 -> Tlv3("mac_size", 2) [] p = 4 -> Tlv3("base_mac", 4)
             [] p = 10 -> Tlv3("ppid", 2)]),
  o3 |-> Onie(27, 11, [p \in {0, 3, 8} |->
           CASE p = 0 -> Tlv3("service_tag", 1) [] p = 3 -> Tlv3("base_mac", 3)
             [] p = 8 -> Tlv3("base_mac", 1)]),
  f1 |-> FanImage(255, 2, 5, 1), f2 |-> FanImage(255, 15, 5, 2),
  f3 |-> FanImage(255, 2, 5, 7), f4 |-> FanImage(255, 2, 4, 1),
  f5 |-> [FanImage(20, 2, 5, 1) EXCEPT !.label = FALSE],
  p1 |-> PsuImage(60, {3, 8}), p2 |-> PsuImage(60, {20}),
  p3 |-> PsuImage(2, {}), p4 |-> PsuImage(60, {})]

MCFieldSize ==
  [f \in TextFields |->
     CASE f = "ppid" -> 20 [] f = "prod_name" -> 64 [] f = "part_number" -> 24
       [] OTHER -> 3]

MCMacBytes == <<"mac1", "mac2", "mac3", "mac4", "mac5", "mac6">>

Config(tray, board, format, n) ==
  [tray |-> tray, board |-> board, fans |-> n,
   format |-> [s \in Slots |-> IF s = "tray" THEN format ELSE "onie"]]

MCConfigs ==
  {Config("fan_tray", "full", "fan", 2), Config("psu_tray", "full", "psu", 1),
   Config("psu_tray", "bare", "psu", 0), Config("fan_tray", "none", "fan", 0)}
MCSpeeds == {1, 2}
MCRatings == {999, 460000}
=============================================================================

--------------------------- MODULE MCEntityFramework ---------------------------
(* Configurations for EntityFramework: every sequence of up to MaxEntities  *)
(* entity nodes, and every settings document without repeated nodes (a node *)
(* without a name being one of at most two), from pools that hold           *)
(* duplicates, names that start with other names, missing attributes and    *)
(* names, and children that a register function refuses.                    *)
EXTENDS EntityFramework

CONSTANTS board, psu1, psu10, pres, pres_b, eeprom, MaxEntities, p1, p2

MCNames == {board, psu1, psu10, pres, pres_b, eeprom, Fixed}
MCPrefix == {<<n, n>> : n \in MCNames} \cup {<<psu1, psu10>>, <<pres, pres_b>>}

Child(element, name, has, path) ==
  [element |-> element, name |-> name, has |-> has, format |-> NoAttr, path |-> path]

PresenceChild(name, path) == Child("presence", name, PresenceAttributes, path)
PowerChild  == Child("power", pres, PresenceAttributes, p1)
RatingChild == Child("rating", pres_b, {"path"}, p1)
InfoChild   ==
  [Child("info", eeprom, {"path", "type", "reset", "status", "not_present", "module"}, p1)
     EXCEPT !.format = "onie"]
OtherChild  == [InfoChild EXCEPT !.format = NoAttr]
FaultChild  == Child("status", pres_b, FaultAttributes, p2)

Settings(name, type, children) == [name |-> name, type |-> type, children |-> children]

MCSettings == {
  Settings(board, NoAttr, <<InfoChild>>),
  Settings(psu1, "AC", <<PresenceChild(pres, p1), PowerChild, RatingChild, InfoChild>>),
  Settings(psu10, "DC", <<PresenceChild(pres_b, p2), OtherChild, PresenceChild(pres, p1)>>),
  Settings(psu1, NoAttr, <<PresenceChild(pres, p2), FaultChild>>)}

Nameless == Settings(NoAttr, NoAttr, <<>>)

MCDocuments ==
  {s \in SeqOf(MCSettings, 3) \cup SeqOf(MCSettings \cup {Nameless}, 2) :
     \A i, j \in 1..Len(s) : s[i] = s[j] => i = j}

Node0 == [alias |-> board, instance |-> 1, type |-> "SYSTEM_BOARD", presence |-> Fixed,
          fault |-> NoAttr, power_ctl |-> NoAttr, resources |-> <<>>]
Res(name, type) == [name |-> name, reference |-> eeprom, type |-> type]

MCEntities == {
  [Node0 EXCEPT !.resources = <<Res(pres, "ENTITY_INFO"), Res(pres_b, "FAN")>>],
  [Node0 EXCEPT !.power_ctl = eeprom, !.resources = <<Res(pres, "MEDIA")>>],
  [Node0 EXCEPT !.alias = NoAttr],
  [Node0 EXCEPT !.alias = psu1, !.type = "PSU_TRAY", !.presence = pres,
                !.resources = <<Res(eeprom, "ENTITY_INFO")>>],
  [Node0 EXCEPT !.alias = psu10, !.type = "PSU_TRAY", !.presence = pres_b],
  [Node0 EXCEPT !.alias = psu1, !.type = "FAN_TRAY", !.instance = 2, !.presence = pres,
                !.fault = pres_b],
  [Node0 EXCEPT !.resources = <<Res(eeprom, "UPGRADABLE_PLD")>>]}

MCConfigs == [entities : SeqOf(MCEntities, MaxEntities), settings : MCDocuments]
=============================================================================

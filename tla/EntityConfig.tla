----------------------------- MODULE EntityConfig -----------------------------
(***************************************************************************)
(* What registration makes of one entity of the two configuration files:   *)
(* the entity nodes of entity.xml and the settings nodes of device.xml     *)
(* (sdi_entity_framework.c, from sdi_entity_string_to_type to              *)
(* sdi_entity_register_resources).                                         *)
(*                                                                         *)
(* A document is a sequence of nodes in document order.                    *)
(*   entity node     [alias, instance, type, presence, fault, power_ctl,   *)
(*                    resources], a missing attribute being NoAttr         *)
(*   resource node   [name, reference, type]                               *)
(*   settings node   [name, type, children]                                *)
(*   child           [element, name, has, format, path]: the XML element,  *)
(*                   its "name" attribute, the other attributes it has,    *)
(*                   the EEPROM format that its "type" attribute names, if *)
(*                   any, and the sysfs attribute of its path and name     *)
(* Names are compared by strncmp with the length of the wanted name, that  *)
(* is, by prefix: Prefix relates a name to the names that start with it.   *)
(***************************************************************************)
EXTENDS Integers, Sequences, FiniteSets, SequencesExt

CONSTANTS
  Names,      \* values of the name attributes
  Prefix,     \* the pairs <<a, b>> of names such that a is a prefix of b
  Instances,  \* instance numbers
  Paths,      \* sysfs attributes of the children
  Fixed,      \* the presence of an entity that cannot be swapped
  NoAttr      \* a missing attribute

ASSUME EntityConfigAssumption ==
  /\ Prefix \subseteq Names \X Names
  /\ \A n \in Names : <<n, n>> \in Prefix
  /\ Fixed \in Names
  /\ NoAttr \notin Names

EntityTypes   == {"SYSTEM_BOARD", "FAN_TRAY", "PSU_TRAY"}
ResourceTypes == {"TEMPERATURE", "FAN", "LED", "DIGIT_DISPLAY_LED",
                  "ENTITY_INFO", "UPGRADABLE_PLD", "MEDIA"}

-----------------------------------------------------------------------------
(* Lookup in the settings document; a result is a position, 0 if none. *)

\* Bug: the name in the settings may be shorter than the wanted one.
ChildByPrefix(nodes, name) ==
  SelectInSeq(nodes, LAMBDA n : <<n.name, name>> \in Prefix)

\* sdi_settings_get_child_by_name: the first node whose name starts with name.
ChildByName(nodes, name) ==
  SelectInSeq(nodes, LAMBDA n : <<name, n.name>> \in Prefix)

\* The search of sdi_resource_register_settings: an exact match.
ChildByReference(nodes, reference) ==
  SelectInSeq(nodes, LAMBDA n : n.name = reference)

\* The search ends with a node.  It compares the name of every node on its
\* way: one without a name is a null pointer, and kills the process.
Reached(nodes, i) == i # 0 /\ \A j \in 1..i : nodes[j].name # NoAttr

HasAll(children, i, attributes) == Reached(children, i) /\ attributes \subseteq children[i].has

-----------------------------------------------------------------------------
(* What a node has to meet for its registration not to end the process: *)
(* the assertions, and the names that are compared.                     *)

PresenceAttributes == {"path", "present", "not_present"}
FaultAttributes    == {"path", "ok", "fault"}

\* Attributes that the register function of a resource type asserts; a type
\* without such a function is refused.
ResourceAttributes ==
  [ENTITY_INFO |-> {"path", "type"},
   LED         |-> {"path", "off", "on"},
   FAN         |-> {"path"},
   TEMPERATURE |-> {"path"},
   MEDIA       |-> {"path", "status", "not_present", "module"}]

\* Bug: a type without a register function is accepted.
ResourceAcceptedAny(r, children) == NoAttr \notin {r.name, r.reference}

\* The formats that sdi_eeprom_string_to_type knows; it asserts one of them.
Formats == {"onie", "fan", "psu"}

ResourceAccepted(r, children) ==
  LET i == ChildByReference(children, r.reference) IN
    /\ NoAttr \notin {r.name, r.reference}
    /\ r.type \in DOMAIN ResourceAttributes
    /\ HasAll(children, i, ResourceAttributes[r.type])
    /\ r.type = "ENTITY_INFO" => children[i].format \in Formats

\* The register function of a media resource opens the access to the registers
\* of the switch, and asserts that it could.
OpensAccess(e) == \E r \in 1..Len(e.resources) : e.resources[r].type = "MEDIA"

\* Every "power" child is read as the power status, and every child that is
\* neither "power" nor "rating" as the rating: the test for "rating" lacks
\* its "== 0".
IsRatingSource(child) == child.element \notin {"power", "rating"}

PowerAccepted(node) ==
  /\ node.type \in {"AC", "DC"}
  /\ \A i \in 1..Len(node.children) :
       LET child == node.children[i] IN
         /\ child.element = "power" => PresenceAttributes \subseteq child.has
         /\ IsRatingSource(child) => "path" \in child.has
         /\ child.element # "rating" => child.name # NoAttr

\* The alias must be given: the default alias built for an entity without
\* one names the entity, but the settings are searched by the attribute.
SettingsOf(e, settings) == IF e.alias = NoAttr THEN 0 ELSE ChildByName(settings, e.alias)

EntityAccepted(e, settings) ==
  LET i == SettingsOf(e, settings)
      children == settings[i].children
  IN /\ NoAttr \notin {e.instance, e.alias, e.presence}
     /\ e.type \in EntityTypes
     /\ Reached(settings, i)
     /\ e.presence # Fixed =>
          HasAll(children, ChildByName(children, e.presence), PresenceAttributes)
     /\ e.fault # NoAttr =>
          HasAll(children, ChildByName(children, e.fault), FaultAttributes)
     /\ e.type = "PSU_TRAY" => PowerAccepted(settings[i])
     /\ e.power_ctl # NoAttr =>
          HasAll(children, ChildByName(children, e.power_ctl), {"path"})
     /\ \A r \in 1..Len(e.resources) : ResourceAccepted(e.resources[r], children)

-----------------------------------------------------------------------------
(* The entity that is built.  literal is the first byte that the statement *)
(* *(buffer) = "\0" leaves in an attribute name: the low byte of the       *)
(* address of a string literal, which may be zero ("empty") or not         *)
(* ("junk"), as the build places it.                                       *)

PowerCtlNames == {"reset", "powerhdl", "power_on", "power_off"}

PowerCtl(e, children, literal) ==
  LET given == IF e.power_ctl = NoAttr THEN {}
               ELSE children[ChildByName(children, e.power_ctl)].has
  IN [a \in PowerCtlNames |-> IF a \in given THEN "given" ELSE literal]

\* The last settings win.
Power(node) ==
  [type   |-> node.type,
   status |-> SelectLastInSeq(node.children, LAMBDA child : child.element = "power"),
   rating |-> SelectLastInSeq(node.children, IsRatingSource)]

NoPower == [type |-> NoAttr, status |-> 0, rating |-> 0]

Resource(r, children) ==
  [alias |-> r.name, type |-> r.type,
   settings |-> ChildByReference(children, r.reference)]

Entity(e, settings, literal) ==
  LET i == SettingsOf(e, settings)
      children == settings[i].children
  IN [name      |-> e.alias,
      instance  |-> e.instance,
      type      |-> e.type,
      settings  |-> i,
      presence  |-> IF e.presence = Fixed THEN 0 ELSE ChildByName(children, e.presence),
      fault     |-> IF e.fault = NoAttr THEN 0 ELSE ChildByName(children, e.fault),
      power     |-> IF e.type = "PSU_TRAY" THEN Power(settings[i]) ELSE NoPower,
      power_ctl |-> PowerCtl(e, children, literal),
      info      |-> SelectLastInSeq(e.resources, LAMBDA r : r.type = "ENTITY_INFO"),
      resources |-> [r \in 1..Len(e.resources) |-> Resource(e.resources[r], children)]]

-----------------------------------------------------------------------------
(* The lookups offered to the callers, over the list of entities. *)

\* Bug: the search goes on after a match.
EntityLookupLast(entities, type, instance) ==
  SelectLastInSeq(entities, LAMBDA e : e.type = type /\ e.instance = instance)

EntityLookup(entities, type, instance) ==
  SelectInSeq(entities, LAMBDA e : e.type = type /\ e.instance = instance)

EntityCount(entities, type) ==
  Cardinality({i \in 1..Len(entities) : entities[i].type = type})

\* The type asked for is not looked at, and the alias is compared by prefix.
ResourceLookup(e, type, alias) ==
  SelectInSeq(e.resources, LAMBDA r : <<alias, r.alias>> \in Prefix)

ResourceCount(e, type) ==
  Cardinality({i \in 1..Len(e.resources) : e.resources[i].type = type})
=============================================================================

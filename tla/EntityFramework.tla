---------------------------- MODULE EntityFramework ----------------------------
(***************************************************************************)
(* Start of the library: sdi_sys_init (sdi_startup.c) registers every      *)
(* entity of the configuration, then visits every registered entity and    *)
(* asks whether it is present (sdi_entity_framework.c, sdi_entity.c).      *)
(*                                                                         *)
(* Swappable devices come and go while the visits go on.  An assertion     *)
(* that fails aborts the process, and nothing is undone.                   *)
(***************************************************************************)
EXTENDS EntityConfig

CONSTANT Configs   \* configurations: records [entities, settings] of sequences

\* The nodes that std_config hands over; an attribute may be missing.
Name == Names \cup {NoAttr}
ResourceNodes == [name : Name, reference : Name, type : ResourceTypes]
EntityNodes ==
  [alias : Name, instance : Instances \cup {NoAttr}, type : EntityTypes, presence : Name,
   fault : Name, power_ctl : Name, resources : Seq(ResourceNodes)]
Children ==
  [element : STRING, name : Name, has : SUBSET STRING, format : Formats \cup {NoAttr},
   path : Paths]
SettingsNodes == [name : Name, type : {"AC", "DC", NoAttr}, children : Seq(Children)]

ASSUME FrameworkAssumption ==
  \A g \in Configs : g.entities \in Seq(EntityNodes) /\ g.settings \in Seq(SettingsNodes)

VARIABLES
  config,    \* the two documents, read once
  literal,   \* what the build makes of *(buffer) = "\0"
  phase,     \* "register", "init", "ready" or "aborted"
  entities,  \* entity_list, head first
  next,      \* position of the next node to register, or entity to visit
  rc,        \* the status that sdi_sys_init is going to return
  plugged,   \* the presence attributes that read as present
  failed     \* history: configuration positions of the entities whose init failed

vars == <<config, literal, phase, entities, next, rc, plugged, failed>>

Phases == {"register", "init", "ready", "aborted"}

Init ==
  /\ config \in Configs
  /\ literal \in {"empty", "junk"}
  /\ phase = "register"
  /\ entities = <<>>
  /\ next = 1
  /\ rc = "ok"
  /\ plugged \in SUBSET Paths
  /\ failed = {}

-----------------------------------------------------------------------------
Node == config.entities[next]

\* Bug: the list is appended to.
RegisterAtBack ==
  /\ phase = "register"
  /\ next <= Len(config.entities)
  /\ EntityAccepted(Node, config.settings)
  /\ entities' = Append(entities, Entity(Node, config.settings, literal))
  /\ next' = next + 1
  /\ UNCHANGED <<config, literal, phase, rc, plugged, failed>>

\* sdi_register_entity, with the insertion at the front of the list.
RegisterEntity ==
  /\ phase = "register"
  /\ next <= Len(config.entities)
  /\ EntityAccepted(Node, config.settings)
  /\ entities' = <<Entity(Node, config.settings, literal)>> \o entities
  /\ next' = next + 1
  /\ UNCHANGED <<config, literal, phase, rc, plugged, failed>>

\* An assertion fails on the way, or a name is compared that is not there.
Abort ==
  /\ phase = "register"
  /\ next <= Len(config.entities)
  /\ EntityAccepted(Node, config.settings) => OpensAccess(Node)
  /\ phase' = "aborted"
  /\ UNCHANGED <<config, literal, entities, next, rc, plugged, failed>>

\* sdi_register_entities returns to sdi_sys_init.
StartInit ==
  /\ phase = "register"
  /\ next > Len(config.entities)
  /\ phase' = "init"
  /\ next' = 1
  /\ UNCHANGED <<config, literal, entities, rc, plugged, failed>>

\* The sysfs attribute behind a child of an entity's settings.
PathOf(e, child) == config.settings[e.settings].children[child].path

\* sdi_entity_presence_get: an attribute that cannot be read counts as absent.
Present(e) == e.presence = 0 \/ PathOf(e, e.presence) \in plugged

\* The configuration position of the entity at a position of the list.
ConfigPosition(i) == Len(entities) + 1 - i

\* Bug: the two answers are exchanged.
InitStatusInverted(e) == IF Present(e) THEN "EPERM" ELSE "ok"

InitStatus(e) == IF Present(e) THEN "ok" ELSE "EPERM"

\* sdi_sys_entity_init on the next entity of the list: the status of this
\* entity replaces that of the entities before it.
InitEntity ==
  /\ phase = "init"
  /\ next <= Len(entities)
  /\ rc' = InitStatus(entities[next])
  /\ failed' = failed \cup (IF Present(entities[next]) THEN {} ELSE {ConfigPosition(next)})
  /\ next' = next + 1
  /\ UNCHANGED <<config, literal, phase, entities, plugged>>

\* Bug: the visits go past the end of the list.
FinishPastEnd ==
  /\ phase = "init"
  /\ next > Len(entities) + 1
  /\ phase' = "ready"
  /\ UNCHANGED <<config, literal, entities, next, rc, plugged, failed>>

\* Bug: the entities that are absent are dropped.
FinishPruning ==
  /\ phase = "init"
  /\ next > Len(entities)
  /\ phase' = "ready"
  /\ entities' = SelectSeq(entities, Present)
  /\ UNCHANGED <<config, literal, next, rc, plugged, failed>>

Finish ==
  /\ phase = "init"
  /\ next > Len(entities)
  /\ phase' = "ready"
  /\ UNCHANGED <<config, literal, entities, next, rc, plugged, failed>>

\* A device is plugged or unplugged.
HotPlug(p) ==
  /\ plugged' = IF p \in plugged THEN plugged \ {p} ELSE plugged \cup {p}
  /\ UNCHANGED <<config, literal, phase, entities, next, rc, failed>>

Startup == RegisterEntity \/ Abort \/ StartInit \/ InitEntity \/ Finish

Next == Startup \/ \E p \in Paths : HotPlug(p)

\* sdi_sys_init runs in its caller's thread and waits for nothing.
Spec == Init /\ [][Next]_vars /\ WF_vars(Startup)

-----------------------------------------------------------------------------
(* Properties. *)

EntityRecords ==
  [name : Names, instance : Instances, type : EntityTypes, settings : Nat,
   presence : Nat, fault : Nat,
   power : [type : {"AC", "DC", NoAttr}, status : Nat, rating : Nat],
   power_ctl : [PowerCtlNames -> {"given", "empty", "junk"}],
   info : Nat,
   resources : Seq([alias : Names, type : DOMAIN ResourceAttributes, settings : Nat])]

TypeOK ==
  /\ config \in Configs
  /\ literal \in {"empty", "junk"}
  /\ phase \in Phases
  /\ entities \in Seq(EntityRecords)
  /\ next \in Nat \ {0}
  /\ rc \in {"ok", "EPERM"}
  /\ plugged \in SUBSET Paths
  /\ failed \in SUBSET Nat

\* The list holds the registered nodes in reverse order, each with its own
\* resources in document order, and only accepted nodes: the position in
\* the list tells the node an entity was built from (insertion at the front
\* in sdi_add_entity, at the back in sdi_entity_add_resource).
ListReversesConfig ==
  /\ phase = "register" => Len(entities) = next - 1
  /\ phase \in {"init", "ready"} => Len(entities) = Len(config.entities)
  /\ \A i \in 1..Len(entities) :
       LET node == config.entities[ConfigPosition(i)] IN
         /\ EntityAccepted(node, config.settings)
         /\ entities[i] = Entity(node, config.settings, literal)

\* No two nodes registered so far have the same type and instance.
NoDuplicates ==
  \A i, j \in 1..Len(entities) :
    entities[i].type = entities[j].type /\ entities[i].instance = entities[j].instance
      => i = j

\* A lookup of the key of an entity finds the entity of that key that was
\* configured last: an earlier duplicate stays in the list, is initialised and
\* counted, and is never found.  Without duplicates every entity is found, and
\* sdi_entity_count_get counts those that can be.
LastDuplicateWins ==
  \A i \in 1..Len(entities) :
    LET type  == entities[i].type
        found == EntityLookup(entities, type, entities[i].instance)
    IN /\ found # 0
       /\ entities[found].type = type
       /\ entities[found].instance = entities[i].instance
       /\ ConfigPosition(found) >= ConfigPosition(i)
       /\ NoDuplicates =>
            EntityCount(entities, type) =
              Cardinality({n \in Instances : EntityLookup(entities, type, n) # 0})

\* No false alarm: "At least one Entity failed in the init" (sdi_startup.c:47)
\* is true where it is logged, whatever is plugged and unplugged meanwhile.
\* Some entity that was visited was absent, and it is one that can be: not a
\* fixed one.  (The log is not complete: a failure is forgotten with the visit
\* of the next entity.)
NoFalseAlarm ==
  rc # "ok" =>
    \E i \in 1..Len(entities) : ConfigPosition(i) \in failed /\ entities[i].presence # 0

\* A name of the settings captures another one when it starts with it.
PrefixFree(nodes, name) ==
  \A i \in 1..Len(nodes) : <<name, nodes[i].name>> \in Prefix => nodes[i].name = name

\* Where no name starts with another, every entity is bound to the settings,
\* the presence and the fault child it names (sdi_settings_get_child_by_name).
PrefixFreeBindsExactly ==
  \A i \in 1..Len(entities) :
    LET e == entities[i]
        node == config.entities[ConfigPosition(i)]
        children == config.settings[e.settings].children
    IN /\ PrefixFree(config.settings, node.alias) =>
            config.settings[e.settings].name = node.alias
       /\ e.presence # 0 /\ PrefixFree(children, node.presence) =>
            children[e.presence].name = node.presence
       /\ e.fault # 0 /\ PrefixFree(children, node.fault) =>
            children[e.fault].name = node.fault

\* Startup ends: the library is ready or the process is gone.
StartupEnds == <>(phase \in {"ready", "aborted"})

\* The framework implements a directory in which the last registration of a
\* key wins and which is frozen when callers arrive.
Keys == EntityTypes \X Instances
KeyOf(e) == <<e.type, e.instance>>

Found(list, k) ==
  LET i == EntityLookup(list, k[1], k[2]) IN IF i = 0 THEN NoAttr ELSE list[i]

Directory == INSTANCE EntityDirectory WITH
  Records <- EntityRecords,
  None <- NoAttr,
  directory <- [k \in Keys |-> Found(entities, k)],
  up <- phase = "ready",
  status <- rc

ImplementsDirectory == Directory!Spec
=============================================================================

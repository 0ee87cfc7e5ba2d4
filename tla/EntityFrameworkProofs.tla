------------------------- MODULE EntityFrameworkProofs -------------------------
(***************************************************************************)
(* The start of the library, for configurations of any length: the list is *)
(* the reverse of the configuration, the start raises no false alarm,      *)
(* names that are not prefixes of others are bound exactly, and the list   *)
(* is the directory of EntityDirectory.                                    *)
(***************************************************************************)
EXTENDS EntityFramework, WellFoundedInduction, SequenceTheorems, FiniteSetTheorems, TLAPS

-----------------------------------------------------------------------------
(* Searches in a sequence. *)

\* Of some numbers one is the least.
LEMMA LeastNumber ==
  ASSUME NEW T, T \subseteq Nat, T # {}
  PROVE  Min(T) \in T /\ \A y \in T : Min(T) <= y
<1> DEFINE R == OpToRel(<, Nat)
<1>1. IsWellFoundedOn(R, Nat)
  BY NatLessThanWellFounded
<1>2. \A x, y \in Nat : y < x => <<y, x>> \in R
  BY DEF OpToRel
<1> HIDE DEF R
<1>3. PICK x \in T : \A y \in T : ~ (<<y, x>> \in R)
  BY <1>1, WFMin
<1>4. \A y \in T : ~ (y < x)
  BY <1>2, <1>3
<1>5. \A y \in T : x <= y
  BY <1>4
<1> QED BY <1>5 DEF Min

\* Of some positions of a sequence one is the last.
LEMMA GreatestNumber ==
  ASSUME NEW n \in Nat, NEW T, T \subseteq 1..n, T # {}
  PROVE  Max(T) \in T
<1> DEFINE D == {d \in Nat : \E x \in T : d = n - x}
<1>1. D \subseteq Nat /\ D # {}
  <2>1. PICK x \in T : TRUE
    OBVIOUS
  <2>2. n - x \in D
    BY <2>1
  <2> QED BY <2>2
<1>2. Min(D) \in D /\ \A d \in D : Min(D) <= d
  BY <1>1, LeastNumber
<1>3. PICK m \in T : Min(D) = n - m
  BY <1>2
<1>4. \A x \in T : m >= x
  <2> SUFFICES ASSUME NEW x \in T PROVE m >= x
    OBVIOUS
  <2>1. n - x \in D
    OBVIOUS
  <2>2. n - m <= n - x
    BY <1>2, <1>3, <2>1
  <2> QED BY <2>2
<1> QED BY <1>4 DEF Max

\* The first position of a set of positions, or 0, is a position of it.
FirstOf(T) == IF T # {} THEN Min(T) ELSE 0
LastOf(T)  == IF T # {} THEN Max(T) ELSE 0

LEMMA FirstIs ==
  ASSUME NEW n \in Nat, NEW T, T \subseteq 1..n
  PROVE  /\ FirstOf(T) \in Nat /\ (FirstOf(T) # 0 => FirstOf(T) \in T)
         /\ \A y \in T : FirstOf(T) # 0 /\ FirstOf(T) <= y
<1>1. T \subseteq Nat /\ 0 \notin T
  OBVIOUS
<1>2. CASE T = {}
  BY <1>2 DEF FirstOf
<1>3. CASE T # {}
  <2>1. Min(T) \in T /\ \A y \in T : Min(T) <= y
    BY <1>1, <1>3, LeastNumber
  <2> QED BY <1>1, <1>3, <2>1 DEF FirstOf
<1> QED BY <1>2, <1>3

LEMMA LastIs ==
  ASSUME NEW n \in Nat, NEW T, T \subseteq 1..n
  PROVE  LastOf(T) \in Nat
<1>1. CASE T = {}
  <2>1. LastOf(T) = 0
    BY <1>1 DEF LastOf
  <2> QED BY <2>1
<1>2. CASE T # {}
  <2>1. Max(T) \in T
    BY <1>2, GreatestNumber
  <2>2. LastOf(T) = Max(T)
    BY <1>2 DEF LastOf
  <2>3. \A x \in T : x \in Nat
    OBVIOUS
  <2> QED BY <2>1, <2>2, <2>3
<1> QED BY <1>1, <1>2

\* The searches of EntityConfig as first and last positions.
LEMMA Searches ==
  /\ \A nodes, name :
       ChildByName(nodes, name) = FirstOf({i \in 1..Len(nodes) : <<name, nodes[i].name>> \in Prefix})
  /\ \A nodes, name :
       ChildByReference(nodes, name) = FirstOf({i \in 1..Len(nodes) : nodes[i].name = name})
  /\ \A list, type, n :
       EntityLookup(list, type, n) =
         FirstOf({i \in 1..Len(list) : list[i].type = type /\ list[i].instance = n})
BY DEF ChildByName, ChildByReference, EntityLookup, SelectInSeq, FirstOf

\* A child that is found by name starts with the name, and so is the reference.
LEMMA ChildIs ==
  ASSUME NEW S, NEW nodes \in Seq(S), NEW name
  PROVE  /\ ChildByName(nodes, name) \in Nat
         /\ ChildByName(nodes, name) # 0 =>
              /\ ChildByName(nodes, name) \in 1..Len(nodes)
              /\ <<name, nodes[ChildByName(nodes, name)].name>> \in Prefix
         /\ ChildByReference(nodes, name) \in Nat
<1>1. Len(nodes) \in Nat
  OBVIOUS
<1> DEFINE T == {i \in 1..Len(nodes) : <<name, nodes[i].name>> \in Prefix}
           U == {i \in 1..Len(nodes) : nodes[i].name = name}
<1>2. ChildByName(nodes, name) = FirstOf(T) /\ ChildByReference(nodes, name) = FirstOf(U)
  BY Searches
<1>3. T \subseteq 1..Len(nodes) /\ U \subseteq 1..Len(nodes)
  OBVIOUS
<1>4. \A i \in T : i \in 1..Len(nodes) /\ <<name, nodes[i].name>> \in Prefix
  OBVIOUS
<1> HIDE DEF T, U
<1>5. FirstOf(T) \in Nat /\ (FirstOf(T) # 0 => FirstOf(T) \in T)
  BY <1>1, <1>3, FirstIs
<1>6. FirstOf(U) \in Nat
  BY <1>1, <1>3, FirstIs
<1> QED BY <1>2, <1>4, <1>5, <1>6

-----------------------------------------------------------------------------
(* The entity that is built of an accepted node. *)

LEMMA ConfigIs ==
  ASSUME config \in Configs
  PROVE  /\ config.entities \in Seq(EntityNodes) /\ config.settings \in Seq(SettingsNodes)
         /\ Len(config.entities) \in Nat
         /\ \A i \in 1..Len(config.entities) : config.entities[i] \in EntityNodes
BY FrameworkAssumption

LEMMA SettingsIs ==
  ASSUME NEW nodes \in Seq(SettingsNodes), NEW e \in EntityNodes, EntityAccepted(e, nodes)
  PROVE  /\ e.alias \in Names /\ e.presence \in Names /\ e.instance \in Instances
         /\ SettingsOf(e, nodes) = ChildByName(nodes, e.alias)
         /\ SettingsOf(e, nodes) \in 1..Len(nodes)
         /\ nodes[SettingsOf(e, nodes)] \in SettingsNodes
         /\ nodes[SettingsOf(e, nodes)].children \in Seq(Children)
<1>1. NoAttr \notin {e.instance, e.alias, e.presence} /\ SettingsOf(e, nodes) # 0
  BY DEF EntityAccepted, Reached
<1>2. e.alias \in Names /\ e.presence \in Names /\ e.instance \in Instances
  BY <1>1 DEF EntityNodes, Name
<1>3. SettingsOf(e, nodes) = ChildByName(nodes, e.alias)
  BY <1>1 DEF SettingsOf
<1>4. SettingsOf(e, nodes) \in 1..Len(nodes)
  BY <1>1, <1>3, ChildIs
<1>5. nodes[SettingsOf(e, nodes)] \in SettingsNodes
  BY <1>4
<1>6. nodes[SettingsOf(e, nodes)].children \in Seq(Children)
  BY <1>5 DEF SettingsNodes
<1> QED BY <1>2, <1>3, <1>4, <1>5, <1>6

LEMMA PowerIs ==
  ASSUME NEW node \in SettingsNodes, PowerAccepted(node)
  PROVE  Power(node) \in [type : {"AC", "DC", NoAttr}, status : Nat, rating : Nat]
<1> DEFINE n == Len(node.children)
           S == {i \in 1..n : node.children[i].element = "power"}
           R == {i \in 1..n : IsRatingSource(node.children[i])}
<1>1. n \in Nat
  BY DEF SettingsNodes
<1>2. Power(node) = [type |-> node.type, status |-> LastOf(S), rating |-> LastOf(R)]
  BY DEF Power, SelectLastInSeq, LastOf
<1>3. S \subseteq 1..n /\ R \subseteq 1..n
  OBVIOUS
<1> HIDE DEF n, S, R
<1>4. LastOf(S) \in Nat /\ LastOf(R) \in Nat
  BY <1>1, <1>3, LastIs
<1>5. node.type \in {"AC", "DC"}
  BY DEF PowerAccepted
<1> QED BY <1>2, <1>4, <1>5

\* What an entity keeps of its resources.
ResourceRecords == [alias : Names, type : DOMAIN ResourceAttributes, settings : Nat]

LEMMA ResourceIs ==
  ASSUME NEW children \in Seq(Children), NEW r \in ResourceNodes, ResourceAccepted(r, children)
  PROVE  Resource(r, children) \in ResourceRecords
<1>1. r.name \in Names
  BY DEF ResourceAccepted, ResourceNodes, Name
<1>2. r.type \in DOMAIN ResourceAttributes
  BY DEF ResourceAccepted
<1>3. ChildByReference(children, r.reference) \in Nat
  BY ChildIs
<1> QED BY <1>1, <1>2, <1>3 DEF Resource, ResourceRecords

LEMMA PowerCtlIs ==
  ASSUME NEW e, NEW children, literal \in {"empty", "junk"}
  PROVE  PowerCtl(e, children, literal) \in [PowerCtlNames -> {"given", "empty", "junk"}]
BY DEF PowerCtl

LEMMA EntityIs ==
  ASSUME NEW nodes \in Seq(SettingsNodes), NEW e \in EntityNodes, EntityAccepted(e, nodes),
         literal \in {"empty", "junk"}
  PROVE  Entity(e, nodes, literal) \in EntityRecords
<1> DEFINE i == SettingsOf(e, nodes)
           children == nodes[i].children
           rs == e.resources
           I == {r \in 1..Len(rs) : rs[r].type = "ENTITY_INFO"}
           presence == IF e.presence = Fixed THEN 0 ELSE ChildByName(children, e.presence)
           fault == IF e.fault = NoAttr THEN 0 ELSE ChildByName(children, e.fault)
           power == IF e.type = "PSU_TRAY" THEN Power(nodes[i]) ELSE NoPower
           resources == [r \in 1..Len(rs) |-> Resource(rs[r], children)]
<1>1. /\ e.alias \in Names /\ e.instance \in Instances /\ e.type \in EntityTypes
      /\ i \in Nat /\ nodes[i] \in SettingsNodes /\ children \in Seq(Children)
  BY SettingsIs DEF EntityNodes
<1>2. rs \in Seq(ResourceNodes) /\ Len(rs) \in Nat
  BY DEF EntityNodes
<1>3. presence \in Nat /\ fault \in Nat
  BY <1>1, ChildIs
<1>4. power \in [type : {"AC", "DC", NoAttr}, status : Nat, rating : Nat]
  <2>1. CASE e.type = "PSU_TRAY"
    <3>1. PowerAccepted(nodes[i])
      BY <2>1 DEF EntityAccepted
    <3> QED BY <1>1, <2>1, <3>1, PowerIs
  <2>2. CASE e.type # "PSU_TRAY"
    BY <2>2 DEF NoPower
  <2> QED BY <2>1, <2>2
<1>5. PowerCtl(e, children, literal) \in [PowerCtlNames -> {"given", "empty", "junk"}]
  BY PowerCtlIs
<1>6. LastOf(I) \in Nat
  <2>1. I \subseteq 1..Len(rs)
    OBVIOUS
  <2> HIDE DEF I
  <2> QED BY <1>2, <2>1, LastIs
<1>7. resources \in Seq(ResourceRecords)
  <2>1. ASSUME NEW r \in 1..Len(rs) PROVE Resource(rs[r], children) \in ResourceRecords
    <3>1. ResourceAccepted(rs[r], children)
      BY DEF EntityAccepted
    <3>2. rs[r] \in ResourceNodes
      BY <1>2
    <3> QED BY <1>1, <3>1, <3>2, ResourceIs
  <2>2. resources \in [1..Len(rs) -> ResourceRecords]
    BY <2>1
  <2> QED BY <1>2, <2>2
<1>8. Entity(e, nodes, literal) =
        [name |-> e.alias, instance |-> e.instance, type |-> e.type, settings |-> i,
         presence |-> presence, fault |-> fault, power |-> power,
         power_ctl |-> PowerCtl(e, children, literal), info |-> LastOf(I),
         resources |-> resources]
  BY DEF Entity, SelectLastInSeq, LastOf
<1> HIDE DEF i, children, rs, I, presence, fault, power, resources
<1> QED BY <1>1, <1>3, <1>4, <1>5, <1>6, <1>7, <1>8 DEF EntityRecords, ResourceRecords

-----------------------------------------------------------------------------
(* The inductive invariant. *)

\* How far the start is: nothing is visited while the list still grows.
Progress ==
  /\ Len(entities) <= Len(config.entities)
  /\ phase = "register" => rc = "ok"

IInv == TypeOK /\ ListReversesConfig /\ Progress /\ NoFalseAlarm

LEMMA InitKeeps == Init => IInv
<1> SUFFICES ASSUME Init PROVE IInv
  OBVIOUS
<1>1. Len(config.entities) \in Nat
  BY ConfigIs DEF Init
<1>2. entities = <<>> /\ entities \in Seq(EntityRecords) /\ Len(entities) = 0
  BY DEF Init
<1>3. TypeOK
  BY <1>2 DEF Init, TypeOK, Phases
<1>4. ListReversesConfig /\ Progress /\ NoFalseAlarm
  BY <1>1, <1>2 DEF Init, ListReversesConfig, Progress, NoFalseAlarm
<1> QED BY <1>3, <1>4 DEF IInv

\* What registering a node does to the list.
LEMMA Registered ==
  ASSUME IInv, RegisterEntity
  PROVE  LET E == Entity(Node, config.settings, literal) IN
           /\ EntityAccepted(Node, config.settings) /\ E \in EntityRecords
           /\ next \in 1..Len(config.entities) /\ Len(entities) = next - 1
           /\ entities' \in Seq(EntityRecords) /\ Len(entities') = Len(entities) + 1
           /\ entities'[1] = E
           /\ \A i \in 2..Len(entities') : entities'[i] = entities[i - 1]
<1> DEFINE E == Entity(Node, config.settings, literal)
<1>1. /\ config \in Configs /\ entities \in Seq(EntityRecords)
      /\ next \in Nat \ {0} /\ literal \in {"empty", "junk"}
      /\ next <= Len(config.entities) /\ EntityAccepted(Node, config.settings)
  BY DEF IInv, TypeOK, RegisterEntity
<1>2. config.settings \in Seq(SettingsNodes) /\ Len(config.entities) \in Nat
  BY <1>1, ConfigIs
<1>3. next \in 1..Len(config.entities)
  BY <1>1, <1>2
<1>4. Node \in EntityNodes
  BY <1>1, <1>3, ConfigIs DEF Node
<1>5. E \in EntityRecords
  BY <1>1, <1>2, <1>4, EntityIs
<1>6. entities' = <<E>> \o entities
  BY DEF RegisterEntity
<1>7. Len(entities) = next - 1
  BY DEF IInv, ListReversesConfig, RegisterEntity
<1> HIDE DEF E
<1>8. <<E>> \in Seq(EntityRecords) /\ Len(<<E>>) = 1 /\ <<E>>[1] = E
  BY <1>5
<1>9. /\ entities' \in Seq(EntityRecords) /\ Len(entities') = Len(entities) + 1
      /\ entities'[1] = E
      /\ \A i \in 2..Len(entities') : entities'[i] = entities[i - 1]
  BY <1>1, <1>6, <1>8, ConcatProperties
<1> QED BY <1>1, <1>3, <1>5, <1>7, <1>9 DEF E

LEMMA RegisterKeeps ==
  ASSUME IInv, RegisterEntity PROVE IInv'
<1> DEFINE E == Entity(Node, config.settings, literal)
<1>1. /\ EntityAccepted(Node, config.settings)
      /\ next \in 1..Len(config.entities) /\ Len(entities) = next - 1
      /\ entities' \in Seq(EntityRecords) /\ Len(entities') = Len(entities) + 1
      /\ entities'[1] = E
      /\ \A i \in 2..Len(entities') : entities'[i] = entities[i - 1]
  BY Registered
<1>2. /\ phase = "register" /\ next' = next + 1
      /\ UNCHANGED <<config, literal, phase, rc, plugged, failed>>
  BY DEF RegisterEntity
<1>3. Len(config.entities) \in Nat /\ Len(entities) \in Nat /\ next \in Nat \ {0}
  BY ConfigIs DEF IInv, TypeOK
<1>4. TypeOK'
  BY <1>1, <1>2, <1>3 DEF IInv, TypeOK
<1>5. ListReversesConfig'
  <2>1. phase' = "register" /\ Len(entities') = next' - 1
    BY <1>1, <1>2, <1>3
  <2>2. ASSUME NEW i \in 1..Len(entities')
        PROVE  LET node == config.entities[ConfigPosition(i)'] IN
                 /\ EntityAccepted(node, config.settings)
                 /\ entities'[i] = Entity(node, config.settings, literal)
    <3>1. CASE i = 1
      <4>1. ConfigPosition(i)' = next
        BY <1>1, <1>3, <3>1 DEF ConfigPosition
      <4> QED BY <1>1, <3>1, <4>1 DEF Node
    <3>2. CASE i # 1
      <4>1. i \in 2..Len(entities') /\ i - 1 \in 1..Len(entities)
        BY <1>1, <1>3, <3>2
      <4>2. ConfigPosition(i)' = ConfigPosition(i - 1)
        BY <1>1, <1>3, <4>1 DEF ConfigPosition
      <4> QED BY <1>1, <4>1, <4>2 DEF IInv, ListReversesConfig
    <3> QED BY <3>1, <3>2
  <2> QED BY <1>2, <2>1, <2>2 DEF ListReversesConfig
<1>6. Progress' /\ NoFalseAlarm'
  BY <1>1, <1>2, <1>3 DEF IInv, Progress, NoFalseAlarm
<1> QED BY <1>4, <1>5, <1>6 DEF IInv

\* The visits: a status that is an error is that of the visited entity.
LEMMA VisitKeeps ==
  ASSUME IInv, InitEntity PROVE IInv'
<1>1. /\ phase = "init" /\ next <= Len(entities)
      /\ rc' = InitStatus(entities[next]) /\ next' = next + 1
      /\ failed' = failed \cup (IF Present(entities[next]) THEN {} ELSE {ConfigPosition(next)})
      /\ UNCHANGED <<config, literal, phase, entities, plugged>>
  BY DEF InitEntity
<1>2. /\ Len(config.entities) \in Nat /\ Len(entities) \in Nat /\ next \in Nat \ {0}
      /\ failed \in SUBSET Nat
  BY ConfigIs DEF IInv, TypeOK
<1>3. ConfigPosition(next) \in Nat
  BY <1>1, <1>2 DEF ConfigPosition
<1>4. rc' \in {"ok", "EPERM"}
  BY <1>1 DEF InitStatus
<1>5. failed' \in SUBSET Nat
  BY <1>1, <1>2, <1>3
<1>6. TypeOK'
  BY <1>1, <1>2, <1>4, <1>5 DEF IInv, TypeOK
<1>7. ListReversesConfig'
  BY <1>1 DEF IInv, ListReversesConfig, ConfigPosition
<1>8. Progress'
  BY <1>1 DEF IInv, Progress
<1>9. NoFalseAlarm'
  <2> SUFFICES ASSUME rc' # "ok"
               PROVE  \E i \in 1..Len(entities') :
                        Len(entities') + 1 - i \in failed' /\ entities'[i].presence # 0
    BY DEF NoFalseAlarm, ConfigPosition
  <2>1. ~Present(entities[next])
    BY <1>1 DEF InitStatus
  <2>2. entities[next].presence # 0
    BY <2>1 DEF Present
  <2>3. next \in 1..Len(entities) /\ Len(entities) + 1 - next \in failed'
    BY <1>1, <1>2, <2>1 DEF ConfigPosition
  <2> QED BY <1>1, <2>2, <2>3
<1> QED BY <1>6, <1>7, <1>8, <1>9 DEF IInv

\* The other steps leave the list and what is known of it.
LEMMA OthersKeep ==
  ASSUME IInv, Abort \/ StartInit \/ Finish \/ (\E p \in Paths : HotPlug(p)) \/ UNCHANGED vars
  PROVE  IInv'
<1>1. /\ Len(config.entities) \in Nat /\ Len(entities) \in Nat /\ next \in Nat \ {0}
  BY ConfigIs DEF IInv, TypeOK
<1>2. CASE Abort
  BY <1>2 DEF Abort, IInv, TypeOK, Phases, ListReversesConfig, ConfigPosition, Progress,
              NoFalseAlarm
<1>3. CASE StartInit
  <2>1. Len(entities) = Len(config.entities)
    BY <1>1, <1>3 DEF StartInit, IInv, ListReversesConfig, Progress
  <2> QED BY <1>1, <1>3, <2>1 DEF StartInit, IInv, TypeOK, Phases, ListReversesConfig,
              ConfigPosition, Progress, NoFalseAlarm
<1>4. CASE Finish
  BY <1>1, <1>4 DEF Finish, IInv, TypeOK, Phases, ListReversesConfig, ConfigPosition, Progress,
              NoFalseAlarm
<1>5. CASE \E p \in Paths : HotPlug(p)
  <2>1. plugged' \in SUBSET Paths
    BY <1>5 DEF HotPlug, IInv, TypeOK
  <2>2. UNCHANGED <<config, literal, phase, entities, next, rc, failed>>
    BY <1>5 DEF HotPlug
  <2> QED BY <2>1, <2>2 DEF IInv, TypeOK, ListReversesConfig, ConfigPosition, Progress,
              NoFalseAlarm
<1>6. CASE UNCHANGED vars
  BY <1>6 DEF vars, IInv, TypeOK, ListReversesConfig, ConfigPosition, Progress,
              NoFalseAlarm
<1> QED BY <1>2, <1>3, <1>4, <1>5, <1>6

\* Spec => []IInv.
THEOREM Invariant == Spec => []IInv
<1>1. IInv /\ [Next]_vars => IInv'
  BY RegisterKeeps, VisitKeeps, OthersKeep DEF Next, Startup
<1> QED BY <1>1, InitKeeps, PTL DEF Spec

\* Every variable of the start keeps its type, for configurations of any
\* length: what is in entity_list are entities, each with its settings node.
THEOREM TypesHold == Spec => []TypeOK
<1>1. IInv => TypeOK
  BY DEF IInv
<1> QED BY Invariant, <1>1, PTL

\* ListReversesConfig, for configurations of any length: the list is the
\* reverse of the registered nodes, each with what its own node names.
THEOREM ListAlwaysReverses == Spec => [](TypeOK /\ ListReversesConfig)
<1>1. IInv => TypeOK /\ ListReversesConfig
  BY DEF IInv
<1> QED BY <1>1, Invariant, PTL

\* NoFalseAlarm, for configurations of any length and devices that come and go
\* at any time: an error of sdi_sys_init is that of an entity it found absent.
THEOREM AlarmIsNeverFalse == Spec => []NoFalseAlarm
<1>1. IInv => NoFalseAlarm
  BY DEF IInv
<1> QED BY <1>1, Invariant, PTL

-----------------------------------------------------------------------------
(* Lookups. *)

\* sdi_entity_lookup finds the first of the positions it may find.
LEMMA LookupIs ==
  ASSUME NEW list \in Seq(EntityRecords), NEW type, NEW n
  PROVE  LET found == EntityLookup(list, type, n) IN
           /\ found \in Nat
           /\ found # 0 => /\ found \in 1..Len(list)
                           /\ list[found].type = type /\ list[found].instance = n
           /\ \A j \in 1..Len(list) :
                list[j].type = type /\ list[j].instance = n => found # 0 /\ found <= j
<1> DEFINE T == {j \in 1..Len(list) : list[j].type = type /\ list[j].instance = n}
<1>1. EntityLookup(list, type, n) = FirstOf(T)
  BY Searches
<1>2. Len(list) \in Nat /\ T \subseteq 1..Len(list)
  OBVIOUS
<1>3. \A j \in 1..Len(list) : j \in T <=> list[j].type = type /\ list[j].instance = n
  OBVIOUS
<1> HIDE DEF T
<1>4. /\ FirstOf(T) \in Nat /\ (FirstOf(T) # 0 => FirstOf(T) \in T)
      /\ \A j \in T : FirstOf(T) # 0 /\ FirstOf(T) <= j
  BY <1>2, FirstIs
<1>5. FirstOf(T) # 0 => FirstOf(T) \in 1..Len(list)
  BY <1>2, <1>4
<1> QED BY <1>1, <1>3, <1>4, <1>5

\* Without duplicates the instances under which an entity of a type is found
\* are as many as the entities of the type.
LEMMA CountIsOfFound ==
  ASSUME entities \in Seq(EntityRecords), NoDuplicates, NEW type
  PROVE  EntityCount(entities, type) =
           Cardinality({n \in Instances : EntityLookup(entities, type, n) # 0})
<1> DEFINE A == {i \in 1..Len(entities) : entities[i].type = type}
           B == {n \in Instances : EntityLookup(entities, type, n) # 0}
           f == [i \in A |-> entities[i].instance]
<1>1. Len(entities) \in Nat
  OBVIOUS
<1>2. \A i \in 1..Len(entities) : entities[i].instance \in Instances
  <2>1. \A i \in 1..Len(entities) : entities[i] \in EntityRecords
    OBVIOUS
  <2> QED BY <2>1 DEF EntityRecords
<1>3. f \in [A -> B]
  <2> SUFFICES ASSUME NEW i \in A PROVE entities[i].instance \in B
    OBVIOUS
  <2>1. EntityLookup(entities, type, entities[i].instance) # 0
    BY LookupIs
  <2> QED BY <1>2, <2>1
<1>4. \A i, j \in A : f[i] = f[j] => i = j
  BY DEF NoDuplicates
<1>5. \A n \in B : \E i \in A : f[i] = n
  <2> SUFFICES ASSUME NEW n \in B PROVE \E i \in A : f[i] = n
    OBVIOUS
  <2> DEFINE found == EntityLookup(entities, type, n)
  <2>1. found # 0
    OBVIOUS
  <2>2. found \in 1..Len(entities) /\ entities[found].type = type /\ entities[found].instance = n
    BY <2>1, LookupIs
  <2> HIDE DEF found
  <2>3. found \in A /\ f[found] = n
    BY <2>2
  <2> QED BY <2>3
<1>6. IsFiniteSet(A)
  <2>1. IsFiniteSet(1..Len(entities))
    BY <1>1, FS_Interval
  <2>2. A \in SUBSET (1..Len(entities))
    OBVIOUS
  <2> HIDE DEF A
  <2> QED BY <2>1, <2>2, FS_Subset
<1> HIDE DEF A, B, f
<1>7. f \in Bijection(A, B)
  BY <1>3, <1>4, <1>5 DEF Bijection, Injection, Surjection, IsInjective
<1>8. ExistsBijection(A, B)
  BY <1>7 DEF ExistsBijection
<1>9. Cardinality(B) = Cardinality(A)
  BY <1>6, <1>8, FS_Bijection
<1> QED BY <1>9 DEF EntityCount, A, B

\* LastDuplicateWins, for any configuration: sdi_entity_lookup finds the entity
\* of a key that was configured last, and sdi_entity_count_get counts those
\* that can be found where no key occurs twice.
THEOREM LastAlwaysWins == Spec => []LastDuplicateWins
<1>1. IInv => LastDuplicateWins
  <2> SUFFICES ASSUME IInv, NEW i \in 1..Len(entities)
               PROVE  LET type  == entities[i].type
                          found == EntityLookup(entities, type, entities[i].instance)
                      IN /\ found # 0
                         /\ entities[found].type = type
                         /\ entities[found].instance = entities[i].instance
                         /\ ConfigPosition(found) >= ConfigPosition(i)
                         /\ NoDuplicates =>
                              EntityCount(entities, type) =
                                Cardinality({n \in Instances : EntityLookup(entities, type, n) # 0})
    BY DEF LastDuplicateWins
  <2> DEFINE type  == entities[i].type
             found == EntityLookup(entities, type, entities[i].instance)
  <2>1. entities \in Seq(EntityRecords) /\ Len(entities) \in Nat
    BY DEF IInv, TypeOK
  <2>2. /\ found \in 1..Len(entities) /\ found <= i
        /\ entities[found].type = type /\ entities[found].instance = entities[i].instance
    BY <2>1, LookupIs
  <2>3. NoDuplicates =>
          EntityCount(entities, type) =
            Cardinality({n \in Instances : EntityLookup(entities, type, n) # 0})
    BY <2>1, CountIsOfFound
  <2> HIDE DEF type, found
  <2>4. found # 0 /\ ConfigPosition(found) >= ConfigPosition(i)
    BY <2>1, <2>2 DEF ConfigPosition
  <2> QED BY <2>2, <2>3, <2>4 DEF type, found
<1> QED BY <1>1, Invariant, PTL

-----------------------------------------------------------------------------
(* Names. *)

\* A search for a name that no other name starts with finds that name.
LEMMA ExactChild ==
  ASSUME NEW S, NEW nodes \in Seq(S), NEW name, PrefixFree(nodes, name),
         ChildByName(nodes, name) # 0
  PROVE  nodes[ChildByName(nodes, name)].name = name
BY ChildIs DEF PrefixFree

\* PrefixFreeBindsExactly, for any names and configurations: where no name of
\* the settings starts with another, sdi_settings_get_child_by_name binds an
\* entity to the settings and the children it names.
THEOREM NamesBindExactly == Spec => []PrefixFreeBindsExactly
<1>1. IInv => PrefixFreeBindsExactly
  <2> SUFFICES ASSUME IInv, NEW i \in 1..Len(entities)
               PROVE  LET e == entities[i]
                          node == config.entities[ConfigPosition(i)]
                          children == config.settings[e.settings].children
                      IN /\ PrefixFree(config.settings, node.alias) =>
                              config.settings[e.settings].name = node.alias
                         /\ e.presence # 0 /\ PrefixFree(children, node.presence) =>
                              children[e.presence].name = node.presence
                         /\ e.fault # 0 /\ PrefixFree(children, node.fault) =>
                              children[e.fault].name = node.fault
    BY DEF PrefixFreeBindsExactly
  <2> DEFINE e == entities[i]
             node == config.entities[ConfigPosition(i)]
             s == SettingsOf(node, config.settings)
             children == config.settings[s].children
  <2>1. /\ config.settings \in Seq(SettingsNodes) /\ Len(config.entities) \in Nat
        /\ Len(entities) \in Nat /\ Len(entities) <= Len(config.entities)
    BY ConfigIs DEF IInv, TypeOK, Progress
  <2>2. ConfigPosition(i) \in 1..Len(config.entities)
    BY <2>1 DEF ConfigPosition
  <2>3. node \in EntityNodes
    BY <2>2, ConfigIs DEF IInv, TypeOK
  <2>4. EntityAccepted(node, config.settings) /\ e = Entity(node, config.settings, literal)
    BY DEF IInv, ListReversesConfig
  <2>5. /\ e.settings = s
        /\ e.presence = IF node.presence = Fixed THEN 0 ELSE ChildByName(children, node.presence)
        /\ e.fault = IF node.fault = NoAttr THEN 0 ELSE ChildByName(children, node.fault)
    BY <2>4 DEF Entity
  <2> HIDE DEF e, node
  <2>6. /\ s = ChildByName(config.settings, node.alias) /\ s # 0
        /\ children \in Seq(Children)
    BY <2>1, <2>3, <2>4, SettingsIs
  <2> HIDE DEF s, children
  <2>7. PrefixFree(config.settings, node.alias) => config.settings[s].name = node.alias
    BY <2>1, <2>6, ExactChild
  <2>8. e.presence # 0 /\ PrefixFree(children, node.presence) =>
          children[e.presence].name = node.presence
    BY <2>5, <2>6, ExactChild
  <2>9. e.fault # 0 /\ PrefixFree(children, node.fault) => children[e.fault].name = node.fault
    BY <2>5, <2>6, ExactChild
  <2> QED BY <2>5, <2>7, <2>8, <2>9 DEF e, node, s, children
<1> QED BY <1>1, Invariant, PTL

-----------------------------------------------------------------------------
(* The directory. *)

\* The positions of a key in a list.
At(list, k) == {i \in 1..Len(list) : list[i].type = k[1] /\ list[i].instance = k[2]}

LEMMA FoundAt ==
  ASSUME NEW list, NEW k
  PROVE  Found(list, k) = IF FirstOf(At(list, k)) = 0 THEN NoAttr ELSE list[FirstOf(At(list, k))]
BY Searches DEF Found, At

\* A node in front of the list is found under its key, and changes what is
\* found under no other key.
LEMMA FoundInFront ==
  ASSUME NEW list \in Seq(EntityRecords), NEW longer \in Seq(EntityRecords),
         Len(longer) = Len(list) + 1,
         \A i \in 2..Len(longer) : longer[i] = list[i - 1],
         NEW k \in Keys
  PROVE  Found(longer, k) = IF k = KeyOf(longer[1]) THEN longer[1] ELSE Found(list, k)
<1> DEFINE S == At(list, k)
           L == At(longer, k)
<1>1. /\ Len(list) \in Nat /\ Len(longer) \in Nat
      /\ S \subseteq 1..Len(list) /\ L \subseteq 1..Len(longer)
  BY DEF At
<1>2. \A i \in 1..Len(longer) :
        i \in L <=> longer[i].type = k[1] /\ longer[i].instance = k[2]
  BY DEF At
<1>3. 1 \in L <=> k = KeyOf(longer[1])
  BY <1>1, <1>2 DEF KeyOf, Keys
<1>4. \A i \in 2..Len(longer) : i \in L <=> i - 1 \in S
  BY <1>1 DEF At
<1> HIDE DEF S, L
<1>5. /\ FirstOf(S) \in Nat /\ (FirstOf(S) # 0 => FirstOf(S) \in S)
      /\ \A y \in S : FirstOf(S) # 0 /\ FirstOf(S) <= y
  BY <1>1, FirstIs
<1>6. /\ FirstOf(L) \in Nat /\ (FirstOf(L) # 0 => FirstOf(L) \in L)
      /\ \A y \in L : FirstOf(L) # 0 /\ FirstOf(L) <= y
  BY <1>1, FirstIs
<1>7. Found(list, k) = IF FirstOf(S) = 0 THEN NoAttr ELSE list[FirstOf(S)]
  BY FoundAt DEF S
<1>8. Found(longer, k) = IF FirstOf(L) = 0 THEN NoAttr ELSE longer[FirstOf(L)]
  BY FoundAt DEF L
<1>9. CASE k = KeyOf(longer[1])
  <2>1. FirstOf(L) = 1
    BY <1>3, <1>6, <1>9
  <2> QED BY <1>8, <1>9, <2>1
<1>10. CASE k # KeyOf(longer[1])
  <2>1. \A i \in L : i \in 2..Len(longer) /\ i - 1 \in S
    BY <1>1, <1>3, <1>4, <1>10
  <2>2. CASE FirstOf(S) = 0
    <3>1. L = {}
      BY <1>5, <2>1, <2>2
    <3>2. FirstOf(L) = 0
      BY <3>1 DEF FirstOf
    <3> QED BY <1>7, <1>8, <1>10, <2>2, <3>2
  <2>3. CASE FirstOf(S) # 0
    <3>1. FirstOf(S) \in S /\ FirstOf(S) \in 1..Len(list)
      BY <1>1, <1>5, <2>3
    <3>2. FirstOf(S) + 1 \in 2..Len(longer) /\ FirstOf(S) + 1 \in L
      BY <1>1, <1>4, <3>1
    <3>3. FirstOf(L) # 0 /\ FirstOf(L) <= FirstOf(S) + 1
      BY <1>6, <3>2
    <3>4. FirstOf(L) \in L
      BY <1>6, <3>3
    <3>5. FirstOf(L) - 1 \in S
      BY <2>1, <3>4
    <3>6. FirstOf(S) <= FirstOf(L) - 1
      BY <1>5, <3>5
    <3>7. FirstOf(L) = FirstOf(S) + 1
      BY <1>5, <1>6, <3>3, <3>6
    <3>8. longer[FirstOf(S) + 1] = list[FirstOf(S)]
      BY <3>1, <3>2, <1>5
    <3> QED BY <1>7, <1>8, <1>10, <2>3, <3>3, <3>7, <3>8
  <2> QED BY <2>2, <2>3
<1> QED BY <1>9, <1>10

LEMMA InitMapped == Init => Directory!Init
<1> SUFFICES ASSUME Init PROVE Directory!Init
  OBVIOUS
<1>1. entities = <<>> /\ phase = "register" /\ rc = "ok"
  BY DEF Init
<1>2. ASSUME NEW k \in Keys PROVE Found(entities, k) = NoAttr
  <2>1. At(entities, k) = {}
    BY <1>1 DEF At
  <2>2. FirstOf(At(entities, k)) = 0
    BY <2>1 DEF FirstOf
  <2> QED BY <2>2, FoundAt
<1> QED BY <1>1, <1>2 DEF Directory!Init

\* Registering writes the entry of the key of the new entity, and only that.
LEMMA RegisterMapped ==
  ASSUME IInv, RegisterEntity
  PROVE  \E k \in Keys : Directory!Register(k)
<1> DEFINE E == Entity(Node, config.settings, literal)
           before == [k \in Keys |-> Found(entities, k)]
           after == [k \in Keys |-> Found(entities', k)]
<1>1. /\ E \in EntityRecords /\ entities \in Seq(EntityRecords)
      /\ entities' \in Seq(EntityRecords) /\ Len(entities') = Len(entities) + 1
      /\ entities'[1] = E
      /\ \A i \in 2..Len(entities') : entities'[i] = entities[i - 1]
  BY Registered DEF IInv, TypeOK
<1>2. phase = "register" /\ phase' = phase /\ rc' = rc
  BY DEF RegisterEntity
<1> HIDE DEF E
<1>3. KeyOf(E) \in Keys
  BY <1>1 DEF KeyOf, Keys, EntityRecords
<1>4. \A k \in Keys : Found(entities', k) = IF k = KeyOf(E) THEN E ELSE Found(entities, k)
  BY <1>1, FoundInFront
<1>5. after[KeyOf(E)] = E
  BY <1>3, <1>4
<1>6. after = [before EXCEPT ![KeyOf(E)] = after[KeyOf(E)]]
  BY <1>3, <1>4
<1>7. Directory!Register(KeyOf(E))
  BY <1>1, <1>2, <1>5, <1>6 DEF Directory!Register
<1> QED BY <1>3, <1>7

\* The list is a directory in which the last registration of a key wins and
\* which nothing changes once sdi_sys_init is over: ImplementsDirectory, for
\* configurations of any length.
THEOREM RefinesDirectory == Spec => ImplementsDirectory
<1>1. IInv /\ [Next]_vars => [Directory!Next]_(Directory!vars)
  <2> SUFFICES ASSUME IInv, [Next]_vars PROVE [Directory!Next]_(Directory!vars)
    OBVIOUS
  <2>1. CASE RegisterEntity
    BY <2>1, RegisterMapped DEF Directory!Next
  <2>2. CASE InitEntity
    <3>1. rc' \in {"ok", "EPERM"} /\ phase = "init" /\ UNCHANGED <<phase, entities>>
      BY <2>2 DEF InitEntity, InitStatus
    <3>2. Directory!Visit
      BY <3>1 DEF Directory!Visit
    <3> QED BY <3>2 DEF Directory!Next
  <2>3. CASE Finish
    <3>1. Directory!Open
      BY <2>3 DEF Finish, Directory!Open
    <3> QED BY <3>1 DEF Directory!Next
  <2>4. CASE Abort \/ StartInit \/ (\E p \in Paths : HotPlug(p)) \/ UNCHANGED vars
    <3>1. (phase = "ready") = (phase' = "ready") /\ UNCHANGED <<entities, rc>>
      BY <2>4 DEF Abort, StartInit, HotPlug, vars
    <3>2. UNCHANGED Directory!vars
      BY <3>1 DEF Directory!vars
    <3> QED BY <3>2
  <2> QED BY <2>1, <2>2, <2>3, <2>4 DEF Next, Startup
<1> QED BY <1>1, InitMapped, Invariant, PTL DEF Spec, ImplementsDirectory, Directory!Spec
=============================================================================

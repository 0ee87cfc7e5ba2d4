----------------------------- MODULE EntityControl -----------------------------
(***************************************************************************)
(* The operations on an entity and its LEDs that are one sysfs access      *)
(* each: presence, fault and output power (sdi_entity.c), reset and power  *)
(* control (sdi_entity_reset.c), LED on and off (sdi_led.c), and the       *)
(* presence of a media (sdi_media.c).                                      *)
(*                                                                         *)
(* An operation tests whether it is supported, calls a helper of           *)
(* sdi_sysfs_utils.c and makes its answer of the result.  The helpers are  *)
(* the register of SysfsRegister, which SysfsAccess implements: this       *)
(* module composes with it, and the threads meet in the attributes only.   *)
(***************************************************************************)
EXTENDS SysfsData

CONSTANTS
  Callers,    \* threads of the process
  Entities    \* the settings of an entity: see EntityType

Queries  == {"presence", "fault", "psu_power", "media_presence"}
Power    == {"power_on", "power_off"}
Commands == {"reset", "warm_reset", "led_on", "led_off"} \cup Power
Ops == Queries \cup Commands

\* attr is the attribute of an operation, NullAttr where it is not supported
\* (an entity that is not swappable, a type that is not that of a LED, an
\* empty name).  text is the value that a query looks for or that a command
\* writes, Blank where it is not given.
EntityType ==
  [attr : [Ops -> TextAttrs \cup {NullAttr}], text : [Ops -> Texts \cup {Blank}]]

ASSUME EntityControlAssumption ==
  \A e \in Entities :
    /\ e \in EntityType
    /\ e.attr["power_on"] = e.attr["power_off"]    \* power_ctl.powerhdl
    \* the registration of a LED asserts its two values
    /\ \A op \in {"led_on", "led_off"} : e.text[op] # Blank
    /\ e.text["reset"] = Num(1)

VARIABLES
  file, phase, call, rc, out,   \* the sysfs helpers: see SysfsRegister
  entity,    \* the settings of the entity
  op,        \* the operation each caller is in, NoOp if none
  ended,     \* the callers whose operation is about to return
  status,    \* the status it will return
  answer,    \* the value of the caller's variable
  alive,     \* the process has not aborted
  held       \* history: whether its attribute read as the value of the
             \* operation, at each time since the operation began

helpers == <<file, phase, call, rc, out>>
vars == <<helpers, entity, op, ended, status, answer, alive, held>>

NoOp == "none"

Sysfs == INSTANCE SysfsRegister

Init ==
  /\ Sysfs!Init
  /\ entity \in Entities
  /\ op = [c \in Callers |-> NoOp]
  /\ ended = {}
  /\ status = [c \in Callers |-> "ok"]
  /\ answer = [c \in Callers |-> FALSE]
  /\ alive = TRUE
  /\ held = [c \in Callers |-> {}]

-----------------------------------------------------------------------------
Attr(c) == entity.attr[op[c]]
Wanted(c) == entity.text[op[c]]

\* Status and value of an operation that is not supported; the presence of
\* a resource that is no media leaves the caller's variable as it was.
Unsupported(o) ==
  CASE o = "presence"       -> {<<"ok", TRUE>>}
    [] o = "fault"          -> {<<"ok", FALSE>>}
    [] o = "media_presence" -> {<<"EPERM", TRUE>>, <<"EPERM", FALSE>>}
    [] o \in {"led_on", "led_off"} -> {<<"EPERM", FALSE>>}
    [] OTHER -> {<<"EOPNOTSUPP", FALSE>>}

IsSupported(o) == entity.attr[o] # NullAttr /\ o # "warm_reset"

\* The call of a helper: a getter, or a setter of the value.
RequestOf(o) ==
  [op |-> CASE o \in Queries -> "str_get" [] o = "reset" -> "uint_set" [] OTHER -> "str_set",
   attr |-> entity.attr[o],
   arg |-> IF o \in Queries THEN Pointer ELSE entity.text[o]]

\* Keeps the history of the attributes behind the operations under way.
Observe ==
  held' = [c \in Callers |->
             IF op'[c] # NoOp /\ IsSupported(op'[c]) /\ c \notin ended'
             THEN held[c] \cup {file'[entity.attr[op'[c]]] = entity.text[op'[c]]}
             ELSE held[c]]

Refuse(c, o) ==
  /\ op[c] = NoOp
  /\ ~IsSupported(o) /\ o # "psu_power"
  /\ op' = [op EXCEPT ![c] = o]
  /\ ended' = ended \cup {c}
  /\ \E u \in Unsupported(o) :
       /\ status' = [status EXCEPT ![c] = u[1]]
       /\ answer' = [answer EXCEPT ![c] = u[2]]
  /\ UNCHANGED <<helpers, entity, alive>>
  /\ Observe

\* power_status_control asserts that the value to write is not empty, and
\* sdi_entity_psu_output_power_status_get that the entity is a PSU tray: it
\* never gets to return the EPERM it prepares for the others.
Abort(c, o) ==
  /\ op[c] = NoOp
  /\ \/ o \in Power /\ IsSupported(o) /\ entity.text[o] = Blank
     \/ o = "psu_power" /\ ~IsSupported(o)
  /\ alive' = FALSE
  /\ UNCHANGED <<helpers, entity, op, ended, status, answer, held>>

\* Bug: the assertion on the value to write is gone.
StartUnasserted(c, o) ==
  /\ op[c] = NoOp
  /\ IsSupported(o)
  /\ Sysfs!Invoke(c, RequestOf(o))
  /\ op' = [op EXCEPT ![c] = o]
  /\ UNCHANGED <<entity, ended, status, answer, alive>>
  /\ Observe

Start(c, o) ==
  /\ op[c] = NoOp
  /\ IsSupported(o)
  /\ o \in Power => entity.text[o] # Blank
  /\ Sysfs!Invoke(c, RequestOf(o))
  /\ op' = [op EXCEPT ![c] = o]
  /\ UNCHANGED <<entity, ended, status, answer, alive>>
  /\ Observe

\* The helper does its work.
Helper(c) ==
  /\ Sysfs!Effect(c)
  /\ UNCHANGED <<entity, op, ended, status, answer, alive>>
  /\ Observe

\* The text that the query finds in its buffer, which was cleared before.
Found(c) == IF out[c] = Untouched THEN Blank ELSE out[c]

\* Bug: any text means present.
AnswerOfAnyText(c) == rc[c] = "ok" /\ (op[c] = "fault" => Found(c) = Wanted(c))

\* Bug: the text is looked at even if it could not be read.
AnswerOfUnread(c) ==
  IF op[c] = "media_presence" THEN Found(c) # Wanted(c)
  ELSE op[c] \in Queries /\ Found(c) = Wanted(c)

AnswerOf(c) ==
  CASE op[c] \in {"presence", "psu_power"} -> rc[c] = "ok" /\ Found(c) = Wanted(c)
    [] op[c] = "fault"          -> rc[c] # "ok" \/ Found(c) = Wanted(c)
    [] op[c] = "media_presence" -> rc[c] = "ok" /\ Found(c) # Wanted(c)
    [] OTHER -> FALSE

Finish(c) ==
  /\ Sysfs!Return(c)
  /\ ended' = ended \cup {c}
  /\ status' = [status EXCEPT ![c] = rc[c]]
  /\ answer' = [answer EXCEPT ![c] = AnswerOf(c)]
  /\ UNCHANGED <<entity, op, alive>>
  /\ Observe

Leave(c) ==
  /\ c \in ended
  /\ ended' = ended \ {c}
  /\ op' = [op EXCEPT ![c] = NoOp]
  /\ status' = [status EXCEPT ![c] = "ok"]
  /\ answer' = [answer EXCEPT ![c] = FALSE]
  /\ held' = [held EXCEPT ![c] = {}]
  /\ UNCHANGED <<helpers, entity, alive>>

Device(a) ==
  /\ Sysfs!Device(a)
  /\ UNCHANGED <<entity, op, ended, status, answer, alive>>
  /\ Observe

Step(c) == Helper(c) \/ Finish(c) \/ Leave(c)

Next ==
  /\ alive
  /\ \/ \E c \in Callers :
          \/ \E o \in Ops : Refuse(c, o) \/ Abort(c, o) \/ Start(c, o)
          \/ Step(c)
     \/ \E a \in TextAttrs : Device(a)

Spec == Init /\ [][Next]_vars

-----------------------------------------------------------------------------
(* Properties. *)

TypeOK ==
  /\ entity \in Entities
  /\ file \in Files
  /\ phase \in [Callers -> {"idle", "pending", "done"}]
  /\ call \in [Callers -> Requests]
  /\ op \in [Callers -> Ops \cup {NoOp}]
  /\ ended \in SUBSET Callers
  /\ status \in [Callers -> {"ok", "EPERM", "EOPNOTSUPP", "errno"}]
  /\ answer \in [Callers -> BOOLEAN]
  /\ alive \in BOOLEAN
  /\ held \in [Callers -> SUBSET BOOLEAN]

\* A positive answer is not made up: presence, power or, from an attribute
\* that could be read, a fault was there at some time during the operation,
\* whatever devices and commands of other threads did to the attribute.  It
\* takes settings that give the value: "" is found wherever there is no text.
AnswersHeld ==
  \A c \in ended :
    IsSupported(op[c]) /\ op[c] \in {"presence", "psu_power", "fault"} =>
      (status[c] = "ok" /\ answer[c] /\ Wanted(c) # Blank => TRUE \in held[c])

\* A query that fails answers on the safe side: a fault, no power, not there.
FailsSafe ==
  \A c \in ended :
    IsSupported(op[c]) /\ op[c] \in Queries /\ status[c] # "ok" =>
      (answer[c] <=> op[c] = "fault")
=============================================================================

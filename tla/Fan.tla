---------------------------------- MODULE Fan ----------------------------------
(***************************************************************************)
(* A fan (sdi_fan.c): its settings, as registration leaves them, and the   *)
(* four calls.  fan_speed_set reads the maximum speed, computes the PWM    *)
(* value in unsigned ints and writes it, two accesses to sysfs with        *)
(* nothing held between them; meanwhile other threads set the speed too    *)
(* and the fan may be exchanged for another one.  Every access is one      *)
(* atomic step that may fail or leave the variable alone, as SysfsRegister *)
(* has it.                                                                 *)
(***************************************************************************)
EXTENDS Integers

CONSTANTS
  Callers,      \* threads of the process
  Settings,     \* what registration may leave: see SettingsType
  MaxSpeeds,    \* maximum speeds that a fan may report, in RPM
  Speeds,       \* speeds that callers ask for, in RPM
  Modulus,      \* 2^w for an unsigned int of w bits
  Percent       \* 100

Uint == 0 .. Modulus - 1

\* The attribute names that are given, and the two numbers, 0 if not given.
SettingsType ==
  [isfan : BOOLEAN, set : BOOLEAN, get : BOOLEAN, max_get : BOOLEAN, status : BOOLEAN,
   fault : BOOLEAN, max_pwm : Uint, max_rpm : Uint]

ASSUME FanAssumption ==
  /\ Modulus \in Nat \ {0}
  /\ Percent \in Nat \ {0} /\ Percent < Modulus
  /\ MaxSpeeds \subseteq 0 .. Modulus - 1
  /\ Speeds \subseteq 0 .. Modulus - 1
  /\ Settings \subseteq SettingsType

Blank == [val |-> 0, known |-> FALSE]
Rpm(n) == [val |-> n, known |-> TRUE]

VARIABLES
  settings,   \* the settings of the resource
  plugged,    \* the fan is there: the directory of its attributes exists
  fastest,    \* the content of its max_get attribute
  faulty,     \* what its status attribute reads: "ok", "fault" or "blank"
  pwm,        \* the last PWM value that its driver took
  alive,      \* the process has not been killed
  pc, call,   \* the next step of each caller, and its request
  max,        \* max_speed of fan_speed_set
  drive,      \* pwm_speed of fan_speed_set
  rc, out     \* the status and the value that will be returned

vars == <<settings, plugged, fastest, faulty, pwm, alive, pc, call, max, drive, rc, out>>
device == <<plugged, fastest, faulty, pwm>>
locals == <<max, drive, out>>

Ops == {"max_speed_get", "speed_get", "status_get", "speed_set"}
Requests == [op : Ops \ {"speed_set"}, speed : {0}] \cup [op : {"speed_set"}, speed : Speeds]
NoRequest == [op |-> "speed_get", speed |-> 0]

Init ==
  /\ settings \in Settings
  /\ plugged \in BOOLEAN
  /\ fastest \in {Rpm(n) : n \in MaxSpeeds} \cup {Blank}
  /\ faulty \in {"ok", "fault", "blank"}
  /\ pwm = 0
  /\ alive = TRUE
  /\ pc = [c \in Callers |-> "idle"]
  /\ call = [c \in Callers |-> NoRequest]
  /\ max = [c \in Callers |-> 0]
  /\ drive = [c \in Callers |-> 0]
  /\ rc = [c \in Callers |-> "ok"]
  /\ out = [c \in Callers |-> Blank]

-----------------------------------------------------------------------------
Op(c) == call[c].op

Goto(c, from, to) == pc[c] = from /\ pc' = [pc EXCEPT ![c] = to]

Finish(c, from, s, v) ==
  /\ Goto(c, from, "done")
  /\ rc' = [rc EXCEPT ![c] = s]
  /\ out' = [out EXCEPT ![c] = v]

\* unsigned arithmetic of fan_speed_set: a product wraps around.
Times(a, b) == (a * b) % Modulus

\* Bug: the quotient is taken before the product.
PwmOfDividedFirst(maxpwm, speed, maxspeed) ==
  Times(maxpwm, Times(speed \div maxspeed, Percent)) \div Percent

\* Bug: the two speeds are swapped.
PwmOfSwapped(maxpwm, speed, maxspeed) ==
  Times(maxpwm, Times(maxspeed, Percent) \div speed) \div Percent

PwmOf(maxpwm, speed, maxspeed) ==
  Times(maxpwm, Times(speed, Percent) \div maxspeed) \div Percent

\* The test at the head of each call.
Supported(op) ==
  /\ settings.isfan
  /\ op = "max_speed_get" => settings.max_get \/ settings.max_rpm > 0
  /\ op = "speed_get"     => settings.get
  /\ op = "status_get"    => settings.status
  /\ op = "speed_set"     => settings.max_get /\ settings.set

Call(c, r) ==
  /\ call' = [call EXCEPT ![c] = r]
  /\ IF Supported(r.op) THEN Goto(c, "idle", "read") /\ UNCHANGED <<rc, out>>
     ELSE Finish(c, "idle", "EPERM", Blank)
  /\ UNCHANGED <<settings, device, alive, max, drive>>

\* Without a max_get attribute the value of the configuration is stored, and
\* then the access that follows goes to the directory of the fan: it fails
\* when there is none, and reads nothing when there is one.
MaxSpeedGet(c) ==
  /\ Op(c) = "max_speed_get"
  /\ LET default == IF settings.max_get THEN Blank ELSE Rpm(settings.max_rpm) IN
     \/ Finish(c, "read", "errno", default)
     \/ /\ plugged
        /\ \E v \in {default} \cup (IF settings.max_get THEN {fastest} ELSE {}) :
             Finish(c, "read", "ok", v)
  /\ UNCHANGED <<settings, device, alive, call, max, drive>>

\* The speed that a fan turns at is any number.
SpeedGet(c) ==
  /\ Op(c) = "speed_get"
  /\ \/ Finish(c, "read", "errno", Blank)
     \/ plugged /\ \E v \in {Rpm(n) : n \in MaxSpeeds} \cup {Blank} : Finish(c, "read", "ok", v)
  /\ UNCHANGED <<settings, device, alive, call, max, drive>>

\* What the status has to read for a fault: nothing at all, if the value for
\* a fault is not given.
FaultText == IF settings.fault THEN "fault" ELSE "blank"

\* A fan is faulty (1) if its status reads so or its attribute is not there.
StatusGet(c) ==
  /\ Op(c) = "status_get"
  /\ \/ Finish(c, "read", "errno", Rpm(1))
     \/ /\ plugged
        /\ \E text \in {faulty, "blank"} :
             Finish(c, "read", "ok", Rpm(IF text = FaultText THEN 1 ELSE 0))
  /\ UNCHANGED <<settings, device, alive, call, max, drive>>

\* Bug: the status of the access is kept, and not tested.
ReadMaxUntested(c) ==
  /\ Op(c) = "speed_set"
  /\ Goto(c, "read", "divide")
  /\ \/ rc' = [rc EXCEPT ![c] = "EPERM"] /\ UNCHANGED max
     \/ /\ plugged
        /\ \E v \in {fastest.val, 0} : max' = [max EXCEPT ![c] = v]
        /\ UNCHANGED rc
  /\ UNCHANGED <<settings, device, alive, call, drive, out>>

ReadMax(c) ==
  /\ Op(c) = "speed_set"
  /\ \/ Finish(c, "read", "EPERM", Blank) /\ UNCHANGED max
     \/ /\ plugged
        /\ Goto(c, "read", "divide")
        /\ \E v \in {fastest.val, 0} : max' = [max EXCEPT ![c] = v]
        /\ UNCHANGED <<rc, out>>
  /\ UNCHANGED <<settings, device, alive, call, drive>>

\* The division by a maximum of zero kills the process.
Divide(c) ==
  /\ IF max[c] = 0
     THEN /\ pc[c] = "divide"
          /\ alive' = FALSE
          /\ UNCHANGED <<pc, drive>>
     ELSE /\ Goto(c, "divide", "write")
          /\ drive' = [drive EXCEPT ![c] = PwmOf(settings.max_pwm, call[c].speed, max[c])]
          /\ UNCHANGED alive
  /\ UNCHANGED <<settings, device, call, max, rc, out>>

\* The driver takes the value, or refuses it unnoticed.
WritePwm(c) ==
  /\ \/ Finish(c, "write", "errno", Blank) /\ UNCHANGED pwm
     \/ plugged /\ Finish(c, "write", "ok", Blank) /\ pwm' \in {pwm, drive[c]}
  /\ UNCHANGED <<settings, plugged, fastest, faulty, alive, call, max, drive>>

Return(c) ==
  /\ Goto(c, "done", "idle")
  /\ call' = [call EXCEPT ![c] = NoRequest]
  /\ max' = [max EXCEPT ![c] = 0]
  /\ drive' = [drive EXCEPT ![c] = 0]
  /\ rc' = [rc EXCEPT ![c] = "ok"]
  /\ out' = [out EXCEPT ![c] = Blank]
  /\ UNCHANGED <<settings, device, alive>>

\* A fan is pulled or plugged; another one may have another maximum.
HotSwap ==
  /\ plugged' = ~plugged
  /\ fastest' \in {Rpm(n) : n \in MaxSpeeds} \cup {Blank}
  /\ faulty' \in {"ok", "fault", "blank"}
  /\ pwm' = 0
  /\ UNCHANGED <<settings, alive, pc, call, max, drive, rc, out>>

Step(c) ==
  MaxSpeedGet(c) \/ SpeedGet(c) \/ StatusGet(c) \/ ReadMax(c) \/ Divide(c) \/ WritePwm(c)
    \/ Return(c)

Next ==
  /\ alive
  /\ HotSwap \/ \E c \in Callers : (\E r \in Requests : Call(c, r)) \/ Step(c)

Spec == Init /\ [][Next]_vars

-----------------------------------------------------------------------------
(* Properties. *)

Typed ==
  /\ settings \in Settings
  /\ plugged \in BOOLEAN
  /\ fastest \in [val : Uint, known : BOOLEAN]
  /\ faulty \in {"ok", "fault", "blank"}
  /\ pwm \in Uint
  /\ alive \in BOOLEAN
  /\ pc \in [Callers -> {"idle", "read", "divide", "write", "done"}]
  /\ call \in [Callers -> Requests \cup {NoRequest}]
  /\ max \in [Callers -> Uint]
  /\ drive \in [Callers -> Uint]
  /\ rc \in [Callers -> {"ok", "EPERM", "errno"}]
  /\ out \in [Callers -> [val : Uint, known : BOOLEAN]]

\* A call that goes on has failed nowhere; what divides and writes is
\* fan_speed_set, of a fan that has both attributes.
OnlyTested ==
  \A c \in Callers :
    /\ pc[c] # "done" => rc[c] = "ok"
    /\ pc[c] \in {"read", "divide", "write"} =>
         /\ settings.isfan
         /\ Op(c) = "speed_set" => settings.max_get /\ settings.set
    /\ pc[c] \in {"divide", "write"} => Op(c) = "speed_set"

\* The types, and no call goes on after a test that it fails: neither the one
\* at its head nor that of the status of its first access (sdi_fan.c:187-197).
TypeOK == Typed /\ OnlyTested

\* The caller asks for a speed the fan has, and no product of fan_speed_set
\* exceeds an unsigned int.
InRange(c) ==
  /\ call[c].speed <= max[c]
  /\ call[c].speed * Percent < Modulus
  /\ settings.max_pwm * Percent < Modulus

\* The PWM value about to be written is the asked share of the maximum PWM
\* value, rounded down twice: never more, less by at most one percent of the
\* maximum and one step, and the maximum for the maximum speed.
PwmIsProportional ==
  \A c \in Callers :
    pc[c] = "write" /\ InRange(c) =>
      LET asked == settings.max_pwm * call[c].speed IN
        /\ drive[c] * max[c] <= asked
        /\ Percent * (asked - drive[c] * max[c]) < max[c] * (settings.max_pwm + Percent)
        /\ call[c].speed = max[c] => drive[c] = settings.max_pwm

\* Of two threads that set the speed of the same fan, the one that asks for
\* more never writes less, so the order of their writes does not matter to
\* what the larger request can reach.
LargerAskWritesMore ==
  \A c, d \in Callers :
    pc[c] = "write" /\ pc[d] = "write" /\ InRange(c) /\ InRange(d) =>
      (max[c] = max[d] /\ call[c].speed <= call[d].speed => drive[c] <= drive[d])

-----------------------------------------------------------------------------
(* What the comments of sdi_fan.c say, and the code does not do. *)

\* "return STD_ERR_OK on success and standard error on failure."
\* (sdi_fan.c:174): fan_speed_set ends with a status, it does not kill the
\* process.  It does when the maximum speed reads as zero or cannot be read.
SpeedSetReturns == alive
=============================================================================

-------------------------------- MODULE Thermal --------------------------------
(***************************************************************************)
(* A thermal sensor (sdi_thermal.c).  Its thresholds are the only state    *)
(* that the library changes after the start, and all threads share them    *)
(* without a lock, so every load and store is a step of its own: a         *)
(* threshold is tested against the "unsupported" mark in one step and used *)
(* in the next.  (A build that merges the two loads behaves like one in    *)
(* which nothing happens between them.)                                    *)
(***************************************************************************)
EXTENDS Integers

CONSTANTS
  Callers,       \* threads of the process
  Readings,      \* what the sensor may read, in thousandths of a degree
  Thresholds,    \* values that callers pass to threshold_set, in degrees
  Configured,    \* pairs <<low, high>> that registration may leave
  Unsupported,   \* the mark: INT_MIN
  Divider        \* thousandths in a degree: 1000

ASSUME ThermalAssumption ==
  /\ Readings \subseteq Int
  /\ Thresholds \subseteq Int
  /\ Unsupported \in Int
  /\ Divider \in Nat \ {0}
  /\ Configured \subseteq Int \X Int
  \* sdi_temp_register_settings marks both thresholds or none.
  /\ \A t \in Configured : t[1] = Unsupported <=> t[2] = Unsupported

VARIABLES
  initial,    \* history: the thresholds that registration left
  low,        \* settings->low_thresh
  high,       \* settings->high_thresh
  reading,    \* what the sensor reads now
  pc,         \* the next step of each caller
  call,       \* its request
  temp,       \* the reading it took, in its own variable
  lows,       \* history: the low thresholds since its status_get took it
  rc,         \* the status it will return
  out         \* the value or the alert it will return

vars == <<initial, low, high, reading, pc, call, temp, lows, rc, out>>

Ops == {"temperature_get", "status_get", "threshold_get", "threshold_set"}
Kinds == {"low", "high", "other"}

\* A request on this sensor, or (sensor is FALSE) on a resource of another type.
Requests ==
       [op : {"temperature_get", "status_get"}, kind : {"other"}, val : {0}, sensor : {TRUE}]
  \cup [op : {"threshold_get"}, kind : Kinds, val : {0}, sensor : {TRUE}]
  \cup [op : {"threshold_set"}, kind : Kinds, val : Thresholds, sensor : {TRUE}]
  \cup [op : Ops, kind : {"other"}, val : {0}, sensor : {FALSE}]

NoRequest == [op |-> "status_get", kind |-> "other", val |-> 0, sensor |-> TRUE]

Steps == {"idle", "sense", "guard", "use", "low", "below_low", "high", "below_high", "done"}

Init ==
  /\ initial \in Configured
  /\ low = initial[1]
  /\ high = initial[2]
  /\ reading \in Readings
  /\ pc = [c \in Callers |-> "idle"]
  /\ call = [c \in Callers |-> NoRequest]
  /\ temp = [c \in Callers |-> 0]
  /\ lows = [c \in Callers |-> {}]
  /\ rc = [c \in Callers |-> "ok"]
  /\ out = [c \in Callers |-> 0]

-----------------------------------------------------------------------------
Goto(c, from, to) == pc[c] = from /\ pc' = [pc EXCEPT ![c] = to]
Op(c)   == call[c].op
Kind(c) == call[c].kind

\* Division of C: towards zero.
Quotient(n, d) == IF n >= 0 THEN n \div d ELSE -((-n) \div d)

\* The alert of status_get is 1, no alert is 0.
Alert == 1

Call(c, r) ==
  /\ call' = [call EXCEPT ![c] = r]
  /\ \/ /\ ~r.sensor
        /\ Goto(c, "idle", "done")
        /\ rc' = [rc EXCEPT ![c] = "EPERM"]
     \/ /\ r.sensor
        /\ Goto(c, "idle", IF r.op \in {"temperature_get", "status_get"} THEN "sense" ELSE "guard")
        /\ UNCHANGED rc
  /\ UNCHANGED <<initial, low, high, reading, temp, lows, out>>

\* What sdi_sysfs_attr_int_get leaves alone when it succeeds without a value:
\* a 0 in status_get, anything in the variable of temperature_get's caller.
Unread(c) == IF Op(c) = "status_get" THEN {0} ELSE Readings

\* sdi_sysfs_attr_int_get: the reading, or a failure, or neither.
Sense(c) ==
  /\ pc[c] = "sense"
  /\ \/ /\ Goto(c, "sense", "done")
        /\ rc' = [rc EXCEPT ![c] = "errno"]
        /\ UNCHANGED <<temp, lows, out>>
     \/ \E t \in {reading} \cup Unread(c) :
          /\ temp' = [temp EXCEPT ![c] = t]
          /\ IF Op(c) = "status_get"
             THEN /\ Goto(c, "sense", "low")
                  /\ lows' = [lows EXCEPT ![c] = {low}]
                  /\ UNCHANGED out
             ELSE /\ Goto(c, "sense", "done")
                  /\ out' = [out EXCEPT ![c] = Quotient(t, Divider)]
                  /\ UNCHANGED lows
          /\ UNCHANGED rc
  /\ UNCHANGED <<initial, low, high, reading, call>>

\* Bug: the switch over the kind has no default.
GuardStatusAnyKind(c) == IF low = Unsupported THEN "EOPNOTSUPP" ELSE "ok"

\* Bug: there is no support test.
GuardStatusUntested(c) == IF Kind(c) = "other" THEN "EPERM" ELSE "ok"

\* Bug: the support test is inverted.
GuardStatusInverted(c) == IF low = Unsupported THEN "ok" ELSE "EOPNOTSUPP"

\* The support test of threshold_get and threshold_set, whichever threshold
\* is asked for, looks at the low one.
GuardStatus(c) ==
  IF Kind(c) = "other" THEN "EPERM"
  ELSE IF low = Unsupported THEN "EOPNOTSUPP" ELSE "ok"

Guard(c) ==
  /\ rc' = [rc EXCEPT ![c] = GuardStatus(c)]
  /\ Goto(c, "guard", IF rc'[c] = "ok" THEN "use" ELSE "done")
  /\ UNCHANGED <<initial, low, high, reading, call, temp, lows, out>>

GetThreshold(c) ==
  /\ Op(c) = "threshold_get"
  /\ Goto(c, "use", "done")
  /\ out' = [out EXCEPT ![c] = IF Kind(c) = "low" THEN low ELSE high]
  /\ UNCHANGED <<initial, low, high, reading, call, temp, lows, rc>>

\* The steps of status_get that compare.
Comparing == {"low", "below_low", "high", "below_high"}

SetThreshold(c) ==
  /\ Op(c) = "threshold_set"
  /\ Goto(c, "use", "done")
  /\ low'  = IF Kind(c) = "low"  THEN call[c].val ELSE low
  /\ high' = IF Kind(c) = "high" THEN call[c].val ELSE high
  /\ lows' = [d \in Callers |-> IF pc[d] \in Comparing THEN lows[d] \cup {low'} ELSE lows[d]]
  /\ UNCHANGED <<initial, reading, call, temp, rc, out>>

\* The four loads of status_get.  Thousandths are compared with degrees, and
\* a reading below the high threshold raises the alert.
RaiseAlert(c, from) ==
  /\ Goto(c, from, "done")
  /\ out' = [out EXCEPT ![c] = Alert]

\* Bug: a reading above the low threshold raises the alert.
StatusStepInverted(c) ==
  /\ \/ Goto(c, "low", IF low # Unsupported THEN "below_low" ELSE "done") /\ UNCHANGED out
     \/ temp[c] > low /\ RaiseAlert(c, "below_low")
     \/ temp[c] <= low /\ Goto(c, "below_low", "done") /\ UNCHANGED out
  /\ UNCHANGED <<initial, low, high, reading, call, temp, lows, rc>>

StatusStep(c) ==
  /\ \/ Goto(c, "low", IF low # Unsupported THEN "below_low" ELSE "high") /\ UNCHANGED out
     \/ temp[c] < low /\ RaiseAlert(c, "below_low")
     \/ temp[c] >= low /\ Goto(c, "below_low", "high") /\ UNCHANGED out
     \/ Goto(c, "high", IF high # Unsupported THEN "below_high" ELSE "done") /\ UNCHANGED out
     \/ temp[c] < high /\ RaiseAlert(c, "below_high")
     \/ temp[c] >= high /\ Goto(c, "below_high", "done") /\ UNCHANGED out
  /\ UNCHANGED <<initial, low, high, reading, call, temp, lows, rc>>

Return(c) ==
  /\ Goto(c, "done", "idle")
  /\ call' = [call EXCEPT ![c] = NoRequest]
  /\ temp' = [temp EXCEPT ![c] = 0]
  /\ lows' = [lows EXCEPT ![c] = {}]
  /\ rc' = [rc EXCEPT ![c] = "ok"]
  /\ out' = [out EXCEPT ![c] = 0]
  /\ UNCHANGED <<initial, low, high, reading>>

\* The temperature changes.
Heat == reading' \in Readings /\ UNCHANGED <<initial, low, high, pc, call, temp, lows, rc, out>>

Step(c) == Sense(c) \/ Guard(c) \/ GetThreshold(c) \/ SetThreshold(c) \/ StatusStep(c)
             \/ Return(c)

Next == Heat \/ \E c \in Callers : (\E r \in Requests : Call(c, r)) \/ Step(c)

Spec == Init /\ [][Next]_vars

-----------------------------------------------------------------------------
(* Properties. *)

TypeOK ==
  /\ initial \in Configured
  /\ low \in Int /\ high \in Int
  /\ reading \in Readings
  /\ pc \in [Callers -> Steps]
  /\ call \in [Callers -> Requests \cup {NoRequest}]
  /\ \A c \in Callers :
       /\ pc[c] = "use" => Op(c) \in {"threshold_get", "threshold_set"} /\ Kind(c) # "other"
       /\ pc[c] \in Comparing => Op(c) = "status_get"
  /\ temp \in [Callers -> Int]
  /\ lows \in [Callers -> SUBSET Int]
  /\ rc \in [Callers -> {"ok", "errno", "EPERM", "EOPNOTSUPP"}]
  /\ out \in [Callers -> Int]

\* A sensor registered without thresholds never gets any, however the calls
\* of several threads interleave, and its status never alerts.
UnsupportedForever ==
  initial[1] = Unsupported =>
    /\ low = Unsupported /\ high = Unsupported
    /\ \A c \in Callers : Op(c) = "status_get" => out[c] # Alert

\* If no caller passes the mark as a value, a sensor registered with
\* thresholds keeps both, no call is refused as unsupported, and the mark is
\* never handed out as a threshold.
MarkNeverLeaks ==
  Unsupported \notin Thresholds /\ initial[1] # Unsupported =>
    /\ low # Unsupported /\ high # Unsupported
    /\ \A c \in Callers :
         /\ rc[c] # "EOPNOTSUPP"
         /\ pc[c] = "done" /\ Op(c) = "threshold_get" /\ rc[c] = "ok" => out[c] # Unsupported

\* While other threads set thresholds, a reading that stays below the low one
\* raises the alert, though the threshold is tested in one load and compared in
\* the next: below every value it has had since the reading was taken.  Both
\* are in degrees here; the code compares thousandths with degrees, which comes
\* to the same for a reading below zero only.
LowReadingAlerts ==
  \A c \in Callers :
    /\ pc[c] = "done" /\ Op(c) = "status_get" /\ rc[c] = "ok" /\ temp[c] < 0
    /\ \A t \in lows[c] : t # Unsupported /\ Quotient(temp[c], Divider) < t
    => out[c] = Alert

-----------------------------------------------------------------------------
(* What comments of sdi_thermal.c say, and the code does not do. *)

\* "high threshold for the thermal sensor" (sdi_thermal.c:27), with the fault
\* status of sdi_thermal.c:193: while the thresholds do not change, a reading
\* above the high threshold raises the alert.
HighReadingAlerts ==
  \A c \in Callers :
    pc[c] = "done" /\ Op(c) = "status_get" /\ rc[c] = "ok"
      /\ <<low, high>> = initial /\ high # Unsupported /\ Quotient(temp[c], Divider) > high
        => out[c] = Alert
=============================================================================

----------------------------- MODULE ThermalProofs -----------------------------
(***************************************************************************)
(* The thresholds of a sensor, for any number of threads and any values:   *)
(* a sensor without thresholds stays without, and one with thresholds is   *)
(* never taken for one without.                                            *)
(***************************************************************************)
EXTENDS Thermal, TLAPS

\* Where the steps of each operation are.
StepsOK ==
  \A c \in Callers :
    /\ pc[c] \in {"idle", "sense", "guard"} => out[c] = 0
    /\ pc[c] = "sense" => Op(c) \in {"temperature_get", "status_get"}
    /\ pc[c] = "guard" => Op(c) \in {"threshold_get", "threshold_set"}

\* A sensor without thresholds: no step that would use one is ever reached.
NoThresholds ==
  /\ low = Unsupported /\ high = Unsupported
  /\ \A c \in Callers :
       /\ pc[c] \notin {"use", "below_low", "below_high"}
       /\ Op(c) = "status_get" => out[c] # Alert

\* A sensor with thresholds, none of whose callers passes the mark.
BothThresholds ==
  /\ low # Unsupported /\ high # Unsupported
  /\ \A c \in Callers :
       /\ rc[c] # "EOPNOTSUPP"
       /\ pc[c] = "done" /\ Op(c) = "threshold_get" /\ rc[c] = "ok" => out[c] # Unsupported

IInv ==
  /\ TypeOK
  /\ StepsOK
  /\ initial[1] = Unsupported => NoThresholds
  /\ Unsupported \notin Thresholds /\ initial[1] # Unsupported => BothThresholds

-----------------------------------------------------------------------------
\* Division towards zero of the reading stays an integer.
LEMMA QuotientInt == ASSUME NEW n \in Int PROVE Quotient(n, Divider) \in Int
  BY ThermalAssumption DEF Quotient

\* What registration leaves satisfies the invariant.
LEMMA InitHolds == Init => IInv
<1> SUFFICES ASSUME Init PROVE IInv
    OBVIOUS
<1>1. TypeOK /\ StepsOK
    BY ThermalAssumption DEF Init, TypeOK, StepsOK, Steps, NoRequest, Op, Kind, Comparing
<1>2. initial[1] = Unsupported => NoThresholds
    BY ThermalAssumption DEF Init, NoThresholds, NoRequest, Op, Alert
<1>3. Unsupported \notin Thresholds /\ initial[1] # Unsupported => BothThresholds
    BY ThermalAssumption DEF Init, BothThresholds, NoRequest, Op
<1> QED BY <1>1, <1>2, <1>3 DEF IInv

\* Starting a call keeps the invariant.
LEMMA CallHolds ==
  ASSUME IInv, NEW c \in Callers, NEW r \in Requests, Call(c, r) PROVE IInv'
<1> USE DEF Comparing, Goto, Op, Kind, Call
<1>1. r.op \in Ops
    BY DEF Requests, Ops
<1>2. TypeOK'
    BY DEF IInv, TypeOK, Steps
<1>3. StepsOK'
    BY <1>1 DEF IInv, TypeOK, StepsOK, Ops
<1>4. initial[1] = Unsupported => NoThresholds'
    BY DEF IInv, TypeOK, StepsOK, NoThresholds, Alert
<1>5. Unsupported \notin Thresholds /\ initial[1] # Unsupported => BothThresholds'
    BY DEF IInv, TypeOK, BothThresholds
<1> QED BY <1>2, <1>3, <1>4, <1>5 DEF IInv

\* Reading the sensor keeps the invariant.
LEMMA SenseHolds ==
  ASSUME IInv, NEW c \in Callers, Sense(c) PROVE IInv'
<1> USE DEF Comparing, Goto, Op, Kind
<1>1. CASE /\ pc' = [pc EXCEPT ![c] = "done"]
           /\ rc' = [rc EXCEPT ![c] = "errno"]
           /\ UNCHANGED <<temp, lows, out>>
  <2>1. TypeOK' /\ StepsOK'
      BY <1>1 DEF IInv, TypeOK, Sense, Steps, StepsOK
  <2>2. initial[1] = Unsupported => NoThresholds'
      BY <1>1 DEF IInv, TypeOK, Sense, NoThresholds
  <2>3. Unsupported \notin Thresholds /\ initial[1] # Unsupported => BothThresholds'
      BY <1>1 DEF IInv, TypeOK, Sense, BothThresholds
  <2> QED BY <2>1, <2>2, <2>3, <1>1 DEF IInv, Sense
<1>2. ASSUME NEW t \in {reading} \cup Unread(c),
             temp' = [temp EXCEPT ![c] = t],
             IF Op(c) = "status_get"
               THEN /\ pc' = [pc EXCEPT ![c] = "low"]
                    /\ lows' = [lows EXCEPT ![c] = {low}]
                    /\ UNCHANGED out
               ELSE /\ pc' = [pc EXCEPT ![c] = "done"]
                    /\ out' = [out EXCEPT ![c] = Quotient(t, Divider)]
                    /\ UNCHANGED lows,
             UNCHANGED rc
      PROVE IInv'
  <2>1. t \in Int
      BY ThermalAssumption DEF Unread, IInv, TypeOK
  <2>2. Quotient(t, Divider) \in Int
      BY <2>1, QuotientInt
  <2>3. pc[c] = "sense" /\ Op(c) \in {"temperature_get", "status_get"}
      BY DEF Sense, IInv, StepsOK
  <2>4. TypeOK' /\ StepsOK'
      BY <1>2, <2>1, <2>2, <2>3 DEF IInv, TypeOK, Sense, Steps, StepsOK
  <2>5. initial[1] = Unsupported => NoThresholds'
      BY <1>2, <2>2, <2>3 DEF IInv, TypeOK, Sense, NoThresholds
  <2>6. Unsupported \notin Thresholds /\ initial[1] # Unsupported => BothThresholds'
      BY <1>2, <2>2, <2>3 DEF IInv, TypeOK, Sense, BothThresholds
  <2> QED BY <2>4, <2>5, <2>6 DEF IInv, Sense
<1> QED BY <1>1, <1>2 DEF Sense

\* The support test keeps the invariant: it lets a call through only to a
\* sensor with thresholds, and refuses it only when there are none.
LEMMA GuardHolds ==
  ASSUME IInv, NEW c \in Callers, Guard(c) PROVE IInv'
<1> USE DEF Comparing, Goto, Op, Kind
<1>1. /\ pc[c] = "guard" /\ Op(c) \in {"threshold_get", "threshold_set"}
      /\ rc' = [rc EXCEPT ![c] = GuardStatus(c)]
      /\ rc'[c] = GuardStatus(c)
      /\ pc' = [pc EXCEPT ![c] = IF GuardStatus(c) = "ok" THEN "use" ELSE "done"]
      /\ UNCHANGED <<initial, low, high, reading, call, temp, lows, out>>
    BY DEF Guard, IInv, TypeOK, StepsOK
<1>2. TypeOK' /\ StepsOK'
    BY <1>1 DEF IInv, TypeOK, Steps, StepsOK, GuardStatus
<1>3. initial[1] = Unsupported => NoThresholds'
    BY <1>1 DEF IInv, TypeOK, NoThresholds, GuardStatus
<1>4. Unsupported \notin Thresholds /\ initial[1] # Unsupported => BothThresholds'
    BY <1>1 DEF IInv, TypeOK, BothThresholds, GuardStatus
<1> QED BY <1>1, <1>2, <1>3, <1>4 DEF IInv

\* Handing out a threshold keeps the invariant.
LEMMA GetHolds ==
  ASSUME IInv, NEW c \in Callers, GetThreshold(c) PROVE IInv'
<1> USE DEF Comparing, Goto, Op, Kind, GetThreshold
<1>1. TypeOK' /\ StepsOK'
    BY DEF IInv, TypeOK, Steps, StepsOK
<1>2. initial[1] = Unsupported => NoThresholds'
    BY DEF IInv, TypeOK, NoThresholds
<1>3. Unsupported \notin Thresholds /\ initial[1] # Unsupported => BothThresholds'
    BY DEF IInv, TypeOK, BothThresholds
<1> QED BY <1>1, <1>2, <1>3 DEF IInv

\* A request that gets to set a threshold carries a value of a caller.
LEMMA SetRequestVal ==
  ASSUME NEW r \in Requests \cup {NoRequest}, r.op = "threshold_set", r.kind # "other"
  PROVE  r.val \in Thresholds
<1>1. CASE r \in [op : {"temperature_get", "status_get"}, kind : {"other"},
                  val : {0}, sensor : {TRUE}]
  BY <1>1
<1>2. CASE r \in [op : {"threshold_get"}, kind : Kinds, val : {0}, sensor : {TRUE}]
  <2>1. r.op = "threshold_get"
    BY <1>2
  <2> QED BY <2>1
<1>3. CASE r \in [op : {"threshold_set"}, kind : Kinds, val : Thresholds, sensor : {TRUE}]
  BY <1>3
<1>4. CASE r \in [op : Ops, kind : {"other"}, val : {0}, sensor : {FALSE}]
  BY <1>4
<1>5. CASE r = NoRequest
  BY <1>5 DEF NoRequest
<1> QED BY <1>1, <1>2, <1>3, <1>4, <1>5 DEF Requests

\* Storing a threshold keeps the invariant: it is reached only where there
\* are thresholds, and what it stores is a value of a caller.
LEMMA SetHolds ==
  ASSUME IInv, NEW c \in Callers, SetThreshold(c) PROVE IInv'
<1> USE DEF Comparing, Goto, Op, Kind, SetThreshold
<1>1. call[c].val \in Thresholds /\ call[c].val \in Int
  <2>1. /\ call[c] \in Requests \cup {NoRequest}
        /\ call[c].op = "threshold_set" /\ call[c].kind # "other"
      BY DEF IInv, TypeOK
  <2> QED BY <2>1, SetRequestVal, ThermalAssumption
<1>2. TypeOK' /\ StepsOK'
    BY <1>1 DEF IInv, TypeOK, Steps, StepsOK
<1>3. initial[1] = Unsupported => NoThresholds'
    BY DEF IInv, TypeOK, NoThresholds
<1>4. Unsupported \notin Thresholds /\ initial[1] # Unsupported => BothThresholds'
    BY <1>1 DEF IInv, TypeOK, BothThresholds
<1> QED BY <1>2, <1>3, <1>4 DEF IInv

\* The loads and comparisons of status_get keep the invariant.
LEMMA StatusHolds ==
  ASSUME IInv, NEW c \in Callers, StatusStep(c) PROVE IInv'
<1> USE DEF Comparing, Goto, Op, Kind, StatusStep, RaiseAlert
<1>1. TypeOK' /\ StepsOK'
    BY DEF IInv, TypeOK, Steps, StepsOK, Alert
<1>2. initial[1] = Unsupported => NoThresholds'
    BY DEF IInv, TypeOK, NoThresholds
<1>3. Unsupported \notin Thresholds /\ initial[1] # Unsupported => BothThresholds'
    BY DEF IInv, TypeOK, BothThresholds
<1> QED BY <1>1, <1>2, <1>3 DEF IInv

\* Returning keeps the invariant.
LEMMA ReturnHolds ==
  ASSUME IInv, NEW c \in Callers, Return(c) PROVE IInv'
<1> USE DEF Comparing, Goto, Op, Kind, Return
<1>1. TypeOK' /\ StepsOK'
    BY DEF IInv, TypeOK, Steps, StepsOK, NoRequest
<1>2. initial[1] = Unsupported => NoThresholds'
    BY DEF IInv, TypeOK, NoThresholds, NoRequest, Alert
<1>3. Unsupported \notin Thresholds /\ initial[1] # Unsupported => BothThresholds'
    BY DEF IInv, TypeOK, BothThresholds, NoRequest
<1> QED BY <1>1, <1>2, <1>3 DEF IInv

-----------------------------------------------------------------------------
\* The invariant holds in every reachable state.
THEOREM Invariant == Spec => []IInv
<1>1. IInv /\ [Next]_vars => IInv'
  <2> SUFFICES ASSUME IInv, [Next]_vars PROVE IInv'
      OBVIOUS
  <2>1. CASE Heat
      BY <2>1 DEF Heat, IInv, TypeOK, StepsOK, NoThresholds, BothThresholds, Op, Kind
  <2>2. ASSUME NEW c \in Callers, NEW r \in Requests, Call(c, r) PROVE IInv'
      BY <2>2, CallHolds
  <2>3. ASSUME NEW c \in Callers, Step(c) PROVE IInv'
      BY <2>3, SenseHolds, GuardHolds, GetHolds, SetHolds, StatusHolds, ReturnHolds DEF Step
  <2>4. CASE UNCHANGED vars
      BY <2>4 DEF vars, IInv, TypeOK, StepsOK, NoThresholds, BothThresholds, Op, Kind
  <2> QED BY <2>1, <2>2, <2>3, <2>4 DEF Next
<1> QED BY <1>1, InitHolds, PTL DEF Spec

\* Every variable of the sensor calls keeps its type, for any readings and
\* thresholds, two threads at the same threshold included.
THEOREM TypesHold == Spec => []TypeOK
<1>1. IInv => TypeOK
  BY DEF IInv
<1> QED BY Invariant, <1>1, PTL

\* A sensor registered without thresholds has none for ever, whatever threads
\* ask for at the same time (sdi_thermal.c:129-187), and never alerts.
THEOREM NeverGainsThresholds == Spec => [](TypeOK /\ UnsupportedForever)
<1>1. IInv => TypeOK /\ UnsupportedForever
    BY DEF IInv, UnsupportedForever, NoThresholds
<1> QED BY <1>1, Invariant, PTL

\* Callers that do not pass the mark as a value cannot turn a sensor with
\* thresholds into one without, and never read the mark as a threshold.
THEOREM NeverLosesThresholds == Spec => []MarkNeverLeaks
<1>1. IInv => MarkNeverLeaks
    BY DEF IInv, MarkNeverLeaks, BothThresholds
<1> QED BY <1>1, Invariant, PTL

-----------------------------------------------------------------------------
(* Readings below the low threshold. *)

\* Division towards zero moves a number below zero up.
LEMMA QuotientAbove == ASSUME NEW n \in Int, n < 0 PROVE n <= Quotient(n, Divider)
<1>1. Divider \in Nat /\ Divider >= 1 /\ -n \in Nat
  BY ThermalAssumption
<1>2. ASSUME NEW m \in Nat, NEW d \in Nat, d >= 1 PROVE m \div d \in Nat /\ m \div d <= m
  BY <1>2
<1>3. (-n) \div Divider \in Nat /\ (-n) \div Divider <= -n
  BY <1>1, <1>2
<1> QED BY <1>1, <1>3 DEF Quotient

\* The reading of c was below the low threshold all the time.
Below(c) == \A t \in lows[c] : t # Unsupported /\ Quotient(temp[c], Divider) < t

\* The threshold of this moment is among those of the call until it has been
\* compared, and a call that goes on has met one that the reading is not below.
Lows ==
  /\ \A c \in Callers :
       /\ pc[c] \in {"low", "below_low"} => low \in lows[c]
       /\ pc[c] \in {"high", "below_high"} /\ temp[c] < 0 => ~Below(c)
  /\ LowReadingAlerts

LEMMA InitLows == Init => Lows
BY DEF Init, Lows, LowReadingAlerts

\* A status_get at the end of its call.
LEMMA LowsOf ==
  ASSUME NEW c \in Callers, LowReadingAlerts, pc[c] = "done", Op(c) = "status_get",
         rc[c] = "ok", temp[c] < 0, Below(c)
  PROVE  out[c] = Alert
BY DEF LowReadingAlerts, Below

LEMMA SenseLows ==
  ASSUME IInv, Lows, NEW c \in Callers, Sense(c) PROVE Lows'
<1> USE DEF Goto, Op, Below
<1>1. CASE /\ pc' = [pc EXCEPT ![c] = "done"]
           /\ rc' = [rc EXCEPT ![c] = "errno"]
           /\ UNCHANGED <<temp, lows, out>>
  BY <1>1 DEF Sense, Lows, LowReadingAlerts, IInv, TypeOK
<1>2. CASE Op(c) = "status_get" /\ pc' = [pc EXCEPT ![c] = "low"]
           /\ lows' = [lows EXCEPT ![c] = {low}] /\ UNCHANGED <<out, rc>>
  <2>1. UNCHANGED <<low, call>> /\ \A d \in Callers \ {c} : temp'[d] = temp[d]
    BY DEF Sense, IInv, TypeOK
  <2>2. \A d \in Callers \ {c} : pc'[d] = pc[d] /\ lows'[d] = lows[d]
    BY <1>2 DEF IInv, TypeOK
  <2>3. pc'[c] = "low" /\ lows'[c] = {low}
    BY <1>2 DEF IInv, TypeOK
  <2> QED BY <1>2, <2>1, <2>2, <2>3 DEF Lows, LowReadingAlerts
<1>3. CASE Op(c) # "status_get" /\ pc' = [pc EXCEPT ![c] = "done"] /\ UNCHANGED <<lows, rc>>
  <2>1. UNCHANGED <<low, call>>
        /\ \A d \in Callers \ {c} : temp'[d] = temp[d] /\ out'[d] = out[d] /\ pc'[d] = pc[d]
    BY <1>3 DEF Sense, IInv, TypeOK
  <2>2. pc'[c] = "done" /\ call'[c].op # "status_get"
    BY <1>3, <2>1 DEF IInv, TypeOK
  <2> QED BY <1>3, <2>1, <2>2 DEF Lows, LowReadingAlerts
<1> QED BY <1>1, <1>2, <1>3 DEF Sense

\* A reading below the threshold in degrees is below it in thousandths.
LEMMA StatusLows ==
  ASSUME IInv, Lows, NEW c \in Callers, StatusStep(c) PROVE Lows'
<1> USE DEF Goto, Op
<1>1. /\ UNCHANGED <<low, high, call, temp, lows, rc>> /\ pc[c] \in Comparing
      /\ \A d \in Callers \ {c} : pc'[d] = pc[d] /\ out'[d] = out[d]
      /\ pc \in [Callers -> Steps] /\ out \in [Callers -> Int] /\ temp[c] \in Int /\ low \in Int
  BY DEF StatusStep, RaiseAlert, Comparing, IInv, TypeOK
<1>2. pc[c] \in {"low", "below_low"} /\ temp[c] < 0 /\ Below(c) =>
        low # Unsupported /\ temp[c] < low
  <2> SUFFICES ASSUME pc[c] \in {"low", "below_low"}, temp[c] < 0, Below(c)
               PROVE  low # Unsupported /\ temp[c] < low
    OBVIOUS
  <2>1. low # Unsupported /\ Quotient(temp[c], Divider) < low
    BY DEF Lows, Below
  <2>2. temp[c] <= Quotient(temp[c], Divider) /\ Quotient(temp[c], Divider) \in Int
    BY <1>1, QuotientAbove, QuotientInt
  <2> QED BY <1>1, <2>1, <2>2
<1>3. /\ pc'[c] \in {"low", "below_low"} => low \in lows[c]
      /\ pc'[c] \in {"high", "below_high"} /\ temp[c] < 0 => ~Below(c)
      /\ pc'[c] = "done" /\ temp[c] < 0 /\ Below(c) => out'[c] = Alert
  BY <1>1, <1>2 DEF StatusStep, RaiseAlert, Lows
<1>4. \A d \in Callers : Below(d)' <=> Below(d)
  BY <1>1 DEF Below
<1> QED BY <1>1, <1>3, <1>4 DEF Lows, LowReadingAlerts, Below

\* A threshold that is set joins those of the calls that compare.
LEMMA SetLows ==
  ASSUME IInv, Lows, NEW c \in Callers, SetThreshold(c) PROVE Lows'
<1> USE DEF Goto, Op
<1>1. /\ UNCHANGED <<call, temp, rc, out>> /\ call[c].op = "threshold_set"
      /\ pc[c] = "use" /\ pc'[c] = "done" /\ \A d \in Callers \ {c} : pc'[d] = pc[d]
      /\ \A d \in Callers : lows[d] \subseteq lows'[d]
      /\ \A d \in Callers : pc[d] \in Comparing => low' \in lows'[d]
      /\ \A d \in Callers : pc[d] \notin Comparing => lows'[d] = lows[d]
  BY DEF SetThreshold, IInv, TypeOK
<1>2. ASSUME NEW d \in Callers \ {c}
      PROVE  /\ pc'[d] \in {"low", "below_low"} => low' \in lows'[d]
             /\ pc'[d] \in {"high", "below_high"} /\ temp'[d] < 0 => ~Below(d)'
             /\ pc'[d] = "done" /\ call'[d].op = "status_get" /\ rc'[d] = "ok" /\ temp'[d] < 0
                  /\ Below(d)' => out'[d] = Alert
  BY <1>1 DEF Lows, LowReadingAlerts, Below, Comparing
<1> QED BY <1>1, <1>2 DEF Lows, LowReadingAlerts, Below

\* The other steps leave the thresholds alone.
LEMMA OthersLows ==
  ASSUME IInv, Lows, NEW c \in Callers,
         (\E r \in Requests : Call(c, r)) \/ Guard(c) \/ GetThreshold(c) \/ Return(c)
  PROVE  Lows'
<1> USE DEF Goto, Op
<1>1. CASE \E r \in Requests : Call(c, r)
  BY <1>1 DEF Call, Lows, LowReadingAlerts, Below, IInv, TypeOK
<1>2. CASE Guard(c)
  <2>1. PICK to \in {"use", "done"} : pc' = [pc EXCEPT ![c] = to]
    BY <1>2 DEF Guard
  <2>2. pc[c] = "guard" /\ Op(c) # "status_get"
    BY <1>2 DEF Guard, IInv, StepsOK
  <2>3. /\ UNCHANGED <<initial, low, high, call, temp, lows, out>>
        /\ \A d \in Callers \ {c} : rc'[d] = rc[d]
    BY <1>2 DEF Guard, IInv, TypeOK
  <2> QED BY <2>1, <2>2, <2>3 DEF Lows, LowReadingAlerts, Below, IInv, TypeOK
<1>3. CASE GetThreshold(c)
  BY <1>3 DEF GetThreshold, Lows, LowReadingAlerts, Below, IInv, TypeOK
<1>4. CASE Return(c)
  BY <1>4 DEF Return, Lows, LowReadingAlerts, Below, IInv, TypeOK
<1> QED BY <1>1, <1>2, <1>3, <1>4

\* For any number of threads and any values that they set meanwhile, the status
\* of a sensor whose reading stays below the low threshold, and below zero, is
\* an alert, though the threshold is loaded twice (sdi_thermal.c:217-222).
THEOREM LowReadingsAlert == Spec => []LowReadingAlerts
<1>1. IInv /\ Lows /\ [Next]_vars => Lows'
  <2> SUFFICES ASSUME IInv, Lows, [Next]_vars PROVE Lows'
    OBVIOUS
  <2>1. CASE Heat
    BY <2>1 DEF Heat, Lows, LowReadingAlerts, Below, Op
  <2>2. ASSUME NEW c \in Callers, (\E r \in Requests : Call(c, r)) \/ Step(c) PROVE Lows'
    BY <2>2, SenseLows, StatusLows, SetLows, OthersLows DEF Step
  <2>3. CASE UNCHANGED vars
    BY <2>3 DEF vars, Lows, LowReadingAlerts, Below, Op
  <2> QED BY <2>1, <2>2, <2>3 DEF Next
<1>2. Lows => LowReadingAlerts
  BY DEF Lows
<1> QED BY <1>1, <1>2, InitLows, Invariant, PTL DEF Spec
=============================================================================

------------------------------ MODULE FanProofs ------------------------------
(***************************************************************************)
(* Proofs about the speed of a fan: the arithmetic of fan_speed_set for    *)
(* unsigned ints of any width, and that it holds for what is written, with *)
(* any number of threads and fans.                                         *)
(***************************************************************************)
EXTENDS Fan, TLAPS

-----------------------------------------------------------------------------
(* Arithmetic. *)

LEMMA Quotient ==
  ASSUME NEW a \in Nat, NEW b \in Nat, b > 0
  PROVE  a \div b \in Nat /\ (a \div b) * b <= a /\ a < (a \div b) * b + b
  OBVIOUS

LEMMA ProductType ==
  ASSUME NEW a \in Nat, NEW b \in Nat
  PROVE  a * b \in Nat
  OBVIOUS

LEMMA ProductGrows ==
  ASSUME NEW a \in Nat, NEW b \in Nat, NEW c \in Nat, a <= b
  PROVE  a * c <= b * c
  OBVIOUS

LEMMA ProductGrowsStrictly ==
  ASSUME NEW a \in Nat, NEW b \in Nat, NEW c \in Nat, c > 0, a < b
  PROVE  a * c < b * c
  OBVIOUS

LEMMA ProductCancels ==
  ASSUME NEW a \in Nat, NEW b \in Nat, NEW c \in Nat, c > 0, a * c <= b * c
  PROVE  a <= b
  OBVIOUS

LEMMA SmallModulo ==
  ASSUME NEW a \in Nat, NEW m \in Nat, a < m
  PROVE  a % m = a
  OBVIOUS

\* The share that is asked, in hundredths, rounded down.
Share(speed, maxspeed) == (speed * Percent) \div maxspeed

\* No product of PwmOf wraps around.
LEMMA NothingWraps ==
  ASSUME NEW x \in Nat, NEW s \in Nat, NEW m \in Nat, m > 0,
         s <= m, s * Percent < Modulus, x * Percent < Modulus
  PROVE  /\ Share(s, m) \in Nat /\ Share(s, m) <= Percent
         /\ Share(s, m) * m <= s * Percent /\ s * Percent < Share(s, m) * m + m
         /\ x * Share(s, m) \in Nat
         /\ PwmOf(x, s, m) = (x * Share(s, m)) \div Percent
<1> Percent \in Nat /\ Percent > 0 /\ Modulus \in Nat
  BY FanAssumption
<1> DEFINE a == s * Percent
           q == a \div m
<1>1. a \in Nat
  BY ProductType
<1>2. Times(s, Percent) = a
  BY <1>1, SmallModulo DEF Times
<1> HIDE DEF a
<1>3. q \in Nat /\ q * m <= a /\ a < q * m + m
  BY <1>1, Quotient
<1> HIDE DEF q
<1>4. q <= Percent
  <2>1. s * Percent <= m * Percent
    BY ProductGrows
  <2>2. q * m <= Percent * m
    BY <1>3, <2>1, ProductType DEF a
  <2> QED BY <1>3, <2>2, ProductCancels
<1>5. x * q \in Nat /\ x * q < Modulus
  <2>1. q * x <= Percent * x
    BY <1>3, <1>4, ProductGrows
  <2>2. x * q \in Nat /\ x * q = q * x /\ x * Percent = Percent * x
    BY <1>3, ProductType
  <2> QED BY <2>1, <2>2
<1>6. Times(x, q) = x * q
  BY <1>5, SmallModulo DEF Times
<1>7. PwmOf(x, s, m) = Times(x, q) \div Percent
  BY <1>2 DEF PwmOf, q
<1>8. Share(s, m) = q
  BY DEF Share, q, a
<1> QED BY <1>3, <1>4, <1>5, <1>6, <1>7, <1>8 DEF a

\* The two roundings of PwmOf, one after the other.
LEMMA Rounding ==
  ASSUME NEW x \in Nat, NEW s \in Nat, NEW m \in Nat, NEW p \in Nat, NEW q \in Nat,
         NEW d \in Nat, p > 0, m > 0,
         q * m <= s * p, s * p < q * m + m, d * p <= x * q, x * q < d * p + p
  PROVE  /\ d * m <= x * s
         /\ p * (x * s - d * m) < m * (x + p)
<1> DEFINE xs == x * s
           dm == d * m
           xq == x * q
           xqm == xq * m
           xsp == xs * p
           dmp == dm * p
           xm == x * m
           pm == p * m
<1>1. /\ xs \in Nat /\ dm \in Nat /\ xq \in Nat /\ xqm \in Nat /\ xsp \in Nat /\ dmp \in Nat
      /\ xm \in Nat /\ pm \in Nat
  BY ProductType
<1>2. dmp <= xqm
  <2>1. (d * p) * m <= xq * m
    BY <1>1, ProductType, ProductGrows
  <2>2. (d * p) * m = dmp
    OBVIOUS
  <2> QED BY <2>1, <2>2
<1>3. xqm <= xsp
  <2>1. (q * m) * x <= (s * p) * x
    BY ProductType, ProductGrows
  <2>2. (q * m) * x = xqm /\ (s * p) * x = xsp
    OBVIOUS
  <2> QED BY <2>1, <2>2
<1>4. xsp <= xqm + xm
  <2>1. s * p <= q * m + m /\ s * p \in Nat /\ q * m + m \in Nat
    BY ProductType
  <2>2. (s * p) * x <= (q * m + m) * x
    BY <2>1, ProductGrows
  <2>3. (s * p) * x = xsp /\ (q * m + m) * x = xqm + xm
    OBVIOUS
  <2> QED BY <2>2, <2>3
<1>5. xqm < dmp + pm
  <2>1. xq \in Nat /\ d * p + p \in Nat /\ xq < d * p + p
    BY ProductType
  <2>2. xq * m < (d * p + p) * m
    BY <2>1, ProductGrowsStrictly
  <2>3. (d * p + p) * m = dmp + pm
    OBVIOUS
  <2> QED BY <2>2, <2>3
<1>6. p * (xs - dm) = xsp - dmp /\ m * (x + p) = xm + pm
  OBVIOUS
<1>7. dm * p <= xs * p
  BY <1>1, <1>2, <1>3
<1> HIDE DEF xs, dm, xqm, xsp, dmp, xm, pm, xq
<1>8. dm <= xs
  BY <1>1, <1>7, ProductCancels
<1>9. xsp - dmp < xm + pm
  BY <1>1, <1>4, <1>5
<1>10. p * (xs - dm) < m * (x + p)
  BY <1>6, <1>9
<1> QED BY <1>8, <1>10 DEF xs, dm

\* What PwmIsProportional and LargerAskWritesMore say, of numbers.
LEMMA Proportional ==
  ASSUME NEW x \in Nat, NEW s \in Nat, NEW m \in Nat, m > 0,
         s <= m, s * Percent < Modulus, x * Percent < Modulus
  PROVE  /\ PwmOf(x, s, m) * m <= x * s
         /\ Percent * (x * s - PwmOf(x, s, m) * m) < m * (x + Percent)
         /\ s = m => PwmOf(x, s, m) = x
<1> DEFINE q == Share(s, m)
           d == PwmOf(x, s, m)
<1>1. Percent \in Nat /\ Percent > 0
  BY FanAssumption
<1>2. /\ q \in Nat /\ q <= Percent /\ q * m <= s * Percent /\ s * Percent < q * m + m
      /\ x * q \in Nat /\ d = (x * q) \div Percent
  BY NothingWraps
<1> HIDE DEF q, d
<1>3. d \in Nat /\ d * Percent <= x * q /\ x * q < d * Percent + Percent
  BY <1>1, <1>2, Quotient
<1>4. d * m <= x * s /\ Percent * (x * s - d * m) < m * (x + Percent)
  BY <1>1, <1>2, <1>3, Rounding
<1>5. ASSUME s = m PROVE d = x
  <2>1. Percent * m < (q + 1) * m
    BY <1>1, <1>2, <1>5
  <2>2. ~ (q + 1 <= Percent)
    <3>1. ASSUME q + 1 <= Percent PROVE FALSE
      <4>1. (q + 1) * m <= Percent * m /\ (q + 1) * m \in Nat /\ Percent * m \in Nat
        BY <1>1, <1>2, <3>1, ProductGrows, ProductType
      <4> QED BY <2>1, <4>1
    <3> QED BY <3>1
  <2>3. q = Percent
    BY <1>1, <1>2, <2>2
  <2>4. d * Percent <= x * Percent /\ x * Percent < (d + 1) * Percent
    BY <1>1, <1>3, <2>3
  <2>5. d <= x
    BY <1>1, <1>3, <2>4, ProductCancels
  <2>6. ~ (d + 1 <= x)
    <3>1. ASSUME d + 1 <= x PROVE FALSE
      <4>1. (d + 1) * Percent <= x * Percent /\ (d + 1) * Percent \in Nat /\ x * Percent \in Nat
        BY <1>1, <1>3, <3>1, ProductGrows, ProductType
      <4> QED BY <2>4, <4>1
    <3> QED BY <3>1
  <2> QED BY <1>3, <2>5, <2>6
<1> QED BY <1>4, <1>5 DEF d

LEMMA QuotientGrows ==
  ASSUME NEW a \in Nat, NEW b \in Nat, NEW m \in Nat, m > 0, a <= b
  PROVE  a \div m <= b \div m
  OBVIOUS

LEMMA Monotonic ==
  ASSUME NEW x \in Nat, NEW s \in Nat, NEW t \in Nat, NEW m \in Nat, m > 0, s <= t,
         t <= m, t * Percent < Modulus, x * Percent < Modulus, s * Percent < Modulus
  PROVE  PwmOf(x, s, m) <= PwmOf(x, t, m)
<1>1. Percent \in Nat /\ Percent > 0
  BY FanAssumption
<1>2. /\ Share(s, m) \in Nat /\ x * Share(s, m) \in Nat
      /\ PwmOf(x, s, m) = (x * Share(s, m)) \div Percent
  BY NothingWraps
<1>3. /\ Share(t, m) \in Nat /\ x * Share(t, m) \in Nat
      /\ PwmOf(x, t, m) = (x * Share(t, m)) \div Percent
  BY NothingWraps
<1>4. Share(s, m) <= Share(t, m)
  <2>1. s * Percent <= t * Percent /\ s * Percent \in Nat /\ t * Percent \in Nat
    BY <1>1, ProductGrows, ProductType
  <2> QED BY <2>1, QuotientGrows DEF Share
<1>5. x * Share(s, m) <= x * Share(t, m)
  <2>1. Share(s, m) * x <= Share(t, m) * x
    BY <1>2, <1>3, <1>4, ProductGrows
  <2> QED BY <1>2, <1>3, <2>1
<1> QED BY <1>1, <1>2, <1>3, <1>5, QuotientGrows

-----------------------------------------------------------------------------
(* Threads. *)

\* The value that a thread is about to write is computed from its own request
\* and the maximum that it has read, which is not zero.
Computed ==
  \A c \in Callers :
    pc[c] = "write" =>
      max[c] > 0 /\ drive[c] = PwmOf(settings.max_pwm, call[c].speed, max[c])

IInv == Typed /\ Computed

LEMMA PwmOfType ==
  ASSUME NEW x \in Uint, NEW s \in Uint, NEW m \in Uint, m > 0
  PROVE  PwmOf(x, s, m) \in Uint
<1>1. Modulus \in Nat /\ Modulus > 0 /\ Percent \in Nat /\ Percent > 0
  BY FanAssumption
<1>2. \A a \in Nat : a \in Uint <=> a < Modulus
  BY <1>1 DEF Uint
<1>3. x \in Nat /\ s \in Nat /\ m \in Nat
  BY <1>1 DEF Uint
<1>4. \A a, b \in Nat : Times(a, b) \in Nat /\ Times(a, b) < Modulus
  <2> SUFFICES ASSUME NEW a \in Nat, NEW b \in Nat
               PROVE  Times(a, b) \in Nat /\ Times(a, b) < Modulus
    OBVIOUS
  <2> DEFINE p == a * b
  <2>1. p \in Nat
    BY ProductType
  <2> HIDE DEF p
  <2>2. p % Modulus \in Nat /\ p % Modulus < Modulus
    BY <1>1, <2>1
  <2> QED BY <2>2 DEF Times, p
<1> DEFINE q == Times(s, Percent) \div m
           y == Times(x, q)
<1>5. q \in Nat
  BY <1>1, <1>3, <1>4, Quotient
<1> HIDE DEF q
<1>6. y \in Nat /\ y < Modulus
  BY <1>3, <1>4, <1>5
<1> HIDE DEF y
<1>7. y \div Percent \in Nat /\ y \div Percent <= y
  BY <1>1, <1>6
<1>8. PwmOf(x, s, m) = y \div Percent
  BY DEF PwmOf, q, y
<1>9. y \div Percent < Modulus
  BY <1>1, <1>6, <1>7
<1> QED BY <1>2, <1>7, <1>8, <1>9

LEMMA Types ==
  /\ 0 \in Uint
  /\ \A s \in Settings : s.max_pwm \in Uint /\ s.max_rpm \in Uint
  /\ \A n \in Uint : Rpm(n) \in [val : Uint, known : BOOLEAN]
  /\ \A n \in MaxSpeeds : Rpm(n) \in [val : Uint, known : BOOLEAN]
  /\ Blank \in [val : Uint, known : BOOLEAN]
  /\ \A r \in Requests \cup {NoRequest} : r.speed \in Uint
<1>1. 0 \in Uint
  BY FanAssumption DEF Uint
<1>2. \A s \in Settings : s.max_pwm \in Uint /\ s.max_rpm \in Uint
  BY FanAssumption DEF SettingsType
<1>3. \A n \in Uint : Rpm(n) \in [val : Uint, known : BOOLEAN]
  BY DEF Rpm
<1>4. MaxSpeeds \subseteq Uint /\ Speeds \subseteq Uint
  BY FanAssumption DEF Uint
<1>5. Blank \in [val : Uint, known : BOOLEAN]
  BY <1>1 DEF Blank
<1>6. \A r \in Requests \cup {NoRequest} : r.speed \in Uint
  BY <1>1, <1>4 DEF Requests, NoRequest
<1> QED BY <1>1, <1>2, <1>3, <1>4, <1>5, <1>6

LEMMA InitKeeps == Init => IInv
<1> SUFFICES ASSUME Init PROVE Typed /\ Computed
  BY DEF IInv
<1>1. fastest \in [val : Uint, known : BOOLEAN]
  BY Types DEF Init
<1>2. Typed
  BY <1>1, Types DEF Init, Typed
<1>3. Computed
  BY DEF Init, Computed
<1> QED BY <1>2, <1>3

\* A step that leaves alone what Computed is about, or leaves "write".
LEMMA CallKeeps ==
  ASSUME IInv, NEW c \in Callers, NEW r \in Requests, Call(c, r)
  PROVE  IInv'
<1>1. UNCHANGED <<settings, plugged, fastest, faulty, pwm, alive, max, drive>>
  BY DEF Call, device
<1>2. call' \in [Callers -> Requests \cup {NoRequest}]
  BY DEF IInv, Typed, Call
<1>3. /\ pc' \in [Callers -> {"idle", "read", "divide", "write", "done"}]
      /\ rc' \in [Callers -> {"ok", "EPERM", "errno"}]
  BY DEF IInv, Typed, Call, Goto, Finish
<1>4. out' \in [Callers -> [val : Uint, known : BOOLEAN]]
  BY Types DEF IInv, Typed, Call, Finish
<1>5. Typed'
  BY <1>1, <1>2, <1>3, <1>4 DEF IInv, Typed
<1>6. Computed'
  BY DEF IInv, Typed, Computed, Call, Goto, Finish, device
<1> QED BY <1>5, <1>6 DEF IInv

LEMMA MaxSpeedGetKeeps ==
  ASSUME IInv, NEW c \in Callers, MaxSpeedGet(c)
  PROVE  IInv'
<1> DEFINE default == IF settings.max_get THEN Blank ELSE Rpm(settings.max_rpm)
<1>1. default \in [val : Uint, known : BOOLEAN]
  BY Types DEF IInv, Typed
<1>2. PICK s \in {"ok", "errno"}, v \in [val : Uint, known : BOOLEAN] : Finish(c, "read", s, v)
  BY <1>1 DEF IInv, Typed, MaxSpeedGet
<1>3. UNCHANGED <<settings, device, alive, call, max, drive>>
  BY DEF MaxSpeedGet
<1> QED BY <1>2, <1>3 DEF IInv, Typed, Computed, Goto, Finish, device

LEMMA SpeedGetKeeps ==
  ASSUME IInv, NEW c \in Callers, SpeedGet(c)
  PROVE  IInv'
<1>1. PICK s \in {"ok", "errno"}, v \in [val : Uint, known : BOOLEAN] : Finish(c, "read", s, v)
  BY Types DEF SpeedGet
<1>2. UNCHANGED <<settings, device, alive, call, max, drive>>
  BY DEF SpeedGet
<1> QED BY <1>1, <1>2 DEF IInv, Typed, Computed, Goto, Finish, device

LEMMA StatusGetKeeps ==
  ASSUME IInv, NEW c \in Callers, StatusGet(c)
  PROVE  IInv'
<1>1. 0 \in Nat /\ 1 \in Nat
  OBVIOUS
<1>2. PICK s \in {"ok", "errno"}, n \in {0, 1} : Finish(c, "read", s, Rpm(n))
  BY DEF StatusGet
<1>3. UNCHANGED <<settings, device, alive, call, max, drive>>
  BY DEF StatusGet
<1>4. Rpm(n) \in [val : Uint, known : BOOLEAN]
  BY FanAssumption, Types DEF Uint
<1> QED BY <1>2, <1>3, <1>4 DEF IInv, Typed, Computed, Goto, Finish, device

LEMMA ReadMaxKeeps ==
  ASSUME IInv, NEW c \in Callers, ReadMax(c)
  PROVE  IInv'
<1>1. CASE Finish(c, "read", "EPERM", Blank) /\ UNCHANGED max
  BY <1>1, Types DEF IInv, Typed, Computed, ReadMax, Goto, Finish, device
<1>2. CASE /\ Goto(c, "read", "divide")
           /\ \E v \in {fastest.val, 0} : max' = [max EXCEPT ![c] = v]
           /\ UNCHANGED <<rc, out>>
  <2>1. PICK v \in Uint : max' = [max EXCEPT ![c] = v]
    BY <1>2, Types DEF IInv, Typed
  <2>2. UNCHANGED <<settings, device, alive, call, drive>>
    BY DEF ReadMax
  <2> QED BY <1>2, <2>1, <2>2 DEF IInv, Typed, Computed, Goto, device
<1> QED BY <1>1, <1>2 DEF ReadMax

\* The only step towards "write".
LEMMA DivideKeeps ==
  ASSUME IInv, NEW c \in Callers, Divide(c)
  PROVE  IInv'
<1>0. UNCHANGED <<settings, device, call, max, rc, out>>
  BY DEF Divide
<1>1. CASE max[c] = 0
  BY <1>0, <1>1 DEF IInv, Typed, Computed, Divide, device
<1>2. CASE max[c] # 0
  <2>1. max[c] \in Uint /\ max[c] > 0
    BY <1>2, FanAssumption DEF IInv, Typed, Uint
  <2>2. settings.max_pwm \in Uint /\ call[c].speed \in Uint
    BY Types DEF IInv, Typed
  <2> DEFINE d == PwmOf(settings.max_pwm, call[c].speed, max[c])
  <2>3. d \in Uint
    BY <2>1, <2>2, PwmOfType
  <2>4. Goto(c, "divide", "write") /\ drive' = [drive EXCEPT ![c] = d] /\ UNCHANGED alive
    BY <1>2 DEF Divide
  <2>5. d = PwmOf(settings'.max_pwm, call'[c].speed, max'[c])
    BY <1>0
  <2> HIDE DEF d
  <2>6. Typed'
    BY <1>0, <2>3, <2>4 DEF IInv, Typed, Goto, device
  <2>7. Computed'
    <3> SUFFICES ASSUME NEW e \in Callers, pc'[e] = "write"
                 PROVE  max'[e] > 0
                        /\ drive'[e] = PwmOf(settings'.max_pwm, call'[e].speed, max'[e])
      BY DEF Computed
    <3>1. CASE e = c
      BY <1>0, <2>1, <2>4, <2>5, <3>1 DEF IInv, Typed
    <3>2. CASE e # c
      BY <1>0, <2>4, <3>2 DEF IInv, Typed, Computed, Goto
    <3> QED BY <3>1, <3>2
  <2> QED BY <2>6, <2>7 DEF IInv
<1> QED BY <1>1, <1>2

LEMMA WritePwmKeeps ==
  ASSUME IInv, NEW c \in Callers, WritePwm(c)
  PROVE  IInv'
<1>1. PICK s \in {"ok", "errno"} : Finish(c, "write", s, Blank)
  BY DEF WritePwm
<1>2. pwm' \in Uint
  BY DEF IInv, Typed, WritePwm
<1>3. UNCHANGED <<settings, plugged, fastest, faulty, alive, call, max, drive>>
  BY DEF WritePwm
<1> QED BY <1>1, <1>2, <1>3, Types DEF IInv, Typed, Computed, Goto, Finish

LEMMA ReturnKeeps ==
  ASSUME IInv, NEW c \in Callers, Return(c)
  PROVE  IInv'
BY Types DEF IInv, Typed, Computed, Return, Goto, device

LEMMA HotSwapKeeps ==
  ASSUME IInv, HotSwap
  PROVE  IInv'
<1>1. fastest' \in [val : Uint, known : BOOLEAN] /\ pwm' \in Uint
  BY Types DEF HotSwap
<1> QED BY <1>1 DEF IInv, Typed, Computed, HotSwap

\* Spec => []IInv: what is about to be written was computed from the thread's
\* own request, and never with a divisor of zero.
THEOREM Invariant == Spec => []IInv
<1>1. Init => IInv
  BY InitKeeps
<1>2. IInv /\ [Next]_vars => IInv'
  <2> SUFFICES ASSUME IInv, [Next]_vars PROVE IInv'
    OBVIOUS
  <2>1. CASE UNCHANGED vars
    BY <2>1 DEF IInv, Typed, Computed, vars
  <2>2. CASE HotSwap
    BY <2>2, HotSwapKeeps
  <2>3. ASSUME NEW c \in Callers, NEW r \in Requests, Call(c, r) PROVE IInv'
    BY <2>3, CallKeeps
  <2>4. ASSUME NEW c \in Callers, Step(c) PROVE IInv'
    BY <2>4, MaxSpeedGetKeeps, SpeedGetKeeps, StatusGetKeeps, ReadMaxKeeps, DivideKeeps,
       WritePwmKeeps, ReturnKeeps DEF Step
  <2> QED BY <2>1, <2>2, <2>3, <2>4 DEF Next
<1> QED BY <1>1, <1>2, PTL DEF Spec

\* Every variable of the fan calls keeps its type: in words of any width no
\* product, quotient or converted reading leaves the range of its C type.
\* And no call goes on after a test that it fails.
THEOREM TypesHold == Spec => []TypeOK
<1>1. Init => OnlyTested
  BY DEF Init, OnlyTested
<1>2. IInv /\ OnlyTested /\ [Next]_vars => OnlyTested'
  <2> SUFFICES ASSUME IInv, OnlyTested, [Next]_vars PROVE OnlyTested'
    OBVIOUS
  <2> USE DEF IInv, Typed, OnlyTested, Op
  <2>1. CASE UNCHANGED vars
    BY <2>1 DEF vars
  <2>2. CASE HotSwap
    BY <2>2 DEF HotSwap
  <2>3. ASSUME NEW c \in Callers, NEW r \in Requests, Call(c, r) PROVE OnlyTested'
    <3>1. /\ call' = [call EXCEPT ![c] = r] /\ UNCHANGED settings
          /\ \A e \in Callers \ {c} : pc'[e] = pc[e] /\ rc'[e] = rc[e]
      BY <2>3 DEF Call, Goto, Finish
    <3>2. pc'[c] \in {"read", "divide", "write"} =>
            pc'[c] = "read" /\ Supported(r.op)
      BY <2>3 DEF Call, Goto, Finish
    <3>3. pc'[c] # "done" => rc'[c] = "ok"
      BY <2>3 DEF Call, Goto, Finish
    <3>4. call'[c].op = r.op /\ \A e \in Callers \ {c} : call'[e] = call[e]
      BY <3>1
    <3>5. Supported(r.op) => settings.isfan /\ (r.op = "speed_set" => settings.max_get /\ settings.set)
      BY DEF Supported
    <3> QED BY <3>1, <3>2, <3>3, <3>4, <3>5
  <2>4. ASSUME NEW c \in Callers, Step(c) PROVE OnlyTested'
    <3>1. CASE MaxSpeedGet(c) \/ SpeedGet(c) \/ StatusGet(c)
      <4>1. PICK s, v : s \in {"ok", "errno"} /\ Finish(c, "read", s, v)
        BY <3>1 DEF MaxSpeedGet, SpeedGet, StatusGet
      <4>2. UNCHANGED <<settings, call>>
        BY <3>1 DEF MaxSpeedGet, SpeedGet, StatusGet
      <4> QED BY <4>1, <4>2 DEF Finish, Goto
    <3>2. CASE ReadMax(c)
      BY <3>2 DEF ReadMax, Finish, Goto
    <3>3. CASE Divide(c)
      BY <3>3 DEF Divide, Goto
    <3>4. CASE WritePwm(c)
      BY <3>4 DEF WritePwm, Finish, Goto
    <3>5. CASE Return(c)
      BY <3>5 DEF Return, Goto
    <3> QED BY <2>4, <3>1, <3>2, <3>3, <3>4, <3>5 DEF Step
  <2> QED BY <2>1, <2>2, <2>3, <2>4 DEF Next
<1>3. IInv /\ OnlyTested => TypeOK
  BY DEF IInv, TypeOK
<1> QED BY Invariant, <1>1, <1>2, <1>3, PTL DEF Spec

LEMMA NumbersOf ==
  ASSUME IInv, NEW c \in Callers
  PROVE  settings.max_pwm \in Nat /\ call[c].speed \in Nat /\ max[c] \in Nat
<1>1. \A n \in Uint : n \in Nat
  BY FanAssumption DEF Uint
<1>2. settings.max_pwm \in Uint /\ call[c].speed \in Uint /\ max[c] \in Uint
  BY Types DEF IInv, Typed
<1> QED BY <1>1, <1>2

\* PwmIsProportional: for an unsigned int of any width, any maximum speed and
\* any number of threads, fan_speed_set writes the asked share of the maximum
\* PWM value, if the request is within the maximum and no product wraps.
THEOREM SpeedIsProportional == Spec => [](TypeOK /\ PwmIsProportional)
<1>1. IInv => PwmIsProportional
  <2> SUFFICES ASSUME IInv, NEW c \in Callers, pc[c] = "write", InRange(c)
               PROVE  LET asked == settings.max_pwm * call[c].speed IN
                        /\ drive[c] * max[c] <= asked
                        /\ Percent * (asked - drive[c] * max[c])
                             < max[c] * (settings.max_pwm + Percent)
                        /\ call[c].speed = max[c] => drive[c] = settings.max_pwm
    BY DEF PwmIsProportional
  <2> DEFINE x == settings.max_pwm
             s == call[c].speed
             m == max[c]
  <2>1. x \in Nat /\ s \in Nat /\ m \in Nat
    BY NumbersOf
  <2>2. m > 0 /\ drive[c] = PwmOf(x, s, m)
    BY DEF IInv, Computed
  <2>3. s <= m /\ s * Percent < Modulus /\ x * Percent < Modulus
    BY DEF InRange
  <2> HIDE DEF x, s, m
  <2>4. /\ PwmOf(x, s, m) * m <= x * s
        /\ Percent * (x * s - PwmOf(x, s, m) * m) < m * (x + Percent)
        /\ s = m => PwmOf(x, s, m) = x
    BY <2>1, <2>2, <2>3, Proportional
  <2>5. /\ drive[c] * m <= x * s
        /\ Percent * (x * s - drive[c] * m) < m * (x + Percent)
        /\ s = m => drive[c] = x
    BY <2>2, <2>4
  <2> QED BY <2>5 DEF x, s, m
<1> QED BY <1>1, Invariant, TypesHold, PTL

\* LargerAskWritesMore: of two threads that set the speed at the same time, on
\* the same maximum, the one that asks for more never writes the lower value.
THEOREM LargerNeverWritesLess == Spec => [](TypeOK /\ LargerAskWritesMore)
<1>1. IInv => LargerAskWritesMore
  <2> SUFFICES ASSUME IInv, NEW c \in Callers, NEW d \in Callers,
                      pc[c] = "write", pc[d] = "write", InRange(c), InRange(d),
                      max[c] = max[d], call[c].speed <= call[d].speed
               PROVE  drive[c] <= drive[d]
    BY DEF LargerAskWritesMore
  <2> DEFINE x == settings.max_pwm
             s == call[c].speed
             t == call[d].speed
             m == max[c]
  <2>1. x \in Nat /\ s \in Nat /\ m \in Nat
    BY NumbersOf
  <2>2. t \in Nat
    BY NumbersOf
  <2>3. m > 0 /\ drive[c] = PwmOf(x, s, m) /\ drive[d] = PwmOf(x, t, m)
    BY DEF IInv, Computed
  <2>4. /\ s <= t /\ t <= m
        /\ s * Percent < Modulus /\ t * Percent < Modulus /\ x * Percent < Modulus
    BY DEF InRange
  <2> HIDE DEF x, s, t, m
  <2>5. PwmOf(x, s, m) <= PwmOf(x, t, m)
    BY <2>1, <2>2, <2>3, <2>4, Monotonic
  <2> QED BY <2>3, <2>5
<1> QED BY <1>1, Invariant, TypesHold, PTL
=============================================================================

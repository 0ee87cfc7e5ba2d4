--------------------------- MODULE SysfsAccessProofs ---------------------------
(***************************************************************************)
(* Proofs about the sysfs helpers, for every number of callers, attributes *)
(* and values: types, the balance of fopen and fclose, the round trip of   *)
(* an unsigned int, and that every step is a step of the register of       *)
(* SysfsRegister or none.                                                  *)
(***************************************************************************)
EXTENDS SysfsAccess, TLAPS

\* What uint_set prints, uint_get reads back, although the one prints a
\* signed and the other scans an unsigned int.
THEOREM UintRoundTrip ==
  ASSUME NEW attr, NEW v \in Uint
  PROVE  Scanned("uint_get", Printed([op |-> "uint_set", attr |-> attr, arg |-> Num(v)])) = Num(v)
<1>1. AsInt(v) \in Int /\ AsInt(v) % UintModulus = v
  BY SysfsDataAssumption DEF AsInt, Uint, UintModulus
<1> QED BY <1>1 DEF Scanned, Printed, Num

-----------------------------------------------------------------------------
\* The fields of a request, and what a valid request says of its attribute.
LEMMA RequestType ==
  ASSUME NEW r \in Requests
  PROVE  /\ r.op \in TextGetters \cup Setters \cup RawGetters
         /\ ~BadArguments(r) => r.attr \in Attrs
         /\ ~BadArguments(r) /\ r.op \in Setters =>
              r.attr \in TextAttrs /\ Printed(r) \in Content(r.attr)
         /\ ~BadArguments(r) /\ r.op \in RawGetters => r.attr \in RawAttrs
<1> USE DEF BadArguments, Attrs
<1>1. CASE r \in [op : TextGetters,  attr : TextAttrs \cup {NullAttr}, arg : {Pointer, NullPtr}]
  BY <1>1 DEF TextGetters, Setters, RawGetters
<1>2. CASE r \in [op : {"str_set"},  attr : TextAttrs \cup {NullAttr}, arg : Texts \cup {NullPtr}]
  BY <1>2 DEF Setters, RawGetters, Printed, Content
<1>3. CASE r \in [op : {"uint_set"}, attr : TextAttrs \cup {NullAttr}, arg : {Num(v) : v \in Uint}]
  <2>1. PICK v \in Uint : r.arg = Num(v)
    BY <1>3
  <2>2. Printed(r) = Num(AsInt(v))
    BY <1>3, <2>1 DEF Printed, Num
  <2>3. AsInt(v) \in Nums
    BY SysfsDataAssumption DEF AsInt, Uint, UintModulus
  <2> QED BY <1>3, <2>2, <2>3 DEF Setters, RawGetters, Content, Texts
<1>4. CASE r \in [op : {"size_get"}, attr : RawAttrs \cup {NullAttr},  arg : {Pointer, NullPtr}]
  BY <1>4 DEF Setters, RawGetters
<1>5. CASE r \in [op : {"data_get"}, attr : RawAttrs \cup {NullAttr},
                  arg : {Num(l) : l \in Lengths} \cup {NullPtr}]
  BY <1>5 DEF Setters, RawGetters
<1> QED BY <1>1, <1>2, <1>3, <1>4, <1>5 DEF Requests

LEMMA NoRequestType == NoRequest \in Requests
  BY DEF NoRequest, Requests

-----------------------------------------------------------------------------
\* Putting a content of the attribute in a file gives a file system again.
LEMMA FilesUpdate ==
  ASSUME NEW f \in Files, NEW a \in Attrs, NEW content \in Content(a)
  PROVE  [f EXCEPT ![a] = content] \in Files
  BY DEF Files

\* Every variable keeps its type.
LEMMA TypeCorrect == TypeOK /\ [Next]_vars => TypeOK'
<1> SUFFICES ASSUME TypeOK, [Next]_vars PROVE TypeOK'
  OBVIOUS
<1> USE DEF TypeOK, Steps, Statuses
<1>1. ASSUME NEW c \in Callers, NEW r \in Requests, Call(c, r) PROVE TypeOK'
  BY <1>1 DEF Call, Goto
<1>2. ASSUME NEW c \in Callers, CheckArguments(c) PROVE TypeOK'
  BY <1>2 DEF CheckArguments, GiveUp, Goto
<1>3. ASSUME NEW c \in Callers, Access(c) PROVE TypeOK'
  BY <1>3 DEF Access, GiveUp, Goto
<1>4. ASSUME NEW c \in Callers, Open(c) PROVE TypeOK'
  BY <1>4 DEF Open, GiveUp, Goto
<1>5. ASSUME NEW c \in Callers, Transfer(c) PROVE TypeOK'
  <2>1. rc' \in [Callers -> Statuses]
    BY <1>5 DEF Transfer, Scan, Measure, ReadData, FillBuffer
  <2> QED BY <1>5, <2>1 DEF Transfer, Goto
<1>6. ASSUME NEW c \in Callers, Close(c) PROVE TypeOK'
  <2>1. file' \in Files
    <3>1. CASE UNCHANGED file
      BY <3>1
    <3>2. CASE Op(c) \in Setters /\ file' = [file EXCEPT ![Attr(c)] = Printed(call[c])]
      <4>1. Attr(c) \in Attrs /\ Printed(call[c]) \in Content(Attr(c))
        BY <1>6, <3>2, RequestType DEF Close, Goto, Op, Attr
      <4> QED BY <3>2, <4>1, FilesUpdate
    <3> QED BY <1>6, <3>1, <3>2 DEF Close
  <2> QED BY <1>6, <2>1 DEF Close, Goto
<1>7. ASSUME NEW c \in Callers, Return(c) PROVE TypeOK'
  BY <1>7, NoRequestType DEF Return, Goto
<1>8. ASSUME NEW a \in Attrs, Device(a) PROVE TypeOK'
  <2>1. PICK content \in Content(a) : file' = [file EXCEPT ![a] = content]
    BY <1>8 DEF Device
  <2>2. file' \in Files
    BY <2>1, FilesUpdate
  <2> QED BY <1>8, <2>2 DEF Device
<1>9. CASE UNCHANGED vars
  BY <1>9 DEF vars
<1> QED BY <1>1, <1>2, <1>3, <1>4, <1>5, <1>6, <1>7, <1>8, <1>9 DEF Next, Step

\* A FILE is open exactly between fopen and fclose.
LEMMA StreamsKept == TypeOK /\ StreamsClosed /\ [Next]_vars => StreamsClosed'
<1> SUFFICES ASSUME TypeOK, StreamsClosed, [Next]_vars PROVE StreamsClosed'
  OBVIOUS
<1> USE DEF TypeOK, StreamsClosed, Goto
<1>1. ASSUME NEW c \in Callers, NEW r \in Requests, Call(c, r) PROVE StreamsClosed'
  BY <1>1 DEF Call
<1>2. ASSUME NEW c \in Callers, CheckArguments(c) PROVE StreamsClosed'
  BY <1>2 DEF CheckArguments, GiveUp
<1>3. ASSUME NEW c \in Callers, Access(c) PROVE StreamsClosed'
  BY <1>3 DEF Access, GiveUp
<1>4. ASSUME NEW c \in Callers, Open(c) PROVE StreamsClosed'
  BY <1>4 DEF Open, GiveUp
<1>5. ASSUME NEW c \in Callers, Transfer(c) PROVE StreamsClosed'
  BY <1>5 DEF Transfer
<1>6. ASSUME NEW c \in Callers, Close(c) PROVE StreamsClosed'
  BY <1>6 DEF Close
<1>7. ASSUME NEW c \in Callers, Return(c) PROVE StreamsClosed'
  BY <1>7 DEF Return
<1>8. ASSUME NEW a \in Attrs, Device(a) PROVE StreamsClosed'
  BY <1>8 DEF Device
<1>9. CASE UNCHANGED vars
  BY <1>9 DEF vars
<1> QED BY <1>1, <1>2, <1>3, <1>4, <1>5, <1>6, <1>7, <1>8, <1>9 DEF Next, Step

\* Until a call takes effect it has no result.
ResultsFresh ==
  /\ out = [c \in Callers |-> out[c]]
  /\ \A c \in Callers :
       pc[c] \notin {"done", "close"} \/ (pc[c] = "close" /\ Op(c) \in Setters) =>
         rc[c] = "ok" /\ out[c] = Untouched
  /\ \A c \in Callers : pc[c] = "close" /\ Op(c) \in TextGetters => rc[c] = "ok"

LEMMA FreshKept == TypeOK /\ ResultsFresh /\ [Next]_vars => ResultsFresh'
<1> SUFFICES ASSUME TypeOK, ResultsFresh, [Next]_vars PROVE ResultsFresh'
  OBVIOUS
<1> USE DEF TypeOK, ResultsFresh, Goto, Op, Attr
<1>1. ASSUME NEW c \in Callers, NEW r \in Requests, Call(c, r) PROVE ResultsFresh'
  BY <1>1 DEF Call
<1>2. ASSUME NEW c \in Callers, CheckArguments(c) PROVE ResultsFresh'
  BY <1>2 DEF CheckArguments, GiveUp
<1>3. ASSUME NEW c \in Callers, Access(c) PROVE ResultsFresh'
  BY <1>3 DEF Access, GiveUp
<1>4. ASSUME NEW c \in Callers, Open(c) PROVE ResultsFresh'
  BY <1>4 DEF Open, GiveUp
<1>5. ASSUME NEW c \in Callers, Transfer(c) PROVE ResultsFresh'
  <2>1. CASE FillBuffer(c)
    BY <1>5, <2>1 DEF Transfer, FillBuffer
  <2>2. CASE Op(c) \notin Setters /\ Scan(c)
    BY <1>5, <2>2 DEF Transfer, Scan
  <2>3. CASE Op(c) \notin Setters /\ Measure(c)
    BY <1>5, <2>3 DEF Transfer, Measure, TextGetters
  <2>4. CASE Op(c) \notin Setters /\ ReadData(c)
    BY <1>5, <2>4 DEF Transfer, ReadData, TextGetters
  <2> QED BY <1>5, <2>1, <2>2, <2>3, <2>4
          DEF Transfer, Scan, Measure, ReadData, Setters, TextGetters
<1>6. ASSUME NEW c \in Callers, Close(c) PROVE ResultsFresh'
  BY <1>6 DEF Close
<1>7. ASSUME NEW c \in Callers, Return(c) PROVE ResultsFresh'
  BY <1>7 DEF Return
<1>8. ASSUME NEW a \in Attrs, Device(a) PROVE ResultsFresh'
  BY <1>8 DEF Device
<1>9. CASE UNCHANGED vars
  BY <1>9 DEF vars
<1> QED BY <1>1, <1>2, <1>3, <1>4, <1>5, <1>6, <1>7, <1>8, <1>9 DEF Next, Step

IInv == TypeOK /\ StreamsClosed /\ ResultsFresh

LEMMA InitIInv == Init => IInv
  BY NoRequestType DEF Init, IInv, TypeOK, StreamsClosed, ResultsFresh, Steps, Statuses

LEMMA Invariant == Spec => []IInv
<1>1. IInv /\ [Next]_vars => IInv'
  BY TypeCorrect, StreamsKept, FreshKept DEF IInv
<1> QED BY InitIInv, <1>1, PTL DEF Spec

\* Every variable of the helpers keeps its type, however the callers, the
\* drivers and the attributes that come and go interleave.
THEOREM TypesHold == Spec => []TypeOK
<1>1. IInv => TypeOK
  BY DEF IInv
<1> QED BY Invariant, <1>1, PTL

\* Every variable keeps its type, and no path through the seven helpers
\* leaks the FILE it opened (sdi_sysfs_attr_*), whatever the callers and the
\* devices do in between.
THEOREM NoDescriptorLeaks == Spec => [](TypeOK /\ StreamsClosed)
<1>1. IInv => TypeOK /\ StreamsClosed
  BY DEF IInv
<1> QED BY Invariant, <1>1, PTL

\* A call that ends with an error has changed no attribute, and left the
\* caller's variable alone unless it was a raw getter (the early returns of
\* sdi_sysfs_attr_*, and their order).
THEOREM FailuresHaveNoEffect == Spec => FailureHasNoEffect
<1> DEFINE Harmless == \A c \in Callers :
      pc[c] # "done" /\ pc'[c] = "done" /\ rc'[c] # "ok" =>
        /\ UNCHANGED file
        /\ Op(c) \notin RawGetters => out'[c] = Untouched
<1>1. IInv /\ [Next]_vars => [Harmless]_vars
  <2> SUFFICES ASSUME IInv, [Next]_vars, NEW c \in Callers,
                      pc[c] # "done", pc'[c] = "done", rc'[c] # "ok"
               PROVE  UNCHANGED file /\ (Op(c) \notin RawGetters => out'[c] = Untouched)
    OBVIOUS
  <2> USE DEF IInv, TypeOK, Goto
  <2>1. ASSUME NEW step \in {"check", "access", "open"}, NEW status, GiveUp(c, step, status)
        PROVE  UNCHANGED file /\ out'[c] = Untouched
    BY <2>1 DEF GiveUp, ResultsFresh
  <2>2. CASE CheckArguments(c)
    BY <2>1, <2>2 DEF CheckArguments
  <2>3. CASE Access(c)
    BY <2>1, <2>3 DEF Access
  <2>4. CASE Open(c)
    BY <2>1, <2>4 DEF Open
  <2>5. CASE Close(c)
    <3>1. Op(c) \notin TextGetters \cup Setters /\ rc'[c] = rc[c]
      BY <2>5 DEF Close, ResultsFresh
    <3>2. Op(c) \in RawGetters
      BY <3>1, RequestType DEF Op
    <3> QED BY <2>5, <3>1, <3>2 DEF Close
  <2>6. CheckArguments(c) \/ Access(c) \/ Open(c) \/ Close(c)
    BY DEF Next, Step, Call, CheckArguments, Access, Open, GiveUp, Transfer, Close,
           Return, Device, vars
  <2> QED BY <2>2, <2>3, <2>4, <2>5, <2>6
<1> QED BY Invariant, <1>1, PTL DEF Spec, FailureHasNoEffect

-----------------------------------------------------------------------------
(* The helpers implement the register, fairness apart. *)

Phases == [c \in Callers |-> Phase(c)]

\* The register speaks of the same contents, values and requests.
LEMMA SameData ==
  /\ Register!Files = Files /\ Register!Attrs = Attrs /\ Register!Requests = Requests
  /\ Register!TextGetters = TextGetters /\ Register!Setters = Setters
  /\ Register!NoRequest = NoRequest /\ Register!Untouched = Untouched
  /\ Register!Absent = Absent /\ Register!Partial = Partial
  /\ \A r : Register!BadArguments(r) = BadArguments(r) /\ Register!Printed(r) = Printed(r)
  /\ \A a : Register!Content(a) = Content(a)
  /\ \A n : Register!Num(n) = Num(n) /\ Register!Raw(n) = Raw(n)
  /\ \A op, content : Register!Scanned(op, content) = Scanned(op, content)
<1> USE DEF Untouched, Register!Untouched, Absent, Register!Absent, Partial, Register!Partial, Blank, Register!Blank, Num, Register!Num, Raw, Register!Raw, Word, Register!Word, NullPtr, Register!NullPtr, Pointer, Register!Pointer
<1>1. Register!TextGetters = TextGetters /\ Register!Setters = Setters
  BY DEF TextGetters, Register!TextGetters, Setters, Register!Setters
<1>2. Register!NoRequest = NoRequest
  BY DEF NoRequest, Register!NoRequest
<1>3. \A r : Register!BadArguments(r) = BadArguments(r)
  BY DEF BadArguments, Register!BadArguments
<1>4. UintModulus = Register!UintModulus /\ Uint = Register!Uint
  BY DEF UintModulus, Register!UintModulus, Uint, Register!Uint
<1>5. \A v : AsInt(v) = Register!AsInt(v)
  BY <1>4 DEF AsInt, Register!AsInt
<1>6. \A r : Register!Printed(r) = Printed(r)
  BY <1>5 DEF Printed, Register!Printed
<1>7. \A op, content : Register!Scanned(op, content) = Scanned(op, content)
  BY <1>4, <1>5 DEF Scanned, Register!Scanned
<1>8. Register!Texts = Texts /\ Register!Attrs = Attrs
  BY DEF Texts, Register!Texts, Attrs, Register!Attrs
<1>9. \A a : Register!Content(a) = Content(a)
  BY <1>8 DEF Content, Register!Content
<1>10. Register!Files = Files
  BY <1>8, <1>9 DEF Files, Register!Files
<1>11. Register!Requests = Requests
  BY <1>1, <1>4, <1>8 DEF Requests, Register!Requests
<1> QED BY <1>1, <1>2, <1>3, <1>6, <1>7, <1>8, <1>9, <1>10, <1>11

\* A step of one caller changes the phase of this caller only.
LEMMA PhaseStep ==
  ASSUME TypeOK, NEW c \in Callers, NEW step, pc' = [pc EXCEPT ![c] = step],
         \A d \in Callers \ {c} : call'[d] = call[d]
  PROVE  Phases' = [Phases EXCEPT ![c] = Phase(c)']
  BY DEF TypeOK, Phases, Phase, Op

\* A step of one caller that leaves its phase alone changes no phase.
LEMMA PhaseStutter ==
  ASSUME TypeOK, NEW c \in Callers, NEW step, pc' = [pc EXCEPT ![c] = step],
         UNCHANGED call, Phase(c)' = Phase(c)
  PROVE  Phases' = Phases
  BY DEF TypeOK, Phases, Phase, Op

\* A step that gives up is a failure of the register, or a refusal.
LEMMA GiveUpRefines ==
  ASSUME IInv, NEW c \in Callers, NEW step \in {"check", "access", "open"}, NEW status \in Statuses,
         GiveUp(c, step, status)
  PROVE  Register!Finish(c, status, Untouched)
<1>1. Phase(c) = "pending" /\ Phase(c)' = "done"
  BY DEF GiveUp, Goto, Phase, IInv, TypeOK
<1>2. Phases' = [Phases EXCEPT ![c] = "done"]
  BY <1>1, PhaseStep DEF GiveUp, Goto, IInv
<1>3. out' = [out EXCEPT ![c] = Untouched]
  BY DEF GiveUp, Goto, IInv, ResultsFresh
<1> QED BY <1>1, <1>2, <1>3 DEF GiveUp, Register!Finish, Phases

\* The register starts where the helpers start.
LEMMA InitRefines == Init => Register!Init
  BY SameData DEF Init, Register!Init, Phases, Phase

LEMMA CallRefines ==
  ASSUME IInv, NEW c \in Callers, NEW r \in Requests, Call(c, r)
  PROVE  Register!Invoke(c, r)
<1>1. Phase(c) = "idle" /\ Phase(c)' = "pending"
  BY DEF Call, Goto, Phase, IInv, TypeOK
<1>2. Phases' = [Phases EXCEPT ![c] = "pending"]
  BY <1>1, PhaseStep DEF Call, Goto, IInv, TypeOK
<1> QED BY <1>1, <1>2 DEF Call, Register!Invoke, Phases

LEMMA CheckRefines ==
  ASSUME IInv, NEW c \in Callers, CheckArguments(c)
  PROVE  Register!Refuse(c) \/ UNCHANGED Register!vars
<1>1. CASE BadArguments(call[c]) /\ GiveUp(c, "check", "EINVAL")
  BY SameData, <1>1, GiveUpRefines DEF Register!Refuse, GiveUp, Statuses
<1>2. CASE ~BadArguments(call[c])
  <2>1. Phase(c)' = Phase(c)
    BY <1>2 DEF CheckArguments, Goto, Phase, IInv, TypeOK
  <2>2. Phases' = Phases
    BY <1>2, <2>1, PhaseStutter DEF CheckArguments, Goto, IInv
  <2> QED BY <1>2, <2>2 DEF CheckArguments, Register!vars, Phases
<1> QED BY <1>1, <1>2 DEF CheckArguments

LEMMA AccessRefines ==
  ASSUME IInv, NEW c \in Callers, Access(c)
  PROVE  Register!Fail(c) \/ UNCHANGED Register!vars
<1>1. CASE GiveUp(c, "access", "errno")
  <2>1. ~BadArguments(call[c])
    BY DEF IInv, TypeOK, Access
  <2> QED BY SameData, <1>1, <2>1, GiveUpRefines DEF Register!Fail, GiveUp, Statuses
<1>2. CASE Goto(c, "access", "open") /\ UNCHANGED <<file, call, rc, out, streams>>
  <2>1. Phase(c)' = Phase(c)
    BY <1>2 DEF Goto, Phase, IInv, TypeOK
  <2>2. Phases' = Phases
    BY <1>2, <2>1, PhaseStutter DEF Goto, IInv
  <2> QED BY <1>2, <2>2 DEF Register!vars, Phases
<1> QED BY <1>1, <1>2 DEF Access

LEMMA OpenRefines ==
  ASSUME IInv, NEW c \in Callers, Open(c)
  PROVE  Register!Fail(c) \/ UNCHANGED Register!vars
<1>1. CASE GiveUp(c, "open", "errno")
  <2>1. ~BadArguments(call[c])
    BY DEF IInv, TypeOK, Open
  <2> QED BY SameData, <1>1, <2>1, GiveUpRefines DEF Register!Fail, GiveUp, Statuses
<1>2. CASE Goto(c, "open", "transfer") /\ UNCHANGED <<file, call, rc, out>>
  <2>1. Phase(c)' = Phase(c)
    BY <1>2 DEF Goto, Phase, IInv, TypeOK
  <2>2. Phases' = Phases
    BY <1>2, <2>1, PhaseStutter DEF Goto, IInv
  <2> QED BY <1>2, <2>2 DEF Register!vars, Phases
<1> QED BY <1>1, <1>2 DEF Open

\* A getter takes effect when it transfers; a setter only fills its buffer.
LEMMA TransferRefines ==
  ASSUME IInv, NEW c \in Callers, Transfer(c)
  PROVE  Register!Retrieve(c) \/ Register!Fetch(c) \/ UNCHANGED Register!vars
<1>1. ~BadArguments(call[c]) /\ UNCHANGED <<file, call>> /\ Phase(c) = "pending"
  BY DEF Transfer, Goto, IInv, TypeOK, Phase
<1>2. rc[c] = "ok" /\ out[c] = Untouched
  BY DEF Transfer, Goto, IInv, ResultsFresh
<1>3. rc = [rc EXCEPT ![c] = "ok"] /\ out = [out EXCEPT ![c] = Untouched]
  BY <1>2 DEF IInv, TypeOK, ResultsFresh
<1>4. CASE Op(c) \in Setters
  <2>1. UNCHANGED <<rc, out>>
    BY <1>4 DEF Transfer, Scan, Measure, ReadData, FillBuffer, Setters, TextGetters
  <2>2. Phase(c)' = Phase(c)
    BY <1>1, <1>4 DEF Transfer, Goto, Phase, Op, IInv, TypeOK
  <2>3. Phases' = Phases
    BY <1>1, <2>2, PhaseStutter DEF Transfer, Goto, IInv
  <2> QED BY <1>1, <2>1, <2>3 DEF Register!vars, Phases
<1>5. CASE Op(c) \notin Setters
  <2>1. Phases' = [Phases EXCEPT ![c] = "done"]
    <3>1. Phase(c)' = "done"
      BY <1>1, <1>5 DEF Transfer, Goto, Phase, Op, IInv, TypeOK
    <3> QED BY <1>1, <3>1, PhaseStep DEF Transfer, Goto, IInv
  <2>2. ASSUME NEW s, NEW v, rc' = [rc EXCEPT ![c] = s], out' = [out EXCEPT ![c] = v]
        PROVE  Register!Finish(c, s, v)
    BY <1>1, <2>1, <2>2 DEF Register!Finish, Phases
  <2>3. CASE Scan(c)
    <3>1. PICK v \in {Scanned(Op(c), file[Attr(c)]), Untouched} : out' = [out EXCEPT ![c] = v]
      BY <2>3 DEF Scan
    <3>2. Register!Finish(c, "ok", v)
      BY <1>3, <2>2, <2>3, <3>1 DEF Scan
    <3> QED BY SameData, <1>1, <2>3, <3>1, <3>2 DEF Register!Retrieve, Scan, Op, Attr, TextGetters, Register!TextGetters
  <2>4. CASE Measure(c)
    <3>1. CASE UNCHANGED out /\ rc' = [rc EXCEPT ![c] = "seek"]
      <4>1. Register!Finish(c, "seek", Untouched)
        BY <1>3, <2>2, <3>1
      <4> QED BY SameData, <1>1, <2>4, <4>1 DEF Register!Fetch, Measure, Op, Attr
    <3>2. CASE /\ file[Attr(c)] # Absent
               /\ out' = [out EXCEPT ![c] = Num(file[Attr(c)].val)]
               /\ \E s \in {"ok", "seek"} : rc' = [rc EXCEPT ![c] = s]
      <4>1. \E s \in {"ok", "seek"} : Register!Finish(c, s, Num(file[Attr(c)].val))
        BY <2>2, <3>2
      <4> QED BY SameData, <1>1, <2>4, <3>2, <4>1 DEF Register!Fetch, Measure, Op, Attr
    <3> QED BY <2>4, <3>1, <3>2 DEF Measure
  <2>5. CASE ReadData(c)
    <3>1. CASE out' = [out EXCEPT ![c] = Partial] /\ rc' = [rc EXCEPT ![c] = "EIO"]
      <4>1. Register!Finish(c, "EIO", Partial)
        BY <2>2, <3>1
      <4> QED BY SameData, <1>1, <2>5, <4>1 DEF Register!Fetch, ReadData, Op, Attr
    <3>2. CASE /\ file[Attr(c)] # Absent
               /\ file[Attr(c)].val >= call[c].arg.val
               /\ out' = [out EXCEPT ![c] = Raw(call[c].arg.val)]
               /\ UNCHANGED rc
      <4>1. Register!Finish(c, "ok", Raw(call[c].arg.val))
        BY <1>3, <2>2, <3>2
      <4> QED BY SameData, <1>1, <2>5, <3>2, <4>1 DEF Register!Fetch, ReadData, Op, Attr
    <3> QED BY <2>5, <3>1, <3>2 DEF ReadData
  <2> QED BY <1>5, <2>3, <2>4, <2>5 DEF Transfer, FillBuffer
<1> QED BY <1>4, <1>5

\* A setter takes effect when its FILE is closed and the buffer flushed.
LEMMA CloseRefines ==
  ASSUME IInv, NEW c \in Callers, Close(c)
  PROVE  Register!Store(c) \/ UNCHANGED Register!vars
<1>1. ~BadArguments(call[c]) /\ UNCHANGED <<call, rc, out>> /\ Phase(c)' = "done"
  BY DEF Close, Goto, IInv, TypeOK, Phase
<1>2. CASE Op(c) \in Setters
  <2>1. Phase(c) = "pending" /\ rc[c] = "ok" /\ out[c] = Untouched
    BY <1>2 DEF Close, Goto, Phase, IInv, ResultsFresh
  <2>2. Phases' = [Phases EXCEPT ![c] = "done"]
    BY <1>1, PhaseStep DEF Close, Goto, IInv
  <2>3. rc' = [rc EXCEPT ![c] = "ok"] /\ out' = [out EXCEPT ![c] = Untouched]
    BY <1>1, <2>1 DEF IInv, TypeOK, ResultsFresh
  <2>4. Register!Finish(c, "ok", Untouched)
    BY <1>1, <2>1, <2>2, <2>3 DEF Register!Finish, Phases
  <2> QED BY SameData, <1>1, <1>2, <2>4 DEF Register!Store, Close, Op, Attr, Setters, Register!Setters
<1>3. CASE Op(c) \notin Setters
  <2>1. Phase(c) = "done" /\ UNCHANGED file
    BY <1>3 DEF Close, Goto, Phase
  <2>2. Phases' = Phases
    BY <1>1, <2>1, PhaseStutter DEF Close, Goto, IInv
  <2> QED BY <1>1, <2>1, <2>2 DEF Register!vars, Phases
<1> QED BY <1>2, <1>3

LEMMA ReturnRefines ==
  ASSUME IInv, NEW c \in Callers, Return(c)
  PROVE  Register!Return(c)
<1>1. Phase(c) = "done" /\ Phase(c)' = "idle"
  BY DEF Return, Goto, Phase, IInv, TypeOK
<1>2. Phases' = [Phases EXCEPT ![c] = "idle"]
  BY <1>1, PhaseStep DEF Return, Goto, IInv, TypeOK
<1> QED BY SameData, <1>1, <1>2 DEF Return, Register!Return, Phases, NoRequest, Register!NoRequest

LEMMA DeviceRefines ==
  ASSUME IInv, NEW a \in Attrs, Device(a)
  PROVE  Register!Device(a)
<1>1. Phases' = Phases
  BY DEF Device, Phases, Phase, Op
<1> QED BY SameData, <1>1 DEF Device, Register!Device, Phases

\* Every step of a helper is a step of the register, or none.
LEMMA StepRefines == IInv /\ [Next]_vars => [Register!Next]_(Register!vars)
<1> SUFFICES ASSUME IInv, [Next]_vars PROVE [Register!Next]_(Register!vars)
  OBVIOUS
<1> USE DEF Register!Next, Register!Effect
<1>1. ASSUME NEW c \in Callers, NEW r \in Requests, Call(c, r)
      PROVE  [Register!Next]_(Register!vars)
  BY SameData, <1>1, CallRefines
<1>2. ASSUME NEW c \in Callers, Step(c)
      PROVE  [Register!Next]_(Register!vars)
  BY <1>2, CheckRefines, AccessRefines, OpenRefines, TransferRefines, CloseRefines,
     ReturnRefines DEF Step
<1>3. ASSUME NEW a \in Attrs, Device(a)
      PROVE  [Register!Next]_(Register!vars)
  BY SameData, <1>3, DeviceRefines
<1>4. CASE UNCHANGED vars
  BY <1>4 DEF vars, Register!vars, Phase, Op
<1> QED BY <1>1, <1>2, <1>3, <1>4 DEF Next

\* The safety part of ImplementsRegister: a call of a helper of
\* sdi_sysfs_utils.c is one atomic access to an attribute, however the calls
\* of the other threads and the devices fall between its system calls.
THEOREM RefinesRegister == Spec => Register!Init /\ [][Register!Next]_(Register!vars)
  BY InitRefines, Invariant, StepRefines, PTL DEF Spec
=============================================================================

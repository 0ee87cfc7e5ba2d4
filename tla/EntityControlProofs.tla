-------------------------- MODULE EntityControlProofs --------------------------
(***************************************************************************)
(* The answers of the operations on an entity, for any number of threads,  *)
(* attributes and settings, over helpers that are no more than the         *)
(* register of SysfsRegister.                                              *)
(***************************************************************************)
EXTENDS EntityControl, TLAPS

-----------------------------------------------------------------------------
(* The inductive invariant. *)

\* A helper is called by an operation that is supported, with its request.
Flow ==
  /\ rc \in [Callers -> {"ok", "errno"}]
  /\ DOMAIN out = Callers
  /\ \A c \in Callers :
       /\ phase[c] # "idle" <=> op[c] # NoOp /\ c \notin ended
       /\ phase[c] # "idle" => IsSupported(op[c]) /\ call[c] = RequestOf(op[c])
       /\ phase[c] # "idle" /\ op[c] \in Commands => Wanted(c) # Blank
       /\ c \in ended => op[c] # NoOp

\* The history of an operation under way holds what is the case now.
Watched ==
  \A c \in Callers : phase[c] # "idle" => (file[Attr(c)] = Wanted(c)) \in held[c]

\* A text that a query found was there at some time since it began.
TextHeld ==
  \A c \in Callers :
    phase[c] = "done" /\ rc[c] = "ok" /\ op[c] \in Queries /\ out[c] = Wanted(c)
      => TRUE \in held[c]

IInv == TypeOK /\ Flow /\ Watched /\ TextHeld /\ AnswersHeld /\ FailsSafe

-----------------------------------------------------------------------------
(* Data. *)

LEMMA EntityIs ==
  ASSUME entity \in Entities
  PROVE  /\ \A o \in Ops : entity.attr[o] \in TextAttrs \cup {NullAttr}
         /\ \A o \in Ops : entity.text[o] \in Texts \cup {Blank}
         /\ \A o \in {"led_on", "led_off"} : entity.text[o] # Blank
         /\ entity.text["reset"] = Num(1)
BY EntityControlAssumption DEF EntityType

\* No text is the mark of a variable that was left as it was.
LEMMA TextsAreTexts ==
  ASSUME NEW t \in Texts \cup {Blank} PROVE t # Untouched /\ t # Absent /\ t # NullPtr
BY DEF Texts, Blank, Word, Num, Untouched, Absent, NullPtr

\* One is an unsigned int, and its print is a number that a text may denote.
LEMMA OneIs ==
  /\ 1 \in Uint /\ Num(1) # Num(0) /\ Num(1) # NullPtr
  /\ Num(AsInt(1)) \in Texts
<1>1. UintHalf \in Nat /\ UintHalf > 0
  BY SysfsDataAssumption
<1>2. 1 \in Uint
  BY <1>1 DEF Uint, UintModulus
<1>3. AsInt(1) \in -UintHalf .. 2 * UintHalf - 1
  BY <1>1 DEF AsInt, UintModulus
<1>4. AsInt(1) \in Nums
  BY <1>3, SysfsDataAssumption
<1>5. Num(1) # Num(0) /\ Num(1) # NullPtr
  BY DEF Num, NullPtr
<1> QED BY <1>2, <1>4, <1>5 DEF Texts

\* The request that an operation makes of a helper is a good one.
LEMMA GoodRequest ==
  ASSUME entity \in Entities, NEW o \in Ops, IsSupported(o),
         o \in Commands => entity.text[o] # Blank
  PROVE  /\ RequestOf(o) \in Requests
         /\ ~BadArguments(RequestOf(o))
         /\ RequestOf(o).op \in {"str_get", "str_set", "uint_set"}
         /\ RequestOf(o).attr = entity.attr[o] /\ RequestOf(o).attr \in TextAttrs
         /\ RequestOf(o).op = "str_get" <=> o \in Queries
         /\ o \in Commands => Printed(RequestOf(o)) \in Texts
<1>1. entity.attr[o] \in TextAttrs /\ entity.attr[o] # NullAttr
  BY EntityIs DEF IsSupported
<1>2. CASE o \in Queries
  <2>1. RequestOf(o) = [op |-> "str_get", attr |-> entity.attr[o], arg |-> Pointer]
    BY <1>2 DEF RequestOf, Queries
  <2>2. RequestOf(o) \in Requests
    BY <1>1, <2>1 DEF Requests, TextGetters
  <2>3. ~BadArguments(RequestOf(o))
    BY <1>1, <2>1 DEF BadArguments, Pointer, NullPtr
  <2>4. o \notin Commands
    BY <1>2 DEF Queries, Commands, Power
  <2> QED BY <1>1, <1>2, <2>1, <2>2, <2>3, <2>4
<1>3. CASE o = "reset"
  <2>1. RequestOf(o) = [op |-> "uint_set", attr |-> entity.attr[o], arg |-> Num(1)]
    BY <1>3, EntityIs DEF RequestOf, Queries
  <2>2. RequestOf(o) \in Requests
    BY <1>1, <2>1, OneIs DEF Requests
  <2>3. ~BadArguments(RequestOf(o))
    BY <1>1, <2>1, OneIs DEF BadArguments
  <2>4. Printed(RequestOf(o)) \in Texts
    <3>1. Printed(RequestOf(o)) = Num(AsInt(1))
      BY <2>1 DEF Printed, Num
    <3> QED BY <3>1, OneIs
  <2>5. o \notin Queries
    BY <1>3 DEF Queries
  <2> QED BY <1>1, <2>1, <2>2, <2>3, <2>4, <2>5
<1>4. CASE o \notin Queries /\ o # "reset"
  <2>1. RequestOf(o) = [op |-> "str_set", attr |-> entity.attr[o], arg |-> entity.text[o]]
    BY <1>4 DEF RequestOf
  <2>2. entity.text[o] \in Texts /\ entity.text[o] # NullPtr
    BY <1>4, EntityIs, TextsAreTexts DEF Ops
  <2>3. RequestOf(o) \in Requests
    BY <1>1, <2>1, <2>2 DEF Requests
  <2>4. ~BadArguments(RequestOf(o))
    BY <1>1, <2>1, <2>2 DEF BadArguments
  <2>5. Printed(RequestOf(o)) \in Texts
    BY <2>1, <2>2 DEF Printed
  <2> QED BY <1>1, <1>4, <2>1, <2>3, <2>4, <2>5
<1> QED BY <1>2, <1>3, <1>4

\* A file stays one when an attribute gets a text.
LEMMA FileUpdated ==
  ASSUME file \in Files, NEW a \in TextAttrs, NEW v \in Texts
  PROVE  [file EXCEPT ![a] = v] \in Files
<1> DEFINE All == UNION {Content(b) : b \in Attrs}
<1>1. a \in Attrs /\ v \in Content(a)
  BY DEF Attrs, Content
<1>2. v \in All
  BY <1>1
<1> HIDE DEF All
<1>3. file \in [Attrs -> All] /\ \A b \in Attrs : file[b] \in Content(b)
  BY DEF Files, All
<1>4. [file EXCEPT ![a] = v] \in [Attrs -> All]
  BY <1>1, <1>2, <1>3
<1>5. \A b \in Attrs : [file EXCEPT ![a] = v][b] \in Content(b)
  BY <1>1, <1>3
<1> QED BY <1>4, <1>5 DEF Files, All

\* The operators of the register are those of the module it shares.
LEMMA Same ==
  /\ Sysfs!Untouched = Untouched /\ Sysfs!NoRequest = NoRequest /\ Sysfs!Files = Files
  /\ \A r : Sysfs!BadArguments(r) = BadArguments(r) /\ Sysfs!Printed(r) = Printed(r)
  /\ \A o, v : Sysfs!Scanned(o, v) = Scanned(o, v)
  /\ \A a : Sysfs!Content(a) = Content(a)
<1> USE DEF Untouched, Sysfs!Untouched, Absent, Sysfs!Absent, Blank, Sysfs!Blank,
            Num, Sysfs!Num, Raw, Sysfs!Raw, Word, Sysfs!Word, NullPtr, Sysfs!NullPtr
<1>1. Sysfs!NoRequest = NoRequest /\ \A r : Sysfs!BadArguments(r) = BadArguments(r)
  BY DEF NoRequest, Sysfs!NoRequest, BadArguments, Sysfs!BadArguments
<1>2. UintModulus = Sysfs!UintModulus
  BY DEF UintModulus, Sysfs!UintModulus
<1>3. \A v : AsInt(v) = Sysfs!AsInt(v)
  BY <1>2 DEF AsInt, Sysfs!AsInt
<1>4. \A r : Sysfs!Printed(r) = Printed(r)
  BY <1>3 DEF Printed, Sysfs!Printed
<1>5. \A o, v : Sysfs!Scanned(o, v) = Scanned(o, v)
  BY <1>2, <1>3 DEF Scanned, Sysfs!Scanned
<1>6. Sysfs!Texts = Texts /\ Sysfs!Attrs = Attrs
  BY DEF Texts, Sysfs!Texts, Attrs, Sysfs!Attrs
<1>7. \A a : Sysfs!Content(a) = Content(a)
  BY <1>6 DEF Content, Sysfs!Content
<1>8. Sysfs!Files = Files
  BY <1>6, <1>7 DEF Files, Sysfs!Files
<1> QED BY <1>1, <1>4, <1>5, <1>7, <1>8

-----------------------------------------------------------------------------
(* The steps of the helpers. *)

\* A text getter finds the content of this moment, if it finds any.
LEMMA ScannedText ==
  ASSUME NEW t \in Texts \cup {Blank}, NEW content, Scanned("str_get", content) = t
  PROVE  content = t
BY TextsAreTexts DEF Scanned

\* What the effect of a helper can be on the request of an operation.
LEMMA EffectIs ==
  ASSUME IInv, NEW c \in Callers, Sysfs!Effect(c)
  PROVE  /\ phase[c] = "pending" /\ phase' = [phase EXCEPT ![c] = "done"]
         /\ UNCHANGED call
         /\ rc' \in [Callers -> {"ok", "errno"}] /\ DOMAIN out' = Callers
         /\ \A d \in Callers \ {c} : rc'[d] = rc[d] /\ out'[d] = out[d]
         /\ file' \in Files
         /\ op[c] \in Queries =>
              /\ file' = file
              /\ rc'[c] = "ok" /\ out'[c] = Wanted(c) => file[Attr(c)] = Wanted(c)
<1> DEFINE r == RequestOf(op[c])
<1>0. phase[c] = "pending" /\ phase' = [phase EXCEPT ![c] = "done"] /\ UNCHANGED call
  BY DEF Sysfs!Effect, Sysfs!Refuse, Sysfs!Fail, Sysfs!Retrieve, Sysfs!Store, Sysfs!Fetch,
         Sysfs!Finish
<1>1. /\ call[c] = r /\ op[c] \in Ops /\ IsSupported(op[c])
      /\ op[c] \in Commands => Wanted(c) # Blank
  BY <1>0 DEF IInv, TypeOK, Flow, NoOp
<1>2. /\ ~BadArguments(r) /\ r.op \in {"str_get", "str_set", "uint_set"}
      /\ r.attr = Attr(c) /\ r.attr \in TextAttrs
      /\ r.op = "str_get" <=> op[c] \in Queries
      /\ op[c] \in Commands => Printed(r) \in Texts
  BY <1>1, GoodRequest DEF IInv, TypeOK, Attr, Wanted
<1> HIDE DEF r
<1>3. file \in Files /\ rc \in [Callers -> {"ok", "errno"}] /\ DOMAIN out = Callers
  BY DEF IInv, TypeOK, Flow
<1>4. PICK s \in {"ok", "errno"}, v \in {Scanned("str_get", file[r.attr]), Untouched} :
        /\ rc' = [rc EXCEPT ![c] = s] /\ out' = [out EXCEPT ![c] = v]
        /\ \/ s = "errno" /\ UNCHANGED file
           \/ r.op = "str_get" /\ UNCHANGED file
           \/ r.op # "str_get" /\ file' \in {file, [file EXCEPT ![r.attr] = Printed(r)]}
  <2>1. CASE Sysfs!Refuse(c)
    BY <1>1, <1>2, <2>1, Same DEF Sysfs!Refuse
  <2>2. CASE Sysfs!Fail(c)
    BY <2>2, Same DEF Sysfs!Fail, Sysfs!Finish
  <2>3. CASE Sysfs!Retrieve(c)
    BY <1>1, <1>2, <2>3, Same DEF Sysfs!Retrieve, Sysfs!Finish, Sysfs!TextGetters
  <2>4. CASE Sysfs!Store(c)
    BY <1>1, <1>2, <2>4, Same DEF Sysfs!Store, Sysfs!Finish, Sysfs!Setters
  <2>5. CASE Sysfs!Fetch(c)
    BY <1>1, <1>2, <2>5 DEF Sysfs!Fetch
  <2> QED BY <2>1, <2>2, <2>3, <2>4, <2>5 DEF Sysfs!Effect
<1>5. file' \in Files
  <2>1. CASE UNCHANGED file
    BY <1>3, <2>1
  <2>2. CASE r.op # "str_get" /\ file' = [file EXCEPT ![r.attr] = Printed(r)]
    <3>1. Printed(r) \in Texts
      BY <1>1, <1>2, <2>2 DEF Ops
    <3> QED BY <1>2, <1>3, <2>2, <3>1, FileUpdated
  <2> QED BY <1>4, <2>1, <2>2
<1>6. ASSUME op[c] \in Queries, rc'[c] = "ok", out'[c] = Wanted(c)
      PROVE  file[Attr(c)] = Wanted(c)
  <2>1. Wanted(c) \in Texts \cup {Blank}
    BY <1>1, EntityIs DEF IInv, TypeOK, Wanted
  <2>2. rc'[c] = s /\ out'[c] = v
    BY <1>3, <1>4
  <2>3. Wanted(c) = Scanned("str_get", file[Attr(c)])
    BY <1>2, <1>4, <1>6, <2>1, <2>2, TextsAreTexts
  <2> QED BY <2>1, <2>3, ScannedText
<1>7. op[c] \in Queries => file' = file
  BY <1>2, <1>4
<1>8. /\ rc' \in [Callers -> {"ok", "errno"}] /\ DOMAIN out' = Callers
      /\ \A d \in Callers \ {c} : rc'[d] = rc[d] /\ out'[d] = out[d]
  BY <1>3, <1>4
<1> QED BY <1>0, <1>5, <1>6, <1>7, <1>8

-----------------------------------------------------------------------------
(* The steps of the operations. *)

\* Whether the attribute of a caller reads as its value.
Now(c) == file[Attr(c)] = Wanted(c)

\* The history grows, for every operation under way, by what is the case.
LEMMA Observed ==
  ASSUME IInv, Observe, UNCHANGED entity
  PROVE  /\ held' \in [Callers -> SUBSET BOOLEAN]
         /\ \A d \in Callers : held[d] \subseteq held'[d]
         /\ \A d \in Callers :
              op'[d] # NoOp /\ IsSupported(op'[d]) /\ d \notin ended' => Now(d)' \in held'[d]
<1>1. held \in [Callers -> SUBSET BOOLEAN]
  BY DEF IInv, TypeOK
<1>2. \A d \in Callers : Now(d)' \in BOOLEAN
  BY DEF Now
<1>3. \A d \in Callers :
        held'[d] = IF op'[d] # NoOp /\ IsSupported(op'[d]) /\ d \notin ended'
                   THEN held[d] \cup {Now(d)'} ELSE held[d]
  BY DEF Observe, Now, Attr, Wanted
<1>4. \A d \in Callers : held'[d] \in SUBSET BOOLEAN /\ held[d] \subseteq held'[d]
  BY <1>1, <1>2, <1>3
<1>5. held' \in [Callers -> SUBSET BOOLEAN]
  BY <1>2, <1>1, <1>4 DEF Observe
<1> QED BY <1>3, <1>4, <1>5

\* What holds of the ended operations, whose history no longer matters, is
\* kept as long as their answers are.
LEMMA EndedKept ==
  ASSUME IInv, NEW c \in ended, UNCHANGED entity,
         op'[c] = op[c], status'[c] = status[c], answer'[c] = answer[c], held[c] \subseteq held'[c]
  PROVE  /\ IsSupported(op'[c]) /\ op'[c] \in {"presence", "psu_power", "fault"} =>
              (status'[c] = "ok" /\ answer'[c] /\ Wanted(c)' # Blank => TRUE \in held'[c])
         /\ IsSupported(op'[c]) /\ op'[c] \in Queries /\ status'[c] # "ok" =>
              (answer'[c] <=> op'[c] = "fault")
BY DEF IInv, AnswersHeld, FailsSafe, Wanted

LEMMA HelperKeeps ==
  ASSUME IInv, NEW c \in Callers, Helper(c) PROVE IInv'
<1>1. Sysfs!Effect(c) /\ UNCHANGED <<entity, op, ended, status, answer, alive>> /\ Observe
  BY DEF Helper
<1>2. /\ phase[c] = "pending" /\ phase' = [phase EXCEPT ![c] = "done"] /\ UNCHANGED call
      /\ rc' \in [Callers -> {"ok", "errno"}] /\ DOMAIN out' = Callers
      /\ \A d \in Callers \ {c} : rc'[d] = rc[d] /\ out'[d] = out[d]
      /\ file' \in Files
      /\ op[c] \in Queries =>
           /\ file' = file
           /\ rc'[c] = "ok" /\ out'[c] = Wanted(c) => Now(c)
  BY <1>1, EffectIs DEF Now
<1>3. /\ held' \in [Callers -> SUBSET BOOLEAN]
      /\ \A d \in Callers : held[d] \subseteq held'[d]
      /\ \A d \in Callers :
           op'[d] # NoOp /\ IsSupported(op'[d]) /\ d \notin ended' => Now(d)' \in held'[d]
  BY <1>1, Observed
<1>4. TypeOK'
  BY <1>1, <1>2, <1>3 DEF IInv, TypeOK
<1>5. Flow'
  BY <1>1, <1>2 DEF IInv, TypeOK, Flow, IsSupported, RequestOf, Wanted
<1>6. Watched'
  BY <1>1, <1>3, <1>5 DEF Flow, Watched, Now, IsSupported
<1>7. TextHeld'
  <2> SUFFICES ASSUME NEW d \in Callers, phase'[d] = "done", rc'[d] = "ok",
                      op'[d] \in Queries, out'[d] = Wanted(d)'
               PROVE  TRUE \in held'[d]
    BY DEF TextHeld
  <2>1. op'[d] = op[d] /\ Wanted(d)' = Wanted(d)
    BY <1>1 DEF Wanted
  <2>2. CASE d = c
    <3>1. Now(c) = TRUE
      BY <1>2, <2>1, <2>2 DEF Now
    <3>2. Now(c) \in held[c]
      BY <1>2 DEF IInv, Watched, Now
    <3> QED BY <1>3, <2>2, <3>1, <3>2
  <2>3. CASE d # c
    <3>1. phase[d] = "done" /\ rc[d] = "ok" /\ out[d] = Wanted(d)
      BY <1>2, <2>1, <2>3 DEF IInv, TypeOK
    <3> QED BY <1>3, <2>1, <3>1 DEF IInv, TextHeld
  <2> QED BY <2>2, <2>3
<1>8. AnswersHeld' /\ FailsSafe'
  BY <1>1, <1>3, EndedKept DEF AnswersHeld, FailsSafe, IInv, TypeOK, IsSupported
<1> QED BY <1>4, <1>5, <1>6, <1>7, <1>8 DEF IInv

\* A step that leaves helpers and operations alone, and maybe a file.
LEMMA DeviceKeeps ==
  ASSUME IInv, NEW a \in TextAttrs, Device(a) PROVE IInv'
<1>1. /\ UNCHANGED <<phase, call, rc, out, entity, op, ended, status, answer, alive>>
      /\ Observe
  BY DEF Device, Sysfs!Device
<1>2. file' \in Files
  <2>1. PICK v \in Content(a) : file' = [file EXCEPT ![a] = v]
    BY Same DEF Device, Sysfs!Device
  <2>2. file \in Files
    BY DEF IInv, TypeOK
  <2> DEFINE All == UNION {Content(b) : b \in Attrs}
  <2>3. a \in Attrs /\ v \in All
    BY <2>1 DEF Attrs
  <2> HIDE DEF All
  <2>4. file \in [Attrs -> All] /\ \A b \in Attrs : file[b] \in Content(b)
    BY <2>2 DEF Files, All
  <2>5. file' \in [Attrs -> All] /\ \A b \in Attrs : file'[b] \in Content(b)
    BY <2>1, <2>3, <2>4
  <2> QED BY <2>5 DEF Files, All
<1>3. /\ held' \in [Callers -> SUBSET BOOLEAN]
      /\ \A d \in Callers : held[d] \subseteq held'[d]
      /\ \A d \in Callers :
           op'[d] # NoOp /\ IsSupported(op'[d]) /\ d \notin ended' => Now(d)' \in held'[d]
  BY <1>1, Observed
<1>4. TypeOK'
  BY <1>1, <1>2, <1>3 DEF IInv, TypeOK
<1>5. Flow'
  BY <1>1 DEF IInv, Flow, IsSupported, RequestOf, Wanted
<1>6. Watched'
  BY <1>1, <1>3, <1>5 DEF Flow, Watched, Now, IsSupported
<1>7. TextHeld'
  BY <1>1, <1>3 DEF IInv, TextHeld, Wanted
<1>8. AnswersHeld' /\ FailsSafe'
  BY <1>1, <1>3, EndedKept DEF AnswersHeld, FailsSafe, IInv, TypeOK, IsSupported
<1> QED BY <1>4, <1>5, <1>6, <1>7, <1>8 DEF IInv

\* An operation that is supported calls its helper.
LEMMA StartKeeps ==
  ASSUME IInv, NEW c \in Callers, NEW o \in Ops, Start(c, o) PROVE IInv'
<1>1. /\ op[c] = NoOp /\ IsSupported(o) /\ (o \in Power => entity.text[o] # Blank)
      /\ phase' = [phase EXCEPT ![c] = "pending"] /\ call' = [call EXCEPT ![c] = RequestOf(o)]
      /\ op' = [op EXCEPT ![c] = o]
      /\ UNCHANGED <<file, rc, out, entity, ended, status, answer, alive>> /\ Observe
  BY DEF Start, Sysfs!Invoke
<1>2. o \in Commands => entity.text[o] # Blank
  <2>1. o # "warm_reset" /\ entity.text["reset"] # Blank
    BY <1>1, EntityIs DEF IsSupported, IInv, TypeOK, Num, Blank
  <2> QED BY <1>1, <2>1, EntityIs DEF Commands, IInv, TypeOK
<1>3. RequestOf(o) \in Requests
  BY <1>1, <1>2, GoodRequest DEF IInv, TypeOK
<1>4. /\ held' \in [Callers -> SUBSET BOOLEAN]
      /\ \A d \in Callers : held[d] \subseteq held'[d]
      /\ \A d \in Callers :
           op'[d] # NoOp /\ IsSupported(op'[d]) /\ d \notin ended' => Now(d)' \in held'[d]
  BY <1>1, Observed
<1>5. TypeOK'
  BY <1>1, <1>3, <1>4 DEF IInv, TypeOK
<1>6. c \notin ended /\ o # NoOp
  BY <1>1 DEF IInv, Flow, Ops, Queries, Commands, Power, NoOp
<1>7. Flow'
  <2>1. /\ rc' \in [Callers -> {"ok", "errno"}] /\ DOMAIN out' = Callers
    BY <1>1 DEF IInv, Flow
  <2>2. ASSUME NEW d \in Callers
        PROVE  /\ phase'[d] # "idle" <=> op'[d] # NoOp /\ d \notin ended'
               /\ phase'[d] # "idle" => IsSupported(op[d])' /\ call'[d] = RequestOf(op[d])'
               /\ phase'[d] # "idle" /\ op'[d] \in Commands => Wanted(d)' # Blank
               /\ d \in ended' => op'[d] # NoOp
    <3>1. CASE d = c
      BY <1>1, <1>2, <1>6, <3>1 DEF IInv, TypeOK, IsSupported, RequestOf, Wanted
    <3>2. CASE d # c
      BY <1>1, <3>2 DEF IInv, TypeOK, Flow, IsSupported, RequestOf, Wanted
    <3> QED BY <3>1, <3>2
  <2> QED BY <2>1, <2>2 DEF Flow
<1>8. Watched'
  BY <1>1, <1>4, <1>7 DEF Flow, Watched, Now, IsSupported
<1>9. TextHeld'
  BY <1>1, <1>4 DEF IInv, TypeOK, TextHeld, Wanted
<1>10. AnswersHeld' /\ FailsSafe'
  <2>1. \A d \in ended : d \in Callers /\ op'[d] = op[d]
    BY <1>1, <1>6 DEF IInv, TypeOK
  <2> QED BY <1>1, <1>4, <2>1, EndedKept DEF AnswersHeld, FailsSafe, IsSupported
<1> QED BY <1>5, <1>7, <1>8, <1>9, <1>10 DEF IInv

\* An operation that is not supported ends where it began.
LEMMA RefuseKeeps ==
  ASSUME IInv, NEW c \in Callers, NEW o \in Ops, Refuse(c, o) PROVE IInv'
<1>1. /\ op[c] = NoOp /\ ~IsSupported(o)
      /\ op' = [op EXCEPT ![c] = o] /\ ended' = ended \cup {c}
      /\ UNCHANGED <<helpers, entity, alive>> /\ Observe
  BY DEF Refuse
<1>2. PICK s \in {"ok", "EPERM", "EOPNOTSUPP"}, v \in BOOLEAN :
        /\ status' = [status EXCEPT ![c] = s] /\ answer' = [answer EXCEPT ![c] = v]
  <2>1. PICK u \in Unsupported(o) :
          status' = [status EXCEPT ![c] = u[1]] /\ answer' = [answer EXCEPT ![c] = u[2]]
    BY DEF Refuse
  <2>2. PICK s \in {"ok", "EPERM", "EOPNOTSUPP"}, v \in BOOLEAN : u = <<s, v>>
    <3>1. CASE o = "presence"
      BY <3>1 DEF Unsupported
    <3>2. CASE o = "fault"
      BY <3>2 DEF Unsupported
    <3>3. o # "psu_power"
      BY DEF Refuse
    <3>4. CASE o = "media_presence"
      BY <3>4 DEF Unsupported
    <3>5. CASE o \in {"led_on", "led_off"}
      BY <3>5 DEF Unsupported
    <3>6. CASE o \in {"reset", "warm_reset", "power_on", "power_off"}
      BY <3>6 DEF Unsupported
    <3> QED BY <3>1, <3>2, <3>3, <3>4, <3>5, <3>6 DEF Ops, Queries, Commands, Power
  <2>3. u[1] = s
    BY <2>2
  <2>4. u[2] = v
    BY <2>2
  <2> QED BY <2>1, <2>3, <2>4
<1>3. /\ held' \in [Callers -> SUBSET BOOLEAN]
      /\ \A d \in Callers : held[d] \subseteq held'[d]
      /\ \A d \in Callers :
           op'[d] # NoOp /\ IsSupported(op'[d]) /\ d \notin ended' => Now(d)' \in held'[d]
  BY <1>1, Observed
<1>4. TypeOK'
  BY <1>1, <1>2, <1>3 DEF IInv, TypeOK, helpers
<1>5. c \notin ended /\ o # NoOp /\ phase[c] = "idle"
  BY <1>1 DEF IInv, TypeOK, Flow, Ops, Queries, Commands, Power, NoOp
<1>6. Flow'
  BY <1>1, <1>5 DEF IInv, TypeOK, Flow, IsSupported, RequestOf, Wanted, helpers
<1>7. Watched'
  BY <1>1, <1>3, <1>6 DEF Flow, Watched, Now, IsSupported
<1>8. TextHeld'
  BY <1>1, <1>3, <1>5 DEF IInv, TypeOK, TextHeld, Wanted, helpers
<1>9. AnswersHeld' /\ FailsSafe'
  <2>1. \A d \in ended :
          /\ d \in Callers /\ op'[d] = op[d] /\ status'[d] = status[d]
          /\ answer'[d] = answer[d] /\ held[d] \subseteq held'[d]
    BY <1>1, <1>2, <1>3, <1>5 DEF IInv, TypeOK
  <2>2. ended' = ended \cup {c} /\ ~IsSupported(op[c])'
    BY <1>1 DEF IInv, TypeOK, IsSupported
  <2>3. ASSUME NEW d \in ended'
        PROVE  /\ IsSupported(op[d])' /\ op'[d] \in {"presence", "psu_power", "fault"} =>
                    (status'[d] = "ok" /\ answer'[d] /\ Wanted(d)' # Blank => TRUE \in held'[d])
               /\ IsSupported(op[d])' /\ op'[d] \in Queries /\ status'[d] # "ok" =>
                    (answer'[d] <=> op'[d] = "fault")
    <3>1. CASE d = c
      BY <2>2, <3>1
    <3>2. CASE d # c
      <4>1. d \in ended
        BY <2>2, <3>2
      <4> QED BY <1>1, <2>1, <4>1, EndedKept DEF IsSupported
    <3> QED BY <3>1, <3>2
  <2> QED BY <2>3 DEF AnswersHeld, FailsSafe
<1> QED BY <1>4, <1>6, <1>7, <1>8, <1>9 DEF IInv

\* An operation makes its answer of what the helper left.
LEMMA FinishKeeps ==
  ASSUME IInv, NEW c \in Callers, Finish(c) PROVE IInv'
<1>1. /\ phase[c] = "done" /\ phase' = [phase EXCEPT ![c] = "idle"]
      /\ call' = [call EXCEPT ![c] = NoRequest] /\ rc' = [rc EXCEPT ![c] = "ok"]
      /\ out' = [out EXCEPT ![c] = Untouched] /\ ended' = ended \cup {c}
      /\ status' = [status EXCEPT ![c] = rc[c]] /\ answer' = [answer EXCEPT ![c] = AnswerOf(c)]
      /\ UNCHANGED <<file, entity, op, alive>> /\ Observe
  BY Same DEF Finish, Sysfs!Return
<1>2. AnswerOf(c) \in BOOLEAN
  BY DEF AnswerOf
<1>3. /\ held' \in [Callers -> SUBSET BOOLEAN]
      /\ \A d \in Callers : held[d] \subseteq held'[d]
      /\ \A d \in Callers :
           op'[d] # NoOp /\ IsSupported(op'[d]) /\ d \notin ended' => Now(d)' \in held'[d]
  BY <1>1, Observed
<1>4. TypeOK'
  <2>1. NoRequest \in Requests
    BY DEF NoRequest, Requests
  <2> QED BY <1>1, <1>2, <1>3, <2>1 DEF IInv, TypeOK, Flow
<1>5. op[c] # NoOp /\ op[c] \in Ops /\ c \notin ended
  BY <1>1 DEF IInv, TypeOK, Flow
<1>6. Flow'
  BY <1>1, <1>5 DEF IInv, TypeOK, Flow, IsSupported, RequestOf, Wanted
<1>7. Watched'
  BY <1>1, <1>3, <1>6 DEF Flow, Watched, Now, IsSupported
<1>8. TextHeld'
  BY <1>1, <1>3 DEF IInv, TypeOK, Flow, TextHeld, Wanted
<1>9. \A d \in ended :
        /\ d \in Callers /\ op'[d] = op[d] /\ status'[d] = status[d]
        /\ answer'[d] = answer[d] /\ held[d] \subseteq held'[d]
  BY <1>1, <1>3, <1>5 DEF IInv, TypeOK
<1>10. AnswersHeld'
  <2>1. ASSUME op[c] \in {"presence", "psu_power", "fault"}, rc[c] = "ok", AnswerOf(c),
               Wanted(c) # Blank
        PROVE  TRUE \in held'[c]
    <3>1. out[c] = Wanted(c)
      BY <2>1 DEF AnswerOf, Found
    <3>2. TRUE \in held[c]
      BY <1>1, <2>1, <3>1 DEF IInv, TextHeld, Queries
    <3> QED BY <1>3, <3>2
  <2>2. status'[c] = rc[c] /\ answer'[c] = AnswerOf(c) /\ op'[c] = op[c]
        /\ Wanted(c)' = Wanted(c)
    BY <1>1 DEF IInv, TypeOK, Wanted
  <2> SUFFICES ASSUME NEW d \in ended', IsSupported(op[d])',
                      op'[d] \in {"presence", "psu_power", "fault"},
                      status'[d] = "ok", answer'[d], Wanted(d)' # Blank
               PROVE  TRUE \in held'[d]
    BY DEF AnswersHeld
  <2>3. CASE d = c
    BY <2>1, <2>2, <2>3
  <2>4. CASE d # c
    <3>1. d \in ended /\ IsSupported(op'[d])
      BY <1>1, <2>4 DEF IsSupported
    <3> QED BY <1>1, <1>9, <3>1, EndedKept
  <2> QED BY <2>3, <2>4
<1>11. FailsSafe'
  <2>1. rc[c] # "ok" /\ op[c] \in Queries => (AnswerOf(c) <=> op[c] = "fault")
    BY DEF AnswerOf, Queries
  <2>2. status'[c] = rc[c] /\ answer'[c] = AnswerOf(c) /\ op'[c] = op[c]
    BY <1>1 DEF IInv, TypeOK
  <2> SUFFICES ASSUME NEW d \in ended', IsSupported(op[d])', op'[d] \in Queries,
                      status'[d] # "ok"
               PROVE  answer'[d] <=> op'[d] = "fault"
    BY DEF FailsSafe
  <2>3. CASE d = c
    BY <2>1, <2>2, <2>3
  <2>4. CASE d # c
    <3>1. d \in ended /\ IsSupported(op'[d])
      BY <1>1, <2>4 DEF IsSupported
    <3> QED BY <1>1, <1>9, <3>1, EndedKept
  <2> QED BY <2>3, <2>4
<1> QED BY <1>4, <1>6, <1>7, <1>8, <1>10, <1>11 DEF IInv

LEMMA LeaveKeeps ==
  ASSUME IInv, NEW c \in Callers, Leave(c) PROVE IInv'
<1>1. /\ c \in ended /\ ended' = ended \ {c} /\ op' = [op EXCEPT ![c] = NoOp]
      /\ status' = [status EXCEPT ![c] = "ok"] /\ answer' = [answer EXCEPT ![c] = FALSE]
      /\ held' = [held EXCEPT ![c] = {}] /\ UNCHANGED <<helpers, entity, alive>>
  BY DEF Leave
<1>2. TypeOK'
  BY <1>1 DEF IInv, TypeOK, helpers
<1>3. phase[c] = "idle"
  BY <1>1 DEF IInv, Flow
<1>4. Flow'
  BY <1>1, <1>3 DEF IInv, TypeOK, Flow, IsSupported, RequestOf, Wanted, helpers
<1>5. \A d \in Callers \ {c} :
        /\ op'[d] = op[d] /\ status'[d] = status[d] /\ answer'[d] = answer[d]
        /\ held'[d] = held[d] /\ Wanted(d)' = Wanted(d) /\ Attr(d)' = Attr(d)
  BY <1>1 DEF IInv, TypeOK, Wanted, Attr
<1>6. Watched'
  BY <1>1, <1>3, <1>5 DEF IInv, Watched, helpers
<1>7. TextHeld'
  BY <1>1, <1>3, <1>5 DEF IInv, TextHeld, helpers
<1>8. AnswersHeld' /\ FailsSafe'
  <2>1. ended' \subseteq ended \ {c} /\ ended \subseteq Callers /\ entity' = entity
    BY <1>1 DEF IInv, TypeOK
  <2> QED BY <1>5, <2>1 DEF AnswersHeld, FailsSafe, IInv, IsSupported
<1> QED BY <1>2, <1>4, <1>6, <1>7, <1>8 DEF IInv

-----------------------------------------------------------------------------
LEMMA InitKeeps == Init => IInv
<1> SUFFICES ASSUME Init PROVE IInv
  OBVIOUS
<1>1. /\ file \in Files /\ phase = [c \in Callers |-> "idle"]
      /\ call = [c \in Callers |-> NoRequest] /\ rc = [c \in Callers |-> "ok"]
      /\ out = [c \in Callers |-> Untouched]
  BY Same DEF Init, Sysfs!Init
<1>2. NoRequest \in Requests
  BY DEF NoRequest, Requests
<1> QED BY <1>1, <1>2 DEF Init, IInv, TypeOK, Flow, Watched, TextHeld, AnswersHeld, FailsSafe

\* Spec => []IInv: helpers are called by supported operations only, with good
\* requests, and the history explains what a query found.
THEOREM Invariant == Spec => []IInv
<1>1. IInv /\ [Next]_vars => IInv'
  <2> SUFFICES ASSUME IInv, [Next]_vars PROVE IInv'
    OBVIOUS
  <2>1. CASE UNCHANGED vars
    BY <2>1 DEF vars, helpers, IInv, TypeOK, Flow, Watched, TextHeld, AnswersHeld, FailsSafe,
                IsSupported, RequestOf, Wanted, Attr
  <2>2. ASSUME NEW c \in Callers, NEW o \in Ops, Abort(c, o) PROVE IInv'
    BY <2>2 DEF Abort, helpers, IInv, TypeOK, Flow, Watched, TextHeld, AnswersHeld, FailsSafe,
                IsSupported, RequestOf, Wanted, Attr
  <2>3. ASSUME NEW c \in Callers, NEW o \in Ops, Refuse(c, o) \/ Start(c, o) PROVE IInv'
    BY <2>3, RefuseKeeps, StartKeeps
  <2>4. ASSUME NEW c \in Callers, Step(c) PROVE IInv'
    BY <2>4, HelperKeeps, FinishKeeps, LeaveKeeps DEF Step
  <2>5. ASSUME NEW a \in TextAttrs, Device(a) PROVE IInv'
    BY <2>5, DeviceKeeps
  <2> QED BY <2>1, <2>2, <2>3, <2>4, <2>5 DEF Next
<1> QED BY <1>1, InitKeeps, PTL DEF Spec

\* Every variable of the operations keeps its type, for any entity, attributes
\* and threads: whatever a helper finds, the operation ends with one of its
\* statuses and its answer is a truth value.
THEOREM TypesHold == Spec => []TypeOK
<1>1. IInv => TypeOK
  BY DEF IInv
<1> QED BY Invariant, <1>1, PTL

\* AnswersHeld: over any register, with any number of threads, no query of an
\* entity answers what was not the case at some time while it ran.
THEOREM AnswersAreTrue == Spec => [](TypeOK /\ AnswersHeld)
<1>1. IInv => TypeOK /\ AnswersHeld
  BY DEF IInv
<1> QED BY <1>1, Invariant, PTL

\* FailsSafe: a query that fails says faulty, without power, not there.
THEOREM FailuresAnswerSafely == Spec => []FailsSafe
<1>1. IInv => FailsSafe
  BY DEF IInv
<1> QED BY <1>1, Invariant, PTL
=============================================================================

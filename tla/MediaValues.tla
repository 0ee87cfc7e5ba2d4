----------------------------- MODULE MediaValues -----------------------------
(***************************************************************************)
(* The getters of sdi_media.c that read the identification and the         *)
(* measurements of a transceiver, over the transfers of MediaTransfer, and *)
(* the transfers that other code asks for.  A getter reads the type of the *)
(* module, looks up a range for the type, reads it, and makes its value of *)
(* the bytes; one getter reads two ranges.  Calls share no memory, so      *)
(* there is one caller; the module may be exchanged between any two        *)
(* accesses, and any access may fail.                                      *)
(***************************************************************************)
EXTENDS MediaTransfer, MediaTables

CONSTANTS
  Requests,     \* calls of the getters and stubs: [op, media, arg, n]
  RawRequests   \* calls of info_get and info_set: [op, buf, range]

ASSUME MediaValuesAssumption ==
  /\ Requests \subseteq [op : Getters \cup DOMAIN Stubs, media : BOOLEAN, arg : Nat, n : Nat]
  /\ RawRequests \subseteq [op : {"info_get", "info_set"}, buf : BOOLEAN, range : Ranges]
  /\ \A r \in Requests :    \* the index is one of the table, and the code has none
       /\ r.op = "parameter" => r.arg \in DOMAIN Info.sfp
       /\ r.op = "vendor"    => r.arg \in DOMAIN VendorAddr.sfp
       /\ r.op = "threshold" => r.arg \in DOMAIN Thresholds.sfp
       /\ r.op = "code"      => r.arg = 0
  /\ \A r \in Requests : \A t \in Types \ {"other"} :
       r.op \in Getters /\ Verdict(r.op, r.arg, r.n, t) = "ok" =>
         \A i \in 1 .. Len(Reads(r.op, r.arg, r.n, t)) : Reads(r.op, r.arg, r.n, t)[i] \in Ranges

VARIABLES
  pc,        \* "idle", "identify", "next", "transfer" or "done"
  call,      \* the request
  id,        \* the type that was identified
  step,      \* ranges that were read
  rc,        \* the status the call will return
  out,       \* the caller's variable: see Outs
  read,      \* history: <<type, page, address>> of the bytes in the value
  swapped    \* history: the module was exchanged since it was identified

control == <<pc, call, id, step, rc, out, read, swapped>>
vars == <<module, transfer, control>>

\* Left alone, cleared, a part of the flags, the bytes read, or these followed
\* by bytes that happen to lie behind the buffer.
Outs == {"kept", "cleared", "part", "read", "stray"}

NoCall == [op |-> "speed", media |-> FALSE, arg |-> 0, n |-> 0]

Init ==
  /\ module \in Types \cup {"absent"}
  /\ TransferInit
  /\ pc = "idle" /\ call = NoCall /\ id = "other" /\ step = 0
  /\ rc = "ok" /\ out = "kept" /\ read = {} /\ swapped = FALSE

-----------------------------------------------------------------------------
Goto(from, to) == pc = from /\ pc' = to

\* Three getters clear their output before they test the type of the resource.
Entered(op) == IF op \in {"vendor", "code", "features"} THEN "cleared" ELSE "kept"

Call(r) ==
  /\ call' = r
  /\ \/ /\ r.op \in Getters
        /\ out' = Entered(r.op)
        /\ \/ r.media /\ Goto("idle", "identify") /\ UNCHANGED rc
           \/ ~r.media /\ Goto("idle", "done") /\ rc' = "EPERM"
     \/ /\ r.op \in DOMAIN Stubs
        /\ Goto("idle", "done")
        /\ rc' = Stubs[r.op]
        /\ out' = IF r.op = "is_dell_qualified" THEN "read" ELSE out
  /\ UNCHANGED <<module, transfer, id, step, read, swapped>>

\* Bug: the switch goes on after an error.
IdentifyFallsThrough ==
  /\ pc = "identify"
  /\ module # "absent"
  /\ id' = module
  /\ rc' = Verdict(call.op, call.arg, call.n, id')
  /\ pc' = "next"
  /\ swapped' = FALSE
  /\ UNCHANGED <<module, transfer, call, step, out, read>>

\* sdi_media_identifier_get and the switch over the type.
Identify ==
  /\ \/ /\ Goto("identify", "done")
        /\ rc' = "error"
        /\ UNCHANGED id
     \/ /\ pc = "identify"
        /\ module # "absent"
        /\ id' = module
        /\ rc' = Verdict(call.op, call.arg, call.n, id')
        /\ pc' = IF rc' = "ok" THEN "next" ELSE "done"
  /\ swapped' = FALSE
  /\ UNCHANGED <<module, transfer, call, step, out, read>>

Plan == Reads(call.op, call.arg, call.n, id)

\* The next range, if there is one left.
BeginRange ==
  /\ Goto("next", "transfer")
  /\ step < Len(Plan)
  /\ Begin("get", Plan[step + 1], TRUE)
  /\ UNCHANGED <<module, call, id, step, rc, out, read, swapped>>

Transferring ==
  /\ pc = "transfer"
  /\ TransferStep
  /\ UNCHANGED <<module, control>>

\* Bug: the value is made whether the transfer succeeded or not.
TransferredUntested ==
  /\ Goto("transfer", IF status = "ok" THEN "next" ELSE "done")
  /\ Finish
  /\ step' = step + 1
  /\ rc' = status
  /\ out' = IF call.op = "features" THEN "part" ELSE "read"
  /\ read' = read \cup {<<t, range.page, b[2]>> : t \in sources, b \in bytes}
  /\ UNCHANGED <<module, call, id, swapped>>

\* What the getter makes of a range that was read.
Transferred ==
  /\ Finish
  /\ \/ /\ Goto("transfer", "next")
        /\ status = "ok"
        /\ step' = step + 1
        /\ read' = read \cup {<<t, range.page, b[2]>> : t \in sources, b \in bytes}
        /\ out' \in IF call.op \in Floats THEN {"read", "stray"}
                    ELSE IF call.op = "features" /\ step = 0 THEN {"cleared", "part"}
                    ELSE {"read"}
        /\ UNCHANGED rc
     \/ /\ Goto("transfer", "done")
        /\ status # "ok"
        /\ rc' = status
        /\ UNCHANGED <<step, read, out>>
  /\ UNCHANGED <<module, call, id, swapped>>

\* The value is complete.  The speed follows from the type alone.
Value ==
  /\ Goto("next", "done")
  /\ step = Len(Plan)
  /\ out' = IF call.op = "speed" THEN "read" ELSE out
  /\ UNCHANGED <<module, transfer, call, id, step, rc, read, swapped>>

Return ==
  /\ Goto("done", "idle")
  /\ call' = NoCall /\ id' = "other" /\ step' = 0
  /\ rc' = "ok" /\ out' = "kept" /\ read' = {} /\ swapped' = FALSE
  /\ UNCHANGED <<module, transfer>>

\* info_get and info_set.
RawCall(r) ==
  /\ Goto("idle", "raw")
  /\ Begin(IF r.op = "info_get" THEN "get" ELSE "set", r.range, r.buf)
  /\ UNCHANGED <<module, call, id, step, rc, out, read, swapped>>

RawStep ==
  /\ pc = "raw"
  /\ TransferStep
  /\ UNCHANGED <<module, control>>

RawReturn ==
  /\ Goto("raw", "idle")
  /\ Finish
  /\ UNCHANGED <<module, call, id, step, rc, out, read, swapped>>

\* A module is pulled, plugged or exchanged.
HotSwap ==
  /\ module' \in Types \cup {"absent"}
  /\ swapped' = (swapped \/ pc \in {"next", "transfer"})
  /\ UNCHANGED <<transfer, pc, call, id, step, rc, out, read>>

-----------------------------------------------------------------------------
Step == Identify \/ BeginRange \/ Transferring \/ Transferred \/ Value \/ Return
          \/ RawStep \/ RawReturn

Next ==
  \/ \E r \in Requests : Call(r)
  \/ \E r \in RawRequests : RawCall(r)
  \/ Step
  \/ HotSwap

\* A call is straight-line code and loops, and every access is answered.
Spec == Init /\ [][Next]_vars /\ WF_vars(Step)

-----------------------------------------------------------------------------
(* Properties. *)

\* Types; a transfer is under way in two states of the caller only, and a call
\* that met an error accesses nothing more.
TypeOK ==
  /\ module \in Types \cup {"absent"}
  /\ TransferTypeOK
  /\ sources \subseteq Types
  /\ pc \in {"idle", "identify", "next", "transfer", "raw", "done"}
  /\ pc \in {"transfer", "raw"} <=> dir # "none"
  /\ call \in Requests \cup {NoCall}
  /\ id \in Types
  /\ step \in Nat
  /\ rc \in {"ok", "EPERM", "EINVAL", "EOPNOTSUPP", "error", "unimplemented"}
  /\ pc # "done" => rc = "ok"
  /\ out \in Outs
  /\ read \subseteq Types \X Nat \X Nat
  /\ swapped \in BOOLEAN

\* A getter that fails leaves the caller's variable as it was, or cleared if it
\* cleared it: no value of bytes that could not be read.  The exception is the
\* getter of two ranges, which leaves the flags of the first.
FailureKeepsOutput ==
  pc = "done" /\ rc # "ok" /\ call.op \in Getters =>
    \/ out = Entered(call.op) /\ read = {}
    \/ call.op = "features" /\ step = 1

\* Requests for the same value: the channel counts on a QSFP module only.
SameValue(r, s, t) ==
  /\ r.op = s.op /\ r.arg = s.arg
  /\ r.op = "channel_monitor" /\ t # "sfp" => r.n = s.n

\* The bytes that the value of a getter is to be made of.
Cells ==
  [r \in {q \in Requests : q.op \in Getters} |-> [t \in Types |->
     IF Verdict(r.op, r.arg, r.n, t) # "ok" THEN {}
     ELSE LET reads == Reads(r.op, r.arg, r.n, t) IN
            UNION {{<<t, reads[i].page, reads[i].addr + k>> : k \in 0 .. reads[i].size - 1} :
                     i \in 1 .. Len(reads)}]]

\* Some bytes start at an address that the header lists for their page, and
\* stop before the next.
InOneField(cells, t) ==
  cells # {} =>
    \E p \in 0 .. 3 : \E a \in Listed(Family(t), p) :
      /\ <<t, p, a>> \in cells
      /\ \A c \in cells :
           /\ c[1] = t /\ c[2] = p /\ c[3] >= a
           /\ \A next \in Listed(Family(t), p) : next > a => next > c[3]

\* A value is made of all its bytes and of no byte of another value, from the
\* one module that was identified, unless that was exchanged before the end,
\* and it is where sdi_media_utils.h lists a value.  Not so for the flags of
\* features, which are bits of other values; for the channel monitors of an
\* SFP module, which the header lists in page 2 and the code reads in page 0;
\* and for a monitor that is not known, for which an SFP module shows another.
ValuesFromTheirOwnBytes ==
  pc = "done" /\ rc = "ok" /\ call.op \in Getters /\ ~swapped =>
    /\ read = Cells[call][id]
    /\ call.op # "features" /\ ~(id = "sfp" /\ call.op = "channel_monitor") =>
         InOneField(read, id)
    /\ call.op # "features" =>
         \A r \in {q \in Requests : q.op \in Getters \ {"features"}} :
           ~SameValue(r, call, id)
           /\ ({r.op, call.op} = {"channel_monitor"} => {r.arg, call.arg} \subseteq 1 .. 3)
           => read \cap Cells[r][id] = {}
=============================================================================

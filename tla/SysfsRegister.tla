---------------------------- MODULE SysfsRegister ----------------------------
(***************************************************************************)
(* What the sysfs helpers promise their callers: an attribute is a         *)
(* register that its driver may change at any time, and a call takes       *)
(* effect on it at one moment between its start and its return.            *)
(*                                                                         *)
(* The promise is weak on purpose, because utils/sdi_sysfs_utils.c ignores *)
(* the results of fscanf, fprintf and fclose: a getter may succeed without *)
(* a value and a setter may succeed without a change.  A call that fails   *)
(* changes nothing, except that a failed raw read may have filled a part   *)
(* of the buffer.                                                          *)
(***************************************************************************)
EXTENDS SysfsData

CONSTANT Callers   \* threads of the process that uses the library

VARIABLES
  file,    \* content of each attribute
  phase,   \* "idle", "pending" (in a call) or "done" (about to return)
  call,    \* the request each caller is in
  rc,      \* the status it will return
  out      \* what it left in the caller's variable

vars == <<file, phase, call, rc, out>>

Statuses == {"ok", "EINVAL", "EIO", "errno", "seek"}

Init ==
  /\ file \in Files
  /\ phase = [c \in Callers |-> "idle"]
  /\ call = [c \in Callers |-> NoRequest]
  /\ rc = [c \in Callers |-> "ok"]
  /\ out = [c \in Callers |-> Untouched]

\* A call starts.
Invoke(c, r) ==
  /\ phase[c] = "idle"
  /\ phase' = [phase EXCEPT ![c] = "pending"]
  /\ call' = [call EXCEPT ![c] = r]
  /\ UNCHANGED <<file, rc, out>>

\* The caller's pending call ends with status s and result v.
Finish(c, s, v) ==
  /\ phase[c] = "pending"
  /\ phase' = [phase EXCEPT ![c] = "done"]
  /\ rc' = [rc EXCEPT ![c] = s]
  /\ out' = [out EXCEPT ![c] = v]
  /\ UNCHANGED call

\* Invalid arguments, and only they, are refused before anything is tried.
Refuse(c) ==
  /\ BadArguments(call[c])
  /\ Finish(c, "EINVAL", Untouched)
  /\ UNCHANGED file

\* The file cannot be reached or opened.
Fail(c) ==
  /\ ~BadArguments(call[c])
  /\ Finish(c, "errno", Untouched)
  /\ UNCHANGED file

\* A text getter: the converted content of this moment, or nothing at all.
Retrieve(c) ==
  /\ ~BadArguments(call[c])
  /\ call[c].op \in TextGetters
  /\ \E v \in {Scanned(call[c].op, file[call[c].attr]), Untouched} : Finish(c, "ok", v)
  /\ UNCHANGED file

\* A setter: the driver takes the printed value, or refuses it unnoticed.
Store(c) ==
  /\ ~BadArguments(call[c])
  /\ call[c].op \in Setters
  /\ Finish(c, "ok", Untouched)
  /\ file' \in {file, [file EXCEPT ![call[c].attr] = Printed(call[c])]}

\* A raw getter: the length, or as many bytes as were asked for, or a failure.
Fetch(c) ==
  /\ ~BadArguments(call[c])
  /\ LET content == file[call[c].attr] IN
     \/ /\ call[c].op = "size_get"
        /\ content # Absent
        /\ \/ \E s \in {"ok", "seek"} : Finish(c, s, Num(content.val))
           \/ Finish(c, "seek", Untouched)
     \/ /\ call[c].op = "size_get"
        /\ content = Absent
        /\ Finish(c, "seek", Untouched)
     \/ /\ call[c].op = "data_get"
        /\ \/ /\ content # Absent
              /\ content.val >= call[c].arg.val
              /\ Finish(c, "ok", Raw(call[c].arg.val))
           \/ Finish(c, "EIO", Partial)
  /\ UNCHANGED file

Return(c) ==
  /\ phase[c] = "done"
  /\ phase' = [phase EXCEPT ![c] = "idle"]
  /\ call' = [call EXCEPT ![c] = NoRequest]
  /\ rc' = [rc EXCEPT ![c] = "ok"]
  /\ out' = [out EXCEPT ![c] = Untouched]
  /\ UNCHANGED file

\* The driver changes an attribute, or the device comes and goes.
Device(a) ==
  /\ file' \in {[file EXCEPT ![a] = content] : content \in Content(a)}
  /\ UNCHANGED <<phase, call, rc, out>>

Effect(c) == Refuse(c) \/ Fail(c) \/ Retrieve(c) \/ Store(c) \/ Fetch(c)

Next ==
  \/ \E c \in Callers : (\E r \in Requests : Invoke(c, r)) \/ Effect(c) \/ Return(c)
  \/ \E a \in Attrs : Device(a)

Spec == Init /\ [][Next]_vars /\ \A c \in Callers : WF_vars(Effect(c)) /\ WF_vars(Return(c))
=============================================================================

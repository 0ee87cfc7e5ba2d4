----------------------------- MODULE SysfsAccess -----------------------------
(***************************************************************************)
(* The sysfs helpers of utils/sdi_sysfs_utils.c, one step per system call. *)
(*                                                                         *)
(*   check     the arguments are tested for NULL                           *)
(*   access    access(F_OK); the raw getters skip it                       *)
(*   open      fopen; a FILE may be refused when MaxFds are open           *)
(*   transfer  fscanf, fseek/ftell, fread or fprintf                       *)
(*   close     fclose; a setter's text reaches the driver here, because    *)
(*             fprintf only fills the buffer of the FILE                   *)
(*   done      the status is about to be returned                          *)
(*                                                                         *)
(* The library takes no lock: calls of several threads, and changes made   *)
(* by the driver or by a hot swap, fall between any two of these steps.    *)
(***************************************************************************)
EXTENDS SysfsData, FiniteSets

CONSTANTS
  Callers,      \* threads of the process that uses the library
  Readable,     \* attributes the process may open for reading
  Writable,     \* attributes the process may open for writing
  MaxFds        \* files the process may hold open

ASSUME SysfsAccessAssumption ==
  /\ IsFiniteSet(Callers)
  /\ MaxFds \in Nat

VARIABLES
  file,      \* content of each attribute
  pc,        \* the next step of each caller
  call,      \* the request each caller is in
  rc,        \* the status it will return
  out,       \* what it left in the caller's variable
  streams    \* the callers that hold an open FILE

vars == <<file, pc, call, rc, out, streams>>

Steps == {"idle", "check", "access", "open", "transfer", "close", "done"}
Statuses == {"ok", "EINVAL", "EIO", "errno", "seek"}

Init ==
  /\ file \in Files
  /\ pc = [c \in Callers |-> "idle"]
  /\ call = [c \in Callers |-> NoRequest]
  /\ rc = [c \in Callers |-> "ok"]
  /\ out = [c \in Callers |-> Untouched]
  /\ streams = {}

-----------------------------------------------------------------------------
Op(c)   == call[c].op
Attr(c) == call[c].attr

Goto(c, from, to) == pc[c] = from /\ pc' = [pc EXCEPT ![c] = to]

\* Bug: the variable is cleared before the file is known to be there.
GiveUpBlank(c, from, status) ==
  /\ Goto(c, from, "done")
  /\ rc' = [rc EXCEPT ![c] = status]
  /\ out' = [out EXCEPT ![c] = Blank]
  /\ UNCHANGED <<file, call, streams>>

\* The call ends without success and without an open FILE.
GiveUp(c, from, status) ==
  /\ Goto(c, from, "done")
  /\ rc' = [rc EXCEPT ![c] = status]
  /\ UNCHANGED <<file, call, out, streams>>

Call(c, r) ==
  /\ Goto(c, "idle", "check")
  /\ call' = [call EXCEPT ![c] = r]
  /\ UNCHANGED <<file, rc, out, streams>>

\* Bug: no test of the arguments.
CheckNothing(c) ==
  /\ Goto(c, "check", IF Op(c) \in RawGetters THEN "open" ELSE "access")
  /\ UNCHANGED <<file, call, rc, out, streams>>

CheckArguments(c) ==
  \/ BadArguments(call[c]) /\ GiveUp(c, "check", "EINVAL")
  \/ /\ ~BadArguments(call[c])
     /\ Goto(c, "check", IF Op(c) \in RawGetters THEN "open" ELSE "access")
     /\ UNCHANGED <<file, call, rc, out, streams>>

Access(c) ==
  /\ pc[c] = "access"
  /\ \/ file[Attr(c)] = Absent /\ GiveUp(c, "access", "errno")
     \/ /\ file[Attr(c)] # Absent
        /\ Goto(c, "access", "open")
        /\ UNCHANGED <<file, call, rc, out, streams>>

CanOpen(c) ==
  /\ file[Attr(c)] # Absent
  /\ Attr(c) \in (IF Op(c) \in Setters THEN Writable ELSE Readable)
  /\ Cardinality(streams) < MaxFds

Open(c) ==
  /\ pc[c] = "open"
  /\ \/ ~CanOpen(c) /\ GiveUp(c, "open", "errno")
     \/ /\ CanOpen(c)
        /\ Goto(c, "open", "transfer")
        /\ streams' = streams \cup {c}
        /\ UNCHANGED <<file, call, rc, out>>

\* fscanf: its result is not looked at, so a content without the asked
\* number, and a read that fails, leave the variable as it was.
Scan(c) ==
  /\ Op(c) \in TextGetters
  /\ \E v \in {Scanned(Op(c), file[Attr(c)]), Untouched} : out' = [out EXCEPT ![c] = v]
  /\ UNCHANGED rc

\* fseek to the end, ftell, fseek to the start.  A second fseek that fails
\* comes after the size is assigned.
Measure(c) ==
  /\ Op(c) = "size_get"
  /\ \/ /\ file[Attr(c)] # Absent
        /\ out' = [out EXCEPT ![c] = Num(file[Attr(c)].val)]
        /\ \E s \in {"ok", "seek"} : rc' = [rc EXCEPT ![c] = s]
     \/ /\ rc' = [rc EXCEPT ![c] = "seek"]
        /\ UNCHANGED out

\* Bug: fread may return fewer bytes than asked for.
ReadDataShort(c) ==
  /\ Op(c) = "data_get"
  /\ \E v \in {Partial, Raw(call[c].arg.val)} : out' = [out EXCEPT ![c] = v]
  /\ UNCHANGED rc

\* fread of the asked number of bytes; fewer is an I/O error.
ReadData(c) ==
  /\ Op(c) = "data_get"
  /\ \/ /\ file[Attr(c)] # Absent
        /\ file[Attr(c)].val >= call[c].arg.val
        /\ out' = [out EXCEPT ![c] = Raw(call[c].arg.val)]
        /\ UNCHANGED rc
     \/ /\ out' = [out EXCEPT ![c] = Partial]
        /\ rc' = [rc EXCEPT ![c] = "EIO"]

\* fprintf into the buffer of the FILE.
FillBuffer(c) == Op(c) \in Setters /\ UNCHANGED <<rc, out>>

\* Bug: the call returns at an error, with the FILE open.
TransferReturnsEarly(c) ==
  /\ pc[c] = "transfer"
  /\ Scan(c) \/ Measure(c) \/ ReadData(c) \/ FillBuffer(c)
  /\ Goto(c, "transfer", IF rc'[c] = "ok" THEN "close" ELSE "done")
  /\ UNCHANGED <<file, call, streams>>

Transfer(c) ==
  /\ Goto(c, "transfer", "close")
  /\ Scan(c) \/ Measure(c) \/ ReadData(c) \/ FillBuffer(c)
  /\ UNCHANGED <<file, call, streams>>

\* fclose flushes a setter's text; its result is not looked at, so a write
\* that the driver refuses goes unnoticed.
Close(c) ==
  /\ Goto(c, "close", "done")
  /\ streams' = streams \ {c}
  /\ \/ /\ Op(c) \in Setters
        /\ file[Attr(c)] # Absent
        /\ file' = [file EXCEPT ![Attr(c)] = Printed(call[c])]
     \/ UNCHANGED file
  /\ UNCHANGED <<call, rc, out>>

\* The call returns; its arguments and results leave the scope.
Return(c) ==
  /\ Goto(c, "done", "idle")
  /\ call' = [call EXCEPT ![c] = NoRequest]
  /\ rc' = [rc EXCEPT ![c] = "ok"]
  /\ out' = [out EXCEPT ![c] = Untouched]
  /\ UNCHANGED <<file, streams>>

\* The driver changes an attribute, or the device comes and goes.
Device(a) ==
  /\ \E content \in Content(a) : file' = [file EXCEPT ![a] = content]
  /\ UNCHANGED <<pc, call, rc, out, streams>>

-----------------------------------------------------------------------------
Step(c) ==
  CheckArguments(c) \/ Access(c) \/ Open(c) \/ Transfer(c) \/ Close(c) \/ Return(c)

Next ==
  \/ \E c \in Callers : (\E r \in Requests : Call(c, r)) \/ Step(c)
  \/ \E a \in Attrs : Device(a)

\* A helper is straight-line code: once called, it runs to its return.
Spec == Init /\ [][Next]_vars /\ \A c \in Callers : WF_vars(Step(c))

-----------------------------------------------------------------------------
(* Properties. *)

\* Every variable keeps its type; a pending request has valid arguments once
\* the test at the head of the helper is passed.
TypeOK ==
  /\ file \in Files
  /\ pc \in [Callers -> Steps]
  /\ call \in [Callers -> Requests]
  /\ rc \in [Callers -> Statuses]
  /\ streams \in SUBSET Callers
  /\ \A c \in Callers :
       pc[c] \in {"access", "open", "transfer", "close"} => ~BadArguments(call[c])

\* A FILE is open exactly while its caller is between fopen and fclose, on
\* every path through the seven helpers, so no call leaks a descriptor.
StreamsClosed == streams = {c \in Callers : pc[c] \in {"transfer", "close"}}

\* The helpers implement the register of SysfsRegister.  A getter takes
\* effect when it transfers, a setter when it closes, a failure at the step
\* that fails.  With fairness: every call returns.
Phase(c) ==
  IF pc[c] = "idle" THEN "idle"
  ELSE IF pc[c] = "done" \/ (pc[c] = "close" /\ Op(c) \notin Setters)
       THEN "done" ELSE "pending"

Register == INSTANCE SysfsRegister WITH phase <- [c \in Callers |-> Phase(c)]

ImplementsRegister == Register!Spec

\* The effect on the attribute and on the caller's variable of a call that
\* reports an error: no attribute changes, and a text getter or a setter
\* leaves the variable alone (all early returns of sdi_sysfs_utils.c).
FailureHasNoEffect ==
  [][\A c \in Callers :
       pc[c] # "done" /\ pc'[c] = "done" /\ rc'[c] # "ok" =>
         /\ UNCHANGED file
         /\ Op(c) \notin RawGetters => out'[c] = Untouched]_vars
=============================================================================

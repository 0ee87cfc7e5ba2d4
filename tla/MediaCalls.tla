------------------------------ MODULE MediaCalls ------------------------------
(***************************************************************************)
(* What the transceiver calls of sdi_media.c have in common: a call names  *)
(* a media resource, identifies the type of module in its cage, accesses   *)
(* the module step by step and returns a status, the getters also a value. *)
(* Each of MediaControl and MediaStatus is a system of such calls.         *)
(***************************************************************************)
EXTENDS Integers

CONSTANTS
  Callers,      \* threads of the process
  Modules,      \* module numbers of the media resources
  NotMedia,     \* a resource that is not a media resource
  Channels      \* channel numbers that callers pass; they are not checked

ASSUME MediaCallsAssumption ==
  /\ NotMedia \notin Modules
  /\ Channels \subseteq Nat

VARIABLES
  module,   \* the transceiver in each cage
  pc,       \* the next access of each caller
  call,     \* its request
  id,       \* the type of module it identified
  rc,       \* the status it will return
  status,   \* what a getter gives back
  swapped   \* history: callers whose module was replaced under them

Types == {"qsfp", "sfp", "other"}    \* "qsfp" stands for its three identifiers

Mod(c) == call[c].module
Goto(c, from, to) == pc[c] = from /\ pc' = [pc EXCEPT ![c] = to]
=============================================================================

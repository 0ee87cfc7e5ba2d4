--------------------------- MODULE MCMediaControl ---------------------------
(* Small instances of MediaControl: c1 sets both bits of tx_control and the *)
(* two CDR bits of channel 1, which c2 reads; or c1 and c2 set a bit of     *)
(* tx_control each.                                                         *)
EXTENDS MediaControl

CONSTANTS c1, c2, m1

Set(channel, op) ==
  {r \in Requests : r.module = m1 /\ r.op = op /\ r.channel = channel}

MCOneWriter ==
  [c \in Callers |->
     IF c = c1 THEN Set(0, "tx_control") \cup Set(1, "tx_control") \cup Set(1, "cdr_set")
     ELSE {r \in Requests : r.op \notin Controls /\ r.channel = 1}]

MCTwoWriters ==
  [c \in Callers |->
     IF c = c1 THEN Set(0, "tx_control") ELSE Set(1, "tx_control")]

MCFreshBytes == {{1, 4}}
=============================================================================

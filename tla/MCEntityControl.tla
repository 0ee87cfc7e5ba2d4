---------------------------- MODULE MCEntityControl ----------------------------
(* Small instance of EntityControl: one attribute behind all operations, so  *)
(* that the threads meet in it; entities that support all, and some, of the  *)
(* operations, and one whose power control lacks the value for "off".        *)
EXTENDS EntityControl, TLC

CONSTANT a1

MCNums == -1 .. 1
Texts1 == [o \in Ops |-> IF o \in {"power_off", "led_off", "media_presence"} THEN Num(0) ELSE Num(1)]
Full == [attr |-> [o \in Ops |-> a1], text |-> Texts1]
MCEntities == {
  Full,
  [Full EXCEPT !.attr = [o \in Ops |-> NullAttr]],
  [Full EXCEPT !.text = [Texts1 EXCEPT !["power_off"] = Blank]]}

Symmetry == Permutations(Callers)
=============================================================================

-------------------------------- MODULE MCFan --------------------------------
(* Small instance of Fan: unsigned ints of 5 bits, a "percent" is a quarter. *)
EXTENDS Fan, TLC

Full == [isfan |-> TRUE, set |-> TRUE, get |-> TRUE, max_get |-> TRUE, status |-> TRUE,
         fault |-> TRUE, max_pwm |-> 6, max_rpm |-> 0]

\* Fans with and without each attribute, one whose products overflow, and
\* one whose maximum is in the configuration only.
MCSettings == {
  Full,
  [Full EXCEPT !.max_pwm = 9],
  [Full EXCEPT !.max_get = FALSE, !.max_rpm = 5, !.fault = FALSE],
  [Full EXCEPT !.set = FALSE, !.get = FALSE, !.status = FALSE],
  [Full EXCEPT !.isfan = FALSE]}

Symmetry == Permutations(Callers)
=============================================================================

------------------------------ MODULE MCThermal ------------------------------
(* Small instance of Thermal: INT_MIN is -9 and a degree has two parts.     *)
EXTENDS Thermal, TLC

MCUnsupported == -9
MCReadings == {-3, 1, 6}
MCThresholds == {-2, 2}
MCConfigured == {<<MCUnsupported, MCUnsupported>>, <<-1, 2>>, <<1, 0>>}
Symmetry == Permutations(Callers)
=============================================================================

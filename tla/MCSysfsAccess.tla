--------------------------- MODULE MCSysfsAccess ---------------------------
(* Small instance of SysfsAccess: one text attribute, one EEPROM, a 1-bit  *)
(* unsigned int.                                                           *)
EXTENDS SysfsAccess, TLC

MCNums == -1 .. 1
Symmetry == Permutations(Callers)
=============================================================================

CONSTANTS
  Callers = {c1, c2}
  Settings <- MCSettings
  MaxSpeeds = {0, 5, 7}
  Speeds = {2, 5, 7, 9}
  Modulus = 32
  Percent = 4
SPECIFICATION Spec
INVARIANTS TypeOK PwmIsProportional LargerAskWritesMore
SYMMETRY Symmetry
CHECK_DEADLOCK FALSE

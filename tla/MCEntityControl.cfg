CONSTANTS
  a1 = a1
  TextAttrs = {a1}
  RawAttrs = {}
  NullAttr = NullAttr
  Words = {}
  Nums <- MCNums
  Lengths = {}
  UintHalf = 1
  Callers = {c1, c2}
  Entities <- MCEntities
SPECIFICATION Spec
INVARIANTS TypeOK AnswersHeld FailsSafe
SYMMETRY Symmetry
CHECK_DEADLOCK FALSE

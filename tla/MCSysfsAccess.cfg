CONSTANTS
  TextAttrs = {temp1_input}
  RawAttrs = {eeprom}
  NullAttr = NullAttr
  Words = {}
  Nums <- MCNums
  Lengths = {1}
  UintHalf = 1
  Callers = {c1, c2}
  Readable = {temp1_input, eeprom}
  Writable = {temp1_input}
  MaxFds = 1
SPECIFICATION Spec
INVARIANTS TypeOK StreamsClosed
PROPERTIES FailureHasNoEffect ImplementsRegister

CONSTANTS
  board = board
  psu1 = psu1
  psu10 = psu10
  pres = pres
  pres_b = pres_b
  eeprom = eeprom
  p1 = p1
  p2 = p2
  Fixed = Fixed
  NoAttr = NoAttr
  MaxEntities = 2
  Names <- MCNames
  Prefix <- MCPrefix
  Instances = {1, 2}
  Paths = {p1, p2}
  Configs <- MCConfigs
SPECIFICATION Spec
INVARIANTS TypeOK ListReversesConfig LastDuplicateWins NoFalseAlarm PrefixFreeBindsExactly
PROPERTIES StartupEnds ImplementsDirectory

CONSTANTS
  Images <- MCImages
  FieldSize <- MCFieldSize
  MacBytes <- MCMacBytes
  Configs <- MCConfigs
  Speeds <- MCSpeeds
  Ratings <- MCRatings
SPECIFICATION Spec
INVARIANTS TypeOK InfoWholeOrUntouched TextsInsideBuffer LastTlvWins SlowestFan TrayFailsForItself
PROPERTY CallReturns

SPECIFICATION Spec
CONSTANTS
  la = la
  lb = lb
  Labs = {la}
  NameList <- NodeNames
  TypeOf <- TypesOf
  CPMName <- CPMNames
  Ends <- TwoLinks
  Manifests <- Plain
  Configs <- OptionalConfigs
  MaxWrite = 2
  MaxLoad = 2
  MaxCrash = 0
PROPERTIES OperatorUpdatesAccepted
CHECK_DEADLOCK FALSE

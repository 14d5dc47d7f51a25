SPECIFICATION Spec
CONSTANTS
  la = la
  lb = lb
  Labs = {la, lb}
  NameList <- NodeNames
  TypeOf <- TypesOf
  CPMName <- CPMNames
  Ends <- TwoLinks
  Manifests <- Plain
  Configs <- ImageConfig
  MaxWrite = 2
  MaxLoad = 1
  MaxCrash = 0
INVARIANTS SysInfoOfOwnChassis
CHECK_DEADLOCK FALSE

SPECIFICATION Spec
CONSTANTS
  la = la
  lb = lb
  Labs = {la, lb}
  NameList <- NodeNames
  TypeOf <- TypesOf
  CPMName <- CPMNames
  Ends <- TwoLinks
  Manifests <- OddAndPlain
  Configs <- ImageConfig
  MaxWrite = 2
  MaxLoad = 1
  MaxCrash = 1
INVARIANTS TypeOK SRVMFit MacsDistinct
PROPERTIES OperatorUpdatesAccepted
CHECK_DEADLOCK FALSE

SPECIFICATION FairSpec
CONSTANTS
  Names <- TargetOnly
  Target = "knl-system/knlcfg"
  UserSpecs <- AllSpecs
  MaxWrite = 5
  MaxCreate = 2
  MaxFail = 1
  MaxCrash = 1
INVARIANTS TypeOK StatusTruthful PointersSet
PROPERTIES ConfigApplied

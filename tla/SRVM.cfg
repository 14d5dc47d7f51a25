SPECIFICATION FairSpec
CONSTANTS
  Chassis <- MagcVsim
  KindOf <- MagcVsimKinds
  ModelOf <- Distributed
  SlotsOf <- MagcVsimSlots
  SysInfoOf <- OwnChassis
  Configs <- BothLoaders
  MaxLoad = 1
  MaxIndex = 6
  MaxFault = 1
INVARIANTS TypeOK Bootable BridgeIndexUnique
PROPERTIES LifeOfVmis CardsComeUp

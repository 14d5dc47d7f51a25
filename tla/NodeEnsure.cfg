SPECIFICATION FairSpec
CONSTANTS
  Histories <- AllTypes
  CPMSlots = {"A"}
  MaxUid = 2
  MaxLag = 4
  MaxFault = 2
INVARIANTS TypeOK Mountable WiredAsSpecified
PROPERTIES LifeOfVmis NodesComeUp NothingLeft

SPECIFICATION Spec
CONSTANTS
  Labs <- OneLab
  Links <- TwoLinks
  LinkList <- TwoLinksOfOne
  Nodes = {"pod"}
  MaxVNI = 6
  MaxUid = 2
  MaxFail = 0
  MaxCrash = 1
  MaxEvict = 0
INVARIANTS TypeOK NoOrphanLan OrphanInv SpokesOnOwnLan
PROPERTIES StripOnlyOwnLan

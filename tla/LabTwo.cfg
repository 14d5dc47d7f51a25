SPECIFICATION Spec
CONSTANTS
  Labs <- NestedLabs
  Links <- NestedLinks
  LinkList <- NestedList
  Nodes = {}
  MaxVNI = 4
  MaxUid = 1
  MaxFail = 1
  MaxCrash = 0
  MaxEvict = 1
INVARIANTS VNIUniqueIfListed VNIInv NoOrphanLan
PROPERTIES StripOnlyOwnLan

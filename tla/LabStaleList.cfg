SPECIFICATION Spec
CONSTANTS
  Labs <- TwoLabs
  Links <- OneLink
  LinkList <- OneLinkEach
  Nodes = {"pod"}
  MaxVNI = 4
  MaxUid = 1
  MaxFail = 0
  MaxCrash = 0
  MaxEvict = 0
INVARIANTS VNIUnique

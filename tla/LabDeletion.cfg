SPECIFICATION FairSpec
CONSTANTS
  Labs <- OneLab
  Links <- OneLink
  LinkList <- OneLinkOfOne
  Nodes = {"pod"}
  MaxVNI = 4
  MaxUid = 1
  MaxFail = 0
  MaxCrash = 0
  MaxEvict = 0
PROPERTIES LabDeletionCompletes

SPECIFICATION FairSpec
CONSTANTS
  Labs <- OneLab
  Links <- OneLink
  LinkList <- OneLinkOfOne
  Nodes = {"pod"}
  MaxVNI = 4
  MaxUid = 2
  MaxFail = 0
  MaxCrash = 1
  MaxEvict = 1
PROPERTIES LinksComeUp

SPECIFICATION MCSpec
CONSTANTS
  root = root
  a = a
  sub = sub
  b = b
  late = late
  far = far
  Nodes = {root, a, sub, b, late, far}
  Root = root
  Parent <- MCParent
  Overlong = {far}
  Kind0 <- MCKind0
  Twins = {a, b, far}
  MaxFiles = 4
  MaxDepth = 2
  MaxFileBytes = 2
  TotalBytes = 3
  MaxFindings = 1
  MaxSize = 3
  Events = 1
  Walkers = {"antivermis", "antivermis.py", "lsx", "lsx.py", "linkscan", "linkscan.py"}
  Limit <- MCLimit
  Depth <- MCDepth
  MaxRows = 1
  PyMaxFindings = 2
INVARIANTS
  WithinLimits
  ReadsWhatItSaw
  PyExitMeansComplete
  CompleteUnlessBlind
  SizesWhole
  ListsEverything
CHECK_DEADLOCK FALSE

SPECIFICATION Spec
CONSTANTS
  cg = cg
  vs = vs
  mg = mg
  mp = mp
  sib = sib
  NoUnit = NoUnit
  ConsistGroup = {}
  VStore = {}
  MetroGroup = {mg}
  MetroPair = {}
  Synchronous = {}
  Breakable = {}
  Isolated = {mg}
  Sibling = {}
  SiblingsOf <- NoGroups
  ThreeDC = {}
  Addresses = 1
  Commands = {"prepareFailover", "failover", "prepareReverse", "reverse", "restore", "sync"}
INVARIANT IsolatedSiteIsShut

SPECIFICATION Spec
CONSTANTS
  cg = cg
  vs = vs
  mg = mg
  mp = mp
  sib = sib
  NoUnit = NoUnit
  ConsistGroup = {}
  VStore = {}
  MetroGroup = {mg}
  MetroPair = {mp}
  Synchronous = {}
  Breakable = {mg}
  Isolated = {mg, mp}
  Sibling = {}
  SiblingsOf <- NoGroups
  ThreeDC = {}
  Addresses = 1
  Commands = {"prepareFailover", "failover", "prepareReverse", "reverse", "restore", "sync"}
INVARIANT MetroServesProduction

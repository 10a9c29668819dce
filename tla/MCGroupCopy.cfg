SPECIFICATION Spec
CONSTANTS
  cg = cg
  vs = vs
  mg = mg
  mp = mp
  sib = sib
  NoUnit = NoUnit
  ConsistGroup = {cg}
  VStore = {vs}
  MetroGroup = {}
  MetroPair = {}
  Synchronous = {}
  Breakable = {cg}
  Isolated = {}
  Sibling = {sib}
  SiblingsOf <- OneSibling
  ThreeDC = {cg}
  Addresses = 1
  Commands = {"prepareFailover", "failover", "prepareReverse", "reverse", "restore", "sync"}
INVARIANT TypeOK
INVARIANT CopyStaysWritable
INVARIANT ReversedFromProduction
INVARIANT SiblingsFollow
PROPERTY CopyOpensSuspended
PROPERTY RestoreOverwritesShut
PROPERTY CopyContract

SPECIFICATION Spec
CONSTANTS
  d1 = d1 d2 = d2 s1 = s1 s2 = s2 h1 = h1 h2 = h2 i1 = i1 i2 = i2 i3 = i3 g1 = g1 g2 = g2
  NoObject = NoObject NoHost = NoHost Absent = Absent
  Lun = {d1, d2} SnapId = {s1, s2}
  Host = {h1} Initiator = {i1, i2} AccessGroup = {g1, g2}
  InitiatorsOf <- TestInitiators InitialHost <- TestHosts GroupsOf <- TestGroups
  Commands = {"map", "start", "stop"}
  MaxFaults = 1 GroupedStays = TRUE
INVARIANTS
  TypeOK MappedIsServed TestedIsServed OnlyAccessGroups

SPECIFICATION FairSpec
CONSTANTS
  d1 = d1 d2 = d2 s1 = s1 s2 = s2 h1 = h1 h2 = h2 i1 = i1 i2 = i2 i3 = i3 g1 = g1 g2 = g2
  NoObject = NoObject NoHost = NoHost Absent = Absent
  Lun = {d1} SnapId = {s1, s2}
  Host = {h1, h2} Initiator = {i1, i2, i3} AccessGroup = {g1, g2}
  InitiatorsOf <- MapInitiators InitialHost <- MapHosts GroupsOf <- MapGroups
  Commands = {"map", "start", "stop"}
  MaxFaults = 2 GroupedStays = FALSE
INVARIANTS MappedIsServed TestedIsServed
PROPERTIES MapCompletes StopCompletes

SPECIFICATION FairSpec
CONSTANTS
  lun1 = lun1
  lun2 = lun2
  fs1 = fs1
  
  sib1 = sib1
  NoDevice = NoDevice
  Device = {lun1}
  FS = {}
  Sibling = {}
  SiblingsOf <- OneLun
  Synchronous = {lun1}
  AutoRecovery = {}
  Fusion = TRUE
  Addresses = 1
  Commands = {"failover", "reverse", "restore", "sync"}
INVARIANT ProductionStaysMapped
PROPERTY FailoverCompletes
PROPERTY ReverseCompletes

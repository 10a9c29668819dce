SPECIFICATION FairSpec
CONSTANTS
  lun1 = lun1
  lun2 = lun2
  fs1 = fs1
  
  sib1 = sib1
  NoDevice = NoDevice
  Device = {lun1, fs1}
  FS = {fs1}
  Sibling = {}
  SiblingsOf <- LunAndFs
  Synchronous = {lun1, fs1}
  AutoRecovery = {}
  Fusion = FALSE
  Addresses = 2
  Commands = {"failover", "restore"}
PROPERTY SyncOnlyOntoReadOnly
PROPERTY PlanContract
PROPERTY FailoverCompletes

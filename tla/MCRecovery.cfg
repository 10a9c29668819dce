SPECIFICATION Spec
CONSTANTS
  lun1 = lun1
  lun2 = lun2
  fs1 = fs1
  
  sib1 = sib1
  NoDevice = NoDevice
  Device = {lun1}
  FS = {}
  Sibling = {sib1}
  SiblingsOf <- OneSibling
  Synchronous = {sib1}
  AutoRecovery = {sib1}
  Fusion = FALSE
  Addresses = 1
  Commands = {"failover", "reverse", "restore", "sync"}
INVARIANT TypeOK
INVARIANT ProductionStaysWritable
INVARIANT ProductionStaysMapped
INVARIANT ProtectedFromProduction
INVARIANT RestoredSplitIsReadOnly
PROPERTY ReplicationRunsFromProduction
PROPERTY WritableOnlySuspended
PROPERTY PlanContract
INVARIANT SafetyInv

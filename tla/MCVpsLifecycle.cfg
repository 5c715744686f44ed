CONSTANTS
  Ops <- MCOps
  Faults <- MCFaults
  SelfStop = {"stop", "reboot"}
  CanCrash = TRUE
SPECIFICATION FairSpec
INVARIANTS
  TypeOK
  RunningHasFs
  MountedUnderQuota
PROPERTIES
  CheckpointKept
  ActionReturns
  StatusInOrder
  AbandonedEnvDies

CONSTANTS
  Pids = {p1, p2, p3}
  NoPid = NoPid
  Garbage = Garbage
  CanDie = TRUE
  WriteMayFail = TRUE
  Foreign = TRUE
SPECIFICATION FairSpec
INVARIANTS
  TypeOK
  ExclusiveUnlessStolen
  HolderHasFile
  LoneCallerGetsLock
PROPERTY CallReturns

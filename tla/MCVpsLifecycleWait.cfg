CONSTANTS
  Ops <- StartSuspend
  Faults = {"cpt", "wait"}
  SelfStop = {}
  CanCrash = FALSE
SPECIFICATION Spec
INVARIANT NoStaleRestore

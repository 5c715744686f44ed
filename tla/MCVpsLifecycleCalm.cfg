CONSTANTS
  Ops <- MCOps
  Faults <- CalmFaults
  SelfStop = {"stop"}
  CanCrash = FALSE
SPECIFICATION Spec
INVARIANTS
  NoStaleRestore
  RoutesLeftOnlyIfDeferred

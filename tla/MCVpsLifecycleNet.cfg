CONSTANTS
  Ops <- StartStop
  Faults = {}
  SelfStop = {"stop"}
  CanCrash = FALSE
SPECIFICATION Spec
INVARIANT NoRoutesLeft

CONSTANTS
  Guids = {g1}
  NoGuid = NoGuid
  Faults = {}
  DeletesShared = FALSE
  CanCrash = FALSE
SPECIFICATION Spec
INVARIANT NoStaleRestore

CONSTANTS
  Guids = {g1, g2}
  NoGuid = NoGuid
  Faults = {}
  DeletesShared = FALSE
  CanCrash = TRUE
SPECIFICATION Spec
INVARIANT OthersStayListed

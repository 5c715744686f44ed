CONSTANTS
  Guids = {g1, g2}
  NoGuid = NoGuid
  Faults <- NoUnlinkFaults
  DeletesShared = TRUE
  CanCrash = TRUE
SPECIFICATION Spec
SYMMETRY GuidSymmetry
INVARIANTS
  TypeOK
  RestoresOwnDump

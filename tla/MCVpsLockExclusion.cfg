CONSTANTS
  Pids = {p1, p2, p3}
  NoPid = NoPid
  Garbage = Garbage
  CanDie = FALSE
  WriteMayFail = FALSE
  Foreign = FALSE
SPECIFICATION Spec
SYMMETRY PidSymmetry
INVARIANT MutualExclusion

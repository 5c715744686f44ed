SPECIFICATION FairHelpers
CONSTANTS None = None MaxOut = 2 Cap = 1 Input = 1 Typed = 2
  Addrs = {a, b} ArpFaults = {"options", "device", "send"}
  Inits = {i1, i2} Entrants = {e1}
  EnvFaults = {"setup", "create", "open", "clone", "mapping", "link", "root", "template"}
  Cts = {a, b} Faults = {"lock", "fork", "opendir", "rm", "kill"}
INVARIANTS HelpersTypes RemovedUnlessLeft OutputDelivered SessionEndsWell
  RunningInitIsKnown DownMeansDown DetectsTaken
PROPERTIES  FailedStartEnds Ends
CHECK_DEADLOCK FALSE

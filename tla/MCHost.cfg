SPECIFICATION HostSpec
CONSTANTS Cts = {a, b} Names = {e0, e1} None = None
  Parts = {"snap", "veth", "turns", "alone", "list"} Overlaps = TRUE
  DevForms = {{}} DevFaults = {"create", "filter", "netcfg", "del", "rest"}
  IpRequests <- SingleRequests AddrFaults = {"kernel", "route", "rest"}
  ListFaults = {"open", "ips"}
  Guids = {g1, g2, g3} NoGuid = NoGuid
  Faults <- CalmFaults DeletesShared = FALSE CanCrash = FALSE
SYMMETRY Symmetry
INVARIANTS HostTypes TreeMatchesImages NoneLeftFrozen SavedDevicesMatch
  AddressesApplied ListingIsTrue
PROPERTY KeepsPromise
CHECK_DEADLOCK FALSE

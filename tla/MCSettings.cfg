SPECIFICATION SettingsSpec
CONSTANTS Vzctls = {p1, p2} None = None ConfVals = {v1, v2}
  FormRuns = 2 Amounts = {0, 3, 6, 16, 64, 127} MaxWords = 2
  Page = 4 Kilo = 2 IntMax = 15 LongMax = 63 NumCpu = 2 Percent = 5 MinUnits = 3 MaxUnits = 16 NBits = 5 PerLong = 2
  UbHosts <- SomeHosts MaxLong = 536870911
  NamedCts = {c1, c2} CtNames = {n1, n2} NameRequests <- NamesOnly NameFaults = {"script"}
  ModeCts = {c3} ModeNames = {n3} ModeVals = {0, 1} ModeFeatures = {f1}
  ModeRequests <- SetModes
  ModeFaults = {"symlink", "start", "restore", "stop", "setup", "sample", "area", "fs",
                "save", "script"}
  Runs = 2
SYMMETRY Symmetry
INVARIANTS SettingsTypes ConversionKeepsFiles SettingsKept SavedIsReadBack
  LimitsAccepted NameKept SetModeHonoured
CHECK_DEADLOCK FALSE

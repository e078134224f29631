CONSTANTS
  BootloopLimit = 3
  Crashes = TRUE
  BadDumps = TRUE
  UserActs = TRUE
SPECIFICATION Spec
INVARIANTS
  TypeOK
  NoWifiForProvenEthernet
  CrashGuarded
  ApCanBeConfigured
PROPERTY
  ReasonReportedOnce

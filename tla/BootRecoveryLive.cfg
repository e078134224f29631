CONSTANTS
  BootloopLimit = 3
  Crashes = TRUE
  BadDumps = FALSE
  UserActs = FALSE
SPECIFICATION FairSpec
PROPERTIES
  EthernetComesBack
  BootloopEnds

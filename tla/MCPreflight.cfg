SPECIFICATION MCSpec
INVARIANTS
  NoStaleDaemon
  CleanupComplete
PROPERTIES
  SetupEstablishes

CONSTANTS
  Limit = 3
  Delay = 1
  MaxCall = 4
  Texts <- MCTexts
  Procs = {"crc"}
  Pids = {1, 2}
  Sizes = {1, 2, 3}
  ImageSize = 1
  VirtioNet = TRUE
  MaxFaults = 2
  Memories = {1, 2}
  CPUs = {1, 2}
  VhdSizes = {1, 2}
  DefaultDiskSize = 1
  MaxMachines = 2
  MaxFailures = 1
SPECIFICATION DriversSpec
INVARIANTS
  OverrunBounded
  DriversTruthful
  SmoothStartRecovers
  HardwareUnlessTorn
PROPERTIES
  WaitsEnd

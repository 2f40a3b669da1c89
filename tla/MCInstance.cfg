CONSTANTS
  Processes = {"crc"}
  Configs = {"a", "b", "c"}
  MaxKills = 3
  Systems <- MCSystems
  Addresses = {"ip1", "ip2"}
  Nameservers = {"10.0.0.1", "10.0.0.10"}
  LooksLike <- TextContains
  Proxies = {"proxy"}
  MaxDisk = 3
  MaxStarts = 3
  MaxBroken = 1
  NoValue = NoValue
  Workers = {"handler", "command"}
  Daemon = {"handler"}
  Sizes = {2, 32}
  TotalMemory = 16
  GOOS = "windows"
  IsInstaller = FALSE
  accessible = FALSE
  PresetKeys = {"preset", "memory"}
  PresetKinds = {"set", "unset", "get", "start"}
  PresetProperties = 1
  PresetFaults = 0
  RequestKeys = {"network-mode", "host-network-access", "shared-dir-password"}
  RequestKinds = {"set", "unset"}
  RequestProperties = 2
  RequestFaults = 1
SPECIFICATION InstanceSpec
INVARIANTS
  StoredAsReported
  LoadableUnlessTorn
  StartEstablishes
  CommandStartsWithinBounds
  SuccessMeansStored

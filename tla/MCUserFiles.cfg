CONSTANTS
  d1 = d1  d2 = d2  c = c  daemon = daemon  cli = cli
  cpus = cpus  memory = memory  v = v
  NoValue = NoValue  NoThread = NoThread
  Keys = {cpus, memory}
  Values = {v, w}
  overrides <- NoOverrides
  Threads = {d1, d2}
  Procs = {daemon}
  process <- InDaemon
  Files <- AnyFile
  MaxFaults = 2
  Users = {d1, c}
  Programs = {daemon, cli}
  program <- InBoth
  environment <- Environment
  Written <- WrittenFiles
  MaxFailures = 1
  Paths <- OnePath
  UserEntries <- MCEntries
  MaxInstances = 3
  MaxCrashes = 1
SPECIFICATION FilesSpec
INVARIANTS
  FilesConsistent
PROPERTIES
  ChangesOneSetting
  BothKeepItWhole
  CallsReturn
  OthersKept

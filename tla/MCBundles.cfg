CONSTANTS
  Bytes = {0, 1}
  copyChunkSize = 2
  MaxRead = 3
  MaxLen = 7
  Procs = {"crc"}
  Bundles = {"default", "image", "file"}
  Supported = {"default", "image", "file"}
  Source <- MCSource
  OpenShift = {"default", "file"}
  Listed <- MCListed
  Entries <- MCEntries
  Verified <- MCVerified
  MaxFaults = 2
  Inputs <- MCInputs
  Overrides <- MCOverrides
  CAs <- MCCAs
  Uncut = {"clientCA", "patchCA", "copyKubeconfig"}
  EditAnytime = FALSE
  MaxEdits = 1
  MaxCuts = 1
  MaxRendered = 5
  MaxFailures = 2
SPECIFICATION RunSpec
INVARIANTS
  GetMeansWhole
  BundlesMade
  SuccessEstablishes
  SmoothStartSucceeds
  NoSecretInBundle
PROPERTIES
  ChangesItsOwn
  LeavesOthersAlone
CHECK_DEADLOCK FALSE

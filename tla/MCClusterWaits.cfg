CONSTANTS
  Operators = {"dns", "etcd"}
  Conditions <- MCConditions
  retryCount = 7
  numConsecutive = 3
  Names = {"a", "b", "c", "d"}
  MaxFaults = 2
SPECIFICATION WaitsSpec
INVARIANTS
  NilMeansConsecutive
  CertificatesRenewed
PROPERTIES
  AnswersHeeded
  WaitsReturn

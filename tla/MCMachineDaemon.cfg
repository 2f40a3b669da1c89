\* Three API requests at a time, and any number after one another.
CONSTANTS
  Processes = {daemon}
  Crashing = {}
  Slots = {r1, r2, r3}
  Requests = {r1, r2, r3}
  ProcessOf <- InDaemon
  OpenShift = TRUE
  UserNetworking = TRUE
  Ports = {ssh, api}
  Daemon = daemon
  CommandLine = cli
  Nil = Nil
SYMMETRY SlotSymmetry
SPECIFICATION Spec
INVARIANTS
  StopSticks
  DeleteIsComplete
  StartLeavesMachine
  RunningIsForwarded
PROPERTY NeverCreatedOver

\* A machine that stops while a Start waits for it, by itself or by a PowerOff request.
CONSTANTS
  Processes = {daemon}
  Crashing = {}
  Slots = {r1, r2}
  Requests = {r1, r2}
  ProcessOf <- InDaemon
  OpenShift = TRUE
  UserNetworking = TRUE
  Ports = {ssh, api}
  Daemon = daemon
  CommandLine = cli
  Nil = Nil
SYMMETRY SlotSymmetry
SPECIFICATION Spec
INVARIANT StartHasResult

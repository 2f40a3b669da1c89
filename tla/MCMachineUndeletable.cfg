\* A command line killed while it saves the machine.
CONSTANTS
  Processes = {daemon, cli}
  Crashing = {cli}
  Slots = {r1}
  Requests = {r1}
  ProcessOf <- InCommandLine
  OpenShift = FALSE
  UserNetworking = TRUE
  Ports = {ssh, api}
  Daemon = daemon
  CommandLine = cli
  Nil = Nil
SPECIFICATION Spec
INVARIANT ExistingIsDeletable

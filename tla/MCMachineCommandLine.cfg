\* One command line after the other, any of which may be killed at any step.
CONSTANTS
  Processes = {daemon, cli}
  Crashing = {cli}
  Slots = {r1}
  Requests = {r1}
  ProcessOf <- InCommandLine
  OpenShift = FALSE
  UserNetworking = TRUE
  Ports = {ssh, api}
  Daemon = daemon
  CommandLine = cli
  Nil = Nil
SPECIFICATION Spec
INVARIANT TrueAfterKills
PROPERTY StepsAfterKills

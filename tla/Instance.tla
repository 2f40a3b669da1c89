------------------------------ MODULE Instance ------------------------------
(***************************************************************************)
(* What the commands leave to one another: the settings, the store of the  *)
(* machine on the host, and the guest.  A behaviour is of one of them, the *)
(* others stay where they begin: none of them reads the state of another.  *)
(* The settings are considered twice, for what depends on the preset and   *)
(* for requests that change several settings.                              *)
(***************************************************************************)
EXTENDS FileStore

CONSTANTS
  Systems, Addresses, Nameservers, LooksLike, Proxies, MaxDisk, MaxStarts, MaxBroken,   \* of GuestSetup
  NoValue, Workers, Daemon, Sizes, TotalMemory, GOOS, IsInstaller, accessible,          \* of Settings
  PresetKeys, PresetKinds, PresetProperties, PresetFaults,
  RequestKeys, RequestKinds, RequestProperties, RequestFaults

VARIABLES
  part,                                                              \* the one it is of
  sys, want, disk, ip, guest, outer, step, result, broken, starts,   \* of GuestSetup
  stored, defaults, job, faults                                      \* of Settings

setup == <<sys, want, disk, ip, guest, outer, step, result, broken, starts>>
settings == <<stored, defaults, job, faults>>
all == <<part, vars, setup, settings>>

Setup == INSTANCE GuestSetup WITH MaxFaults <- MaxBroken, pc <- step

\* The preset and what depends on it, with what is proved about the settings,
Preset == INSTANCE SettingsProofs
  WITH Keys <- PresetKeys, Kinds <- PresetKinds,
       MaxProperties <- PresetProperties, MaxFaults <- PresetFaults

\* and requests for several settings at once, whose writes may fail.
Requests == INSTANCE SettingsProofs
  WITH Keys <- RequestKeys, Kinds <- RequestKinds,
       MaxProperties <- RequestProperties, MaxFaults <- RequestFaults

ASSUME SetupAssumption ==
  /\ Systems \subseteq [os : {"linux", "darwin", "windows"}, openshift : BOOLEAN, user : BOOLEAN]
  /\ MaxDisk \in Nat \ {0} /\ MaxStarts \in Nat

ASSUME SettingsAssumption == Preset!Assumptions /\ Requests!Assumptions

-----------------------------------------------------------------------------
\* A part that a behaviour is not of is in one of its initial states.
InstanceInit ==
  /\ part \in {"store", "guest", "preset", "requests"}
  /\ Init /\ (part # "store" => \A p \in Processes : val[p] = CHOOSE v \in Configs : TRUE)
  /\ Setup!Init /\ (part # "guest" => sys = CHOOSE s \in Systems : TRUE)
  /\ IF part = "requests" THEN Requests!Init ELSE Preset!Init

InstanceNext ==
  \/ part = "store" /\ Next /\ UNCHANGED <<part, setup, settings>>
  \/ part = "guest" /\ Setup!Next /\ UNCHANGED <<part, vars, settings>>
  \/ part = "preset" /\ Preset!Next /\ UNCHANGED <<part, vars, setup>>
  \/ part = "requests" /\ Requests!Next /\ UNCHANGED <<part, vars, setup>>

InstanceSpec == InstanceInit /\ [][InstanceNext]_all

-----------------------------------------------------------------------------
\* The type invariants of the parts, each in the behaviours that are of it.
TypesOK ==
  /\ part = "store" => TypeOK
  /\ part = "guest" => Setup!TypeOK
  /\ part = "preset" => Preset!TypeOK
  /\ part = "requests" => Requests!TypeOK

(***************************************************************************)
(* What is stored agrees with what was reported.  A machine that exists    *)
(* has the configuration saved last and never half of one                  *)
(* (persist/filestore.go); GET /config, if it is alone, reports a memory   *)
(* size that goes with the preset it reports (api/handlers.go).            *)
(***************************************************************************)
StoredAsReported ==
  /\ TypesOK
  /\ NeverPartial
  /\ SavedIsStored
  /\ part = "preset" => Preset!ReportsCurrentDefaults

(***************************************************************************)
(* A start that reports success (client.Start up to the kubelet) leaves    *)
(* what it was asked for, after starts that failed and with settings that  *)
(* changed: the file system fills the disk, unless the last                *)
(* xfs_growfs that was due has failed; the name server that was asked for, *)
(* off the user network; the shared directories mounted where the driver   *)
(* lists them, and / immutable again unless the last "chattr +i" has       *)
(* failed; a hosts file with the machine's address and no older one; off   *)
(* the user network dnsmasq enabled and configured with this address, for  *)
(* the next boot too, and on Windows the names of applications leading to  *)
(* the machine; on macOS the network works with the resolver file, unless  *)
(* the last restart of it has failed; and for Podman the token of the      *)
(* guest and the proxy that is set.                                        *)
(***************************************************************************)
StartEstablishes ==
  /\ Setup!GrownUnlessTorn
  /\ Setup!NameserverKept
  /\ Setup!SharedAndSealed
  /\ Setup!HostsCurrent
  /\ Setup!AnswersChecked
  /\ Setup!ResolverUnlessTorn
  /\ Setup!PodmanSettled

\* "crc start" hands on a memory size that goes with the preset, if it is alone.
CommandStartsWithinBounds == part = "preset" => Preset!CommandStartsWithinBounds

\* A request that reports success has set or unset all it was asked to.
SuccessMeansStored == part = "requests" => Requests!SuccessMeansStored

=============================================================================

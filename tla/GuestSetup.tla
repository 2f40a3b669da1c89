----------------------------- MODULE GuestSetup -----------------------------
(***************************************************************************)
(* What client.Start of pkg/crc/machine does to a machine it has just      *)
(* booted, up to the start of the kubelet: the key, the file system, the   *)
(* name servers, the shared directories, and then either the settings of   *)
(* Podman or the DNS of the cluster (pkg/crc/services/dns), in the guest   *)
(* and on the host.                                                        *)
(*                                                                         *)
(* All of it is done again with every boot, and what an earlier start left *)
(* undone is still there: each step asks the guest or the host what there  *)
(* is to do, so the question is whether it asks for the right thing.       *)
(***************************************************************************)
EXTENDS Naturals, FiniteSets

CONSTANTS
  Systems,      \* the hosts considered: [os, openshift, user]
  Addresses,    \* the addresses a machine may get where they are not fixed
  Nameservers,  \* the values of the nameserver setting
  LooksLike,    \* LooksLike[n]: the addresses whose text contains that of n
  Proxies,      \* the values of the proxy settings
  MaxDisk, MaxStarts, MaxFaults   \* bounds: disk sizes, boots, commands that fail

None == "none"
Done == "done"               \* past the last step
Empty == "empty"             \* a file that has been made and not filled
Gateway == "gateway"         \* constants.VSockGateway
Dnsmasq == "dnsmasq"         \* dnsContainerIP
Dhcp == "dhcp"               \* what the guest's network gives it
Local == "127.0.0.1"         \* the address of a machine on the user network

VARIABLES
  sys,      \* the host and the preset
  want,     \* what the start in progress, or the last one, asks for; shared is "off", or
            \* "none" or "dirs", what the driver lists
  disk,     \* the size of the machine's disk
  ip,       \* its address
  guest,    \* the files and services of the guest, resolv the name servers it has
  outer,    \* the files and the network of the host
  pc,       \* the step of the start in progress
  result,   \* how the last start has ended
  broken,   \* the steps that have failed and have not been done since
  starts

vars == <<sys, want, disk, ip, guest, outer, pc, result, broken, starts>>

At(s) == pc = s

\* On to the next step, or to the end,
Onward(next) ==
  /\ IF next = Done THEN pc' = None /\ result' = "ok" ELSE pc' = next /\ UNCHANGED result
  /\ UNCHANGED <<sys, want, disk, ip, starts>>

\* having changed the guest, the host or neither,
InGuest(g, next) == guest' = g /\ UNCHANGED outer /\ broken' = broken \ {pc} /\ Onward(next)
OnHost(o, next) == outer' = o /\ UNCHANGED guest /\ broken' = broken \ {pc} /\ Onward(next)
Skip(next) == UNCHANGED <<guest, outer, broken>> /\ Onward(next)

\* or no further: Start returns the error.
Refuse ==
  /\ pc' = None /\ result' = "error"
  /\ UNCHANGED <<sys, want, disk, ip, guest, outer, broken, starts>>

Init ==
  /\ sys \in Systems
  /\ want = [ns |-> None, shared |-> "off", proxy |-> None]
  /\ disk = 1 /\ ip = None
  /\ guest = [keys |-> "bundle", ignition |-> ~sys.openshift, part |-> 1, fs |-> 1,
              immutable |-> TRUE, mounted |-> FALSE, socket |-> FALSE, resolv |-> {Dhcp},
              conf |-> None, serves |-> None, enabled |-> FALSE, env |-> None, token |-> 0]
  /\ outer = [hosts |-> {}, resolver |-> None, active |-> None, interface |-> None, token |-> 0]
  /\ pc = None /\ result = None /\ broken = {} /\ starts = 0

-----------------------------------------------------------------------------
\* The address is fixed on the user network and by libvirt's network "crc".
PossibleIPs ==
  IF sys.user THEN {Local} ELSE IF sys.os = "linux" THEN {"192.168.130.11"} ELSE Addresses

\* startHost of a machine that was stopped, perhaps with a larger disk.  What is mounted
\* and running is lost, the units that are enabled are started, and /etc/resolv.conf is
\* kept or made again.
Boot ==
  /\ pc = None /\ starts < MaxStarts
  /\ starts' = starts + 1
  /\ want' \in [ns : Nameservers \cup {None}, shared : {"off", "none", "dirs"},
               proxy : IF sys.openshift THEN {None} ELSE Proxies \cup {None}]
  /\ disk' \in disk..MaxDisk
  /\ ip' \in PossibleIPs
  /\ \E resolv \in {guest.resolv, {Dhcp}} :
       guest' = [guest EXCEPT !.mounted = FALSE, !.socket = FALSE, !.resolv = resolv,
                              !.serves = IF guest.enabled THEN guest.conf ELSE None]
  /\ pc' = "connect" /\ result' = None
  /\ UNCHANGED <<sys, outer, broken>>

\* The key of the machine and the one of the bundle are tried.
WaitForConnectivity ==
  /\ At("connect")
  /\ IF guest.keys # Empty \/ guest.ignition THEN Skip("keys") ELSE Refuse

\* The error of the rm is ignored.
updateSSHKeyPair ==
  /\ At("keys")
  /\ IF guest.keys = "machine"
     THEN Skip("growpart")
     ELSE \E i \in {FALSE, guest.ignition} :
            InGuest([guest EXCEPT !.keys = "machine", !.ignition = i], "growpart")

\* growpart has status 1 when the partition fills the disk, and there is nothing to do,
growRootFileSystem ==
  /\ At("growpart")
  /\ IF guest.part = disk THEN Skip("nameserver")
     ELSE InGuest([guest EXCEPT !.part = disk], "growfs")

\* otherwise the file system is made as large as the partition.
growfs == At("growfs") /\ InGuest([guest EXCEPT !.fs = guest.part], "nameserver")

\* strings.Contains on the whole of /etc/resolv.conf.
HasGivenNameserversConfigured(ns) == LooksLike[ns] \cap guest.resolv # {}

addNameServerToInstance ==
  /\ At("nameserver")
  /\ IF want.ns = None \/ HasGivenNameserversConfigured(want.ns)
     THEN Skip("mutable")
     ELSE InGuest([guest EXCEPT !.resolv = @ \cup {want.ns}], "mutable")

\* The directories of macOS are outside of /home and /mnt.
OutsideHome == sys.os = "darwin"

\* configureSharedDirs for one directory.  A driver that cannot share directories, or lists
\* none (Hyper-V's without the SMB share), is left alone; else / is made mutable where the
\* target needs it,
makeMutable ==
  /\ At("mutable")
  /\ IF want.shared # "dirs" THEN Skip("socket")
     ELSE IF OutsideHome THEN InGuest([guest EXCEPT !.immutable = FALSE], "immutable")
     ELSE Skip("immutable")

\* then the directory is made and / immutable again, and the directory is mounted.
makeImmutable ==
  /\ At("immutable")
  /\ IF OutsideHome THEN InGuest([guest EXCEPT !.immutable = TRUE], "mount") ELSE Skip("mount")

configureSharedDirs == At("mount") /\ InGuest([guest EXCEPT !.mounted = TRUE], "socket")

\* What follows depends on the preset.
ChmodSocket ==
  /\ At("socket")
  /\ InGuest([guest EXCEPT !.socket = TRUE], IF sys.openshift THEN "dnsConf" ELSE "proxy")

-----------------------------------------------------------------------------
\* Podman.  Without a proxy there is nothing to do.
configurePodmanProxy ==
  /\ At("proxy")
  /\ IF want.proxy = None THEN Skip("remove")
     ELSE InGuest([guest EXCEPT !.env = want.proxy], "remove")

\* UpdateHostsFile takes the names out of the host's file
RemoveFromHostsFile == At("remove") /\ OnHost([outer EXCEPT !.hosts = {}], "add")

\* and adds them with the address of the machine.
AddToHostsFile ==
  /\ At("add")
  /\ OnHost([outer EXCEPT !.hosts = @ \cup {ip}],
            IF ~sys.openshift THEN "tokenHost"
            ELSE IF sys.os = "darwin" /\ ~sys.user THEN "resolver" ELSE "resolv")

\* A new token, on the host first; the start number stands for it.
WriteCockpitToken == At("tokenHost") /\ OnHost([outer EXCEPT !.token = starts], "tokenGuest")

\* addPodmanSystemConnections, which follows, changes nothing that is modelled.
updateCockpitConsoleBearerToken ==
  /\ At("tokenGuest") /\ InGuest([guest EXCEPT !.token = outer.token], Done)

-----------------------------------------------------------------------------
\* OpenShift.  The names are told to the host by its hosts file or, on Windows' own network,
\* by the name server of its interface.
AfterDnsmasq == IF sys.os = "windows" /\ ~sys.user THEN "interface" ELSE "remove"

\* setupDnsmasq writes the configuration, except on the user network,
createDnsmasqDNSConfig ==
  /\ At("dnsConf")
  /\ IF sys.user THEN Skip(AfterDnsmasq) ELSE InGuest([guest EXCEPT !.conf = ip], "dnsEnable")

\* enables the unit unless it is running,
EnableDnsmasq ==
  /\ At("dnsEnable")
  /\ IF guest.serves # None THEN Skip("dnsStart")
     ELSE InGuest([guest EXCEPT !.enabled = TRUE], "dnsStart")

\* and starts it: nothing happens to a unit that is running.
StartDnsmasq ==
  /\ At("dnsStart")
  /\ IF guest.serves # None THEN Skip(AfterDnsmasq)
     ELSE InGuest([guest EXCEPT !.serves = guest.conf], AfterDnsmasq)

\* Windows: the error of netsh is ignored and the value is looked at instead.
setInterfaceNameserver == At("interface") /\ OnHost([outer EXCEPT !.interface = ip], "resolv")

\* macOS: the network is restarted when the resolver file has changed.
createResolverFile ==
  /\ At("resolver")
  /\ IF outer.resolver = ip
     THEN Skip("resolv")
     ELSE OnHost([outer EXCEPT !.resolver = ip, !.active = ip], "resolv")

\* The file is written and the network cannot be restarted.
restartNetworkFails ==
  /\ At("resolver") /\ outer.resolver # ip
  /\ Cardinality(broken) < MaxFaults
  /\ outer' = [outer EXCEPT !.resolver = ip]
  /\ pc' = None /\ result' = "error" /\ broken' = broken \cup {pc}
  /\ UNCHANGED <<sys, want, disk, ip, guest, starts>>

\* Mutation: the name servers that the guest has are not kept.
dnsServersAlone == IF sys.user THEN {Gateway} ELSE {Dnsmasq}

dnsServers == IF sys.user THEN {Gateway} ELSE {Dnsmasq} \cup guest.resolv

\* The end of RunPostStart overrides /etc/resolv.conf.
CreateResolvFileOnInstance ==
  At("resolv") /\ InGuest([guest EXCEPT !.resolv = dnsServers], "checkGuest")

\* A name of the cluster has an address in the guest, no matter which.
CheckCRCLocalDNSReachable ==
  /\ At("checkGuest")
  /\ IF ~sys.user /\ guest.serves \in {None, Empty} THEN Refuse ELSE Skip("checkHost")

\* What the host finds for the names of the API and of an application.
APILookup ==
  IF sys.os = "windows" /\ ~sys.user
  THEN IF outer.interface = ip THEN {guest.serves} ELSE {}
  ELSE outer.hosts

\* On the user network an error is a warning, on macOS the applications are not looked up,
\* and on Linux the lookup may fail.
CheckCRCLocalDNSReachableFromHost ==
  /\ At("checkHost")
  /\ \/ (ip \in APILookup \/ sys.user) /\ Skip(Done)
     \/ ~sys.user /\ (ip \notin APILookup \/ (sys.os = "linux" /\ guest.serves # ip)) /\ Refuse

-----------------------------------------------------------------------------
\* The files that are emptied (install /dev/null) before they are filled.
Emptied ==
  IF pc = "keys" /\ guest.keys # "machine" THEN [guest EXCEPT !.keys = Empty]
  ELSE IF pc = "proxy" /\ want.proxy # None THEN [guest EXCEPT !.env = Empty]
  ELSE IF pc = "dnsConf" /\ ~sys.user THEN [guest EXCEPT !.conf = Empty]
  ELSE IF pc = "resolv" THEN [guest EXCEPT !.resolv = {}]
  ELSE guest

\* The command of a step fails, or the guest or crc goes away: Start ends there.
CommandFails ==
  /\ pc # None /\ Cardinality(broken) < MaxFaults
  /\ guest' \in {guest, Emptied}
  /\ pc' = None /\ result' = "error" /\ broken' = broken \cup {pc}
  /\ UNCHANGED <<sys, want, disk, ip, outer, starts>>

\* The user leaves the machine alone.
Rest == pc = None /\ starts = MaxStarts /\ UNCHANGED vars

Next ==
  \/ Boot \/ WaitForConnectivity \/ updateSSHKeyPair \/ growRootFileSystem \/ growfs
  \/ addNameServerToInstance \/ makeMutable \/ makeImmutable \/ configureSharedDirs
  \/ ChmodSocket \/ configurePodmanProxy \/ RemoveFromHostsFile \/ AddToHostsFile
  \/ WriteCockpitToken \/ updateCockpitConsoleBearerToken \/ createDnsmasqDNSConfig
  \/ EnableDnsmasq \/ StartDnsmasq \/ setInterfaceNameserver \/ createResolverFile
  \/ restartNetworkFails \/ CreateResolvFileOnInstance \/ CheckCRCLocalDNSReachable
  \/ CheckCRCLocalDNSReachableFromHost \/ CommandFails \/ Rest

Spec == Init /\ [][Next]_vars

-----------------------------------------------------------------------------
Steps ==
  {"connect", "keys", "growpart", "growfs", "nameserver", "mutable", "immutable", "mount", "socket",
   "proxy", "remove", "add", "tokenHost", "tokenGuest", "dnsConf", "dnsEnable", "dnsStart",
   "interface", "resolver", "resolv", "checkGuest", "checkHost"}

\* Type invariant.
TypeOK ==
  /\ sys \in Systems
  /\ want \in [ns : Nameservers \cup {None}, shared : {"off", "none", "dirs"}, proxy : Proxies \cup {None}]
  /\ disk \in 1..MaxDisk /\ ip \in PossibleIPs \cup {None}
  /\ guest.keys \in {"bundle", "machine", Empty} /\ guest.ignition \in BOOLEAN
  /\ guest.part \in 1..disk /\ guest.fs \in 1..guest.part
  /\ {guest.immutable, guest.mounted, guest.socket, guest.enabled} \subseteq BOOLEAN
  /\ guest.resolv \subseteq Nameservers \cup {Gateway, Dnsmasq, Dhcp}
  /\ {guest.conf, guest.serves} \subseteq PossibleIPs \cup {None, Empty}
  /\ guest.env \in Proxies \cup {None, Empty}
  /\ {guest.token, outer.token} \subseteq 0..MaxStarts
  /\ outer.hosts \subseteq PossibleIPs
  /\ {outer.resolver, outer.active, outer.interface} \subseteq PossibleIPs \cup {None}
  /\ pc \in Steps \cup {None} /\ result \in {None, "ok", "error"}
  /\ broken \subseteq Steps /\ starts \in 0..MaxStarts

\* Start has returned nil.
Started == pc = None /\ result = "ok"

(***************************************************************************)
(* "Trigger disk resize, this will be a no-op if no disk size change is    *)
(* needed" (start.go, before growRootFileSystem): after a start the file   *)
(* system fills the disk, whatever the earlier starts have come to, unless *)
(* the last that ran growpart failed before xfs_growfs: the one after it   *)
(* does not make that good, the next enlargement of the disk does.         *)
(***************************************************************************)
GrownUnlessTorn == (Started /\ "growfs" \notin broken) => guest.fs = disk

(***************************************************************************)
(* The same without the condition: a start that finds the partition grown  *)
(* and the file system not (growRootFileSystem asks growpart only).        *)
(***************************************************************************)
FileSystemGrown == Started => guest.fs = disk

(***************************************************************************)
(* After a start with the nameserver setting the guest has that name       *)
(* server, through the overriding of /etc/resolv.conf at the end of        *)
(* RunPostStart, unless the cluster is on the user network or the text of  *)
(* another name server contains the address.                               *)
(***************************************************************************)
NameserverKept ==
  (Started /\ want.ns # None /\ ~(sys.openshift /\ sys.user)
     /\ guest.resolv \cap (LooksLike[want.ns] \ {want.ns}) = {})
    => want.ns \in guest.resolv

(***************************************************************************)
(* "IPv4 address of nameserver to use for the instance" (the help of       *)
(* --nameserver in cmd/start.go): after a start the guest has it, on the   *)
(* user network too.                                                       *)
(***************************************************************************)
NameserverUsed ==
  (Started /\ want.ns # None /\ guest.resolv \cap (LooksLike[want.ns] \ {want.ns}) = {})
    => want.ns \in guest.resolv

(***************************************************************************)
(* "HasGivenNameserversConfigured returns true if the instance uses a      *)
(* provided nameserver" (nameservers.go): and only then, or                *)
(* addNameServerToInstance leaves it out.                                  *)
(***************************************************************************)
ConfiguredMeansUsed ==
  (At("nameserver") /\ want.ns # None /\ HasGivenNameserversConfigured(want.ns))
    => want.ns \in guest.resolv

(***************************************************************************)
(* A start ends with the shared directories mounted exactly if they are    *)
(* enabled and the driver lists them, and with / immutable ("Making /      *)
(* immutable again" in configureSharedDirs), also after one that failed    *)
(* while / was mutable; one that mounts nothing leaves that as it is.      *)
(***************************************************************************)
SharedAndSealed ==
  Started => /\ guest.mounted <=> want.shared = "dirs"
             /\ "immutable" \notin broken => guest.immutable
             /\ guest.mounted => guest.immutable

(***************************************************************************)
(* "Mounts host's home directory at '/' in the CRC VM" (the help of        *)
(* enable-shared-dirs in settings.go): after every start that has it set.  *)
(***************************************************************************)
SharedIsMounted == Started => (guest.mounted <=> want.shared # "off")

(***************************************************************************)
(* Where the host knows the machine by its hosts file (UpdateHostsFile,    *)
(* everywhere but on Windows' own network), after a start the names have   *)
(* the machine's address and no older one, though it may change with every *)
(* boot and an update may stop between the removal and the addition.       *)
(***************************************************************************)
HostsCurrent ==
  (Started /\ ~(sys.os = "windows" /\ ~sys.user /\ sys.openshift)) => outer.hosts = {ip}

(***************************************************************************)
(* On Windows' own network the check from the host                         *)
(* (CheckCRCLocalDNSReachableFromHost) sees to it that a start does not    *)
(* succeed while the DNS server of the guest answers with an older address. *)
(* Elsewhere off the user network it may, but not after the next boot if   *)
(* the machine has the same address again: setupDnsmasq has left that      *)
(* address and an enabled unit.                                            *)
(***************************************************************************)
AnswersChecked ==
  (Started /\ sys.openshift /\ ~sys.user)
    => /\ sys.os = "windows" => guest.serves = ip /\ outer.interface = ip
       /\ guest.enabled /\ guest.conf = ip

(***************************************************************************)
(* "Check DNS lookup from host to VM" (start.go): after a start off the    *)
(* user network the names of the applications lead to the machine, on      *)
(* macOS too.                                                              *)
(***************************************************************************)
AnswersCurrent == (Started /\ sys.openshift /\ ~sys.user) => guest.serves = ip

(***************************************************************************)
(* After a start on macOS the host's network works with the resolver file  *)
(* that names the machine (createResolverFile says when to restart it),    *)
(* unless the last restart has failed.                                     *)
(***************************************************************************)
ResolverUnlessTorn ==
  (Started /\ sys.openshift /\ sys.os = "darwin" /\ ~sys.user /\ "resolver" \notin broken)
    => outer.active = ip

(***************************************************************************)
(* "restartNetwork is required to update the resolver file on OSx"         *)
(* (dns_darwin.go): the same after a restart that has failed.              *)
(***************************************************************************)
ResolverActive ==
  (Started /\ sys.openshift /\ sys.os = "darwin" /\ ~sys.user) => outer.active = ip

(***************************************************************************)
(* After a start of Podman, the token on the host is the one the guest     *)
(* accepts (updateCockpitConsoleBearerToken writes the host's file first), *)
(* and a proxy that is set is the one of the guest.                        *)
(***************************************************************************)
PodmanSettled ==
  (Started /\ ~sys.openshift)
    => /\ guest.token = outer.token
       /\ want.proxy # None => guest.env = want.proxy
=============================================================================

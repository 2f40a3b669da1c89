--------------------------- MODULE PreflightLinux ---------------------------
(***************************************************************************)
(* The Linux checks: preflight_linux.go, preflight_checks_linux.go,        *)
(* preflight_checks_network_linux.go and preflight_ubuntu_linux.go.        *)
(*                                                                         *)
(* Fields of a host beside those of PreflightCommon: wsl, virt (the CPU    *)
(* flags), kvm, libvirt (the package), libvirtd (its service), inGroup     *)
(* (libvirt, in the user database), groupActive (for the processes of this *)
(* login), driver, session (does systemd answer this login), unit (the     *)
(* files of crc's systemd units), listening and enabled (sets of socket    *)
(* units), daemon (the version of the crc daemon that runs), apparmor,     *)
(* networkd, nm, resolved, file (NetworkManager's files of crc), network   *)
(* and networkUp (libvirt's "crc" network), cap (the capability of the     *)
(* executable), udevRule, oldUdevRule, vsock (the group of /dev/vsock),    *)
(* autoload, pool; systemctlFailed remembers that a stop or a              *)
(* daemon-reload, whose errors are ignored, has failed.                    *)
(***************************************************************************)
EXTENDS PreflightCommon

CONSTANTS
  Hosts, NetworkModes, Skipped, MaxFaults,   \* as in Preflight
  Distro,       \* "ubuntu", "rhel7" or "other"
  Environment   \* which of the events crc does not control happen

VARIABLES host, command, list, pos, failed, errs, last, quiet, smooth, faults   \* of Preflight

Sockets == {"http", "vsock"}
Units == Sockets \cup {"service"}
NMFiles == {"nm-dnsmasq", "dnsmasq", "dispatcher", "old-dispatcher"}

Linux == [Os |-> "linux"]
SystemdUser(v) == [Os |-> "linux", SystemdUser |-> v]
System == [Os |-> "linux", NetworkMode |-> "system"]
User == [Os |-> "linux", NetworkMode |-> "user"]
DNS(v) == [Os |-> "linux", NetworkMode |-> "system", DNS |-> v]

libvirtPreflightChecks ==
  << Check("check-virt-enabled", {}, Linux),
     Check("check-kvm-enabled", {}, Linux),
     Check("check-libvirt-installed", {}, Linux),
     Check("check-user-in-libvirt-group", {}, Linux),
     Check("check-libvirt-group-active", {"NoFix"}, Linux),
     Check("check-libvirt-running", {}, Linux),
     Check("check-libvirt-version", {"NoFix"}, Linux),
     Check("check-libvirt-driver", {}, Linux),
     CleanUp("storage-pool", Linux),
     CleanUp("crc-vm", Linux),
     WithCleanup(Check("check-daemon-systemd-unit", {"SetupOnly"}, SystemdUser("supported"))),
     WithCleanup(Check("check-daemon-systemd-sockets", {}, SystemdUser("supported"))),
     Check("no-daemon-autostart", {}, [Os |-> "linux", NetworkMode |-> "user",
                                       SystemdUser |-> "unsupported"]) >>

ubuntuPreflightChecks ==
  << WithCleanup(Check("check-apparmor-profile-setup", {},
                       [Os |-> "linux", Distro |-> "ubuntu"])) >>

nmPreflightChecks ==
  << Check("check-systemd-networkd-running", {"NoFix"}, System),
     Check("check-network-manager-installed", {"NoFix"}, System),
     Check("check-network-manager-running", {"NoFix"}, System) >>

systemdResolvedPreflightChecks ==
  << Check("check-dnsmasq-network-manager-config", {}, DNS("resolved")),
     Check("check-systemd-resolved-running", {"NoFix"}, DNS("resolved")),
     WithCleanup(Check("check-network-manager-dispatcher-file", {}, DNS("resolved"))) >>

dnsmasqPreflightChecks ==
  << WithCleanup(Check("check-network-manager-config", {}, DNS("dnsmasq"))),
     WithCleanup(Check("check-crc-dnsmasq-file", {}, DNS("dnsmasq"))) >>

libvirtNetworkPreflightChecks ==
  << WithCleanup(Check("check-crc-network", {}, System)),
     Check("check-crc-network-active", {}, System) >>

vsockPreflightCheck == WithCleanup(Check("check-vsock", {}, User))
wsl2PreflightCheck == Check("check-wsl2", {"NoFix"}, Linux)

LinuxChecks ==
  nonWinPreflightChecks \o <<wsl2PreflightCheck>> \o genericPreflightChecks
    \o genericCleanupChecks \o libvirtPreflightChecks \o ubuntuPreflightChecks
    \o nmPreflightChecks \o systemdResolvedPreflightChecks \o dnsmasqPreflightChecks
    \o libvirtNetworkPreflightChecks \o <<vsockPreflightCheck, bundleCheck>>

SetSystemdResolved(h) == IF h.resolved THEN "resolved" ELSE "dnsmasq"
SetDistro == IF Distro = "ubuntu" THEN "ubuntu" ELSE "other"
SetSystemdUser == IF Distro = "rhel7" THEN "unsupported" ELSE "supported"

\* The filters of getPreflightChecksForDistro,
LinuxFilter(mode, h) ==
  [Os |-> "linux", Distro |-> SetDistro, SystemdUser |-> SetSystemdUser,
   NetworkMode |-> mode, DNS |-> SetSystemdResolved(h)]

\* and of getAllPreflightChecks, for either network mode.
LinuxCleanUpFilter(h) ==
  [Os |-> "linux", DNS |-> SetSystemdResolved(h), Distro |-> SetDistro,
   SystemdUser |-> SetSystemdUser]

-----------------------------------------------------------------------------
\* libvirt and KVM.
checkRunningInsideWSL2(h) == ~h.wsl

\* Virtualization is enabled in the BIOS, which crc cannot do.
checkVirtualizationEnabled(h) == h.virt
fixVirtualizationEnabled(h) == Refused(h)
checkKvmEnabled(h) == h.kvm

\* The module for the CPU is loaded; no error for a CPU that is neither Intel's nor AMD's.
fixKvmEnabled(h) == IF h.virt THEN Run(h, [h EXCEPT !.kvm = TRUE]) ELSE Done(h)

\* virsh and a hypervisor that can run the guest: "bare" is virsh without one.
checkLibvirtInstalled(h) == h.libvirt \notin {"none", "bare"}
fixLibvirtInstalled(h) == Run(h, [h EXCEPT !.libvirt = "ok"])

checkLibvirtVersion(h) == h.libvirt \notin {"none", "old"}

checkUserPartOfLibvirtGroup(h) == h.inGroup
fixUserPartOfLibvirtGroup(h) == Run(h, [h EXCEPT !.inGroup = TRUE])

\* Only Ubuntu needs the group for the processes of this login.
checkCurrentGroups(h) == Distro # "ubuntu" \/ h.groupActive

checkLibvirtServiceRunning(h) == h.libvirtd
fixLibvirtServiceRunning(h) ==
  IF h.libvirt = "none" THEN Refused(h) ELSE Run(h, [h EXCEPT !.libvirtd = TRUE])

checkMachineDriverLibvirtInstalled(h) == IsCached(h.driver) /\ CheckVersion(h.driver)
fixMachineDriverLibvirtInstalled(h) ==
  {[o EXCEPT !.host = [h EXCEPT !.driver = o.host]] : o \in EnsureIsCached(h.driver)}

\* virsh answers while libvirt runs; the cleanups take an error for an absence.
Virsh(h) == h.libvirtd

removeLibvirtStoragePool(h) == RunIf(Virsh(h) /\ h.pool, h, [h EXCEPT !.pool = FALSE])

\* A running machine is switched off, then undefined.
removeCrcVM(h) ==
  IF ~Virsh(h) \/ h.vm = "none" THEN Done(h)
  ELSE Then(RunIf(h.vm = "running", h, [h EXCEPT !.vm = "off"]),
            LAMBDA a : Run(a, [a EXCEPT !.vm = "none"]))

checkLibvirtCrcNetworkDefinition(h) == h.network = "ok"
checkLibvirtCrcNetworkAvailable(h) ==
  Virsh(h) /\ h.network # "none" /\ checkLibvirtCrcNetworkDefinition(h)

\* net-destroy and net-undefine, whose errors are ignored, then net-define.
fixLibvirtCrcNetworkAvailable(h) ==
  IF ~Virsh(h) THEN Refused(h)
  ELSE Then(Ignore(RunIf(h.networkUp, h, [h EXCEPT !.networkUp = FALSE])),       LAMBDA a :
       Then(Ignore(RunIf(a.network # "none", a, [a EXCEPT !.network = "none"])), LAMBDA b :
            Run(b, [b EXCEPT !.network = "ok"])))

\* net-destroy of a network that is not active is an error.
removeLibvirtCrcNetwork(h) ==
  IF ~Virsh(h) \/ h.network = "none" THEN Done(h)
  ELSE IF ~h.networkUp THEN Refused(h)
  ELSE Then(Run(h, [h EXCEPT !.networkUp = FALSE]),
            LAMBDA a : Run(a, [a EXCEPT !.network = "none"]))

checkLibvirtCrcNetworkActive(h) == Virsh(h) /\ h.network # "none" /\ h.networkUp

\* net-start, then net-autostart.
fixLibvirtCrcNetworkActive(h) ==
  IF ~Virsh(h) \/ h.network = "none" \/ h.networkUp THEN Refused(h)
  ELSE Then(Run(h, [h EXCEPT !.networkUp = TRUE]), LAMBDA a : Run(a, a))

-----------------------------------------------------------------------------
\* The systemd units: a socket unit is active when it listens, the service when the daemon runs.
Active(h, u) == IF u = "service" THEN h.daemon # "none" ELSE u \in h.listening

\* A unit whose status cannot be had counts as one that does not run.
systemdUnitRunning(h, u) == h.session /\ Active(h, u)

checkSystemdUnit(h, u, shouldBeRunning) ==
  systemdUnitRunning(h, u) = shouldBeRunning /\ h.unit[u] = "new"

checkDaemonSystemdSockets(h) ==
  checkSystemdUnit(h, "http", TRUE) /\ checkSystemdUnit(h, "vsock", TRUE)

checkDaemonSystemdService(h) == checkSystemdUnit(h, "service", FALSE)

\* systemctl stop.
StopUnit(h, u) ==
  IF ~h.session THEN Refused([h EXCEPT !.systemctlFailed = TRUE])
  ELSE Done(IF u = "service" THEN [h EXCEPT !.daemon = "none"] ELSE [h EXCEPT !.listening = @ \ {u}])
         \cup IF Active(h, u) THEN Faulty([h EXCEPT !.systemctlFailed = TRUE]) ELSE {}

\* systemd reads the unit files again; an error is ignored.
DaemonReload(h) ==
  IF ~h.session THEN Done([h EXCEPT !.systemctlFailed = TRUE])
  ELSE Done(h) \cup Ignore(Faulty([h EXCEPT !.systemctlFailed = TRUE]))

WriteUnit(h, u) ==
  IF h.unit[u] = "new" THEN Done(h)
  ELSE Then(Run(h, [h EXCEPT !.unit[u] = "new"]), DaemonReload)

\* systemctl enable, then daemon-reload and start.
StartUnit(h, u) ==
  Then(IF h.session THEN Run(h, [h EXCEPT !.enabled = @ \cup {u}]) ELSE Refused(h), LAMBDA a :
  Then(DaemonReload(a),                           LAMBDA b :
       Run(b, [b EXCEPT !.listening = @ \cup {u}])))

\* The file is written if it differs; then the unit is enabled and started, or stopped.
fixSystemdUnit(h, u, shouldBeRunning) ==
  Then(WriteUnit(h, u), LAMBDA a :
       IF ~systemdUnitRunning(a, u) /\ shouldBeRunning THEN StartUnit(a, u)
       ELSE IF systemdUnitRunning(a, u) /\ ~shouldBeRunning THEN StopUnit(a, u)
       ELSE Done(a))

fixDaemonSystemdSockets(h) ==
  Then(fixSystemdUnit(h, "http", TRUE), LAMBDA a : fixSystemdUnit(a, "vsock", TRUE))

fixDaemonSystemdService(h) == fixSystemdUnit(h, "service", FALSE)

\* A unit is stopped and its file removed, and neither error is looked at.
RemoveUnit(h, u) ==
  Then(Ignore(StopUnit(h, u)), LAMBDA a : Ignore(RunIf(a.unit[u] # "none", a, [a EXCEPT !.unit[u] = "none"])))

removeDaemonSystemdSockets(h) == Then(RemoveUnit(h, "http"), LAMBDA a : RemoveUnit(a, "vsock"))
removeDaemonSystemdService(h) == RemoveUnit(h, "service")

warnNoDaemonAutostart(h) == TRUE

-----------------------------------------------------------------------------
\* Files written with sudo tee and chmod, and NetworkManager reloading them.
WriteToFileAsRoot(h, g) == Run(h, g) \cup Faulty(g)
RemoveFileAsRoot(h, g) == RunIf(g # h, h, g)
ReloadNetworkManager(h) == IF h.nm = "running" THEN Run(h, h) ELSE Refused(h)

fixNetworkManagerConfigFile(h, f) ==
  Then(WriteToFileAsRoot(h, [h EXCEPT !.file[f] = "ok"]), ReloadNetworkManager)

\* Without NetworkManager there are no files of it.
removeNetworkManagerConfigFile(h, f) ==
  IF h.nm = "absent" \/ h.file[f] = "none" THEN Done(h)
  ELSE Then(RemoveFileAsRoot(h, [h EXCEPT !.file[f] = "none"]), ReloadNetworkManager)

checkCrcDnsmasqConfigFile(h) == h.file["dnsmasq"] = "ok"
fixCrcDnsmasqConfigFile(h) == fixNetworkManagerConfigFile(h, "dnsmasq")
removeCrcDnsmasqConfigFile(h) == removeNetworkManagerConfigFile(h, "dnsmasq")

checkCrcNetworkManagerConfig(h) == h.file["nm-dnsmasq"] = "ok"
fixCrcNetworkManagerConfig(h) == fixNetworkManagerConfigFile(h, "nm-dnsmasq")
removeCrcNetworkManagerConfig(h) == removeNetworkManagerConfigFile(h, "nm-dnsmasq")

checkSystemdNetworkdIsNotRunning(h) == ~h.networkd
checkNetworkManagerInstalled(h) == h.nm # "absent"
checkNetworkManagerIsRunning(h) == h.nm = "running"
checkSystemdResolvedIsRunning(h) == h.resolved

\* The dispatcher script, and the place crc 1.20 kept it in.
checkCrcNetworkManagerDispatcherFile(h) == h.file["dispatcher"] = "ok"

fixCrcNetworkManagerDispatcherFile(h) ==
  Then(Ignore(removeNetworkManagerConfigFile(h, "old-dispatcher")),
       LAMBDA a : fixNetworkManagerConfigFile(a, "dispatcher"))

removeCrcNetworkManagerDispatcherFile(h) ==
  Then(Ignore(removeNetworkManagerConfigFile(h, "old-dispatcher")),
       LAMBDA a : removeNetworkManagerConfigFile(a, "dispatcher"))

\* With systemd-resolved the files for dnsmasq must not be there.
checkCrcDnsmasqAndNetworkManagerConfigFile(h) ==
  h.file["dnsmasq"] = "none" /\ h.file["nm-dnsmasq"] = "none"

fixCrcDnsmasqAndNetworkManagerConfigFile(h) ==
  Then(Ignore(removeCrcNetworkManagerConfig(h)),
       LAMBDA a : Ignore(removeCrcDnsmasqConfigFile(a)))

\* The exception in libvirt's AppArmor template, which has to have the known header.
checkAppArmorExceptionIsPresent(h) == h.apparmor = "excepted"

replaceInAppArmorTemplate(h, before, after) ==
  IF h.apparmor \notin before THEN Refused(h)
  ELSE WriteToFileAsRoot(h, [h EXCEPT !.apparmor = after])

addAppArmorExceptionForQcowDisks(h) ==
  replaceInAppArmorTemplate(h, {"plain", "excepted"}, "excepted")
removeAppArmorExceptionForQcowDisks(h) ==
  replaceInAppArmorTemplate(h, {"excepted"}, "plain")

-----------------------------------------------------------------------------
\* /dev/vsock, which the udev rule gives to the libvirt group.
VsockAccess(h) == h.vsock = "libvirt" /\ h.groupActive

checkVsock(h) == h.cap /\ h.udevRule # "none" /\ VsockAccess(h)

\* udevadm trigger for a device that cannot be opened, else modprobe.
LoadVsock(h) ==
  Run(h, IF h.vsock = "none" \/ ~VsockAccess(h) THEN [h EXCEPT !.vsock = "libvirt"] ELSE h)

fixVsock(h) ==
  Then(Run(h, [h EXCEPT !.cap = TRUE]),                       LAMBDA a :
  Then(RemoveFileAsRoot(a, [a EXCEPT !.oldUdevRule = FALSE]), LAMBDA b :
  Then(IF b.udevRule = "ok" THEN Done(b)
       ELSE Then(WriteToFileAsRoot(b, [b EXCEPT !.udevRule = "ok"]), LAMBDA c : Run(c, c)),
                                                              LAMBDA d :
  Then(LoadVsock(d),                                          LAMBDA e :
       IF e.autoload THEN Done(e) ELSE WriteToFileAsRoot(e, [e EXCEPT !.autoload = TRUE])))))

removeVsockCrcSettings(h) ==
  Also(RemoveFileAsRoot(h, [h EXCEPT !.oldUdevRule = FALSE]), LAMBDA a :
  Also(RemoveFileAsRoot(a, [a EXCEPT !.udevRule = "none"]),   LAMBDA b :
       RemoveFileAsRoot(b, [b EXCEPT !.autoload = FALSE])))

-----------------------------------------------------------------------------
\* The functions of the checks, by name.
LinuxCheck(name, h) ==
  CASE name = "check-root-user"                -> checkIfRunningAsNormalUser(h)
    [] name = "check-wsl2"                     -> checkRunningInsideWSL2(h)
    [] name = "check-admin-helper-cached"      -> checkAdminHelperExecutableCached(h)
    [] name = "check-supported-cpu-arch"       -> checkSupportedCPUArch(h)
    [] name = "check-ram"                      -> ValidateEnoughMemory(h)
    [] name = "check-crc-symlink"              -> checkCrcSymlink(h)
    [] name = "check-virt-enabled"             -> checkVirtualizationEnabled(h)
    [] name = "check-kvm-enabled"              -> checkKvmEnabled(h)
    [] name = "check-libvirt-installed"        -> checkLibvirtInstalled(h)
    [] name = "check-user-in-libvirt-group"    -> checkUserPartOfLibvirtGroup(h)
    [] name = "check-libvirt-group-active"     -> checkCurrentGroups(h)
    [] name = "check-libvirt-running"          -> checkLibvirtServiceRunning(h)
    [] name = "check-libvirt-version"          -> checkLibvirtVersion(h)
    [] name = "check-libvirt-driver"           -> checkMachineDriverLibvirtInstalled(h)
    [] name = "check-daemon-systemd-unit"      -> checkDaemonSystemdService(h)
    [] name = "check-daemon-systemd-sockets"   -> checkDaemonSystemdSockets(h)
    [] name = "no-daemon-autostart"            -> warnNoDaemonAutostart(h)
    [] name = "check-apparmor-profile-setup"   -> checkAppArmorExceptionIsPresent(h)
    [] name = "check-systemd-networkd-running" -> checkSystemdNetworkdIsNotRunning(h)
    [] name = "check-network-manager-installed" -> checkNetworkManagerInstalled(h)
    [] name = "check-network-manager-running"  -> checkNetworkManagerIsRunning(h)
    [] name = "check-dnsmasq-network-manager-config" -> checkCrcDnsmasqAndNetworkManagerConfigFile(h)
    [] name = "check-systemd-resolved-running" -> checkSystemdResolvedIsRunning(h)
    [] name = "check-network-manager-dispatcher-file" -> checkCrcNetworkManagerDispatcherFile(h)
    [] name = "check-network-manager-config"   -> checkCrcNetworkManagerConfig(h)
    [] name = "check-crc-dnsmasq-file"         -> checkCrcDnsmasqConfigFile(h)
    [] name = "check-crc-network"              -> checkLibvirtCrcNetworkAvailable(h)
    [] name = "check-crc-network-active"       -> checkLibvirtCrcNetworkActive(h)
    [] name = "check-vsock"                    -> checkVsock(h)
    [] name = "check-bundle-extracted"         -> checkBundleExtracted(h)

LinuxFix(name, h) ==
  CASE name = "check-admin-helper-cached"      -> fixAdminHelperExecutableCached(h)
    [] name = "check-crc-symlink"              -> fixCrcSymlink(h)
    [] name = "check-virt-enabled"             -> fixVirtualizationEnabled(h)
    [] name = "check-kvm-enabled"              -> fixKvmEnabled(h)
    [] name = "check-libvirt-installed"        -> fixLibvirtInstalled(h)
    [] name = "check-user-in-libvirt-group"    -> fixUserPartOfLibvirtGroup(h)
    [] name = "check-libvirt-running"          -> fixLibvirtServiceRunning(h)
    [] name = "check-libvirt-driver"           -> fixMachineDriverLibvirtInstalled(h)
    [] name = "check-daemon-systemd-unit"      -> fixDaemonSystemdService(h)
    [] name = "check-daemon-systemd-sockets"   -> fixDaemonSystemdSockets(h)
    [] name = "check-apparmor-profile-setup"   -> addAppArmorExceptionForQcowDisks(h)
    [] name = "check-dnsmasq-network-manager-config" -> fixCrcDnsmasqAndNetworkManagerConfigFile(h)
    [] name = "check-network-manager-dispatcher-file" -> fixCrcNetworkManagerDispatcherFile(h)
    [] name = "check-network-manager-config"   -> fixCrcNetworkManagerConfig(h)
    [] name = "check-crc-dnsmasq-file"         -> fixCrcDnsmasqConfigFile(h)
    [] name = "check-crc-network"              -> fixLibvirtCrcNetworkAvailable(h)
    [] name = "check-crc-network-active"       -> fixLibvirtCrcNetworkActive(h)
    [] name = "check-vsock"                    -> fixVsock(h)
    [] name = "check-bundle-extracted"         -> fixBundleExtracted(h)

LinuxCleanup(name, h) ==
  CASE name = "check-crc-symlink"              -> removeCrcSymlink(h)
    [] name = "machines-dir"                   -> removeCRCMachinesDir(h)
    [] name = "old-logs"                       -> removeOldLogs(h)
    [] name = "pull-secret"                    -> ForgetPullSecret(h)
    [] name = "hosts-file"                     -> removeHostsFileEntry(h)
    [] name = "storage-pool"                   -> removeLibvirtStoragePool(h)
    [] name = "crc-vm"                         -> removeCrcVM(h)
    [] name = "check-daemon-systemd-unit"      -> removeDaemonSystemdService(h)
    [] name = "check-daemon-systemd-sockets"   -> removeDaemonSystemdSockets(h)
    [] name = "check-apparmor-profile-setup"   -> removeAppArmorExceptionForQcowDisks(h)
    [] name = "check-network-manager-dispatcher-file" -> removeCrcNetworkManagerDispatcherFile(h)
    [] name = "check-network-manager-config"   -> removeCrcNetworkManagerConfig(h)
    [] name = "check-crc-dnsmasq-file"         -> removeCrcDnsmasqConfigFile(h)
    [] name = "check-crc-network"              -> removeLibvirtCrcNetwork(h)
    [] name = "check-vsock"                    -> removeVsockCrcSettings(h)

\* The engine, over this list.
INSTANCE Preflight
  WITH getChecks <- LinuxChecks, Filter <- LinuxFilter, CleanUpFilter <- LinuxCleanUpFilter,
       Prepared <- PrepareBundleFix, check <- LinuxCheck, fix <- LinuxFix, cleanup <- LinuxCleanup

-----------------------------------------------------------------------------
(***************************************************************************)
(* What happens on the host without crc's doing.                           *)
(***************************************************************************)
\* A client connects to a socket unit, and systemd starts the service for it:
\* the crc that a unit file of this version names is the one of the symlink;
\* a unit that has not been reloaded may be the one of before, and one whose file
\* is gone is still known to systemd.
ClientConnects ==
  /\ "client" \in Environment
  /\ host.listening # {} /\ host.daemon = "none"
  /\ \E started \in {IF host.unit["service"] = "old" THEN "old" ELSE host.symlink}
                       \cup {v \in {"old"} : host.systemctlFailed \/ host.unit["service"] = "none"} :
       started # "none" /\ Disturb([host EXCEPT !.daemon = started])

DaemonExits ==
  /\ "client" \in Environment
  /\ host.daemon # "none"
  /\ Disturb([host EXCEPT !.daemon = "none"])

\* The user logs out and in again.
Relogin ==
  /\ "relogin" \in Environment
  /\ host.groupActive # host.inGroup
  /\ Disturb([host EXCEPT !.groupActive = host.inGroup])

\* Another release of crc is installed, with or without other unit files.
Upgrade ==
  /\ "upgrade" \in Environment
  /\ command = "none"
  /\ \E units \in {host.unit, [u \in Units |-> IF host.unit[u] = "none" THEN "none" ELSE "old"]} :
       host' = [host EXCEPT !.symlink = IF @ = "new" THEN "old" ELSE @,
                            !.daemon = IF @ = "new" THEN "old" ELSE @,
                            !.unit = units,
                            !.driver = IF @ = "none" THEN @ ELSE "stale",
                            !.bundle = "none"]
  /\ last' = NoResult
  /\ UNCHANGED <<command, list, pos, failed, errs, quiet, smooth, faults>>

\* crc is run in a login of the same user that systemd does not answer, or in another one again.
SessionSwitches ==
  /\ "session" \in Environment
  /\ command = "none"
  /\ Disturb([host EXCEPT !.session = ~@])

\* systemd-resolved is enabled or disabled.
ResolverSwitches ==
  /\ "resolver" \in Environment
  /\ command = "none"
  /\ Disturb([host EXCEPT !.resolved = ~@])

Next ==
  \/ Engine
  \/ ClientConnects
  \/ DaemonExits
  \/ Relogin
  \/ Upgrade
  \/ SessionSwitches
  \/ ResolverSwitches

Spec == Init /\ [][Next]_vars

-----------------------------------------------------------------------------
\* Type invariant: the loop, and the fields of a Linux host.
TypeOK ==
  /\ LoopTypeOK
  /\ host.symlink \in {"none", "old", "new"} /\ host.daemon \in {"none", "old", "new"}
  /\ host.unit \in [Units -> {"none", "old", "new"}]
  /\ host.listening \subseteq Sockets /\ host.enabled \subseteq Sockets
  /\ host.file \in [NMFiles -> {"none", "stale", "ok"}]
  /\ host.network \in {"none", "stale", "ok"} /\ host.vm \in {"none", "off", "running"}

(***************************************************************************)
(* "the daemon should not be running at the end of setup, as it must be    *)
(* restarted on upgrades" (preflight_checks_linux.go).  A client may start *)
(* it again at any moment through the sockets, so what "crc setup" can     *)
(* ensure is that a daemon found after it is not one of the earlier        *)
(* release, unless systemd has not reloaded the unit: the link and the     *)
(* unit file are renewed before the daemon is stopped, and a login without *)
(* systemd, to which a daemon that runs looks stopped, is found out by the *)
(* check of the sockets.                                                   *)
(***************************************************************************)
NoStaleDaemon ==
  (command = "none" /\ last = [of |-> "setup", is |-> "ok"] /\ ~host.systemctlFailed)
     => host.daemon # "old"

(***************************************************************************)
(* When "crc cleanup" returns, with or without an error, no crc daemon     *)
(* runs and no socket is left to start one, unless systemctl has failed,   *)
(* whenever clients have connected: the sockets go before the service      *)
(* (removeDaemonSystemdSockets, removeDaemonSystemdService), and the       *)
(* cleanup goes on after the errors of others.  The unit files are gone    *)
(* unless removing one has failed.                                         *)
(***************************************************************************)
CleanupStopsDaemon ==
  (command = "none" /\ last.of = "cleanup")
     => /\ host.systemctlFailed \/ (host.daemon = "none" /\ host.listening = {})
        /\ smooth => \A u \in Units : host.unit[u] = "none"

(***************************************************************************)
(* Whatever earlier commands that failed halfway have left, a "crc setup"  *)
(* during which nothing fails ends early only at a check that crc cannot   *)
(* fix: by the order of the checks in getChecks, each fix finds in place   *)
(* what it needs.                                                          *)
(***************************************************************************)
OnlyUnfixableStops ==
  (command = "none" /\ last = [of |-> "setup", is |-> "error"] /\ quiet /\ smooth)
     => \/ "NoFix" \in Item(pos).flags
        \/ Item(pos).name = "check-virt-enabled"
        \/ Item(pos).name = "check-bundle-extracted" /\ host.bundle = "missing"
        \/ Item(pos).name = "check-apparmor-profile-setup" /\ host.apparmor = "unexpected"

(***************************************************************************)
(* The configuration that the setups of either network mode have left is   *)
(* gone when "crc cleanup" returns nil and virsh could answer it:          *)
(* getAllPreflightChecks leaves the network mode out of its filter.  It    *)
(* does not leave out the resolver: of the files for NetworkManager only   *)
(* those for the resolver in use are, and the others stay that a setup has *)
(* written before systemd-resolved was turned on or off.                   *)
(***************************************************************************)
FilesInUse(h) == IF h.resolved THEN {"dispatcher"} ELSE {"nm-dnsmasq", "dnsmasq"}

CleanupRemovesFiles ==
  (command = "none" /\ last = [of |-> "cleanup", is |-> "ok"] /\ quiet /\ Virsh(host))
     => /\ \A f \in FilesInUse(host) : host.file[f] = "none"
        /\ host.network = "none" /\ host.vm = "none" /\ ~host.machinesDir
        /\ host.udevRule = "none" /\ ~host.autoload
        /\ host.apparmor # "excepted" /\ host.symlink = "none"

(***************************************************************************)
(* "Undo all the configuration changes done by 'crc setup' command" (the   *)
(* help of "crc cleanup", cmd/crc/cmd/cleanup.go): what setup has written  *)
(* for NetworkManager and systemd is gone when cleanup returns nil.        *)
(***************************************************************************)
CleanupUndoesSetup ==
  (command = "none" /\ last = [of |-> "cleanup", is |-> "ok"])
     => /\ \A f \in NMFiles : host.file[f] = "none"
        /\ host.enabled = {}

=============================================================================

---------------------------- MODULE MCPreflight ----------------------------
(***************************************************************************)
(* For TLC: setups, starts and cleanups on the three platforms.  A         *)
(* behaviour is of one of the settings below from beginning to end.        *)
(***************************************************************************)
EXTENDS Naturals, Sequences

VARIABLES setting, host, command, list, pos, failed, errs, last, quiet, smooth, faults

Modes == {"user", "system"}

-----------------------------------------------------------------------------
\* A Linux host with nothing of crc, and a libvirt that works.
Sockets == {"http", "vsock"}
Units == Sockets \cup {"service"}
NMFiles == {"nm-dnsmasq", "dnsmasq", "dispatcher", "old-dispatcher"}

Bare ==
  [root |-> FALSE, arch |-> TRUE, ram |-> TRUE, wsl |-> FALSE, virt |-> TRUE, kvm |-> TRUE,
   helper |-> "suid", symlink |-> "none", bundle |-> "extracted", cacheMode |-> "0775",
   machinesDir |-> FALSE, logs |-> FALSE, pullSecret |-> FALSE, hostsFile |-> FALSE,
   vm |-> "none", pool |-> FALSE, libvirt |-> "ok", libvirtd |-> TRUE, inGroup |-> TRUE,
   groupActive |-> TRUE, driver |-> "plain", session |-> TRUE, unit |-> [u \in Units |-> "none"],
   listening |-> {}, enabled |-> {}, daemon |-> "none", apparmor |-> "plain",
   networkd |-> FALSE, nm |-> "running", resolved |-> FALSE,
   file |-> [f \in NMFiles |-> "none"], network |-> "none", networkUp |-> FALSE,
   cap |-> TRUE, udevRule |-> "ok", oldUdevRule |-> FALSE, vsock |-> "libvirt",
   autoload |-> TRUE, systemctlFailed |-> FALSE]

\* The daemon's units as a release before this one may have left them,
Upgraded ==
  {[Bare EXCEPT !.symlink = s, !.unit = [u \in Units |-> f],
                !.listening = Sockets, !.enabled = Sockets, !.daemon = d] :
     s \in {"old", "new"}, f \in {"old", "new"}, d \in {"none", "old"}}

\* a machine that has never been prepared for virtualization,
Unprepared ==
  {[Bare EXCEPT !.virt = (l # "none"), !.kvm = FALSE, !.libvirt = l, !.libvirtd = FALSE, !.inGroup = FALSE,
                !.groupActive = FALSE, !.driver = "none", !.helper = "none", !.cap = FALSE,
                !.udevRule = "none", !.oldUdevRule = TRUE, !.vsock = "none", !.autoload = FALSE,
                !.bundle = IF l = "bare" THEN "missing" ELSE "none", !.cacheMode = "other",
                !.arch = (l # "none"), !.root = (l = "none")] :
     l \in {"none", "bare", "old"}}

\* NetworkManager with what earlier commands have left, and a machine,
SystemHosts ==
  {[Bare EXCEPT !.resolved = r, !.network = n, !.networkUp = (n = "stale"),
                !.vm = v, !.machinesDir = (v # "none"), !.pool = (v # "none"),
                !.hostsFile = TRUE, !.pullSecret = TRUE, !.logs = TRUE] :
     r \in BOOLEAN, n \in {"none", "stale"}, v \in {"none", "off", "running"}} \cup
  {[Bare EXCEPT !.resolved = r,
                !.file = [x \in NMFiles |-> IF (x \in {"dispatcher", "old-dispatcher"}) = r
                                            THEN "stale" ELSE "none"]] : r \in BOOLEAN}

\* and hosts that system networking cannot be set up on.
Unsuitable ==
  {[Bare EXCEPT !.networkd = TRUE], [Bare EXCEPT !.nm = "absent"], [Bare EXCEPT !.nm = "stopped"],
   [Bare EXCEPT !.apparmor = "unexpected"], [Bare EXCEPT !.wsl = TRUE],
   [Bare EXCEPT !.libvirtd = FALSE, !.vm = "off", !.machinesDir = TRUE]}

\* Setups, upgrades and cleanups with user networking, and clients of the daemon;
User == INSTANCE PreflightLinux
  WITH Hosts <- {Bare} \cup Upgraded, NetworkModes <- {"user"}, Skipped <- {}, MaxFaults <- 1,
       Installer <- FALSE, Distro <- "other", Environment <- {"client", "upgrade"}

\* the same from logins some of which systemd does not answer;
Login == INSTANCE PreflightLinux
  WITH Hosts <- {Bare} \cup Upgraded, NetworkModes <- {"user"}, Skipped <- {}, MaxFaults <- 0,
       Installer <- FALSE, Distro <- "other", Environment <- {"client", "upgrade", "session"}

\* with both modes, on hosts in any condition;
System == INSTANCE PreflightLinux
  WITH Hosts <- SystemHosts \cup Unsuitable, NetworkModes <- Modes, Skipped <- {"check-ram"}, MaxFaults <- 0,
       Installer <- FALSE, Distro <- "ubuntu", Environment <- {"resolver"}

\* and on hosts never prepared, where a command may fail.
Fresh == INSTANCE PreflightLinux
  WITH Hosts <- Unprepared, NetworkModes <- Modes, Skipped <- {}, MaxFaults <- 1,
       Installer <- FALSE, Distro <- "other", Environment <- {"relogin"}

-----------------------------------------------------------------------------
\* A Mac with nothing of crc,
BareMac ==
  [root |-> FALSE, arch |-> TRUE, ram |-> TRUE, m1 |-> FALSE, helper |-> "suid",
   symlink |-> "none", bundle |-> "extracted", cacheMode |-> "0775", machinesDir |-> FALSE,
   logs |-> FALSE, pullSecret |-> FALSE, hostsFile |-> FALSE, vm |-> "none", vfkit |-> "plain",
   resolver |-> "none", plist |-> "none", loaded |-> FALSE, agent |-> FALSE, daemon |-> "none",
   oldPlists |-> FALSE]

\* and one prepared by another release, whose daemon launchd or the user has started.
UpgradedMac ==
  {[BareMac EXCEPT !.symlink = "old", !.plist = "old", !.loaded = TRUE, !.daemon = "old",
                   !.agent = a, !.oldPlists = TRUE, !.vfkit = "broken", !.helper = "stale",
                   !.vm = "running", !.machinesDir = TRUE, !.hostsFile = TRUE, !.logs = TRUE] :
     a \in BOOLEAN}

MacHosts ==
  {BareMac, [BareMac EXCEPT !.m1 = TRUE], [BareMac EXCEPT !.resolver = "root"]} \cup UpgradedMac

Mac == INSTANCE PreflightDarwin
  WITH Hosts <- MacHosts, NetworkModes <- Modes, Skipped <- {}, MaxFaults <- 1, Installer <- FALSE

-----------------------------------------------------------------------------
\* A Windows on which crc has been installed,
Installed ==
  [admin |-> FALSE, release |-> 1709, edition |-> "pro", hyperv |-> TRUE, vmms |-> TRUE,
   switch |-> TRUE, usersGroup |-> TRUE, vsockKey |-> TRUE, inGroups |-> TRUE,
   bundle |-> "extracted", cacheMode |-> "0775", helper |-> "suid", service |-> TRUE,
   machinesDir |-> FALSE, logs |-> FALSE, pullSecret |-> FALSE, hostsFile |-> FALSE,
   vm |-> "none", task |-> "none", taskRunning |-> FALSE, daemon |-> "none", dns |-> FALSE]

\* one where an earlier release has run a machine in either network mode,
Used ==
  {[Installed EXCEPT !.task = "old", !.taskRunning = r, !.daemon = IF r THEN "old" ELSE "none",
                     !.vm = v, !.machinesDir = (v # "none"), !.hostsFile = TRUE,
                     !.dns = d, !.inGroups = g, !.bundle = "none"] :
     r \in BOOLEAN, v \in {"none", "off", "running"}, d \in BOOLEAN, g \in BOOLEAN}

\* and some that are not fit for it.
Lacking ==
  {[Installed EXCEPT !.service = FALSE, !.helper = "none"],
   [Installed EXCEPT !.edition = "core"], [Installed EXCEPT !.release = 1703],
   [Installed EXCEPT !.hyperv = FALSE, !.vmms = FALSE, !.admin = TRUE]}

Windows == INSTANCE PreflightWindows
  WITH Hosts <- {Installed} \cup Used \cup Lacking, NetworkModes <- Modes, Skipped <- {}, MaxFaults <- 1,
       Installer <- TRUE

-----------------------------------------------------------------------------
vars == <<setting, host, command, list, pos, failed, errs, last, quiet, smooth, faults>>

MCInit ==
  \/ setting = "user" /\ User!Init
  \/ setting = "login" /\ Login!Init
  \/ setting = "system" /\ System!Init
  \/ setting = "fresh" /\ Fresh!Init
  \/ setting = "mac" /\ Mac!Init
  \/ setting = "windows" /\ Windows!Init

MCNext ==
  /\ setting' = setting
  /\ \/ setting = "user" /\ User!Next
     \/ setting = "login" /\ Login!Next
     \/ setting = "system" /\ System!Next
     \/ setting = "fresh" /\ Fresh!Next
     \/ setting = "mac" /\ Mac!Next
     \/ setting = "windows" /\ Windows!Next

MCSpec == MCInit /\ [][MCNext]_vars

-----------------------------------------------------------------------------
\* Type invariants of the platforms.
TypesOK ==
  /\ setting = "user" => User!TypeOK
  /\ setting = "login" => Login!TypeOK
  /\ setting = "mac" => Mac!TypeOK
  /\ setting = "windows" => Windows!TypeOK

(***************************************************************************)
(* A daemon of an earlier release does not survive a "crc setup" that      *)
(* returns nil: on Linux unless an ignored error of systemctl has left it, *)
(* on macOS whether launchd or the user has started it, on Windows even if *)
(* stopping its task has left it running.                                  *)
(***************************************************************************)
NoStaleDaemon ==
  /\ setting = "user" => User!NoStaleDaemon
  /\ setting = "login" => Login!NoStaleDaemon
  /\ setting = "mac" => Mac!NoStaleDaemon
  /\ setting = "windows" => Windows!NoStaleDaemon

(***************************************************************************)
(* The cleanup does what it should in an order that suits.  Afterwards     *)
(* nothing starts the daemon on Linux any more, however clients connect    *)
(* meanwhile; one that returns nil leaves none of crc's files for the      *)
(* resolver in use on Linux, and launchd and the resolver of macOS as      *)
(* before crc.  The directory of the machine goes after the machine, on    *)
(* Linux and macOS.                                                        *)
(***************************************************************************)
CleanupComplete ==
  /\ TypesOK
  /\ setting = "user" => User!CleanupStopsDaemon
  /\ setting = "login" => Login!CleanupStopsDaemon
  /\ setting = "system" => System!CleanupRemovesFiles /\ System!MachineStoppedFirst
  /\ setting = "mac" => Mac!CleanupUndoes /\ Mac!MachineStoppedFirst

(***************************************************************************)
(* The order of the checks suits their fixes.  On Windows every check      *)
(* "crc setup" is past would pass again; on Linux a setup in which no      *)
(* command fails stops only at what crc cannot fix, and no fix undoes what *)
(* a check before it has found in order.                                   *)
(***************************************************************************)
SetupEstablishes ==
  /\ [](setting = "windows" => Windows!SetupEstablishes)
  /\ [](setting = "fresh" => Fresh!OnlyUnfixableStops)
  /\ [][setting = "system" => System!FixKeepsChecks]_vars

=============================================================================

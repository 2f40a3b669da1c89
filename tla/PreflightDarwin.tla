-------------------------- MODULE PreflightDarwin --------------------------
(***************************************************************************)
(* The macOS checks: preflight_darwin.go, preflight_checks_darwin.go,      *)
(* preflight_checks_nonlinux.go and pkg/os/launchd.                        *)
(*                                                                         *)
(* Fields of a host beside those of PreflightCommon: m1 (crc is emulated), *)
(* vfkit (the cached executable), resolver (/etc/resolver/testing: absent, *)
(* of root, or of the user), plist (launchd's file for the daemon), loaded *)
(* (launchd knows it), agent (the daemon that runs is launchd's), daemon   *)
(* (its version) and oldPlists (those of earlier releases).                *)
(***************************************************************************)
EXTENDS PreflightCommon

CONSTANTS Hosts, NetworkModes, Skipped, MaxFaults   \* as in Preflight

VARIABLES host, command, list, pos, failed, errs, last, quiet, smooth, faults   \* of Preflight

Darwin == [Os |-> "darwin"]
DarwinSystem == [Os |-> "darwin", NetworkMode |-> "system"]

vfkitPreflightChecks ==
  << Check("check-m1-cpu", {"NoFix"}, Darwin),
     Check("check-vfkit-installed", {}, Darwin),
     CleanUp("vfkit-process", Darwin) >>

resolverPreflightChecks ==
  <<WithCleanup(Check("check-resolver-file-permissions", {}, DarwinSystem))>>

trayLaunchdCleanupChecks == <<Check("check-old-autostart", {}, Darwin)>>

daemonLaunchdChecks == <<WithCleanup(Check("check-daemon-launchd-plist", {}, None))>>

DarwinChecks ==
  nonWinPreflightChecks \o genericPreflightChecks \o genericCleanupChecks
    \o vfkitPreflightChecks \o resolverPreflightChecks \o <<bundleCheck>>
    \o trayLaunchdCleanupChecks \o daemonLaunchdChecks

DarwinFilter(mode, h) == [Os |-> "darwin", NetworkMode |-> mode]

\* System networking has all the checks.
DarwinCleanUpFilter(h) == [Os |-> "darwin", NetworkMode |-> "system"]

-----------------------------------------------------------------------------
checkM1CPU(h) == ~h.m1

\* An installer brings vfkit; a cached one is also to be executable ("broken" is not).
checkVfkitInstalled(h) ==
  Installer \/ (IsCached(h.vfkit) /\ h.vfkit # "broken" /\ CheckVersion(h.vfkit))

fixVfkitInstallation(h) ==
  IF Installer THEN Done(h)
  ELSE {[o EXCEPT !.host = [h EXCEPT !.vfkit = o.host]] : o \in EnsureIsCached(h.vfkit)}

checkResolverFilePermissions(h) == h.resolver = "user"

addFileWritePermissionToUser(h) ==
  Then(Run(h, [h EXCEPT !.resolver = "user"]), LAMBDA a : Run(a, a))

\* mkdir and touch leave a file of root's, which is given to the user.
fixResolverFilePermissions(h) ==
  Then(Run(h, h), LAMBDA a :
  Then(Run(a, [a EXCEPT !.resolver = IF @ = "none" THEN "root" ELSE @]),
       addFileWritePermissionToUser))

removeResolverFile(h) == RunIf(h.resolver # "none", h, [h EXCEPT !.resolver = "none"])

\* pgrep, whose failure is no reason not to try pkill.
killVfkitProcess(h) == RunIf(h.vm = "running", h, [h EXCEPT !.vm = "off"])

checkOldAutostart(h) == ~h.oldPlists
fixOldAutostart(h) == Ignore(Run(h, [h EXCEPT !.oldPlists = FALSE]))

\* The plist names the version of crc, so that an upgrade is a difference.
CheckPlist(h) == h.plist = "new"
AgentRunning(h) == h.loaded /\ h.agent /\ daemonRunning(h)

checkIfDaemonPlistFileExists(h) == CheckPlist(h) /\ (AgentRunning(h) \/ daemonRunning(h))

StopAgent(h) ==
  Run(h, IF h.agent THEN [h EXCEPT !.daemon = "none", !.agent = FALSE] ELSE h)

\* The agent starts the crc that the link leads to, unless another daemon has the socket.
StartAgent(h) ==
  Run(h, IF daemonRunning(h) THEN h ELSE [h EXCEPT !.daemon = h.symlink, !.agent = TRUE])

RestartAgent(h) == Then(StopAgent(h), StartAgent)

fixPlistFileExists(h) ==
  Then(Run(h, [h EXCEPT !.plist = "new"]),  LAMBDA a :
  Then(Run(a, [a EXCEPT !.loaded = TRUE]),  LAMBDA b :
  Then(RestartAgent(b), waitForDaemonRunning)))

fixDaemonPlistFileExists(h) ==
  Then(killDaemonProcess(h), LAMBDA a : fixPlistFileExists([a EXCEPT !.agent = FALSE]))

\* Unloading stops the agent's daemon; a plist that could not be unloaded stays.
removeDaemonPlistFile(h) ==
  Then(Run(h, [h EXCEPT !.loaded = FALSE, !.agent = FALSE,
                        !.daemon = IF h.agent THEN "none" ELSE @]), LAMBDA a :
       RunIf(a.plist # "none", a, [a EXCEPT !.plist = "none"]))

-----------------------------------------------------------------------------
DarwinCheck(name, h) ==
  CASE name = "check-root-user"                 -> checkIfRunningAsNormalUser(h)
    [] name = "check-admin-helper-cached"       -> checkAdminHelperExecutableCached(h)
    [] name = "check-supported-cpu-arch"        -> checkSupportedCPUArch(h)
    [] name = "check-ram"                       -> ValidateEnoughMemory(h)
    [] name = "check-crc-symlink"               -> checkCrcSymlink(h)
    [] name = "check-m1-cpu"                    -> checkM1CPU(h)
    [] name = "check-vfkit-installed"           -> checkVfkitInstalled(h)
    [] name = "check-resolver-file-permissions" -> checkResolverFilePermissions(h)
    [] name = "check-bundle-extracted"          -> checkBundleExtracted(h)
    [] name = "check-old-autostart"             -> checkOldAutostart(h)
    [] name = "check-daemon-launchd-plist"      -> checkIfDaemonPlistFileExists(h)

DarwinFix(name, h) ==
  CASE name = "check-admin-helper-cached"       -> fixAdminHelperExecutableCached(h)
    [] name = "check-crc-symlink"               -> fixCrcSymlink(h)
    [] name = "check-vfkit-installed"           -> fixVfkitInstallation(h)
    [] name = "check-resolver-file-permissions" -> fixResolverFilePermissions(h)
    [] name = "check-bundle-extracted"          -> fixBundleExtracted(h)
    [] name = "check-old-autostart"             -> fixOldAutostart(h)
    [] name = "check-daemon-launchd-plist"      -> fixDaemonPlistFileExists(h)

DarwinCleanup(name, h) ==
  CASE name = "check-crc-symlink"               -> removeCrcSymlink(h)
    [] name = "machines-dir"                    -> removeCRCMachinesDir(h)
    [] name = "old-logs"                        -> removeOldLogs(h)
    [] name = "pull-secret"                     -> ForgetPullSecret(h)
    [] name = "hosts-file"                      -> removeHostsFileEntry(h)
    [] name = "vfkit-process"                   -> killVfkitProcess(h)
    [] name = "check-resolver-file-permissions" -> removeResolverFile(h)
    [] name = "check-daemon-launchd-plist"      -> removeDaemonPlistFile(h)

\* The engine, over this list.
INSTANCE Preflight
  WITH getChecks <- DarwinChecks, Filter <- DarwinFilter, CleanUpFilter <- DarwinCleanUpFilter,
       Prepared <- PrepareBundleFix, check <- DarwinCheck, fix <- DarwinFix, cleanup <- DarwinCleanup

-----------------------------------------------------------------------------
\* The daemon exits, and launchd keeps it stopped.
DaemonExits ==
  /\ daemonRunning(host)
  /\ Disturb([host EXCEPT !.daemon = "none", !.agent = FALSE])

\* The user starts one by hand, through the link.
DaemonByHand ==
  /\ ~daemonRunning(host) /\ host.symlink # "none"
  /\ Disturb([host EXCEPT !.daemon = host.symlink, !.agent = FALSE])

\* Another release of crc is installed.
Upgrade ==
  /\ command = "none"
  /\ "new" \in {host.symlink, host.plist, host.daemon}
  /\ host' = [host EXCEPT !.symlink = IF @ = "new" THEN "old" ELSE @,
                          !.plist = IF @ = "new" THEN "old" ELSE @,
                          !.daemon = IF @ = "new" THEN "old" ELSE @,
                          !.bundle = "none"]
  /\ last' = NoResult
  /\ UNCHANGED <<command, list, pos, failed, errs, quiet, smooth, faults>>

Next ==
  \/ Engine
  \/ DaemonExits
  \/ DaemonByHand
  \/ Upgrade

Spec == Init /\ [][Next]_vars

-----------------------------------------------------------------------------
\* Type invariant: the loop, and the fields of a macOS host.
TypeOK ==
  /\ LoopTypeOK
  /\ host.plist \in {"none", "old", "new"} /\ host.daemon \in {"none", "old", "new"}
  /\ host.resolver \in {"none", "root", "user"}
  /\ host.agent => daemonRunning(host)

(***************************************************************************)
(* A daemon of an earlier release does not survive a "crc setup" that      *)
(* returns nil: its plist names another version, and the fix kills         *)
(* whatever daemon answers, launchd's or one the user has started, before  *)
(* it starts launchd's through the link the setup has renewed.             *)
(***************************************************************************)
NoStaleDaemon ==
  (command = "none" /\ last = [of |-> "setup", is |-> "ok"]) => host.daemon # "old"

(***************************************************************************)
(* When "crc cleanup" returns nil, launchd no longer knows crc, none of    *)
(* its daemons runs, and the resolver file of system networking is gone,   *)
(* whichever network mode has been used: getAllPreflightChecks asks for    *)
(* the mode that has all the checks.                                       *)
(***************************************************************************)
CleanupUndoes ==
  (command = "none" /\ last = [of |-> "cleanup", is |-> "ok"] /\ quiet)
     => /\ host.plist = "none" /\ ~host.loaded /\ ~host.agent
        /\ host.resolver = "none" /\ host.symlink = "none"
        /\ ~host.machinesDir

=============================================================================

-------------------------- MODULE PreflightWindows --------------------------
(***************************************************************************)
(* The Windows checks: preflight_windows.go, preflight_checks_windows.go,  *)
(* preflight_daemon_task_check_windows.go and preflight_checks_nonlinux.go. *)
(*                                                                         *)
(* Fields of a host beside those of PreflightCommon: admin, release,       *)
(* edition, hyperv, vmms, switch, usersGroup and vsockKey, which crc only  *)
(* looks at (the installer is to provide the last two); inGroups; task     *)
(* (the version of the scheduled task), taskRunning, daemon; service (the  *)
(* admin helper's); dns (a server address of crc on the interface).        *)
(***************************************************************************)
EXTENDS PreflightCommon

CONSTANTS Hosts, NetworkModes, Skipped, MaxFaults   \* as in Preflight

VARIABLES host, command, list, pos, failed, errs, last, quiet, smooth, faults   \* of Preflight

Windows == [Os |-> "windows"]
WindowsSystem == [Os |-> "windows", NetworkMode |-> "system"]
WindowsUser == [Os |-> "windows", NetworkMode |-> "user"]

hypervPreflightChecks ==
  << Check("check-administrator-user", {"StartUpOnly"}, Windows),
     Check("check-windows-version", {"StartUpOnly"}, Windows),
     Check("check-windows-edition", {"StartUpOnly"}, Windows),
     Check("check-hyperv-installed", {"StartUpOnly"}, Windows),
     Check("check-hyperv-service-running", {"StartUpOnly"}, Windows),
     Check("check-hyperv-switch", {"StartUpOnly"}, WindowsSystem),
     CleanUp("dns-server-address", WindowsSystem),
     CleanUp("crc-vm", Windows) >>

crcUsersGroupExistsCheck == Check("check-crc-users-group-exists", {"StartUpOnly"}, Windows)

userPartOfCrcUsersAndHypervAdminsGroupCheck ==
  Check("check-user-in-crc-users-and-hyperv-admins-group", {}, Windows)

vsockChecks == <<Check("check-vsock", {"StartUpOnly"}, WindowsUser)>>

daemonTaskChecks ==
  << WithCleanup(Check("check-daemon-task-install", {}, Windows)),
     Check("check-daemon-task-running", {}, Windows) >>

adminHelperServiceCheks == <<Check("check-admin-helper-service-running", {"NoFix"}, Windows)>>

WindowsChecks ==
  hypervPreflightChecks
    \o <<crcUsersGroupExistsCheck, userPartOfCrcUsersAndHypervAdminsGroupCheck>> \o vsockChecks
    \o <<bundleCheck>> \o genericCleanupChecks \o daemonTaskChecks \o adminHelperServiceCheks

WindowsFilter(mode, h) == [Os |-> "windows", NetworkMode |-> mode]

\* The checks of user networking, for "there are no system networking specific checks".
WindowsCleanUpFilter(h) == [Os |-> "windows", NetworkMode |-> "user"]

-----------------------------------------------------------------------------
\* What the installer and the user are to see to; a release that is no number is 0.
minimumWindowsReleaseID == 1709

checkNotAdministrator(h) == ~h.admin
checkVersionOfWindowsUpdate(h) == h.release >= minimumWindowsReleaseID
checkWindowsEdition(h) == h.edition # "core"
checkHyperVInstalled(h) == h.hyperv
checkHyperVServiceRunning(h) == h.vmms
checkIfHyperVVirtualSwitchExists(h) == h.switch
checkCrcUsersGroupExists(h) == h.usersGroup
checkVsock(h) == h.vsockKey
checkIfAdminHelperServiceRunning(h) == h.service

checkUserPartOfCrcUsersAndHypervAdminsGroup(h) == h.inGroups

\* Success is an error too: the user is to reboot and run setup again.
fixUserPartOfCrcUsersAndHypervAdminsGroup(h) ==
  Refused([h EXCEPT !.inGroups = TRUE]) \cup Faulty(h)

\* An error of Get-VM is taken for the absence of the machine.
removeCrcVM(h) ==
  IF h.vm = "none" THEN Done(h)
  ELSE Then(Run(h, [h EXCEPT !.vm = "off"]), LAMBDA a : Run(a, [a EXCEPT !.vm = "none"]))

removeDNSServerAddress(h) == Run(h, [h EXCEPT !.dns = FALSE])

checkIfOlderTask(h) == h.task = "new"
checkIfDaemonTaskInstalled(h) == h.task # "none" /\ checkIfOlderTask(h)
checkIfDaemonTaskRunning(h) == h.task # "none" /\ h.taskRunning

\* Stopping the task may leave the daemon it has started; then it is unregistered.
removeDaemonTask(h) ==
  IF h.task = "none" THEN Done(h)
  ELSE Then(IF ~checkIfDaemonTaskRunning(h) THEN Done(h)
            ELSE Run(h, [h EXCEPT !.taskRunning = FALSE])
                   \cup Done([h EXCEPT !.taskRunning = FALSE, !.daemon = "none"]),
            LAMBDA a : Run(a, [a EXCEPT !.task = "none"]))

fixDaemonTaskInstalled(h) ==
  Then(removeDaemonTask(h), LAMBDA a : Run(a, [a EXCEPT !.task = "new"]))

\* Mutation: the daemon of before is not killed, and the new one gives way to it.
fixDaemonTaskKeepsDaemon(h) ==
  IF h.task = "none" THEN Refused(h)
  ELSE Then(Run(h, [h EXCEPT !.taskRunning = TRUE,
                             !.daemon = IF @ = "none" THEN h.task ELSE @]), waitForDaemonRunning)

\* A daemon that answers is killed, and with it the task that has started it.
fixDaemonTaskRunning(h) ==
  Then(killDaemonProcess(h), LAMBDA a :
       IF a.task = "none" THEN Refused(a)
       ELSE Then(Run(a, [a EXCEPT !.taskRunning = TRUE, !.daemon = a.task]), waitForDaemonRunning))

-----------------------------------------------------------------------------
WindowsCheck(name, h) ==
  CASE name = "check-administrator-user"     -> checkNotAdministrator(h)
    [] name = "check-windows-version"        -> checkVersionOfWindowsUpdate(h)
    [] name = "check-windows-edition"        -> checkWindowsEdition(h)
    [] name = "check-hyperv-installed"       -> checkHyperVInstalled(h)
    [] name = "check-hyperv-service-running" -> checkHyperVServiceRunning(h)
    [] name = "check-hyperv-switch"          -> checkIfHyperVVirtualSwitchExists(h)
    [] name = "check-crc-users-group-exists" -> checkCrcUsersGroupExists(h)
    [] name = "check-user-in-crc-users-and-hyperv-admins-group" ->
         checkUserPartOfCrcUsersAndHypervAdminsGroup(h)
    [] name = "check-vsock"                  -> checkVsock(h)
    [] name = "check-bundle-extracted"       -> checkBundleExtracted(h)
    [] name = "check-daemon-task-install"    -> checkIfDaemonTaskInstalled(h)
    [] name = "check-daemon-task-running"    -> checkIfDaemonTaskRunning(h)
    [] name = "check-admin-helper-service-running" -> checkIfAdminHelperServiceRunning(h)

WindowsFix(name, h) ==
  CASE name = "check-user-in-crc-users-and-hyperv-admins-group" ->
         fixUserPartOfCrcUsersAndHypervAdminsGroup(h)
    [] name = "check-bundle-extracted"    -> fixBundleExtracted(h)
    [] name = "check-daemon-task-install" -> fixDaemonTaskInstalled(h)
    [] name = "check-daemon-task-running" -> fixDaemonTaskRunning(h)

WindowsCleanup(name, h) ==
  CASE name = "machines-dir"              -> removeCRCMachinesDir(h)
    [] name = "old-logs"                  -> removeOldLogs(h)
    [] name = "pull-secret"               -> ForgetPullSecret(h)
    [] name = "hosts-file"                -> removeHostsFileEntry(h)
    [] name = "dns-server-address"        -> removeDNSServerAddress(h)
    [] name = "crc-vm"                    -> removeCrcVM(h)
    [] name = "check-daemon-task-install" -> removeDaemonTask(h)

\* The engine, over this list.
INSTANCE Preflight
  WITH getChecks <- WindowsChecks, Filter <- WindowsFilter, CleanUpFilter <- WindowsCleanUpFilter,
       Prepared <- PrepareBundleFix, check <- WindowsCheck, fix <- WindowsFix, cleanup <- WindowsCleanup

-----------------------------------------------------------------------------
\* The daemon exits, which ends the task.
DaemonExits ==
  /\ daemonRunning(host)
  /\ Disturb([host EXCEPT !.daemon = "none", !.taskRunning = FALSE])

\* Another release of crc is installed.
Upgrade ==
  /\ command = "none"
  /\ "new" \in {host.task, host.daemon}
  /\ host' = [host EXCEPT !.task = IF @ = "new" THEN "old" ELSE @,
                          !.daemon = IF @ = "new" THEN "old" ELSE @,
                          !.bundle = "none"]
  /\ last' = NoResult
  /\ UNCHANGED <<command, list, pos, failed, errs, quiet, smooth, faults>>

Next ==
  \/ Engine
  \/ DaemonExits
  \/ Upgrade

Spec == Init /\ [][Next]_vars

-----------------------------------------------------------------------------
\* Type invariant: the loop, and the fields of a Windows host.
TypeOK ==
  /\ LoopTypeOK
  /\ host.task \in {"none", "old", "new"} /\ host.daemon \in {"none", "old", "new"}
  /\ host.taskRunning => host.task # "none"

(***************************************************************************)
(* A daemon of an earlier release does not survive a "crc setup" that      *)
(* returns nil, even if stopping its task has left it running: the new     *)
(* task does not run yet, and the fix that runs it kills that daemon.      *)
(***************************************************************************)
NoStaleDaemon ==
  (command = "none" /\ last = [of |-> "setup", is |-> "ok"]) => host.daemon # "old"

(***************************************************************************)
(* "We want all preflight checks including ... both user and system        *)
(* networking checks" (getAllPreflightChecks): a cleanup that returns nil  *)
(* has removed the server address of system networking.                    *)
(***************************************************************************)
CleanupRemovesDNS ==
  (command = "none" /\ last = [of |-> "cleanup", is |-> "ok"]) => ~host.dns

=============================================================================

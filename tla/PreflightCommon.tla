-------------------------- MODULE PreflightCommon --------------------------
(***************************************************************************)
(* The checks the platforms share: preflight_checks_common.go for all of   *)
(* them, preflight_checks_unix.go for Linux and macOS.  A fix or a cleanup *)
(* is the set of its outcomes: the host it leaves, whether it returns nil, *)
(* and how many of the commands it runs have failed.                       *)
(*                                                                         *)
(* A host is a record.  The fields used here: root, arch, ram (facts crc   *)
(* cannot change); helper, the crc-admin-helper executable; symlink, which *)
(* version of crc ~/.crc/bin/crc leads to; bundle; cacheMode, the mode of  *)
(* ~/.crc/cache; machinesDir, logs, pullSecret and hostsFile, what crc has *)
(* left there; vm, the virtual machine.                                    *)
(***************************************************************************)
EXTENDS Naturals, Sequences

CONSTANT Installer   \* was crc installed with a package that brings the helpers

\* The outcomes of what a fix runs: it is done, it refuses, or a command of it fails.
Done(h) == {[host |-> h, ok |-> TRUE, faults |-> 0]}
Refused(h) == {[host |-> h, ok |-> FALSE, faults |-> 0]}
Faulty(h) == {[host |-> h, ok |-> FALSE, faults |-> 1]}

\* A command that takes host h to host g, or fails and leaves it,
Run(h, g) == Done(g) \cup Faulty(h)

\* one whose error is ignored,
Ignore(outcomes) == {[o EXCEPT !.ok = TRUE] : o \in outcomes}

\* and what follows unless it has failed.
Then(outcomes, Next(_)) ==
  UNION {IF o.ok THEN {[p EXCEPT !.faults = @ + o.faults] : p \in Next(o.host)} ELSE {o}
         : o \in outcomes}

\* What follows even then, an error of either being an error of the whole.
Also(outcomes, Next(_)) ==
  UNION {{[p EXCEPT !.ok = @ /\ o.ok, !.faults = @ + o.faults] : p \in Next(o.host)}
         : o \in outcomes}

\* A command that is not run when there is nothing to do.
RunIf(needed, h, g) == IF needed THEN Run(h, g) ELSE Done(h)

-----------------------------------------------------------------------------
Check(name, flags, labels) ==
  [name |-> name, flags |-> flags, labels |-> labels, hasCleanup |-> FALSE]

WithCleanup(c) == [c EXCEPT !.hasCleanup = TRUE]

CleanUp(name, labels) == WithCleanup(Check(name, {"CleanUpOnly"}, labels))

None == <<>>

nonWinPreflightChecks == <<Check("check-root-user", {"NoFix"}, None)>>

genericPreflightChecks ==
  << Check("check-admin-helper-cached", {}, None),
     Check("check-supported-cpu-arch", {"NoFix"}, None),
     Check("check-ram", {"NoFix"}, None),
     WithCleanup(Check("check-crc-symlink", {}, None)) >>

bundleCheck == Check("check-bundle-extracted", {"SetupOnly"}, None)

genericCleanupChecks ==
  << CleanUp("machines-dir", None), CleanUp("old-logs", None),
     CleanUp("pull-secret", None), CleanUp("hosts-file", None) >>

-----------------------------------------------------------------------------
\* Building the list calls fixBundleExtracted, which sets the mode of the cache directory.
PrepareBundleFix(h) == [h EXCEPT !.cacheMode = "0775"]

\* What crc cannot change: the user, the architecture, the memory for the preset.
checkIfRunningAsNormalUser(h) == ~h.root
checkSupportedCPUArch(h) == h.arch
ValidateEnoughMemory(h) == h.ram

\* An executable of the cache: absent, of another version, or the one this crc needs.
IsCached(executable) == executable # "none"
CheckVersion(executable) == executable \notin {"none", "stale"}

\* cacheExecutable removes the executable before it copies the one it has got;
\* a copy that breaks off is an executable of no known version.
EnsureIsCached(executable) ==
  IF IsCached(executable) /\ CheckVersion(executable) THEN Done(executable)
  ELSE IF Installer THEN Refused(executable)
  ELSE Run(executable, "plain") \cup Faulty("none") \cup Faulty("stale")

checkAdminHelperExecutableCached(h) ==
  Installer \/ (IsCached(h.helper) /\ CheckVersion(h.helper) /\ h.helper = "suid")

\* chown, then chmod, which sets the bit.
setSuid(h) == Run(h, [h EXCEPT !.helper = "suid"])

fixAdminHelperExecutableCached(h) ==
  IF Installer THEN Done(h)
  ELSE Then({[o EXCEPT !.host = [h EXCEPT !.helper = o.host]] : o \in EnsureIsCached(h.helper)},
            setSuid)

checkCrcSymlink(h) == h.symlink = "new"

\* Removal of the old link (an error is ignored), then a link to this executable.
fixCrcSymlink(h) ==
  LET removed == [h EXCEPT !.symlink = "none"]
  IN  Run(removed, [h EXCEPT !.symlink = "new"])
        \cup (IF h.symlink = "none" THEN {} ELSE Faulty(h))

removeCrcSymlink(h) ==
  IF h.symlink = "none" THEN Done(h) ELSE Run(h, [h EXCEPT !.symlink = "none"])

checkBundleExtracted(h) == h.bundle = "extracted"

\* The bundle is validated, downloaded unless it is there, and extracted.  One that the user
\* has configured and that is "missing" is not downloaded.
fixBundleExtracted(h) ==
  Then(IF h.bundle = "missing" THEN Refused(h) ELSE Run(h, h), LAMBDA a :
  Then(Run(a, [a EXCEPT !.bundle = "downloaded"]),             LAMBDA b :
       Run(b, [b EXCEPT !.bundle = "extracted"])))

\* The records are removed by the helper, which needs its privileges; no helper, no error.
removeHostsFileEntry(h) ==
  IF h.helper = "none" THEN Done(h)
  ELSE IF h.helper = "suid" THEN Run(h, [h EXCEPT !.hostsFile = FALSE])
  ELSE Refused(h)

removeCRCMachinesDir(h) == Run(h, [h EXCEPT !.machinesDir = FALSE])
removeOldLogs(h) == Run(h, [h EXCEPT !.logs = FALSE])

\* cluster.ForgetPullSecret: an error of the keyring is ignored.
ForgetPullSecret(h) == Ignore(Run(h, [h EXCEPT !.pullSecret = FALSE]))

\* Outside Linux the daemon is asked for its version, and its process is killed.
daemonRunning(h) == h.daemon # "none"

killDaemonProcess(h) == RunIf(daemonRunning(h), h, [h EXCEPT !.daemon = "none"])

\* Asked again for 15 seconds.
waitForDaemonRunning(h) == IF daemonRunning(h) THEN Run(h, h) ELSE Refused(h)

=============================================================================

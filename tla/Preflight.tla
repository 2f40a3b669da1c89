----------------------------- MODULE Preflight -----------------------------
(***************************************************************************)
(* The engine of pkg/crc/preflight: "crc setup" (with or without           *)
(* --check-only), the checks "crc start" makes, and "crc cleanup", as loops *)
(* over a platform's list of checks.                                       *)
(*                                                                         *)
(* The platform modules (PreflightLinux, PreflightDarwin, PreflightWindows) *)
(* instantiate this one: they give the list, and say what each check, fix  *)
(* and cleanup function sees and changes on the host.  A fix or a cleanup  *)
(* has a set of outcomes (PreflightCommon).                                *)
(***************************************************************************)
EXTENDS Naturals, Sequences

CONSTANTS
  Hosts,            \* the hosts the first command may find
  NetworkModes,     \* the values of the network-mode setting that are used
  Skipped,          \* the checks whose skip-... setting is true
  getChecks,        \* the platform's checks in order: name, flags, labels, hasCleanup
  Filter(_, _),     \* the labels a command on a host in a network mode selects
  CleanUpFilter(_), \* and those "crc cleanup" selects
  Prepared(_),      \* the host after the list of checks has been built
  check(_, _),      \* does the check return nil on this host
  fix(_, _),        \* the outcomes of its fix
  cleanup(_, _),    \* the outcomes of its cleanup
  MaxFaults         \* how many commands may fail in a behaviour

VARIABLES
  host,     \* what the checks look at and the fixes change
  command,  \* "none", or the command in progress
  list,     \* the checks it goes through, by their place in getChecks
  pos,      \* the one it is at
  failed,   \* has the check at pos failed, so that its fix is next
  errs,     \* has a cleanup function failed
  last,     \* the last command to return and its result
  quiet,    \* has nothing else changed the host since the last command began
  smooth,   \* and has nothing it ran failed
  faults    \* how many commands have failed

loop == <<command, list, pos, failed, errs, last, quiet>>
vars == <<host, loop, smooth, faults>>

Commands == {"setup", "check-only", "start", "cleanup"}
Results == {"ok", "error"}
NoResult == [of |-> "none", is |-> "none"]

-----------------------------------------------------------------------------
\* A check is dropped when one of its labels has another value in the filter.
skipCheck(c, filter) ==
  \E key \in DOMAIN filter \cap DOMAIN c.labels : c.labels[key] # filter[key]

Apply(filter) ==
  LET Kept(n) == ~skipCheck(getChecks[n], filter)
  IN  SelectSeq([n \in DOMAIN getChecks |-> n], Kept)

\* The i-th check of the list.
Item(i) == getChecks[list[i]]

\* A check is skipped by configuration, or made.
doCheck(c) == c.name \notin Skipped => check(c.name, host)

\* fix of a check without one is the error that says what to do instead.
doFix(c) == IF "NoFix" \in c.flags THEN {[host |-> host, ok |-> FALSE, faults |-> 0]} ELSE fix(c.name, host)

Init ==
  /\ host \in Hosts
  /\ command = "none" /\ list = <<>> /\ pos = 0
  /\ failed = FALSE /\ errs = FALSE
  /\ last = NoResult
  /\ quiet = TRUE /\ smooth = TRUE
  /\ faults = 0

At(cmds) == command \in cmds /\ pos \in DOMAIN list

Advance(next) == pos' = next /\ failed' = FALSE /\ UNCHANGED <<command, list, errs, last, quiet>>

\* The host an outcome leaves, if that many commands may still fail.
Leave(o) ==
  /\ host' = o.host
  /\ faults' = faults + o.faults /\ faults' <= MaxFaults
  /\ smooth' = (smooth /\ o.faults = 0)

Return(result) ==
  /\ last' = [of |-> command, is |-> result]
  /\ command' = "none" /\ failed' = FALSE /\ errs' = FALSE
  /\ UNCHANGED <<list, pos, quiet>>

\* SetupHost and StartPreflightChecks build the list for the network mode configured,
Begin(cmd) ==
  /\ command = "none"
  /\ command' = cmd
  /\ \E mode \in NetworkModes : list' = Apply(Filter(mode, host))
  /\ host' = Prepared(host)
  /\ pos' = 1 /\ quiet' = TRUE /\ smooth' = TRUE
  /\ UNCHANGED <<failed, errs, last, faults>>

SetupHost == Begin("setup") \/ Begin("check-only")
StartPreflightChecks == Begin("start")

\* Mutation: from the first check to the last.
CleanUpHostForward ==
  /\ command = "none"
  /\ command' = "cleanup"
  /\ LET kept == Apply(CleanUpFilter(host))
     IN  list' = [i \in DOMAIN kept |-> kept[Len(kept) + 1 - i]]
  /\ host' = Prepared(host)
  /\ pos' = Len(list') /\ quiet' = TRUE /\ smooth' = TRUE
  /\ UNCHANGED <<failed, errs, last, faults>>

\* CleanUpHost for all of them, and begins at the end.
CleanUpHost ==
  /\ command = "none"
  /\ command' = "cleanup"
  /\ list' = Apply(CleanUpFilter(host))
  /\ host' = Prepared(host)
  /\ pos' = Len(list') /\ quiet' = TRUE /\ smooth' = TRUE
  /\ UNCHANGED <<failed, errs, last, faults>>

doPreflightChecks ==
  /\ At({"start"})
  /\ IF Item(pos).flags \cap {"SetupOnly", "CleanUpOnly"} = {} /\ ~doCheck(Item(pos))
     THEN Return("error")
     ELSE Advance(pos + 1)
  /\ UNCHANGED <<host, smooth, faults>>

\* A check that "crc setup" does not make, or makes and finds in order,
Passed(c) == c.flags \cap {"CleanUpOnly", "StartUpOnly"} = {} => doCheck(c)

\* or whose fix is tried, unless --check-only makes its error the result.
doFixPreflightChecks ==
  /\ At({"setup", "check-only"}) /\ ~failed
  /\ \/ Passed(Item(pos)) /\ Advance(pos + 1)
     \/ ~Passed(Item(pos)) /\ command = "check-only" /\ Return("error")
     \/ /\ ~Passed(Item(pos)) /\ command = "setup"
        /\ failed' = TRUE /\ UNCHANGED <<command, list, pos, errs, last, quiet>>
  /\ UNCHANGED <<host, smooth, faults>>

\* Mutation: an error of a fix is logged, and the loop goes on.
FixCarriesOn ==
  /\ At({"setup"}) /\ failed
  /\ \E o \in doFix(Item(pos)) : Leave(o) /\ Advance(pos + 1)

\* The fix is not followed by another check.
Fix ==
  /\ At({"setup"}) /\ failed
  /\ \E o \in doFix(Item(pos)) :
       /\ Leave(o)
       /\ IF o.ok THEN Advance(pos + 1) ELSE Return("error")

\* From the last check to the first; errors are collected on the way.
doCleanUpPreflightChecks ==
  /\ At({"cleanup"})
  /\ IF ~Item(pos).hasCleanup
     THEN Advance(pos - 1) /\ UNCHANGED <<host, smooth, faults>>
     ELSE \E o \in cleanup(Item(pos).name, host) :
            /\ Leave(o)
            /\ pos' = pos - 1
            /\ errs' = (errs \/ ~o.ok)
            /\ UNCHANGED <<command, list, failed, last, quiet>>

\* The end of the list.
Finish ==
  /\ command # "none" /\ pos \notin DOMAIN list
  /\ Return(IF errs THEN "error" ELSE "ok")
  /\ UNCHANGED <<host, smooth, faults>>

\* Anything else that changes the host while crc is, or is not, at work on it.
Disturb(h) ==
  /\ host' = h
  /\ quiet' = FALSE
  /\ UNCHANGED <<command, list, pos, failed, errs, last, smooth, faults>>

Engine ==
  \/ SetupHost
  \/ StartPreflightChecks
  \/ CleanUpHost
  \/ doPreflightChecks
  \/ doFixPreflightChecks
  \/ Fix
  \/ doCleanUpPreflightChecks
  \/ Finish

-----------------------------------------------------------------------------
\* Type invariant, the host aside: each platform says what its hosts are.
LoopTypeOK ==
  /\ command \in Commands \cup {"none"}
  /\ pos \in 0..(Len(getChecks) + 1)
  /\ failed \in BOOLEAN /\ errs \in BOOLEAN
  /\ last \in [of : Commands, is : Results] \cup {NoResult}
  /\ \A i \in DOMAIN list : list[i] \in DOMAIN getChecks
  /\ quiet \in BOOLEAN /\ smooth \in BOOLEAN /\ faults \in 0..MaxFaults

(***************************************************************************)
(* "Do the cleanup in reverse order to avoid any dependency during         *)
(* cleanup" (doCleanUpPreflightChecks): the directory of the machine goes  *)
(* only when the machine that runs from it has been stopped, unless a      *)
(* command has failed.                                                     *)
(***************************************************************************)
MachineStoppedFirst ==
  (At({"cleanup"}) /\ quiet /\ smooth /\ Item(pos).name = "machines-dir") => host.vm # "running"

(***************************************************************************)
(* A fix leaves alone what the checks before it have looked at (the order  *)
(* of the lists in getChecks): the loop of doFixPreflightChecks makes every *)
(* check once, so a check that a later fix breaks again stays broken while *)
(* "crc setup" reports success.                                            *)
(***************************************************************************)
FixKeepsChecks ==
  (At({"setup"}) /\ failed /\ ~failed') =>
     \A i \in 1..(pos - 1) :
        (Item(i).flags \cap {"CleanUpOnly", "StartUpOnly"} = {} /\ check(Item(i).name, host))
           => check(Item(i).name, host')

(***************************************************************************)
(* While nothing else changes the host, the checks "crc setup" is past     *)
(* pass, and when it returns nil all of them do: what doFixPreflightChecks *)
(* takes for granted when it does not make the check again after the fix.  *)
(***************************************************************************)
SetupEstablishes ==
  (quiet /\ (command = "setup" \/ (command = "none" /\ last = [of |-> "setup", is |-> "ok"])))
     => \A i \in DOMAIN list : i < pos => Passed(Item(i))

(***************************************************************************)
(* "Your system is correctly setup for using CRC. Use 'crc start' to start *)
(* the instance" (cmd/crc/cmd/setup.go): when "crc setup" returns nil, the *)
(* checks "crc start" makes in the same network mode pass, as long as      *)
(* nothing else has changed the host.                                      *)
(***************************************************************************)
SetupMeansStartable ==
  (quiet /\ command = "none" /\ last = [of |-> "setup", is |-> "ok"])
     => \A i \in DOMAIN list :
          Item(i).flags \cap {"SetupOnly", "CleanUpOnly"} = {} => doCheck(Item(i))

(***************************************************************************)
(* "Only run the preflight checks, don't try to fix any misconfiguration"  *)
(* (the help of --check-only in cmd/crc/cmd/setup.go): such a command      *)
(* leaves the host as it is.                                               *)
(***************************************************************************)
CheckOnlyChangesNothing ==
  [][("check-only" \in {command, command'} /\ quiet') => host' = host]_vars

=============================================================================

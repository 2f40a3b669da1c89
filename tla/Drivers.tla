------------------------------ MODULE Drivers ------------------------------
(***************************************************************************)
(* The drivers of macOS and Windows and the loop that all waits for a      *)
(* machine are made with.  A behaviour is of one of the three, the others  *)
(* stay where they begin: a host has one driver, and what a callback of    *)
(* Retry does is left open in Retry.                                       *)
(***************************************************************************)
EXTENDS Retry

CONSTANTS
  Procs, Pids, Sizes, ImageSize, VirtioNet, MaxFaults,                       \* of VfkitDriver
  Memories, CPUs, VhdSizes, DefaultDiskSize, MaxMachines, MaxFailures        \* and HypervDriver

VARIABLES
  part,                                                     \* the one it is of
  table, pidFile, disk, saved, call, lease, lost, faults,   \* of VfkitDriver
  machines, vm, power, ip, vhd, stored, exists, driver, asked, command, torn, failures  \* and HypervDriver

vfkit == <<table, pidFile, disk, saved, call, lease, lost, faults>>
hyperv == <<machines, vm, power, ip, vhd, stored, exists, driver, asked, command, torn, failures>>
all == <<part, vars, vfkit, hyperv>>

Vfkit == INSTANCE VfkitDriver

Hyperv == INSTANCE HypervDriver
  WITH Sizes <- VhdSizes, MaxFaults <- MaxFailures, disk <- vhd, call <- command, faults <- failures

\* No process has the number 0 or a negative one, and no disk is empty.
ASSUME VfkitAssumption ==
  /\ Pids \subseteq Nat \ {0}
  /\ Sizes \subseteq Nat \ {0} /\ ImageSize \in Sizes
  /\ VirtioNet \in BOOLEAN /\ MaxFaults \in Nat

\* A machine has memory, a processor and a disk.
ASSUME HypervAssumption ==
  /\ Memories \subseteq Nat \ {0} /\ CPUs \subseteq Nat \ {0}
  /\ VhdSizes \subseteq Nat \ {0} /\ DefaultDiskSize \in VhdSizes
  /\ MaxMachines \in Nat /\ MaxFailures \in Nat

DriversInit ==
  /\ part \in {"retry", "vfkit", "hyperv"}
  /\ Init /\ (part # "retry" => ~done)
  /\ Vfkit!Init
  /\ Hyperv!Init

\* The others stay as they are.
Retries == part = "retry" /\ UNCHANGED <<part, vfkit, hyperv>>
OnMac == part = "vfkit" /\ UNCHANGED <<part, vars, hyperv>>
OnWindows == part = "hyperv" /\ UNCHANGED <<part, vars, vfkit>>

\* A Retry that has returned is over.
Over == pc = "returned" /\ UNCHANGED all

DriversNext ==
  \/ Retries /\ Next
  \/ Over
  \/ OnMac /\ Vfkit!Next
  \/ OnWindows /\ Hyperv!Next

\* The fairness of the parts.
DriversSpec ==
  /\ DriversInit /\ [][DriversNext]_all
  /\ WF_all(Retries /\ (Call \/ Loop \/ CallbackReturns \/ Sleep))
  /\ WF_all(OnWindows /\ Hyperv!Steps) /\ WF_all(OnWindows /\ Hyperv!Boots)
  /\ WF_all(OnWindows /\ Hyperv!GetsAddress) /\ WF_all(OnWindows /\ Hyperv!Halts)

-----------------------------------------------------------------------------
\* The type invariants of the parts.
TypesOK == TypeOK /\ Vfkit!TypeOK /\ Hyperv!TypeOK

(***************************************************************************)
(* What a driver reports is so.  GetState of vfkit says "Running" between  *)
(* two operations if and only if vfkit runs, and no two run on one disk if *)
(* vfkit.pid has had the number of each; its disk is never smaller than    *)
(* the capacity stored.  A machine whose stop has returned nil is off.  A  *)
(* machine that Hyper-V has turned on has all that Create gives it, and a  *)
(* delete in which nothing fails leaves none (hyperv_windows.go).          *)
(***************************************************************************)
DriversTruthful ==
  /\ TypesOK
  /\ Vfkit!StateTruthful /\ Vfkit!OneKnownVfkit /\ Vfkit!CapacityFits
  /\ Vfkit!StopStops /\ Hyperv!StopStops
  /\ Hyperv!OnMeansComplete /\ Hyperv!DeletedUnlessRough

(***************************************************************************)
(* A start of vfkit in which no command fails, and whose vfkit does not    *)
(* end by itself, succeeds after any earlier operation that was cut short  *)
(* (recoverFromUncleanShutdown, driver_darwin.go), if vfkit.pid holds a    *)
(* number.                                                                 *)
(***************************************************************************)
SmoothStartRecovers == Vfkit!SmoothStartRecovers

\* A start gives the machine what it was asked for, unless an update was torn before.
HardwareUnlessTorn == Hyperv!HardwareUnlessTorn

(***************************************************************************)
(* errors.Retry returns, whatever the callback answers, and its text       *)
(* accounts for every error (multierror.go); waitStopped ends, and         *)
(* waitForIP does if the guest keeps running (hyperv_windows.go).          *)
(***************************************************************************)
WaitsEnd == (part = "retry" => Returns) /\ []TextAccountsForErrors /\ Hyperv!WaitsEnd

=============================================================================

---------------------------- MODULE HypervDriver ----------------------------
(***************************************************************************)
(* The driver for Windows (pkg/drivers/hyperv) and the calls that the      *)
(* client makes of it.  The machine is kept in two places that are changed *)
(* one after the other: Hyper-V has it, with its memory, processors, disk  *)
(* and state, and crc's store has a configuration and a mark that says it  *)
(* exists.  Every step is a PowerShell command that can fail; the user can *)
(* also save the machine's state with the tools of Windows.                *)
(***************************************************************************)
EXTENDS Naturals

CONSTANTS
  Memories, CPUs, Sizes,  \* what "memory", "cpus" and "disk-size" may be set to
  DefaultDiskSize,        \* the size of the disk in the bundle, and the least there can be
  MaxMachines,            \* bound: how many machines of the name Hyper-V gets
  MaxFaults               \* bound: how many commands fail or are cut short

VARIABLES
  machines,  \* how many machines of this name Hyper-V has
  vm,        \* the machine: its hardware and what Create has set
  power,     \* its state
  ip,        \* has the guest got an address
  disk,      \* the size of the disk image, 0 if there is none
  stored,    \* the stored configuration, or NoConfig
  exists,    \* is there a file that marks the machine as created
  driver,    \* the configuration the process has loaded
  asked,     \* what the last start asks for
  call,      \* the operation crc is at
  torn,      \* has Hyper-V been given a setting that was not stored
  faults

hyperv == <<machines, vm, power, ip, disk>>
store == <<stored, exists>>
vars == <<hyperv, store, driver, asked, call, torn, faults>>

Configs == [memory : Memories, cpus : CPUs, size : Sizes, switch : BOOLEAN]
NoConfig == [memory |-> 0, cpus |-> 0, size |-> 0, switch |-> FALSE]
NoVM == [memory |-> 0, cpus |-> 0, adapter |-> FALSE, dynamic |-> FALSE, stopAction |-> "none", attached |-> FALSE]
Idle(op, result) == [op |-> op, pc |-> "idle", result |-> result, smooth |-> TRUE]

Init ==
  /\ machines = 0 /\ vm = NoVM /\ power = "Off" /\ ip = FALSE /\ disk = 0
  /\ stored = NoConfig /\ exists = FALSE
  /\ driver = NoConfig /\ asked = NoConfig
  /\ call = Idle("none", "none") /\ torn = FALSE /\ faults = 0

At(op, pc) == call.op = op /\ call.pc = pc
Go(pc) == call' = [call EXCEPT !.pc = pc]
Begin(op, pc) == call' = [Idle(op, "none") EXCEPT !.pc = pc]
Return(result) == call' = [Idle(call.op, result) EXCEPT !.smooth = call.smooth]
Fault == faults < MaxFaults /\ faults' = faults + 1
Rough(result) == call' = [Idle(call.op, result) EXCEPT !.smooth = FALSE]

-----------------------------------------------------------------------------
\* What a machine that is saved or paused is in has no name in crc.
GetState ==
  IF machines = 0 THEN "Error"
  ELSE IF power \in {"Starting", "Running", "Stopping"} THEN "Running"
  ELSE IF power = "Off" THEN "Stopped" ELSE "Error"

\* No address without a switch, nor of a machine that is not running.
GetIP == driver.switch /\ GetState = "Running" /\ ip

-----------------------------------------------------------------------------
\* client.Start loads the machine, or describes one that is to be created.
ClientStart ==
  /\ call.pc = "idle" /\ (exists \/ machines < MaxMachines)
  /\ \E c \in Configs :
       /\ asked' = [c EXCEPT !.switch = IF exists THEN stored.switch ELSE c.switch]
       /\ driver' = IF exists THEN stored ELSE c
  /\ Begin("start", IF exists THEN "state" ELSE "check")
  /\ UNCHANGED <<hyperv, store, torn, faults>>

\* PreCreateCheck looks at PowerShell, Hyper-V, the user and the switch, and the
\* configuration is stored before the machine is made.
PreCreateCheck ==
  /\ At("start", "check")
  /\ stored' = driver
  /\ Go("copy")
  /\ UNCHANGED <<hyperv, exists, driver, asked, torn, faults>>

\* Create copies the disk as it is, unless a machine that crc has forgotten has it in use,
CopyDisk ==
  /\ At("start", "copy")
  /\ IF power = "Off" THEN disk' = DefaultDiskSize /\ Go("new")
     ELSE Return("error") /\ UNCHANGED disk
  /\ UNCHANGED <<machines, vm, power, ip, store, driver, asked, torn, faults>>

\* makes a machine, with an adapter that is taken away again when there is no switch,
NewVM ==
  /\ At("start", "new")
  /\ machines' = machines + 1
  /\ vm' = [NoVM EXCEPT !.memory = driver.memory, !.cpus = 1, !.adapter = TRUE, !.dynamic = TRUE, !.stopAction = "Save"]
  /\ power' = "Off" /\ ip' = FALSE
  /\ Go(IF driver.switch THEN "memory" ELSE "adapter")
  /\ UNCHANGED <<disk, store, driver, asked, torn, faults>>

RemoveAdapter ==
  /\ At("start", "adapter")
  /\ vm' = [vm EXCEPT !.adapter = FALSE]
  /\ Go("memory")
  /\ UNCHANGED <<machines, power, ip, disk, store, driver, asked, torn, faults>>

\* fixes its memory and sets its processors,
SetHardware ==
  /\ At("start", "memory")
  /\ vm' = [vm EXCEPT !.dynamic = FALSE]
  /\ Go(IF driver.cpus > 1 THEN "cpus" ELSE "actions")
  /\ UNCHANGED <<machines, power, ip, disk, store, driver, asked, torn, faults>>

SetProcessors ==
  /\ At("start", "cpus")
  /\ vm' = [vm EXCEPT !.cpus = driver.cpus]
  /\ Go("actions")
  /\ UNCHANGED <<machines, power, ip, disk, store, driver, asked, torn, faults>>

\* has it shut down with the host,
SetActions ==
  /\ At("start", "actions")
  /\ vm' = [vm EXCEPT !.stopAction = "ShutDown"]
  /\ Go("attach")
  /\ UNCHANGED <<machines, power, ip, disk, store, driver, asked, torn, faults>>

\* and attaches the disk.
AddHardDiskDrive ==
  /\ At("start", "attach")
  /\ vm' = [vm EXCEPT !.attached = TRUE]
  /\ Go("exists")
  /\ UNCHANGED <<machines, power, ip, disk, store, driver, asked, torn, faults>>

\* createHost marks the machine as created when all of that has worked, and
\* client.Start loads what is stored.
SetExists ==
  /\ At("start", "exists")
  /\ exists' = TRUE
  /\ driver' = stored
  /\ Go("state")
  /\ UNCHANGED <<hyperv, stored, asked, torn, faults>>

-----------------------------------------------------------------------------
StateBeforeStart ==
  /\ At("start", "state")
  /\ \/ GetState = "Error" /\ Return("error")
     \/ GetState = "Running" /\ Return("running")
     \/ GetState = "Stopped" /\ Go("setMemory")
  /\ UNCHANGED <<hyperv, store, driver, asked, torn, faults>>

\* updateVMConfig: the memory and the processors, each only if it differs from what is
\* loaded,
setMemory ==
  /\ At("start", "setMemory")
  /\ vm' = IF driver.memory # asked.memory THEN [vm EXCEPT !.memory = asked.memory] ELSE vm
  /\ driver' = [driver EXCEPT !.memory = asked.memory]
  /\ Go("setCpus")
  /\ UNCHANGED <<machines, power, ip, disk, store, asked, torn, faults>>

\* Mutation: compared with the wrong setting.
setVcpusStale ==
  /\ At("start", "setCpus")
  /\ driver' = [driver EXCEPT !.cpus = asked.cpus]
  /\ Go("save")
  /\ UNCHANGED <<hyperv, store, asked, torn, faults>>

setVcpus ==
  /\ At("start", "setCpus")
  /\ vm' = IF driver.cpus # asked.cpus THEN [vm EXCEPT !.cpus = asked.cpus] ELSE vm
  /\ driver' = [driver EXCEPT !.cpus = asked.cpus]
  /\ Go("save")
  /\ UNCHANGED <<machines, power, ip, disk, store, asked, torn, faults>>

\* which are then stored,
Save ==
  /\ At("start", "save")
  /\ stored' = driver
  /\ Go("setSize")
  /\ UNCHANGED <<hyperv, exists, driver, asked, torn, faults>>

\* and the size of the disk, unless it is the default.  A disk in use is not made smaller.
setDiskSize ==
  /\ At("start", "setSize")
  /\ IF asked.size = DefaultDiskSize \/ asked.size = driver.size
     THEN Go("startVm") /\ UNCHANGED <<disk, driver>>
     ELSE IF asked.size < disk THEN Return("error") /\ UNCHANGED <<disk, driver>>
     ELSE /\ disk' = asked.size
          /\ driver' = [driver EXCEPT !.size = asked.size]
          /\ Go("saveSize")
  /\ UNCHANGED <<machines, vm, power, ip, store, asked, torn, faults>>

SaveSize ==
  /\ At("start", "saveSize")
  /\ stored' = driver
  /\ Go("startVm")
  /\ UNCHANGED <<hyperv, exists, driver, asked, torn, faults>>

Start ==
  /\ At("start", "startVm")
  /\ power' = "Starting" /\ ip' = FALSE
  /\ Go(IF driver.switch THEN "waitIp" ELSE "inState")
  /\ UNCHANGED <<machines, vm, disk, store, driver, asked, torn, faults>>

\* Mutation: the wait is for a machine that is off.
waitForIPStopped ==
  /\ At("start", "waitIp") /\ GetState = "Stopped"
  /\ Go("inState")
  /\ UNCHANGED <<hyperv, store, driver, asked, torn, faults>>

\* For as long as it takes: an error of GetIP is no reason to stop waiting, and neither is a
\* machine that has been turned off or saved meanwhile.
waitForIP ==
  /\ At("start", "waitIp") /\ GetIP
  /\ Go("inState")
  /\ UNCHANGED <<hyperv, store, driver, asked, torn, faults>>

\* startHost stores the driver and waits for three minutes at most.
startHost ==
  /\ At("start", "inState")
  /\ stored' = driver
  /\ IF GetState = "Running" THEN Return("ok") ELSE Rough("error")
  /\ UNCHANGED <<hyperv, exists, driver, asked, torn, faults>>

-----------------------------------------------------------------------------
\* Stop and PowerOff of a machine that is stopped, or in no state that has a name, as
\* far as that can be told.
ClientStop ==
  /\ call.pc = "idle" /\ exists
  /\ driver' = stored
  /\ \/ IF GetState = "Running" THEN Begin("stop", "stopVm") ELSE call' = Idle("stop", "stopped")
     \/ IF GetState = "Stopped" THEN call' = Idle("poweroff", "stopped") ELSE Begin("poweroff", "turnOff")
  /\ UNCHANGED <<hyperv, store, asked, torn, faults>>

\* Driver.Stop asks the guest to shut down, Driver.Kill does not ask.  A machine that is
\* saved can be neither stopped nor turned off.
Stop ==
  /\ call.pc = "stopVm"
  /\ power' = IF power \in {"Starting", "Running"} THEN "Stopping" ELSE power
  /\ IF power = "Saved" THEN Return("error") ELSE Go("waitStopped")
  /\ UNCHANGED <<machines, vm, ip, disk, store, driver, asked, torn, faults>>

Kill ==
  /\ call.pc = "turnOff"
  /\ IF machines = 0 \/ power = "Saved" THEN Return("error") /\ UNCHANGED <<power, ip>>
     ELSE power' = "Off" /\ ip' = FALSE /\ Go("waitStopped")
  /\ UNCHANGED <<machines, vm, disk, store, driver, asked, torn, faults>>

\* For as long as the machine is on; Remove goes on from there.
waitStopped ==
  /\ call.pc = "waitStopped" /\ GetState # "Running"
  /\ IF GetState = "Error" THEN Rough("error")
     ELSE IF call.op = "delete" THEN Go("removeVm") ELSE Return("ok")
  /\ UNCHANGED <<hyperv, store, driver, asked, torn, faults>>

\* client.Delete.  Remove takes an error of Get-VM to mean that there is no machine,
Remove ==
  /\ call.pc = "idle" /\ exists
  /\ driver' = stored
  /\ Begin("delete", "getVm")
  /\ UNCHANGED <<hyperv, store, asked, torn, faults>>

GetVM ==
  /\ At("delete", "getVm")
  /\ \/ machines = 0 /\ Go("removeStore")
     \/ machines > 0 /\ GetState = "Error" /\ Return("error")
     \/ machines > 0 /\ GetState = "Running" /\ Go("turnOff")
     \/ machines > 0 /\ GetState = "Stopped" /\ Go("removeVm")
  /\ UNCHANGED <<hyperv, store, driver, asked, torn, faults>>

GetVMFails ==
  /\ At("delete", "getVm") /\ Fault
  /\ call' = [call EXCEPT !.pc = "removeStore", !.smooth = FALSE]
  /\ UNCHANGED <<hyperv, store, driver, asked, torn>>

\* Remove-VM leaves the disk, which goes with the directory of the store.
RemoveVM ==
  /\ At("delete", "removeVm")
  /\ machines' = 0 /\ vm' = NoVM /\ power' = "Off" /\ ip' = FALSE
  /\ Go("removeStore")
  /\ UNCHANGED <<disk, store, driver, asked, torn, faults>>

\* Windows does not remove a disk that is in use; RemoveAll removes the rest.
RemoveStore ==
  /\ At("delete", "removeStore")
  /\ stored' = NoConfig /\ exists' = FALSE /\ torn' = FALSE
  /\ IF power = "Off" THEN disk' = 0 /\ Return("ok") ELSE Return("error") /\ UNCHANGED disk
  /\ UNCHANGED <<machines, vm, power, ip, driver, asked, faults>>

\* "crc cleanup" removes the machine whether or not crc says that it exists, and the directory
\* with it; one that is saved cannot be stopped.
removeCrcVM ==
  /\ call.pc = "idle" /\ machines > 0 /\ power # "Saved"
  /\ machines' = 0 /\ vm' = NoVM /\ power' = "Off" /\ ip' = FALSE /\ disk' = 0
  /\ stored' = NoConfig /\ exists' = FALSE /\ torn' = FALSE
  /\ call' = Idle("cleanup", "ok")
  /\ UNCHANGED <<driver, asked, faults>>

-----------------------------------------------------------------------------
\* A command fails, which is an error of the operation, or crc is cut short.  What the
\* two waits run may fail without an effect.
CommandFails ==
  /\ call.pc \notin {"idle", "waitIp", "getVm"} /\ Fault
  /\ torn' = (torn \/ (call.pc \in {"setCpus", "save", "saveSize"} /\ driver # stored))
  /\ Rough("error")
  /\ UNCHANGED <<hyperv, store, driver, asked>>

\* The user interrupts a wait.
Interrupt ==
  /\ call.pc \in {"waitIp", "waitStopped"}
  /\ Rough("none")
  /\ UNCHANGED <<hyperv, store, driver, asked, torn, faults>>

\* The guest boots, gets an address and shuts down when it is told to, or when it likes.
Boots ==
  /\ power = "Starting" /\ power' = "Running"
  /\ UNCHANGED <<machines, vm, ip, disk, store, driver, asked, call, torn, faults>>

GetsAddress ==
  /\ power = "Running" /\ vm.adapter /\ ~ip /\ ip' = TRUE
  /\ UNCHANGED <<machines, vm, power, disk, store, driver, asked, call, torn, faults>>

Halts ==
  /\ power = "Stopping" /\ power' = "Off" /\ ip' = FALSE
  /\ UNCHANGED <<machines, vm, disk, store, driver, asked, call, torn, faults>>

HaltsByItself ==
  /\ power \in {"Starting", "Running"} /\ power' = "Off" /\ ip' = FALSE
  /\ UNCHANGED <<machines, vm, disk, store, driver, asked, call, torn, faults>>

\* The user saves the machine's state, or resumes it.
UserSaves ==
  /\ power = "Running" /\ power' = "Saved" /\ ip' = FALSE
  /\ UNCHANGED <<machines, vm, disk, store, driver, asked, call, torn, faults>>

UserResumes ==
  /\ power = "Saved" /\ power' = "Running"
  /\ UNCHANGED <<machines, vm, ip, disk, store, driver, asked, call, torn, faults>>

\* The steps crc takes by itself in an operation that has begun.
Steps ==
  \/ PreCreateCheck \/ CopyDisk \/ NewVM \/ RemoveAdapter \/ SetHardware \/ SetProcessors
  \/ SetActions \/ AddHardDiskDrive \/ SetExists
  \/ StateBeforeStart \/ setMemory \/ setVcpus \/ Save \/ setDiskSize \/ SaveSize
  \/ Start \/ waitForIP \/ startHost
  \/ Stop \/ Kill \/ waitStopped
  \/ GetVM \/ RemoveVM \/ RemoveStore

Next ==
  \/ ClientStart
  \/ ClientStop
  \/ Remove
  \/ removeCrcVM
  \/ Steps
  \/ GetVMFails
  \/ CommandFails
  \/ Interrupt
  \/ Boots \/ GetsAddress \/ Halts \/ HaltsByItself
  \/ UserSaves \/ UserResumes

Spec == Init /\ [][Next]_vars

\* crc goes on with what it has begun, and the guest boots, asks for an address and obeys.
Fairness == WF_vars(Steps) /\ WF_vars(Boots) /\ WF_vars(GetsAddress) /\ WF_vars(Halts)
FairSpec == Spec /\ Fairness

-----------------------------------------------------------------------------
\* Type invariant: a machine that is marked as created has a configuration.
TypeOK ==
  /\ machines \in 0..MaxMachines
  /\ vm.memory \in Memories \cup {0} /\ vm.cpus \in CPUs \cup {0, 1}
  /\ power \in {"Off", "Starting", "Running", "Stopping", "Saved"} /\ ip \in BOOLEAN
  /\ disk \in Sizes \cup {0}
  /\ stored \in Configs \cup {NoConfig} /\ driver \in Configs \cup {NoConfig}
  /\ exists \in BOOLEAN /\ (exists => stored # NoConfig)
  /\ torn \in BOOLEAN /\ faults \in 0..MaxFaults

(***************************************************************************)
(* "Shuts down the VM when host shuts down" (Create): a machine that is on *)
(* has all that Create gives it, the action at shutdown, the disk and the  *)
(* adapter, wherever an earlier Create has failed or was cut short.        *)
(***************************************************************************)
OnMeansComplete ==
  (exists /\ power # "Off") => (vm.attached /\ vm.stopAction = "ShutDown" /\ ~vm.dynamic /\ vm.adapter = stored.switch)

(***************************************************************************)
(* A stop or a power off that returns nil leaves the machine off, not on   *)
(* its way there (waitStopped): crc reports it as stopped, and a delete    *)
(* may follow.                                                             *)
(***************************************************************************)
StopStops == (call.op \in {"stop", "poweroff"} /\ call.pc = "idle" /\ call.result = "ok") => power = "Off"

Hardware == vm.memory = asked.memory /\ vm.cpus = asked.cpus
StartedNow == call.op = "start" /\ call.pc = "idle" /\ call.result = "ok"

(***************************************************************************)
(* A start that creates or starts the machine gives it the memory and the  *)
(* processors it was asked for (updateVMConfig changes only what differs   *)
(* from the stored configuration), as long as no earlier update has failed *)
(* between Hyper-V and the store.                                          *)
(***************************************************************************)
HardwareUnlessTorn == (StartedNow /\ ~torn) => Hardware

\* The same without exception: "CPU cores to allocate", "MiB of memory to allocate".
HardwareAsAsked == StartedNow => Hardware

\* "Total size in GiB of the disk used by the instance" (the flag of "crc start").
SizeAsAsked == (StartedNow /\ asked.size # DefaultDiskSize) => disk = asked.size

(***************************************************************************)
(* "Remove removes an host": when nothing fails on the way, a delete that  *)
(* returns nil leaves no machine in Hyper-V behind the store's back.       *)
(***************************************************************************)
DeletedUnlessRough ==
  (call.op = "delete" /\ call.pc = "idle" /\ call.result = "ok" /\ call.smooth) => machines = 0

\* The same whatever fails: Remove takes any error of Get-VM to mean that there is none.
DeletedMeansGone == (call.op = "delete" /\ call.pc = "idle" /\ call.result = "ok") => machines = 0

(***************************************************************************)
(* "PreCreateCheck checks that the machine creation process can be started *)
(* safely": no second machine of the same name is made.                    *)
(***************************************************************************)
OneMachine == machines <= 1

(***************************************************************************)
(* Of the two waits without a limit, waitStopped ends whatever the guest   *)
(* does: when it has shut down, by itself or because it was told to, and   *)
(* with an error when its state has been saved.  waitForIP has no way out  *)
(* but an address: it ends if the guest keeps running.                     *)
(***************************************************************************)
WaitsEnd ==
  /\ call.pc = "waitStopped" ~> call.pc # "waitStopped"
  /\ call.pc = "waitIp" ~> (call.pc # "waitIp" \/ GetState # "Running")

\* The same for a guest that is turned off or saved meanwhile, of which waitForIP takes no notice.
WaitForIPEnds == call.pc = "waitIp" ~> call.pc # "waitIp"

=============================================================================

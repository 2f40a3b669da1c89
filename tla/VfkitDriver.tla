---------------------------- MODULE VfkitDriver -----------------------------
(***************************************************************************)
(* The driver for macOS (pkg/drivers/vfkit) and the calls that the client  *)
(* makes of it: the virtual machine is a vfkit process, and all that crc   *)
(* knows of it is the number it has written to vfkit.pid.  The process can *)
(* end by itself at any moment, its number be given to another one, and    *)
(* the crc process that looks after it be cut short.                       *)
(***************************************************************************)
EXTENDS Integers

CONSTANTS
  Procs,      \* the crc processes
  Pids,       \* process numbers
  Sizes,      \* sizes of a disk, in the steps "disk-size" may have
  ImageSize,  \* the size of the disk in the bundle
  VirtioNet,  \* is the network mode "system"
  MaxFaults   \* how many calls fail or are cut short

VARIABLES
  table,      \* the process with each number: "none", "ours", "stopping" (ours), "other"
  pidFile,    \* what vfkit.pid holds: 0 if there is none, Junk if it is no number
  disk,       \* the size of the disk image, 0 if there is none
  saved,      \* the capacity in the stored configuration, 0 if there is no machine
  call,       \* the operation each crc process is at
  lease,      \* does the file of leases have an entry for the machine's hardware address
  lost,       \* has a vfkit been started whose number was not written
  faults

Junk == -1

files == <<pidFile, disk, saved>>
vars == <<table, files, call, lease, lost, faults>>

Ours == {pid \in Pids : table[pid] \in {"ours", "stopping"}}
Idle(op, result) == [op |-> op, pc |-> "idle", pid |-> 0, size |-> 0, result |-> result, smooth |-> TRUE]

Init ==
  /\ table = [pid \in Pids |-> "none"]
  /\ pidFile = 0 /\ disk = 0 /\ saved = 0
  /\ call = [p \in Procs |-> Idle("none", "none")]
  /\ lease = FALSE /\ lost = FALSE /\ faults = 0

At(p, op, pc) == call[p].op = op /\ call[p].pc = pc
Go(p, pc) == call' = [call EXCEPT ![p].pc = pc]
Return(p, result) == call' = [call EXCEPT ![p] = [Idle(call[p].op, result) EXCEPT !.smooth = call[p].smooth]]
Begin(p, op, pc) == call' = [call EXCEPT ![p] = [Idle(op, "none") EXCEPT !.pc = pc]]
Fault == faults < MaxFaults /\ faults' = faults + 1
Rough(p, result) == call' = [call EXCEPT ![p] = [Idle(call[p].op, result) EXCEPT !.smooth = FALSE]]

-----------------------------------------------------------------------------
\* Mutation: a number that another program has is an error.
StaleIsError ==
  IF pidFile = Junk THEN Junk
  ELSE IF pidFile \in Ours THEN pidFile
  ELSE IF pidFile \in Pids /\ table[pidFile] = "other" THEN Junk ELSE 0

\* The process that vfkit.pid names, if there is one and it is a vfkit; 0 is nil, and a
\* file that is no number an error.
findVfkitProcess == IF pidFile = Junk THEN Junk ELSE IF pidFile \in Ours THEN pidFile ELSE 0

GetState ==
  IF findVfkitProcess = Junk THEN "Error" ELSE IF findVfkitProcess = 0 THEN "Stopped" ELSE "Running"

-----------------------------------------------------------------------------
\* Create copies the disk of the bundle, and
Create(p) ==
  /\ call[p].pc = "idle" /\ saved = 0
  /\ \E size \in Sizes : call' = [call EXCEPT ![p] = [Idle("create", "none") EXCEPT !.pc = "resize", !.size = size]]
  /\ disk' = ImageSize
  /\ UNCHANGED <<table, pidFile, saved, lost, faults, lease>>

\* a disk is never made smaller.
resize(p) ==
  /\ call[p].pc = "resize"
  /\ IF call[p].size < disk THEN Return(p, "error") /\ UNCHANGED disk
     ELSE disk' = call[p].size /\ Go(p, "save")
  /\ UNCHANGED <<table, pidFile, saved, lost, faults, lease>>

\* The client stores the configuration when the driver has done its part.
Save(p) ==
  /\ call[p].pc = "save"
  /\ saved' = call[p].size
  /\ Return(p, "ok")
  /\ UNCHANGED <<table, pidFile, disk, lost, faults, lease>>

\* A start with another "disk-size" updates the configuration of a stopped machine first.
UpdateConfigRaw(p) ==
  /\ call[p].pc = "idle" /\ saved # 0 /\ GetState = "Stopped"
  /\ \E size \in Sizes \ {saved} :
       call' = [call EXCEPT ![p] = [Idle("update", "none") EXCEPT !.pc = "resize", !.size = size]]
  /\ UNCHANGED <<table, files, lost, faults, lease>>

-----------------------------------------------------------------------------
\* client.Start looks at the state,
ClientStart(p) ==
  /\ call[p].pc = "idle" /\ saved # 0
  /\ IF GetState = "Stopped" THEN Begin(p, "start", "recover")
     ELSE call' = [call EXCEPT ![p] = Idle("start", IF GetState = "Error" THEN "error" ELSE "ok")]
  /\ UNCHANGED <<table, files, lost, faults, lease>>

\* Driver.Start removes a stale vfkit.pid,
recoverFromUncleanShutdown(p) ==
  /\ At(p, "start", "recover")
  /\ pidFile' = IF findVfkitProcess \in Pids THEN pidFile ELSE 0
  /\ Go(p, "devices")
  /\ UNCHANGED <<table, disk, saved, lost, faults, lease>>

\* describes the machine and its devices, any of which can be refused,
AddDevices(p) ==
  /\ At(p, "start", "devices")
  /\ \/ Go(p, "spawn") /\ UNCHANGED faults
     \/ Rough(p, "error") /\ Fault
  /\ UNCHANGED <<table, files, lost, lease>>

\* runs vfkit,
startVfkit(p) ==
  /\ At(p, "start", "spawn")
  /\ \E pid \in Pids :
       /\ table[pid] = "none"
       /\ table' = [table EXCEPT ![pid] = "ours"]
       /\ call' = [call EXCEPT ![p].pc = "early", ![p].pid = pid]
  /\ UNCHANGED <<files, lost, faults, lease>>

\* waits a second for it to fail: what it gets when vfkit has ended with status 0 is neither
\* a process nor an error,
EarlyFailure(p) ==
  /\ At(p, "start", "early")
  /\ IF table[call[p].pid] = "ours" THEN Go(p, "writePid")
     ELSE Return(p, "error") \/ Return(p, "panic")
  /\ UNCHANGED <<table, files, lost, faults, lease>>

\* Mutation: the number is written when it is known that the machine is running.
WritePidLate(p) ==
  /\ At(p, "start", "writePid")
  /\ Go(p, IF VirtioNet THEN "ip" ELSE "inState")
  /\ UNCHANGED <<table, files, lost, faults, lease>>

\* writes its number, and does not look whether that has worked,
WritePid(p) ==
  /\ At(p, "start", "writePid")
  /\ pidFile' = call[p].pid
  /\ Go(p, IF VirtioNet THEN "ip" ELSE "inState")
  /\ UNCHANGED <<table, disk, saved, lost, faults, lease>>

WritePidFails(p) ==
  /\ At(p, "start", "writePid") /\ Fault
  /\ pidFile' = Junk /\ lost' = TRUE
  /\ call' = [call EXCEPT ![p].pc = IF VirtioNet THEN "ip" ELSE "inState", ![p].smooth = FALSE]
  /\ UNCHANGED <<table, disk, saved, lease>>

\* and waits for a lease of its hardware address: the first entry in the file, which may be
\* the one of an earlier start.
GetIPAddressByMACAddress(p) ==
  /\ At(p, "start", "ip")
  /\ lease
  /\ Go(p, "inState")
  /\ UNCHANGED <<table, files, lost, faults, lease>>

\* The last of 60 attempts fails, because a guest that runs has not asked for an address or
\* because it runs no more.
RetryAfter(p) ==
  /\ At(p, "start", "ip") /\ ~lease
  /\ IF table[call[p].pid] = "ours" THEN Fault /\ Rough(p, "error") ELSE Return(p, "error") /\ UNCHANGED faults
  /\ UNCHANGED <<table, files, lost, lease>>

\* startHost waits until the driver says that the machine is running.
startHost(p) ==
  /\ At(p, "start", "inState")
  /\ Return(p, IF GetState = "Running" THEN "ok" ELSE "error")
  /\ UNCHANGED <<table, files, lost, faults, lease>>

-----------------------------------------------------------------------------
\* Host.Stop and Host.Kill do nothing for a machine that is stopped,
runActionForState(p) ==
  /\ call[p].pc = "idle" /\ saved # 0
  /\ \E op \in {"stop", "kill"} :
       IF GetState = "Stopped" THEN call' = [call EXCEPT ![p] = Idle(op, "stopped")]
       ELSE Begin(p, op, IF op = "stop" THEN "state" ELSE "signal")
  /\ UNCHANGED <<table, files, lost, faults, lease>>

\* and Driver.Stop looks again.
Stop(p) ==
  /\ At(p, "stop", "state")
  /\ \/ GetState = "Error" /\ Rough(p, "error") /\ UNCHANGED pidFile
     \/ GetState = "Stopped" /\ Return(p, "ok") /\ pidFile' = 0
     \/ GetState = "Running" /\ Go(p, "signal") /\ UNCHANGED pidFile
  /\ UNCHANGED <<table, disk, saved, lost, faults, lease>>

\* A process that is nil is sent no signal.
sendSignal(p) ==
  /\ call[p].pc = "signal"
  /\ \/ findVfkitProcess = Junk /\ Rough(p, "error") /\ UNCHANGED table
     \/ findVfkitProcess = 0 /\ Rough(p, "panic") /\ UNCHANGED table
     \/ /\ findVfkitProcess \in Pids
        /\ table' = [table EXCEPT ![findVfkitProcess] = IF call[p].op = "stop" THEN "stopping" ELSE "none"]
        /\ Go(p, IF call[p].op = "delete" THEN "remove" ELSE "poll")
  /\ UNCHANGED <<files, lost, faults, lease>>

\* Driver.Stop removes vfkit.pid when the machine has stopped, Kill leaves it.
Poll(p) ==
  /\ call[p].pc = "poll"
  /\ GetState = "Stopped"
  /\ pidFile' = IF call[p].op = "stop" THEN 0 ELSE pidFile
  /\ Return(p, "ok")
  /\ UNCHANGED <<table, disk, saved, lost, faults, lease>>

\* The guest does not stop in two minutes.
PollTimeout(p) ==
  /\ call[p].pc = "poll" /\ GetState # "Stopped" /\ Fault
  /\ Rough(p, "error")
  /\ UNCHANGED <<table, files, lost, lease>>

\* client.Delete kills a machine that is running, and removes its directory.
Remove(p) ==
  /\ call[p].pc = "idle" /\ saved # 0
  /\ Begin(p, "delete", IF GetState = "Running" THEN "signal" ELSE "remove")
  /\ UNCHANGED <<table, files, lost, faults, lease>>

RemoveDirectory(p) ==
  /\ At(p, "delete", "remove")
  /\ pidFile' = 0 /\ disk' = 0 /\ saved' = 0
  /\ Return(p, "ok")
  /\ UNCHANGED <<table, lost, faults, lease>>

-----------------------------------------------------------------------------
\* A vfkit ends, because it was told to or by itself, which disturbs the start that has run it,
VfkitEnds(pid) ==
  /\ pid \in Ours
  /\ table' = [table EXCEPT ![pid] = "none"]
  /\ lost' = (lost /\ Ours # {pid})
  /\ call' = [p \in Procs |-> [call[p] EXCEPT !.smooth = @ /\ call[p].pid # pid]]
  /\ UNCHANGED <<files, faults, lease>>

\* a guest that runs asks for an address,
Lease ==
  /\ VirtioNet /\ Ours # {} /\ ~lease
  /\ lease' = TRUE
  /\ UNCHANGED <<table, files, call, lost, faults>>

\* and other processes come and go.
OtherProcess(pid) ==
  /\ table[pid] \in {"none", "other"}
  /\ table' = [table EXCEPT ![pid] = IF @ = "none" THEN "other" ELSE "none"]
  /\ UNCHANGED <<files, call, lost, faults, lease>>

\* A crc process ends: vfkit does not.
CutShort(p) ==
  /\ call[p].pc # "idle" /\ Fault
  /\ lost' = (lost \/ call[p].pc \in {"early", "writePid"})
  /\ Rough(p, "none")
  /\ UNCHANGED <<table, files, lease>>

Next ==
  \/ \E p \in Procs :
       \/ Create(p)
       \/ resize(p)
       \/ Save(p)
       \/ UpdateConfigRaw(p)
       \/ ClientStart(p)
       \/ recoverFromUncleanShutdown(p)
       \/ AddDevices(p)
       \/ startVfkit(p)
       \/ EarlyFailure(p)
       \/ WritePid(p)
       \/ WritePidFails(p)
       \/ GetIPAddressByMACAddress(p)
       \/ RetryAfter(p)
       \/ startHost(p)
       \/ runActionForState(p)
       \/ Stop(p)
       \/ sendSignal(p)
       \/ Poll(p)
       \/ PollTimeout(p)
       \/ Remove(p)
       \/ RemoveDirectory(p)
       \/ CutShort(p)
  \/ \E pid \in Pids : VfkitEnds(pid) \/ OtherProcess(pid)
  \/ Lease

Spec == Init /\ [][Next]_vars

-----------------------------------------------------------------------------
\* Type invariant: a machine that is stored has a disk.
TypeOK ==
  /\ table \in [Pids -> {"none", "ours", "stopping", "other"}]
  /\ pidFile \in Pids \cup {0, Junk}
  /\ disk \in Sizes \cup {0} /\ saved \in Sizes \cup {0} /\ (saved # 0 => disk # 0)
  /\ \A p \in Procs : call[p].pid \in Pids \cup {0} /\ call[p].size \in Sizes \cup {0}
  /\ lease \in BOOLEAN /\ lost \in BOOLEAN /\ faults \in 0..MaxFaults

(***************************************************************************)
(* "This is an error situation - we shouldn't start minikube as there is   *)
(* likely an instance running already" (recoverFromUncleanShutdown): no    *)
(* two vfkit processes run on the same disk.                               *)
(***************************************************************************)
OneVfkit == \A pid1, pid2 \in Ours : pid1 = pid2

\* The same as long as the number of every vfkit has been written to vfkit.pid.
OneKnownVfkit == ~lost => OneVfkit

(***************************************************************************)
(* GetState tells the truth between two operations: it says "Running" when *)
(* vfkit runs and "Stopped" when it does not, whatever numbers other       *)
(* processes have been given and whatever vfkit.pid an operation that was  *)
(* cut short has left.                                                     *)
(***************************************************************************)
StateTruthful ==
  (~lost /\ \A p \in Procs : call[p].pc = "idle") =>
     (GetState = "Running" <=> Ours # {})

(***************************************************************************)
(* A machine whose Stop, Kill or Remove has returned nil is not running,   *)
(* until it is started again (Driver.Stop polls the state for it).         *)
(***************************************************************************)
StopStops ==
  \A p \in Procs :
    (~lost /\ call[p].pc = "idle" /\ call[p].op \in {"stop", "kill", "delete"} /\ call[p].result = "ok")
       => Ours = {}

(***************************************************************************)
(* "there is a good chance the machine will recover when restarted"        *)
(* (recoverFromUncleanShutdown): a start succeeds after any earlier        *)
(* operation that failed or was cut short, whatever program now has the    *)
(* number that was left in vfkit.pid, when no command of its own fails and *)
(* the vfkit it runs does not end by itself.  The file must be readable.   *)
(***************************************************************************)
Undisturbed(p) == call[p].op = "start" /\ call[p].pc = "idle" /\ call[p].smooth
SmoothStartRecovers == \A p \in Procs : Undisturbed(p) => call[p].result = "ok" \/ pidFile = Junk

\* The same without exception.
SmoothStartSucceeds == \A p \in Procs : Undisturbed(p) => call[p].result = "ok"

(***************************************************************************)
(* The disk is never smaller than the capacity in the stored configuration, *)
(* nor is it ever made smaller (resize), although the two are written one  *)
(* after the other.                                                        *)
(***************************************************************************)
CapacityFits == saved # 0 => saved <= disk

\* Sending a signal does not dereference nil: "Returns nil, nil if (...) a process with the
\* pid from this file cannot be found" (findVfkitProcess).
SignalDoesNotPanic == \A p \in Procs : call[p].op # "start" => call[p].result # "panic"

\* Neither does Start: startVfkit is to "catch vfkit early startup failures".
StartDoesNotPanic == \A p \in Procs : call[p].op = "start" => call[p].result # "panic"

=============================================================================

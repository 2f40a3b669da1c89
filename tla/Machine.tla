------------------------------ MODULE Machine ------------------------------
(***************************************************************************)
(* The machine client of pkg/crc/machine: Start, Stop, Delete, PowerOff,   *)
(* GenerateBundle and Status, with the state they share: the files of the  *)
(* machine store, the virtual machine of the hypervisor, the forwarded     *)
(* ports and what is written to the user's own configuration.              *)
(*                                                                         *)
(* A member of Slots is a goroutine of a process (the daemon or a command  *)
(* line) that makes one call after the other.  Every process has a gate of *)
(* its own (newMachine in cmd/crc/cmd/root.go); here it does what module   *)
(* ExclusiveOperations promises of it.  Any step that the code says may    *)
(* fail, may fail.  The driver is one that registers the machine with the  *)
(* hypervisor, as pkg/drivers/hyperv does.                                 *)
(***************************************************************************)
CONSTANTS
  Processes,       \* the processes that drive the machine
  Daemon,          \* the one that also forwards the ports
  Crashing,        \* the processes that may be killed
  Slots,           \* the goroutines that make calls
  ProcessOf,       \* the process each of them belongs to
  Nil,             \* no goroutine
  OpenShift,       \* is the bundle an OpenShift one (else Podman)
  UserNetworking,  \* network mode "user", as opposed to "system"
  Ports            \* the ports vsockPorts lists for the preset

ASSUME MachineAssumptions ==
  /\ Daemon \in Processes
  /\ Crashing \subseteq Processes
  /\ ProcessOf \in [Slots -> Processes]
  /\ Nil \notin Slots
  /\ OpenShift \in BOOLEAN /\ UserNetworking \in BOOLEAN

VARIABLES
  op,         \* the method each slot is calling, or "none"
  pc,         \* how far that call is
  gate,       \* per process, the slot performing a Start, Stop or Delete, or Nil
  cancelled,  \* the slots whose context has been cancelled
  store,      \* the files in the machine's directory that are there
  vm,         \* the hypervisor's virtual machine
  leftover,   \* has a Delete gone on although the driver left the machine where it was
  guestKey,   \* does the guest accept the key of the machine's directory
  ports,      \* the ports the daemon forwards
  kubeconfig, \* are crc's contexts in the user's kubeconfig
  podman,     \* are crc's connections in the user's podman configuration
  settled     \* what the last Start, Stop or Delete reported, if none has begun since

host == <<store, vm, leftover, guestKey, ports, kubeconfig, podman>>
calls == <<op, pc, gate, cancelled, settled>>
vars == <<host, calls>>

Gated == {"Start", "Stop", "Delete"}

\* What a process can ask for: the API of the daemon does not generate bundles.
Methods(p) ==
  Gated \cup {"PowerOff", "Status"} \cup (IF p = Daemon THEN {} ELSE {"GenerateBundle"})

\* .crc-exist, config.json, id_ecdsa and kubeadmin-password.
Files == {"exists", "config", "key", "password"}

\* What a call does first, once it is past the gate.
Entry == [Start |-> "start", Stop |-> "stop", Delete |-> "delete",
          PowerOff |-> "kill", GenerateBundle |-> "generate", Status |-> "status"]

Returning == {"ok", "empty", "failed"}

Steps == {"idle", "called", "cancelling", "start", "create", "driverCreate", "secrets", "load",
          "expose", "update", "boot", "wait", "recheck", "connect", "guest", "podman", "cluster",
          "kubeconfig", "stop", "containers", "shutdown", "delete", "driverRemove", "storeRemove",
          "unexpose", "clean", "kill", "killDriver", "generate", "settle", "copy", "status"}
         \cup Returning

Init ==
  /\ op = [s \in Slots |-> "none"]
  /\ pc = [s \in Slots |-> "idle"]
  /\ gate = [p \in Processes |-> Nil]
  /\ cancelled = {}
  /\ store = {}
  /\ vm = "none"
  /\ leftover = FALSE
  /\ guestKey = FALSE
  /\ ports = {}
  /\ kubeconfig = FALSE
  /\ podman = FALSE
  /\ settled = "unknown"

-----------------------------------------------------------------------------
(***************************************************************************)
(* The shape of a step: from one program point to another, with the call   *)
(* variables otherwise unchanged.                                          *)
(***************************************************************************)
At(s, here) == pc[s] = here
Goto(s, there) == pc' = [pc EXCEPT ![s] = there] /\ UNCHANGED <<op, gate, cancelled, settled>>

\* Return of an error; GenerateBundle with --force answers a failed Stop with PowerOff.
Fail(s) ==
  \/ Goto(s, "failed")
  \/ /\ op[s] = "GenerateBundle" /\ pc[s] \in {"stop", "containers", "shutdown"}
     /\ Goto(s, "kill")

\* Where Stop and PowerOff lead, also when GenerateBundle calls them.
Succeed(s) == Goto(s, IF op[s] = "GenerateBundle" THEN "settle" ELSE "ok")

\* loadVirtualMachine finds the mark and a configuration to load.
Loadable == {"exists", "config"} \subseteq store

\* vm.State reports an error for a machine the hypervisor does not know.
StateIs(st) == vm = st

\* What Stop asks before anything else,
IsRunning == Loadable /\ StateIs("Running")

\* and what GenerateBundle needs to begin.
LoadVM == Loadable /\ StateIs("Running")

-----------------------------------------------------------------------------
(***************************************************************************)
(* Calls and the gate.                                                     *)
(***************************************************************************)
Invoke(s) ==
  /\ At(s, "idle")
  /\ \E m \in Methods(ProcessOf[s]) :
       /\ op' = [op EXCEPT ![s] = m]
       /\ pc' = [pc EXCEPT ![s] = IF m \in Gated THEN "called" ELSE Entry[m]]
  /\ UNCHANGED <<gate, cancelled, settled, host>>

\* Mutation: the gate is not asked.
AdmitAlways(s) ==
  /\ pc[s] \in {"called", "cancelling"}
  /\ gate' = [gate EXCEPT ![ProcessOf[s]] = s]
  /\ pc' = [pc EXCEPT ![s] = Entry[op[s]]]
  /\ settled' = "unknown"
  /\ UNCHANGED <<op, cancelled, host>>

Admit(s) ==
  /\ pc[s] \in {"called", "cancelling"}
  /\ gate[ProcessOf[s]] = Nil
  /\ gate' = [gate EXCEPT ![ProcessOf[s]] = s]
  /\ pc' = [pc EXCEPT ![s] = Entry[op[s]]]
  /\ settled' = "unknown"
  /\ UNCHANGED <<op, cancelled, host>>

\* Another operation is in progress: refused, or a Start to cancel first.
Refuse(s) ==
  /\ At(s, "called")
  /\ LET holder == gate[ProcessOf[s]] IN
       /\ holder # Nil
       /\ IF op[s] # "Start" /\ op[holder] = "Start"
          THEN /\ cancelled' = cancelled \cup {holder}
               /\ pc' = [pc EXCEPT ![s] = "cancelling"]
          ELSE /\ pc' = [pc EXCEPT ![s] = "failed"]
               /\ UNCHANGED cancelled
  /\ UNCHANGED <<op, gate, settled, host>>

CancelTimeout(s) ==
  /\ At(s, "cancelling")
  /\ Goto(s, "failed")
  /\ UNCHANGED host

\* The call returns to its caller, and the gate learns of it.
Return(s) ==
  /\ pc[s] \in Returning
  /\ op' = [op EXCEPT ![s] = "none"]
  /\ pc' = [pc EXCEPT ![s] = "idle"]
  /\ gate' = [p \in Processes |-> IF gate[p] = s THEN Nil ELSE gate[p]]
  /\ cancelled' = cancelled \ {s}
  /\ settled' = IF At(s, "ok") /\ op[s] \in Gated
                THEN [Start |-> "started", Stop |-> "stopped", Delete |-> "deleted"][op[s]]
                ELSE settled
  /\ UNCHANGED host
-----------------------------------------------------------------------------
(***************************************************************************)
(* Start.  Files are written one after the other; a step that fails leaves *)
(* what it has done so far.                                                *)
(***************************************************************************)

\* validateStartConfig, Exists, getCrcBundleInfo and bundleMismatchWithPreset.
StartCheck(s) ==
  /\ At(s, "start")
  /\ \/ Goto(s, IF "exists" \in store THEN "load" ELSE "create")
     \/ Fail(s)
  /\ UNCHANGED host

\* A failing Save has changed nothing, or removed the old file and not put the new one
\* in its place, which saveToFile deletes with the temporary file.
SaveFailed == store' \in {store, store \ {"config"}}

\* createHost: newHost, PreCreateCheck and the first Save.
CreateSave(s) ==
  /\ At(s, "create")
  /\ \/ Goto(s, "driverCreate") /\ store' = store \cup {"config"}
     \/ Fail(s) /\ SaveFailed
  /\ UNCHANGED <<vm, leftover, guestKey, ports, kubeconfig, podman>>

\* createHost: the driver copies the bundle's disk, whose key is the bundle's, and registers
\* the machine; it may report an error after either.  It does not look for one of the name,
\* so next to a machine that was left over the hypervisor answers for the one or the other.
DriverCreate(s) ==
  /\ At(s, "driverCreate")
  /\ \/ /\ Goto(s, "secrets")
        /\ \/ vm' = "Stopped" /\ guestKey' = FALSE
           \/ leftover /\ UNCHANGED <<vm, guestKey>>
     \/ Fail(s) /\ vm' \in {vm, "Stopped"} /\ guestKey' \in {guestKey, FALSE}
  /\ UNCHANGED <<store, leftover, ports, kubeconfig, podman>>

\* The files createHost writes after the driver's Create, in this order.
SecretFiles == {"key"} \cup (IF OpenShift THEN {"password"} ELSE {})

\* Mutation: the mark is set before the secrets are generated.
CreateSecretsMarkFirst(s) ==
  /\ At(s, "secrets")
  /\ \/ Goto(s, "load") /\ store' = store \cup SecretFiles \cup {"exists"}
     \/ Fail(s) /\ store' \in {store \cup {"exists"}, store \cup {"key", "exists"}}
  /\ UNCHANGED <<vm, leftover, guestKey, ports, kubeconfig, podman>>

\* createHost: GenerateSSHKey, GenerateKubeAdminUserPassword and, last, SetExists.
CreateSecrets(s) ==
  /\ At(s, "secrets")
  /\ \/ Goto(s, "load") /\ store' = store \cup SecretFiles \cup {"exists"}
     \/ Fail(s) /\ store' \in {store, store \cup {"key"}, store \cup SecretFiles}
  /\ UNCHANGED <<vm, leftover, guestKey, ports, kubeconfig, podman>>

\* loadVirtualMachine, the bundle's name, and the state: a running machine is left alone.
StartLoad(s) ==
  /\ At(s, "load")
  /\ \/ /\ Loadable /\ StateIs("Running") /\ (OpenShift => "password" \in store)
        /\ Goto(s, "ok")
     \/ Loadable /\ StateIs("Stopped") /\ Goto(s, IF UserNetworking THEN "expose" ELSE "update")
     \/ Fail(s)
  /\ UNCHANGED host

\* Mutation: the errors of exposePorts are only logged.
ExposePortsLogged(s) ==
  /\ At(s, "expose")
  /\ \E opened \in SUBSET Ports : ports' = ports \cup opened
  /\ Goto(s, "update")
  /\ UNCHANGED <<store, vm, leftover, guestKey, kubeconfig, podman>>

\* exposePorts stops at the first port it cannot forward.
ExposePorts(s) ==
  /\ At(s, "expose")
  /\ \/ Goto(s, "update") /\ ports' = ports \cup Ports
     \/ Fail(s) /\ \E opened \in SUBSET (Ports \ ports) : ports' = ports \cup opened
  /\ UNCHANGED <<store, vm, leftover, guestKey, kubeconfig, podman>>

\* updateVMConfig saves the machine it has loaded, whatever became of its directory.
UpdateVMConfig(s) ==
  /\ At(s, "update")
  /\ \/ Goto(s, "boot") /\ store' = store \cup {"config"}
     \/ Fail(s) /\ (SaveFailed \/ store' = store \cup {"config"})
  /\ UNCHANGED <<vm, leftover, guestKey, ports, kubeconfig, podman>>

\* startHost: the driver may report an error after it has started the machine.
DriverStart(s) ==
  /\ At(s, "boot")
  /\ \/ vm # "none" /\ vm' = "Running" /\ (Goto(s, "wait") \/ Fail(s))
     \/ Fail(s) /\ UNCHANGED vm
  /\ UNCHANGED <<store, leftover, guestKey, ports, kubeconfig, podman>>

\* startHost: the last Save, and the Retry until the driver says Running.
WaitRunning(s) ==
  /\ At(s, "wait")
  /\ \/ /\ store' = store \cup {"config"}
        /\ \/ StateIs("Running") /\ s \notin cancelled /\ Goto(s, "recheck")
           \/ Fail(s)
     \/ Fail(s) /\ SaveFailed
  /\ UNCHANGED <<vm, leftover, guestKey, ports, kubeconfig, podman>>

\* A machine that has stopped meanwhile: errors.Wrap(nil, ...) is nil, so neither a
\* result nor an error is returned.
Recheck(s) ==
  /\ At(s, "recheck")
  /\ \/ StateIs("Running") /\ Goto(s, "connect")
     \/ StateIs("Stopped") /\ Goto(s, "empty")
     \/ Fail(s)
  /\ UNCHANGED host

\* The guest answers through the forwarded ports when networking is in user mode.
Reachable == vm = "Running" /\ (UserNetworking => Ports \subseteq ports)

\* WaitForConnectivity.
Connect(s) ==
  /\ At(s, "connect")
  /\ \/ Reachable /\ s \notin cancelled /\ Goto(s, "guest")
     \/ Fail(s)
  /\ UNCHANGED host

\* updateSSHKeyPair and the other changes made in the guest over ssh.
ConfigureGuest(s) ==
  /\ At(s, "guest")
  /\ \/ /\ Reachable /\ "key" \in store
        /\ guestKey' = TRUE
        /\ Goto(s, IF OpenShift THEN "cluster" ELSE "podman") \/ Fail(s)
     \/ Fail(s) /\ UNCHANGED guestKey
  /\ UNCHANGED <<store, vm, leftover, ports, kubeconfig, podman>>

\* The end of a Podman start: the host's entry, the token and the connections.
StartPodman(s) ==
  /\ At(s, "podman")
  /\ \/ Reachable /\ podman' = TRUE /\ Goto(s, "ok")
     \/ Fail(s) /\ podman' \in {podman, TRUE}
  /\ UNCHANGED <<store, vm, leftover, guestKey, ports, kubeconfig>>

\* UpdateKubeAdminUserPassword writes the password of the configuration, if there is one.
PasswordOverride == {store} \cup (IF store = {} THEN {} ELSE {store \cup {"password"}})

\* DNS, certificates, kubelet and the cluster's resources; the retries look at the context.
StartCluster(s) ==
  /\ At(s, "cluster")
  /\ store' \in PasswordOverride
  /\ \/ Reachable /\ s \notin cancelled /\ "password" \in store' /\ Goto(s, "kubeconfig")
     \/ Fail(s)
  /\ UNCHANGED <<vm, leftover, guestKey, ports, kubeconfig, podman>>

\* WaitForClusterStable and writeKubeconfig: their errors are only logged.
WriteKubeconfig(s) ==
  /\ At(s, "kubeconfig")
  /\ \/ /\ "password" \in store
        /\ kubeconfig' \in {kubeconfig, kubeconfig \/ Reachable}
        /\ Goto(s, "ok")
     \/ Fail(s) /\ UNCHANGED kubeconfig
  /\ UNCHANGED <<store, vm, leftover, guestKey, ports, podman>>
-----------------------------------------------------------------------------
(***************************************************************************)
(* Stop and PowerOff.                                                      *)
(***************************************************************************)

\* Stop: IsRunning, whose error counts as not running.
StopCheck(s) ==
  /\ At(s, "stop")
  /\ \/ IsRunning /\ Goto(s, "containers")
     \/ Fail(s)
  /\ UNCHANGED host

\* Stop: loadVirtualMachine; the errors of stopAllContainers are only logged.
StopContainers(s) ==
  /\ At(s, "containers")
  /\ \/ Loadable /\ Goto(s, "shutdown")
     \/ Fail(s)
  /\ UNCHANGED host

\* The machine as an action leaves it that may have halted it before it failed.
HaltFailed == vm' \in {vm, IF vm = "Running" THEN "Stopped" ELSE vm}

\* Mutation: the wait for the Stopped state is left out.
RunActionUnawaited(s) ==
  \/ vm = "Running" /\ vm' \in {"Running", "Stopped"} /\ Succeed(s)
  \/ Fail(s) /\ HaltFailed

\* Host.Stop and Host.Kill: an error unless they take the machine from another state to
\* Stopped.
RunActionForState(s) ==
  \/ vm = "Running" /\ vm' = "Stopped" /\ Succeed(s)
  \/ Fail(s) /\ HaltFailed

\* Stop: updateKernelArgs, whose errors are only logged, and Host.Stop.
Shutdown(s) ==
  /\ At(s, "shutdown")
  /\ RunActionForState(s)
  /\ UNCHANGED <<store, leftover, guestKey, ports, kubeconfig, podman>>

\* PowerOff: loadVirtualMachine.
PowerOffLoad(s) ==
  /\ At(s, "kill")
  /\ \/ Loadable /\ Goto(s, "killDriver")
     \/ Fail(s)
  /\ UNCHANGED host

\* PowerOff: Host.Kill.
Kill(s) ==
  /\ At(s, "killDriver")
  /\ RunActionForState(s)
  /\ UNCHANGED <<store, leftover, guestKey, ports, kubeconfig, podman>>

\* The guest shuts down, or its hypervisor dies, without anybody having asked.
GuestStops ==
  /\ vm = "Running"
  /\ vm' = "Stopped"
  /\ UNCHANGED <<store, leftover, guestKey, ports, kubeconfig, podman, calls>>

-----------------------------------------------------------------------------
(***************************************************************************)
(* Delete, GenerateBundle and Status.                                      *)
(***************************************************************************)

\* Invalid bundle metadata is tolerated, a machine that cannot be loaded is not.
DeleteLoad(s) ==
  /\ At(s, "delete")
  /\ \/ Loadable /\ Goto(s, "driverRemove")
     \/ Fail(s)
  /\ UNCHANGED host

\* Remove: the driver first, which kills a running machine before it removes it.  It takes
\* any error of the question whether there is a machine for a no, and reports success.
DriverRemove(s) ==
  /\ At(s, "driverRemove")
  /\ \/ Goto(s, "storeRemove") /\ vm' = "none" /\ guestKey' = FALSE /\ leftover' = FALSE
     \/ Goto(s, "storeRemove") /\ vm # "none" /\ leftover' = TRUE /\ UNCHANGED <<vm, guestKey>>
     \/ Fail(s) /\ HaltFailed /\ UNCHANGED <<leftover, guestKey>>
  /\ UNCHANGED <<store, ports, kubeconfig, podman>>

\* Mutation: the error of RemoveAll is only logged.
StoreRemoveLogged(s) ==
  /\ At(s, "storeRemove")
  /\ Goto(s, IF UserNetworking THEN "unexpose" ELSE "clean") /\ store' \in SUBSET store
  /\ UNCHANGED <<vm, leftover, guestKey, ports, kubeconfig, podman>>

\* Then the directory, of which a failing RemoveAll leaves something.
StoreRemove(s) ==
  /\ At(s, "storeRemove")
  /\ \/ Goto(s, IF UserNetworking THEN "unexpose" ELSE "clean") /\ store' = {}
     \/ Fail(s) /\ store' \in SUBSET store
  /\ UNCHANGED <<vm, leftover, guestKey, ports, kubeconfig, podman>>

\* Mutation: the errors of unexposePorts are only logged.
UnexposePortsLogged(s) ==
  /\ At(s, "unexpose")
  /\ Goto(s, "clean") /\ ports' \in SUBSET ports
  /\ UNCHANGED <<store, vm, leftover, guestKey, kubeconfig, podman>>

\* unexposePorts goes on after an error, and then the rest of Delete is skipped.
UnexposePorts(s) ==
  /\ At(s, "unexpose")
  /\ \/ Goto(s, "clean") /\ ports' = {}
     \/ Fail(s) /\ ports' \in SUBSET ports
  /\ UNCHANGED <<store, vm, leftover, guestKey, kubeconfig, podman>>

\* The podman connections and cleanKubeconfig: errors are only logged.
Clean(s) ==
  /\ At(s, "clean")
  /\ Goto(s, "ok")
  /\ podman' \in {podman, FALSE}
  /\ kubeconfig' \in {kubeconfig, FALSE}
  /\ UNCHANGED <<store, vm, leftover, guestKey, ports>>

\* loadVM and, for OpenShift, the removal of the pull secret from the cluster.
GenerateCheck(s) ==
  /\ At(s, "generate")
  /\ \/ LoadVM /\ Goto(s, "stop")
     \/ Goto(s, "failed")
  /\ UNCHANGED host

\* IsRunning once more, after the Stop or the PowerOff.
GenerateSettled(s) ==
  /\ At(s, "settle")
  /\ \/ Loadable /\ StateIs("Stopped") /\ Goto(s, "copy")
     \/ Fail(s)
  /\ UNCHANGED host

\* The bundle is put together from copies of the machine's files.
GenerateCopy(s) ==
  /\ At(s, "copy")
  /\ \/ "key" \in store /\ vm # "none" /\ Goto(s, "ok")
     \/ Fail(s)
  /\ UNCHANGED host

\* Status: a missing machine is an error too, as errors.Is compares two new pointers.
Status(s) ==
  /\ At(s, "status")
  /\ \/ Loadable /\ vm # "none" /\ Goto(s, "ok")
     \/ Fail(s)
  /\ UNCHANGED host
-----------------------------------------------------------------------------
\* A process killed inside saveToFile may leave no config.json, inside RemoveAll anything.
StoreAfterCrash(p) ==
  LET interrupted(steps) == \E s \in Slots : ProcessOf[s] = p /\ pc[s] \in steps
  IN  IF interrupted({"storeRemove"}) THEN SUBSET store
      ELSE IF interrupted({"create", "update", "wait"}) THEN {store, store \ {"config"}}
      ELSE {store}

\* The process is killed and started again; the daemon's forwards are in its memory.
Crash(p) ==
  /\ p \in Crashing
  /\ store' \in StoreAfterCrash(p)
  /\ op' = [s \in Slots |-> IF ProcessOf[s] = p THEN "none" ELSE op[s]]
  /\ pc' = [s \in Slots |-> IF ProcessOf[s] = p THEN "idle" ELSE pc[s]]
  /\ gate' = [gate EXCEPT ![p] = Nil]
  /\ cancelled' = {s \in cancelled : ProcessOf[s] # p}
  /\ ports' = IF p = Daemon THEN {} ELSE ports
  /\ settled' = IF gate[p] = Nil THEN settled ELSE "unknown"
  /\ UNCHANGED <<vm, leftover, guestKey, kubeconfig, podman>>

StartStep(s) ==
  \/ StartCheck(s) \/ CreateSave(s) \/ DriverCreate(s) \/ CreateSecrets(s) \/ StartLoad(s)
  \/ ExposePorts(s) \/ UpdateVMConfig(s) \/ DriverStart(s) \/ WaitRunning(s) \/ Recheck(s)
  \/ Connect(s) \/ ConfigureGuest(s) \/ StartPodman(s) \/ StartCluster(s) \/ WriteKubeconfig(s)

StopStep(s) ==
  StopCheck(s) \/ StopContainers(s) \/ Shutdown(s) \/ PowerOffLoad(s) \/ Kill(s)

DeleteStep(s) ==
  DeleteLoad(s) \/ DriverRemove(s) \/ StoreRemove(s) \/ UnexposePorts(s) \/ Clean(s)

GenerateStep(s) ==
  GenerateCheck(s) \/ GenerateSettled(s) \/ GenerateCopy(s)

GateStep(s) ==
  Invoke(s) \/ Admit(s) \/ Refuse(s) \/ CancelTimeout(s) \/ Return(s)

Next ==
  \/ \E s \in Slots : \/ GateStep(s) \/ StartStep(s) \/ StopStep(s) \/ DeleteStep(s)
                      \/ GenerateStep(s) \/ Status(s)
  \/ \E p \in Processes : Crash(p)
  \/ GuestStops

Spec == Init /\ [][Next]_vars

-----------------------------------------------------------------------------

TypeOK ==
  /\ op \in [Slots -> DOMAIN Entry \cup {"none"}]
  /\ pc \in [Slots -> Steps]
  /\ gate \in [Processes -> Slots \cup {Nil}]
  /\ cancelled \subseteq Slots
  /\ store \subseteq Files
  /\ vm \in {"none", "Stopped", "Running"}
  /\ leftover \in BOOLEAN
  /\ guestKey \in BOOLEAN
  /\ ports \subseteq Ports
  /\ kubeconfig \in BOOLEAN
  /\ podman \in BOOLEAN
  /\ settled \in {"unknown", "started", "stopped", "deleted"}

(***************************************************************************)
(* Once Stop has reported success the machine stays stopped until somebody *)
(* asks for a Start (stop.go, and start.go's startHost): a Start that was  *)
(* cancelled to make way for it does not boot the machine afterwards.      *)
(***************************************************************************)
StopSticks == settled = "stopped" => vm # "Running"

(***************************************************************************)
(* Once Delete has reported success none of the machine's files is left    *)
(* and no port is forwarded (delete.go), whatever calls run next to it,    *)
(* and no machine either, unless the driver's Remove has taken an error    *)
(* for "there is none" (hyperv_windows.go, Remove).                        *)
(***************************************************************************)
DeleteIsComplete ==
  settled = "deleted" => (vm = "none" \/ leftover) /\ store = {} /\ ports = {}

(***************************************************************************)
(* Once Start has reported success the machine is there with all its files *)
(* (start.go, createHost), even if it was created by an earlier call that  *)
(* failed or was killed half way.  Of a machine that runs on after its     *)
(* Delete the secrets may be gone while the mark is still there.           *)
(***************************************************************************)
StartLeavesMachine ==
  settled = "started" =>
    vm # "none" /\ {"exists", "config"} \subseteq store /\ (leftover \/ SecretFiles \subseteq store)

(***************************************************************************)
(* A running machine has its ports forwarded in user networking mode:      *)
(* exposePorts comes before the driver's Start (start.go), unexposePorts   *)
(* after the driver's Remove (delete.go), and no other call comes between. *)
(* It needs a daemon that is not restarted under a running machine, and    *)
(* does not include a machine that a Remove has left over.                 *)
(***************************************************************************)
RunningIsForwarded == UserNetworking /\ vm = "Running" /\ ~leftover => Ports \subseteq ports

(***************************************************************************)
(* A guest that has been given the key of the machine's directory accepts  *)
(* no other (start.go, updateSSHKeyPair replaces authorized_keys), so the  *)
(* key is never lost as long as that guest is there, unless a Delete took  *)
(* it for removed.                                                         *)
(***************************************************************************)
NeverLockedOut == guestKey /\ ~leftover => "key" \in store

(***************************************************************************)
(* The entries in the user's kubeconfig and podman configuration go away   *)
(* only when the machine they lead to is gone (delete.go, which cleans     *)
(* them last), as far as the driver has told.                              *)
(***************************************************************************)
EntriesOutliveMachine ==
  [][ (kubeconfig /\ ~kubeconfig') \/ (podman /\ ~podman')
        => (vm = "none" \/ leftover) /\ store = {} ]_vars

(***************************************************************************)
(* The driver never creates a machine, and with it a fresh disk, over one  *)
(* that exists (start.go, Exists before createHost).                       *)
(***************************************************************************)
NeverCreatedOver ==
  [][\A s \in Slots : pc[s] = "driverCreate" /\ pc'[s] = "secrets" => "exists" \notin store]_vars

(***************************************************************************)
(* The mark that says the machine exists appears only when the machine is  *)
(* complete (start.go, createHost sets it last).                           *)
(***************************************************************************)
MarkedWhenComplete ==
  [][ "exists" \in store' \ store =>
        vm' # "none" /\ {"config"} \cup SecretFiles \subseteq store' ]_vars

(***************************************************************************)
(* What Start, Stop and Delete reported (start.go, stop.go, delete.go)     *)
(* remains true until the next of them begins, and the guest's key is not  *)
(* lost, also after commands that were killed at any step.                 *)
(***************************************************************************)
TrueAfterKills ==
  /\ TypeOK
  /\ StopSticks
  /\ DeleteIsComplete
  /\ StartLeavesMachine
  /\ RunningIsForwarded
  /\ NeverLockedOut

(***************************************************************************)
(* No step creates a machine over one that is there, marks one that is not *)
(* complete, or takes the user's entries away from one that is left, also  *)
(* after commands that were killed (virtualmachine.go, delete.go).         *)
(***************************************************************************)
StepsAfterKills ==
  /\ NeverCreatedOver
  /\ MarkedWhenComplete
  /\ EntriesOutliveMachine

(***************************************************************************)
(* A Start that reports no error has a result: `crc start` says "either    *)
(* Error or ClusterConfig is needed" (cmd/crc/cmd/start.go).               *)
(***************************************************************************)
StartHasResult == \A s \in Slots : pc[s] # "empty"

(***************************************************************************)
(* "The crc delete command deletes an existing crc instance" (docs/source/ *)
(* topics/proc_deleting-the-instance.adoc): when nothing runs, a machine   *)
(* that exists is one that Delete can load.                                *)
(***************************************************************************)
ExistingIsDeletable ==
  (\A s \in Slots : pc[s] = "idle") /\ "exists" \in store => Loadable

(***************************************************************************)
(* "The server is accessible via web console at" (cmd/crc/cmd/start.go): a *)
(* Start that reports success leaves a running machine whose ports the     *)
(* daemon forwards, also when the machine was running already.             *)
(***************************************************************************)
StartedIsForwarded ==
  [][\A s \in Slots :
       (op[s] = "Start" /\ pc[s] # "ok" /\ pc'[s] = "ok" /\ vm' = "Running" /\ UserNetworking)
          => Ports \subseteq ports']_vars
=============================================================================

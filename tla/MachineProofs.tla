--------------------------- MODULE MachineProofs ---------------------------
(***************************************************************************)
(* What module Machine promises, for any number of goroutines making calls *)
(* next to each other and any number of ports, as long as one process      *)
(* drives the machine: with two of them each has a gate of its own, which  *)
(* does not keep the other out.                                            *)
(***************************************************************************)
EXTENDS Machine, TLAPS

\* The goroutines that make calls belong to one process.
OneDriver == \A s, t \in Slots : ProcessOf[s] = ProcessOf[t]

\* The steps of the operations behind the gate.
StartSteps == {"start", "create", "driverCreate", "secrets", "load", "expose", "update", "boot",
               "wait", "recheck", "connect", "guest", "podman", "cluster", "kubeconfig"}
StopSteps == {"stop", "containers", "shutdown"}
DeleteSteps == {"delete", "driverRemove", "storeRemove", "unexpose", "clean"}

\* A machine that loads has been found at these steps of Start.
LoadedSteps == {"expose", "update", "boot", "wait", "recheck", "connect", "guest", "podman",
                "cluster", "kubeconfig"}

Holds(s) == gate[ProcessOf[s]] = s
Complete ==
  vm # "none" /\ {"exists", "config"} \subseteq store /\ (leftover \/ SecretFiles \subseteq store)

\* There is no machine, or one that the driver has overlooked.
Removed == vm = "none" \/ leftover

\* Whose step it is, and that it holds the gate where it changes what others rely on.
Control(s) ==
  /\ pc[s] \in StartSteps => op[s] = "Start" /\ Holds(s)
  /\ pc[s] \in DeleteSteps => op[s] = "Delete" /\ Holds(s)
  /\ pc[s] \in StopSteps => op[s] \in {"Stop", "GenerateBundle"} /\ (op[s] = "Stop" => Holds(s))
  /\ pc[s] \in {"kill", "killDriver"} => op[s] \in {"PowerOff", "GenerateBundle"}
  /\ pc[s] \in {"generate", "settle", "copy"} => op[s] = "GenerateBundle"
  /\ pc[s] = "status" => op[s] = "Status"
  /\ pc[s] \in {"called", "cancelling"} => op[s] \in Gated
  /\ pc[s] \in {"ok", "empty"} /\ op[s] \in Gated => Holds(s)
  /\ pc[s] \in {"expose", "unexpose"} => UserNetworking

\* What a call has established by the step it is at.
Established(s) ==
  /\ pc[s] \in {"create", "driverCreate", "secrets"} => "exists" \notin store
  /\ pc[s] \in {"driverCreate", "secrets"} => "config" \in store
  /\ pc[s] = "secrets" => vm # "none"
  /\ pc[s] \in LoadedSteps => Complete
  /\ pc[s] \in {"storeRemove", "unexpose", "clean"} => Removed /\ (leftover \/ ~guestKey)
  /\ pc[s] \in {"unexpose", "clean"} => store = {}
  /\ pc[s] = "clean" => ports = {}
  /\ pc[s] = "ok" /\ op[s] = "Start" => Complete
  /\ pc[s] = "ok" /\ op[s] = "Stop" => vm # "Running"
  /\ pc[s] = "ok" /\ op[s] = "Delete" => Removed /\ store = {} /\ ports = {}

\* The gate belongs to a goroutine of its process, and nothing is settled behind a closed one.
GateInv ==
  /\ \A p \in Processes : gate[p] # Nil => ProcessOf[gate[p]] = p
  /\ settled # "unknown" => \A p \in Processes : gate[p] = Nil

\* A machine with its mark has its secrets; without user networking no port is forwarded.
HostInv ==
  /\ leftover => vm # "none"
  /\ vm # "none" /\ ~leftover /\ "exists" \in store => SecretFiles \subseteq store
  /\ ~UserNetworking => ports = {}
  /\ NeverLockedOut

SettledInv == StopSticks /\ DeleteIsComplete /\ StartLeavesMachine

\* The inductive invariant.
IInv ==
  /\ TypeOK
  /\ GateInv
  /\ HostInv
  /\ SettledInv
  /\ \A s \in Slots : Control(s) /\ Established(s)

-----------------------------------------------------------------------------
(***************************************************************************)
(* What a step of one goroutine leaves to the others.                      *)
(***************************************************************************)

\* A step of s moves no other goroutine, and leaves the gates and the verdict alone,
Moves(s) ==
  /\ \A t \in Slots : t # s => pc'[t] = pc[t] /\ op'[t] = op[t]
  /\ UNCHANGED <<gate, settled>>

\* and one that needs no gate does no more to the machine than halt it.
Harmless ==
  /\ UNCHANGED <<store, leftover, guestKey, ports>>
  /\ vm' = vm \/ (vm = "Running" /\ vm' = "Stopped")

\* A goroutine that holds the gate is the only one to do so, and nothing is settled.
LEMMA Alone ==
  ASSUME OneDriver, IInv, NEW s \in Slots, Holds(s)
  PROVE  settled = "unknown" /\ \A t \in Slots : t # s => ~Holds(t)
BY MachineAssumptions DEF OneDriver, IInv, GateInv, Holds

\* A step of the holder leaves the other goroutines what they rely on: they rely on nothing.
LEMMA HolderKeeps ==
  ASSUME OneDriver, IInv, NEW s \in Slots, Holds(s), Moves(s),
         TypeOK', HostInv', Control(s)', Established(s)'
  PROVE  IInv'
<1>1. GateInv'
  BY DEF IInv, GateInv, Moves
<1>2. SettledInv'
  BY Alone DEF Moves, SettledInv, StopSticks, DeleteIsComplete, StartLeavesMachine
<1>3. ASSUME NEW t \in Slots, t # s PROVE Control(t)' /\ Established(t)'
  <2>1. Control(t) /\ ~Holds(t) /\ pc'[t] = pc[t] /\ op'[t] = op[t]
    BY <1>3, Alone DEF IInv, Moves
  <2>2. Control(t)'
    BY <2>1 DEF Control, Holds, Moves
  <2>3. /\ pc'[t] \notin StartSteps \cup DeleteSteps
        /\ pc'[t] = "ok" => op'[t] \notin Gated
    BY <2>1 DEF Control
  <2>4. Established(t)'
    BY <2>3 DEF Established, StartSteps, DeleteSteps, LoadedSteps, Gated
  <2> QED BY <2>2, <2>4
<1> QED BY <1>1, <1>2, <1>3 DEF IInv

\* A step that at most halts the machine takes nothing from any goroutine.
LEMMA HarmlessKeepsRest ==
  ASSUME IInv, Harmless, NEW t \in Slots, pc'[t] = pc[t], op'[t] = op[t], Established(t)
  PROVE  Established(t)'
BY DEF Harmless, Established, Complete, Removed, SecretFiles

\* What is true of the machine at all times stays so,
LEMMA HarmlessKeepsHost ==
  ASSUME IInv, Harmless
  PROVE  HostInv'
BY DEF IInv, HostInv, Harmless, NeverLockedOut, SecretFiles

\* and what was reported,
LEMMA HarmlessKeepsSettled ==
  ASSUME IInv, Harmless, settled' = settled
  PROVE  SettledInv'
BY DEF IInv, SettledInv, Harmless, StopSticks, DeleteIsComplete, StartLeavesMachine, SecretFiles

\* and with them the whole invariant.
LEMMA HarmlessKeeps ==
  ASSUME IInv, NEW s \in Slots, Harmless, Moves(s), TypeOK', Control(s)', Established(s)'
  PROVE  IInv'
<1>1. GateInv'
  BY DEF IInv, GateInv, Moves
<1>2. HostInv' /\ SettledInv'
  BY HarmlessKeepsHost, HarmlessKeepsSettled DEF Moves
<1>3. ASSUME NEW t \in Slots, t # s PROVE Control(t)' /\ Established(t)'
  <2>1. Control(t) /\ Established(t) /\ pc'[t] = pc[t] /\ op'[t] = op[t]
    BY <1>3 DEF IInv, Moves
  <2>2. Control(t)'
    BY <2>1 DEF Control, Holds, Moves
  <2> QED BY <2>1, <2>2, HarmlessKeepsRest
<1> QED BY <1>1, <1>2, <1>3 DEF IInv


\* Start, from the check that the machine exists to the entries in the kubeconfig.
LEMMA StartKeeps ==
  ASSUME OneDriver, IInv, NEW s \in Slots, StartStep(s)
  PROVE  IInv'
<1> USE DEF At, Goto, Fail
<1>0. TypeOK /\ HostInv /\ Control(s) /\ Established(s)
  BY DEF IInv
<1>1. CASE StartCheck(s)
  <2>1. Moves(s)
    BY <1>0, <1>1 DEF StartCheck, Moves, TypeOK
  <2>2. TypeOK'
    BY <1>0, <1>1 DEF StartCheck, TypeOK, Steps, Returning, host
  <2>3. Control(s)'
    BY <1>0, <1>1 DEF StartCheck, TypeOK, Control, Holds, StartSteps, StopSteps, DeleteSteps,
       Gated
  <2>4. Harmless
    BY <1>0, <1>1 DEF StartCheck, Harmless, TypeOK, host
  <2>5. Established(s)'
    BY <1>0, <1>1 DEF StartCheck, HostInv, host, TypeOK, Control, Established, Complete, Removed,
       LoadedSteps, SecretFiles, StartSteps, Gated
  <2> QED BY <2>1, <2>2, <2>3, <2>4, <2>5, HarmlessKeeps
<1>2. CASE CreateSave(s)
  <2>1. Moves(s)
    BY <1>0, <1>2 DEF CreateSave, Moves, TypeOK
  <2>2. pc' \in [Slots -> Steps] /\ UNCHANGED <<op, gate, cancelled, settled>>
    BY <1>0, <1>2 DEF CreateSave, SaveFailed, TypeOK, Steps, Returning
  <2>3. store' \subseteq Files /\ ports' \subseteq Ports
    BY <1>0, <1>2 DEF CreateSave, SaveFailed, TypeOK, Files
  <2>4. vm' \in {"none", "Stopped", "Running"}
    BY <1>0, <1>2 DEF CreateSave, SaveFailed, TypeOK
  <2>5. /\ leftover' \in BOOLEAN /\ guestKey' \in BOOLEAN
        /\ kubeconfig' \in BOOLEAN /\ podman' \in BOOLEAN
    BY <1>0, <1>2 DEF CreateSave, TypeOK
  <2>6. TypeOK'
    BY <1>0, <2>2, <2>3, <2>4, <2>5 DEF TypeOK
  <2>7. Control(s)'
    BY <1>0, <1>2 DEF CreateSave, TypeOK, Control, Holds, StartSteps, StopSteps, DeleteSteps,
       Gated
  <2>8. HostInv'
    BY <1>0, <1>2 DEF CreateSave, SaveFailed, HostInv, NeverLockedOut, Established, SecretFiles
  <2>9. Holds(s)
    BY <1>0, <1>2 DEF CreateSave, Control, StartSteps
  <2>10. Established(s)'
    BY <1>0, <1>2 DEF CreateSave, SaveFailed, TypeOK, HostInv, Control, Established, Complete, Removed,
       LoadedSteps, SecretFiles, StartSteps, Gated
  <2> QED BY <2>1, <2>6, <2>7, <2>8, <2>9, <2>10, HolderKeeps
<1>3. CASE DriverCreate(s)
  <2>1. Moves(s)
    BY <1>0, <1>3 DEF DriverCreate, Moves, TypeOK
  <2>2. pc' \in [Slots -> Steps] /\ UNCHANGED <<op, gate, cancelled, settled>>
    BY <1>0, <1>3 DEF DriverCreate, TypeOK, Steps, Returning
  <2>3. store' \subseteq Files /\ ports' \subseteq Ports
    BY <1>0, <1>3 DEF DriverCreate, TypeOK
  <2>4. vm' \in {"none", "Stopped", "Running"}
    BY <1>0, <1>3 DEF DriverCreate, TypeOK
  <2>5. /\ leftover' \in BOOLEAN /\ guestKey' \in BOOLEAN
        /\ kubeconfig' \in BOOLEAN /\ podman' \in BOOLEAN
    BY <1>0, <1>3 DEF DriverCreate, TypeOK
  <2>6. TypeOK'
    BY <1>0, <2>2, <2>3, <2>4, <2>5 DEF TypeOK
  <2>7. Control(s)'
    BY <1>0, <1>3 DEF DriverCreate, TypeOK, Control, Holds, StartSteps, StopSteps, DeleteSteps,
       Gated
  <2>8. guestKey' => guestKey
    BY <1>0, <1>3 DEF DriverCreate, TypeOK
  <2>9. HostInv'
    BY <1>0, <1>3, <2>8 DEF DriverCreate, HostInv, NeverLockedOut, Established
  <2>10. Holds(s)
    BY <1>0, <1>3 DEF DriverCreate, Control, StartSteps
  <2>11. Established(s)'
    BY <1>0, <1>3 DEF DriverCreate, TypeOK, HostInv, Control, Established, Complete, Removed,
       LoadedSteps, SecretFiles, StartSteps, Gated
  <2> QED BY <2>1, <2>6, <2>7, <2>9, <2>10, <2>11, HolderKeeps
<1>4. CASE CreateSecrets(s)
  <2>1. Moves(s)
    BY <1>0, <1>4 DEF CreateSecrets, Moves, TypeOK
  <2>2. pc' \in [Slots -> Steps] /\ UNCHANGED <<op, gate, cancelled, settled>>
    BY <1>0, <1>4 DEF CreateSecrets, TypeOK, Steps, Returning
  <2>3. store' \subseteq Files /\ ports' \subseteq Ports
    BY <1>0, <1>4 DEF CreateSecrets, TypeOK, Files, SecretFiles
  <2>4. vm' \in {"none", "Stopped", "Running"}
    BY <1>0, <1>4 DEF CreateSecrets, TypeOK
  <2>5. /\ leftover' \in BOOLEAN /\ guestKey' \in BOOLEAN
        /\ kubeconfig' \in BOOLEAN /\ podman' \in BOOLEAN
    BY <1>0, <1>4 DEF CreateSecrets, TypeOK
  <2>6. TypeOK'
    BY <1>0, <2>2, <2>3, <2>4, <2>5 DEF TypeOK
  <2>7. Control(s)'
    BY <1>0, <1>4 DEF CreateSecrets, TypeOK, Control, Holds, StartSteps, StopSteps,
       DeleteSteps, Gated
  <2>8. HostInv'
    BY <1>0, <1>4 DEF CreateSecrets, HostInv, NeverLockedOut, Established, SecretFiles
  <2>9. Holds(s)
    BY <1>0, <1>4 DEF CreateSecrets, Control, StartSteps
  <2>10. Established(s)'
    BY <1>0, <1>4 DEF CreateSecrets, TypeOK, HostInv, Control, Established, Complete, Removed,
       LoadedSteps, SecretFiles, StartSteps, Gated
  <2> QED BY <2>1, <2>6, <2>7, <2>8, <2>9, <2>10, HolderKeeps
<1>5. CASE StartLoad(s)
  <2>1. Moves(s)
    BY <1>0, <1>5 DEF StartLoad, Moves, TypeOK
  <2>2. TypeOK'
    BY <1>0, <1>5 DEF StartLoad, TypeOK, Steps, Returning, host
  <2>3. Control(s)'
    BY <1>0, <1>5 DEF StartLoad, TypeOK, Control, Holds, StartSteps, StopSteps, DeleteSteps,
       Gated
  <2>4. Harmless
    BY <1>0, <1>5 DEF StartLoad, Harmless, TypeOK, host
  <2>5. Established(s)'
    BY <1>0, <1>5 DEF StartLoad, Loadable, StateIs, host, TypeOK, HostInv, Control,
       Established, Complete, Removed, LoadedSteps, SecretFiles, StartSteps, Gated
  <2> QED BY <2>1, <2>2, <2>3, <2>4, <2>5, HarmlessKeeps
<1>6. CASE ExposePorts(s)
  <2>1. Moves(s)
    BY <1>0, <1>6 DEF ExposePorts, Moves, TypeOK
  <2>2. TypeOK'
    BY <1>0, <1>6 DEF ExposePorts, TypeOK, Steps, Returning
  <2>3. Control(s)'
    BY <1>0, <1>6 DEF ExposePorts, TypeOK, Control, Holds, StartSteps, StopSteps, DeleteSteps,
       Gated
  <2>4. HostInv'
    BY <1>0, <1>6 DEF ExposePorts, HostInv, NeverLockedOut, Control
  <2>5. Holds(s)
    BY <1>0, <1>6 DEF ExposePorts, Control, StartSteps
  <2>6. Established(s)'
    BY <1>0, <1>6 DEF ExposePorts, TypeOK, HostInv, Control, Established, Complete, Removed,
       LoadedSteps, SecretFiles, StartSteps, Gated
  <2> QED BY <2>1, <2>2, <2>3, <2>4, <2>5, <2>6, HolderKeeps
<1>7. CASE UpdateVMConfig(s)
  <2>1. Moves(s)
    BY <1>0, <1>7 DEF UpdateVMConfig, Moves, TypeOK
  <2>2. pc' \in [Slots -> Steps] /\ UNCHANGED <<op, gate, cancelled, settled>>
    BY <1>0, <1>7 DEF UpdateVMConfig, SaveFailed, TypeOK, Steps, Returning
  <2>3. store' \subseteq Files /\ ports' \subseteq Ports
    BY <1>0, <1>7 DEF UpdateVMConfig, SaveFailed, TypeOK, Files
  <2>4. vm' \in {"none", "Stopped", "Running"}
    BY <1>0, <1>7 DEF UpdateVMConfig, SaveFailed, TypeOK
  <2>5. /\ leftover' \in BOOLEAN /\ guestKey' \in BOOLEAN
        /\ kubeconfig' \in BOOLEAN /\ podman' \in BOOLEAN
    BY <1>0, <1>7 DEF UpdateVMConfig, TypeOK
  <2>6. TypeOK'
    BY <1>0, <2>2, <2>3, <2>4, <2>5 DEF TypeOK
  <2>7. Control(s)'
    BY <1>0, <1>7 DEF UpdateVMConfig, TypeOK, Control, Holds, StartSteps, StopSteps,
       DeleteSteps, Gated
  <2>8. HostInv'
    BY <1>0, <1>7 DEF UpdateVMConfig, SaveFailed, HostInv, NeverLockedOut, Established,
       SecretFiles
  <2>9. Holds(s)
    BY <1>0, <1>7 DEF UpdateVMConfig, Control, StartSteps
  <2>10. Established(s)'
    BY <1>0, <1>7 DEF UpdateVMConfig, SaveFailed, TypeOK, HostInv, Control, Established,
       Complete, Removed, LoadedSteps, SecretFiles, StartSteps, Gated
  <2> QED BY <2>1, <2>6, <2>7, <2>8, <2>9, <2>10, HolderKeeps
<1>8. CASE DriverStart(s)
  <2>1. Moves(s)
    BY <1>0, <1>8 DEF DriverStart, Moves, TypeOK
  <2>2. TypeOK'
    BY <1>0, <1>8 DEF DriverStart, TypeOK, Steps, Returning
  <2>3. Control(s)'
    BY <1>0, <1>8 DEF DriverStart, TypeOK, Control, Holds, StartSteps, StopSteps, DeleteSteps,
       Gated
  <2>4. HostInv'
    BY <1>0, <1>8 DEF DriverStart, HostInv, NeverLockedOut, SecretFiles
  <2>5. Holds(s)
    BY <1>0, <1>8 DEF DriverStart, Control, StartSteps
  <2>6. Established(s)'
    BY <1>0, <1>8 DEF DriverStart, TypeOK, HostInv, Control, Established, Complete, Removed,
       LoadedSteps, SecretFiles, StartSteps, Gated
  <2> QED BY <2>1, <2>2, <2>3, <2>4, <2>5, <2>6, HolderKeeps
<1>9. CASE WaitRunning(s)
  <2>1. Moves(s)
    BY <1>0, <1>9 DEF WaitRunning, Moves, TypeOK
  <2>2. pc' \in [Slots -> Steps] /\ UNCHANGED <<op, gate, cancelled, settled>>
    BY <1>0, <1>9 DEF WaitRunning, SaveFailed, TypeOK, Steps, Returning
  <2>3. store' \subseteq Files /\ ports' \subseteq Ports
    BY <1>0, <1>9 DEF WaitRunning, SaveFailed, TypeOK, Files
  <2>4. vm' \in {"none", "Stopped", "Running"}
    BY <1>0, <1>9 DEF WaitRunning, SaveFailed, TypeOK
  <2>5. /\ leftover' \in BOOLEAN /\ guestKey' \in BOOLEAN
        /\ kubeconfig' \in BOOLEAN /\ podman' \in BOOLEAN
    BY <1>0, <1>9 DEF WaitRunning, TypeOK
  <2>6. TypeOK'
    BY <1>0, <2>2, <2>3, <2>4, <2>5 DEF TypeOK
  <2>7. Control(s)'
    BY <1>0, <1>9 DEF WaitRunning, TypeOK, Control, Holds, StartSteps, StopSteps, DeleteSteps,
       Gated
  <2>8. HostInv'
    BY <1>0, <1>9 DEF WaitRunning, SaveFailed, HostInv, NeverLockedOut, Established,
       SecretFiles
  <2>9. Holds(s)
    BY <1>0, <1>9 DEF WaitRunning, Control, StartSteps
  <2>10. Established(s)'
    BY <1>0, <1>9 DEF WaitRunning, SaveFailed, StateIs, TypeOK, HostInv, Control, Established,
       Complete, Removed, LoadedSteps, SecretFiles, StartSteps, Gated
  <2> QED BY <2>1, <2>6, <2>7, <2>8, <2>9, <2>10, HolderKeeps
<1>10. CASE Recheck(s)
  <2>1. Moves(s)
    BY <1>0, <1>10 DEF Recheck, Moves, TypeOK
  <2>2. TypeOK'
    BY <1>0, <1>10 DEF Recheck, TypeOK, Steps, Returning, host
  <2>3. Control(s)'
    BY <1>0, <1>10 DEF Recheck, TypeOK, Control, Holds, StartSteps, StopSteps, DeleteSteps,
       Gated
  <2>4. Harmless
    BY <1>0, <1>10 DEF Recheck, Harmless, TypeOK, host
  <2>5. Established(s)'
    BY <1>0, <1>10 DEF Recheck, StateIs, host, TypeOK, HostInv, Control, Established, Complete, Removed,
       LoadedSteps, SecretFiles, StartSteps, Gated
  <2> QED BY <2>1, <2>2, <2>3, <2>4, <2>5, HarmlessKeeps
<1>11. CASE Connect(s)
  <2>1. Moves(s)
    BY <1>0, <1>11 DEF Connect, Moves, TypeOK
  <2>2. TypeOK'
    BY <1>0, <1>11 DEF Connect, TypeOK, Steps, Returning, host
  <2>3. Control(s)'
    BY <1>0, <1>11 DEF Connect, TypeOK, Control, Holds, StartSteps, StopSteps, DeleteSteps,
       Gated
  <2>4. Harmless
    BY <1>0, <1>11 DEF Connect, Harmless, TypeOK, host
  <2>5. Established(s)'
    BY <1>0, <1>11 DEF Connect, Reachable, host, TypeOK, HostInv, Control, Established,
       Complete, Removed, LoadedSteps, SecretFiles, StartSteps, Gated
  <2> QED BY <2>1, <2>2, <2>3, <2>4, <2>5, HarmlessKeeps
<1>12. CASE ConfigureGuest(s)
  <2>1. Moves(s)
    BY <1>0, <1>12 DEF ConfigureGuest, Moves, TypeOK
  <2>2. pc' \in [Slots -> Steps] /\ UNCHANGED <<op, gate, cancelled, settled>>
    BY <1>0, <1>12 DEF ConfigureGuest, TypeOK, Steps, Returning
  <2>3. store' \subseteq Files /\ ports' \subseteq Ports
    BY <1>0, <1>12 DEF ConfigureGuest, TypeOK
  <2>4. vm' \in {"none", "Stopped", "Running"}
    BY <1>0, <1>12 DEF ConfigureGuest, TypeOK
  <2>5. /\ leftover' \in BOOLEAN /\ guestKey' \in BOOLEAN
        /\ kubeconfig' \in BOOLEAN /\ podman' \in BOOLEAN
    BY <1>0, <1>12 DEF ConfigureGuest, TypeOK
  <2>6. TypeOK'
    BY <1>0, <2>2, <2>3, <2>4, <2>5 DEF TypeOK
  <2>7. Control(s)'
    BY <1>0, <1>12 DEF ConfigureGuest, TypeOK, Control, Holds, StartSteps, StopSteps,
       DeleteSteps, Gated
  <2>8. HostInv'
    BY <1>0, <1>12 DEF ConfigureGuest, HostInv, NeverLockedOut, SecretFiles, Reachable
  <2>9. Holds(s)
    BY <1>0, <1>12 DEF ConfigureGuest, Control, StartSteps
  <2>10. Established(s)'
    BY <1>0, <1>12 DEF ConfigureGuest, Reachable, TypeOK, HostInv, Control, Established,
       Complete, Removed, LoadedSteps, SecretFiles, StartSteps, Gated
  <2> QED BY <2>1, <2>6, <2>7, <2>8, <2>9, <2>10, HolderKeeps
<1>13. CASE StartPodman(s)
  <2>1. Moves(s)
    BY <1>0, <1>13 DEF StartPodman, Moves, TypeOK
  <2>2. pc' \in [Slots -> Steps] /\ UNCHANGED <<op, gate, cancelled, settled>>
    BY <1>0, <1>13 DEF StartPodman, TypeOK, Steps, Returning
  <2>3. store' \subseteq Files /\ ports' \subseteq Ports
    BY <1>0, <1>13 DEF StartPodman, TypeOK
  <2>4. vm' \in {"none", "Stopped", "Running"}
    BY <1>0, <1>13 DEF StartPodman, TypeOK
  <2>5. /\ leftover' \in BOOLEAN /\ guestKey' \in BOOLEAN
        /\ kubeconfig' \in BOOLEAN /\ podman' \in BOOLEAN
    BY <1>0, <1>13 DEF StartPodman, TypeOK
  <2>6. TypeOK'
    BY <1>0, <2>2, <2>3, <2>4, <2>5 DEF TypeOK
  <2>7. Control(s)'
    BY <1>0, <1>13 DEF StartPodman, TypeOK, Control, Holds, StartSteps, StopSteps, DeleteSteps,
       Gated
  <2>8. Harmless
    BY <1>0, <1>13 DEF StartPodman, Harmless, TypeOK
  <2>9. Established(s)'
    BY <1>0, <1>13 DEF StartPodman, Reachable, TypeOK, HostInv, Control, Established, Complete, Removed,
       LoadedSteps, SecretFiles, StartSteps, Gated
  <2> QED BY <2>1, <2>6, <2>7, <2>8, <2>9, HarmlessKeeps
<1>14. CASE StartCluster(s)
  <2>1. Moves(s)
    BY <1>0, <1>14 DEF StartCluster, Moves, TypeOK
  <2>2. TypeOK'
    BY <1>0, <1>14 DEF StartCluster, PasswordOverride, TypeOK, Steps, Returning, Files
  <2>3. Control(s)'
    BY <1>0, <1>14 DEF StartCluster, TypeOK, Control, Holds, StartSteps, StopSteps,
       DeleteSteps, Gated
  <2>4. HostInv'
    BY <1>0, <1>14 DEF StartCluster, PasswordOverride, HostInv, NeverLockedOut, Established,
       SecretFiles
  <2>5. Holds(s)
    BY <1>0, <1>14 DEF StartCluster, Control, StartSteps
  <2>6. Established(s)'
    BY <1>0, <1>14 DEF StartCluster, Reachable, PasswordOverride, TypeOK, HostInv, Control,
       Established, Complete, Removed, LoadedSteps, SecretFiles, StartSteps, Gated
  <2> QED BY <2>1, <2>2, <2>3, <2>4, <2>5, <2>6, HolderKeeps
<1>15. CASE WriteKubeconfig(s)
  <2>1. Moves(s)
    BY <1>0, <1>15 DEF WriteKubeconfig, Moves, TypeOK
  <2>2. pc' \in [Slots -> Steps] /\ UNCHANGED <<op, gate, cancelled, settled>>
    BY <1>0, <1>15 DEF WriteKubeconfig, TypeOK, Steps, Returning
  <2>3. store' \subseteq Files /\ ports' \subseteq Ports
    BY <1>0, <1>15 DEF WriteKubeconfig, TypeOK
  <2>4. vm' \in {"none", "Stopped", "Running"}
    BY <1>0, <1>15 DEF WriteKubeconfig, TypeOK
  <2>5. /\ leftover' \in BOOLEAN /\ guestKey' \in BOOLEAN
        /\ kubeconfig' \in BOOLEAN /\ podman' \in BOOLEAN
    BY <1>0, <1>15 DEF WriteKubeconfig, Reachable, TypeOK
  <2>6. TypeOK'
    BY <1>0, <2>2, <2>3, <2>4, <2>5 DEF TypeOK
  <2>7. Control(s)'
    BY <1>0, <1>15 DEF WriteKubeconfig, TypeOK, Control, Holds, StartSteps, StopSteps,
       DeleteSteps, Gated
  <2>8. Harmless
    BY <1>0, <1>15 DEF WriteKubeconfig, Harmless, TypeOK
  <2>9. Established(s)'
    BY <1>0, <1>15 DEF WriteKubeconfig, Reachable, TypeOK, HostInv, Control, Established,
       Complete, Removed, LoadedSteps, SecretFiles, StartSteps, Gated
  <2> QED BY <2>1, <2>6, <2>7, <2>8, <2>9, HarmlessKeeps
<1> QED BY <1>1, <1>2, <1>3, <1>4, <1>5, <1>6, <1>7, <1>8, <1>9, <1>10, <1>11, <1>12, <1>13,
       <1>14, <1>15 DEF StartStep

\* Stop and PowerOff, also when GenerateBundle calls them.
LEMMA StopKeeps ==
  ASSUME OneDriver, IInv, NEW s \in Slots, StopStep(s)
  PROVE  IInv'
<1> USE DEF At, Goto, Fail, Succeed
<1>0. TypeOK /\ HostInv /\ Control(s) /\ Established(s)
  BY DEF IInv
<1>1. CASE StopCheck(s)
  <2>1. Moves(s)
    BY <1>0, <1>1 DEF StopCheck, Moves, TypeOK
  <2>2. TypeOK'
    BY <1>0, <1>1 DEF StopCheck, TypeOK, Steps, Returning, host
  <2>3. Control(s)'
    BY <1>0, <1>1, SMT, SMTT(60) DEF StopCheck, TypeOK, Control, Holds, StartSteps, StopSteps, DeleteSteps,
       Gated
  <2>4. Harmless
    BY <1>0, <1>1 DEF StopCheck, Harmless, TypeOK, host
  <2>5. Established(s)'
    BY <1>0, <1>1 DEF StopCheck, IsRunning, Loadable, StateIs, host, TypeOK, HostInv, Control,
       Established, Complete, Removed, LoadedSteps, SecretFiles, StartSteps, Gated, StopSteps
  <2> QED BY <2>1, <2>2, <2>3, <2>4, <2>5, HarmlessKeeps
<1>2. CASE StopContainers(s)
  <2>1. Moves(s)
    BY <1>0, <1>2 DEF StopContainers, Moves, TypeOK
  <2>2. TypeOK'
    BY <1>0, <1>2 DEF StopContainers, TypeOK, Steps, Returning, host
  <2>3. Control(s)'
    BY <1>0, <1>2, SMT, SMTT(60) DEF StopContainers, TypeOK, Control, Holds, StartSteps, StopSteps,
       DeleteSteps, Gated
  <2>4. Harmless
    BY <1>0, <1>2 DEF StopContainers, Harmless, TypeOK, host
  <2>5. Established(s)'
    BY <1>0, <1>2 DEF StopContainers, Loadable, host, TypeOK, HostInv, Control, Established,
       Complete, Removed, LoadedSteps, SecretFiles, StartSteps, Gated, StopSteps
  <2> QED BY <2>1, <2>2, <2>3, <2>4, <2>5, HarmlessKeeps
<1>3. CASE Shutdown(s)
  <2>1. Moves(s)
    BY <1>0, <1>3 DEF Shutdown, RunActionForState, Moves, TypeOK
  <2>2. TypeOK'
    BY <1>0, <1>3 DEF Shutdown, RunActionForState, HaltFailed, TypeOK, Steps, Returning
  <2>3. Control(s)'
    BY <1>0, <1>3, SMT, SMTT(60) DEF Shutdown, RunActionForState, TypeOK, Control, Holds, StartSteps,
       StopSteps, DeleteSteps, Gated
  <2>4. Harmless
    BY <1>0, <1>3 DEF Shutdown, RunActionForState, HaltFailed, Harmless, TypeOK
  <2>5. Established(s)'
    BY <1>0, <1>3, SMT, SMTT(60) DEF Shutdown, RunActionForState, HaltFailed, TypeOK, HostInv, Control,
       Established, Complete, Removed, LoadedSteps, SecretFiles, StartSteps, Gated, StopSteps
  <2> QED BY <2>1, <2>2, <2>3, <2>4, <2>5, HarmlessKeeps
<1>4. CASE PowerOffLoad(s)
  <2>1. Moves(s)
    BY <1>0, <1>4 DEF PowerOffLoad, Moves, TypeOK
  <2>2. TypeOK'
    BY <1>0, <1>4 DEF PowerOffLoad, TypeOK, Steps, Returning, host
  <2>3. Control(s)'
    BY <1>0, <1>4 DEF PowerOffLoad, TypeOK, Control, Holds, StartSteps, StopSteps, DeleteSteps,
       Gated
  <2>4. Harmless
    BY <1>0, <1>4 DEF PowerOffLoad, Harmless, TypeOK, host
  <2>5. Established(s)'
    BY <1>0, <1>4 DEF PowerOffLoad, Loadable, host, TypeOK, HostInv, Control, Established,
       Complete, Removed, LoadedSteps, SecretFiles, StartSteps, Gated, StopSteps
  <2> QED BY <2>1, <2>2, <2>3, <2>4, <2>5, HarmlessKeeps
<1>5. CASE Kill(s)
  <2>1. Moves(s)
    BY <1>0, <1>5 DEF Kill, RunActionForState, Moves, TypeOK
  <2>2. TypeOK'
    BY <1>0, <1>5 DEF Kill, RunActionForState, HaltFailed, TypeOK, Steps, Returning
  <2>3. Control(s)'
    BY <1>0, <1>5, SMT, SMTT(60) DEF Kill, RunActionForState, TypeOK, Control, Holds, StartSteps, StopSteps,
       DeleteSteps, Gated
  <2>4. Harmless
    BY <1>0, <1>5 DEF Kill, RunActionForState, HaltFailed, Harmless, TypeOK
  <2>5. Established(s)'
    BY <1>0, <1>5 DEF Kill, RunActionForState, HaltFailed, TypeOK, HostInv, Control,
       Established, Complete, Removed, LoadedSteps, SecretFiles, StartSteps, Gated, StopSteps
  <2> QED BY <2>1, <2>2, <2>3, <2>4, <2>5, HarmlessKeeps
<1> QED BY <1>1, <1>2, <1>3, <1>4, <1>5 DEF StopStep

\* Delete, from the driver to the configuration of the user.
LEMMA DeleteKeeps ==
  ASSUME OneDriver, IInv, NEW s \in Slots, DeleteStep(s)
  PROVE  IInv'
<1> USE DEF At, Goto, Fail
<1>0. TypeOK /\ HostInv /\ Control(s) /\ Established(s)
  BY DEF IInv
<1>1. CASE DeleteLoad(s)
  <2>1. Moves(s)
    BY <1>0, <1>1 DEF DeleteLoad, Moves, TypeOK
  <2>2. TypeOK'
    BY <1>0, <1>1 DEF DeleteLoad, TypeOK, Steps, Returning, host
  <2>3. Control(s)'
    BY <1>0, <1>1 DEF DeleteLoad, TypeOK, Control, Holds, StartSteps, StopSteps, DeleteSteps,
       Gated
  <2>4. Harmless
    BY <1>0, <1>1 DEF DeleteLoad, Harmless, TypeOK, host
  <2>5. Established(s)'
    BY <1>0, <1>1 DEF DeleteLoad, Loadable, host, TypeOK, HostInv, Control, Established,
       Complete, Removed, LoadedSteps, SecretFiles, DeleteSteps, Gated
  <2> QED BY <2>1, <2>2, <2>3, <2>4, <2>5, HarmlessKeeps
<1>2. CASE DriverRemove(s)
  <2>1. Moves(s)
    BY <1>0, <1>2 DEF DriverRemove, Moves, TypeOK
  <2>2. pc' \in [Slots -> Steps] /\ UNCHANGED <<op, gate, cancelled, settled>>
    BY <1>0, <1>2 DEF DriverRemove, HaltFailed, TypeOK, Steps, Returning
  <2>3. store' \subseteq Files /\ ports' \subseteq Ports
    BY <1>0, <1>2 DEF DriverRemove, HaltFailed, TypeOK
  <2>4. vm' \in {"none", "Stopped", "Running"}
    BY <1>0, <1>2 DEF DriverRemove, HaltFailed, TypeOK
  <2>5. /\ leftover' \in BOOLEAN /\ guestKey' \in BOOLEAN
        /\ kubeconfig' \in BOOLEAN /\ podman' \in BOOLEAN
    BY <1>0, <1>2 DEF DriverRemove, TypeOK
  <2>6. TypeOK'
    BY <1>0, <2>2, <2>3, <2>4, <2>5 DEF TypeOK
  <2>7. Control(s)'
    BY <1>0, <1>2 DEF DriverRemove, TypeOK, Control, Holds, StartSteps, StopSteps, DeleteSteps,
       Gated
  <2>8. HostInv'
    BY <1>0, <1>2 DEF DriverRemove, HaltFailed, HostInv, NeverLockedOut
  <2>9. Holds(s)
    BY <1>0, <1>2 DEF DriverRemove, Control, DeleteSteps
  <2>10. Established(s)'
    BY <1>0, <1>2 DEF DriverRemove, HaltFailed, TypeOK, HostInv, Control, Established,
       Complete, Removed, LoadedSteps, SecretFiles, DeleteSteps, Gated
  <2> QED BY <2>1, <2>6, <2>7, <2>8, <2>9, <2>10, HolderKeeps
<1>3. CASE StoreRemove(s)
  <2>1. Moves(s)
    BY <1>0, <1>3 DEF StoreRemove, Moves, TypeOK
  <2>2. pc' \in [Slots -> Steps] /\ UNCHANGED <<op, gate, cancelled, settled>>
    BY <1>0, <1>3 DEF StoreRemove, TypeOK, Steps, Returning
  <2>3. store' \subseteq Files /\ ports' \subseteq Ports
    BY <1>0, <1>3 DEF StoreRemove, TypeOK, Files
  <2>4. vm' \in {"none", "Stopped", "Running"}
    BY <1>0, <1>3 DEF StoreRemove, TypeOK
  <2>5. /\ leftover' \in BOOLEAN /\ guestKey' \in BOOLEAN
        /\ kubeconfig' \in BOOLEAN /\ podman' \in BOOLEAN
    BY <1>0, <1>3 DEF StoreRemove, TypeOK
  <2>6. TypeOK'
    BY <1>0, <2>2, <2>3, <2>4, <2>5 DEF TypeOK
  <2>7. Control(s)'
    BY <1>0, <1>3 DEF StoreRemove, TypeOK, Control, Holds, StartSteps, StopSteps, DeleteSteps,
       Gated
  <2>8. HostInv'
    BY <1>0, <1>3 DEF StoreRemove, HostInv, NeverLockedOut, Established, Removed, SecretFiles
  <2>9. Holds(s)
    BY <1>0, <1>3 DEF StoreRemove, Control, DeleteSteps
  <2>10. Established(s)'
    BY <1>0, <1>3 DEF StoreRemove, TypeOK, HostInv, Control, Established, Complete, Removed,
       LoadedSteps, SecretFiles, DeleteSteps, Gated
  <2> QED BY <2>1, <2>6, <2>7, <2>8, <2>9, <2>10, HolderKeeps
<1>4. CASE UnexposePorts(s)
  <2>1. Moves(s)
    BY <1>0, <1>4 DEF UnexposePorts, Moves, TypeOK
  <2>2. TypeOK'
    BY <1>0, <1>4 DEF UnexposePorts, TypeOK, Steps, Returning
  <2>3. Control(s)'
    BY <1>0, <1>4 DEF UnexposePorts, TypeOK, Control, Holds, StartSteps, StopSteps,
       DeleteSteps, Gated
  <2>4. HostInv'
    BY <1>0, <1>4 DEF UnexposePorts, HostInv, NeverLockedOut
  <2>5. Holds(s)
    BY <1>0, <1>4 DEF UnexposePorts, Control, DeleteSteps
  <2>6. Established(s)'
    BY <1>0, <1>4 DEF UnexposePorts, TypeOK, HostInv, Control, Established, Complete, Removed,
       LoadedSteps, SecretFiles, DeleteSteps, Gated
  <2> QED BY <2>1, <2>2, <2>3, <2>4, <2>5, <2>6, HolderKeeps
<1>5. CASE Clean(s)
  <2>1. Moves(s)
    BY <1>0, <1>5 DEF Clean, Moves, TypeOK
  <2>2. TypeOK'
    BY <1>0, <1>5 DEF Clean, TypeOK, Steps, Returning
  <2>3. Control(s)'
    BY <1>0, <1>5 DEF Clean, TypeOK, Control, Holds, StartSteps, StopSteps, DeleteSteps, Gated
  <2>4. Harmless
    BY <1>0, <1>5 DEF Clean, Harmless, TypeOK
  <2>5. Established(s)'
    BY <1>0, <1>5 DEF Clean, TypeOK, HostInv, Control, Established, Complete, Removed, LoadedSteps,
       SecretFiles, DeleteSteps, Gated
  <2> QED BY <2>1, <2>2, <2>3, <2>4, <2>5, HarmlessKeeps
<1> QED BY <1>1, <1>2, <1>3, <1>4, <1>5 DEF DeleteStep

\* GenerateBundle around its Stop.
LEMMA GenerateKeeps ==
  ASSUME OneDriver, IInv, NEW s \in Slots, GenerateStep(s)
  PROVE  IInv'
<1> USE DEF At, Goto, Fail
<1>0. TypeOK /\ HostInv /\ Control(s) /\ Established(s)
  BY DEF IInv
<1>1. CASE GenerateCheck(s)
  <2>1. Moves(s)
    BY <1>0, <1>1 DEF GenerateCheck, Moves, TypeOK
  <2>2. TypeOK'
    BY <1>0, <1>1 DEF GenerateCheck, TypeOK, Steps, Returning, host
  <2>3. Control(s)'
    BY <1>0, <1>1 DEF GenerateCheck, TypeOK, Control, Holds, StartSteps, StopSteps,
       DeleteSteps, Gated
  <2>4. Harmless
    BY <1>0, <1>1 DEF GenerateCheck, Harmless, TypeOK, host
  <2>5. Established(s)'
    BY <1>0, <1>1 DEF GenerateCheck, LoadVM, Loadable, StateIs, host, TypeOK, HostInv, Control,
       Established, Complete, Removed, LoadedSteps, SecretFiles, StartSteps, Gated
  <2> QED BY <2>1, <2>2, <2>3, <2>4, <2>5, HarmlessKeeps
<1>2. CASE GenerateSettled(s)
  <2>1. Moves(s)
    BY <1>0, <1>2 DEF GenerateSettled, Moves, TypeOK
  <2>2. TypeOK'
    BY <1>0, <1>2 DEF GenerateSettled, TypeOK, Steps, Returning, host
  <2>3. Control(s)'
    BY <1>0, <1>2 DEF GenerateSettled, TypeOK, Control, Holds, StartSteps, StopSteps,
       DeleteSteps, Gated
  <2>4. Harmless
    BY <1>0, <1>2 DEF GenerateSettled, Harmless, TypeOK, host
  <2>5. Established(s)'
    BY <1>0, <1>2 DEF GenerateSettled, Loadable, StateIs, host, TypeOK, HostInv, Control,
       Established, Complete, Removed, LoadedSteps, SecretFiles, StartSteps, Gated
  <2> QED BY <2>1, <2>2, <2>3, <2>4, <2>5, HarmlessKeeps
<1>3. CASE GenerateCopy(s)
  <2>1. Moves(s)
    BY <1>0, <1>3 DEF GenerateCopy, Moves, TypeOK
  <2>2. TypeOK'
    BY <1>0, <1>3 DEF GenerateCopy, TypeOK, Steps, Returning, host
  <2>3. Control(s)'
    BY <1>0, <1>3 DEF GenerateCopy, TypeOK, Control, Holds, StartSteps, StopSteps, DeleteSteps,
       Gated
  <2>4. Harmless
    BY <1>0, <1>3 DEF GenerateCopy, Harmless, TypeOK, host
  <2>5. Established(s)'
    BY <1>0, <1>3 DEF GenerateCopy, host, TypeOK, HostInv, Control, Established, Complete, Removed,
       LoadedSteps, SecretFiles, StartSteps, Gated
  <2> QED BY <2>1, <2>2, <2>3, <2>4, <2>5, HarmlessKeeps
<1> QED BY <1>1, <1>2, <1>3 DEF GenerateStep

\* Where a call begins.
LEMMA Entries ==
  /\ DOMAIN Entry = {"Start", "Stop", "Delete", "PowerOff", "GenerateBundle", "Status"}
  /\ Entry["Start"] = "start" /\ Entry["Stop"] = "stop" /\ Entry["Delete"] = "delete"
  /\ Entry["PowerOff"] = "kill" /\ Entry["GenerateBundle"] = "generate"
  /\ Entry["Status"] = "status"
BY DEF Entry

\* What is reported when an operation behind the gate returns.
LEMMA Verdicts ==
  ASSUME NEW m \in Gated
  PROVE  LET verdict == [Start |-> "started", Stop |-> "stopped", Delete |-> "deleted"][m]
         IN  \/ m = "Start" /\ verdict = "started"
             \/ m = "Stop" /\ verdict = "stopped"
             \/ m = "Delete" /\ verdict = "deleted"
BY DEF Gated

\* A new call is in front of the gate, or passes it by.
LEMMA InvokeKeeps ==
  ASSUME IInv, NEW s \in Slots, Invoke(s)
  PROVE  IInv'
<1>0. TypeOK /\ Control(s) /\ Established(s)
  BY DEF IInv
<1>1. PICK m \in Methods(ProcessOf[s]) :
        /\ op' = [op EXCEPT ![s] = m]
        /\ pc' = [pc EXCEPT ![s] = IF m \in Gated THEN "called" ELSE Entry[m]]
  BY DEF Invoke
<1>2. m \in DOMAIN Entry
  BY Entries DEF Methods, Gated
<1>3. /\ pc'[s] \in {"called", "kill", "generate", "status"} /\ op'[s] = m
      /\ pc'[s] = "called" => m \in Gated
      /\ pc'[s] = "kill" => m = "PowerOff"
      /\ pc'[s] = "generate" => m = "GenerateBundle"
      /\ pc'[s] = "status" => m = "Status"
  BY <1>0, <1>1, <1>2, Entries DEF TypeOK, Gated
<1>4. TypeOK'
  BY <1>0, <1>1, <1>2, <1>3 DEF Invoke, TypeOK, Steps, host
<1>5. Moves(s) /\ Harmless
  BY <1>0, <1>1 DEF Invoke, Moves, Harmless, TypeOK, host
<1>6. Control(s)'
  BY <1>3 DEF Control, StartSteps, StopSteps, DeleteSteps
<1>7. Established(s)'
  BY <1>3 DEF Established, LoadedSteps
<1> QED BY <1>4, <1>5, <1>6, <1>7, HarmlessKeeps

\* An admitted call finds the gate open, so no other relies on the machine.
LEMMA AdmitKeeps ==
  ASSUME OneDriver, IInv, NEW s \in Slots, Admit(s)
  PROVE  IInv'
<1>0. TypeOK /\ Control(s) /\ HostInv /\ GateInv
  BY DEF IInv
<1>1. /\ op[s] \in Gated /\ op' = op /\ settled' = "unknown" /\ UNCHANGED <<cancelled, host>>
      /\ pc' = [pc EXCEPT ![s] = Entry[op[s]]]
      /\ gate[ProcessOf[s]] = Nil
      /\ gate' = [gate EXCEPT ![ProcessOf[s]] = s]
  BY <1>0 DEF Admit, Control
<1>2. /\ op[s] = "Start" => Entry[op[s]] = "start"
      /\ op[s] = "Stop" => Entry[op[s]] = "stop"
      /\ op[s] = "Delete" => Entry[op[s]] = "delete"
  BY Entries
<1>3. /\ pc'[s] \in {"start", "stop", "delete"} /\ Holds(s)'
      /\ pc'[s] = "start" => op[s] = "Start"
      /\ pc'[s] = "stop" => op[s] = "Stop"
      /\ pc'[s] = "delete" => op[s] = "Delete"
  BY <1>0, <1>1, <1>2, MachineAssumptions DEF TypeOK, Gated, Holds
<1>4. TypeOK'
  BY <1>0, <1>1, <1>3, MachineAssumptions DEF TypeOK, Steps, host
<1>5. GateInv'
  BY <1>0, <1>1, MachineAssumptions DEF GateInv, TypeOK
<1>6. HostInv' /\ SettledInv'
  BY <1>0, <1>1 DEF HostInv, NeverLockedOut, SettledInv, StopSticks, DeleteIsComplete,
                    StartLeavesMachine, host
<1>7. Control(s)' /\ Established(s)'
  BY <1>1, <1>3 DEF Control, Established, StartSteps, StopSteps, DeleteSteps, LoadedSteps
<1>8. ASSUME NEW t \in Slots, t # s PROVE Control(t)' /\ Established(t)'
  <2>1. Control(t) /\ Established(t) /\ ~Holds(t) /\ pc'[t] = pc[t]
    <3>1. Control(t) /\ Established(t)
      BY DEF IInv
    <3>2. ProcessOf[t] = ProcessOf[s]
      BY DEF OneDriver
    <3>3. ~Holds(t)
      BY <1>1, <3>2, MachineAssumptions DEF Holds
    <3>4. pc'[t] = pc[t]
      BY <1>0, <1>1, <1>8 DEF TypeOK
    <3> QED BY <3>1, <3>3, <3>4
  <2>2. Control(t)'
    BY <1>1, <2>1 DEF Control
  <2>3. Established(t)'
    BY <1>1, <2>1 DEF Established, Complete, Removed, host
  <2> QED BY <2>2, <2>3
<1> QED BY <1>4, <1>5, <1>6, <1>7, <1>8 DEF IInv

\* A call that is turned away has touched nothing.
LEMMA RefuseKeeps ==
  ASSUME IInv, NEW s \in Slots, Refuse(s) \/ CancelTimeout(s)
  PROVE  IInv'
<1>0. TypeOK /\ Control(s)
  BY DEF IInv
<1>1. /\ pc' \in {[pc EXCEPT ![s] = "cancelling"], [pc EXCEPT ![s] = "failed"]}
      /\ op[s] \in Gated /\ UNCHANGED <<op, gate, settled, host>>
  BY <1>0 DEF Refuse, CancelTimeout, At, Goto, Control, host
<1>2. cancelled' \subseteq Slots
  BY <1>0, MachineAssumptions DEF Refuse, CancelTimeout, At, Goto, TypeOK
<1>3. TypeOK'
  BY <1>0, <1>1, <1>2 DEF TypeOK, Steps, Returning, host
<1>4. Moves(s) /\ Harmless /\ pc'[s] \in {"cancelling", "failed"}
  BY <1>0, <1>1 DEF Moves, Harmless, TypeOK, host
<1>5. Control(s)' /\ Established(s)'
  BY <1>1, <1>4 DEF Control, Established, StartSteps, StopSteps, DeleteSteps, LoadedSteps
<1> QED BY <1>3, <1>4, <1>5, HarmlessKeeps

\* The verdict is what the operation has established, and the gate is open again.
LEMMA ReturnKeeps ==
  ASSUME OneDriver, IInv, NEW s \in Slots, Return(s)
  PROVE  IInv'
<1>0. TypeOK /\ GateInv /\ HostInv /\ SettledInv /\ Control(s) /\ Established(s)
  BY DEF IInv
<1>1. /\ op' = [op EXCEPT ![s] = "none"] /\ pc' = [pc EXCEPT ![s] = "idle"]
      /\ gate' = [p \in Processes |-> IF gate[p] = s THEN Nil ELSE gate[p]]
      /\ cancelled' = cancelled \ {s} /\ UNCHANGED host
  BY DEF Return
<1>2. \/ settled' = settled
      \/ /\ pc[s] = "ok" /\ op[s] \in Gated /\ Holds(s)
         /\ \/ op[s] = "Start" /\ settled' = "started"
            \/ op[s] = "Stop" /\ settled' = "stopped"
            \/ op[s] = "Delete" /\ settled' = "deleted"
  BY <1>0, Verdicts DEF Return, At, Control
<1>3. TypeOK'
  BY <1>0, <1>1, <1>2 DEF TypeOK, Steps, host
<1>4. GateInv'
  <2>1. \A p \in Processes : gate'[p] # Nil => gate'[p] = gate[p] /\ ProcessOf[gate[p]] = p
    BY <1>0, <1>1 DEF GateInv
  <2>2. CASE settled' = settled
    BY <1>0, <1>1, <2>1, <2>2 DEF GateInv
  <2>3. CASE Holds(s)
    <3>1. ASSUME NEW p \in Processes PROVE gate'[p] = Nil
      <4>1. CASE gate[p] = Nil
        BY <1>1, <4>1
      <4>2. CASE gate[p] # Nil
        <5>1. gate[p] \in Slots /\ ProcessOf[gate[p]] = p
          BY <1>0, <4>2 DEF TypeOK, GateInv
        <5>2. p = ProcessOf[s]
          BY <5>1 DEF OneDriver
        <5> QED BY <1>1, <2>3, <5>2 DEF Holds
      <4> QED BY <4>1, <4>2
    <3> QED BY <3>1, <2>1 DEF GateInv
  <2> QED BY <1>2, <2>2, <2>3
<1>5. HostInv'
  BY <1>0, <1>1 DEF HostInv, NeverLockedOut, host
<1>6. SettledInv'
  BY <1>0, <1>1, <1>2 DEF SettledInv, StopSticks, DeleteIsComplete, StartLeavesMachine,
                          Established, Complete, Removed, host
<1>7. Control(s)' /\ Established(s)'
  <2>1. pc'[s] = "idle"
    BY <1>0, <1>1 DEF TypeOK
  <2> QED
    BY <2>1 DEF Control, Established, StartSteps, StopSteps, DeleteSteps, LoadedSteps
<1>8. ASSUME NEW t \in Slots, t # s PROVE Control(t)' /\ Established(t)'
  <2>1. Control(t) /\ Established(t) /\ pc'[t] = pc[t] /\ op'[t] = op[t]
    BY <1>0, <1>1, <1>8 DEF IInv, TypeOK
  <2>2. Holds(t) => Holds(t)'
    BY <1>1, <1>8, MachineAssumptions DEF Holds
  <2>3. Control(t)'
    BY <2>1, <2>2 DEF Control
  <2>4. Established(t)'
    BY <1>1, <2>1 DEF Established, Complete, Removed, host
  <2> QED BY <2>3, <2>4
<1> QED BY <1>3, <1>4, <1>5, <1>6, <1>7, <1>8 DEF IInv

\* Status changes nothing.
LEMMA StatusKeeps ==
  ASSUME IInv, NEW s \in Slots, Status(s)
  PROVE  IInv'
<1>0. TypeOK /\ Control(s) /\ op[s] = "Status"
  BY DEF IInv, Status, At, Control
<1>1. /\ pc' \in {[pc EXCEPT ![s] = "ok"], [pc EXCEPT ![s] = "failed"]}
      /\ UNCHANGED <<op, gate, cancelled, settled, host>>
  BY <1>0 DEF Status, At, Goto, Fail, host
<1>2. TypeOK'
  BY <1>0, <1>1 DEF TypeOK, Steps, Returning, host
<1>3. Moves(s) /\ Harmless /\ pc'[s] \in {"ok", "failed"}
  BY <1>0, <1>1 DEF Moves, Harmless, TypeOK, host
<1>4. Control(s)' /\ Established(s)'
  BY <1>0, <1>1, <1>3 DEF Control, Established, StartSteps, StopSteps, DeleteSteps,
                          LoadedSteps, Gated
<1> QED BY <1>2, <1>3, <1>4, HarmlessKeeps

\* A guest that halts by itself is as harmless.
LEMMA GuestStopsKeeps ==
  ASSUME IInv, GuestStops
  PROVE  IInv'
<1>0. TypeOK /\ Harmless /\ UNCHANGED calls
  BY DEF IInv, GuestStops, Harmless
<1>1. TypeOK' /\ GateInv'
  BY <1>0 DEF IInv, GuestStops, TypeOK, GateInv, calls
<1>2. HostInv' /\ SettledInv'
  BY <1>0, HarmlessKeepsHost, HarmlessKeepsSettled DEF calls
<1>3. ASSUME NEW t \in Slots PROVE Control(t)' /\ Established(t)'
  <2>1. Control(t) /\ Established(t) /\ UNCHANGED <<op, pc, gate>>
    BY <1>0 DEF IInv, calls
  <2>2. Control(t)'
    BY <2>1 DEF Control, Holds
  <2>3. Established(t)'
    BY <1>0, <2>1, HarmlessKeepsRest
  <2> QED BY <2>2, <2>3
<1> QED BY <1>1, <1>2, <1>3 DEF IInv

\* A crash loses the configuration or, in RemoveAll, any file of a machine that is gone.
LEMMA CrashedStore ==
  ASSUME IInv, NEW p \in Processes, Crash(p)
  PROVE  \/ store' = store
         \/ /\ gate[p] # Nil /\ \E s \in Slots : ProcessOf[s] = p
            /\ \/ store' = store \ {"config"}
               \/ store' \subseteq store /\ (leftover \/ (vm = "none" /\ ~guestKey))
<1>1. store' \in StoreAfterCrash(p)
  BY DEF Crash
<1>2. CASE \E s \in Slots : ProcessOf[s] = p /\ pc[s] \in {"storeRemove"}
  <2>1. PICK s \in Slots : ProcessOf[s] = p /\ pc[s] = "storeRemove"
    BY <1>2
  <2>2. gate[p] = s /\ (leftover \/ (vm = "none" /\ ~guestKey))
    BY <2>1 DEF IInv, Control, Established, Removed, Holds, DeleteSteps
  <2>3. store' \subseteq store
    BY <1>1, <1>2 DEF StoreAfterCrash
  <2> QED BY <2>1, <2>2, <2>3, MachineAssumptions
<1>3. CASE /\ ~\E s \in Slots : ProcessOf[s] = p /\ pc[s] \in {"storeRemove"}
           /\ \E s \in Slots : ProcessOf[s] = p /\ pc[s] \in {"create", "update", "wait"}
  <2>1. PICK s \in Slots : ProcessOf[s] = p /\ pc[s] \in {"create", "update", "wait"}
    BY <1>3
  <2>2. gate[p] = s
    BY <2>1 DEF IInv, Control, Holds, StartSteps
  <2>3. store' \in {store, store \ {"config"}}
    BY <1>1, <1>3 DEF StoreAfterCrash
  <2> QED BY <2>1, <2>2, <2>3, MachineAssumptions
<1>4. CASE /\ ~\E s \in Slots : ProcessOf[s] = p /\ pc[s] \in {"storeRemove"}
           /\ ~\E s \in Slots : ProcessOf[s] = p /\ pc[s] \in {"create", "update", "wait"}
  BY <1>1, <1>4 DEF StoreAfterCrash
<1> QED BY <1>2, <1>3, <1>4

\* The goroutines of a killed process are gone, and there are no others.
LEMMA CrashKeeps ==
  ASSUME OneDriver, IInv, NEW p \in Processes, Crash(p)
  PROVE  IInv'
<1>0. TypeOK /\ GateInv /\ HostInv /\ SettledInv
  BY DEF IInv
<1>1. /\ op' = [s \in Slots |-> IF ProcessOf[s] = p THEN "none" ELSE op[s]]
      /\ pc' = [s \in Slots |-> IF ProcessOf[s] = p THEN "idle" ELSE pc[s]]
      /\ gate' = [gate EXCEPT ![p] = Nil]
      /\ cancelled' = {s \in cancelled : ProcessOf[s] # p}
      /\ ports' = IF p = Daemon THEN {} ELSE ports
      /\ settled' = IF gate[p] = Nil THEN settled ELSE "unknown"
      /\ UNCHANGED <<vm, leftover, guestKey, kubeconfig, podman>>
  BY DEF Crash
<1>2. store' \subseteq store /\ (~leftover /\ (guestKey \/ vm # "none") 
                                => store \ {"config"} \subseteq store')
  BY CrashedStore
<1>3. TypeOK'
  <2>1. pc' \in [Slots -> Steps] /\ op' \in [Slots -> DOMAIN Entry \cup {"none"}]
    BY <1>0, <1>1 DEF TypeOK, Steps
  <2>2. gate' \in [Processes -> Slots \cup {Nil}] /\ cancelled' \subseteq Slots
    BY <1>0, <1>1 DEF TypeOK
  <2>3. store' \subseteq Files /\ ports' \subseteq Ports
    BY <1>0, <1>1, <1>2 DEF TypeOK
  <2>4. settled' \in {"unknown", "started", "stopped", "deleted"}
    BY <1>0, <1>1 DEF TypeOK
  <2> QED BY <1>0, <1>1, <2>1, <2>2, <2>3, <2>4 DEF TypeOK
<1>4. GateInv'
  BY <1>0, <1>1 DEF GateInv, TypeOK
<1>5. HostInv'
  BY <1>0, <1>1, <1>2 DEF HostInv, NeverLockedOut, SecretFiles
<1>6. SettledInv'
  <2>1. CASE gate[p] = Nil
    <3>1. store' = store /\ settled' = settled /\ (ports = {} => ports' = {})
      BY <1>1, <2>1, CrashedStore
    <3> QED
      BY <1>0, <1>1, <3>1 DEF SettledInv, StopSticks, DeleteIsComplete, StartLeavesMachine
  <2>2. CASE gate[p] # Nil
    BY <1>1, <2>2 DEF SettledInv, StopSticks, DeleteIsComplete, StartLeavesMachine
  <2> QED BY <2>1, <2>2
<1>7. ASSUME NEW t \in Slots PROVE Control(t)' /\ Established(t)'
  <2>1. CASE ProcessOf[t] = p
    <3>1. pc'[t] = "idle"
      BY <1>1, <2>1
    <3> QED
      BY <3>1 DEF Control, Established, StartSteps, StopSteps, DeleteSteps, LoadedSteps
  <2>2. CASE ProcessOf[t] # p
    <3>1. /\ Control(t) /\ Established(t) /\ pc'[t] = pc[t] /\ op'[t] = op[t]
          /\ gate'[ProcessOf[t]] = gate[ProcessOf[t]] /\ (ports = {} => ports' = {})
      BY <1>0, <1>1, <2>2, MachineAssumptions DEF IInv, TypeOK
    <3>2. store' = store
      BY <2>2, CrashedStore DEF OneDriver
    <3>3. Control(t)'
      BY <3>1 DEF Control, Holds
    <3>4. Established(t)'
      BY <1>1, <3>1, <3>2 DEF Established, Complete, Removed
    <3> QED BY <3>3, <3>4
  <2> QED BY <2>1, <2>2
<1> QED BY <1>3, <1>4, <1>5, <1>6, <1>7 DEF IInv

\* At first there is no machine and no call.
LEMMA InitEstablishes == Init => IInv
<1> SUFFICES ASSUME Init PROVE IInv
  OBVIOUS
<1>1. TypeOK
  BY DEF Init, TypeOK, Steps, Files
<1>2. GateInv /\ HostInv /\ SettledInv
  BY DEF Init, GateInv, HostInv, NeverLockedOut, SettledInv, StopSticks, DeleteIsComplete,
         StartLeavesMachine
<1>3. ASSUME NEW s \in Slots PROVE Control(s) /\ Established(s)
  BY DEF Init, Control, Established, StartSteps, StopSteps, DeleteSteps, LoadedSteps
<1> QED BY <1>1, <1>2, <1>3 DEF IInv

\* Every step keeps the invariant.
LEMMA NextKeeps ==
  ASSUME OneDriver, IInv, [Next]_vars
  PROVE  IInv'
<1>1. ASSUME NEW s \in Slots, GateStep(s) PROVE IInv'
  BY <1>1, InvokeKeeps, AdmitKeeps, RefuseKeeps, ReturnKeeps DEF GateStep
<1>2. ASSUME NEW s \in Slots, Status(s) PROVE IInv'
  BY <1>2, StatusKeeps
<1>3. CASE UNCHANGED vars
  <2>1. UNCHANGED <<store, vm, leftover, guestKey, ports, kubeconfig, podman,
                    op, pc, gate, cancelled, settled>>
    BY <1>3 DEF vars, host, calls
  <2>2. TypeOK'
    BY <2>1 DEF IInv, TypeOK
  <2>3. GateInv'
    BY <2>1 DEF IInv, GateInv
  <2>4. HostInv' /\ SettledInv'
    BY <2>1, HarmlessKeepsHost, HarmlessKeepsSettled DEF Harmless
  <2>5. ASSUME NEW t \in Slots PROVE Control(t)' /\ Established(t)'
    <3>1. Control(t) /\ Established(t)
      BY DEF IInv
    <3>2. Control(t)'
      BY <2>1, <3>1 DEF Control, Holds
    <3>3. Established(t)'
      BY <2>1, <3>1, HarmlessKeepsRest DEF Harmless
    <3> QED BY <3>2, <3>3
  <2> QED BY <2>2, <2>3, <2>4, <2>5 DEF IInv
<1> QED
  BY <1>1, <1>2, <1>3, StartKeeps, StopKeeps, DeleteKeeps, GenerateKeeps, CrashKeeps,
     GuestStopsKeeps DEF Next

(***************************************************************************)
(* IInv holds in every reachable state when one process makes the calls.   *)
(***************************************************************************)
THEOREM OneDriverInvariant == OneDriver => (Spec => []IInv)
<1> SUFFICES ASSUME OneDriver PROVE Spec => []IInv
  OBVIOUS
<1>1. Init => IInv
  BY InitEstablishes
<1>2. IInv /\ [Next]_vars => IInv'
  BY NextKeeps
<1> QED BY <1>1, <1>2, PTL DEF Spec

(***************************************************************************)
(* After a Stop that reported success the machine does not run until the   *)
(* next operation begins (stop.go), however many calls run next to it and  *)
(* however many Starts it cancelled.                                       *)
(***************************************************************************)
THEOREM OneDriverStopSticks == OneDriver => (Spec => []StopSticks)
<1>1. IInv => StopSticks
  BY DEF IInv, SettledInv
<1> QED BY <1>1, OneDriverInvariant, PTL

(***************************************************************************)
(* After a Delete that reported success (delete.go) no file of the machine *)
(* and no forwarded port is left, nor the machine, unless the driver has   *)
(* overlooked it.                                                          *)
(***************************************************************************)
THEOREM OneDriverDeleteIsComplete == OneDriver => (Spec => []DeleteIsComplete)
<1>1. IInv => DeleteIsComplete
  BY DEF IInv, SettledInv
<1> QED BY <1>1, OneDriverInvariant, PTL

(***************************************************************************)
(* After a Start that reported success (start.go) the machine is there     *)
(* with all its files.                                                     *)
(***************************************************************************)
THEOREM OneDriverStartLeavesMachine == OneDriver => (Spec => []StartLeavesMachine)
<1>1. IInv => StartLeavesMachine
  BY DEF IInv, SettledInv
<1> QED BY <1>1, OneDriverInvariant, PTL

(***************************************************************************)
(* The key a guest has been given (start.go, updateSSHKeyPair) is in the   *)
(* machine's directory as long as that guest is there.                     *)
(***************************************************************************)
THEOREM OneDriverNeverLockedOut == OneDriver => (Spec => []NeverLockedOut)
<1>1. IInv => NeverLockedOut
  BY DEF IInv, HostInv
<1> QED BY <1>1, OneDriverInvariant, PTL

(***************************************************************************)
(* The action properties, from the invariant before the step.              *)
(***************************************************************************)

\* The mark appears in the step that has written the secrets.
LEMMA MarkStep ==
  ASSUME OneDriver, IInv, [Next]_vars, "exists" \in store' \ store
  PROVE  vm' # "none" /\ {"config"} \cup SecretFiles \subseteq store'
<1>1. ASSUME NEW s \in Slots, StartStep(s) PROVE CreateSecrets(s)
  <2>1. /\ store' # store /\ store' # store \ {"config"} /\ store' # store \cup {"config"}
        /\ store' # store \cup {"password"}
    OBVIOUS
  <2>2. ~CreateSave(s) /\ ~UpdateVMConfig(s) /\ ~WaitRunning(s) /\ ~StartCluster(s)
    BY <2>1 DEF CreateSave, UpdateVMConfig, WaitRunning, SaveFailed, StartCluster, PasswordOverride
  <2>3. ~StartCheck(s) /\ ~StartLoad(s) /\ ~Recheck(s) /\ ~Connect(s)
    BY DEF StartCheck, StartLoad, Recheck, Connect, host
  <2>4. /\ ~DriverCreate(s) /\ ~ExposePorts(s) /\ ~DriverStart(s) /\ ~ConfigureGuest(s)
        /\ ~StartPodman(s) /\ ~WriteKubeconfig(s)
    BY DEF DriverCreate, ExposePorts, DriverStart, ConfigureGuest, StartPodman, WriteKubeconfig
  <2> QED BY <1>1, <2>1, <2>2, <2>3, <2>4 DEF StartStep
<1>2. ASSUME NEW s \in Slots, CreateSecrets(s)
      PROVE  vm' # "none" /\ {"config"} \cup SecretFiles \subseteq store'
  <2>1. pc[s] = "secrets" /\ vm # "none" /\ "config" \in store
    BY <1>2 DEF CreateSecrets, At, IInv, Established
  <2>2. vm' = vm /\ store' = store \cup SecretFiles \cup {"exists"}
    BY <1>2 DEF CreateSecrets, SecretFiles
  <2> QED BY <2>1, <2>2
<1>3. ASSUME NEW s \in Slots,
             GateStep(s) \/ StopStep(s) \/ DeleteStep(s) \/ GenerateStep(s) \/ Status(s)
      PROVE  FALSE
  BY <1>3 DEF GateStep, Invoke, Admit, Refuse, CancelTimeout, Return,
              StopStep, StopCheck, StopContainers, Shutdown, PowerOffLoad, Kill,
              DeleteStep, DeleteLoad, DriverRemove, StoreRemove, UnexposePorts, Clean,
              GenerateStep, GenerateCheck, GenerateSettled, GenerateCopy, Status, host
<1>4. ASSUME NEW p \in Processes, Crash(p) PROVE FALSE
  BY <1>4, CrashedStore
<1>5. ~GuestStops /\ ~UNCHANGED vars
  BY DEF GuestStops, vars, host
<1> QED BY <1>1, <1>2, <1>3, <1>4, <1>5 DEF Next

(***************************************************************************)
(* The mark of an existing machine appears only on a complete one          *)
(* (start.go, createHost sets it last).                                    *)
(***************************************************************************)
THEOREM OneDriverMarkedWhenComplete == OneDriver => (Spec => MarkedWhenComplete)
<1> SUFFICES ASSUME OneDriver PROVE Spec => MarkedWhenComplete
  OBVIOUS
<1>1. IInv /\ [Next]_vars =>
        [ "exists" \in store' \ store =>
            vm' # "none" /\ {"config"} \cup SecretFiles \subseteq store' ]_vars
  BY MarkStep
<1> QED BY <1>1, OneDriverInvariant, PTL DEF Spec, MarkedWhenComplete

(***************************************************************************)
(* The driver never creates a machine over one that exists (start.go,      *)
(* Exists before createHost), although the two are steps apart.            *)
(***************************************************************************)
THEOREM OneDriverNeverCreatedOver == OneDriver => (Spec => NeverCreatedOver)
<1> SUFFICES ASSUME OneDriver PROVE Spec => NeverCreatedOver
  OBVIOUS
<1>1. IInv => [ \A s \in Slots : pc[s] = "driverCreate" /\ pc'[s] = "secrets"
                                   => "exists" \notin store ]_vars
  BY DEF IInv, Established
<1> QED BY <1>1, OneDriverInvariant, PTL DEF NeverCreatedOver

\* The entries go away in the last step of Delete.
LEMMA EntriesStep ==
  ASSUME OneDriver, IInv, [Next]_vars, (kubeconfig /\ ~kubeconfig') \/ (podman /\ ~podman')
  PROVE  Removed /\ store = {}
<1> USE DEF At, Goto, Fail, Succeed
<1>0. TypeOK
  BY DEF IInv
<1>1. ASSUME NEW s \in Slots, StartStep(s) PROVE FALSE
  <2>1. CASE WriteKubeconfig(s)
    BY <1>0, <2>1 DEF WriteKubeconfig, TypeOK
  <2>2. CASE StartPodman(s)
    BY <1>0, <2>2 DEF StartPodman, TypeOK
  <2> QED
    BY <1>1, <2>1, <2>2 DEF StartStep, StartCheck, CreateSave, DriverCreate, CreateSecrets,
         StartLoad, ExposePorts, UpdateVMConfig, DriverStart, WaitRunning, Recheck, Connect,
         ConfigureGuest, StartCluster, host
<1>2. ASSUME NEW s \in Slots, DeleteStep(s) PROVE Clean(s)
  BY <1>2 DEF DeleteStep, DeleteLoad, DriverRemove, StoreRemove, UnexposePorts, host
<1>3. ASSUME NEW s \in Slots, Clean(s) PROVE Removed /\ store = {}
  BY <1>3 DEF Clean, IInv, Established
<1>4. ASSUME NEW s \in Slots, GateStep(s) \/ StopStep(s) \/ GenerateStep(s) \/ Status(s)
      PROVE  FALSE
  BY <1>4 DEF GateStep, Invoke, Admit, Refuse, CancelTimeout, Return,
              StopStep, StopCheck, StopContainers, Shutdown, PowerOffLoad, Kill,
              GenerateStep, GenerateCheck, GenerateSettled, GenerateCopy, Status, host
<1>5. ASSUME NEW p \in Processes, Crash(p) PROVE FALSE
  BY <1>5 DEF Crash
<1>6. ~GuestStops /\ ~UNCHANGED vars
  BY DEF GuestStops, vars, host
<1> QED BY <1>1, <1>2, <1>3, <1>4, <1>5, <1>6 DEF Next

(***************************************************************************)
(* The entries in the user's configuration go away only when the machine   *)
(* is gone (delete.go, which cleans them last).                            *)
(***************************************************************************)
THEOREM OneDriverEntriesOutliveMachine == OneDriver => (Spec => EntriesOutliveMachine)
<1> SUFFICES ASSUME OneDriver PROVE Spec => EntriesOutliveMachine
  OBVIOUS
<1>1. IInv /\ [Next]_vars =>
        [ (kubeconfig /\ ~kubeconfig') \/ (podman /\ ~podman')
            => (vm = "none" \/ leftover) /\ store = {} ]_vars
  BY EntriesStep DEF Removed
<1> QED BY <1>1, OneDriverInvariant, PTL DEF Spec, EntriesOutliveMachine

-----------------------------------------------------------------------------
(***************************************************************************)
(* Forwarded ports, when the daemon is not restarted under the machine.    *)
(***************************************************************************)
Forwarded == UserNetworking => Ports \subseteq ports

\* The ports are forwarded from exposePorts on, up to the driver's Start.
ForwardInv ==
  /\ vm = "Running" /\ ~leftover => Forwarded
  /\ \A s \in Slots : pc[s] \in {"update", "boot"} => Forwarded

\* Only Delete takes a forward away, when there is no machine and nobody else at work.
LEMMA ForwardKept ==
  ASSUME OneDriver, Daemon \notin Crashing, IInv, ForwardInv, [Next]_vars
  PROVE  ForwardInv'
<1> USE DEF At, Goto, Fail, Succeed
<1>0. TypeOK
  BY DEF IInv
<1>1. ASSUME NEW s \in Slots, StartStep(s) PROVE ForwardInv'
  <2>1. CASE StartLoad(s)
    BY <1>0, <2>1 DEF StartLoad, ForwardInv, Forwarded, TypeOK, host
  <2>2. CASE ExposePorts(s)
    BY <1>0, <2>2 DEF ExposePorts, ForwardInv, Forwarded, TypeOK
  <2>3. CASE UpdateVMConfig(s)
    BY <1>0, <2>3 DEF UpdateVMConfig, ForwardInv, Forwarded, TypeOK
  <2>4. CASE DriverStart(s)
    BY <1>0, <2>4 DEF DriverStart, ForwardInv, Forwarded, TypeOK
  <2>5. CASE StartCheck(s) \/ CreateSave(s) \/ DriverCreate(s) \/ CreateSecrets(s)
    BY <1>0, <2>5 DEF StartCheck, CreateSave, DriverCreate, CreateSecrets, ForwardInv, Forwarded,
                      TypeOK, host
  <2>6. CASE WaitRunning(s) \/ Recheck(s) \/ Connect(s) \/ ConfigureGuest(s)
    BY <1>0, <2>6 DEF WaitRunning, Recheck, Connect, ConfigureGuest, ForwardInv, Forwarded,
                      TypeOK, host
  <2>7. CASE StartPodman(s) \/ StartCluster(s) \/ WriteKubeconfig(s)
    BY <1>0, <2>7 DEF StartPodman, StartCluster, WriteKubeconfig, ForwardInv, Forwarded,
                      TypeOK, host
  <2> QED BY <1>1, <2>1, <2>2, <2>3, <2>4, <2>5, <2>6, <2>7 DEF StartStep
<1>2. ASSUME NEW s \in Slots, DeleteStep(s) PROVE ForwardInv'
  <2>1. CASE UnexposePorts(s)
    <3>1. Removed /\ Holds(s)
      BY <2>1 DEF UnexposePorts, IInv, Established, Control, DeleteSteps
    <3>2. \A t \in Slots : t # s => pc[t] \notin {"update", "boot"}
      BY <3>1, Alone DEF IInv, Control, StartSteps
    <3> QED
      BY <1>0, <2>1, <3>1, <3>2 DEF UnexposePorts, ForwardInv, Removed, TypeOK
  <2>2. CASE DeleteLoad(s) \/ DriverRemove(s) \/ StoreRemove(s) \/ Clean(s)
    BY <1>0, <2>2 DEF DeleteLoad, DriverRemove, HaltFailed, StoreRemove, Clean, ForwardInv,
                      Forwarded, TypeOK, host
  <2> QED BY <1>2, <2>1, <2>2 DEF DeleteStep
<1>3. ASSUME NEW s \in Slots, StopStep(s) PROVE ForwardInv'
  BY <1>0, <1>3 DEF StopStep, StopCheck, StopContainers, Shutdown, PowerOffLoad, Kill,
         RunActionForState, HaltFailed, ForwardInv, Forwarded, TypeOK, host
<1>4. ASSUME NEW s \in Slots, GenerateStep(s) \/ Status(s) PROVE ForwardInv'
  BY <1>0, <1>4 DEF GenerateStep, GenerateCheck, GenerateSettled, GenerateCopy, Status,
         ForwardInv, Forwarded, TypeOK, host
<1>5. ASSUME NEW s \in Slots, GateStep(s) PROVE ForwardInv'
  <2>1. /\ UNCHANGED host
        /\ \A t \in Slots : pc'[t] \in {"update", "boot"} => pc'[t] = pc[t]
    <3>1. CASE Invoke(s)
      BY <1>0, <3>1, Entries, SMT, SMTT(60) DEF Invoke, Methods, Gated, TypeOK
    <3>2. CASE Admit(s)
      BY <1>0, <3>2, Entries DEF Admit, IInv, Control, Gated, TypeOK
    <3>3. CASE Refuse(s) \/ CancelTimeout(s) \/ Return(s)
      BY <1>0, <3>3 DEF Refuse, CancelTimeout, Return, TypeOK
    <3> QED BY <1>5, <3>1, <3>2, <3>3 DEF GateStep
  <2> QED BY <2>1 DEF ForwardInv, Forwarded, host
<1>6. ASSUME NEW p \in Processes, Crash(p) PROVE ForwardInv'
  BY <1>0, <1>6 DEF Crash, ForwardInv, Forwarded, TypeOK
<1>7. CASE GuestStops
  BY <1>7 DEF GuestStops, ForwardInv, Forwarded, calls
<1>8. CASE UNCHANGED vars
  BY <1>8 DEF vars, host, calls, ForwardInv, Forwarded
<1> QED BY <1>1, <1>2, <1>3, <1>4, <1>5, <1>6, <1>7, <1>8 DEF Next

(***************************************************************************)
(* A running machine has its ports forwarded in user networking mode       *)
(* (exposePorts before the driver's Start in start.go, unexposePorts after *)
(* its Remove in delete.go), if the daemon is not killed.                  *)
(***************************************************************************)
THEOREM OneDriverRunningIsForwarded ==
  OneDriver /\ Daemon \notin Crashing => (Spec => []RunningIsForwarded)
<1> SUFFICES ASSUME OneDriver, Daemon \notin Crashing PROVE Spec => []RunningIsForwarded
  OBVIOUS
<1>1. Init => ForwardInv
  BY DEF Init, ForwardInv
<1>2. IInv /\ ForwardInv /\ [Next]_vars => ForwardInv'
  BY ForwardKept
<1>3. ForwardInv => RunningIsForwarded
  BY DEF ForwardInv, Forwarded, RunningIsForwarded
<1> QED BY <1>1, <1>2, <1>3, OneDriverInvariant, PTL DEF Spec

(***************************************************************************)
(* What the command reports stays true, and the guest's key is not lost,   *)
(* after any number of calls killed at any step, as long as one process    *)
(* drives the machine and the daemon that forwards the ports is not the    *)
(* one that is killed.                                                     *)
(***************************************************************************)
THEOREM OneDriverTrueAfterKills ==
  OneDriver /\ Daemon \notin Crashing => (Spec => []TrueAfterKills)
<1> SUFFICES ASSUME OneDriver, Daemon \notin Crashing PROVE Spec => []TrueAfterKills
  OBVIOUS
<1>1. Spec => []IInv /\ []RunningIsForwarded
  BY OneDriverInvariant, OneDriverRunningIsForwarded, PTL
<1>2. IInv /\ RunningIsForwarded => TrueAfterKills
  BY DEF TrueAfterKills, IInv, SettledInv, HostInv
<1> QED BY <1>1, <1>2, PTL

(***************************************************************************)
(* No step creates a machine over one that is there, marks one that is not *)
(* complete, or takes the user's entries away from one that is left, after *)
(* any number of calls killed at any step.                                 *)
(***************************************************************************)
THEOREM OneDriverStepsAfterKills == OneDriver => (Spec => StepsAfterKills)
BY OneDriverNeverCreatedOver, OneDriverMarkedWhenComplete, OneDriverEntriesOutliveMachine
   DEF StepsAfterKills
=============================================================================

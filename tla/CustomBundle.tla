---------------------------- MODULE CustomBundle ----------------------------
(***************************************************************************)
(* "crc bundle generate": client.GenerateBundle takes the user's pull      *)
(* secret out of a running cluster, removes old rendered machine configs,  *)
(* stops the instance, copies its disk and what belongs to it to a         *)
(* temporary directory, and compresses that (pkg/crc/machine,              *)
(* bundle.Copier, pkg/compress).  The machine config operator works in the *)
(* cluster meanwhile: it renders a config when the secret has changed, and *)
(* the config it has rendered is applied to the disk later.                *)
(***************************************************************************)
EXTENDS Naturals

CONSTANTS
  MaxRendered,    \* how many configs are rendered for a pool
  MaxFailures     \* how many calls fail, or commands are cut short

VARIABLES
  openshift,    \* is it an OpenShift instance
  vm,           \* "stopped" or "running"
  api,          \* does its API server answer
  secret,       \* the pull secret in the cluster
  disk,         \* and on the disk
  rendered,     \* the numbers of the rendered configs of each pool
  config,       \* the pull secret in the newest one
  step,         \* where the command in progress is
  force,        \* has it been told to stop the instance by force
  old,          \* the rendered configs it has found to be old
  copied,       \* what is in the directory of the copier
  image,        \* the secret on the disk image in it
  bundle,       \* the files in the bundle it has written, and the secret on the disk
  result,
  settled,      \* had the operator nothing left to do when the last command began
  steady,       \* has nothing failed in the last command
  unflushed,    \* has closing the archive failed in it
  failures

clusterVars == <<api, secret, disk, rendered, config>>
hostVars == <<copied, image, bundle>>
status == <<result, settled, steady, unflushed, failures>>
customVars == <<openshift, vm, clusterVars, step, force, old, hostVars, status>>

Pools == {"master", "worker"}
Secrets == {"user", "empty"}
NoArchive == [files |-> {}, image |-> "none"]
Newest(numbers) == CHOOSE n \in numbers : \A m \in numbers : m <= n

\* What the copier puts in the bundle, in order.
Files == {f \in {"kubeconfig", "key", "oc", "disk", "info"} : f = "kubeconfig" => openshift}

\* An instance that has just been created: the disk of the bundle has no pull secret.
CustomInit ==
  /\ openshift \in BOOLEAN
  /\ vm = "stopped" /\ api = FALSE
  /\ secret = "empty" /\ disk = "empty"
  /\ rendered = [p \in Pools |-> {1}] /\ config = [p \in Pools |-> "empty"]
  /\ step = "idle" /\ force = FALSE /\ old = [p \in Pools |-> {}]
  /\ copied = {} /\ image = "none" /\ bundle = NoArchive
  /\ result = "none" /\ settled = FALSE /\ steady = TRUE /\ unflushed = FALSE /\ failures = 0

AtStep(s) == step = s
Proceed(s) == step' = s /\ UNCHANGED status
End(r) == step' = "idle" /\ result' = r /\ UNCHANGED <<settled, steady, unflushed, failures>>
CanFail == failures < MaxFailures
Fail(r) ==
  /\ CanFail /\ failures' = failures + 1 /\ steady' = FALSE
  /\ step' = "idle" /\ result' = r
  /\ UNCHANGED <<settled, unflushed>>

-----------------------------------------------------------------------------
\* The machine config operator renders a config for a pool when the secret is another one,
Render(p) ==
  /\ openshift /\ api
  /\ config[p] # secret
  /\ Newest(rendered[p]) < MaxRendered
  /\ rendered' = [rendered EXCEPT ![p] = @ \cup {Newest(@) + 1}]
  /\ config' = [config EXCEPT ![p] = secret]
  /\ UNCHANGED <<openshift, vm, api, secret, disk, step, force, old, hostVars, status>>

\* and the newest one of the master is applied to the disk.
Apply ==
  /\ openshift /\ api
  /\ disk # config["master"]
  /\ disk' = config["master"]
  /\ UNCHANGED <<openshift, vm, api, secret, rendered, config, step, force, old, hostVars, status>>

\* "crc start" gives the cluster the pull secret,
StartInstance ==
  /\ AtStep("idle") /\ vm = "stopped"
  /\ vm' = "running"
  /\ step' = "starting"
  /\ IF openshift THEN api' = TRUE /\ secret' = "user" ELSE UNCHANGED <<api, secret>>
  /\ steady' = TRUE /\ unflushed' = FALSE /\ result' = "none" /\ settled' = FALSE
  /\ UNCHANGED <<openshift, disk, rendered, config, force, old, hostVars, failures>>

\* and returns when it is on the disk.
Started ==
  /\ AtStep("starting") /\ (openshift => disk = "user")
  /\ step' = "idle"
  /\ UNCHANGED <<openshift, vm, clusterVars, force, old, hostVars, status>>

-----------------------------------------------------------------------------
\* GenerateBundle finds a running instance, or is at an end.
loadVM ==
  /\ AtStep("idle")
  /\ vm = "running"
  /\ force' \in BOOLEAN
  /\ step' = IF openshift THEN "removeSecret" ELSE "stop"
  /\ steady' = (openshift => api) /\ unflushed' = FALSE /\ result' = "none"
  /\ copied' = {} /\ image' = "none" /\ bundle' = NoArchive
  /\ old' = [p \in Pools |-> {}]
  /\ settled' = (openshift => disk = "user" /\ \A p \in Pools : config[p] = "user")
  /\ UNCHANGED <<openshift, vm, clusterVars, failures>>

\* The secret is patched in the cluster,
RemovePullSecretFromCluster ==
  /\ AtStep("removeSecret")
  /\ IF api THEN Proceed("wait") /\ secret' = "empty" ELSE End("error") /\ UNCHANGED secret
  /\ UNCHANGED <<openshift, vm, api, disk, rendered, config, force, old, hostVars>>

\* Mutation: the command waits for the config that has no secret, not for the disk.
WaitForConfig ==
  /\ AtStep("wait")
  /\ config["master"] = "empty"
  /\ Proceed("list")
  /\ UNCHANGED <<openshift, vm, clusterVars, force, old, hostVars>>

\* and the command waits until it is no longer on the disk.
waitForPullSecretRemovedFromInstanceDisk ==
  /\ AtStep("wait")
  /\ disk = "empty"
  /\ Proceed("list")
  /\ UNCHANGED <<openshift, vm, clusterVars, force, old, hostVars>>

\* Mutation: the configs come in the other order, and all but the oldest one are taken for old.
ListNewer ==
  /\ AtStep("list")
  /\ old' = [p \in Pools |-> {n \in rendered[p] : \E m \in rendered[p] : m < n}]
  /\ Proceed("delete")
  /\ UNCHANGED <<openshift, vm, clusterVars, force, hostVars>>

\* All rendered configs of a pool but the newest one are old.
ListRendered ==
  /\ AtStep("list")
  /\ old' = [p \in Pools |-> {n \in rendered[p] : n # Newest(rendered[p])}]
  /\ Proceed("delete")
  /\ UNCHANGED <<openshift, vm, clusterVars, force, hostVars>>

\* The names of the old ones are joined with a blank between the pools, so that there is
\* always something to give to "oc delete", which fails if it is no name.
RemoveOldRenderedMachineConfig ==
  /\ AtStep("delete")
  /\ IF \A p \in Pools : old[p] = {} THEN End("error") /\ UNCHANGED rendered
     ELSE Proceed("stop") /\ rendered' = [p \in Pools |-> rendered[p] \ old[p]]
  /\ UNCHANGED <<openshift, vm, api, secret, disk, config, force, old, hostVars>>

\* client.Stop stops kubelet and the containers, and the instance,
StopInstance ==
  /\ AtStep("stop")
  /\ vm' = "stopped" /\ api' = FALSE
  /\ Proceed("isRunning")
  /\ UNCHANGED <<openshift, secret, disk, rendered, config, force, old, hostVars>>

\* or fails after the first of them, and PowerOff is tried if the user has allowed it.
StopFails ==
  /\ AtStep("stop") /\ CanFail
  /\ api' = FALSE
  /\ IF force
     THEN /\ step' = "powerOff" /\ steady' = FALSE /\ failures' = failures + 1
          /\ UNCHANGED <<result, settled, unflushed>>
     ELSE Fail("error")
  /\ UNCHANGED <<openshift, vm, secret, disk, rendered, config, force, old, hostVars>>

PowerOff ==
  /\ AtStep("powerOff")
  /\ vm' = "stopped"
  /\ Proceed("isRunning")
  /\ UNCHANGED <<openshift, clusterVars, force, old, hostVars>>

IsRunning ==
  /\ AtStep("isRunning")
  /\ IF vm = "running" THEN End("error") ELSE Proceed("copy")
  /\ UNCHANGED <<openshift, vm, clusterVars, force, old, hostVars>>

\* The copier copies the files of the bundle,
CopyFilesFromFileList ==
  /\ AtStep("copy")
  /\ IF Files \ {"disk", "info"} \subseteq copied THEN Proceed("disk") /\ UNCHANGED copied
     ELSE /\ \E f \in Files \ ({"disk", "info"} \cup copied) : copied' = copied \cup {f}
          /\ UNCHANGED <<step, status>>
  /\ UNCHANGED <<openshift, vm, clusterVars, force, old, image, bundle>>

\* and the disk, whose size and checksum are taken from the copy;
copyDiskImage ==
  /\ AtStep("disk")
  /\ copied' = copied \cup {"disk"} /\ image' = disk
  /\ Proceed("verify")
  /\ UNCHANGED <<openshift, vm, clusterVars, force, old, bundle>>

\* Mutation: nobody looks, and the metadata is not written.
CompressAtOnce ==
  /\ AtStep("verify")
  /\ Proceed("compress")
  /\ UNCHANGED <<openshift, vm, clusterVars, force, old, hostVars>>

\* it checks that all files are there, and writes the metadata of the new bundle.
CopierGenerateBundle ==
  /\ AtStep("verify")
  /\ IF Files \ {"info"} \subseteq copied
     THEN copied' = copied \cup {"info"} /\ Proceed("compress")
     ELSE End("error") /\ UNCHANGED copied
  /\ UNCHANGED <<openshift, vm, clusterVars, force, old, image, bundle>>

\* The archive is written, and the directory removed.
Compress ==
  /\ AtStep("compress")
  /\ bundle' = [files |-> copied, image |-> image]
  /\ copied' = {} /\ image' = "none"
  /\ End("ok")
  /\ UNCHANGED <<openshift, vm, clusterVars, force, old>>

\* The last blocks are written when tarWriter and enc are closed, whose errors are dropped.
CloseFails ==
  /\ AtStep("compress") /\ CanFail
  /\ \E f \in copied : bundle' = [files |-> copied \ {f}, image |-> image]
  /\ copied' = {} /\ image' = "none"
  /\ step' = "idle" /\ result' = "ok"
  /\ failures' = failures + 1 /\ steady' = FALSE /\ unflushed' = TRUE
  /\ UNCHANGED <<openshift, vm, clusterVars, force, old, settled>>

\* Any other call may fail: the deferred functions remove the directory,
CallFails ==
  /\ step \notin {"idle", "starting", "stop"}
  /\ Fail("error")
  /\ copied' = {} /\ image' = "none"
  /\ bundle' = IF AtStep("compress") THEN [files |-> {"kubeconfig"} \cap copied, image |-> "none"] ELSE bundle
  /\ UNCHANGED <<openshift, vm, clusterVars, force, old>>

\* and when the command, or a start, is cut short they do not run.
Interrupt ==
  /\ ~AtStep("idle")
  /\ Fail("none")
  /\ UNCHANGED <<openshift, vm, clusterVars, force, old, hostVars>>

GenerateBundle ==
  \/ loadVM
  \/ RemovePullSecretFromCluster
  \/ waitForPullSecretRemovedFromInstanceDisk
  \/ ListRendered
  \/ RemoveOldRenderedMachineConfig
  \/ StopInstance
  \/ StopFails
  \/ PowerOff
  \/ IsRunning
  \/ CopyFilesFromFileList
  \/ copyDiskImage
  \/ CopierGenerateBundle
  \/ Compress
  \/ CloseFails
  \/ CallFails

CustomNext ==
  \/ \E p \in Pools : Render(p)
  \/ Apply
  \/ StartInstance
  \/ Started
  \/ GenerateBundle
  \/ Interrupt

CustomSpec == CustomInit /\ [][CustomNext]_customVars

-----------------------------------------------------------------------------
\* Type invariant.
CustomTypeOK ==
  /\ vm \in {"stopped", "running"} /\ (api => vm = "running")
  /\ secret \in Secrets /\ disk \in Secrets /\ config \in [Pools -> Secrets]
  /\ rendered \in [Pools -> SUBSET (1..MaxRendered)] /\ old \in [Pools -> SUBSET (1..MaxRendered)]
  /\ copied \subseteq Files /\ image \in Secrets \cup {"none"}
  /\ bundle.files \subseteq Files /\ bundle.image \in Secrets \cup {"none"}
  /\ result \in {"none", "ok", "error"} /\ failures \in 0..MaxFailures

(***************************************************************************)
(* The disk in a bundle does not hold the user's pull secret ("Removing    *)
(* user's pull secret from instance disk and from cluster secret...",      *)
(* cluster.go) when the operator had applied it before the command began:  *)
(* what it does in the background cannot bring it back after the wait.     *)
(***************************************************************************)
NoSecretInBundle == settled => ~("disk" \in bundle.files /\ bundle.image = "user")

(***************************************************************************)
(* "We need to make sure only old machine configs are deleted not the new  *)
(* one" (RemoveOldRenderedMachineConfig): the config that is newest when   *)
(* the others are deleted stays, one rendered after the list was made      *)
(* included.                                                               *)
(***************************************************************************)
NewestKept == [][\A p \in Pools : Newest(rendered[p]) \in rendered'[p]]_customVars

(***************************************************************************)
(* "Bundle is generated": GenerateBundle returns nil only when the archive *)
(* holds every file of the bundle, the error that Compress drops aside.    *)
(***************************************************************************)
Whole == bundle.files = Files /\ bundle.image \in Secrets

GeneratedMeansWhole == (AtStep("idle") /\ result = "ok" /\ ~unflushed) => Whole

\* TestCompressRelative: what Compress has written without an error unpacks to what was there.
GeneratedAlwaysWhole == (AtStep("idle") /\ result = "ok") => Whole

(***************************************************************************)
(* "Generate a custom bundle from the running OpenShift cluster": when     *)
(* nothing fails and the cluster answers, a bundle is generated from an    *)
(* instance that has the user's pull secret, whatever earlier attempts     *)
(* have left.                                                              *)
(***************************************************************************)
SmoothGenerates == (AtStep("idle") /\ steady /\ settled) => result # "error"

\* The same for an instance from which an earlier attempt has taken the pull secret.
RetryGenerates == (AtStep("idle") /\ steady) => result # "error"

=============================================================================

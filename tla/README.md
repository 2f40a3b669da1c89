# A TLA+ model of crc

crc runs an OpenShift, OKD or Podman virtual machine on a laptop.  The command
line (`cmd/crc`) and the daemon (`crc daemon`, which serves an HTTP API and the
user-mode network) both drive the same machine client, `pkg/crc/machine`, and
keep all their state in files below `~/.crc` and in the hypervisor.

## The parts and how they interact

| part | code | state | modules |
|---|---|---|---|
| operation gate | `pkg/crc/machine/sync.go` | `currentState`, `startCancel`, the `syncOperationDone` channel, `stateLock` | `ExclusiveOperations`, `Synchronized` |
| machine client | `pkg/crc/machine/{start,stop,delete,poweroff,status,exists,virtualmachine,generate_bundle}.go` | none of its own: files, hypervisor, guest, cluster | `Machine`, `GuestSetup`, `ClusterStart`, `CustomBundle` |
| machine store | `pkg/libmachine/persist` | `config.json`, its temporary file, the `.crc-exist` mark | `FileStore` |
| drivers | `pkg/drivers/{vfkit,hyperv}`, `pkg/libmachine/host` | pid file, process, hypervisor objects | `VfkitDriver`, `HypervDriver` |
| guest, DNS, ssh | `pkg/crc/services/dns`, `pkg/crc/network`, `pkg/crc/adminhelper`, `pkg/crc/ssh` | files and units of the guest, hosts and resolver files of the host | `GuestSetup` |
| cluster start-up | `pkg/crc/cluster`, `pkg/crc/tls` | certificates, secrets, CA, operators | `CertRenewal`, `ClusterStart`, `ClusterStable` |
| retries | `pkg/crc/errors/multierror.go` | attempts, time | `Retry` |
| bundles | `pkg/crc/machine/bundle`, `pkg/extract`, `pkg/download`, `pkg/crc/image`, `pkg/os/copy.go`, `pkg/compress` | the cache, disk images | `BundleCache`, `SparseCopy`, `CustomBundle` |
| kubeconfig | `pkg/crc/machine/kubeconfig.go` | contexts, users, current context | `Kubeconfig` |
| configuration | `pkg/crc/config`, `pkg/crc/api/handlers.go` | `crc.json`, the keyring, defaults in memory | `SettingsStore`, `ConfigFile`, `Settings` |
| preflight checks | `pkg/crc/preflight`, `pkg/crc/cache` | the host's set-up | `Preflight`, `PreflightCommon`, `PreflightLinux`, `PreflightDarwin`, `PreflightWindows` |

`crc setup` prepares the host (preflight, bundle cache).  An API request or a
command then calls the gate; the gate lets one Start, Stop or Delete at a time
through to the machine client and passes the other methods on; the client reads
and writes the machine store, asks the driver for the virtual machine, asks the
daemon to forward ports, sets the guest and the cluster up over ssh, and last
edits the user's kubeconfig or podman configuration.  The daemon and each command
line are processes of their own with a gate of their own.  They share the files,
the hypervisor and the ports, and no lock.

The modules follow that picture.  `Machine` is the composition: the gate as
`ExclusiveOperations` promises it, the store, the driver and the ports with every
outcome they may have, and one step for each stretch of work.  The other modules
take one of its steps apart and ask what that step promises: `Synchronized` the
gate, `FileStore` the saves, the two drivers create/start/stop/remove,
`GuestSetup` and `ClusterStart` the two steps after the boot, `CertRenewal`,
`ClusterStable` and `Retry` the waits inside those, `CustomBundle` bundle
generation.  `PROJECT.json` maps every definition to the lines it models.

Throughout, a step that returns an error in the code may fail in the model with
whatever it had already done, errors that the code only logs fail nothing, and a
process may end between any two steps where a run says so.  The number of failures
in one behaviour is bounded by a constant (`MaxFaults`, `MaxCrashes`, `MaxKills`, `MaxCuts`, `MaxFailures`):
the questions are about what one or two interrupted operations leave to later ones.

## Modules

### ExclusiveOperations and Synchronized

`ExclusiveOperations` says that Start, Stop and Delete are performed one at a time,
that each call is answered once, that a refused call is never performed, and that
a Start is refused only while another operation is performed.

In `Synchronized` a call is a goroutine and `pc` says where it is.  `stateLock`,
`currentState`, `startCancel` and `syncOperationDone` are the fields of the struct;
`cancelled` holds the calls whose context was cancelled.

| action | code |
|---|---|
| `PrepareStart`, `PrepareStopDelete` | the critical sections of `prepareStart` and `prepareStopDelete`, up to their return or to the `select` of `cancelUnlocked` |
| `CancelReceive`, `CancelTimeout` | the two outcomes of that `select`; either may be chosen when both are ready |
| `UnderlyingReturn`, `SendDone` | the underlying client returns; its end is sent on the channel |
| `StatusPoll`, `Forward`, `QueryReturn` | Status and the methods that pass the gate by |

The refinement mapping `Promise` takes an operation to be performed from the moment
the gate admits it until its end is in the channel.

### Machine

A slot is a goroutine of a process that makes one call after the other; `op` and
`pc` say which call and how far it is.  The shared state is

| variable | in the system |
|---|---|
| `store` | which of `.crc-exist`, `config.json`, `id_ecdsa`, `kubeadmin-password` are in the machine's directory |
| `vm` | what the hypervisor knows: none, Stopped or Running |
| `leftover` | a Remove of the driver reported success and left the machine |
| `guestKey` | the guest's `authorized_keys` holds the key of the directory |
| `ports` | the forwards in the daemon's memory |
| `kubeconfig`, `podman` | crc's entries in the user's files |
| `gate` | per process, the slot that performs a gated operation |
| `settled` | bookkeeping for the properties: what the last Start, Stop or Delete reported, unless another has begun since |

Each action is a stretch of a method between two points where another goroutine,
or a kill, could matter; its name says which (`CreateSave`, `DriverCreate`,
`CreateSecrets` are `createHost`, and so on).  A Save may have removed
`config.json`, RemoveAll may have left any of the files, the driver may have
created, started or halted the machine before it reported an error.  Its Remove may
report success with the machine still there, as that of Hyper-V does when Get-VM fails
(`leftover`): what the properties say of the machine, and of the files and entries that
go with it, then holds as far as crc can know.  `GuestStops`
is the guest shutting down by itself.  `Crash` kills a process at any point and
starts it again.

What is abstracted:

- The gate does what `ExclusiveOperations` promises.  A call that cancels a Start
  may here be overtaken by another one, which the lock of `sync.go` excludes: more
  behaviours, so safety carries over.
- A Retry is one step.  A cancellation that arrives during an attempt that succeeds
  is the same as one that arrives after the step.
- exposePorts and unexposePorts are one step each with every partial outcome.
- The driver registers the machine with the hypervisor, as hyperv does.  vfkit does
  not: there the disk goes with the directory.  `NeverLockedOut` and the parts of the
  others about `vm` are not claimed for it; `VfkitDriver` has its own.

### FileStore

`config.json`, its temporary file and the mark, one system call per action:
`Stat`, `Open`, `Write` (in place, when there was no file), `WriteTemp`,
`RemoveOld`, `Rename`, `SetExists`, and for a Delete one `RemoveEntry` after the
other in any order.  Any of them may fail (`Fails`), with the deferred removal of
the temporary file, and the process be killed (`Killed`), without it.  A file holds
a configuration, or half of one.  The half that a kill leaves in `config.json` and
the gap between `os.Remove` and `os.Rename` are what `Machine` has as `SaveFailed`
and `StoreAfterCrash`.

### VfkitDriver

The machine is a process, `vfkit.pid` what crc knows of it.  `Create`, `Start`
(`recoverFromUncleanShutdown`, `AddDevices`, `startVfkit`, `WritePid`), `Stop`,
`Poll`, `sendSignal`, `Remove`, `UpdateConfigRaw` are the driver; `ClientStart`,
`startHost`, `runActionForState` the calls the client makes of it.  vfkit ends by itself, its number goes to another program, a crc process ends anywhere.  A start is
disturbed (`Undisturbed`) when it is cut short, a write of it fails or its vfkit ends:
what earlier operations have left does not count.  A panic
is a state of its own (`SignalDoesNotPanic`, `StartDoesNotPanic`).  Numbers are
given to programs not called vfkit only.

### HypervDriver

The machine in Hyper-V (memory, processors, disk, state) and the configuration in
crc's store, changed one after the other, each by a PowerShell command that may
fail.  Modelled are Create, UpdateConfigRaw, Start, Stop, Kill and Remove of the
driver with the client's calls, the guest (`Boots`, `GetsAddress`, `Halts`,
`HaltsByItself`) and a user who saves and resumes the machine with the tools of
Windows.  Assumed of Windows: Hyper-V does not keep names apart; a Saved machine
can be neither stopped nor turned off by the driver's commands; a disk in use is
neither removed nor written over; a disk is not made smaller.  The user may interrupt a
wait, and need not: a guest that halts during `waitForIP` is waited for without end.  The step
for a MAC address is not modelled, crc never sets one.

### GuestSetup

What client.Start does to a machine that has just booted, up to the kubelet: key,
file system, name servers, shared directories, then Podman's settings or the DNS of
the cluster, on macOS, Windows and Linux with either network.  Each step is an action
that asks the guest or the host what there is to do, does it (`InGuest`, `OnHost`,
`Skip`) and names the step that client.Start goes on to (`Onward`) on this system.  The
name servers of `resolv.conf` are a set.  `MaxStarts` starts follow each other, with disks made larger,
addresses that change where the platform lets them, and other settings.  Assumed:
enabled units start with the guest, and starting a running unit changes nothing;
`resolv.conf` is kept or rewritten at boot; the address is fixed on the user
network and with libvirt.  A start with shared directories enabled meets a driver that
lists one or none (`want.shared`), and mounts what it lists; the token of a start
is its number.  The check of public DNS, NTP and file modes are left out.

### CertRenewal, ClusterStable, Retry

`CertRenewal`: a kubelet whose certificates have expired asks for new ones, the
start approves (`approvePendingCSRs`), the controller manager issues, and the start
waits.  `ClusterStable`: the rounds of `WaitForClusterStable` with their counter,
over operators that change as they like and requests that fail; `progress`,
`degraded` and `unavailable` are read from the conditions as `status.go` does.
`Retry`: `errors.Retry` with a clock, callbacks that take any time up to `MaxCall`,
a context cancelled at any moment, and the text `MultiError` makes of the errors.

### ClusterStart

The rest of a start of OpenShift: kubeconfig with a new client CA, kubelet, leader
lease, pull secret, SSH key, passwords, proxy, cluster ID, routes controller,
monitoring, each as the command asks and changes.  `CutShort` ends a start before
or after a command takes effect; `Uncut` names the steps that are spared, so that a
run can ask about the rest.  Users edit the htpasswd secret and the overrides.  The
htpasswd file is the set of its lines, as the code goes through them in any order; a
pull secret that is not one is `Invalid`, whatever it says.  What a start must leave
alone among the overrides is `SameOthers`: the names that are not of the monitoring
stack, in their order.
Assumed: the instance is stopped only once the machine config controller has its
lease back, which it takes within its retry period.

### BundleCache, SparseCopy, CustomBundle

`BundleCache`: processes that `Get` a bundle or download and `Extract` it through
the shared directory `tmp-extract`, entry by entry, and replace the links to the
executables.  `Use` links `oc` for the bundle of a cluster and `podman`, if its metadata
list them (`Linked`); a first `Use` that fails, be it at a link, makes a start download
and unpack the bundle once more (`UseFails`), over one that may be whole.  `torn` has the
bundles whose removal has not come to its end.  `SparseCopy`: the loop of `CopySparse` over a source given byte
by byte, reads of any length, holes and the final truncation.  `CustomBundle`:
GenerateBundle against the machine config operator, which renders a config when the
pull secret changes and applies it to the disk later; `copyDiskImage` is that of
Linux, the others return "Not implemented".  `NoSecretInBundle` is about instances
whose pull secret has reached the disk (`settled`), as a start waits for.

The three are the parts of `BundleLife`, which extends them all, and `MCBundles` puts
`ClusterStart` next to it; where two of the four would use one name for different
things, each has its own (`at`, `step` and the `pc` of a process say where a start, a
generation and a command are; `CutShort`, `Interrupt` and `Crash` end them).

### Kubeconfig

`writeKubeconfig` and `cleanKubeconfig`: load, change, truncate and write, with the
contexts, clusters and users of crc and of the user; tools of the user write in
turn (`Serial`) or between load and write.  A file that cannot be read or written is an
error that Start and Delete only log (`FileError`, `Logged`); `last` keeps apart what
such a command and one that succeeded leave.  An entry of the user's is known by its name.

### SettingsStore, ConfigFile, Settings

`SettingsStore` promises that a write changes its own setting only.  `ConfigFile`
is `ViperStorage`: `storeLock` of the process, `ensureConfigFileExists`, the read,
the temporary file and the rename, by threads of one or more processes with failing
writes and deaths.  `Settings` takes a single read or write as atomic and models
what requests and commands do with several: registration with defaults that depend
on the preset and the system, validation against other settings, secrets in the keyring,
and what a start reads of them.  GET /config reads the settings in any order, as Go's maps have
none (`MapOrders`).

### Preflight

`Preflight` is the engine: `doPreflightChecks`, `doFixPreflightChecks`,
`doCleanUpPreflightChecks` over a list of checks filtered by labels.  The platform
modules give the list and, for each check, what its check, fix and cleanup look at
and change; a fix is a set of outcomes, built from commands that may fail.  They
instantiate the engine with these (`INSTANCE Preflight WITH getChecks <- ...`).  Clients
of the daemon's sockets, upgrades of crc, logins (with or without the user's systemd) and
a resolver that is turned on or off change the host meanwhile.  To a login without systemd
every unit looks stopped and every systemctl fails.  Not modelled: a single `systemctl
status` that fails where others work, a client between the stops of the two sockets of
`removeDaemonSystemdSockets`, and the dependencies between the units.
`PreflightCommon` has what the platforms share.

## Runs

An `MC` module is an instance for TLC.  Six runs put several components side by side
that share no state: a variable `part` (`setting` for the preflight checks), chosen at
the start, says which component the behaviour is of, and the others stay in one of
their initial states.  The states of such a run are the sum of those of its parts, not
their product.  Five of these compositions are modules of their own with open constants
and named assumptions, so that the theorems are about the same formula the runs check:
`UserFiles`, `Instance`, `ClusterWaits`, `Drivers` and `BundleLife`; `MCUserFiles` and so
on only give the constants (`MCBundles` has a variable `side` as well, for `BundleLife`
and `ClusterStart`, whose theorems are about `LifeSpec` and `StartSpec`).  A component states its properties one by one; where several of them make
up one promise the composition joins them, the type invariants of its parts with them,
and says so in a comment.

| run | parts | shows |
|---|---|---|
| `gate` | five concurrent calls, any methods | one operation at a time; sends find room; CurrentState is accurate; a cancellation reaches the Start it is meant for and no other; the invariant of the proofs |
| `gate_live` | three calls, fair | every call returns; refinement of `ExclusiveOperations` with its fairness |
| `machine_daemon` | three requests at a time, without end, OpenShift | what Stop, Start and Delete reported stays true until the next operation; ports, key, mark and entries stay consistent |
| `machine_command_line` | one command after the other, each may be killed, Podman | the same after kills, and GenerateBundle |
| `user_files` | `ConfigFile` in one process and in two, `Kubeconfig` | a write of one process changes its own setting only, and a file that is there stays whole between two, whatever fails or dies; calls return; the user's contexts stay, crc's come and go with the instance |
| `instance` | `FileStore`, `GuestSetup` on six systems, `Settings` twice | a stored machine can be loaded unless an operation ended at one of two places; a start that succeeds has grown the disk, mounted what the driver shares and made the names resolve, with named exceptions; a command starts within the bounds of its preset; a request answered with success is stored |
| `bundles` | `SparseCopy`, `BundleCache`, `ClusterStart`, `CustomBundle` | the copy is the original; an accepted bundle is whole unless its removal was cut short; a start that returns nil has established what it should after others that were cut short; a generated bundle is whole and without the pull secret |
| `cluster_waits` | `ClusterStable`, `CertRenewal` | nil only after enough good rounds in a row; only requests of the right kind are approved; certificates are renewed; the waits end |
| `drivers` | `Retry`, `VfkitDriver`, `HypervDriver` | deadlines and cancellations; what GetState says is so; a Stop that returns nil has stopped the machine; a machine that is on is complete; an undisturbed start succeeds whatever others left; the waits end |
| `preflight` | Linux four times, macOS, Windows | no daemon of an earlier release survives a setup; no fix undoes an earlier check; the cleanup stops and removes what it should, in an order that suits |
| `empty_start` | two requests | **violated**: a Start may return neither a result nor an error |
| `undeletable` | commands that may be killed | **violated**: an existing machine that Delete cannot load |

### Bounds

- `gate`: five calls make a Start, its canceller, a second Start admitted after that,
  its canceller and one more in between, the longest chain in which a left-over
  cancel function or message could do harm; the theorems cover any number.
- `machine_*`: three slots make one gated operation, one that waits for it or cancels
  it, and one PowerOff or Status that passes by; a slot is used again and again, so
  the length of a history is not bounded.  Two ports are enough for a partial
  failure.  The daemon is not killed: with its death the forwards are gone and
  `RunningIsForwarded` is not what the code promises.
- `user_files`: two settings, so that one may be lost by a write of the other; two
  threads; two failures, one inside a write and one that meets what it left.  Three
  instances of the kubeconfig, with contexts of the user's that share a cluster or a
  user name with crc's.
- `instance`: three configurations and three kills for the store, so that the
  left-overs of one kill meet the next.  Three starts with one failure between them:
  one that prepares, one that fails, one that should make up for it.  OpenShift is
  instantiated on the own networks of three systems and on the user network of two
  (Windows' steps are Linux' there), Podman on the user network of macOS: an address
  that changes is left to OpenShift, whose steps for the hosts file are the same, and
  to the theorem, which is about every set of systems.  The settings are those whose validation or default depends on another;
  port numbers are not in an instance.
- `bundles`: sources of up to seven bytes with chunks of two and reads of up to three
  have every position of a read against a chunk; the theorem covers the rest.  Three
  bundles, one per kind of source, with and without a cluster and each executable, and
  four entries, of which verify() looks for two.
  Two CAs, for two starts in a row.
- `cluster_waits`: seven rounds and three in a row, so that a run can begin again twice.
- `drivers`: two process numbers, so that one may go to another program; two values of
  each size, so that one may be changed; two machines of the name in Hyper-V, so that a
  start comes after a Create that failed half way.
- `preflight`: the hosts are those a fresh system, an earlier release, and each single
  missing condition give; one command fails, and none where logins that systemd does
  not answer, or changes of the resolver, come between the commands.

Symmetry is used for the safety runs of `MCSynchronized` and `MCMachine` only.

### Fairness

- `gate_live`: weak fairness of each goroutine's next step: the Go scheduler runs every
  goroutine, a mutex goes to a waiter eventually, the timer of `cancelUnlocked` fires,
  and an operation of the underlying client ends.  The last is an assumption about the
  drivers: `waitStopped` of hyperv has no limit.  With finitely many calls nobody can
  be overtaken for ever, so weak fairness is enough.
- `CallsReturn`: weak fairness of each thread's steps, strong fairness of taking
  `storeLock`: Go's mutex hands itself to a waiter that starves.
- `WaitsEnd` for Retry, `WaitsReturn` for the operators: weak fairness of the caller's
  steps; callbacks and requests end (`MaxCall`, the time-outs of the client).
- `WaitsReturn` for the certificates: the steps of crc, and that the kubelet asks, the controller manager
  issues and the kubelet fetches eventually.  The waits have limits in the code; the
  model leaves the time out, and ends them by the answer or the failure.
- `WaitsEnd` for Hyper-V: the steps of the driver, and that a guest boots, gets its address and
  halts when told to.  `waitForIP` has no limit, so nothing is claimed of it once the guest
  it waits for does not run.

Deadlock is checked in every run but `bundles`, where a finished copy and a generation
at its bounds stop.  In `Synchronized` a final step stands for the state in which all
calls have returned; elsewhere a process can always make another call.

### The two disagreements

`empty_start`: when the machine has stopped between the wait in `startHost` and the
second look at its state, `start.go:346` wraps a nil error, which is nil.
`crc start` says "either Error or ClusterConfig is needed", and the API handler
reads a field of the nil result.

`undeletable`: `saveToFile` removes `config.json` before it renames the new one.  A
`crc start` killed in between leaves the mark `.crc-exist` alone; Start and Delete
both fail to load the machine, while the documentation says that `crc delete`
deletes an existing instance.

### What does not hold

Some things one would like to say, or that a comment, a message or a test says, are
not so.  The properties are in the modules beside those that hold, and TLC violates
each with the instance given; no run of `PROJECT.json` contains them.

| property | instance | what happens |
|---|---|---|
| `SetupMeansStartable` (`Preflight`) | Linux, a user not yet in the libvirt group | fixes are not checked again (`preflight.go:116`): the new group is not active in this login, and `crc start` fails after a setup that reported success (`setup.go:89`) |
| `CheckOnlyChangesNothing` (`Preflight`) | Linux, any host | building the list of checks sets the mode of the cache directory (`preflight_checks_common.go:79`), with `--check-only` too |
| `CleanupUndoesSetup` (`PreflightLinux`) | both network modes | socket units are stopped and removed, never disabled (`preflight_checks_linux.go:410`); the files for a resolver that is no longer in use stay (`preflight_linux.go:340`) |
| `CleanupRemovesDNS` (`PreflightWindows`) | a host used in system mode | the filter of user networking drops the check whose cleanup removes the name server (`preflight_windows.go:191`) |
| `MachineStoppedFirst` on Windows | a running machine | the generic checks come last in the list, so their cleanups come first (`preflight_windows.go:200`) |
| `ChangesOneSetting` (`ConfigFile`) | a thread in each of two processes | `storeLock` is one process's: a write takes another one back (`viper_config.go:70`) |
| `StaysWhole` (`ConfigFile`) | the same, no file at first | the later `os.WriteFile("{}")` empties what the earlier process has stored (`viper_config.go:120`) |
| `StartsWithinBounds` (`Settings`) | keys preset and memory | the handler of the daemon does not validate again after a change of the preset (`handlers.go:108`) |
| `SharedDirsHaveNetwork` (`Settings`) | keys of shared directories, Windows | host-network-access can be unset while shared directories need it (`settings.go:61`) |
| `StartsWithPassword` (`Settings`) | the same | the daemon's start passes no password (`handlers.go:132`) |
| `FailedSaveKeeps` (`FileStore`) | one process | `os.Remove` before `os.Rename`: when the rename fails both configurations are gone (`filestore.go:42`) |
| `NeverPartial` (`FileStore`) | two processes | a process that found no file writes in place while the other has marked the machine (`filestore.go:24`) |
| `DeleteIsComplete`, `StopSticks` (`Machine`) | `ProcessOf <- InBoth`, one slot each | a gate per process (`root.go:158`): a Start and a Delete at once |
| `StartedIsForwarded` (`Machine`) | `Crashing = {daemon}` | Start of a running machine returns before exposePorts (`start.go:297`), a restarted daemon has no forwards |
| `NoWaitInVain` (`CertRenewal`) | `MaxFaults = 1` | a start that comes after an approval waits for a request that is not made again (`cert_renewal.go:39`) |
| `KubeconfigAccepted` (`ClusterStart`) | `Uncut` without "patchCA" | an old kubeconfig is kept, its CA is not (`start.go:722`) |
| `SmoothStartSucceeds` (`ClusterStart`) | `Uncut` without "copyKubeconfig" | the copy is made only in the start that patches (`cluster.go:194`) |
| `LeavesOthersAlone` (`ClusterStart`) | overrides with `monitoring` before `cluster-monitoring-operator`, against `StartAssumption` | the second index is corrected as if the first removal came before it (`monitoring.go:30`) |
| the same | `EditAnytime = TRUE` | the htpasswd secret is replaced by what was read before (`kubeadmin_password.go:64`) |
| `StartedMeansServing` (`ClusterStart`) | `MaxCuts = 1` | with the VM running, Start reports a kubelet it has not looked at (`start.go:314`) |
| `GetAlwaysMeansWhole` (`BundleCache`) | `MaxFaults = 2` | a start whose link failed unpacks again over a whole bundle, and ends while RemoveAll takes it away file by file (`start.go:53`, `repository.go:140`) |
| `OcIsBundles` (`BundleCache`) | a bundle of a cluster without `oc` in its metadata | the link of the bundle started before stays (`repository.go:100`) |
| `GetMeansWhole`, `SmoothSucceeds` (`BundleCache`) | two processes | one `tmp-extract` for all (`repository.go:128`); links removed and made in two steps (`repository.go:110`) |
| `OthersKept` (`Kubeconfig`) | `Serial = FALSE` | no lock file between load and write (`kubeconfig.go:67`) |
| `DeleteCleans` (`Kubeconfig`) | a file that cannot be read | Delete returns nil (`delete.go:39`), and the contexts of the instance that is gone stay |
| `CredentialsKept` (`Kubeconfig`) | a context of the user's on a user named kubeadmin | the entry is replaced (`kubeconfig.go:156`) |
| `OnlyFirstEntry` (`Kubeconfig`) | two paths | the last entry of `KUBECONFIG` is used (`kubeconfig.go:174`), the comment at line 167 says the first |
| `GeneratedAlwaysWhole` (`CustomBundle`) | `MaxFailures = 1` | errors of the closes that write the last blocks are dropped (`compress.go:29`) |
| `RetryGenerates` (`CustomBundle`) | `MaxFailures = 1` | with nothing to remove `oc delete` is run without a name (`cluster.go:262`) |
| `OneVfkit` (`VfkitDriver`) | two processes, or `MaxFaults = 1` | a running vfkit does not stop Driver.Start (`driver_darwin.go:466`); the number is written a second late (`:282`) |
| `SmoothStartSucceeds` (`VfkitDriver`) | `MaxFaults = 1` | an empty pid file makes GetState fail before anything removes it (`:410`) |
| `SignalDoesNotPanic`, `StartDoesNotPanic` (`VfkitDriver`) | one process | a process that has ended is nil (`:488`, `:161`) |
| `HardwareAsAsked` (`HypervDriver`) | `MaxFaults = 1` | memory and processors are changed one by one and stored after both (`start.go:83`) |
| `SizeAsAsked` (`HypervDriver`) | any | Create does not resize the disk of the bundle (`hyperv_windows.go:148`) |
| `DeletedMeansGone` (`HypervDriver`) | `MaxFaults = 1` | every error of Get-VM is taken for "no machine" (`:318`); in `Machine`, `leftover` |
| `WaitForIPEnds` (`HypervDriver`) | a guest that halts by itself | `waitForIP` asks a machine that is off for its address for ever (`:253`) |
| `OneMachine` (`HypervDriver`) | `MaxMachines = 2`, `MaxFaults = 1` | PreCreateCheck does not look for a machine of the name (`:112`) |
| `FileSystemGrown` (`GuestSetup`) | macOS, `MaxFaults = 1` | growpart done once, xfs_growfs never (`start.go:134`) |
| `SharedIsMounted` (`GuestSetup`) | a driver that lists no directory | configureSharedDirs returns nil (`start.go:158`, `:163`) |
| `NameserverUsed` (`GuestSetup`) | user network | `resolv.conf` is overridden with the gateway (`dns.go:44`) |
| `ConfiguredMeansUsed` (`GuestSetup`) | name servers of which one is a prefix of the other | `strings.Contains` over the whole file (`nameservers.go:20`) |
| `AnswersCurrent` (`GuestSetup`) | macOS, system network | dnsmasq is started, not restarted, with a new address (`dns.go:61`) |
| `ResolverActive` (`GuestSetup`) | macOS, `MaxFaults = 1` | a restart of the network that failed is not made up for (`dns_darwin.go:53`) |

## Proofs

Proved for every value of the constants, from the named assumptions of the modules:

| module | theorems | condition |
|---|---|---|
| `SynchronizedProofs` | `GateInvariant`; mutual exclusion; CurrentState is accurate; a send never blocks; only a Start in progress is cancelled; the gate implements the safety part of `ExclusiveOperations` | |
| `MachineProofs` | the inductive invariant; `StopSticks`, `DeleteIsComplete`, `StartLeavesMachine`, `NeverLockedOut`, `MarkedWhenComplete`, `NeverCreatedOver`, `EntriesOutliveMachine`, `RunningIsForwarded`; joined, `TrueAfterKills` and `StepsAfterKills` | all calls are made by one process (`OneDriver`), any number at once, kills included; for `RunningIsForwarded` also that the daemon is not killed |
| `UserFilesProofs` | `SeenIsCurrent`; the storage implements `SettingsStore`; `FilesConsistent` | one process at crc.json, any number of threads |
| | `BothKeepItWhole`: a crc.json that is there stays whole | any number of processes |
| | the invariant of the kubeconfig, `OthersKept` | tools of the user write in turn with crc |
| `InstanceProofs` | `SavedIsStored`, `NeverPartial`, `LoadableUnlessTorn`; `StoredAsReported` | one process at the store of the machine |
| | the invariant of the guest's set-up, `StartEstablishes` | |
| | `CommandStartsWithinBounds`, `SuccessMeansStored`, from the theorems of `SettingsProofs` | |
| `SettingsProofs` | types, `ReportsCurrentDefaults`, `CommandStartsWithinBounds`, `SuccessMeansStored` of `Settings` | its `Assumptions` on the constants |
| `DriversProofs` | `GivesUpLate`, `OverrunBounded`, `CancelStopsRetrying` of `Retry` | |
| | the invariant of vfkit; `DriversTruthful`, `SmoothStartRecovers` | one crc process (`OneProc`) |
| | the invariant of Hyper-V; `HardwareUnlessTorn` | |
| `ClusterProofs` | `NilMeansConsecutive`; the invariant of the renewal; `CertificatesRenewed`, `AnswersHeeded` | |
| | the invariant of a start of the cluster | |
| | the exchange of the client CA; `SuccessEstablishes`, `SmoothStartSucceeds` | no start is cut short within that exchange (`ExchangeWhole`) |
| | `LeavesOthersAlone` | nobody edits the htpasswd secret between its get and its patch (`~EditAnytime`) |
| `BundleLifeProofs` | the invariant of the copy, `CopyFaithful` | |
| | the invariant of the cache, `GetMeansWhole`, `ChangesItsOwn` | one process at the cache (`OneProcess`) |
| | `BundlesMade` | the same, and that all bundles are of a supported version |
| | the invariant of GenerateBundle, `NoSecretInBundle`, `NewestKept` | |

The conditions are the ones without which TLC shows the properties to be false (see
"What does not hold").  In a composition the theorems have three layers: what holds of
a component by itself; a lemma that a behaviour of the composition, as far as the
variables of one part go, is a behaviour of that component or never leaves its initial
states (`InstanceParts` and its likes); and the joined property, by temporal logic from
the two.  `Instance` instantiates `SettingsProofs` rather than `Settings`, so that its
theorems are at hand for both instances; `Assumptions` of `Settings` is a definition,
which `Instance` assumes of each.

*Gate.*  None of the properties is inductive by itself.  Mutual exclusion, for one,
rests on `currentState` not being Idle while an operation runs, which rests on the
message in the channel being that of an operation that has ended.  `GateInvariant`
says so with one idea: away from Idle there is exactly one token, either an operation
in progress or its message in the channel, and it agrees with `currentState`.  To that
come who may hold the lock across steps (a call that cancels a Start) and whose cancel
function is in place (that of the Start in progress).  The proof has one lemma per
action that can disturb it.  For the refinement, `StepEffect` says which of the
abstract variables each action changes, and `StepPromise` matches each with an abstract
step or a stutter.

*Machine.*  The invariant is the types, that the gate is held by a slot at a gated step
and by no other (`GateInv`), what files, ports and hypervisor say of each other
(`HostInv`), what the last report established (`SettledInv`), and for every slot where
it can be (`Control`) and what it has established by the step it is at (`Established`).
A slot that holds the gate keeps what it has established because no other slot can
change it (`HolderKeeps`); the calls that pass the gate by change only what nobody
relies on (`HarmlessKeeps`).  Nothing is settled while a gate is held, which is why a
report stays true until the next operation.

*Store and configuration.*  `AtStep` says for each place of a Save or Delete what the
three files can be; a kill leaves one of these combinations, and the two that cannot be
loaded are those `LoadableUnlessTorn` names.  In `ConfigFile` the thread with the lock
is alone with the file, so what it has read is current (`SeenIsCurrent`), and its write
changes one setting.  Between processes there is no lock; that the file stays whole
needs only that each temporary file is complete when it is renamed (`BothInv`).

*Kubeconfig.*  `KubeInv` says that every file is sound (its current context is one it
has, a token of an instance is used by a context) and follows the command at work: what
it has read is still what the file says, because the user's tools take turns with crc;
what it is about to write has the tokens of the instance that exists, or after a delete
no context of crc's; until the file is emptied it keeps what is usable for the user.  A
command that ends while it writes leaves the empty file, from which the next one starts.

*Guest.*  `SetupInv` says for every step what the steps before it have done in this
start, and for the places where an earlier start may have failed what it has left: the
exceptions in `GrownUnlessTorn`, `SharedAndSealed` and `ResolverUnlessTorn` are the steps
whose failure the next start need not make up for.  The order of the steps differs between systems;
the invariant follows the same `next` that the actions go on to.

*Settings.*  Two invariants, because the two questions need different knowledge.
`ReadsInv`: a request that has been alone since it registered the settings knows the
defaults to be those of the preset, what it has validated to be within the bounds, and
what it has read to be what is stored; any write makes the others not alone.
`WritesInv`: of the settings that a request asks for, the first are stored and the rest
are still to be done (`StoredFirst`), unless it has failed or was not alone.

*Drivers.*  `VfkitInv`: every vfkit whose number was written is the one `vfkit.pid`
names, and where a call is says which processes and disk there can be.  A number that
has gone to another program is one of a process that is not vfkit.  `HypervInv` has one
formula per stretch of Create, Update and Start: what the machine in Hyper-V already
has, and which of the three configurations (asked, loaded, stored) agree; `torn` is
exactly the case in which Hyper-V and the store were left different.

*Bundles.*  `CopyInv`: the destination is the prefix read so far with the hole still
open, and nothing is written behind it.  `CacheInv` says what the command of a process
relies on at its place (`CacheKnows`): what `tmp-extract` has is the first entries of a
complete archive, all of them before it is renamed; what stood in the way is gone when it
is, unless its removal has failed.  The directory comes
first in an archive, so that a cache which has lost some files is recognised
(`CacheSound`).

*Custom bundles.*  `CustomInv` follows the secret out of the cluster in the order in
which the operator takes it away (`SecretLeaves`): first the secret, then the rendered
config, then the disk, each only after the one before; a disk without it is what the
command waits for, and that there were two configs then is why the list to delete is not
empty.  `NewestThere` is what keeps the newest config from being deleted while the
operator renders another.  `Answers` ties the API to the running instance, so that a
stopped one cannot get its secret back while it is copied (`CopiedSoFar`).

*Start of the cluster.*  `StartInv` says for every place of a start what those before
it have seen to (`SeenTo`), unless a user has edited the cluster since, and that what a
start has read and still holds is what the cluster has (`GotKnown`); to that come facts
no start establishes by itself: one line per user in the htpasswd secret, the two
overrides of the monitoring stack as a pair, and the lease back before an instance can
be stopped (`Running`).  `Exchanged` follows the client CA: cluster, kubeconfig of the
host and kubeconfig of the VM agree but within the exchange, which is why it needs
`ExchangeWhole`.  There is one lemma per action (`StartKubeletKeeps` and so on), each
with the fields it changes, what it does to the invariant, and what it leaves to others.

*Retry and waits.*  `Retry`: the clock against the start time and the wake-up
(`Times`, `Lates`), the attempts against the errors collected (`Counts`).
`ClusterStable`: the counter is the number of good rounds at the end of those made
(`Counted`).  `CertRenewal` (`RenewalInv`): a certificate the start still has to wait for
has a request under way or one that can be made, and one it has waited for is valid.

Only model-checked: liveness and the fairness in `KeepsPromise`, which the prover does
not handle; the text of the errors of `Retry` (`TextAccountsForErrors`, in `WaitsEnd`),
a recursive definition; and the
preflight checks, where the properties depend on particular lists of checks and hosts
and a small instance has them all.

## Not modelled

- The libvirt driver (not in this repository) and the daemon's virtual network (the
  library gvisor-tap-vsock): used through requests that succeed or fail.
- Ports one request at a time: `exposePorts` and `unexposePorts` have every partial
  outcome already.
- The migration of configurations of old releases, and the reading of files of formats
  that are not written any more.
- The ssh transport, the wrappers that run a command (`systemctl`, `launchctl`,
  PowerShell, `oc`): the commands are in the models of their callers.
- Functions of a value to a value with no state: parsing of versions, presets, sizes,
  URLs and port numbers, the text of messages and tables, `crc status` and `crc version`
  output.
- Telemetry, logging and the progress bar: output only; nothing in the system depends
  on it.
- The embedder (`cmd/crc-embedder`): a build tool, sequential and alone.

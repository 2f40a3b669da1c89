------------------------------ MODULE Settings ------------------------------
(***************************************************************************)
(* The settings of crc (Config in pkg/crc/config/config.go with the        *)
(* settings of settings.go): registration with defaults that depend on the *)
(* preset, validation, and the requests that read and change them: the     *)
(* daemon's API handlers for /config and /start (pkg/crc/api/handlers.go), *)
(* "crc config" and the beginning of "crc start" (cmd/crc/cmd).            *)
(*                                                                         *)
(* A request reads and writes settings one at a time, so requests of the   *)
(* daemon and commands interleave between them.  A single read or write is *)
(* atomic here; ConfigFile is about what is inside it.                     *)
(***************************************************************************)
EXTENDS Naturals, Sequences, FiniteSets

CONSTANTS
  Workers,       \* handlers of the daemon, and commands of the command line
  Daemon,        \* the workers that are handlers, all of one process
  Keys,          \* the settings considered, "preset" with "cpus" and "memory"
  Sizes,         \* what "cpus" and "memory" may be asked to be
  TotalMemory,   \* of the host
  GOOS,          \* "linux", "darwin" or "windows"
  IsInstaller,
  accessible,    \* is there a keyring
  NoValue,
  Kinds,         \* the requests considered
  MaxProperties, \* in a request to set or unset
  MaxFaults      \* how many writes may fail in a behaviour

\* There is a preset where there are settings that depend on it.
Assumptions ==
  /\ Daemon \subseteq Workers /\ Cardinality(Keys) \in Nat /\ MaxFaults \in Nat
  /\ Keys \cap {"cpus", "memory"} # {} => "preset" \in Keys

VARIABLES
  stored,    \* crc.json and the keyring: the value of each setting, or NoValue
  defaults,  \* per worker's process, the default of the settings that depend on the preset
  job,       \* per worker, the request it serves
  faults

vars == <<stored, defaults, job, faults>>

OnWindows == GOOS = "windows"

Presets == {"podman", "openshift", "okd"}
Sized == Keys \cap {"cpus", "memory"}
ValuesOf(key) ==
  CASE key = "preset" -> Presets \cup {"unknown"}
    [] key \in {"cpus", "memory"} -> Sizes
    [] key = "network-mode" -> {"user", "system"}
    [] key = "shared-dir-password" -> {"secret"}
    [] key \in {"host-network-access", "enable-shared-dirs"} -> BOOLEAN
    [] key = "ingress-http-port" -> {80, 1024, 65536}
    [] OTHER -> {"valid", "invalid"}

Empty == ""

isSecret(key) == key = "shared-dir-password"

\* In cores and GiB.
GetDefaultCPUs(preset) == IF preset = "podman" THEN 2 ELSE 4
GetDefaultMemory(preset) == IF preset = "podman" THEN 2 ELSE 9
Minimum(key, preset) == IF key = "cpus" THEN GetDefaultCPUs(preset) ELSE GetDefaultMemory(preset)

-----------------------------------------------------------------------------
defaultNetworkMode == IF GOOS # "linux" THEN "user" ELSE "system"

\* The default of a setting as it was registered.
defaultValue(w, key) ==
  CASE key = "preset" -> "openshift"
    [] key \in Sized -> defaults[w][key]
    [] key = "network-mode" -> defaultNetworkMode
    [] key = "enable-shared-dirs" -> ~OnWindows
    [] key = "host-network-access" -> FALSE
    [] key = "ingress-http-port" -> 80
    [] OTHER -> Empty

\* A secret without a keyring has no value.
secretAccessible(key) == isSecret(key) => accessible

Get(w, key) ==
  IF stored[key] = NoValue \/ ~secretAccessible(key) THEN defaultValue(w, key) ELSE stored[key]

GetPreset == IF stored["preset"] = NoValue THEN "openshift" ELSE stored["preset"]

GetNetworkMode(w) ==
  IF IsInstaller THEN "user"
  ELSE IF "network-mode" \in Keys THEN Get(w, "network-mode") ELSE defaultNetworkMode

ValidateCPUs(value, preset) == value >= GetDefaultCPUs(preset)
ValidateMemory(value, preset) == value >= GetDefaultMemory(preset) /\ value <= TotalMemory
ValidatePort(value) == value \in 1024..65535
validatePreset(value) == value \in Presets
validateHostNetworkAccess(w) == GetNetworkMode(w) = "user"
validateSmbSharedDirs(w) ==
  Get(w, "host-network-access") /\ Get(w, "shared-dir-password") # defaultValue(w, "shared-dir-password")

validateSize(key, value) ==
  IF key = "cpus" THEN ValidateCPUs(value, GetPreset) ELSE ValidateMemory(value, GetPreset)

validationFn(w, key, value) ==
  CASE key = "preset" -> validatePreset(value)
    [] key \in Sized -> validateSize(key, value)
    [] key = "host-network-access" -> validateHostNetworkAccess(w)
    [] key = "enable-shared-dirs" -> OnWindows => validateSmbSharedDirs(w)
    [] key = "ingress-http-port" -> ValidatePort(value)
    [] key = "network-mode" \/ isSecret(key) -> TRUE
    [] OTHER -> value = "valid"

-----------------------------------------------------------------------------
\* A property of a request to set settings; one to unset them gives no values.
Property(key, value) == [key |-> key, value |-> value]
SetProperties == UNION {{Property(key, value) : value \in ValuesOf(key)} : key \in Keys}
UnsetProperties == {Property(key, NoValue) : key \in Keys}
Properties == SetProperties \cup UnsetProperties
Reads(keys) == [i \in DOMAIN keys |-> Property(keys[i], NoValue)]
Only(key) == IF key \in Keys THEN <<key>> ELSE <<>>

\* The settings that are registered with a default that depends on the preset, in order.
Registered == Reads(Only("cpus") \o Only("memory"))

\* The order in which validateStartFlags takes them.
Validated == Reads(Only("memory") \o Only("cpus"))

\* The reads a request consists of: AllConfigs, in the order of Go's map, secrets included,
\* or the fields of types.StartConfig.
MapOrders ==
  {keys \in [1..Cardinality(Keys) -> Keys] : \A key \in Keys : \E i \in DOMAIN keys : keys[i] = key}
ConfigReads == {Reads(keys) : keys \in MapOrders}
StartReads(w) ==
  Reads(Only("memory") \o Only("cpus") \o Only("preset") \o Only("enable-shared-dirs")
          \o (IF OnWindows /\ w \notin Daemon THEN Only("shared-dir-password") ELSE <<>>))

Nothing == [key \in Keys |-> NoValue]
Idle == [do |-> "idle", at |-> "end", todo |-> <<>>, asked |-> <<>>, got |-> Nothing,
         failed |-> FALSE, quiet |-> TRUE]

Init ==
  /\ stored = Nothing
  /\ defaults = [w \in Workers |-> [key \in Sized |-> Minimum(key, "openshift")]]
  /\ job = [w \in Workers |-> Idle]
  /\ faults = 0

At(w, label) == job[w].do # "idle" /\ job[w].at = label
Current(w) == Head(job[w].todo)

Goto(w, label, todo) == [job[w] EXCEPT !.todo = todo, !.at = label]

\* The first of what there is to do is done.
OneDone(w, label) == Goto(w, label, Tail(job[w].todo))

\* Other requests under way are no longer alone with the settings.
Disturbed(w, jobs) ==
  [v \in Workers |-> IF v = w \/ jobs[v].do = "idle" THEN jobs[v] ELSE [jobs[v] EXCEPT !.quiet = FALSE]]

\* A request is there, its properties in the order of Go's map.
Request(w, kind, asked) ==
  /\ job[w] = Idle /\ kind \in Kinds
  /\ \A i, k \in DOMAIN asked : i # k => asked[i].key # asked[k].key
  /\ job' = [job EXCEPT ![w] = [Idle EXCEPT !.do = kind, !.asked = asked, !.at = "register",
                                            !.todo = Registered]]
  /\ UNCHANGED <<stored, defaults, faults>>

\* RegisterSettings: at the beginning of a command; UpdateDefaults is the same again, in
\* the handlers of GET /config and of /start.
Registers(w) == w \notin Daemon \/ job[w].do \in {"get", "start"}

\* Handlers share the defaults of their process.
SameProcess(w) == IF w \in Daemon THEN Daemon ELSE {w}

RegisterSettings(w) ==
  /\ At(w, "register") /\ Registers(w) /\ job[w].todo # <<>>
  /\ defaults' = [v \in Workers |->
        IF v \in SameProcess(w)
        THEN [defaults[v] EXCEPT ![Current(w).key] = Minimum(Current(w).key, GetPreset)]
        ELSE defaults[v]]
  /\ job' = [job EXCEPT ![w] = OneDone(w, "register")]
  /\ UNCHANGED <<stored, faults>>

\* What is to be done once the settings are registered.
Plans(w) ==
  CASE job[w].do = "start" /\ w \notin Daemon -> {[at |-> "validate", todo |-> Validated]}
    [] job[w].do = "start" /\ w \in Daemon -> {[at |-> "read", todo |-> StartReads(w)]}
    [] job[w].do = "get" -> [at : {"read"}, todo : ConfigReads]
    [] OTHER -> {[at |-> "check", todo |-> job[w].asked]}

Work(w) ==
  /\ At(w, "register") /\ (Registers(w) => job[w].todo = <<>>)
  /\ \E plan \in Plans(w) : job' = [job EXCEPT ![w] = Goto(w, plan.at, plan.todo)]
  /\ UNCHANGED <<stored, defaults, faults>>

Rejected(w) == job' = [job EXCEPT ![w] = [OneDone(w, "check") EXCEPT !.failed = TRUE]]

\* Config.Set validates before it stores, Config.Unset does not.
Validate(w) ==
  /\ At(w, "check") /\ job[w].todo # <<>>
  /\ IF job[w].do = "set" /\ ~validationFn(w, Current(w).key, Current(w).value)
     THEN Rejected(w)
     ELSE job' = [job EXCEPT ![w] = [@ EXCEPT !.at = "store"]]
  /\ UNCHANGED <<stored, defaults, faults>>

\* Mutation: the error of the storage is not looked at.
StoreUnchecked(w) ==
  /\ At(w, "store")
  /\ \/ stored' = [stored EXCEPT ![Current(w).key] = Current(w).value] /\ UNCHANGED faults
     \/ faults < MaxFaults /\ faults' = faults + 1 /\ UNCHANGED stored
  /\ job' = Disturbed(w, [job EXCEPT ![w] = OneDone(w, "check")])
  /\ UNCHANGED defaults

\* The write of Config.Set and Config.Unset; a secret needs the keyring.
Store(w) ==
  /\ At(w, "store")
  /\ \/ /\ secretAccessible(Current(w).key)
        /\ stored' = [stored EXCEPT ![Current(w).key] = Current(w).value]
        /\ job' = Disturbed(w, [job EXCEPT ![w] = OneDone(w, "check")])
        /\ UNCHANGED faults
     \/ ~secretAccessible(Current(w).key) /\ Rejected(w) /\ UNCHANGED <<stored, faults>>
     \/ faults < MaxFaults /\ faults' = faults + 1 /\ Rejected(w) /\ UNCHANGED stored
  /\ UNCHANGED defaults

\* Mutation: the memory is taken as it is configured.
validateOnlyCPUs(w) ==
  /\ At(w, "validate")
  /\ job' = [job EXCEPT ![w] = Goto(w, "read", StartReads(w))]
  /\ UNCHANGED <<stored, defaults, faults>>

\* "crc start" validates what is configured, and reads it again.
validateStartFlags(w) ==
  /\ At(w, "validate")
  /\ job' = [job EXCEPT ![w] =
        IF job[w].todo = <<>> THEN Goto(w, "read", StartReads(w))
        ELSE IF validateSize(Current(w).key, Get(w, Current(w).key))
             THEN OneDone(w, "validate")
             ELSE [Goto(w, "check", <<>>) EXCEPT !.failed = TRUE]]
  /\ UNCHANGED <<stored, defaults, faults>>

\* getStartConfig, runStart and GetConfig read one setting after the other.
Read(w) ==
  /\ At(w, "read") /\ job[w].todo # <<>>
  /\ LET key == Current(w).key
     IN  job' = [job EXCEPT ![w] = [OneDone(w, "read") EXCEPT !.got = [@ EXCEPT ![key] = Get(w, key)]]]
  /\ UNCHANGED <<stored, defaults, faults>>

\* The reply: an error if there was any, whatever has been stored by then.
Replying(w) == job[w].at \in {"check", "read"} /\ job[w].todo = <<>>

Reply(w) ==
  /\ Replying(w)
  /\ job' = [job EXCEPT ![w] = Idle]
  /\ UNCHANGED <<stored, defaults, faults>>

SetConfig(w) ==
  /\ job[w] = Idle
  /\ \/ \E p \in SetProperties : Request(w, "set", <<p>>)
     \/ /\ w \in Daemon /\ MaxProperties > 1
        /\ \E p, q \in SetProperties : Request(w, "set", <<p, q>>)

UnsetConfig(w) ==
  /\ job[w] = Idle
  /\ \/ \E p \in UnsetProperties : Request(w, "unset", <<p>>)
     \/ /\ w \in Daemon /\ MaxProperties > 1
        /\ \E p, q \in UnsetProperties : Request(w, "unset", <<p, q>>)

GetConfig(w) == Request(w, "get", <<>>)
Start(w) == Request(w, "start", <<>>)

Next ==
  \E w \in Workers :
    \/ SetConfig(w) \/ UnsetConfig(w) \/ GetConfig(w) \/ Start(w)
    \/ RegisterSettings(w) \/ Work(w) \/ Validate(w) \/ Store(w)
    \/ validateStartFlags(w) \/ Read(w) \/ Reply(w)

Spec == Init /\ [][Next]_vars

-----------------------------------------------------------------------------
\* Type invariant.
TypeOK ==
  /\ \A key \in Keys : stored[key] \in ValuesOf(key) \cup {NoValue}
  /\ \A w \in Workers, key \in Sized : defaults[w][key] \in {Minimum(key, p) : p \in Presets}
  /\ \A w \in Workers :
       /\ job[w].do \in Kinds \cup {"idle"}
       /\ job[w].todo \in Seq(Properties) /\ job[w].asked \in Seq(Properties)
  /\ faults \in 0..MaxFaults

\* A start whose reads are done.
Started(w) == job[w].do = "start" /\ Replying(w) /\ ~job[w].failed

Within(got) ==
  \A key \in Sized : got[key] >= Minimum(key, got["preset"]) /\ (key = "memory" => got[key] <= TotalMemory)

(***************************************************************************)
(* "crc start" hands the machine as much memory and as many CPUs as its    *)
(* preset needs, whatever the preset was when they were set, unless the    *)
(* settings change while it reads them: runStart validates them again.     *)
(***************************************************************************)
CommandStartsWithinBounds ==
  \A w \in Workers \ Daemon : Started(w) /\ job[w].quiet => Within(job[w].got)

(***************************************************************************)
(* "Memory size in MiB (must be greater than or equal to '%d')", the       *)
(* preset's default (RegisterSettings in settings.go): so is the memory of *)
(* every start, the daemon's included, that is alone with the settings.    *)
(***************************************************************************)
StartsWithinBounds ==
  \A w \in Workers : Started(w) /\ job[w].quiet => Within(job[w].got)

(***************************************************************************)
(* "%s can only be used with %s set to 'true'" (validateSmbSharedDirs): on *)
(* Windows, shared directories are not enabled without the access of the   *)
(* instance to the host's network that they need.                          *)
(***************************************************************************)
SharedDirsHaveNetwork ==
  OnWindows /\ stored["enable-shared-dirs"] = TRUE => stored["host-network-access"] = TRUE

(***************************************************************************)
(* "Please set '%s' first to enable shared directories", of the password   *)
(* (validateSmbSharedDirs): a start on Windows that is to mount them, with *)
(* a password stored, has the password.                                    *)
(***************************************************************************)
StartsWithPassword ==
  \A w \in Workers :
    (OnWindows /\ Started(w) /\ job[w].quiet /\ job[w].got["enable-shared-dirs"] = TRUE
       /\ accessible /\ stored["shared-dir-password"] # NoValue)
      => job[w].got["shared-dir-password"] = stored["shared-dir-password"]

(***************************************************************************)
(* GET /config alone with the settings reports a CPU count and a memory    *)
(* that go with the preset it reports where none are stored, though another *)
(* process has changed the preset since the daemon registered its defaults: *)
(* what UpdateDefaults is for.                                             *)
(***************************************************************************)
ReportsCurrentDefaults ==
  \A w \in Workers :
    (job[w].do = "get" /\ Replying(w) /\ job[w].quiet)
      => \A key \in Sized :
           stored[key] = NoValue => job[w].got[key] = Minimum(key, job[w].got["preset"])

(***************************************************************************)
(* A request to set or unset settings that reports success has done so for *)
(* each of them, whatever went wrong with some, unless another request has *)
(* stored something meanwhile (the errors SetConfig and UnsetConfig        *)
(* collect).                                                               *)
(***************************************************************************)
SuccessMeansStored ==
  \A w \in Workers :
    (job[w].do \in {"set", "unset"} /\ Replying(w) /\ ~job[w].failed /\ job[w].quiet)
      => \A i \in DOMAIN job[w].asked : stored[job[w].asked[i].key] = job[w].asked[i].value

=============================================================================

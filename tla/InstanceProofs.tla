-------------------------- MODULE InstanceProofs --------------------------
(***************************************************************************)
(* What one command leaves to the next, for all values of the constants.   *)
(* Within one process the store keeps what was saved, wherever a system    *)
(* call fails and however often the process is killed; a start that        *)
(* reports success has left the guest and the host as it was asked to, on  *)
(* every system and after any starts that failed; and what SettingsProofs  *)
(* proves of the settings holds of both instances of Settings.             *)
(***************************************************************************)
EXTENDS Instance, TLAPS

\* There is no other process.
OneProcess == \A p, q \in Processes : p = q

(***************************************************************************)
(* What a process knows at each step of saveToFile, because no other       *)
(* process changes the directory: a file is written in place only while    *)
(* there is no mark, and one that is removed has its successor ready.      *)
(***************************************************************************)
AtStep(p) ==
  /\ pc[p] \in {"open", "write", "mark"} => new[p]
  /\ (pc[p] \in {"stat", "open", "write", "temp", "remove", "rename", "mark"} /\ new[p]) => ~mark
  /\ (pc[p] \in {"stat", "temp", "remove"} /\ ~new[p]) => mark /\ file \in Configs
  /\ (pc[p] = "rename" /\ ~new[p]) => mark
  /\ pc[p] \in {"remove", "rename"} => tmp[p] = val[p]
  /\ pc[p] \in {"remove", "rename"} \/ tmp[p] = Missing
  /\ pc[p] = "rename" => file = Missing
  /\ pc[p] = "write" => writers = {p}
  /\ pc[p] = "mark" => file = val[p]
  /\ res[p] \in {"saved", "deleted"} => pc[p] = "idle"

IInv ==
  /\ TypeOK
  /\ \A p \in Processes : AtStep(p)
  /\ NeverPartial /\ SavedIsStored /\ LoadableUnlessTorn

\* At the beginning nobody is at the store.
LEMMA InitIInv == Init => IInv
<1> SUFFICES ASSUME Init PROVE IInv
  OBVIOUS
<1> USE StoreAssumption DEF Init
<1>1. TypeOK
  BY DEF TypeOK, Contents, Steps
<1>2. \A p \in Processes : AtStep(p)
  BY DEF AtStep
<1>3. NeverPartial /\ SavedIsStored /\ LoadableUnlessTorn
  BY DEF NeverPartial, SavedIsStored, LoadableUnlessTorn
<1> QED
  BY <1>1, <1>2, <1>3 DEF IInv

\* With one process, what holds of p holds of all.
LEMMA Only ==
  ASSUME OneProcess, NEW p \in Processes
  PROVE  Processes = {p}
BY DEF OneProcess

\* A Start begins: nothing is stored yet.
LEMMA StartKeeps ==
  ASSUME OneProcess, IInv, NEW p \in Processes, NEW v \in Configs, Start(p, v)
  PROVE  IInv'
<1> USE Only, StoreAssumption DEF Start, Go, Begin, files, Whole
<1>1. TypeOK'
  BY DEF IInv, TypeOK, Contents, Steps
<1>2. AtStep(p)'
  BY DEF IInv, TypeOK, AtStep, Contents
<1>3. NeverPartial' /\ SavedIsStored'
  BY DEF IInv, TypeOK, AtStep, NeverPartial, SavedIsStored, Contents
<1>4. LoadableUnlessTorn'
  BY DEF IInv, TypeOK, AtStep, NeverPartial, LoadableUnlessTorn, Contents
<1> QED
  BY <1>1, <1>2, <1>3, <1>4 DEF IInv

\* A Load that fails ends the operation.
LEMMA LoadFailsKeeps ==
  ASSUME OneProcess, IInv, NEW p \in Processes, LoadFails(p)
  PROVE  IInv'
<1> USE Only, StoreAssumption DEF LoadFails, Go, Return, files, Whole
<1>1. TypeOK'
  BY DEF IInv, TypeOK, Contents, Steps
<1>2. AtStep(p)'
  BY DEF IInv, TypeOK, AtStep, Contents
<1>3. NeverPartial' /\ SavedIsStored'
  BY DEF IInv, TypeOK, AtStep, NeverPartial, SavedIsStored, Contents
<1>4. LoadableUnlessTorn'
  BY DEF IInv, TypeOK, AtStep, NeverPartial, LoadableUnlessTorn, Contents
<1> QED
  BY <1>1, <1>2, <1>3, <1>4 DEF IInv

\* The look whether there is a file decides between writing it and replacing it.
LEMMA StatKeeps ==
  ASSUME OneProcess, IInv, NEW p \in Processes, Stat(p)
  PROVE  IInv'
<1> USE Only, StoreAssumption DEF Stat, Go, Quiet, files, Whole
<1>1. TypeOK'
  BY DEF IInv, TypeOK, Contents, Steps
<1>2. AtStep(p)'
  BY DEF IInv, TypeOK, AtStep, Contents
<1>3. NeverPartial' /\ SavedIsStored'
  BY DEF IInv, TypeOK, AtStep, NeverPartial, SavedIsStored, Contents
<1>4. LoadableUnlessTorn'
  BY DEF IInv, TypeOK, AtStep, NeverPartial, LoadableUnlessTorn, Contents
<1> QED
  BY <1>1, <1>2, <1>3, <1>4 DEF IInv

\* A first Save makes the file, for a machine that does not exist yet.
LEMMA OpenKeeps ==
  ASSUME OneProcess, IInv, NEW p \in Processes, Open(p)
  PROVE  IInv'
<1> USE Only, StoreAssumption DEF Open, Go, Quiet, files, Whole
<1>1. TypeOK'
  BY DEF IInv, TypeOK, Contents, Steps
<1>2. AtStep(p)'
  BY DEF IInv, TypeOK, AtStep, Contents
<1>3. NeverPartial' /\ SavedIsStored'
  BY DEF IInv, TypeOK, AtStep, NeverPartial, SavedIsStored, Contents
<1>4. LoadableUnlessTorn'
  BY DEF IInv, TypeOK, AtStep, NeverPartial, LoadableUnlessTorn, Contents
<1> QED
  BY <1>1, <1>2, <1>3, <1>4 DEF IInv

\* The first configuration is in the file as a whole.
LEMMA WriteKeeps ==
  ASSUME OneProcess, IInv, NEW p \in Processes, Write(p)
  PROVE  IInv'
<1> USE Only, StoreAssumption DEF Write, Go, Done, Return, files, Whole
<1>1. TypeOK'
  BY DEF IInv, TypeOK, Contents, Steps
<1>2. AtStep(p)'
  BY DEF IInv, TypeOK, AtStep, Contents
<1>3. NeverPartial' /\ SavedIsStored'
  BY DEF IInv, TypeOK, AtStep, NeverPartial, SavedIsStored, Contents
<1>4. LoadableUnlessTorn'
  BY DEF IInv, TypeOK, AtStep, NeverPartial, LoadableUnlessTorn, Contents
<1> QED
  BY <1>1, <1>2, <1>3, <1>4 DEF IInv

\* A later one goes to a file of its own.
LEMMA WriteTempKeeps ==
  ASSUME OneProcess, IInv, NEW p \in Processes, WriteTemp(p)
  PROVE  IInv'
<1> USE Only, StoreAssumption DEF WriteTemp, Go, Quiet, files, Whole
<1>1. TypeOK'
  BY DEF IInv, TypeOK, Contents, Steps
<1>2. AtStep(p)'
  BY DEF IInv, TypeOK, AtStep, Contents
<1>3. NeverPartial' /\ SavedIsStored'
  BY DEF IInv, TypeOK, AtStep, NeverPartial, SavedIsStored, Contents
<1>4. LoadableUnlessTorn'
  BY DEF IInv, TypeOK, AtStep, NeverPartial, LoadableUnlessTorn, Contents
<1> QED
  BY <1>1, <1>2, <1>3, <1>4 DEF IInv

\* Between os.Remove and os.Rename there is no configuration, and the store is torn.
LEMMA RemoveOldKeeps ==
  ASSUME OneProcess, IInv, NEW p \in Processes, RemoveOld(p)
  PROVE  IInv'
<1> USE Only, StoreAssumption DEF RemoveOld, Go, Quiet, files, Whole
<1>1. TypeOK'
  BY DEF IInv, TypeOK, Contents, Steps
<1>2. AtStep(p)'
  BY DEF IInv, TypeOK, AtStep, Contents
<1>3. NeverPartial' /\ SavedIsStored'
  BY DEF IInv, TypeOK, AtStep, NeverPartial, SavedIsStored, Contents,
         Missing, Partial
<1>4. LoadableUnlessTorn'
  BY DEF IInv, TypeOK, AtStep, NeverPartial, LoadableUnlessTorn, Contents
<1> QED
  BY <1>1, <1>2, <1>3, <1>4 DEF IInv

\* After it there is the new one.
LEMMA RenameKeeps ==
  ASSUME OneProcess, IInv, NEW p \in Processes, Rename(p)
  PROVE  IInv'
<1> USE Only, StoreAssumption DEF Rename, Go, DropTemp, Done, Return, files, Whole
<1>1. TypeOK'
  BY DEF IInv, TypeOK, Contents, Steps
<1>2. AtStep(p)'
  BY DEF IInv, TypeOK, AtStep, Contents
<1>3. NeverPartial' /\ SavedIsStored'
  BY DEF IInv, TypeOK, AtStep, NeverPartial, SavedIsStored, Contents
<1>4. LoadableUnlessTorn'
  BY DEF IInv, TypeOK, AtStep, NeverPartial, LoadableUnlessTorn, Contents
<1> QED
  BY <1>1, <1>2, <1>3, <1>4 DEF IInv

\* A machine exists from then on.
LEMMA SetExistsKeeps ==
  ASSUME OneProcess, IInv, NEW p \in Processes, SetExists(p)
  PROVE  IInv'
<1> USE Only, StoreAssumption DEF SetExists, Go, Return, files, Whole
<1>1. TypeOK'
  BY DEF IInv, TypeOK, Contents, Steps
<1>2. AtStep(p)'
  BY DEF IInv, TypeOK, AtStep, Contents
<1>3. NeverPartial' /\ SavedIsStored'
  BY DEF IInv, TypeOK, AtStep, NeverPartial, SavedIsStored, Contents
<1>4. LoadableUnlessTorn'
  BY DEF IInv, TypeOK, AtStep, NeverPartial, LoadableUnlessTorn, Contents
<1> QED
  BY <1>1, <1>2, <1>3, <1>4 DEF IInv

\* A Delete begins.
LEMMA DeleteKeeps ==
  ASSUME OneProcess, IInv, NEW p \in Processes, Delete(p)
  PROVE  IInv'
<1> USE Only, StoreAssumption DEF Delete, Go, Begin, files, Whole
<1>1. TypeOK'
  BY DEF IInv, TypeOK, Contents, Steps
<1>2. AtStep(p)'
  BY DEF IInv, TypeOK, AtStep, Contents
<1>3. NeverPartial' /\ SavedIsStored'
  BY DEF IInv, TypeOK, AtStep, NeverPartial, SavedIsStored, Contents
<1>4. LoadableUnlessTorn'
  BY DEF IInv, TypeOK, AtStep, NeverPartial, LoadableUnlessTorn, Contents
<1> QED
  BY <1>1, <1>2, <1>3, <1>4 DEF IInv

\* What it removes is in no particular order.
LEMMA RemoveEntryKeeps ==
  ASSUME OneProcess, IInv, NEW p \in Processes, RemoveEntry(p)
  PROVE  IInv'
<1> USE Only, StoreAssumption DEF RemoveEntry, Go, files, Whole
<1>1. TypeOK'
  BY DEF IInv, TypeOK, Contents, Steps
<1>2. AtStep(p)'
  BY DEF IInv, TypeOK, AtStep, Contents
<1>3. NeverPartial' /\ SavedIsStored'
  BY SMT, SMTT(60) DEF IInv, TypeOK, AtStep, NeverPartial, SavedIsStored, Contents,
         Missing, Partial
<1>4. LoadableUnlessTorn'
  BY DEF IInv, TypeOK, AtStep, NeverPartial, LoadableUnlessTorn, Contents
<1> QED
  BY <1>1, <1>2, <1>3, <1>4 DEF IInv

\* In the end nothing is left.
LEMMA RemoveKeeps ==
  ASSUME OneProcess, IInv, NEW p \in Processes, Remove(p)
  PROVE  IInv'
<1> USE Only, StoreAssumption DEF Remove, Go, Return, files, Whole
<1>1. TypeOK'
  BY DEF IInv, TypeOK, Contents, Steps
<1>2. AtStep(p)'
  BY SMT, SMTT(60) DEF IInv, TypeOK, AtStep, Contents
<1>3. NeverPartial' /\ SavedIsStored'
  BY SMT, SMTT(60) DEF IInv, TypeOK, AtStep, NeverPartial, SavedIsStored, Contents
<1>4. LoadableUnlessTorn'
  BY DEF IInv, TypeOK, AtStep, NeverPartial, LoadableUnlessTorn, Contents
<1> QED
  BY <1>1, <1>2, <1>3, <1>4 DEF IInv

\* An operation that is broken off where the file may be gone tears the store.
LEMMA TornLoads ==
  ASSUME OneProcess, NEW p \in Processes, LoadableUnlessTorn, UNCHANGED <<mark, file>>, torn' = Torn(p)
  PROVE  LoadableUnlessTorn'
BY DEF OneProcess, LoadableUnlessTorn, Torn, Whole

\* A step that fails leaves what the steps before it have done.
LEMMA FailsKeeps ==
  ASSUME OneProcess, IInv, NEW p \in Processes, Fails(p)
  PROVE  IInv'
<1> USE Only, StoreAssumption DEF Fails, Go, DropTemp, Return, Torn, files, Whole
<1>1. TypeOK'
  BY DEF IInv, TypeOK, Contents, Steps
<1>2. AtStep(p)'
  BY SMT, SMTT(60) DEF IInv, TypeOK, AtStep, Contents
<1>3. NeverPartial' /\ SavedIsStored'
  BY SMT, SMTT(60) DEF IInv, TypeOK, AtStep, NeverPartial, SavedIsStored, Contents
<1>4. LoadableUnlessTorn'
  <2>1. UNCHANGED <<mark, file>> /\ torn' = Torn(p)
    BY Zenon DEF Fails
  <2>2. LoadableUnlessTorn
    BY DEF IInv
  <2> QED BY <2>1, <2>2, TornLoads
<1> QED
  BY <1>1, <1>2, <1>3, <1>4 DEF IInv

\* So does the end of the process.
LEMMA KilledKeeps ==
  ASSUME OneProcess, IInv, NEW p \in Processes, Killed(p)
  PROVE  IInv'
<1> USE Only, StoreAssumption DEF Killed, Go, DropTemp, Torn, files, Whole
<1>1. TypeOK'
  BY DEF IInv, TypeOK, Contents, Steps
<1>2. AtStep(p)'
  BY DEF IInv, TypeOK, AtStep, Contents
<1>3. NeverPartial' /\ SavedIsStored'
  BY DEF IInv, TypeOK, AtStep, NeverPartial, SavedIsStored, Contents
<1>4. LoadableUnlessTorn'
  <2>1. UNCHANGED <<mark, file>> /\ torn' = Torn(p)
    BY Zenon DEF Killed
  <2>2. LoadableUnlessTorn
    BY DEF IInv
  <2> QED BY <2>1, <2>2, TornLoads
<1> QED
  BY <1>1, <1>2, <1>3, <1>4 DEF IInv

\* Every step keeps what holds of the store.
LEMMA NextIInv == OneProcess /\ IInv /\ [Next]_vars => IInv'
<1> SUFFICES ASSUME OneProcess, IInv, [Next]_vars PROVE IInv'
  OBVIOUS
<1>1. CASE UNCHANGED vars
  BY <1>1 DEF vars, files, IInv, TypeOK, AtStep, NeverPartial, SavedIsStored,
              LoadableUnlessTorn, Whole
<1>2. ASSUME NEW p \in Processes, Step(p) PROVE IInv'
  BY <1>2, StartKeeps, LoadFailsKeeps, StatKeeps, OpenKeeps, WriteKeeps, WriteTempKeeps,
     RemoveOldKeeps, RenameKeeps, SetExistsKeeps, DeleteKeeps, RemoveEntryKeeps, RemoveKeeps,
     FailsKeeps, KilledKeeps DEF Step
<1> QED
  BY <1>1, <1>2 DEF Next

\* The inductive invariant of the store, within one process.
LEMMA OneProcessIInv == OneProcess => (Spec => []IInv)
<1> SUFFICES ASSUME OneProcess PROVE Spec => []IInv
  OBVIOUS
<1>1. IInv /\ [Next]_vars => IInv'
  BY NextIInv
<1> QED
  BY <1>1, InitIInv, PTL DEF Spec

(***************************************************************************)
(* "Save persists a machine in the store": within one process, for every   *)
(* set of configurations, what the last successful Start has saved stays   *)
(* stored until another operation begins.                                  *)
(***************************************************************************)
THEOREM OneProcessSavedIsStored == OneProcess => (Spec => []SavedIsStored)
BY OneProcessIInv, PTL DEF IInv

(***************************************************************************)
(* Within one process the configuration of a machine that exists is never  *)
(* half written, kills during the first Save included.                     *)
(***************************************************************************)
THEOREM OneProcessNeverPartial == OneProcess => (Spec => []NeverPartial)
BY OneProcessIInv, PTL DEF IInv

(***************************************************************************)
(* The only ways for a machine that exists not to be loadable are the time *)
(* between os.Remove and os.Rename and the time of a Delete.               *)
(***************************************************************************)
THEOREM OneProcessLoadableUnlessTorn == OneProcess => (Spec => []LoadableUnlessTorn)
BY OneProcessIInv, PTL DEF IInv

-----------------------------------------------------------------------------
(***************************************************************************)
(* The guest.  A start has done what its step is past, or it has ended     *)
(* well and has done everything.                                           *)
(***************************************************************************)
Past(steps) == Setup!Started \/ (step # "none" /\ step \notin steps)

IPs == Setup!PossibleIPs \cup {"none"}

Guests ==
  [keys : {"bundle", "machine", "empty"}, ignition : BOOLEAN, part : Nat, fs : Nat,
   immutable : BOOLEAN, mounted : BOOLEAN, socket : BOOLEAN,
   resolv : SUBSET (Nameservers \cup {"gateway", "dnsmasq", "dhcp"}),
   conf : IPs \cup {"empty"}, serves : IPs \cup {"empty"}, enabled : BOOLEAN,
   env : Proxies \cup {"none", "empty"}, token : 0..MaxStarts]

Outers ==
  [hosts : SUBSET Setup!PossibleIPs, resolver : IPs, active : IPs, interface : IPs, token : 0..MaxStarts]

SetupTypes ==
  /\ sys \in Systems
  /\ want \in [ns : Nameservers \cup {"none"}, shared : {"off", "none", "dirs"}, proxy : Proxies \cup {"none"}]
  /\ disk \in 1..MaxDisk /\ ip \in IPs /\ (step # "none" => ip \in Setup!PossibleIPs)
  /\ guest \in Guests /\ guest.part \in 1..disk /\ guest.fs \in 1..guest.part
  /\ outer \in Outers
  /\ step \in Setup!Steps \cup {"none"} /\ result \in {"none", "ok", "error"}
  /\ broken \subseteq Setup!Steps /\ starts \in 0..MaxStarts

OwnNetwork(os) == sys.openshift /\ sys.os = os /\ ~sys.user

\* Which steps there are on which system.
SetupControl ==
  /\ step \in {"dnsConf", "dnsEnable", "dnsStart", "interface", "resolver", "resolv", "checkGuest", "checkHost"}
       => sys.openshift
  /\ step \in {"proxy", "tokenHost", "tokenGuest"} => ~sys.openshift
  /\ step \in {"remove", "add"} => ~OwnNetwork("windows")
  /\ step = "resolver" => OwnNetwork("darwin")
  /\ step = "interface" => OwnNetwork("windows")
  /\ step \in {"dnsEnable", "dnsStart"} => ~sys.user

\* What each step has done.
Grown ==
  /\ "growfs" \notin broken /\ step # "growfs" => guest.fs = guest.part
  /\ Past({"connect", "keys", "growpart"}) => guest.part = disk

Named ==
  (/\ Past({"connect", "keys", "growpart", "growfs", "nameserver"})
   /\ want.ns # "none" /\ ~(sys.openshift /\ sys.user)
   /\ \A n \in LooksLike[want.ns] : n \in guest.resolv => n = want.ns)
     => want.ns \in guest.resolv

Unmounted == {"connect", "keys", "growpart", "growfs", "nameserver", "mutable", "immutable"}

Mounted ==
  /\ sys.os # "darwin" \/ ("immutable" \notin broken /\ step # "immutable") => guest.immutable
  /\ step \in {"immutable", "mount"} \/ guest.mounted => want.shared = "dirs"
  /\ Past(Unmounted) /\ want.shared = "dirs" => guest.immutable
  /\ Past(Unmounted \cup {"mount"}) /\ want.shared = "dirs" => guest.mounted

InHosts ==
  /\ step = "add" => outer.hosts = {}
  /\ (step \in {"resolver", "resolv", "checkGuest", "checkHost", "tokenHost", "tokenGuest"} \/ Setup!Started)
       /\ ~OwnNetwork("windows") => outer.hosts = {ip}

Resolves ==
  /\ "resolver" \notin broken => outer.active = outer.resolver
  /\ (step \in {"resolv", "checkGuest", "checkHost"} \/ Setup!Started) /\ OwnNetwork("darwin")
       => outer.resolver = ip
  /\ Setup!Started /\ OwnNetwork("windows") => guest.serves = ip /\ outer.interface = ip

Unanswered == Unmounted \cup {"mount", "socket", "dnsConf"}

Answering ==
  /\ guest.serves # "none" => guest.enabled
  /\ Past(Unanswered) /\ sys.openshift /\ ~sys.user => guest.conf = ip
  /\ Past(Unanswered \cup {"dnsEnable"}) /\ sys.openshift /\ ~sys.user => guest.enabled

Settled ==
  /\ (step \in {"remove", "add", "tokenHost", "tokenGuest"} \/ Setup!Started)
       /\ ~sys.openshift /\ want.proxy # "none" => guest.env = want.proxy
  /\ Setup!Started /\ ~sys.openshift => guest.token = outer.token

SetupInv ==
  SetupTypes /\ SetupControl /\ Grown /\ Named /\ Mounted /\ InHosts /\ Resolves /\ Answering /\ Settled

\* What a step leaves as it is.
DiskSame == guest'.part = guest.part /\ guest'.fs = guest.fs
NamesSame == guest'.resolv = guest.resolv
MountSame == guest'.immutable = guest.immutable /\ guest'.mounted = guest.mounted
DnsSame == guest'.conf = guest.conf /\ guest'.enabled = guest.enabled /\ guest'.serves = guest.serves
PodmanSame == guest'.env = guest.env /\ guest'.token = guest.token
ResolverSame ==
  outer'.resolver = outer.resolver /\ outer'.active = outer.active /\ outer'.interface = outer.interface

\* The types of the guest and of the host after a step that changes only them.
LEMMA TypesKept ==
  ASSUME SetupTypes, UNCHANGED <<sys, want, disk, ip, starts>>,
         guest' \in Guests, guest'.part \in 1..disk, guest'.fs \in 1..guest'.part, outer' \in Outers,
         step' \in Setup!Steps \cup {"none"}, step' # "none" => step # "none",
         result' \in {"none", "ok", "error"}, broken' \subseteq Setup!Steps
  PROVE  SetupTypes'
<1>1. Guests' = Guests /\ Outers' = Outers /\ IPs' = IPs /\ Setup!PossibleIPs' = Setup!PossibleIPs
  BY DEF Guests, Outers, IPs, Setup!PossibleIPs
<1> QED BY <1>1 DEF SetupTypes, Setup!Steps

\* Only a start that goes on or ends well has anything to show for it.
LEMMA NotPast ==
  ASSUME SetupInv, UNCHANGED <<sys, want, disk, ip, starts>>, step' = "none", result' = "error",
         guest' \in Guests, DiskSame, MountSame, guest'.serves = guest.serves, guest'.enabled = guest.enabled,
         broken \subseteq broken', "growfs" \in broken' \/ step # "growfs",
         "immutable" \in broken' \/ step # "immutable",
         broken' \subseteq Setup!Steps, outer' \in Outers,
         outer'.active = outer.active, "resolver" \in broken' \/ outer'.resolver = outer.resolver
  PROVE  SetupInv'
<1>1. SetupTypes'
  BY TypesKept DEF SetupInv, SetupTypes, DiskSame, Setup!Steps
<1>2. ~Setup!Started' /\ \A steps : ~Past(steps)'
  BY DEF Setup!Started, Past, Setup!None
<1>3. SetupControl'
  BY DEF SetupControl
<1>4. Grown' /\ Named' /\ Mounted'
  BY <1>2 DEF SetupInv, Grown, Named, Mounted, DiskSame, MountSame
<1>5. InHosts' /\ Resolves' /\ Answering' /\ Settled'
  BY <1>2 DEF SetupInv, InHosts, Resolves, Answering, Settled
<1> QED BY <1>1, <1>3, <1>4, <1>5 DEF SetupInv

\* Where a step has nothing to do.
NothingToDo(next) ==
  \/ step = "connect" /\ next = "keys"
  \/ step = "keys" /\ next = "growpart"
  \/ step = "growpart" /\ next = "nameserver" /\ guest.part = disk
  \/ /\ step = "nameserver" /\ next = "mutable"
     /\ want.ns = "none" \/ Setup!HasGivenNameserversConfigured(want.ns)
  \/ step = "mutable" /\ next = "socket" /\ want.shared # "dirs"
  \/ step = "mutable" /\ next = "immutable" /\ sys.os # "darwin" /\ want.shared = "dirs"
  \/ step = "immutable" /\ next = "mount" /\ sys.os # "darwin"
  \/ step = "proxy" /\ next = "remove" /\ want.proxy = "none"
  \/ step = "dnsConf" /\ next = Setup!AfterDnsmasq /\ sys.user
  \/ step = "dnsStart" /\ next = Setup!AfterDnsmasq
  \/ step = "dnsEnable" /\ next = "dnsStart" /\ guest.serves # "none"
  \/ step = "resolver" /\ next = "resolv" /\ outer.resolver = ip
  \/ step = "checkGuest" /\ next = "checkHost"
  \/ step = "checkHost" /\ next = "done" /\ (OwnNetwork("windows") => guest.serves = ip /\ outer.interface = ip)

\* A step that has nothing to do goes on.
LEMMA SkipKeeps ==
  ASSUME SetupInv, NEW next, NothingToDo(next), Setup!Skip(next)
  PROVE  SetupInv'
<1>1. /\ (next = "done" /\ step' = "none" /\ result' = "ok") \/ (next # "done" /\ step' = next /\ UNCHANGED result)
      /\ UNCHANGED <<sys, want, disk, ip, broken, starts>> /\ UNCHANGED <<guest, outer>>
      /\ step # "none"
  BY DEF Setup!Onward, Setup!Done, Setup!None, Setup!Skip, NothingToDo
<1>2. /\ guest' \in Guests /\ DiskSame /\ NamesSame /\ MountSame /\ PodmanSame
      /\ DnsSame /\ outer' \in Outers /\ ResolverSame
      /\ outer'.hosts = outer.hosts /\ outer'.token = outer.token
  BY <1>1, SMT, SMTT(60) DEF SetupInv, SetupTypes, Guests, Outers, DiskSame, NamesSame, MountSame, DnsSame, PodmanSame,
              ResolverSame, IPs
<1>a. SetupControl' /\ Grown'
  BY <1>1, <1>2 DEF SetupInv, SetupTypes, SetupControl, OwnNetwork, Grown, Past,
                    Setup!Started, Setup!None, DiskSame, NothingToDo, Setup!AfterDnsmasq
<1>b. Named'
  BY <1>1, <1>2 DEF SetupInv, SetupControl, Named, Past, Setup!Started, Setup!None, NamesSame, NothingToDo,
                    Setup!AfterDnsmasq, Setup!HasGivenNameserversConfigured
<1>c. Mounted'
  BY <1>1, <1>2 DEF SetupInv, SetupControl, Mounted, Unmounted, Past, Setup!Started, Setup!None, MountSame,
                    NothingToDo, Setup!AfterDnsmasq
<1>6. Answering'
  BY <1>1, <1>2 DEF SetupInv, SetupControl, Answering, Unanswered, Unmounted, Past, Setup!Started, Setup!None,
                    DnsSame, NothingToDo, Setup!AfterDnsmasq
<1>4. InHosts' /\ Resolves' /\ Settled'
  BY <1>1, <1>2 DEF SetupInv, SetupControl, OwnNetwork, InHosts, Resolves, Settled,
                    Setup!Started, Setup!None, PodmanSame, ResolverSame, DnsSame,
                    NothingToDo, Setup!AfterDnsmasq
<1>5. SetupTypes'
  BY <1>1, <1>2, TypesKept DEF SetupInv, SetupTypes, DiskSame, Setup!Steps, NothingToDo, Setup!AfterDnsmasq
<1> QED BY <1>a, <1>b, <1>c, <1>4, <1>5, <1>6 DEF SetupInv

\* The key of the machine.
LEMMA KeysKeep ==
  ASSUME SetupInv, step = "keys", NEW i \in BOOLEAN,
         Setup!InGuest([guest EXCEPT !.keys = "machine", !.ignition = i], "growpart")
  PROVE  SetupInv'
<1>1. /\ step = "keys" /\ step' = "growpart" /\ UNCHANGED result
      /\ UNCHANGED <<sys, want, disk, ip, starts>> /\ broken' = broken \ {"keys"}
      /\ guest' = [guest EXCEPT !.keys = "machine", !.ignition = i] /\ UNCHANGED outer
  BY DEF Setup!Onward, Setup!Done, Setup!None, Setup!InGuest
<1>2. /\ guest' \in Guests /\ DiskSame /\ NamesSame /\ MountSame /\ PodmanSame
      /\ DnsSame /\ outer' \in Outers /\ ResolverSame
      /\ outer'.hosts = outer.hosts /\ outer'.token = outer.token
  BY <1>1 DEF SetupInv, SetupTypes, Guests, Outers, DiskSame, NamesSame, MountSame, DnsSame, PodmanSame,
              ResolverSame, IPs
<1>3. SetupControl' /\ Grown' /\ Named' /\ Mounted'
  BY <1>1, <1>2 DEF SetupInv, SetupTypes, SetupControl, OwnNetwork, Grown, Named, Mounted, Unmounted, Past,
                    Setup!Started, Setup!None, DiskSame, NamesSame, MountSame
<1>6. Answering'
  BY <1>1, <1>2 DEF SetupInv, SetupControl, Answering, Unanswered, Unmounted, Past, Setup!Started, Setup!None,
                    DnsSame
<1>4. InHosts' /\ Resolves' /\ Settled'
  BY <1>1, <1>2 DEF SetupInv, SetupControl, OwnNetwork, InHosts, Resolves, Settled,
                    Setup!Started, Setup!None, PodmanSame, ResolverSame, DnsSame
<1>5. SetupTypes'
  BY <1>1, <1>2, TypesKept DEF SetupInv, SetupTypes, DiskSame, Setup!Steps
<1> QED BY <1>3, <1>4, <1>5, <1>6 DEF SetupInv

\* growRootFileSystem.
LEMMA GrowpartKeeps ==
  ASSUME SetupInv, step = "growpart", Setup!InGuest([guest EXCEPT !.part = disk], "growfs")
  PROVE  SetupInv'
<1>1. /\ step = "growpart" /\ step' = "growfs" /\ UNCHANGED result
      /\ UNCHANGED <<sys, want, disk, ip, starts>> /\ broken' = broken \ {"growpart"}
      /\ guest' = [guest EXCEPT !.part = disk] /\ UNCHANGED outer
  BY DEF Setup!Onward, Setup!Done, Setup!None, Setup!InGuest
<1>2. /\ guest' \in Guests /\ NamesSame /\ MountSame /\ PodmanSame /\ DnsSame
      /\ guest'.part = disk /\ guest'.fs = guest.fs /\ guest'.fs \in 1..disk /\ outer' \in Outers
      /\ ResolverSame /\ outer'.hosts = outer.hosts /\ outer'.token = outer.token
  BY <1>1 DEF SetupInv, SetupTypes, Guests, Outers, DiskSame, NamesSame, MountSame, DnsSame, PodmanSame,
              ResolverSame, IPs
<1>3. SetupControl' /\ Grown' /\ Named' /\ Mounted'
  BY <1>1, <1>2 DEF SetupInv, SetupTypes, SetupControl, OwnNetwork, Grown, Named, Mounted, Unmounted, Past,
                    Setup!Started, Setup!None, DiskSame, NamesSame, MountSame
<1>6. Answering'
  BY <1>1, <1>2 DEF SetupInv, SetupControl, Answering, Unanswered, Unmounted, Past, Setup!Started, Setup!None,
                    DnsSame
<1>4. InHosts' /\ Resolves' /\ Settled'
  BY <1>1, <1>2 DEF SetupInv, SetupControl, OwnNetwork, InHosts, Resolves, Settled,
                    Setup!Started, Setup!None, PodmanSame, ResolverSame, DnsSame
<1>5. SetupTypes'
  BY <1>1, <1>2, TypesKept, SMT, SMTT(60) DEF SetupInv, SetupTypes, DiskSame, Setup!Steps
<1> QED BY <1>3, <1>4, <1>5, <1>6 DEF SetupInv

\* growRootFileSystem, after growpart.
LEMMA GrowfsKeeps ==
  ASSUME SetupInv, step = "growfs", Setup!InGuest([guest EXCEPT !.fs = guest.part], "nameserver")
  PROVE  SetupInv'
<1>1. /\ step = "growfs" /\ step' = "nameserver" /\ UNCHANGED result
      /\ UNCHANGED <<sys, want, disk, ip, starts>> /\ broken' = broken \ {"growfs"}
      /\ guest' = [guest EXCEPT !.fs = guest.part] /\ UNCHANGED outer
  BY DEF Setup!Onward, Setup!Done, Setup!None, Setup!InGuest
<1>2. /\ guest' \in Guests /\ NamesSame /\ MountSame /\ PodmanSame /\ DnsSame
      /\ guest'.part = guest.part /\ guest'.fs = guest.part /\ guest'.part \in 1..disk
      /\ outer' \in Outers /\ ResolverSame /\ outer'.hosts = outer.hosts
      /\ outer'.token = outer.token
  BY <1>1 DEF SetupInv, SetupTypes, Guests, Outers, DiskSame, NamesSame, MountSame, DnsSame, PodmanSame,
              ResolverSame, IPs
<1>3. SetupControl' /\ Grown' /\ Named' /\ Mounted'
  BY <1>1, <1>2 DEF SetupInv, SetupTypes, SetupControl, OwnNetwork, Grown, Named, Mounted, Unmounted, Past,
                    Setup!Started, Setup!None, DiskSame, NamesSame, MountSame
<1>6. Answering'
  BY <1>1, <1>2 DEF SetupInv, SetupControl, Answering, Unanswered, Unmounted, Past, Setup!Started, Setup!None,
                    DnsSame
<1>4. InHosts' /\ Resolves' /\ Settled'
  BY <1>1, <1>2 DEF SetupInv, SetupControl, OwnNetwork, InHosts, Resolves, Settled,
                    Setup!Started, Setup!None, PodmanSame, ResolverSame, DnsSame
<1>5. SetupTypes'
  BY <1>1, <1>2, TypesKept, SMT, SMTT(60) DEF SetupInv, SetupTypes, DiskSame, Setup!Steps
<1> QED BY <1>3, <1>4, <1>5, <1>6 DEF SetupInv

\* addNameServerToInstance.
LEMMA NameserverKeeps ==
  ASSUME SetupInv, step = "nameserver", want.ns # "none",
         Setup!InGuest([guest EXCEPT !.resolv = guest.resolv \cup {want.ns}], "mutable")
  PROVE  SetupInv'
<1>1. /\ step = "nameserver" /\ step' = "mutable" /\ UNCHANGED result
      /\ UNCHANGED <<sys, want, disk, ip, starts>> /\ broken' = broken \ {"nameserver"}
      /\ guest' = [guest EXCEPT !.resolv = guest.resolv \cup {want.ns}] /\ UNCHANGED outer
  BY DEF Setup!Onward, Setup!Done, Setup!None, Setup!InGuest
<1>2. /\ guest' \in Guests /\ DiskSame /\ MountSame /\ PodmanSame /\ DnsSame
      /\ guest'.resolv = guest.resolv \cup {want.ns} /\ outer' \in Outers /\ ResolverSame
      /\ outer'.hosts = outer.hosts /\ outer'.token = outer.token
  BY <1>1 DEF SetupInv, SetupTypes, Guests, Outers, DiskSame, NamesSame, MountSame, DnsSame, PodmanSame,
              ResolverSame, IPs
<1>3. SetupControl' /\ Grown' /\ Named' /\ Mounted'
  BY <1>1, <1>2 DEF SetupInv, SetupTypes, SetupControl, OwnNetwork, Grown, Named, Mounted, Unmounted, Past,
                    Setup!Started, Setup!None, DiskSame, NamesSame, MountSame
<1>6. Answering'
  BY <1>1, <1>2 DEF SetupInv, SetupControl, Answering, Unanswered, Unmounted, Past, Setup!Started, Setup!None,
                    DnsSame
<1>4. InHosts' /\ Resolves' /\ Settled'
  BY <1>1, <1>2 DEF SetupInv, SetupControl, OwnNetwork, InHosts, Resolves, Settled,
                    Setup!Started, Setup!None, PodmanSame, ResolverSame, DnsSame
<1>5. SetupTypes'
  BY <1>1, <1>2, TypesKept DEF SetupInv, SetupTypes, DiskSame, Setup!Steps
<1> QED BY <1>3, <1>4, <1>5, <1>6 DEF SetupInv

\* configureSharedDirs makes / mutable,
LEMMA MutableKeeps ==
  ASSUME SetupInv, step = "mutable", sys.os = "darwin", want.shared = "dirs",
         Setup!InGuest([guest EXCEPT !.immutable = FALSE], "immutable")
  PROVE  SetupInv'
<1>1. /\ step = "mutable" /\ step' = "immutable" /\ UNCHANGED result
      /\ UNCHANGED <<sys, want, disk, ip, starts>> /\ broken' = broken \ {"mutable"}
      /\ guest' = [guest EXCEPT !.immutable = FALSE] /\ UNCHANGED outer
  BY DEF Setup!Onward, Setup!Done, Setup!None, Setup!InGuest
<1>2. /\ guest' \in Guests /\ DiskSame /\ NamesSame /\ PodmanSame /\ DnsSame
      /\ guest'.mounted = guest.mounted /\ outer' \in Outers /\ ResolverSame
      /\ outer'.hosts = outer.hosts /\ outer'.token = outer.token
  BY <1>1 DEF SetupInv, SetupTypes, Guests, Outers, DiskSame, NamesSame, MountSame, DnsSame, PodmanSame,
              ResolverSame, IPs
<1>3. SetupControl' /\ Grown' /\ Named' /\ Mounted'
  BY <1>1, <1>2 DEF SetupInv, SetupTypes, SetupControl, OwnNetwork, Grown, Named, Mounted, Unmounted, Past,
                    Setup!Started, Setup!None, DiskSame, NamesSame, MountSame
<1>6. Answering'
  BY <1>1, <1>2 DEF SetupInv, SetupControl, Answering, Unanswered, Unmounted, Past, Setup!Started, Setup!None,
                    DnsSame
<1>4. InHosts' /\ Resolves' /\ Settled'
  BY <1>1, <1>2 DEF SetupInv, SetupControl, OwnNetwork, InHosts, Resolves, Settled,
                    Setup!Started, Setup!None, PodmanSame, ResolverSame, DnsSame
<1>5. SetupTypes'
  BY <1>1, <1>2, TypesKept DEF SetupInv, SetupTypes, DiskSame, Setup!Steps
<1> QED BY <1>3, <1>4, <1>5, <1>6 DEF SetupInv

\* and immutable again,
LEMMA ImmutableKeeps ==
  ASSUME SetupInv, step = "immutable", Setup!InGuest([guest EXCEPT !.immutable = TRUE], "mount")
  PROVE  SetupInv'
<1>1. /\ step = "immutable" /\ step' = "mount" /\ UNCHANGED result
      /\ UNCHANGED <<sys, want, disk, ip, starts>> /\ broken' = broken \ {"immutable"}
      /\ guest' = [guest EXCEPT !.immutable = TRUE] /\ UNCHANGED outer
  BY DEF Setup!Onward, Setup!Done, Setup!None, Setup!InGuest
<1>2. /\ guest' \in Guests /\ DiskSame /\ NamesSame /\ PodmanSame /\ DnsSame
      /\ guest'.immutable /\ guest'.mounted = guest.mounted /\ outer' \in Outers /\ ResolverSame
      /\ outer'.hosts = outer.hosts /\ outer'.token = outer.token
  BY <1>1 DEF SetupInv, SetupTypes, Guests, Outers, DiskSame, NamesSame, MountSame, DnsSame, PodmanSame,
              ResolverSame, IPs
<1>3. SetupControl' /\ Grown' /\ Named' /\ Mounted'
  BY <1>1, <1>2 DEF SetupInv, SetupTypes, SetupControl, OwnNetwork, Grown, Named, Mounted, Unmounted, Past,
                    Setup!Started, Setup!None, DiskSame, NamesSame, MountSame
<1>6. Answering'
  BY <1>1, <1>2 DEF SetupInv, SetupControl, Answering, Unanswered, Unmounted, Past, Setup!Started, Setup!None,
                    DnsSame
<1>4. InHosts' /\ Resolves' /\ Settled'
  BY <1>1, <1>2 DEF SetupInv, SetupControl, OwnNetwork, InHosts, Resolves, Settled,
                    Setup!Started, Setup!None, PodmanSame, ResolverSame, DnsSame
<1>5. SetupTypes'
  BY <1>1, <1>2, TypesKept DEF SetupInv, SetupTypes, DiskSame, Setup!Steps
<1> QED BY <1>3, <1>4, <1>5, <1>6 DEF SetupInv

\* and mounts a directory.
LEMMA MountKeeps ==
  ASSUME SetupInv, step = "mount", Setup!InGuest([guest EXCEPT !.mounted = TRUE], "socket")
  PROVE  SetupInv'
<1>1. /\ step = "mount" /\ step' = "socket" /\ UNCHANGED result
      /\ UNCHANGED <<sys, want, disk, ip, starts>> /\ broken' = broken \ {"mount"}
      /\ guest' = [guest EXCEPT !.mounted = TRUE] /\ UNCHANGED outer
  BY DEF Setup!Onward, Setup!Done, Setup!None, Setup!InGuest
<1>2. /\ guest' \in Guests /\ DiskSame /\ NamesSame /\ PodmanSame /\ DnsSame
      /\ guest'.immutable = guest.immutable /\ guest'.mounted /\ outer' \in Outers /\ ResolverSame
      /\ outer'.hosts = outer.hosts /\ outer'.token = outer.token
  BY <1>1 DEF SetupInv, SetupTypes, Guests, Outers, DiskSame, NamesSame, MountSame, DnsSame, PodmanSame,
              ResolverSame, IPs
<1>3. SetupControl' /\ Grown' /\ Named' /\ Mounted'
  BY <1>1, <1>2 DEF SetupInv, SetupTypes, SetupControl, OwnNetwork, Grown, Named, Mounted, Unmounted, Past,
                    Setup!Started, Setup!None, DiskSame, NamesSame, MountSame
<1>6. Answering'
  BY <1>1, <1>2 DEF SetupInv, SetupControl, Answering, Unanswered, Unmounted, Past, Setup!Started, Setup!None,
                    DnsSame
<1>4. InHosts' /\ Resolves' /\ Settled'
  BY <1>1, <1>2 DEF SetupInv, SetupControl, OwnNetwork, InHosts, Resolves, Settled,
                    Setup!Started, Setup!None, PodmanSame, ResolverSame, DnsSame
<1>5. SetupTypes'
  BY <1>1, <1>2, TypesKept DEF SetupInv, SetupTypes, DiskSame, Setup!Steps
<1> QED BY <1>3, <1>4, <1>5, <1>6 DEF SetupInv

\* The socket of Podman.
LEMMA SocketKeeps ==
  ASSUME SetupInv, step = "socket", Setup!InGuest([guest EXCEPT !.socket = TRUE], IF sys.openshift THEN "dnsConf" ELSE "proxy")
  PROVE  SetupInv'
<1>1. /\ step = "socket" /\ step' = (IF sys.openshift THEN "dnsConf" ELSE "proxy")
      /\ UNCHANGED result /\ UNCHANGED <<sys, want, disk, ip, starts>> /\ broken' = broken \ {"socket"}
      /\ guest' = [guest EXCEPT !.socket = TRUE] /\ UNCHANGED outer
  BY DEF Setup!Onward, Setup!Done, Setup!None, Setup!InGuest
<1>2. /\ guest' \in Guests /\ DiskSame /\ NamesSame /\ MountSame /\ PodmanSame
      /\ DnsSame /\ outer' \in Outers /\ ResolverSame
      /\ outer'.hosts = outer.hosts /\ outer'.token = outer.token
  BY <1>1 DEF SetupInv, SetupTypes, Guests, Outers, DiskSame, NamesSame, MountSame, DnsSame, PodmanSame,
              ResolverSame, IPs
<1>3. SetupControl' /\ Grown' /\ Named' /\ Mounted'
  BY <1>1, <1>2 DEF SetupInv, SetupTypes, SetupControl, OwnNetwork, Grown, Named, Mounted, Unmounted, Past,
                    Setup!Started, Setup!None, DiskSame, NamesSame, MountSame
<1>6. Answering'
  BY <1>1, <1>2 DEF SetupInv, SetupControl, Answering, Unanswered, Unmounted, Past, Setup!Started, Setup!None,
                    DnsSame
<1>4. InHosts' /\ Resolves' /\ Settled'
  BY <1>1, <1>2 DEF SetupInv, SetupControl, OwnNetwork, InHosts, Resolves, Settled,
                    Setup!Started, Setup!None, PodmanSame, ResolverSame, DnsSame
<1>5. SetupTypes'
  BY <1>1, <1>2, TypesKept DEF SetupInv, SetupTypes, DiskSame, Setup!Steps
<1> QED BY <1>3, <1>4, <1>5, <1>6 DEF SetupInv

\* configurePodmanProxy.
LEMMA ProxyKeeps ==
  ASSUME SetupInv, step = "proxy", Setup!InGuest([guest EXCEPT !.env = want.proxy], "remove")
  PROVE  SetupInv'
<1>1. /\ step = "proxy" /\ step' = "remove" /\ UNCHANGED result
      /\ UNCHANGED <<sys, want, disk, ip, starts>> /\ broken' = broken \ {"proxy"}
      /\ guest' = [guest EXCEPT !.env = want.proxy] /\ UNCHANGED outer
  BY DEF Setup!Onward, Setup!Done, Setup!None, Setup!InGuest
<1>2. /\ guest' \in Guests /\ DiskSame /\ NamesSame /\ MountSame /\ DnsSame
      /\ guest'.env = want.proxy /\ guest'.token = guest.token /\ outer' \in Outers
      /\ ResolverSame /\ outer'.hosts = outer.hosts /\ outer'.token = outer.token
  BY <1>1 DEF SetupInv, SetupTypes, Guests, Outers, DiskSame, NamesSame, MountSame, DnsSame, PodmanSame,
              ResolverSame, IPs
<1>3. SetupControl' /\ Grown' /\ Named' /\ Mounted'
  BY <1>1, <1>2 DEF SetupInv, SetupTypes, SetupControl, OwnNetwork, Grown, Named, Mounted, Unmounted, Past,
                    Setup!Started, Setup!None, DiskSame, NamesSame, MountSame
<1>6. Answering'
  BY <1>1, <1>2 DEF SetupInv, SetupControl, Answering, Unanswered, Unmounted, Past, Setup!Started, Setup!None,
                    DnsSame
<1>4. InHosts' /\ Resolves' /\ Settled'
  BY <1>1, <1>2 DEF SetupInv, SetupControl, OwnNetwork, InHosts, Resolves, Settled,
                    Setup!Started, Setup!None, PodmanSame, ResolverSame, DnsSame
<1>5. SetupTypes'
  BY <1>1, <1>2, TypesKept DEF SetupInv, SetupTypes, DiskSame, Setup!Steps
<1> QED BY <1>3, <1>4, <1>5, <1>6 DEF SetupInv

\* updateCockpitConsoleBearerToken, in the guest.
LEMMA TokenKeeps ==
  ASSUME SetupInv, step = "tokenGuest", Setup!InGuest([guest EXCEPT !.token = outer.token], "done")
  PROVE  SetupInv'
<1>1. /\ step = "tokenGuest" /\ step' = "none" /\ result' = "ok"
      /\ UNCHANGED <<sys, want, disk, ip, starts>> /\ broken' = broken \ {"tokenGuest"}
      /\ guest' = [guest EXCEPT !.token = outer.token] /\ UNCHANGED outer
  BY DEF Setup!Onward, Setup!Done, Setup!None, Setup!InGuest
<1>2. /\ guest' \in Guests /\ DiskSame /\ NamesSame /\ MountSame /\ DnsSame
      /\ guest'.token = outer.token /\ guest'.env = guest.env /\ outer' \in Outers /\ ResolverSame
      /\ outer'.hosts = outer.hosts /\ outer'.token = outer.token
  BY <1>1 DEF SetupInv, SetupTypes, Guests, Outers, DiskSame, NamesSame, MountSame, DnsSame, PodmanSame,
              ResolverSame, IPs
<1>3. SetupControl' /\ Grown' /\ Named' /\ Mounted'
  BY <1>1, <1>2 DEF SetupInv, SetupTypes, SetupControl, OwnNetwork, Grown, Named, Mounted, Unmounted, Past,
                    Setup!Started, Setup!None, DiskSame, NamesSame, MountSame
<1>6. Answering'
  BY <1>1, <1>2 DEF SetupInv, SetupControl, Answering, Unanswered, Unmounted, Past, Setup!Started, Setup!None,
                    DnsSame
<1>4. InHosts' /\ Resolves' /\ Settled'
  BY <1>1, <1>2 DEF SetupInv, SetupControl, OwnNetwork, InHosts, Resolves, Settled,
                    Setup!Started, Setup!None, PodmanSame, ResolverSame, DnsSame
<1>5. SetupTypes'
  BY <1>1, <1>2, TypesKept DEF SetupInv, SetupTypes, DiskSame, Setup!Steps
<1> QED BY <1>3, <1>4, <1>5, <1>6 DEF SetupInv

\* setupDnsmasq writes the configuration,
LEMMA ConfKeeps ==
  ASSUME SetupInv, step = "dnsConf", ~sys.user, Setup!InGuest([guest EXCEPT !.conf = ip], "dnsEnable")
  PROVE  SetupInv'
<1>1. /\ step = "dnsConf" /\ step' = "dnsEnable" /\ UNCHANGED result
      /\ UNCHANGED <<sys, want, disk, ip, starts>> /\ broken' = broken \ {"dnsConf"} /\ guest' = [guest EXCEPT !.conf = ip]
      /\ UNCHANGED outer
  BY DEF Setup!Onward, Setup!Done, Setup!None, Setup!InGuest
<1>2. /\ guest' \in Guests /\ DiskSame /\ NamesSame /\ MountSame /\ PodmanSame
      /\ guest'.serves = guest.serves /\ guest'.enabled = guest.enabled /\ guest'.conf = ip /\ outer' \in Outers /\ ResolverSame
      /\ outer'.hosts = outer.hosts /\ outer'.token = outer.token
  BY <1>1 DEF SetupInv, SetupTypes, Guests, Outers, DiskSame, NamesSame, MountSame, PodmanSame,
              ResolverSame, IPs
<1>3. SetupControl' /\ Grown' /\ Named' /\ Mounted'
  BY <1>1, <1>2 DEF SetupInv, SetupTypes, SetupControl, OwnNetwork, Grown, Named, Mounted, Unmounted, Past,
                    Setup!Started, Setup!None, DiskSame, NamesSame, MountSame
<1>6. Answering'
  BY <1>1, <1>2 DEF SetupInv, SetupControl, Answering, Unanswered, Unmounted, Past, Setup!Started, Setup!None,
                    DnsSame
<1>4. InHosts' /\ Resolves' /\ Settled'
  BY <1>1, <1>2 DEF SetupInv, SetupControl, OwnNetwork, InHosts, Resolves, Settled,
                    Setup!Started, Setup!None, PodmanSame, ResolverSame, DnsSame
<1>5. SetupTypes'
  BY <1>1, <1>2, TypesKept DEF SetupInv, SetupTypes, DiskSame, Setup!Steps
<1> QED BY <1>3, <1>4, <1>5, <1>6 DEF SetupInv

\* enables the unit
LEMMA EnableKeeps ==
  ASSUME SetupInv, step = "dnsEnable", Setup!InGuest([guest EXCEPT !.enabled = TRUE], "dnsStart")
  PROVE  SetupInv'
<1>1. /\ step = "dnsEnable" /\ step' = "dnsStart" /\ UNCHANGED result
      /\ UNCHANGED <<sys, want, disk, ip, starts>> /\ broken' = broken \ {"dnsEnable"}
      /\ guest' = [guest EXCEPT !.enabled = TRUE] /\ UNCHANGED outer
  BY DEF Setup!Onward, Setup!Done, Setup!None, Setup!InGuest
<1>2. /\ guest' \in Guests /\ DiskSame /\ NamesSame /\ MountSame /\ PodmanSame
      /\ guest'.serves = guest.serves /\ guest'.enabled /\ guest'.conf = guest.conf /\ outer' \in Outers /\ ResolverSame
      /\ outer'.hosts = outer.hosts /\ outer'.token = outer.token
  BY <1>1 DEF SetupInv, SetupTypes, Guests, Outers, DiskSame, NamesSame, MountSame, PodmanSame,
              ResolverSame, IPs
<1>3. SetupControl' /\ Grown' /\ Named' /\ Mounted'
  BY <1>1, <1>2 DEF SetupInv, SetupTypes, SetupControl, OwnNetwork, Grown, Named, Mounted, Unmounted, Past,
                    Setup!Started, Setup!None, DiskSame, NamesSame, MountSame
<1>6. Answering'
  BY <1>1, <1>2 DEF SetupInv, SetupControl, Answering, Unanswered, Unmounted, Past, Setup!Started, Setup!None,
                    DnsSame
<1>4. InHosts' /\ Resolves' /\ Settled'
  BY <1>1, <1>2 DEF SetupInv, SetupControl, OwnNetwork, InHosts, Resolves, Settled,
                    Setup!Started, Setup!None, PodmanSame, ResolverSame, DnsSame
<1>5. SetupTypes'
  BY <1>1, <1>2, TypesKept DEF SetupInv, SetupTypes, DiskSame, Setup!Steps
<1> QED BY <1>3, <1>4, <1>5, <1>6 DEF SetupInv

\* and starts it.
LEMMA DnsStartKeeps ==
  ASSUME SetupInv, step = "dnsStart", Setup!InGuest([guest EXCEPT !.serves = guest.conf], IF OwnNetwork("windows") THEN "interface" ELSE "remove")
  PROVE  SetupInv'
<1>1. /\ step = "dnsStart" /\ step' = (IF OwnNetwork("windows") THEN "interface" ELSE "remove")
      /\ UNCHANGED result /\ UNCHANGED <<sys, want, disk, ip, starts>> /\ broken' = broken \ {"dnsStart"}
      /\ guest' = [guest EXCEPT !.serves = guest.conf] /\ UNCHANGED outer
  BY DEF Setup!Onward, Setup!Done, Setup!None, Setup!InGuest
<1>2. /\ guest' \in Guests /\ DiskSame /\ NamesSame /\ MountSame /\ PodmanSame
      /\ guest'.serves = guest.conf /\ guest'.enabled = guest.enabled /\ guest'.conf = guest.conf
      /\ outer' \in Outers /\ ResolverSame
      /\ outer'.hosts = outer.hosts /\ outer'.token = outer.token
  BY <1>1 DEF SetupInv, SetupTypes, Guests, Outers, DiskSame, NamesSame, MountSame, PodmanSame,
              ResolverSame, IPs
<1>3. SetupControl' /\ Grown' /\ Named' /\ Mounted'
  BY <1>1, <1>2 DEF SetupInv, SetupTypes, SetupControl, OwnNetwork, Grown, Named, Mounted, Unmounted, Past,
                    Setup!Started, Setup!None, DiskSame, NamesSame, MountSame
<1>6. Answering'
  BY <1>1, <1>2 DEF SetupInv, SetupControl, Answering, Unanswered, Unmounted, Past, Setup!Started, Setup!None,
                    DnsSame
<1>4. InHosts' /\ Resolves' /\ Settled'
  BY <1>1, <1>2 DEF SetupInv, SetupControl, OwnNetwork, InHosts, Resolves, Settled,
                    Setup!Started, Setup!None, PodmanSame, ResolverSame, DnsSame
<1>5. SetupTypes'
  BY <1>1, <1>2, TypesKept DEF SetupInv, SetupTypes, DiskSame, Setup!Steps
<1> QED BY <1>3, <1>4, <1>5, <1>6 DEF SetupInv

\* The end of RunPostStart.
LEMMA ResolvKeeps ==
  ASSUME SetupInv, step = "resolv", Setup!InGuest([guest EXCEPT !.resolv = Setup!dnsServers], "checkGuest")
  PROVE  SetupInv'
<1>1. /\ step = "resolv" /\ step' = "checkGuest" /\ UNCHANGED result
      /\ UNCHANGED <<sys, want, disk, ip, starts>> /\ broken' = broken \ {"resolv"}
      /\ guest' = [guest EXCEPT !.resolv = Setup!dnsServers] /\ UNCHANGED outer
  BY DEF Setup!Onward, Setup!Done, Setup!None, Setup!InGuest
<1>2. /\ guest' \in Guests /\ DiskSame /\ MountSame /\ PodmanSame /\ DnsSame
      /\ guest'.resolv = Setup!dnsServers /\ outer' \in Outers /\ ResolverSame
      /\ outer'.hosts = outer.hosts /\ outer'.token = outer.token
  BY <1>1 DEF SetupInv, SetupTypes, Guests, Outers, DiskSame, NamesSame, MountSame, DnsSame, PodmanSame,
              ResolverSame, IPs, Setup!dnsServers, Setup!Gateway, Setup!Dnsmasq
<1>3. SetupControl' /\ Grown' /\ Named' /\ Mounted'
  BY <1>1, <1>2, SMT, SMTT(60) DEF SetupInv, SetupTypes, SetupControl, OwnNetwork, Grown, Named, Mounted, Unmounted, Past,
                    Setup!Started, Setup!None, DiskSame, NamesSame, MountSame, Setup!dnsServers
<1>6. Answering'
  BY <1>1, <1>2 DEF SetupInv, SetupControl, Answering, Unanswered, Unmounted, Past, Setup!Started, Setup!None,
                    DnsSame
<1>4. InHosts' /\ Resolves' /\ Settled'
  BY <1>1, <1>2 DEF SetupInv, SetupControl, OwnNetwork, InHosts, Resolves, Settled,
                    Setup!Started, Setup!None, PodmanSame, ResolverSame, DnsSame
<1>5. SetupTypes'
  BY <1>1, <1>2, TypesKept DEF SetupInv, SetupTypes, DiskSame, Setup!Steps
<1> QED BY <1>3, <1>4, <1>5, <1>6 DEF SetupInv

\* The hosts file loses the names
LEMMA RemoveKeepsHosts ==
  ASSUME SetupInv, step = "remove", Setup!OnHost([outer EXCEPT !.hosts = {}], "add")
  PROVE  SetupInv'
<1>1. /\ step = "remove" /\ step' = "add" /\ UNCHANGED result
      /\ UNCHANGED <<sys, want, disk, ip, starts>> /\ broken' = broken \ {"remove"} /\ outer' = [outer EXCEPT !.hosts = {}]
      /\ UNCHANGED guest
  BY DEF Setup!Onward, Setup!Done, Setup!None, Setup!OnHost
<1>2. /\ guest' \in Guests /\ DiskSame /\ NamesSame /\ MountSame /\ PodmanSame
      /\ DnsSame /\ outer' \in Outers /\ ResolverSame
      /\ outer'.token = outer.token /\ outer'.hosts = {}
  BY <1>1 DEF SetupInv, SetupTypes, Guests, Outers, DiskSame, NamesSame, MountSame, DnsSame, PodmanSame,
              ResolverSame, IPs
<1>3. SetupControl' /\ Grown' /\ Named' /\ Mounted'
  BY <1>1, <1>2 DEF SetupInv, SetupTypes, SetupControl, OwnNetwork, Grown, Named, Mounted, Unmounted, Past,
                    Setup!Started, Setup!None, DiskSame, NamesSame, MountSame
<1>6. Answering'
  BY <1>1, <1>2 DEF SetupInv, SetupControl, Answering, Unanswered, Unmounted, Past, Setup!Started, Setup!None,
                    DnsSame
<1>4. InHosts' /\ Resolves' /\ Settled'
  BY <1>1, <1>2 DEF SetupInv, SetupControl, OwnNetwork, InHosts, Resolves, Settled,
                    Setup!Started, Setup!None, PodmanSame, ResolverSame, DnsSame
<1>5. SetupTypes'
  BY <1>1, <1>2, TypesKept DEF SetupInv, SetupTypes, DiskSame, Setup!Steps
<1> QED BY <1>3, <1>4, <1>5, <1>6 DEF SetupInv

\* and gets them with the address of the machine.
LEMMA AddKeepsHosts ==
  ASSUME SetupInv, step = "add", Setup!OnHost([outer EXCEPT !.hosts = outer.hosts \cup {ip}], IF ~sys.openshift THEN "tokenHost" ELSE IF OwnNetwork("darwin") THEN "resolver" ELSE "resolv")
  PROVE  SetupInv'
<1>1. /\ step = "add"
      /\ step' = (IF ~sys.openshift THEN "tokenHost" ELSE IF OwnNetwork("darwin") THEN "resolver" ELSE "resolv")
      /\ UNCHANGED result /\ UNCHANGED <<sys, want, disk, ip, starts>> /\ broken' = broken \ {"add"}
      /\ outer' = [outer EXCEPT !.hosts = outer.hosts \cup {ip}] /\ UNCHANGED guest
  BY DEF Setup!Onward, Setup!Done, Setup!None, Setup!OnHost
<1>2. /\ guest' \in Guests /\ DiskSame /\ NamesSame /\ MountSame /\ PodmanSame
      /\ DnsSame /\ outer' \in Outers /\ ResolverSame
      /\ outer'.token = outer.token /\ outer'.hosts = outer.hosts \cup {ip}
  BY <1>1 DEF SetupInv, SetupTypes, Guests, Outers, DiskSame, NamesSame, MountSame, DnsSame, PodmanSame,
              ResolverSame, IPs
<1>3. SetupControl' /\ Grown' /\ Named' /\ Mounted'
  BY <1>1, <1>2 DEF SetupInv, SetupTypes, SetupControl, OwnNetwork, Grown, Named, Mounted, Unmounted, Past,
                    Setup!Started, Setup!None, DiskSame, NamesSame, MountSame
<1>6. Answering'
  BY <1>1, <1>2 DEF SetupInv, SetupControl, Answering, Unanswered, Unmounted, Past, Setup!Started, Setup!None,
                    DnsSame
<1>4. InHosts' /\ Resolves' /\ Settled'
  BY <1>1, <1>2 DEF SetupInv, SetupControl, OwnNetwork, InHosts, Resolves, Settled,
                    Setup!Started, Setup!None, PodmanSame, ResolverSame, DnsSame
<1>5. SetupTypes'
  BY <1>1, <1>2, TypesKept DEF SetupInv, SetupTypes, DiskSame, Setup!Steps
<1> QED BY <1>3, <1>4, <1>5, <1>6 DEF SetupInv

\* updateCockpitConsoleBearerToken, on the host.
LEMMA HostTokenKeeps ==
  ASSUME SetupInv, step = "tokenHost", Setup!OnHost([outer EXCEPT !.token = starts], "tokenGuest")
  PROVE  SetupInv'
<1>1. /\ step = "tokenHost" /\ step' = "tokenGuest" /\ UNCHANGED result
      /\ UNCHANGED <<sys, want, disk, ip, starts>> /\ broken' = broken \ {"tokenHost"}
      /\ outer' = [outer EXCEPT !.token = starts] /\ UNCHANGED guest
  BY DEF Setup!Onward, Setup!Done, Setup!None, Setup!OnHost
<1>2. /\ guest' \in Guests /\ DiskSame /\ NamesSame /\ MountSame /\ PodmanSame
      /\ DnsSame /\ outer' \in Outers /\ ResolverSame
      /\ outer'.hosts = outer.hosts
  BY <1>1 DEF SetupInv, SetupTypes, Guests, Outers, DiskSame, NamesSame, MountSame, DnsSame, PodmanSame,
              ResolverSame, IPs
<1>3. SetupControl' /\ Grown' /\ Named' /\ Mounted'
  BY <1>1, <1>2 DEF SetupInv, SetupTypes, SetupControl, OwnNetwork, Grown, Named, Mounted, Unmounted, Past,
                    Setup!Started, Setup!None, DiskSame, NamesSame, MountSame
<1>6. Answering'
  BY <1>1, <1>2 DEF SetupInv, SetupControl, Answering, Unanswered, Unmounted, Past, Setup!Started, Setup!None,
                    DnsSame
<1>4. InHosts' /\ Resolves' /\ Settled'
  BY <1>1, <1>2 DEF SetupInv, SetupControl, OwnNetwork, InHosts, Resolves, Settled,
                    Setup!Started, Setup!None, PodmanSame, ResolverSame, DnsSame
<1>5. SetupTypes'
  BY <1>1, <1>2, TypesKept DEF SetupInv, SetupTypes, DiskSame, Setup!Steps
<1> QED BY <1>3, <1>4, <1>5, <1>6 DEF SetupInv

\* The name server of the interface of Windows.
LEMMA InterfaceKeeps ==
  ASSUME SetupInv, step = "interface", Setup!OnHost([outer EXCEPT !.interface = ip], "resolv")
  PROVE  SetupInv'
<1>1. /\ step = "interface" /\ step' = "resolv" /\ UNCHANGED result
      /\ UNCHANGED <<sys, want, disk, ip, starts>> /\ broken' = broken \ {"interface"}
      /\ outer' = [outer EXCEPT !.interface = ip] /\ UNCHANGED guest
  BY DEF Setup!Onward, Setup!Done, Setup!None, Setup!OnHost
<1>2. /\ guest' \in Guests /\ DiskSame /\ NamesSame /\ MountSame /\ PodmanSame
      /\ DnsSame /\ outer' \in Outers /\ outer'.hosts = outer.hosts
      /\ outer'.token = outer.token /\ outer'.resolver = outer.resolver
      /\ outer'.active = outer.active /\ outer'.interface = ip
  BY <1>1 DEF SetupInv, SetupTypes, Guests, Outers, DiskSame, NamesSame, MountSame, DnsSame, PodmanSame,
              ResolverSame, IPs
<1>3. SetupControl' /\ Grown' /\ Named' /\ Mounted'
  BY <1>1, <1>2 DEF SetupInv, SetupTypes, SetupControl, OwnNetwork, Grown, Named, Mounted, Unmounted, Past,
                    Setup!Started, Setup!None, DiskSame, NamesSame, MountSame
<1>6. Answering'
  BY <1>1, <1>2 DEF SetupInv, SetupControl, Answering, Unanswered, Unmounted, Past, Setup!Started, Setup!None,
                    DnsSame
<1>4. InHosts' /\ Resolves' /\ Settled'
  BY <1>1, <1>2 DEF SetupInv, SetupControl, OwnNetwork, InHosts, Resolves, Settled,
                    Setup!Started, Setup!None, PodmanSame, ResolverSame, DnsSame
<1>5. SetupTypes'
  BY <1>1, <1>2, TypesKept DEF SetupInv, SetupTypes, DiskSame, Setup!Steps
<1> QED BY <1>3, <1>4, <1>5, <1>6 DEF SetupInv

\* The resolver file of macOS.
LEMMA ResolverKeeps ==
  ASSUME SetupInv, step = "resolver", Setup!OnHost([outer EXCEPT !.resolver = ip, !.active = ip], "resolv")
  PROVE  SetupInv'
<1>1. /\ step = "resolver" /\ step' = "resolv" /\ UNCHANGED result
      /\ UNCHANGED <<sys, want, disk, ip, starts>> /\ broken' = broken \ {"resolver"}
      /\ outer' = [outer EXCEPT !.resolver = ip, !.active = ip] /\ UNCHANGED guest
  BY DEF Setup!Onward, Setup!Done, Setup!None, Setup!OnHost
<1>a. outer \in Outers /\ ip \in IPs /\ guest \in Guests
  BY DEF SetupInv, SetupTypes
<1>b. outer' \in Outers /\ outer'.resolver = ip /\ outer'.active = ip
  BY <1>1, <1>a DEF Outers
<1>c. outer'.hosts = outer.hosts /\ outer'.token = outer.token /\ outer'.interface = outer.interface
  BY <1>1, <1>a DEF Outers
<1>2. /\ guest' \in Guests /\ DiskSame /\ NamesSame /\ MountSame /\ PodmanSame
      /\ DnsSame /\ outer' \in Outers /\ outer'.hosts = outer.hosts
      /\ outer'.token = outer.token /\ outer'.resolver = ip /\ outer'.active = ip
      /\ outer'.interface = outer.interface
  BY <1>1, <1>a, <1>b, <1>c DEF DiskSame, NamesSame, MountSame, DnsSame, PodmanSame
<1>3. SetupControl' /\ Grown' /\ Named' /\ Mounted'
  BY <1>1, <1>2 DEF SetupInv, SetupTypes, SetupControl, OwnNetwork, Grown, Named, Mounted, Unmounted, Past,
                    Setup!Started, Setup!None, DiskSame, NamesSame, MountSame
<1>6. Answering'
  BY <1>1, <1>2 DEF SetupInv, SetupControl, Answering, Unanswered, Unmounted, Past, Setup!Started, Setup!None,
                    DnsSame
<1>4. InHosts' /\ Resolves' /\ Settled'
  BY <1>1, <1>2 DEF SetupInv, SetupControl, OwnNetwork, InHosts, Resolves, Settled,
                    Setup!Started, Setup!None, PodmanSame, ResolverSame, DnsSame
<1>5. SetupTypes'
  BY <1>1, <1>2, TypesKept DEF SetupInv, SetupTypes, DiskSame, Setup!Steps
<1> QED BY <1>3, <1>4, <1>5, <1>6 DEF SetupInv

\* The machine boots: nothing of the new start is done yet.
LEMMA BootKeeps ==
  ASSUME SetupInv, Setup!Boot
  PROVE  SetupInv'
<1>1. /\ step' = "connect" /\ result' = "none" /\ UNCHANGED <<sys, outer, broken>>
      /\ want' \in [ns : Nameservers \cup {"none"}, shared : {"off", "none", "dirs"}, proxy : Proxies \cup {"none"}]
      /\ disk' \in disk..MaxDisk /\ ip' \in Setup!PossibleIPs
  BY DEF Setup!Boot, Setup!None
<1>2. PICK resolv \in {guest.resolv, {"dhcp"}} :
        guest' = [guest EXCEPT !.mounted = FALSE, !.socket = FALSE, !.resolv = resolv,
                               !.serves = IF guest.enabled THEN guest.conf ELSE "none"]
  BY DEF Setup!Boot, Setup!None, Setup!Dhcp
<1>3. /\ guest' \in Guests /\ DiskSame /\ guest'.immutable = guest.immutable /\ ~guest'.mounted
  <2> DEFINE serves == IF guest.enabled THEN guest.conf ELSE "none"
  <2>1. /\ guest \in Guests /\ resolv \in SUBSET (Nameservers \cup {"gateway", "dnsmasq", "dhcp"})
        /\ serves \in IPs \cup {"empty"}
    BY DEF SetupInv, SetupTypes, Guests, IPs
  <2>2. guest' = [guest EXCEPT !.mounted = FALSE, !.socket = FALSE, !.resolv = resolv, !.serves = serves]
    BY <1>2
  <2> HIDE DEF serves
  <2> QED BY <2>1, <2>2 DEF Guests, DiskSame
<1>4. starts' \in 0..MaxStarts /\ disk \in 1..MaxDisk /\ disk' \in 1..MaxDisk
  BY <1>1, SetupAssumption DEF SetupInv, SetupTypes, Setup!Boot
<1>5. Guests' = Guests /\ Outers' = Outers /\ IPs' = IPs /\ Setup!PossibleIPs' = Setup!PossibleIPs
  BY <1>1 DEF Guests, Outers, IPs, Setup!PossibleIPs
<1>6. /\ guest.part \in 1..disk /\ guest.fs \in 1..guest.part /\ guest'.part \in 1..disk'
      /\ guest'.fs \in 1..guest'.part
  BY <1>1, <1>3, <1>4, SMT, SMTT(60) DEF SetupInv, SetupTypes, DiskSame
<1>7. SetupTypes'
  BY <1>1, <1>3, <1>4, <1>5, <1>6 DEF SetupInv, SetupTypes, IPs, Setup!Steps
<1>8. SetupControl' /\ Grown' /\ Named' /\ Mounted'
  BY <1>1, <1>3 DEF SetupInv, SetupControl, Grown, Named, Mounted, Unmounted, Past, Setup!Started, DiskSame,
                    Setup!Boot, Setup!None
<1>9. InHosts' /\ Resolves' /\ Settled'
  BY <1>1 DEF SetupInv, InHosts, Resolves, Settled, Setup!Started, Setup!None
<1>10. Answering'
  BY <1>1, <1>2 DEF SetupInv, SetupTypes, Guests, Answering, Unanswered, Unmounted, Past, Setup!Started, Setup!None
<1> QED BY <1>7, <1>8, <1>9, <1>10 DEF SetupInv

\* A start that ends with an error.
LEMMA EndsKeep ==
  ASSUME SetupInv, (Setup!Refuse /\ step \notin {"growfs", "immutable"}) \/ Setup!CommandFails \/ Setup!restartNetworkFails
  PROVE  SetupInv'
<1>1. CASE Setup!Refuse /\ step \notin {"growfs", "immutable"}
  <2>1. /\ UNCHANGED <<sys, want, disk, ip, guest, outer, broken, starts>>
        /\ step' = "none" /\ result' = "error" /\ step # "growfs" /\ step # "immutable"
    BY <1>1 DEF Setup!Refuse, Setup!None
  <2> QED BY <2>1, NotPast DEF SetupInv, SetupTypes, DiskSame, MountSame
<1>2. CASE Setup!CommandFails
  <2>1. /\ UNCHANGED <<sys, want, disk, ip, outer, starts>>
        /\ step' = "none" /\ result' = "error" /\ step # "none" /\ broken' = broken \cup {step}
    BY <1>2 DEF Setup!CommandFails, Setup!None
  <2>2. \/ guest' = guest \/ guest' = [guest EXCEPT !.keys = "empty"] \/ guest' = [guest EXCEPT !.env = "empty"]
        \/ guest' = [guest EXCEPT !.conf = "empty"] \/ guest' = [guest EXCEPT !.resolv = {}]
    BY <1>2 DEF Setup!CommandFails, Setup!Emptied, Setup!Empty
  <2>3. /\ guest' \in Guests /\ DiskSame /\ MountSame
        /\ guest'.serves = guest.serves /\ guest'.enabled = guest.enabled
    BY <2>2 DEF SetupInv, SetupTypes, Guests, DiskSame, MountSame
  <2>4. broken' \subseteq Setup!Steps
    BY <2>1 DEF SetupInv, SetupTypes, Setup!Steps
  <2>5. outer' \in Outers /\ outer'.active = outer.active /\ outer'.resolver = outer.resolver
    BY <2>1 DEF SetupInv, SetupTypes
  <2>6. /\ broken \subseteq broken' /\ ("growfs" \in broken' \/ step # "growfs")
        /\ "immutable" \in broken' \/ step # "immutable"
    BY <2>1
  <2> QED BY <2>1, <2>3, <2>4, <2>5, <2>6, NotPast
<1>3. CASE Setup!restartNetworkFails
  <2>1. /\ UNCHANGED <<sys, want, disk, ip, guest, starts>> /\ step = "resolver"
        /\ step' = "none" /\ result' = "error" /\ broken' = broken \cup {"resolver"}
        /\ outer' = [outer EXCEPT !.resolver = ip]
    BY <1>3 DEF Setup!restartNetworkFails, Setup!None, Setup!At
  <2>2. outer' \in Outers /\ outer'.active = outer.active
    BY <2>1 DEF SetupInv, SetupTypes, Outers
  <2>3. broken' \subseteq Setup!Steps
    BY <2>1 DEF SetupInv, SetupTypes, Setup!Steps
  <2> QED BY <2>1, <2>2, <2>3, NotPast DEF SetupInv, SetupTypes, DiskSame, MountSame
<1> QED BY <1>1, <1>2, <1>3

\* Before the first start nothing has been done.
LEMMA InitSetupInv == Setup!Init => SetupInv
<1> SUFFICES ASSUME Setup!Init PROVE SetupInv
  OBVIOUS
<1> USE DEF Setup!Init, Setup!None, Setup!Dhcp
<1>1. guest \in Guests /\ outer \in Outers
  BY SetupAssumption, SMT, SMTT(60) DEF Guests, Outers, IPs
<1>2. SetupTypes
  BY <1>1, SetupAssumption, SMT, SMTT(60) DEF SetupTypes, IPs, Setup!Steps
<1>3. SetupControl /\ Grown /\ Named /\ Mounted
  BY DEF SetupControl, Grown, Named, Mounted, Past, Setup!Started
<1>4. InHosts /\ Resolves /\ Answering /\ Settled
  BY DEF InHosts, Resolves, Answering, Past, Settled, Setup!Started
<1> QED BY <1>2, <1>3, <1>4 DEF SetupInv

\* Every step of a start keeps what the ones before it have done.
LEMMA NextSetupInv == SetupInv /\ [Setup!Next]_(Setup!vars) => SetupInv'
<1> SUFFICES ASSUME SetupInv, [Setup!Next]_(Setup!vars) PROVE SetupInv'
  OBVIOUS
<1> USE DEF Setup!At, Setup!None, Setup!Done
<1>1. CASE UNCHANGED Setup!vars
  <2>1. UNCHANGED <<sys, want, disk, ip, guest, outer, step, result, broken, starts>>
    BY <1>1 DEF Setup!vars
  <2>2. SetupTypes'
    BY <2>1, TypesKept DEF SetupInv, SetupTypes
  <2>3. SetupControl' /\ Grown' /\ Named' /\ Mounted'
    <3>1. SetupControl'
      BY <2>1 DEF SetupInv, SetupControl, OwnNetwork, Past, Setup!Started
    <3>2. Grown'
      BY <2>1 DEF SetupInv, Grown, Past, Setup!Started
    <3>3. Named'
      BY <2>1 DEF SetupInv, Named, Past, Setup!Started
    <3>4. Mounted'
      BY <2>1 DEF SetupInv, Mounted, Past, Setup!Started
    <3> QED
      BY <3>1, <3>2, <3>3, <3>4
  <2>4. InHosts' /\ Resolves' /\ Settled'
    BY <2>1 DEF SetupInv, InHosts, Resolves, Settled, OwnNetwork, Setup!Started
  <2>5. Answering'
    BY <2>1 DEF SetupInv, Answering, Past, Setup!Started
  <2> QED BY <2>2, <2>3, <2>4, <2>5 DEF SetupInv
<1>2. CASE Setup!Boot
  BY <1>2, BootKeeps
<1>3. CASE Setup!WaitForConnectivity
  BY <1>3, SkipKeeps, EndsKeep DEF Setup!WaitForConnectivity, NothingToDo
<1>4. CASE Setup!updateSSHKeyPair
  <2>1. guest.ignition \in BOOLEAN
    BY DEF SetupInv, SetupTypes, Guests
  <2> QED BY <1>4, <2>1, SkipKeeps, KeysKeep DEF Setup!updateSSHKeyPair, NothingToDo
<1>5. CASE Setup!growRootFileSystem
  BY <1>5, SkipKeeps, GrowpartKeeps DEF Setup!growRootFileSystem, NothingToDo
<1>6. CASE Setup!growfs
  BY <1>6, GrowfsKeeps DEF Setup!growfs
<1>7. CASE Setup!addNameServerToInstance
  BY <1>7, SkipKeeps, NameserverKeeps DEF Setup!addNameServerToInstance, NothingToDo
<1>8. CASE Setup!makeMutable
  BY <1>8, SkipKeeps, MutableKeeps DEF Setup!makeMutable, Setup!OutsideHome, NothingToDo
<1>9. CASE Setup!makeImmutable
  BY <1>9, SkipKeeps, ImmutableKeeps DEF Setup!makeImmutable, Setup!OutsideHome, NothingToDo
<1>10. CASE Setup!configureSharedDirs
  BY <1>10, MountKeeps DEF Setup!configureSharedDirs
<1>11. CASE Setup!ChmodSocket
  BY <1>11, SocketKeeps DEF Setup!ChmodSocket
<1>12. CASE Setup!configurePodmanProxy
  BY <1>12, SkipKeeps, ProxyKeeps DEF Setup!configurePodmanProxy, NothingToDo
<1>13. CASE Setup!RemoveFromHostsFile
  BY <1>13, RemoveKeepsHosts DEF Setup!RemoveFromHostsFile
<1>14. CASE Setup!AddToHostsFile
  BY <1>14, AddKeepsHosts DEF Setup!AddToHostsFile, OwnNetwork
<1>15. CASE Setup!WriteCockpitToken
  BY <1>15, HostTokenKeeps DEF Setup!WriteCockpitToken
<1>16. CASE Setup!updateCockpitConsoleBearerToken
  BY <1>16, TokenKeeps DEF Setup!updateCockpitConsoleBearerToken
<1>17. CASE Setup!createDnsmasqDNSConfig
  BY <1>17, SkipKeeps, ConfKeeps DEF Setup!createDnsmasqDNSConfig, NothingToDo
<1>18. CASE Setup!EnableDnsmasq
  BY <1>18, SkipKeeps, EnableKeeps DEF Setup!EnableDnsmasq, NothingToDo
<1>19. CASE Setup!StartDnsmasq
  BY <1>19, SkipKeeps, DnsStartKeeps
     DEF Setup!StartDnsmasq, NothingToDo, Setup!AfterDnsmasq, OwnNetwork, SetupInv, SetupControl
<1>20. CASE Setup!setInterfaceNameserver
  BY <1>20, InterfaceKeeps DEF Setup!setInterfaceNameserver
<1>21. CASE Setup!createResolverFile
  BY <1>21, SkipKeeps, ResolverKeeps DEF Setup!createResolverFile, NothingToDo
<1>22. CASE Setup!restartNetworkFails
  BY <1>22, EndsKeep
<1>23. CASE Setup!CreateResolvFileOnInstance
  BY <1>23, ResolvKeeps DEF Setup!CreateResolvFileOnInstance
<1>24. CASE Setup!CheckCRCLocalDNSReachable
  BY <1>24, SkipKeeps, EndsKeep DEF Setup!CheckCRCLocalDNSReachable, NothingToDo
<1>25. CASE Setup!CheckCRCLocalDNSReachableFromHost
  BY <1>25, SkipKeeps, EndsKeep
     DEF Setup!CheckCRCLocalDNSReachableFromHost, Setup!APILookup, NothingToDo, OwnNetwork
<1>26. CASE Setup!CommandFails
  BY <1>26, EndsKeep
<1>27. CASE Setup!Rest
  BY <1>1, <1>27 DEF Setup!Rest
<1> QED
  BY <1>1, <1>2, <1>3, <1>4, <1>5, <1>6, <1>7, <1>8, <1>9, <1>10, <1>11, <1>12, <1>13, <1>14, <1>15,
     <1>16, <1>17, <1>18, <1>19, <1>20, <1>21, <1>22, <1>23, <1>24, <1>25, <1>26, <1>27 DEF Setup!Next

(***************************************************************************)
(* A start that has come to a step has done what the steps before it are   *)
(* for (client.Start), on every system, for every setting it may be given  *)
(* and after any number of starts that failed anywhere.                    *)
(***************************************************************************)
THEOREM SetupInvariant == Setup!Spec => []SetupInv
BY InitSetupInv, NextSetupInv, PTL DEF Setup!Spec

-----------------------------------------------------------------------------
(***************************************************************************)
(* The parts together.  Each of them is a behaviour of its own, the        *)
(* settings with the instance that the part says.                          *)
(***************************************************************************)
LEMMA InstanceParts == InstanceSpec => Spec /\ Setup!Spec
<1>1. InstanceInit => Init /\ Setup!Init
  BY DEF InstanceInit
<1>2. [InstanceNext]_all => [Next]_vars /\ [Setup!Next]_(Setup!vars)
  BY DEF InstanceNext, all, vars, setup, Setup!vars
<1> QED
  BY <1>1, <1>2, PTL DEF InstanceSpec, Spec, Setup!Spec

IsRequests == part = "requests"

\* A behaviour of the first part of the settings is one of Settings,
LEMMA PresetPart == InstanceSpec /\ ~IsRequests => Preset!Spec /\ []~IsRequests
<1>1. InstanceInit /\ ~IsRequests => Preset!Init
  BY DEF InstanceInit, IsRequests
<1>2. [InstanceNext]_all /\ ~IsRequests => [Preset!Next]_(Preset!vars) /\ ~IsRequests'
  BY DEF InstanceNext, IsRequests, all, settings, Preset!vars
<1> QED
  BY <1>1, <1>2, PTL DEF InstanceSpec, Preset!Spec

\* and so is one of the second.
LEMMA RequestsPart == InstanceSpec /\ IsRequests => Requests!Spec /\ []IsRequests
<1>1. InstanceInit /\ IsRequests => Requests!Init
  BY DEF InstanceInit, IsRequests
<1>2. [InstanceNext]_all /\ IsRequests => [Requests!Next]_(Requests!vars) /\ IsRequests'
  BY DEF InstanceNext, IsRequests, all, settings, Requests!vars
<1> QED
  BY <1>1, <1>2, PTL DEF InstanceSpec, Requests!Spec

\* What the guest can be, in one formula.
LEMMA SetupTypeOK == SetupInv => Setup!TypeOK
<1>1. SUFFICES ASSUME SetupTypes PROVE Setup!TypeOK
  BY DEF SetupInv
<1> QED
  BY <1>1, SMT, SMTT(60) DEF SetupTypes, Setup!TypeOK, Setup!None, Setup!Empty, Setup!Gateway, Setup!Dnsmasq, Setup!Dhcp,
     IPs, Guests, Outers

(***************************************************************************)
(* For every system, disk, set of name servers and number of starts, and   *)
(* wherever the earlier ones failed, a start that reports success has      *)
(* established what client.Start is for.                                   *)
(***************************************************************************)
THEOREM InstanceStartEstablishes == InstanceSpec => []StartEstablishes
<1>1. SetupInv => StartEstablishes
  <2>1. SUFFICES ASSUME SetupInv PROVE StartEstablishes
    OBVIOUS
  <2>2. Setup!Started => step = "none" /\ \A steps : Past(steps)
    BY DEF Setup!Started, Setup!None, Past
  <2>3. Setup!GrownUnlessTorn
    BY <2>1, <2>2 DEF SetupInv, Grown, Setup!GrownUnlessTorn
  <2>4. Setup!NameserverKept
    BY <2>1, <2>2 DEF SetupInv, Named, Setup!NameserverKept, Setup!None
  <2>5. Setup!SharedAndSealed
    BY <2>1, <2>2 DEF SetupInv, Mounted, Setup!SharedAndSealed
  <2>6. Setup!HostsCurrent
    BY <2>1, <2>2 DEF SetupInv, InHosts, Setup!HostsCurrent, OwnNetwork
  <2>7. Setup!ResolverUnlessTorn
    BY <2>1, <2>2 DEF SetupInv, Resolves, Setup!ResolverUnlessTorn, OwnNetwork
  <2>9. Setup!AnswersChecked
    BY <2>1, <2>2 DEF SetupInv, Resolves, Answering, Setup!AnswersChecked, OwnNetwork
  <2>8. Setup!PodmanSettled
    BY <2>1, <2>2 DEF SetupInv, Settled, Setup!PodmanSettled, Setup!None
  <2> QED BY <2>3, <2>4, <2>5, <2>6, <2>7, <2>8, <2>9 DEF StartEstablishes
<1> QED
  BY <1>1, InstanceParts, SetupInvariant, PTL

(***************************************************************************)
(* For every set of handlers and commands and every size that may be       *)
(* asked, "crc start" hands on a memory size and a number of CPUs that go  *)
(* with the preset it hands on, if it has been alone with the settings     *)
(* (validateStartFlags before the reads of runStart).                      *)
(***************************************************************************)
THEOREM InstanceStartsWithinBounds == InstanceSpec => []CommandStartsWithinBounds
<1>1. Preset!Spec => []Preset!CommandStartsWithinBounds
  BY SettingsAssumption, Preset!SettingsStartWithinBounds
<1>2. Preset!CommandStartsWithinBounds \/ IsRequests => CommandStartsWithinBounds
  BY DEF CommandStartsWithinBounds, IsRequests
<1> QED
  BY <1>1, <1>2, PresetPart, RequestsPart, PTL

(***************************************************************************)
(* A request to set or unset settings, of any number of them, that reports *)
(* success and has been alone has stored every one of them (SetConfig and  *)
(* UnsetConfig of the API).                                                *)
(***************************************************************************)
THEOREM InstanceSuccessMeansStored == InstanceSpec => []SuccessMeansStored
<1>1. Requests!Spec => []Requests!SuccessMeansStored
  BY SettingsAssumption, Requests!SettingsSuccessMeansStored
<1>2. Requests!SuccessMeansStored \/ ~IsRequests => SuccessMeansStored
  BY DEF SuccessMeansStored, IsRequests
<1> QED
  BY <1>1, <1>2, PresetPart, RequestsPart, PTL

(***************************************************************************)
(* With one process at the store of the machine, and any number of them at *)
(* the settings, what is stored agrees with what was reported.             *)
(***************************************************************************)
THEOREM OneProcessStoredAsReported == OneProcess => (InstanceSpec => []StoredAsReported)
<1>1. Preset!Spec => []Preset!TypeOK /\ []Preset!ReportsCurrentDefaults
  BY SettingsAssumption, Preset!SettingsTypes, Preset!SettingsReportDefaults
<1>2. Requests!Spec => []Requests!TypeOK
  BY SettingsAssumption, Requests!SettingsTypes
<1>3. ASSUME IInv, SetupInv,
             \/ ~IsRequests /\ Preset!TypeOK /\ Preset!ReportsCurrentDefaults
             \/ IsRequests /\ Requests!TypeOK
      PROVE  StoredAsReported
  <2>1. TypesOK
    BY <1>3, SetupTypeOK DEF IInv, IsRequests, TypesOK
  <2>2. part = "preset" => Preset!ReportsCurrentDefaults
    BY <1>3 DEF IsRequests
  <2> QED BY <1>3, <2>1, <2>2 DEF IInv, StoredAsReported
<1> QED
  BY <1>1, <1>2, <1>3, InstanceParts, PresetPart, RequestsPart, OneProcessIInv, SetupInvariant, PTL

=============================================================================

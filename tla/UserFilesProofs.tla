-------------------------- MODULE UserFilesProofs --------------------------
(***************************************************************************)
(* Within one process, for any number of threads, settings and values, and *)
(* whatever writes fail and however often the process dies, ConfigFile     *)
(* implements SettingsStore.  Several processes keep crc.json whole.  The  *)
(* contexts crc keeps in a kubeconfig, for any paths, any entries of the   *)
(* user's and any number of instances, are those of the instance.          *)
(***************************************************************************)
EXTENDS UserFiles, TLAPS

\* All threads are of one process.
OneProcess == \A s, t \in Threads : process[s] = process[t]

IInv == TypeOK /\ SeenIsCurrent

\* Nobody has read the file at the beginning.
LEMMA InitIInv == Init => IInv
<1> SUFFICES ASSUME Init PROVE IInv
  OBVIOUS
<1> USE FaultsAssumption, FilesAssumption DEF Init
<1>1. NoSettings \in Settings
  BY DEF NoSettings, Settings
<1>2. TypeOK
  BY <1>1 DEF TypeOK, NoResult, Errors, Absent
<1>3. SeenIsCurrent
  BY DEF SeenIsCurrent, At
<1> QED
  BY <1>2, <1>3 DEF IInv

\* What an operation makes of settings is again settings.
LEMMA ChangedType ==
  ASSUME NEW settings \in Settings, NEW o \in Operations
  PROVE  Changed(settings, o) \in Settings
BY DEF Changed, Settings, Operations

\* A return forgets the thread's call and nothing of the others.
LEMMA ReturnType ==
  ASSUME TypeOK, NEW t \in Threads, NEW err \in Errors, NEW value \in Values \cup {NoValue},
         Return(t, err, value)
  PROVE  /\ storeLock' \in [Procs -> Threads \cup {NoThread}]
         /\ pc' \in [Threads -> {"idle", "called", "create", "fill", "read", "write"}]
         /\ op' \in [Threads -> Operations \cup {NoOperation}]
         /\ cfg' \in [Threads -> Settings]
         /\ result' \in [Threads -> [err : Errors, value : Values \cup {NoValue}]]
         /\ pc'[t] = "idle"
         /\ \A s \in Threads \ {t} : pc'[s] = pc[s] /\ op'[s] = op[s] /\ cfg'[s] = cfg[s]
<1>1. NoSettings \in Settings
  BY DEF NoSettings, Settings
<1> QED
  BY <1>1, ProcessAssumption DEF Return, Go, Forget, TypeOK

\* A thread past the lock is the only one of its process.
LEMMA Alone ==
  ASSUME IInv, OneProcess, NEW s \in Threads, NEW t \in Threads,
         pc[s] \in {"create", "fill", "read", "write"},
         pc[t] \in {"create", "fill", "read", "write"}
  PROVE  s = t
BY DEF IInv, SeenIsCurrent, OneProcess

\* A failed write changes no more than a return does.
LEMMA FailType ==
  ASSUME TypeOK, NEW t \in Threads, Fail(t)
  PROVE  TypeOK'
<1>1. PICK err \in Errors : Return(t, err, NoValue)
  BY DEF Fail, Errors
<1>2. faults' \in 0..MaxFaults
  BY FaultsAssumption DEF Fail, Fault, TypeOK
<1> QED
  BY <1>1, <1>2, ReturnType DEF TypeOK, Fail

\* Every step keeps the types,
LEMMA NextTypeOK == IInv /\ [Next]_vars => TypeOK'
<1> SUFFICES ASSUME IInv, [Next]_vars PROVE TypeOK'
  OBVIOUS
<1> USE ProcessAssumption, FaultsAssumption
<1>0. TypeOK /\ NoSettings \in Settings
  BY DEF IInv, NoSettings, Settings
<1>1. ASSUME NEW t \in Threads, Call(t) PROVE TypeOK'
  BY <1>0, <1>1 DEF Call, TypeOK, At, Go, NoResult, Errors
<1>2. ASSUME NEW t \in Threads, LockAndStat(t) PROVE TypeOK'
  BY <1>0, <1>2 DEF LockAndStat, TypeOK, At, Go
<1>3. ASSUME NEW t \in Threads, Create(t) PROVE TypeOK'
  BY <1>0, <1>3, FailType DEF Create, TypeOK, Go
<1>4. ASSUME NEW t \in Threads, Fill(t) PROVE TypeOK'
  BY <1>0, <1>4, FailType DEF Fill, TypeOK, Go, Whole
<1>5. ASSUME NEW t \in Threads, Get(t) PROVE TypeOK'
  <2>1. PICK value : Return(t, "ok", value) /\ value \in Values \cup {NoValue}
    BY <1>0, <1>5, OverridesAssumption, SMT, SMTT(60)
       DEF Get, TypeOK, At, Settings, SeenIsCurrent, IInv, Operations, Absent, Truncated, NoSettings
  <2> QED
    BY <1>0, <1>5, <2>1, ReturnType DEF TypeOK, Get, Errors
<1>6. ASSUME NEW t \in Threads, Read(t) PROVE TypeOK'
  <2>1. op[t] \in Operations
    BY <1>6 DEF IInv, SeenIsCurrent, Read, At
  <2>2. CASE file.is = "whole" /\ cfg' = [cfg EXCEPT ![t] = Changed(file.cfg, op[t])]
             /\ Go(t, "write") /\ UNCHANGED <<storeLock, op, result>>
    <3>1. file.cfg \in Settings
      BY <1>0, <2>2 DEF TypeOK, Absent, Truncated
    <3> QED
      BY <1>0, <1>6, <2>1, <2>2, <3>1, ChangedType DEF TypeOK, Read, Go
  <2>3. CASE Return(t, "error", NoValue)
    BY <1>0, <1>6, <2>3, ReturnType DEF TypeOK, Read, Errors
  <2> QED
    BY <1>6, <2>2, <2>3 DEF Read
<1>7. ASSUME NEW t \in Threads, atomicWrite(t) PROVE TypeOK'
  <2>1. CASE file' = Whole(cfg[t]) /\ Return(t, "ok", NoValue) /\ UNCHANGED faults
    BY <1>0, <2>1, ReturnType DEF TypeOK, Whole, Errors
  <2> QED
    BY <1>0, <1>7, <2>1, FailType DEF atomicWrite
<1>8. ASSUME NEW p \in Procs, Die(p) PROVE TypeOK'
  BY <1>0, <1>8 DEF Die, TypeOK, Fault, Forget, Errors
<1>9. CASE UNCHANGED vars
  BY <1>0, <1>9 DEF TypeOK, vars
<1> QED
  BY <1>1, <1>2, <1>3, <1>4, <1>5, <1>6, <1>7, <1>8, <1>9
     DEF Next, Step, ensureConfigFileExists, Set, Unset

\* A thread that returns leaves to the others what they have seen, if the file stays
\* or the others are not past the lock.
LEMMA ReturnSeen ==
  ASSUME IInv, OneProcess, NEW t \in Threads, NEW err \in Errors,
         NEW value \in Values \cup {NoValue},
         pc[t] \in {"create", "fill", "read", "write"}, Return(t, err, value)
  PROVE  SeenIsCurrent'
<1>1. \A s \in Threads \ {t} : pc'[s] \notin {"create", "fill", "read", "write"} /\ op'[s] = op[s]
                                /\ pc'[s] = pc[s]
  BY Alone, ReturnType DEF IInv
<1>2. pc'[t] = "idle"
  BY ReturnType DEF IInv
<1> QED
  BY <1>1, <1>2 DEF SeenIsCurrent, IInv, At

\* and what was read is what the file has, within one process.
LEMMA NextSeen == OneProcess /\ IInv /\ [Next]_vars => SeenIsCurrent'
<1> SUFFICES ASSUME OneProcess, IInv, [Next]_vars PROVE SeenIsCurrent'
  OBVIOUS
<1> USE ProcessAssumption, NamesAssumption
<1>0. TypeOK /\ SeenIsCurrent
  BY DEF IInv
<1>1. ASSUME NEW t \in Threads, Call(t) PROVE SeenIsCurrent'
  BY <1>0, <1>1 DEF Call, SeenIsCurrent, TypeOK, At, Go
<1>2. ASSUME NEW t \in Threads, LockAndStat(t) PROVE SeenIsCurrent'
  <2>1. \A s \in Threads : pc[s] \notin {"create", "fill", "read", "write"}
    BY <1>0, <1>2 DEF LockAndStat, SeenIsCurrent, OneProcess
  <2>2. file.is = "absent" => file = Absent
    BY <1>0 DEF TypeOK, Truncated
  <2>3. /\ \A s \in Threads \ {t} : pc'[s] = pc[s]
        /\ pc'[t] = IF file.is = "absent" THEN "create" ELSE "read"
        /\ storeLock'[process[t]] = t /\ pc[t] = "called"
        /\ file' = file /\ op' = op /\ cfg' = cfg
    BY <1>0, <1>2 DEF LockAndStat, TypeOK, Go, At
  <2> QED
    BY <1>0, <2>1, <2>2, <2>3 DEF SeenIsCurrent, At
<1>3. ASSUME NEW t \in Threads, pc[t] \in {"create", "fill", "read", "write"}, Fail(t)
      PROVE  SeenIsCurrent'
  <2>1. PICK err \in Errors : Return(t, err, NoValue)
    BY <1>3 DEF Fail, Errors
  <2> QED
    BY <1>3, <2>1, ReturnSeen
<1>4. ASSUME NEW t \in Threads, Create(t) PROVE SeenIsCurrent'
  <2>1. \A s \in Threads \ {t} : pc[s] \notin {"create", "fill", "read", "write"}
    BY <1>4, Alone DEF Create, At
  <2>2. CASE file' = Truncated /\ Go(t, "fill") /\ UNCHANGED <<storeLock, op, cfg, result, faults>>
    BY <1>0, <1>4, <2>1, <2>2 DEF Create, SeenIsCurrent, TypeOK, At, Go
  <2> QED
    BY <1>3, <1>4, <2>2 DEF Create, At
<1>5. ASSUME NEW t \in Threads, Fill(t) PROVE SeenIsCurrent'
  <2>1. \A s \in Threads \ {t} : pc[s] \notin {"create", "fill", "read", "write"}
    BY <1>5, Alone DEF Fill, At
  <2>2. CASE Go(t, "read") /\ UNCHANGED <<storeLock, op, cfg, result, faults>>
    BY <1>0, <1>5, <2>1, <2>2 DEF Fill, SeenIsCurrent, TypeOK, At, Go
  <2> QED
    BY <1>3, <1>5, <2>2 DEF Fill, At
<1>6. ASSUME NEW t \in Threads, Get(t) PROVE SeenIsCurrent'
  <2>1. PICK value : Return(t, "ok", value) /\ value \in Values \cup {NoValue}
    BY <1>0, <1>6, OverridesAssumption
       DEF Get, TypeOK, At, Settings, SeenIsCurrent, Operations, Absent, Truncated, NoSettings
  <2> QED
    BY <1>6, <2>1, ReturnSeen DEF Get, At, Errors
<1>7. ASSUME NEW t \in Threads, Read(t) PROVE SeenIsCurrent'
  <2>1. \A s \in Threads \ {t} : pc[s] \notin {"create", "fill", "read", "write"}
    BY <1>7, Alone DEF Read, At
  <2>2. CASE file.is = "whole" /\ cfg' = [cfg EXCEPT ![t] = Changed(file.cfg, op[t])]
             /\ Go(t, "write") /\ UNCHANGED <<storeLock, op, result>>
    BY <1>0, <1>7, <2>1, <2>2 DEF Read, SeenIsCurrent, TypeOK, At, Go
  <2>3. CASE Return(t, "error", NoValue)
    BY <1>7, <2>3, ReturnSeen DEF Read, At, Errors
  <2> QED
    BY <1>7, <2>2, <2>3 DEF Read
<1>8. ASSUME NEW t \in Threads, atomicWrite(t) PROVE SeenIsCurrent'
  <2>1. CASE Return(t, "ok", NoValue)
    BY <1>8, <2>1, ReturnSeen DEF atomicWrite, At, Errors
  <2> QED
    BY <1>3, <1>8, <2>1 DEF atomicWrite, At
<1>9. ASSUME NEW p \in Procs, Die(p) PROVE SeenIsCurrent'
  BY <1>0, <1>9 DEF Die, SeenIsCurrent, TypeOK, Forget, At, OneProcess
<1>10. CASE UNCHANGED vars
  BY <1>0, <1>10 DEF SeenIsCurrent, vars, At
<1> QED
  BY <1>1, <1>2, <1>4, <1>5, <1>6, <1>7, <1>8, <1>9, <1>10
     DEF Next, Step, ensureConfigFileExists, Set, Unset

(***************************************************************************)
(* Within one process a thread that has taken storeLock is alone with      *)
(* crc.json, and what it has seen of the file stays true until it writes.  *)
(***************************************************************************)
THEOREM OneProcessSeenIsCurrent == OneProcess => (Spec => [](TypeOK /\ SeenIsCurrent))
<1> SUFFICES ASSUME OneProcess PROVE Spec => [](TypeOK /\ SeenIsCurrent)
  OBVIOUS
<1>1. IInv /\ [Next]_vars => IInv'
  BY NextTypeOK, NextSeen DEF IInv
<1> QED
  BY <1>1, InitIInv, PTL DEF Spec, IInv

(***************************************************************************)
(* Within one process the calls of any number of threads change the stored *)
(* settings one at a time, the effect of a Set or an Unset being at the    *)
(* rename of atomicWrite; failed writes and deaths change none.            *)
(***************************************************************************)
THEOREM OneProcessChangesOneSetting == OneProcess => (Spec => ChangesOneSetting)
<1> SUFFICES ASSUME OneProcess PROVE Spec => ChangesOneSetting
  OBVIOUS
<1>1. Init => Store!Init
  BY FilesAssumption DEF Init, Store!Init, Settings, Absent, NoSettings
<1>2. IInv /\ [Next]_vars => [Store!Next]_(file.cfg)
  <2> SUFFICES ASSUME IInv, [Next]_vars, file'.cfg # file.cfg PROVE Store!Next
    BY DEF Store!Next
  <2>1. PICK t \in Threads : atomicWrite(t)
    <3>1. ASSUME NEW t \in Threads, Create(t) PROVE FALSE
      <4>1. file = Absent
        BY <3>1 DEF Create, At, IInv, SeenIsCurrent
      <4> QED BY <3>1, <4>1, SMT, SMTT(60) DEF Create, Fail, Absent, Truncated
    <3>2. ASSUME NEW t \in Threads, Fill(t) PROVE FALSE
      <4>1. file = Truncated
        BY <3>2 DEF Fill, At, IInv, SeenIsCurrent
      <4> QED BY <3>2, <4>1, SMT, SMTT(60) DEF Fill, Fail, Truncated, Whole
    <3> QED
      BY <3>1, <3>2 DEF Next, vars, Step, ensureConfigFileExists, Set, Unset, Call, LockAndStat,
                        Get, Read, Die
  <2>2. file'.cfg = Changed(file.cfg, op[t]) /\ op[t] \in Operations
    BY <2>1, SMT, SMTT(60) DEF atomicWrite, Fail, Whole, IInv, SeenIsCurrent, At
  <2> QED
    BY <2>2 DEF Store!Next, Store!Set, Store!Unset, Changed, Operations
<1> QED
  BY <1>1, <1>2, OneProcessSeenIsCurrent, PTL DEF Spec, ChangesOneSetting, Store!Spec, IInv

-----------------------------------------------------------------------------
(***************************************************************************)
(* crc.json used by several processes.                                     *)
(***************************************************************************)

\* Nobody who finds the file there creates it.
BothInv ==
  /\ Both!TypeOK /\ shared.is = "whole"
  /\ \A t \in Users : /\ at[t] \notin {"create", "fill"}
                      /\ at[t] # "idle" => call[t] \in Both!Operations

\* A return forgets the thread's call and nothing of the others.
LEMMA BothReturns ==
  ASSUME BothInv, NEW t \in Users, NEW err \in Both!Errors, NEW value \in Values \cup {NoValue},
         Both!Return(t, err, value), failures' \in 0..MaxFailures,
         shared' \in [is : {"whole"}, cfg : Both!Settings]
  PROVE  BothInv'
<1>1. Both!NoSettings \in Both!Settings
  BY DEF Both!NoSettings, Both!Settings
<1>2. /\ lock' \in [Programs -> Users \cup {NoThread}]
      /\ at' = [at EXCEPT ![t] = "idle"]
      /\ call' \in [Users -> Both!Operations \cup {Both!NoOperation}]
      /\ copy' \in [Users -> Both!Settings]
      /\ answer' \in [Users -> [err : Both!Errors, value : Values \cup {NoValue}]]
      /\ \A u \in Users : u # t => call'[u] = call[u]
  BY <1>1, BothAssumption DEF Both!Return, Both!Go, Both!Forget, BothInv, Both!TypeOK
<1> QED BY <1>2 DEF BothInv, Both!TypeOK

\* A write that fails leaves the file.
LEMMA BothFails ==
  ASSUME BothInv, NEW t \in Users, Both!Fail(t)
  PROVE  BothInv'
<1>1. PICK err \in Both!Errors : Both!Return(t, err, NoValue)
  BY DEF Both!Fail, Both!Errors
<1>2. failures' \in 0..MaxFailures
  BY BothAssumption DEF Both!Fail, Both!Fault, BothInv, Both!TypeOK
<1>3. shared' \in [is : {"whole"}, cfg : Both!Settings]
  BY DEF Both!Fail, BothInv, Both!TypeOK, Both!Absent, Both!Truncated
<1> QED BY <1>1, <1>2, <1>3, BothReturns

\* Whatever the threads of any number of processes do to a file that is there, it is whole.
LEMMA BothNext == BothInv /\ [Both!Next]_(Both!vars) => BothInv'
<1> SUFFICES ASSUME BothInv, [Both!Next]_(Both!vars) PROVE BothInv'
  OBVIOUS
<1>0. /\ shared \in [is : {"whole"}, cfg : Both!Settings] /\ Both!NoSettings \in Both!Settings
      /\ failures \in 0..MaxFailures
  BY DEF BothInv, Both!TypeOK, Both!Absent, Both!Truncated, Both!NoSettings, Both!Settings
<1>1. ASSUME NEW t \in Users, Both!Call(t) PROVE BothInv'
  BY <1>1 DEF Both!Call, BothInv, Both!TypeOK, Both!At, Both!Go, Both!NoResult, Both!Errors
<1>2. ASSUME NEW t \in Users, Both!LockAndStat(t) PROVE BothInv'
  BY <1>2, BothAssumption DEF Both!LockAndStat, BothInv, Both!TypeOK, Both!At, Both!Go
<1>3. ASSUME NEW t \in Users, Both!ensureConfigFileExists(t) PROVE BothInv'
  BY <1>3 DEF Both!ensureConfigFileExists, Both!Create, Both!Fill, Both!At, BothInv
<1>4. ASSUME NEW t \in Users, Both!Get(t) PROVE BothInv'
  <2>1. PICK value : Both!Return(t, "ok", value) /\ value \in Values \cup {NoValue}
    BY <1>0, <1>4, BothAssumption, SMT, SMTT(60) DEF Both!Get, BothInv, Both!At, Both!Settings, Settings, Both!Operations
  <2> QED BY <1>0, <1>4, <2>1, BothReturns DEF Both!Get, Both!Errors
<1>5. ASSUME NEW t \in Users, Both!Read(t) PROVE BothInv'
  <2>1. call[t] \in Both!Operations /\ shared.is = "whole"
    BY <1>5 DEF Both!Read, Both!At, BothInv
  <2>2. Both!Changed(shared.cfg, call[t]) \in Both!Settings
    BY <1>0, <2>1 DEF Both!Changed, Both!Settings, Both!Operations
  <2> QED BY <1>5, <2>1, <2>2, SMT, SMTT(60) DEF Both!Read, Both!Go, BothInv, Both!TypeOK
<1>6. ASSUME NEW t \in Users, Both!atomicWrite(t) PROVE BothInv'
  <2>1. CASE shared' = Both!Whole(copy[t]) /\ Both!Return(t, "ok", NoValue) /\ UNCHANGED failures
    <3>1. shared' \in [is : {"whole"}, cfg : Both!Settings]
      BY <2>1 DEF Both!Whole, BothInv, Both!TypeOK
    <3> QED BY <1>0, <2>1, <3>1, BothReturns DEF Both!Errors
  <2> QED BY <1>6, <2>1, BothFails DEF Both!atomicWrite
<1>7. ASSUME NEW p \in Programs, Both!Die(p) PROVE BothInv'
  BY <1>0, <1>7, BothAssumption, SMT, SMTT(60) DEF Both!Die, Both!Fault, Both!Forget, Both!Errors, BothInv, Both!TypeOK
<1>8. CASE UNCHANGED Both!vars
  BY <1>8 DEF Both!vars, BothInv, Both!TypeOK
<1> QED BY <1>1, <1>2, <1>3, <1>4, <1>5, <1>6, <1>7, <1>8
        DEF Both!Next, Both!Step, Both!Set, Both!Unset

\* A file that several processes use is there and whole, at every step.
LEMMA BothWhole == Both!Spec => []BothInv
<1>1. Both!Init => BothInv
  <2> SUFFICES ASSUME Both!Init PROVE BothInv
    OBVIOUS
  <2>1. Both!NoSettings \in Both!Settings /\ Both!Settings = Settings
    BY DEF Both!NoSettings, Both!Settings, Settings
  <2> QED BY <2>1, BothAssumption DEF Both!Init, BothInv, Both!TypeOK, Both!NoResult, Both!Errors
<1> QED BY <1>1, BothNext, PTL DEF Both!Spec

-----------------------------------------------------------------------------
(***************************************************************************)
(* The contexts in the kubeconfig of the user.                             *)
(***************************************************************************)

\* The one that runs a command, and the file it writes to.
Crc == proc["crc"]
Global == Kube!getGlobalKubeConfigPath

KubeCalls ==
  [pc : {"idle", "load", "change", "truncate", "write"}, command : {"none", "start", "delete"},
   path : Kube!KubeconfigFiles, cfg : Kube!Configurations,
   last : {"none", "notLoggedIn", "loggedIn", "notCleaned", "deleted"}]

\* A configuration whose current context is one it has, and whose tokens are used by one.
Sound(cf) ==
  /\ cf \in Kube!Configurations
  /\ ~cf.exists => cf.contexts = {}
  /\ cf.current = Kube!NoCurrent \/ \E e \in cf.contexts : e.name = cf.current
  /\ \A a \in Kube!Auths : cf.auths[a] \in 1..MaxInstances => \E e \in cf.contexts : e.auth = a

\* The contexts of crc with tokens of the instance that exists,
TokensOf(cf, i) ==
  \A e \in {Kube!Admin, Kube!Developer} : Kube!Usable(cf, e) /\ cf.auths[e.auth] = i

\* and none of them.
NoneLeft(cf) == \A e \in cf.contexts : e.cluster = "crc" => e \in UserEntries

KeepsOthers(old, new) ==
  \A e \in UserEntries : e.cluster # "crc" /\ Kube!Usable(old, e) => Kube!Usable(new, e)

KubeTypes ==
  /\ kubeconfig \in [Kube!KubeconfigFiles -> Kube!Configurations]
  /\ proc \in [{"crc"} -> KubeCalls]
  /\ created \in 0..MaxInstances /\ instance \in 0..created /\ crashes \in 0..MaxCrashes

\* What a command that has come this far knows of the file and makes of it.
KubeRest ==
  /\ \A path \in Kube!KubeconfigFiles : Sound(kubeconfig[path])
  /\ Crc.pc # "idle" => Crc.path = Global /\ Crc.command # "none"
  /\ Crc.pc # "idle" /\ Crc.command = "start" => instance # 0
  /\ Crc.pc = "load" /\ Crc.command = "start" => kubeconfig[Global].exists
  /\ Crc.pc = "change" => Crc.cfg = kubeconfig[Global] /\ Crc.cfg.exists
  /\ Crc.pc \in {"truncate", "write"} =>
       /\ Sound(Crc.cfg)
       /\ Crc.command = "start" => TokensOf(Crc.cfg, instance)
       /\ Crc.command = "delete" => NoneLeft(Crc.cfg)
  /\ Crc.pc = "truncate" => KeepsOthers(kubeconfig[Global], Crc.cfg)
  /\ Crc.pc = "write" => kubeconfig[Global] = Kube!Empty
  /\ Crc.pc = "idle" /\ Crc.last = "loggedIn" /\ instance # 0 => TokensOf(kubeconfig[Global], instance)
  /\ Crc.pc = "idle" /\ Crc.last = "deleted" => NoneLeft(kubeconfig[Global])

KubeInv == KubeTypes /\ KubeRest

\* The names of contexts, clusters and users, and the paths.
LEMMA KubeNames ==
  /\ Global \in Kube!KubeconfigFiles /\ Paths[1] \in Kube!KubeconfigFiles
  /\ Kube!Admin \in Kube!Contexts /\ Kube!Developer \in Kube!Contexts /\ UserEntries \subseteq Kube!Contexts
  /\ \A e \in Kube!Contexts : e.cluster \in Kube!Clusters /\ e.auth \in Kube!Auths
  /\ \A e, f \in Kube!Contexts : e.name = f.name => e = f
  /\ \A e \in UserEntries : e.name \notin {"crc-admin", "crc-developer"}
<1>1. Global \in Kube!KubeconfigFiles /\ Paths[1] \in Kube!KubeconfigFiles
  BY KubeAssumption DEF Global, Kube!getGlobalKubeConfigPath, Kube!KubeconfigFiles
<1>2. \A e \in Kube!Contexts : e.cluster \in Kube!Clusters /\ e.auth \in Kube!Auths
  BY DEF Kube!Clusters, Kube!Auths
<1>3. \A e \in UserEntries : e.name \notin {"crc-admin", "crc-developer"}
  BY KubeAssumption
<1>4. Kube!Admin.name = "crc-admin" /\ Kube!Developer.name = "crc-developer"
  BY DEF Kube!Admin, Kube!Developer
<1>5. \A e, f \in Kube!Contexts : e.name = f.name => e = f
  BY <1>3, <1>4, KubeAssumption DEF Kube!Contexts
<1> QED BY <1>1, <1>2, <1>3, <1>5 DEF Kube!Contexts

\* addContext replaces the context of that name and gives its user a token.
Adds(cf, e, new) ==
  /\ new \in Kube!Configurations
  /\ new.exists = cf.exists /\ new.clusters = cf.clusters /\ new.current = cf.current
  /\ new.contexts = {d \in cf.contexts : d.name # e.name} \cup {e}
  /\ \A a \in Kube!Auths : new.auths[a] = IF a = e.auth THEN instance ELSE cf.auths[a]

\* An addition of crc keeps what is of others.
LEMMA KubeAdds ==
  ASSUME instance \in 0..MaxInstances, NEW cf \in Kube!Configurations, NEW e \in Kube!Contexts
  PROVE  Adds(cf, e, Kube!addContext(cf, e))
<1>1. e.auth \in Kube!Auths
  BY KubeNames
<1>2. instance \in 0..Kube!Mine
  BY KubeAssumption DEF Kube!Mine
<1> QED BY <1>1, <1>2 DEF Adds, Kube!addContext, Kube!Configurations

\* What writeKubeconfig writes: both contexts are there with tokens of the instance, and a
\* context of the user's that could be used still can.
LEMMA KubeUpdates ==
  ASSUME NEW cf, Sound(cf), cf.exists, instance \in 1..MaxInstances, NEW new, new = Kube!Updated(cf)
  PROVE  Sound(new) /\ new.exists /\ TokensOf(new, instance) /\ KeepsOthers(cf, new)
<1> DEFINE c1 == [cf EXCEPT !.clusters = @ \cup {Kube!Cluster}]
           c2 == Kube!addContext(c1, Kube!Admin)
           c3 == Kube!addContext(c2, Kube!Developer)
<1>0. instance \in 0..MaxInstances
  BY KubeAssumption
<1>1. /\ c1 \in Kube!Configurations /\ c1.exists = cf.exists /\ c1.clusters = cf.clusters \cup {"crc"}
      /\ c1.contexts = cf.contexts /\ c1.auths = cf.auths /\ c1.current = cf.current
  <2>1. "crc" \in Kube!Clusters
    BY KubeNames DEF Kube!Admin, Kube!Cluster
  <2> QED BY <2>1 DEF Sound, Kube!Configurations, Kube!Cluster
<1>2. new = [c3 EXCEPT !.current = IF @ = Kube!NoCurrent THEN Kube!Admin.name ELSE @]
  BY DEF Kube!Updated
<1> HIDE DEF c1
<1>3. Adds(c1, Kube!Admin, c2)
  BY <1>0, <1>1, KubeAdds, KubeNames, Zenon
<1> HIDE DEF c2
<1>4. Adds(c2, Kube!Developer, c3)
  <2>1. c2 \in Kube!Configurations
    BY <1>3 DEF Adds
  <2> QED BY <1>0, <2>1, KubeAdds, KubeNames, Zenon
<1> HIDE DEF c3
<1>5. /\ new \in Kube!Configurations
      /\ new.exists = c3.exists /\ new.clusters = c3.clusters /\ new.contexts = c3.contexts
      /\ new.auths = c3.auths /\ new.current = IF c3.current = Kube!NoCurrent THEN "crc-admin" ELSE c3.current
  BY <1>2, <1>4, KubeNames DEF Adds, Kube!Configurations, Kube!Admin
<1>6. /\ Kube!Admin.name = "crc-admin" /\ Kube!Admin.auth = "kubeadmin" /\ Kube!Admin.cluster = "crc"
      /\ Kube!Developer.name = "crc-developer" /\ Kube!Developer.auth = "developer"
      /\ Kube!Developer.cluster = "crc"
  BY DEF Kube!Admin, Kube!Developer, Kube!Cluster
<1>7. /\ new.exists = cf.exists /\ new.clusters = cf.clusters \cup {"crc"}
      /\ cf.contexts \subseteq new.contexts /\ Kube!Admin \in new.contexts /\ Kube!Developer \in new.contexts
  <2>1. cf.contexts \subseteq Kube!Contexts
    BY DEF Sound, Kube!Configurations
  <2> QED BY <1>1, <1>3, <1>4, <1>5, <1>6, <2>1, KubeNames, SMT, SMTT(60) DEF Adds
<1>8. \A a \in Kube!Auths :
        new.auths[a] = IF a \in {"kubeadmin", "developer"} THEN instance ELSE cf.auths[a]
  BY <1>1, <1>3, <1>4, <1>5, <1>6, SMT, SMTT(60) DEF Adds
<1>9. new.current = IF cf.current = Kube!NoCurrent THEN "crc-admin" ELSE cf.current
  BY <1>1, <1>3, <1>4, <1>5 DEF Adds
<1>10. Sound(new)
  BY <1>5, <1>6, <1>7, <1>8, <1>9, SMT, SMTT(60) DEF Sound
<1>11. TokensOf(new, instance)
  <2>1. "kubeadmin" \in Kube!Auths /\ "developer" \in Kube!Auths
    BY <1>6, KubeNames
  <2> QED BY <1>6, <1>7, <1>8, <2>1, KubeAssumption DEF TokensOf, Kube!Usable
<1>12. KeepsOthers(cf, new)
  BY <1>7, <1>8, KubeNames, SMT, SMTT(60) DEF KeepsOthers, Kube!Usable
<1> QED BY <1>7, <1>10, <1>11, <1>12

\* What cleanKubeconfig writes: none of the contexts of the cluster, and all that a context
\* of the user's on another one uses.
LEMMA KubeCleans ==
  ASSUME NEW cf, Sound(cf), cf.exists, NEW new, new = Kube!cleanKubeconfig(cf)
  PROVE  Sound(new) /\ new.exists /\ NoneLeft(new) /\ KeepsOthers(cf, new)
<1> DEFINE gone == {e \in cf.contexts : e.cluster = "crc"}
           unused == {e.auth : e \in gone} \ {e.auth : e \in cf.contexts \ gone}
           current == IF \E e \in gone : e.name = cf.current THEN Kube!NoCurrent ELSE cf.current
           auths == [a \in Kube!Auths |-> IF a \in unused THEN 0 ELSE cf.auths[a]]
<1>0. cf \in Kube!Configurations
  BY DEF Sound
<1>a. /\ cf.clusters \ {"crc"} \in SUBSET Kube!Clusters /\ cf.contexts \ gone \in SUBSET Kube!Contexts
      /\ current \in {e.name : e \in Kube!Contexts} \cup {Kube!NoCurrent}
      /\ auths \in [Kube!Auths -> 0..Kube!Mine]
  BY <1>0, KubeAssumption, SMT, SMTT(60) DEF Kube!Configurations, Kube!Mine
<1>b. new = [cf EXCEPT !.clusters = cf.clusters \ {"crc"}, !.contexts = cf.contexts \ gone,
                       !.current = current, !.auths = auths]
  BY <1>0 DEF Kube!cleanKubeconfig, Kube!Cluster, Kube!Configurations
<1> HIDE DEF current, auths
<1>1. /\ new \in Kube!Configurations
      /\ new.exists = cf.exists /\ new.clusters = cf.clusters \ {"crc"} /\ new.contexts = cf.contexts \ gone
      /\ new.current = current /\ new.auths = auths
  BY <1>0, <1>a, <1>b DEF Kube!Configurations
<1>2. \A a \in Kube!Auths : new.auths[a] = IF a \in unused THEN 0 ELSE cf.auths[a]
  BY <1>1 DEF auths
<1>3. Sound(new)
  BY <1>1, <1>2 DEF Sound, current
<1>4. NoneLeft(new)
  BY <1>1 DEF NoneLeft
<1>5. KeepsOthers(cf, new)
  BY <1>1, <1>2, KubeNames DEF KeepsOthers, Kube!Usable
<1> QED BY <1>1, <1>3, <1>4, <1>5

\* A file with nothing in it.
LEMMA KubeBlank == \A cf \in {Kube!Missing, Kube!Empty} : cf \in Kube!Configurations /\ Sound(cf)
<1>1. /\ Kube!Missing \in Kube!Configurations /\ Kube!Missing.contexts = {}
      /\ Kube!Missing.current = Kube!NoCurrent /\ Kube!Missing.auths = Kube!NoAuths
  BY KubeAssumption, SMT, SMTT(60) DEF Kube!Missing, Kube!Configurations, Kube!NoAuths, Kube!Mine
<1>2. /\ Kube!Empty \in Kube!Configurations /\ Kube!Empty.contexts = {}
      /\ Kube!Empty.current = Kube!NoCurrent /\ Kube!Empty.auths = Kube!NoAuths
  BY <1>1 DEF Kube!Empty, Kube!Configurations
<1> QED BY <1>1, <1>2 DEF Sound, Kube!NoAuths

\* A file that has been created, or that a tool of the user's has written to.
LEMMA KubeTouches ==
  ASSUME NEW cf, Sound(cf), NEW new, new = [cf EXCEPT !.exists = TRUE]
  PROVE  /\ Sound(new) /\ new.exists /\ KeepsOthers(cf, new)
<1>1. /\ new \in Kube!Configurations /\ new.exists = TRUE /\ new.clusters = cf.clusters
      /\ new.contexts = cf.contexts /\ new.auths = cf.auths /\ new.current = cf.current
  BY DEF Sound, Kube!Configurations
<1> QED BY <1>1 DEF Sound, KeepsOthers, Kube!Usable

\* So does one of the user, which is of others itself.
LEMMA KubeUserAdds ==
  ASSUME NEW cf, Sound(cf), NEW e \in UserEntries, NEW new, new = Kube!Added(cf, e)
  PROVE  /\ Sound(new) /\ KeepsOthers(cf, new)
         /\ \A i \in 1..MaxInstances : TokensOf(cf, i) => TokensOf(new, i)
         /\ NoneLeft(cf) => NoneLeft(new)
<1>1. /\ e \in Kube!Contexts /\ e.auth \in Kube!Auths /\ e.cluster \in Kube!Clusters
      /\ Kube!Mine \in 0..Kube!Mine /\ Kube!Mine \notin 1..MaxInstances /\ Kube!Mine # 0
  BY KubeNames, KubeAssumption DEF Kube!Mine
<1>2. /\ new \in Kube!Configurations /\ new.exists = TRUE /\ new.clusters = cf.clusters \cup {e.cluster}
      /\ new.contexts = cf.contexts \cup {e} /\ new.current = cf.current
      /\ new.auths = [cf.auths EXCEPT ![e.auth] = IF cf.auths[e.auth] = 0 THEN Kube!Mine ELSE cf.auths[e.auth]]
  BY <1>1 DEF Kube!Added, Sound, Kube!Configurations
<1>3. \A a \in Kube!Auths :
        new.auths[a] = IF a = e.auth /\ cf.auths[a] = 0 THEN Kube!Mine ELSE cf.auths[a]
  BY <1>1, <1>2, SMT, SMTT(60) DEF Sound, Kube!Configurations
<1>4. Sound(new)
  BY <1>1, <1>2, <1>3 DEF Sound
<1>5. KeepsOthers(cf, new)
  BY <1>1, <1>2, <1>3, KubeNames DEF KeepsOthers, Kube!Usable
<1>6. \A i \in 1..MaxInstances : TokensOf(cf, i) => TokensOf(new, i)
  BY <1>1, <1>2, <1>3, KubeNames, SMT, SMTT(60) DEF TokensOf, Kube!Usable
<1>7. NoneLeft(cf) => NoneLeft(new)
  BY <1>2 DEF NoneLeft
<1> QED BY <1>4, <1>5, <1>6, <1>7

\* The choice of a context changes nothing else.
LEMMA KubeUserUses ==
  ASSUME NEW cf, Sound(cf), NEW e \in cf.contexts, NEW new, new = [cf EXCEPT !.current = e.name]
  PROVE  /\ Sound(new) /\ KeepsOthers(cf, new)
         /\ \A i \in 1..MaxInstances : TokensOf(cf, i) => TokensOf(new, i)
         /\ NoneLeft(cf) => NoneLeft(new)
<1>1. /\ new \in Kube!Configurations /\ new.exists = cf.exists /\ new.clusters = cf.clusters
      /\ new.contexts = cf.contexts /\ new.auths = cf.auths /\ new.current = e.name
  BY DEF Sound, Kube!Configurations
<1> QED BY <1>1 DEF Sound, KeepsOthers, TokensOf, NoneLeft, Kube!Usable

\* What a step keeps for the user: what a file says, or is about to say again.
Says(path, e) ==
  Kube!Usable(kubeconfig[path], e) \/ (Crc.pc = "write" /\ Crc.path = path /\ Kube!Usable(Crc.cfg, e))

KubeKept ==
  crashes' = crashes =>
    \A path \in Kube!KubeconfigFiles, e \in UserEntries :
      e.cluster # "crc" /\ Says(path, e) => Says(path, e)'

\* Holds, for the files of this command.
LEMMA KubeHolds ==
  ASSUME NEW path \in Kube!KubeconfigFiles, NEW e \in UserEntries
  PROVE  (Kube!Holds(path, e) <=> Says(path, e)) /\ (Kube!Holds(path, e)' <=> Says(path, e)')
BY DEF Kube!Holds, Kube!Contents, Kube!At, Says, Crc

\* Where a step leaves the command, and the file it has changed.
KubeNow(pc0, command, path, cf, last) ==
  /\ proc' \in [{"crc"} -> KubeCalls]
  /\ Crc'.pc = pc0 /\ Crc'.command = command /\ Crc'.path = path /\ Crc'.cfg = cf /\ Crc'.last = last

KubeWrites(path, new) ==
  /\ kubeconfig' \in [Kube!KubeconfigFiles -> Kube!Configurations]
  /\ kubeconfig'[path] = new
  /\ \A other \in Kube!KubeconfigFiles : other # path => kubeconfig'[other] = kubeconfig[other]

\* Where a command that has ended is.
LEMMA KubeReturns ==
  ASSUME proc \in [{"crc"} -> KubeCalls], NEW last \in {"none", "notLoggedIn", "loggedIn", "notCleaned", "deleted"},
         Kube!Return("crc", last)
  PROVE  KubeNow("idle", "none", Paths[1], Kube!Missing, last)
<1>1. Kube!Missing \in Kube!Configurations
  BY KubeAssumption, SMT, SMTT(60) DEF Kube!Missing, Kube!Configurations, Kube!NoAuths, Kube!Mine
<1> QED BY <1>1, KubeNames DEF Kube!Return, Kube!Idle, KubeNow, KubeCalls, Crc

\* A command keeps what it knows of the file, and what the file says of the user's contexts.
LEMMA KubeCommands ==
  ASSUME KubeInv
  PROVE  \/ Kube!Start("crc") \/ Kube!Delete("crc") \/ Kube!LoadFromFile("crc")
         \/ Kube!writeKubeconfig("crc") \/ Kube!Clean("crc") \/ Kube!Truncate("crc")
         \/ Kube!WriteToFile("crc") \/ Kube!FileError("crc") \/ Kube!CutShort("crc")
         => KubeInv' /\ KubeKept
<1>0. KubeTypes /\ KubeRest
  BY DEF KubeInv
<1>00. /\ proc \in [{"crc"} -> KubeCalls] /\ Crc \in KubeCalls /\ Global \in Kube!KubeconfigFiles
       /\ kubeconfig \in [Kube!KubeconfigFiles -> Kube!Configurations]
       /\ created \in Nat /\ instance \in Nat
  BY <1>0, KubeNames, KubeAssumption DEF KubeTypes, Crc
<1>1. ASSUME Kube!Start("crc") PROVE KubeInv' /\ KubeKept
  <2>1. /\ Crc.pc = "idle" /\ KubeNow("load", "start", Global, Crc.cfg, Crc.last)
        /\ UNCHANGED crashes
    BY <1>00, <1>1 DEF Kube!Start, Kube!At, Global, Crc, KubeNow, KubeCalls
  <2>2. KubeWrites(Global, [kubeconfig[Global] EXCEPT !.exists = TRUE])
    BY <1>00, <1>1 DEF Kube!Start, Global, KubeWrites, Kube!Configurations
  <2>3. created' \in 0..MaxInstances /\ instance' \in 0..created' /\ instance' # 0
    BY <1>0, <1>1, KubeAssumption DEF Kube!Start, KubeTypes
  <2>4. /\ Sound(kubeconfig'[Global]) /\ kubeconfig'[Global].exists
        /\ KeepsOthers(kubeconfig[Global], kubeconfig'[Global])
    BY <1>0, <1>00, <2>2, KubeTouches DEF KubeWrites, KubeRest
  <2>5. KubeTypes'
    BY <1>0, <2>1, <2>2, <2>3 DEF KubeTypes, KubeNow, KubeWrites
  <2>6. KubeRest'
    BY <1>0, <2>1, <2>2, <2>3, <2>4 DEF KubeRest, KubeNow, KubeWrites
  <2>7. KubeKept
    BY <2>1, <2>2, <2>4 DEF KubeKept, Says, KubeWrites, KeepsOthers
  <2> QED BY <2>5, <2>6, <2>7 DEF KubeInv
<1>2. ASSUME Kube!Delete("crc") PROVE KubeInv' /\ KubeKept
  <2>1. /\ Crc.pc = "idle" /\ KubeNow("load", "delete", Global, Crc.cfg, Crc.last)
        /\ UNCHANGED <<kubeconfig, created, crashes>> /\ instance' = 0
    BY <1>00, <1>2 DEF Kube!Delete, Kube!At, Global, Crc, KubeNow, KubeCalls
  <2>2. KubeTypes'
    BY <1>0, <1>00, <2>1 DEF KubeTypes, KubeNow
  <2>3. KubeRest'
    BY <1>0, <2>1 DEF KubeRest, KubeNow
  <2>4. KubeKept
    BY <2>1 DEF KubeKept, Says
  <2> QED BY <2>2, <2>3, <2>4 DEF KubeInv
<1>3. ASSUME Kube!LoadFromFile("crc") PROVE KubeInv' /\ KubeKept
  <2>0. /\ Crc.pc = "load" /\ Crc.path = Global /\ UNCHANGED <<kubeconfig, instance, created, crashes>>
    BY <1>0, <1>3 DEF Kube!LoadFromFile, Kube!At, Crc, KubeRest
  <2>1. CASE ~kubeconfig[Global].exists
    <3>1. KubeNow("idle", "none", Paths[1], Kube!Missing, "deleted")
      BY <1>00, <1>3, <2>0, <2>1, KubeReturns DEF Kube!LoadFromFile, Crc
    <3>2. KubeTypes'
      BY <1>0, <2>0, <3>1 DEF KubeTypes, KubeNow
    <3>3. NoneLeft(kubeconfig[Global])
      BY <1>0, <1>00, <2>1 DEF KubeRest, Sound, NoneLeft
    <3>4. KubeRest'
      BY <1>0, <2>0, <3>1, <3>3 DEF KubeRest, KubeNow
    <3>5. KubeKept
      BY <2>0, <3>1 DEF KubeKept, Says
    <3> QED BY <3>2, <3>4, <3>5 DEF KubeInv
  <2>2. CASE kubeconfig[Global].exists
    <3>1. KubeNow("change", Crc.command, Global, kubeconfig[Global], Crc.last)
      BY <1>00, <1>3, <2>0, <2>2 DEF Kube!LoadFromFile, Crc, KubeNow, KubeCalls
    <3>2. KubeTypes'
      BY <1>0, <2>0, <3>1 DEF KubeTypes, KubeNow
    <3>4. KubeRest'
      BY <1>0, <2>0, <2>2, <3>1 DEF KubeRest, KubeNow
    <3>5. KubeKept
      BY <2>0, <3>1 DEF KubeKept, Says
    <3> QED BY <3>2, <3>4, <3>5 DEF KubeInv
  <2> QED BY <2>1, <2>2
<1>4. ASSUME Kube!writeKubeconfig("crc") PROVE KubeInv' /\ KubeKept
  <2>0. /\ Crc.pc = "change" /\ Crc.path = Global /\ Crc.command = "start"
        /\ UNCHANGED <<kubeconfig, instance, created, crashes>>
    BY <1>0, <1>4 DEF Kube!writeKubeconfig, Kube!At, Crc, KubeRest
  <2>1. CASE instance # 0 /\ proc' = [proc EXCEPT !["crc"].pc = "truncate", !["crc"].cfg = Kube!Updated(@)]
    <3>0. instance \in 1..MaxInstances /\ Sound(Crc.cfg) /\ Crc.cfg.exists /\ Crc.cfg = kubeconfig[Global]
      BY <1>0, <1>00, <2>0, <2>1, KubeAssumption DEF KubeTypes, KubeRest
    <3>a. /\ Sound(Kube!Updated(Crc.cfg)) /\ TokensOf(Kube!Updated(Crc.cfg), instance)
          /\ KeepsOthers(Crc.cfg, Kube!Updated(Crc.cfg))
      BY <3>0, KubeUpdates
    <3>b. Kube!Updated(Crc.cfg) \in Kube!Configurations
      BY <3>a DEF Sound
    <3>1. KubeNow("truncate", "start", Global, Kube!Updated(Crc.cfg), Crc.last)
      BY <1>00, <2>0, <2>1, <3>b DEF Crc, KubeNow, KubeCalls
    <3>2. KubeTypes'
      BY <1>0, <2>0, <3>1 DEF KubeTypes, KubeNow
    <3>4. KubeRest'
      BY <1>0, <2>0, <3>0, <3>1, <3>a DEF KubeRest, KubeNow
    <3>5. KubeKept
      BY <2>0, <3>1 DEF KubeKept, Says
    <3> QED BY <3>2, <3>4, <3>5 DEF KubeInv
  <2>2. CASE Kube!Return("crc", "notLoggedIn")
    <3>1. KubeNow("idle", "none", Paths[1], Kube!Missing, "notLoggedIn")
      BY <1>00, <2>2, KubeReturns
    <3>2. KubeTypes'
      BY <1>0, <2>0, <3>1 DEF KubeTypes, KubeNow
    <3>4. KubeRest'
      BY <1>0, <2>0, <3>1 DEF KubeRest, KubeNow
    <3>5. KubeKept
      BY <2>0, <3>1 DEF KubeKept, Says
    <3> QED BY <3>2, <3>4, <3>5 DEF KubeInv
  <2> QED BY <1>4, <2>1, <2>2 DEF Kube!writeKubeconfig
<1>5. ASSUME Kube!Clean("crc") PROVE KubeInv' /\ KubeKept
  <2>0. /\ Crc.pc = "change" /\ Crc.path = Global /\ Crc.command = "delete"
        /\ UNCHANGED <<kubeconfig, instance, created, crashes>>
        /\ proc' = [proc EXCEPT !["crc"].pc = "truncate", !["crc"].cfg = Kube!cleanKubeconfig(@)]
    BY <1>0, <1>5 DEF Kube!Clean, Kube!At, Crc, KubeRest
  <2>1. Sound(Crc.cfg) /\ Crc.cfg.exists /\ Crc.cfg = kubeconfig[Global]
    BY <1>0, <1>00, <2>0 DEF KubeRest
  <2>2. /\ Sound(Kube!cleanKubeconfig(Crc.cfg)) /\ NoneLeft(Kube!cleanKubeconfig(Crc.cfg))
        /\ KeepsOthers(Crc.cfg, Kube!cleanKubeconfig(Crc.cfg))
    BY <2>1, KubeCleans
  <2>3. Kube!cleanKubeconfig(Crc.cfg) \in Kube!Configurations
    BY <2>2 DEF Sound
  <2>4. KubeNow("truncate", "delete", Global, Kube!cleanKubeconfig(Crc.cfg), Crc.last)
    BY <1>00, <2>0, <2>3 DEF Crc, KubeNow, KubeCalls
  <2>5. KubeTypes'
    BY <1>0, <2>0, <2>4 DEF KubeTypes, KubeNow
  <2>6. KubeRest'
    BY <1>0, <2>0, <2>1, <2>2, <2>4 DEF KubeRest, KubeNow
  <2>7. KubeKept
    BY <2>0, <2>4 DEF KubeKept, Says
  <2> QED BY <2>5, <2>6, <2>7 DEF KubeInv
<1>6. ASSUME Kube!Truncate("crc") PROVE KubeInv' /\ KubeKept
  <2>1. Kube!Empty \in Kube!Configurations /\ Sound(Kube!Empty)
    BY KubeBlank
  <2>2. /\ Crc.pc = "truncate" /\ Crc.path = Global /\ UNCHANGED <<instance, created, crashes>>
        /\ KubeNow("write", Crc.command, Global, Crc.cfg, Crc.last)
    BY <1>0, <1>00, <1>6 DEF Kube!Truncate, Kube!At, Crc, KubeRest, KubeNow, KubeCalls
  <2>3. KubeWrites(Global, Kube!Empty)
    BY <1>00, <1>6, <2>1, <2>2 DEF Kube!Truncate, Crc, KubeWrites
  <2>5. KubeTypes'
    BY <1>0, <2>2, <2>3 DEF KubeTypes, KubeNow, KubeWrites
  <2>6. KubeRest'
    BY <1>0, <2>1, <2>2, <2>3 DEF KubeRest, KubeNow, KubeWrites
  <2>7. KubeKept
    BY <1>0, <2>2, <2>3 DEF KubeRest, KubeKept, Says, KubeNow, KubeWrites, KeepsOthers
  <2> QED BY <2>5, <2>6, <2>7 DEF KubeInv
<1>7. ASSUME Kube!WriteToFile("crc") PROVE KubeInv' /\ KubeKept
  <2>1. /\ Crc.pc = "write" /\ Crc.path = Global /\ Crc.command \in {"start", "delete"}
        /\ UNCHANGED <<instance, created, crashes>>
    BY <1>0, <1>00, <1>7 DEF Kube!WriteToFile, Kube!At, Crc, KubeRest, KubeCalls
  <2>2. KubeNow("idle", "none", Paths[1], Kube!Missing, IF Crc.command = "start" THEN "loggedIn" ELSE "deleted")
    BY <1>00, <1>7, KubeReturns DEF Kube!WriteToFile, Crc
  <2>3. KubeWrites(Global, Crc.cfg)
    BY <1>00, <1>7, <2>1 DEF Kube!WriteToFile, Crc, KubeWrites, KubeCalls
  <2>5. KubeTypes'
    BY <1>0, <2>1, <2>2, <2>3 DEF KubeTypes, KubeNow, KubeWrites
  <2>6. KubeRest'
    BY <1>0, <2>1, <2>2, <2>3 DEF KubeRest, KubeNow, KubeWrites
  <2>8. \A e : ~Kube!Usable(Kube!Empty, e)
    BY DEF Kube!Usable, Kube!Empty, Kube!Missing
  <2>7. KubeKept
    BY <1>0, <2>1, <2>3, <2>8 DEF KubeRest, KubeKept, Says, KubeWrites
  <2> QED BY <2>5, <2>6, <2>7 DEF KubeInv
<1>8. ASSUME Kube!FileError("crc") PROVE KubeInv' /\ KubeKept
  <2>1. Crc.pc \in {"load", "truncate"} /\ UNCHANGED <<kubeconfig, instance, created, crashes>>
    BY <1>8 DEF Kube!FileError, Kube!At, Crc
  <2>2. PICK last \in {"notLoggedIn", "notCleaned"} : KubeNow("idle", "none", Paths[1], Kube!Missing, last)
    BY <1>00, <1>8, KubeReturns DEF Kube!FileError, Kube!Logged
  <2>3. KubeTypes'
    BY <1>0, <2>1, <2>2 DEF KubeTypes, KubeNow
  <2>4. KubeRest'
    BY <1>0, <2>1, <2>2 DEF KubeRest, KubeNow
  <2>5. KubeKept
    BY <2>1, <2>2 DEF KubeKept, Says
  <2> QED BY <2>3, <2>4, <2>5 DEF KubeInv
<1>9. ASSUME Kube!CutShort("crc") PROVE KubeInv' /\ KubeKept
  <2>1. /\ UNCHANGED <<kubeconfig, instance, created>>
        /\ crashes' = crashes + 1 /\ crashes < MaxCrashes
    BY <1>9 DEF Kube!CutShort
  <2>2. PICK last \in {"none", "notLoggedIn", "notCleaned"} :
          KubeNow("idle", "none", Paths[1], Kube!Missing, last)
    BY <1>00, <1>9, KubeReturns DEF Kube!CutShort, Kube!Logged
  <2>3. KubeTypes'
    BY <1>0, <2>1, <2>2, KubeAssumption, SMT, SMTT(60) DEF KubeTypes, KubeNow
  <2>4. KubeRest'
    BY <1>0, <2>1, <2>2 DEF KubeRest, KubeNow
  <2>5. KubeKept
    BY <1>0, <2>1, KubeAssumption DEF KubeKept, KubeTypes
  <2> QED BY <2>3, <2>4, <2>5 DEF KubeInv
<1> QED BY <1>1, <1>2, <1>3, <1>4, <1>5, <1>6, <1>7, <1>8, <1>9

\* A tool of the user's writes only between two commands.
LEMMA KubeTools ==
  ASSUME KubeInv, NEW path \in Kube!KubeconfigFiles, NEW e \in Kube!Contexts,
         (e \in UserEntries /\ Kube!AddContext(path, e)) \/ Kube!UseContext(path, e)
  PROVE  KubeInv' /\ KubeKept
<1>0. KubeTypes /\ KubeRest
  BY DEF KubeInv
<1>1. /\ Crc.pc = "idle" /\ UNCHANGED <<instance, created, proc, crashes>> /\ Crc' = Crc
      /\ kubeconfig \in [Kube!KubeconfigFiles -> Kube!Configurations] /\ Sound(kubeconfig[path])
  BY <1>0 DEF Kube!AddContext, Kube!UseContext, Kube!Alone, Kube!At, Crc, KubeTypes, KubeRest
<1>2. PICK new : /\ kubeconfig' = [kubeconfig EXCEPT ![path] = new]
                 /\ Sound(new) /\ KeepsOthers(kubeconfig[path], new)
                 /\ \A i \in 1..MaxInstances : TokensOf(kubeconfig[path], i) => TokensOf(new, i)
                 /\ NoneLeft(kubeconfig[path]) => NoneLeft(new)
  <2>1. CASE e \in UserEntries /\ Kube!AddContext(path, e)
    <3> DEFINE new == Kube!Added(kubeconfig[path], e)
    <3>1. kubeconfig' = [kubeconfig EXCEPT ![path] = new]
      BY <2>1, Zenon DEF Kube!AddContext
    <3> HIDE DEF new
    <3>2. /\ Sound(new) /\ KeepsOthers(kubeconfig[path], new)
          /\ \A i \in 1..MaxInstances : TokensOf(kubeconfig[path], i) => TokensOf(new, i)
          /\ NoneLeft(kubeconfig[path]) => NoneLeft(new)
      BY <1>1, <2>1, KubeUserAdds, Zenon DEF new
    <3> QED BY <3>1, <3>2, Zenon
  <2>2. CASE Kube!UseContext(path, e)
    <3> DEFINE new == [kubeconfig[path] EXCEPT !.current = e.name]
    <3>1. kubeconfig' = [kubeconfig EXCEPT ![path] = new] /\ e \in kubeconfig[path].contexts
      BY <2>2, Zenon DEF Kube!UseContext
    <3>2. /\ Sound(new) /\ KeepsOthers(kubeconfig[path], new)
          /\ \A i \in 1..MaxInstances : TokensOf(kubeconfig[path], i) => TokensOf(new, i)
          /\ NoneLeft(kubeconfig[path]) => NoneLeft(new)
      <4>1. Sound(kubeconfig[path]) /\ new = [kubeconfig[path] EXCEPT !.current = e.name]
        BY <1>1
      <4> HIDE DEF new
      <4> QED BY <3>1, <4>1, KubeUserUses, Zenon
    <3> QED BY <3>1, <3>2, Zenon
  <2> QED BY <2>1, <2>2
<1>3. KubeWrites(path, new)
  BY <1>1, <1>2 DEF KubeWrites, Sound
<1>4. instance # 0 => instance \in 1..MaxInstances
  BY <1>0, KubeAssumption DEF KubeTypes
<1>5. KubeTypes'
  BY <1>0, <1>1, <1>3 DEF KubeTypes, KubeWrites
<1>6. KubeRest'
  BY <1>0, <1>1, <1>2, <1>3, <1>4, KubeNames DEF KubeRest, KubeWrites
<1>7. KubeKept
  BY <1>1, <1>2, <1>3 DEF KubeKept, Says, KubeWrites, KeepsOthers
<1> QED BY <1>5, <1>6, <1>7 DEF KubeInv

\* A step that changes nothing of the kubeconfig.
LEMMA KubeStutters == KubeInv /\ UNCHANGED Kube!vars => KubeInv' /\ KubeKept
<1> SUFFICES ASSUME KubeInv, UNCHANGED Kube!vars PROVE KubeInv' /\ KubeKept
  OBVIOUS
<1>1. UNCHANGED <<kubeconfig, instance, created, proc, crashes>> /\ Crc' = Crc
  BY DEF Kube!vars, Crc
<1>2. KubeTypes'
  BY <1>1 DEF KubeInv, KubeTypes
<1>3. KubeRest'
  BY <1>1 DEF KubeInv, KubeRest
<1>4. KubeKept
  BY <1>1 DEF KubeKept, Says
<1> QED BY <1>2, <1>3, <1>4 DEF KubeInv

\* Every step keeps both.
LEMMA KubeStep == KubeInv /\ [Kube!Next]_(Kube!vars) => KubeInv' /\ KubeKept
<1> SUFFICES ASSUME KubeInv, [Kube!Next]_(Kube!vars) PROVE KubeInv' /\ KubeKept
  OBVIOUS
<1>1. CASE UNCHANGED Kube!vars
  BY <1>1, KubeStutters
<1>2. ASSUME NEW path \in Kube!KubeconfigFiles, NEW e \in UserEntries, Kube!AddContext(path, e)
      PROVE  KubeInv' /\ KubeKept
  BY <1>2, KubeTools, KubeNames
<1>3. ASSUME NEW path \in Kube!KubeconfigFiles, NEW e \in Kube!Contexts, Kube!UseContext(path, e)
      PROVE  KubeInv' /\ KubeKept
  BY <1>3, KubeTools
<1> QED BY <1>1, <1>2, <1>3, KubeCommands DEF Kube!Next

(***************************************************************************)
(* For any entries in KUBECONFIG and any contexts of the user's, whatever  *)
(* process ends while it writes and whatever it cannot read or write: the  *)
(* command that changes the kubeconfig has what the file holds, its tokens *)
(* are those of the instance that exists, and a delete that has cleaned    *)
(* the file leaves none of them (kubeconfig.go).                           *)
(***************************************************************************)
THEOREM KubeconfigInvariant == Kube!Spec => []KubeInv
<1>1. Kube!Init => KubeInv
  <2> SUFFICES ASSUME Kube!Init PROVE KubeInv
    OBVIOUS
  <2>1. /\ Kube!Missing \in Kube!Configurations /\ Kube!Empty \in Kube!Configurations
        /\ Sound(Kube!Missing) /\ Sound(Kube!Empty)
    BY KubeBlank
  <2>3. /\ proc \in [{"crc"} -> KubeCalls] /\ Crc.pc = "idle" /\ Crc.last = "none"
    BY <2>1, KubeNames DEF Kube!Init, Kube!Idle, KubeCalls, Crc
  <2>4. KubeTypes
    BY <2>1, <2>3, KubeAssumption DEF Kube!Init, KubeTypes
  <2>5. KubeRest
    BY <2>1, <2>3 DEF Kube!Init, KubeRest
  <2> QED BY <2>4, <2>5 DEF KubeInv
<1> QED BY <1>1, KubeStep, PTL DEF Kube!Spec

-----------------------------------------------------------------------------
\* A behaviour of the files is one of each of them.
LEMMA FilesParts == FilesSpec => Spec /\ Both!Spec /\ Kube!Spec
<1>1. FilesInit => Init /\ Both!Init /\ Kube!Init
  BY DEF FilesInit
<1>2. [FilesNext]_all => [Next]_vars /\ [Both!Next]_(Both!vars) /\ [Kube!Next]_(Kube!vars)
  BY DEF FilesNext, OnFile, all, vars, both, contexts, Both!vars, Kube!vars
<1> QED BY <1>1, <1>2, PTL DEF FilesSpec, Spec, Both!Spec, Kube!Spec

(***************************************************************************)
(* What crc takes crc.json and the kubeconfig to hold is what they hold,   *)
(* for any number of threads of one process at crc.json, failed writes and *)
(* deaths, any entries of the user's and any number of instances.          *)
(***************************************************************************)
THEOREM OneProcessFilesConsistent == OneProcess => (FilesSpec => []FilesConsistent)
<1> SUFFICES ASSUME OneProcess PROVE FilesSpec => []FilesConsistent
  OBVIOUS
<1>1. KubeInv => Kube!TypeOK /\ Kube!LoggedIn /\ Kube!DeletedLeavesNothing
  <2> SUFFICES ASSUME KubeInv PROVE Kube!TypeOK /\ Kube!LoggedIn /\ Kube!DeletedLeavesNothing
    OBVIOUS
  <2>0. KubeTypes /\ KubeRest /\ Crc \in KubeCalls
    BY DEF KubeInv, KubeTypes, Crc
  <2>1. Kube!TypeOK
    <3>1. \A path \in Kube!KubeconfigFiles :
            kubeconfig[path] \in Kube!Configurations /\ kubeconfig[path].contexts \subseteq Kube!Contexts
      BY <2>0 DEF KubeTypes, Kube!Configurations
    <3> QED BY <2>0, <3>1, KubeNames DEF Kube!TypeOK, KubeTypes, KubeCalls, Crc
  <2>2. Kube!LoggedIn
    BY <2>0 DEF Kube!LoggedIn, Kube!AtRest, Kube!At, KubeRest, TokensOf, Global, Crc
  <2>3. Kube!DeletedLeavesNothing
    <3>1. Sound(kubeconfig[Global])
      BY <2>0, KubeNames DEF KubeRest
    <3> QED BY <2>0, <3>1
          DEF Kube!DeletedLeavesNothing, Kube!NothingLeft, Kube!AtRest, Kube!At, KubeRest, NoneLeft, Sound, Global, Crc, Kube!Cluster
  <2> QED BY <2>1, <2>2, <2>3
<1>2. (TypeOK /\ SeenIsCurrent) /\ BothInv /\ KubeInv => FilesConsistent
  BY <1>1 DEF FilesConsistent, TypesOK, BothInv
<1> QED BY <1>2, FilesParts, OneProcessSeenIsCurrent, BothWhole, KubeconfigInvariant, PTL

(***************************************************************************)
(* However many processes and threads change it, and whatever fails, a     *)
(* crc.json that is there is never left truncated (atomicWrite).           *)
(***************************************************************************)
THEOREM FilesStayWhole == FilesSpec => BothKeepItWhole
<1>1. BothInv /\ BothInv' => [shared.is = "whole" => shared'.is = "whole"]_shared
  BY DEF BothInv
<1> QED BY <1>1, FilesParts, BothWhole, PTL DEF BothKeepItWhole, Both!StaysWhole

(***************************************************************************)
(* No command of crc, and none that is cut short before it has emptied the *)
(* file, takes a context on another cluster from the user, or the cluster  *)
(* or the credentials it is used with (kubeconfig.go).                     *)
(***************************************************************************)
THEOREM FilesOthersKept == FilesSpec => OthersKept
<1>1. KubeInv /\ [Kube!Next]_(Kube!vars) => [Kube!OthersStay]_(Kube!vars)
  BY KubeStep, KubeHolds DEF KubeKept, Kube!OthersStay, Kube!Cluster
<1> QED BY <1>1, FilesParts, KubeconfigInvariant, PTL DEF OthersKept, Kube!OthersKept, Kube!Spec

=============================================================================

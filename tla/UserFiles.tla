----------------------------- MODULE UserFiles -----------------------------
(***************************************************************************)
(* The files that crc reads, changes and writes back while others do:      *)
(* crc.json, used by the threads of one process (ConfigFile) or of several *)
(* (Both), and the kubeconfig of the user.  A behaviour is of one of the   *)
(* three, the others stay where they begin.                                *)
(***************************************************************************)
EXTENDS ConfigFile, Sequences

CONSTANTS
  Users, Programs, program, environment, Written, MaxFailures,  \* of Both
  Paths, UserEntries, MaxInstances, MaxCrashes            \* of Kubeconfig

VARIABLES
  part,                                                \* the one it is of
  shared, lock, at, call, copy, answer, failures,      \* of Both
  kubeconfig, instance, created, proc, crashes         \* of Kubeconfig

both == <<shared, lock, at, call, copy, answer, failures>>
contexts == <<kubeconfig, instance, created, proc, crashes>>
all == <<part, vars, both, contexts>>

Both == INSTANCE ConfigFile
  WITH Threads <- Users, Procs <- Programs, process <- program, overrides <- environment,
       Files <- Written, MaxFaults <- MaxFailures,
       file <- shared, storeLock <- lock, pc <- at, op <- call, cfg <- copy,
       result <- answer, faults <- failures

\* The commands that write the contexts run one after the other.
Kube == INSTANCE Kubeconfig
  WITH Procs <- {"crc"}, Serial <- TRUE, file <- kubeconfig

\* crc.json is there when several processes use it.
ASSUME BothAssumption ==
  /\ program \in [Users -> Programs] /\ NoThread \notin Users
  /\ environment \in [Programs -> Settings]
  /\ Written \subseteq [is : {"whole"}, cfg : Settings]
  /\ MaxFailures \in Nat

\* An entry of the user's is known by its name, which is none that crc uses.
ASSUME KubeAssumption ==
  /\ Paths \in Seq(STRING) /\ Len(Paths) # 0
  /\ UserEntries \subseteq [name : STRING \ {"crc-admin", "crc-developer"}, cluster : STRING, auth : STRING]
  /\ \A c, d \in UserEntries : c.name = d.name => c = d
  /\ MaxInstances \in Nat /\ MaxCrashes \in Nat

\* A part that a behaviour is not of is in one of its initial states.
FilesInit ==
  /\ part \in {"file", "both", "kubeconfig"}
  /\ Init /\ (part # "file" => file = CHOOSE f \in Files : TRUE)
  /\ Both!Init /\ (part # "both" => shared = CHOOSE f \in Written : TRUE)
  /\ Kube!Init /\ (part # "kubeconfig" => \A path \in Kube!KubeconfigFiles : ~kubeconfig[path].exists)

OnFile == part = "file" /\ UNCHANGED <<part, both, contexts>>

FilesNext ==
  \/ OnFile /\ Next
  \/ part = "both" /\ Both!Next /\ UNCHANGED <<part, vars, contexts>>
  \/ part = "kubeconfig" /\ Kube!Next /\ UNCHANGED <<part, vars, both>>

\* The fairness of ConfigFile's FairSpec.
FilesSpec ==
  /\ FilesInit /\ [][FilesNext]_all
  /\ \A t \in Threads : SF_all(OnFile /\ LockAndStat(t)) /\ WF_all(OnFile /\ Step(t))

-----------------------------------------------------------------------------
\* The type invariants of the parts.
TypesOK == TypeOK /\ Both!TypeOK /\ Kube!TypeOK

(***************************************************************************)
(* What crc takes the two files to hold is what they hold.  The thread of  *)
(* the daemon that has storeLock works on the current crc.json             *)
(* (viper_config.go); the contexts written last are those of the instance  *)
(* that exists, and a delete that has cleaned them leaves nothing of any   *)
(* instance (kubeconfig.go).                                               *)
(***************************************************************************)
FilesConsistent ==
  /\ TypesOK
  /\ SeenIsCurrent
  /\ Kube!LoggedIn
  /\ Kube!DeletedLeavesNothing

\* A crc.json that is there stays whole (viper_config.go) also while several processes, which
\* share no lock, change it.
BothKeepItWhole == Both!StaysWhole

\* The contexts of the user on other clusters stay usable, whatever crc writes.
OthersKept == Kube!OthersKept

=============================================================================

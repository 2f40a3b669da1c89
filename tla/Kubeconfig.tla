----------------------------- MODULE Kubeconfig -----------------------------
(***************************************************************************)
(* The contexts that crc keeps in the kubeconfig of the user: "crc start"  *)
(* writes them (writeKubeconfig), "crc delete" removes them                *)
(* (cleanKubeconfig), both by loading the whole file, changing it and      *)
(* writing it back.  The user's own tools write to the same file.          *)
(***************************************************************************)
EXTENDS Naturals, Sequences, FiniteSets

CONSTANTS
  Procs,      \* the crc processes: the daemon, a command
  Paths,      \* the entries of the KUBECONFIG variable, in order
  UserEntries,\* the contexts the user may add: name, cluster, auth
  Serial,     \* does everyone who writes the file wait for the others
  MaxInstances, \* how many instances are created in a behaviour
  MaxCrashes  \* how many processes end while they write

VARIABLES
  file,       \* what each path holds: Missing, or a configuration
  instance,   \* 0, or the number of the instance that exists
  created,    \* how many there have been
  proc,       \* the crc processes
  crashes

vars == <<file, instance, created, proc, crashes>>

\* An entry of the user's is one of theirs for good: its name and what it refers to.
KubeconfigFiles == {Paths[i] : i \in DOMAIN Paths}
Cluster == "crc"
Admin == [name |-> "crc-admin", cluster |-> Cluster, auth |-> "kubeadmin"]
Developer == [name |-> "crc-developer", cluster |-> Cluster, auth |-> "developer"]
Contexts == UserEntries \cup {Admin, Developer}
Clusters == {c.cluster : c \in Contexts}
Auths == {c.auth : c \in Contexts}

\* The credentials of an auth: none, the user's, or a token of an instance.
Mine == MaxInstances + 1
NoAuths == [a \in Auths |-> 0]

\* The current-context of a configuration that has none.
NoCurrent == ""

Missing == [exists |-> FALSE, clusters |-> {}, contexts |-> {}, auths |-> NoAuths, current |-> NoCurrent]
Empty == [Missing EXCEPT !.exists = TRUE]

Idle(last) == [pc |-> "idle", command |-> "none", path |-> Paths[1], cfg |-> Missing, last |-> last]

Init ==
  /\ file \in [KubeconfigFiles -> {Missing, Empty}]
  /\ instance = 0 /\ created = 0
  /\ proc = [p \in Procs |-> Idle("none")]
  /\ crashes = 0

At(p, pc) == proc[p].pc = pc
Alone == Serial => \A p \in Procs : At(p, "idle")

-----------------------------------------------------------------------------
\* "Tools should write to the last entry": the entry both commands use.
getGlobalKubeConfigPath == Paths[Len(Paths)]

\* A context with a new token, which replaces the credentials of that name,
addContext(cfg, c) ==
  [cfg EXCEPT !.auths[c.auth] = instance,
              !.contexts = {d \in @ : d.name # c.name} \cup {c}]

\* in a configuration where the cluster is, and one context is the current one.
Updated(cfg) ==
  LET with == addContext(addContext([cfg EXCEPT !.clusters = @ \cup {Cluster}], Admin), Developer)
  IN  [with EXCEPT !.current = IF @ = NoCurrent THEN Admin.name ELSE @]

\* Mutation: credentials that another context uses too are removed.
RemovesShared(cfg) ==
  LET contexts == {c \in cfg.contexts : c.cluster = Cluster}
      auths == {c.auth : c \in contexts}
  IN  [cfg EXCEPT !.clusters = @ \ {Cluster},
                  !.contexts = @ \ contexts,
                  !.current = IF \E c \in contexts : c.name = @ THEN NoCurrent ELSE @,
                  !.auths = [a \in Auths |-> IF a \in auths THEN 0 ELSE @[a]]]

\* Without the contexts of the cluster, whoever made them, and without the credentials that
\* no other context uses.
cleanKubeconfig(cfg) ==
  LET contexts == {c \in cfg.contexts : c.cluster = Cluster}
      auths == {c.auth : c \in contexts} \ {c.auth : c \in cfg.contexts \ contexts}
  IN  [cfg EXCEPT !.clusters = @ \ {Cluster},
                  !.contexts = @ \ contexts,
                  !.current = IF \E c \in contexts : c.name = @ THEN NoCurrent ELSE @,
                  !.auths = [a \in Auths |-> IF a \in auths THEN 0 ELSE @[a]]]

-----------------------------------------------------------------------------
\* client.Start, of a new instance or of the one there is, comes to writeKubeconfig, which
\* creates the file,
Start(p) ==
  /\ At(p, "idle") /\ Alone
  /\ IF instance # 0 THEN UNCHANGED <<instance, created>>
     ELSE /\ created < MaxInstances
          /\ created' = created + 1 /\ instance' = created + 1
  /\ LET path == getGlobalKubeConfigPath
     IN  /\ file' = [file EXCEPT ![path].exists = TRUE]
         /\ proc' = [proc EXCEPT ![p] = [@ EXCEPT !.pc = "load", !.command = "start", !.path = path]]
  /\ UNCHANGED crashes

\* and client.Delete removes the instance before it cleans the file.
Delete(p) ==
  /\ At(p, "idle") /\ Alone /\ instance # 0
  /\ instance' = 0
  /\ proc' = [proc EXCEPT ![p] = [@ EXCEPT !.pc = "load", !.command = "delete",
                                           !.path = getGlobalKubeConfigPath]]
  /\ UNCHANGED <<file, created, crashes>>

Return(p, last) == proc' = [proc EXCEPT ![p] = Idle(last)]

\* A file that "crc delete" does not find is nothing to clean.
LoadFromFile(p) ==
  /\ At(p, "load")
  /\ LET cfg == file[proc[p].path]
     IN  IF ~cfg.exists THEN Return(p, "deleted")
         ELSE proc' = [proc EXCEPT ![p].pc = "change", ![p].cfg = cfg]
  /\ UNCHANGED <<file, instance, created, crashes>>

\* The server gives a token for each user, or one request fails and the file is as it was.
writeKubeconfig(p) ==
  /\ At(p, "change") /\ proc[p].command = "start"
  /\ \/ instance # 0 /\ proc' = [proc EXCEPT ![p].pc = "truncate", ![p].cfg = Updated(@)]
     \/ Return(p, "notLoggedIn")
  /\ UNCHANGED <<file, instance, created, crashes>>

Clean(p) ==
  /\ At(p, "change") /\ proc[p].command = "delete"
  /\ proc' = [proc EXCEPT ![p].pc = "truncate", ![p].cfg = cleanKubeconfig(@)]
  /\ UNCHANGED <<file, instance, created, crashes>>

\* WriteToFile empties the file first.
Truncate(p) ==
  /\ At(p, "truncate")
  /\ file' = [file EXCEPT ![proc[p].path] = Empty]
  /\ proc' = [proc EXCEPT ![p].pc = "write"]
  /\ UNCHANGED <<instance, created, crashes>>

WriteToFile(p) ==
  /\ At(p, "write")
  /\ file' = [file EXCEPT ![proc[p].path] = proc[p].cfg]
  /\ Return(p, IF proc[p].command = "start" THEN "loggedIn" ELSE "deleted")
  /\ UNCHANGED <<instance, created, crashes>>

\* Start and Delete only log an error of writeKubeconfig and cleanKubeconfig, and return nil.
Logged(p) == Return(p, IF proc[p].command = "start" THEN "notLoggedIn" ELSE "notCleaned")

\* The file cannot be read, is none that LoadFromFile understands, or cannot be opened to
\* be written: it stays as it is.
FileError(p) ==
  /\ At(p, "load") \/ At(p, "truncate")
  /\ Logged(p)
  /\ UNCHANGED <<file, instance, created, crashes>>

\* The process ends, or its write fails, once the file is empty.
CutShort(p) ==
  /\ At(p, "write") /\ crashes < MaxCrashes
  /\ crashes' = crashes + 1
  /\ Return(p, "none") \/ Logged(p)
  /\ UNCHANGED <<file, instance, created>>

-----------------------------------------------------------------------------
Added(cfg, c) ==
  [cfg EXCEPT !.exists = TRUE,
              !.clusters = cfg.clusters \cup {c.cluster},
              !.contexts = cfg.contexts \cup {c},
              !.auths = [cfg.auths EXCEPT ![c.auth] = IF @ = 0 THEN Mine ELSE @]]

\* A tool of the user's adds a context, with credentials of theirs where there are none,
AddContext(path, c) ==
  /\ Alone
  /\ c \notin file[path].contexts
  /\ file' = [file EXCEPT ![path] = Added(file[path], c)]
  /\ UNCHANGED <<instance, created, proc, crashes>>

\* or makes one the current one.
UseContext(path, c) ==
  /\ Alone
  /\ c \in file[path].contexts /\ file[path].current # c.name
  /\ file' = [file EXCEPT ![path].current = c.name]
  /\ UNCHANGED <<instance, created, proc, crashes>>

Next ==
  \/ \E p \in Procs :
       \/ Start(p)
       \/ Delete(p)
       \/ LoadFromFile(p)
       \/ writeKubeconfig(p)
       \/ Clean(p)
       \/ Truncate(p)
       \/ WriteToFile(p)
       \/ FileError(p)
       \/ CutShort(p)
  \/ \E path \in KubeconfigFiles : \/ \E c \in UserEntries : AddContext(path, c)
                         \/ \E c \in Contexts : UseContext(path, c)

Spec == Init /\ [][Next]_vars

-----------------------------------------------------------------------------
Configurations ==
  [exists : BOOLEAN, clusters : SUBSET Clusters, contexts : SUBSET Contexts,
   auths : [Auths -> 0..Mine], current : {c.name : c \in Contexts} \cup {NoCurrent}]

\* Type invariant: no two contexts of a file have the same name.
TypeOK ==
  /\ \A path \in KubeconfigFiles :
       /\ file[path] \in Configurations
       /\ \A c, d \in file[path].contexts : c.name = d.name => c = d
  /\ instance \in 0..created /\ created \in 0..MaxInstances
  /\ \A p \in Procs : proc[p].cfg \in Configurations /\ proc[p].path \in KubeconfigFiles
  /\ crashes \in 0..MaxCrashes

Usable(cfg, c) == c \in cfg.contexts /\ c.cluster \in cfg.clusters /\ cfg.auths[c.auth] # 0

\* What a file says, or is about to say again when the process that has emptied it goes on.
Contents(path) ==
  {file[path]} \cup {proc[p].cfg : p \in {q \in Procs : At(q, "write") /\ proc[q].path = path}}

Holds(path, c) == \E cfg \in Contents(path) : Usable(cfg, c)

AtRest == \A p \in Procs : At(p, "idle")

OthersStay ==
  \A path \in KubeconfigFiles, c \in UserEntries :
    (c.cluster # Cluster /\ crashes' = crashes /\ Holds(path, c)) => Holds(path, c)'

(***************************************************************************)
(* A context of the user's on another cluster stays, with its cluster and  *)
(* credentials to use it with, whatever crc writes: TestCleanKubeconfig    *)
(* expects them in its output ("keep auth if it is shared with other       *)
(* contexts", cleanKubeconfig).  A write that is cut short after it has    *)
(* emptied the file is the exception.                                      *)
(***************************************************************************)
OthersKept == [][OthersStay]_vars

(***************************************************************************)
(* Once writeKubeconfig has returned nil the contexts crc-admin and        *)
(* crc-developer are in the file with tokens of the instance that exists,  *)
(* and stay there until it is deleted: the credentials of an instance that *)
(* is gone are never what is left.                                         *)
(***************************************************************************)
LoggedIn ==
  (AtRest /\ instance # 0 /\ \E p \in Procs : proc[p].last = "loggedIn") =>
     \A c \in {Admin, Developer} :
        /\ Usable(file[getGlobalKubeConfigPath], c)
        /\ file[getGlobalKubeConfigPath].auths[c.auth] = instance

NothingLeft ==
  LET cfg == file[getGlobalKubeConfigPath]
  IN  /\ \A c \in cfg.contexts : c.cluster = Cluster => c \in UserEntries
      /\ cfg.current \in {c.name : c \in cfg.contexts} \cup {NoCurrent}
      /\ \A a \in Auths : cfg.auths[a] \in 1..MaxInstances => \E c \in cfg.contexts : c.auth = a

(***************************************************************************)
(* Once cleanKubeconfig has returned nil no context of the cluster is      *)
(* left, no credentials of any instance that no other context uses, and no *)
(* current context that is removed: what an earlier delete could not clean *)
(* goes with the next one that can.                                        *)
(***************************************************************************)
DeletedLeavesNothing ==
  (AtRest /\ \E p \in Procs : proc[p].last = "deleted") => NothingLeft

\* The same of every Delete that has returned nil, which only logs what cleanKubeconfig returns.
DeleteCleans ==
  (AtRest /\ \E p \in Procs : proc[p].last \in {"deleted", "notCleaned"}) => NothingLeft

(***************************************************************************)
(* "keep auth if it is shared with other contexts" (cleanKubeconfig): the  *)
(* credentials that the user has given a context on another cluster stay   *)
(* what they were.                                                         *)
(***************************************************************************)
HasMine(path, c) == \E cfg \in Contents(path) : c \in cfg.contexts /\ cfg.auths[c.auth] = Mine

CredentialsKept ==
  [][\A path \in KubeconfigFiles, c \in UserEntries :
       (c.cluster # Cluster /\ HasMine(path, c)) => HasMine(path, c)']_vars

(***************************************************************************)
(* "getGlobalKubeConfigPath returns the path to the first entry in the     *)
(* KUBECONFIG environment variable": crc changes no other file.            *)
(***************************************************************************)
OnlyFirstEntry ==
  [][proc' # proc => \A path \in KubeconfigFiles \ {Paths[1]} : file'[path] = file[path]]_vars

=============================================================================

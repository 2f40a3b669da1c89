----------------------------- MODULE ConfigFile -----------------------------
(***************************************************************************)
(* The storage of settings in crc.json (ViperStorage in                    *)
(* pkg/crc/config/viper_config.go): threads of one or more crc processes   *)
(* (the handlers of the daemon, the command line) that read and write the  *)
(* same file.  storeLock is a lock of the process; between processes there *)
(* is only what the file system does.                                      *)
(***************************************************************************)
EXTENDS Naturals

CONSTANTS
  Threads, Procs,
  process,        \* the process of each thread
  Keys, Values, NoValue, NoThread,
  overrides,      \* per process, the values of environment variables and of flags given
  Files,          \* what crc.json may be at first
  MaxFaults       \* how many writes may fail and processes die in a behaviour

VARIABLES
  file,       \* crc.json
  storeLock,  \* per process, the thread that holds it
  pc, op,     \* per thread, where it is and the call it makes
  cfg,        \* per thread, the contents it is about to write
  result,     \* per thread, what its last call returned
  faults

vars == <<file, storeLock, pc, op, cfg, result, faults>>

ASSUME ProcessAssumption == process \in [Threads -> Procs]
ASSUME NamesAssumption == NoThread \notin Threads /\ NoValue \notin Values

\* The file is absent, truncated by a write under way, or holds settings.
NoSettings == [key \in Keys |-> NoValue]
Absent == [is |-> "absent", cfg |-> NoSettings]
Truncated == [is |-> "truncated", cfg |-> NoSettings]
Whole(settings) == [is |-> "whole", cfg |-> settings]

Settings == [Keys -> Values \cup {NoValue}]
Operations ==
  [do : {"Set"}, key : Keys, value : Values] \cup [do : {"Unset", "Get"}, key : Keys, value : {NoValue}]
NoOperation == [do |-> "none", key |-> NoValue, value |-> NoValue]
NoResult == [err |-> "none", value |-> NoValue]
Errors == {"none", "ok", "error", "died"}

ASSUME FilesAssumption == Files \subseteq [is : {"whole"}, cfg : Settings] \cup {Absent}
ASSUME OverridesAssumption == overrides \in [Procs -> Settings]
ASSUME FaultsAssumption == MaxFaults \in Nat

Init ==
  /\ file \in Files
  /\ storeLock = [p \in Procs |-> NoThread]
  /\ pc = [t \in Threads |-> "idle"]
  /\ op = [t \in Threads |-> NoOperation]
  /\ cfg = [t \in Threads |-> NoSettings]
  /\ result = [t \in Threads |-> NoResult]
  /\ faults = 0

-----------------------------------------------------------------------------
At(t, label) == pc[t] = label
Go(t, label) == pc' = [pc EXCEPT ![t] = label]

\* A thread that is idle remembers nothing of its call.
Forget(threads) ==
  /\ op' = [t \in Threads |-> IF t \in threads THEN NoOperation ELSE op[t]]
  /\ cfg' = [t \in Threads |-> IF t \in threads THEN NoSettings ELSE cfg[t]]

\* Mutation: the lock is kept when the call fails.
ReturnLocked(t, err, value) ==
  /\ Go(t, "idle")
  /\ storeLock' = IF err = "error" THEN storeLock ELSE [storeLock EXCEPT ![process[t]] = NoThread]
  /\ result' = [result EXCEPT ![t] = [err |-> err, value |-> value]]
  /\ Forget({t})

\* The deferred unlock is part of every return.
Return(t, err, value) ==
  /\ Go(t, "idle")
  /\ storeLock' = [storeLock EXCEPT ![process[t]] = NoThread]
  /\ result' = [result EXCEPT ![t] = [err |-> err, value |-> value]]
  /\ Forget({t})

Fault == faults < MaxFaults /\ faults' = faults + 1

\* A write fails: Set and Unset return its error, Get has no value for the setting.
Fail(t) ==
  /\ Fault
  /\ Return(t, IF op[t].do = "Get" THEN "ok" ELSE "error", NoValue)
  /\ UNCHANGED file

Call(t) ==
  /\ At(t, "idle")
  /\ \E o \in Operations : op' = [op EXCEPT ![t] = o]
  /\ Go(t, "called")
  /\ result' = [result EXCEPT ![t] = NoResult]
  /\ UNCHANGED <<file, storeLock, cfg, faults>>

\* Mutation: no lock is taken.
UnlockedStat(t) ==
  /\ At(t, "called")
  /\ Go(t, IF file.is = "absent" THEN "create" ELSE "read")
  /\ UNCHANGED <<file, storeLock, op, cfg, result, faults>>

\* Every call takes the lock of its process and asks whether the file exists.
LockAndStat(t) ==
  /\ At(t, "called") /\ storeLock[process[t]] = NoThread
  /\ storeLock' = [storeLock EXCEPT ![process[t]] = t]
  /\ Go(t, IF file.is = "absent" THEN "create" ELSE "read")
  /\ UNCHANGED <<file, op, cfg, result, faults>>

\* ensureConfigFileExists writes "{}" with os.WriteFile: it opens the file, emptied,
Create(t) ==
  /\ At(t, "create")
  /\ \/ file' = Truncated /\ Go(t, "fill") /\ UNCHANGED <<storeLock, op, cfg, result, faults>>
     \/ Fail(t)

\* and then writes to it, whatever now has its name: a file renamed over it is another.
Fill(t) ==
  /\ At(t, "fill")
  /\ \/ /\ file' = IF file = Truncated THEN Whole(NoSettings) ELSE file
        /\ Go(t, "read") /\ UNCHANGED <<storeLock, op, cfg, result, faults>>
     \/ Fail(t)

ensureConfigFileExists(t) == Create(t) \/ Fill(t)

\* A flag or an environment variable comes before the file; an error is no value.
Get(t) ==
  /\ At(t, "read") /\ op[t].do = "Get"
  /\ LET given == overrides[process[t]][op[t].key]
     IN  Return(t, "ok", IF file.is = "whole" /\ given # NoValue THEN given
                         ELSE file.cfg[op[t].key])
  /\ UNCHANGED <<file, faults>>

\* Mutation: the settings read are forgotten.
ChangedAlone(settings, o) ==
  [NoSettings EXCEPT ![o.key] = o.value]

\* What a Set makes of the settings it has read, and an Unset, whose value is NoValue.
Changed(settings, o) ==
  [settings EXCEPT ![o.key] = o.value]

\* The file is read as JSON, which an empty one is not.
Read(t) ==
  /\ At(t, "read") /\ op[t].do # "Get"
  /\ \/ /\ file.is = "whole"
        /\ cfg' = [cfg EXCEPT ![t] = Changed(file.cfg, op[t])]
        /\ Go(t, "write")
        /\ UNCHANGED <<storeLock, op, result>>
     \/ file.is # "whole" /\ Return(t, "error", NoValue)
  /\ UNCHANGED <<file, faults>>

\* Mutation: the file is written in place.
WriteInPlace(t) ==
  /\ At(t, "write")
  /\ IF file.is = "whole" /\ file # Whole(cfg[t])
     THEN file' = Truncated /\ UNCHANGED <<storeLock, pc, op, cfg, result, faults>>
     ELSE file' = Whole(cfg[t]) /\ Return(t, "ok", NoValue) /\ UNCHANGED faults

\* A file of the thread's own is written and renamed; an error before that leaves crc.json.
atomicWrite(t) ==
  /\ At(t, "write")
  /\ \/ file' = Whole(cfg[t]) /\ Return(t, "ok", NoValue) /\ UNCHANGED faults
     \/ Fail(t)

Set(t) == op[t].do = "Set" /\ (Read(t) \/ atomicWrite(t))
Unset(t) == op[t].do = "Unset" /\ (Read(t) \/ atomicWrite(t))

\* A process dies where it is, and is started again.
Die(p) ==
  /\ Fault
  /\ storeLock' = [storeLock EXCEPT ![p] = NoThread]
  /\ pc' = [t \in Threads |-> IF process[t] = p THEN "idle" ELSE pc[t]]
  /\ result' = [t \in Threads |->
                  IF process[t] = p THEN [err |-> "died", value |-> NoValue] ELSE result[t]]
  /\ Forget({t \in Threads : process[t] = p})
  /\ UNCHANGED file

Step(t) == LockAndStat(t) \/ ensureConfigFileExists(t) \/ Get(t) \/ Set(t) \/ Unset(t)

Next == (\E t \in Threads : Call(t) \/ Step(t)) \/ (\E p \in Procs : Die(p))

Spec == Init /\ [][Next]_vars

\* A goroutine runs on, and a mutex of Go is handed to the thread that waits longest.
FairSpec ==
  Spec /\ \A t \in Threads : SF_vars(LockAndStat(t)) /\ WF_vars(Step(t))

-----------------------------------------------------------------------------
\* Type invariant.
TypeOK ==
  /\ file \in [is : {"whole"}, cfg : Settings] \cup {Absent, Truncated}
  /\ storeLock \in [Procs -> Threads \cup {NoThread}]
  /\ pc \in [Threads -> {"idle", "called", "create", "fill", "read", "write"}]
  /\ op \in [Threads -> Operations \cup {NoOperation}]
  /\ cfg \in [Threads -> Settings]
  /\ result \in [Threads -> [err : Errors, value : Values \cup {NoValue}]]
  /\ faults \in 0..MaxFaults

(***************************************************************************)
(* Within one process, a thread past the lock is alone there, and what it  *)
(* has seen of crc.json is still so: it is missing, emptied, or what the   *)
(* contents about to be written were made from.                            *)
(***************************************************************************)
SeenIsCurrent ==
  \A t \in Threads :
    /\ pc[t] \in {"create", "fill", "read", "write"} => storeLock[process[t]] = t
    /\ pc[t] # "idle" => op[t] \in Operations
    /\ At(t, "create") => file = Absent
    /\ At(t, "fill") => file = Truncated
    /\ At(t, "write") => file.is = "whole" /\ cfg[t] = Changed(file.cfg, op[t])

(***************************************************************************)
(* The settings as crc.json holds them are changed one at a time: the write *)
(* of a call changes its own setting and keeps what other calls have       *)
(* stored, though it writes the whole file from what it read some steps    *)
(* before.  Holds within one process, where storeLock covers the read and  *)
(* the write.                                                              *)
(***************************************************************************)
Store == INSTANCE SettingsStore WITH stored <- file.cfg
ChangesOneSetting == Store!Spec

(***************************************************************************)
(* Once crc.json holds settings no call, failed write or death of a process *)
(* leaves it truncated, so that no reader takes defaults for what is       *)
(* stored: what atomicWrite is for.                                        *)
(***************************************************************************)
StaysWhole == [][file.is = "whole" => file'.is = "whole"]_file

(***************************************************************************)
(* Every call returns: no path through it, the errors and the death of     *)
(* another process included, leaves storeLock taken.                       *)
(***************************************************************************)
CallsReturn == \A t \in Threads : ~At(t, "idle") ~> At(t, "idle")

=============================================================================

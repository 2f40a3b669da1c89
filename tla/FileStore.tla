----------------------------- MODULE FileStore -----------------------------
(***************************************************************************)
(* The machine store, pkg/libmachine/persist/filestore.go, one system call *)
(* after the other: config.json, the temporary file it is renamed from,    *)
(* and the mark .crc-exist, as the machine client uses them.               *)
(*                                                                         *)
(* A process performs one Start or Delete at a time (the gate of sync.go). *)
(* A Start of a machine that does not exist saves a new configuration and  *)
(* then sets the mark; one of a machine that exists loads its              *)
(* configuration and saves another; a Delete loads it and removes the      *)
(* directory.                                                              *)
(***************************************************************************)
EXTENDS Naturals, FiniteSets

CONSTANTS
  Processes,   \* the daemon, the command lines
  Configs,     \* what may be saved
  MaxKills     \* bound: how many times a process is killed

Missing == "missing"    \* no such file
Partial == "partial"    \* a file that is not written to its end

ASSUME StoreAssumption == Missing \notin Configs /\ Partial \notin Configs /\ MaxKills \in Nat

VARIABLES
  dir,      \* is the machine's directory there
  mark,     \* is .crc-exist there
  file,     \* config.json
  writers,  \* the processes that have that file open for writing
  tmp,      \* the temporary file of each process
  litter,   \* are there temporary files of processes that were killed
  pc, val,  \* where each process is, and what it saves
  new,      \* is it creating the machine
  res,      \* what its last operation returned, unless another has begun since
  torn,     \* has an operation ended between two removals, or before its rename
  kills

files == <<dir, mark, file, writers, tmp, litter>>
vars == <<files, pc, val, new, res, torn, kills>>

Contents == Configs \cup {Missing, Partial}
Steps == {"idle", "stat", "open", "write", "temp", "remove", "rename", "mark", "delete"}

Whole == file \in Configs

Init ==
  /\ dir = FALSE /\ mark = FALSE /\ file = Missing /\ writers = {}
  /\ tmp = [p \in Processes |-> Missing] /\ litter = FALSE
  /\ pc = [p \in Processes |-> "idle"]
  /\ val \in [Processes -> Configs]
  /\ new = [p \in Processes |-> FALSE]
  /\ res = [p \in Processes |-> "none"]
  /\ torn = FALSE /\ kills = 0

Go(p, step) == pc' = [pc EXCEPT ![p] = step]
Quiet == UNCHANGED <<res, torn, kills>>

\* The deferred os.Remove of the temporary file.
DropTemp(p) == tmp' = [tmp EXCEPT ![p] = Missing]

Return(p, result) == Go(p, "idle") /\ res' = [res EXCEPT ![p] = result]

\* An operation begins, and what the others have returned may not be so for long.
Begin(p, step) == Go(p, step) /\ res' = [q \in Processes |-> "none"]

\* Mutation: the mark is set when the creation begins.
StartMarksFirst(p, v) ==
  /\ pc[p] = "idle" /\ (mark => Whole)
  /\ Begin(p, "stat")
  /\ val' = [val EXCEPT ![p] = v] /\ new' = [new EXCEPT ![p] = ~mark]
  /\ dir' = TRUE /\ mark' = TRUE
  /\ UNCHANGED <<file, writers, tmp, litter, torn, kills>>

\* A Start comes to its Save: Exists says no, or yes and Load succeeds.  MkdirAll follows.
Start(p, v) ==
  /\ pc[p] = "idle" /\ (mark => Whole)
  /\ Begin(p, "stat")
  /\ val' = [val EXCEPT ![p] = v] /\ new' = [new EXCEPT ![p] = ~mark]
  /\ dir' = TRUE
  /\ UNCHANGED <<mark, file, writers, tmp, litter, torn, kills>>

\* A Start or a Delete of a machine that exists and cannot be loaded.
LoadFails(p) ==
  /\ pc[p] = "idle" /\ mark /\ ~Whole
  /\ Return(p, "error")
  /\ UNCHANGED <<files, val, new, torn, kills>>

\* saveToFile asks whether the file is there.
Stat(p) ==
  /\ pc[p] = "stat"
  /\ Go(p, IF file = Missing THEN "open" ELSE "temp")
  /\ Quiet /\ UNCHANGED <<files, val, new>>

\* It is not: os.WriteFile opens and truncates what is there by now,
Open(p) ==
  /\ pc[p] = "open" /\ dir
  /\ file' = Partial /\ writers' = writers \cup {p}
  /\ Go(p, "write")
  /\ Quiet /\ UNCHANGED <<dir, mark, tmp, litter, val, new>>

Done(p) ==
  IF new[p] THEN Go(p, "mark") /\ UNCHANGED res ELSE Return(p, "saved")

\* and writes it, unless another file has its name by now.  Two that write the same file
\* at once may leave parts of both.
Write(p) ==
  /\ pc[p] = "write"
  /\ file' \in IF p \notin writers THEN {file}
               ELSE IF writers = {p} THEN {val[p]} ELSE {val[p], Partial}
  /\ writers' = writers \ {p}
  /\ Done(p)
  /\ UNCHANGED <<dir, mark, tmp, litter, val, new, torn, kills>>

\* It is there: the temporary file is made and written,
WriteTemp(p) ==
  /\ pc[p] = "temp" /\ dir
  /\ tmp' = [tmp EXCEPT ![p] = val[p]]
  /\ Go(p, "remove")
  /\ Quiet /\ UNCHANGED <<dir, mark, file, writers, litter, val, new>>

\* the old one is removed,
RemoveOld(p) ==
  /\ pc[p] = "remove" /\ file # Missing
  /\ file' = Missing /\ writers' = {}
  /\ Go(p, "rename")
  /\ Quiet /\ UNCHANGED <<dir, mark, tmp, litter, val, new>>

\* Mutation: the temporary file is removed and not renamed.
RenameNot(p) ==
  /\ pc[p] = "rename" /\ tmp[p] # Missing
  /\ DropTemp(p) /\ Done(p)
  /\ UNCHANGED <<dir, mark, file, writers, litter, val, new, torn, kills>>

\* and the new one gets its name.
Rename(p) ==
  /\ pc[p] = "rename" /\ tmp[p] # Missing
  /\ file' = tmp[p] /\ writers' = {}
  /\ DropTemp(p) /\ Done(p)
  /\ UNCHANGED <<dir, mark, litter, val, new, torn, kills>>

\* createHost has come to its end.
SetExists(p) ==
  /\ pc[p] = "mark" /\ dir
  /\ mark' = TRUE
  /\ Return(p, "saved")
  /\ UNCHANGED <<dir, file, writers, tmp, litter, val, new, torn, kills>>

-----------------------------------------------------------------------------
\* A Delete loads the machine first.
Delete(p) ==
  /\ pc[p] = "idle" /\ mark /\ Whole
  /\ Begin(p, "delete")
  /\ UNCHANGED <<files, val, new, torn, kills>>

\* RemoveAll takes the entries of the directory in any order,
RemoveEntry(p) ==
  /\ pc[p] = "delete"
  /\ \/ mark /\ mark' = FALSE /\ UNCHANGED <<file, writers, tmp, litter>>
     \/ file # Missing /\ file' = Missing /\ writers' = {} /\ UNCHANGED <<mark, tmp, litter>>
     \/ litter /\ litter' = FALSE /\ UNCHANGED <<mark, file, writers, tmp>>
     \/ \E q \in Processes :
          /\ tmp[q] # Missing /\ tmp' = [tmp EXCEPT ![q] = Missing]
          /\ UNCHANGED <<mark, file, writers, litter>>
  /\ UNCHANGED <<dir, pc, val, new, res, torn, kills>>

\* and then the directory.
Remove(p) ==
  /\ pc[p] = "delete" /\ ~mark /\ file = Missing /\ ~litter
  /\ \A q \in Processes : tmp[q] = Missing
  /\ dir' = FALSE
  /\ Return(p, "deleted")
  /\ UNCHANGED <<mark, file, writers, tmp, litter, val, new, torn, kills>>

-----------------------------------------------------------------------------
\* What an operation that ends here leaves undone.
Torn(p) == torn \/ pc[p] \in {"rename", "delete"}

\* The next system call returns an error, and so does the operation.
Fails(p) ==
  /\ pc[p] # "idle"
  /\ DropTemp(p) /\ Return(p, "error")
  /\ torn' = Torn(p)
  /\ writers' = writers \ {p}
  /\ UNCHANGED <<dir, mark, file, litter, val, new, kills>>

\* The process is killed: deferred calls are not made.
Killed(p) ==
  /\ pc[p] # "idle" /\ kills < MaxKills
  /\ kills' = kills + 1
  /\ Go(p, "idle") /\ torn' = Torn(p)
  /\ litter' = (litter \/ tmp[p] # Missing) /\ DropTemp(p)
  /\ writers' = writers \ {p}
  /\ UNCHANGED <<dir, mark, file, val, new, res>>

Step(p) ==
  \/ \E v \in Configs : Start(p, v)
  \/ LoadFails(p) \/ Stat(p) \/ Open(p) \/ Write(p)
  \/ WriteTemp(p) \/ RemoveOld(p) \/ Rename(p) \/ SetExists(p)
  \/ Delete(p) \/ RemoveEntry(p) \/ Remove(p)
  \/ Fails(p) \/ Killed(p)

Next == \E p \in Processes : Step(p)

Spec == Init /\ [][Next]_vars

-----------------------------------------------------------------------------
\* Type invariant.
TypeOK ==
  /\ dir \in BOOLEAN /\ mark \in BOOLEAN /\ file \in Contents
  /\ writers \subseteq {p \in Processes : pc[p] = "write"}
  /\ tmp \in [Processes -> Configs \cup {Missing}] /\ litter \in BOOLEAN
  /\ pc \in [Processes -> Steps] /\ val \in [Processes -> Configs]
  /\ new \in [Processes -> BOOLEAN]
  /\ res \in [Processes -> {"none", "saved", "deleted", "error"}]
  /\ torn \in BOOLEAN /\ kills \in Nat

(***************************************************************************)
(* The configuration of a machine that exists is never half written: the   *)
(* direct os.WriteFile of saveToFile is for the first Save only, and a     *)
(* Start that was killed during it finds a file to replace next time.      *)
(***************************************************************************)
NeverPartial == mark => file # Partial

(***************************************************************************)
(* "Save persists a machine in the store" (persist/store.go): until        *)
(* another operation begins, the store has what the last successful Start  *)
(* has saved.                                                              *)
(***************************************************************************)
SavedIsStored == \A p \in Processes : res[p] = "saved" => mark /\ file = val[p]

(***************************************************************************)
(* A machine that exists can be loaded, except while a Save is between     *)
(* os.Remove and os.Rename or a Delete is under way, and unless one has    *)
(* ended there.                                                            *)
(***************************************************************************)
LoadableUnlessTorn ==
  mark => Whole \/ torn \/ \E p \in Processes : pc[p] \in {"rename", "delete"}

(***************************************************************************)
(* A Save that returns an error leaves a machine that exists loadable: the *)
(* interface says "Save persists a machine in the store", and saveToFile   *)
(* writes a temporary file first.                                          *)
(***************************************************************************)
FailedSaveKeeps ==
  [][\A p \in Processes :
       (pc[p] \in {"stat", "temp", "remove", "rename"} /\ mark /\ res'[p] = "error")
         => file' \in Configs]_vars

=============================================================================

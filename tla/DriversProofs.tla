--------------------------- MODULE DriversProofs ---------------------------
(***************************************************************************)
(* What errors.Retry promises, for every limit, delay and length of the    *)
(* callbacks, and what the drivers report, for every set of process        *)
(* numbers, sizes and settings and any number of failures.                 *)
(*                                                                         *)
(* OverrunBounded and CancelStopsRetrying are not inductive: the place in  *)
(* the loop decides how much time may have passed, and a callback that     *)
(* began after the cancellation leaves a sleep that has not run out.       *)
(***************************************************************************)
EXTENDS Drivers, TLAPS

\* The time before which the last attempt begins.
LastStart == IF Limit > MaxCall + Delay THEN Limit ELSE MaxCall + Delay

\* How much time may have passed at each place in the loop.
Times ==
  /\ pc = "called" => now = 0
  /\ pc = "loop" => /\ now <= LastStart + MaxCall + Delay
                    /\ attempt = 0 => now = 0
                    /\ attempt = 1 => now <= MaxCall + Delay
  /\ pc = "callback" => /\ now <= LastStart
                        /\ attempt = 0 => now = 0
  /\ pc = "sleep" => /\ now <= wake /\ attempt >= 1
                     /\ wake <= LastStart + MaxCall + Delay
                     /\ attempt = 1 => wake <= MaxCall + Delay
  /\ pc = "returned" => now <= LastStart + MaxCall + Delay

\* How many callbacks may have begun since the cancellation.
Lates ==
  /\ late <= 1
  /\ pc \in {"called", "loop"} => late = 0
  /\ late > 0 => done
  /\ (pc = "sleep" /\ late > 0) => now < wake

Counts ==
  /\ attempt = Len(m)
  /\ pc = "called" => attempt = 0
  /\ pc = "loop" => attempt = 0 \/ m # <<>>
  /\ (pc = "returned") <=> (result # "none")

IInv == TypeOK /\ Times /\ Lates /\ Counts /\ GivesUpLate

(***************************************************************************)
(* The invariant holds when Retry is called.                               *)
(***************************************************************************)
LEMMA InitIInv == Init => IInv
BY RetryAssumption DEF Init, IInv, TypeOK, Times, Lates, Counts, GivesUpLate, LastStart

(***************************************************************************)
(* Every step of the loop, of the callback and of the context keeps it.    *)
(***************************************************************************)
LEMMA NextIInv == IInv /\ [Next]_vars => IInv'
<1> SUFFICES ASSUME IInv, [Next]_vars PROVE IInv'
  OBVIOUS
<1> USE RetryAssumption DEF IInv
<1>1. CASE Call
  BY <1>1 DEF Call, Return, TypeOK, Times, Lates, Counts, GivesUpLate, LastStart
<1>2. CASE Loop
  BY <1>2 DEF Loop, Return, TypeOK, Times, Lates, Counts, GivesUpLate, LastStart
<1>3. CASE CallbackReturns
  <2> PICK took \in 0..MaxCall, err \in {"nil", Fatal} \cup Texts : Callback(took, err)
    BY <1>3 DEF CallbackReturns
  <2>1. CASE err = "nil" /\ Return("nil") /\ UNCHANGED <<attempt, m, wake>>
    BY <2>1 DEF Callback, Return, TypeOK, Times, Lates, Counts, GivesUpLate, LastStart
  <2>2. CASE /\ err = Fatal /\ Return("errors")
             /\ attempt' = attempt + 1 /\ m' = Append(m, err) /\ UNCHANGED wake
    BY <2>2 DEF Callback, Return, TypeOK, Times, Lates, Counts, GivesUpLate, LastStart
  <2>3. CASE /\ err \in Texts /\ attempt' = attempt + 1 /\ m' = Append(m, err)
             /\ wake' = now' + Delay /\ pc' = "sleep" /\ UNCHANGED result
    BY <2>3 DEF Callback, TypeOK, Times, Lates, Counts, GivesUpLate, LastStart
  <2> QED BY <2>1, <2>2, <2>3 DEF Callback
<1>4. CASE Sleep
  BY <1>4 DEF Sleep, Return, TypeOK, Times, Lates, Counts, GivesUpLate, LastStart
<1>5. CASE Cancel
  BY <1>5 DEF Cancel, TypeOK, Times, Lates, Counts, GivesUpLate, LastStart
<1>6. CASE UNCHANGED vars
  BY <1>6 DEF vars, TypeOK, Times, Lates, Counts, GivesUpLate, LastStart
<1> QED BY <1>1, <1>2, <1>3, <1>4, <1>5, <1>6 DEF Next

(***************************************************************************)
(* errors.Retry never gives up on a retriable error before it has made two *)
(* attempts and the time is over.                                          *)
(***************************************************************************)
THEOREM RetryGivesUpLate == Spec => []GivesUpLate
<1>1. IInv => GivesUpLate
  BY DEF IInv
<1> QED BY <1>1, InitIInv, NextIInv, PTL DEF Spec

(***************************************************************************)
(* errors.Retry is over after its limit and one more attempt and sleep,    *)
(* or after two attempts when they take longer than the limit.             *)
(***************************************************************************)
THEOREM RetryOverrunBounded == Spec => []OverrunBounded
<1>1. IInv => OverrunBounded
  <2> SUFFICES ASSUME IInv PROVE now <= LastStart + MaxCall + Delay
    BY DEF OverrunBounded, Latest, LastStart
  <2> QED BY RetryAssumption DEF IInv, Times, TypeOK, LastStart
<1> QED BY <1>1, InitIInv, NextIInv, PTL DEF Spec

(***************************************************************************)
(* At most one callback begins after the context has been cancelled.       *)
(***************************************************************************)
THEOREM RetryCancelStops == Spec => []CancelStopsRetrying
<1>1. IInv => CancelStopsRetrying
  BY DEF IInv, Lates, CancelStopsRetrying
<1> QED BY <1>1, InitIInv, NextIInv, PTL DEF Spec

-----------------------------------------------------------------------------
(***************************************************************************)
(* The driver of macOS, when one crc process at a time drives the machine. *)
(***************************************************************************)
OneProc == \E p : Procs = {p}

VfkitCalls ==
  [op : {"none", "create", "update", "start", "stop", "kill", "delete"},
   pc : {"idle", "resize", "save", "recover", "devices", "spawn", "early", "writePid", "ip", "inState",
         "state", "signal", "poll", "remove"},
   pid : Pids \cup {0}, size : Sizes \cup {0},
   result : {"none", "ok", "error", "panic", "stopped"}, smooth : BOOLEAN]

\* Where an operation is, and what that says of its arguments.
VfkitControl(p) ==
  /\ call[p].pc # "idle" => call[p].result = "none"
  /\ call[p].pc \in {"recover", "devices", "spawn", "early", "writePid", "ip", "inState"} => call[p].op = "start"
  /\ call[p].pc = "signal" => call[p].op \in {"stop", "kill", "delete"}
  /\ call[p].pc = "poll" => call[p].op \in {"stop", "kill"}
  /\ call[p].pc = "remove" => call[p].op = "delete"
  /\ call[p].pc \in {"resize", "save"} =>
       call[p].op \in {"create", "update"} /\ call[p].size \in Sizes /\ disk \in Sizes
  /\ call[p].pc = "save" => call[p].size = disk
  /\ call[p].pc \in {"early", "writePid"} => call[p].pid \in Pids /\ table[call[p].pid] # "stopping"
  /\ call[p].smooth /\ call[p].pc \in {"early", "writePid", "ip", "inState"} =>
       call[p].pid \in Pids /\ table[call[p].pid] = "ours"
  /\ call[p].smooth /\ call[p].pc \in {"ip", "inState"} => pidFile = call[p].pid

\* A vfkit that runs is the one crc has just started or the one vfkit.pid names, and
\* where crc relies on it there is none.
VfkitKnown(p) ==
  /\ Vfkit!Ours \subseteq {IF call[p].pc \in {"early", "writePid"} THEN call[p].pid ELSE pidFile}
  /\ call[p].pc \in {"recover", "devices", "spawn", "remove"} => Vfkit!Ours = {}
  /\ call[p].pc = "idle" /\ call[p].op \in {"stop", "kill", "delete"} /\ call[p].result = "ok" =>
       Vfkit!Ours = {}

VfkitInv ==
  /\ Vfkit!TypeOK /\ call \in [Procs -> VfkitCalls]
  /\ Vfkit!CapacityFits /\ Vfkit!SmoothStartRecovers
  /\ \A p \in Procs : VfkitControl(p) /\ (~lost => VfkitKnown(p))

(***************************************************************************)
(* It holds before the first operation.                                    *)
(***************************************************************************)
LEMMA VfkitInit == Vfkit!Init => VfkitInv
<1> SUFFICES ASSUME Vfkit!Init PROVE VfkitInv
  OBVIOUS
<1> USE VfkitAssumption DEF Vfkit!Init, Vfkit!Idle
<1>1. Vfkit!TypeOK
  <2>1. /\ table \in [Pids -> {"none", "ours", "stopping", "other"}]
        /\ \A p \in Procs : call[p].pid = 0 /\ call[p].size = 0
    OBVIOUS
  <2>2. lease \in BOOLEAN /\ lost \in BOOLEAN
    BY Zenon
  <2>3. faults \in 0..MaxFaults
    OBVIOUS
  <2> QED BY <2>1, <2>2, <2>3 DEF Vfkit!TypeOK
<1>2. call \in [Procs -> VfkitCalls]
  BY DEF VfkitCalls
<1>3. Vfkit!Ours = {}
  BY DEF Vfkit!Ours
<1>4. Vfkit!CapacityFits /\ Vfkit!SmoothStartRecovers
  BY DEF Vfkit!CapacityFits, Vfkit!SmoothStartRecovers, Vfkit!Undisturbed
<1>5. \A p \in Procs : VfkitControl(p) /\ VfkitKnown(p)
  BY <1>3 DEF VfkitControl, VfkitKnown
<1> QED BY <1>1, <1>2, <1>4, <1>5 DEF VfkitInv

\* Where a step leaves the operation of p.
VfkitNow(p, op, pc0, pid, size, res, smooth) ==
  /\ call' \in [Procs -> VfkitCalls]
  /\ call'[p].op = op /\ call'[p].pc = pc0 /\ call'[p].pid = pid /\ call'[p].size = size
  /\ call'[p].result = res /\ call'[p].smooth = smooth

VfkitPlaces ==
  {"idle", "resize", "save", "recover", "devices", "spawn", "early", "writePid", "ip", "inState",
   "state", "signal", "poll", "remove"}
VfkitOps == {"none", "create", "update", "start", "stop", "kill", "delete"}
VfkitResults == {"none", "ok", "error", "panic", "stopped"}

\* Go, Return, Rough and Begin move one operation.
LEMMA VfkitMoves ==
  ASSUME call \in [Procs -> VfkitCalls], NEW p \in Procs, NEW r \in VfkitCalls,
         call' = [call EXCEPT ![p] = r]
  PROVE  VfkitNow(p, r.op, r.pc, r.pid, r.size, r.result, r.smooth)
BY DEF VfkitNow

\* The call goes on to another place.
LEMMA VfkitGoes ==
  ASSUME call \in [Procs -> VfkitCalls], NEW p \in Procs, NEW to \in VfkitPlaces,
         Vfkit!Go(p, to)
  PROVE  VfkitNow(p, call[p].op, to, call[p].pid, call[p].size, call[p].result, call[p].smooth)
<1> DEFINE r == [call[p] EXCEPT !.pc = to]
<1>1. call' = [call EXCEPT ![p] = r]
  BY DEF Vfkit!Go
<1>2. call[p] \in VfkitCalls
  OBVIOUS
<1>3. /\ r \in VfkitCalls /\ r.op = call[p].op /\ r.pc = to /\ r.pid = call[p].pid
      /\ r.size = call[p].size /\ r.result = call[p].result /\ r.smooth = call[p].smooth
  BY <1>2 DEF VfkitCalls, VfkitPlaces, VfkitOps, VfkitResults
<1> HIDE DEF r
<1> QED BY <1>1, <1>3, VfkitMoves, Zenon

\* The call returns.
LEMMA VfkitReturns ==
  ASSUME call \in [Procs -> VfkitCalls], NEW p \in Procs, NEW res \in VfkitResults,
         Vfkit!Return(p, res)
  PROVE  VfkitNow(p, call[p].op, "idle", 0, 0, res, call[p].smooth)
<1> DEFINE r == [Vfkit!Idle(call[p].op, res) EXCEPT !.smooth = call[p].smooth]
<1>1. call' = [call EXCEPT ![p] = r]
  BY DEF Vfkit!Return
<1>2. call[p] \in VfkitCalls
  OBVIOUS
<1>3. /\ r \in VfkitCalls /\ r.op = call[p].op /\ r.pc = "idle" /\ r.pid = 0
      /\ r.size = 0 /\ r.result = res /\ r.smooth = call[p].smooth
  BY <1>2 DEF Vfkit!Idle, VfkitCalls, VfkitPlaces, VfkitOps, VfkitResults
<1> HIDE DEF r
<1> QED BY <1>1, <1>3, VfkitMoves, Zenon

\* The call returns after a fault or a timeout.
LEMMA VfkitRoughly ==
  ASSUME call \in [Procs -> VfkitCalls], NEW p \in Procs, NEW res \in VfkitResults,
         Vfkit!Rough(p, res)
  PROVE  VfkitNow(p, call[p].op, "idle", 0, 0, res, FALSE)
<1> DEFINE r == [Vfkit!Idle(call[p].op, res) EXCEPT !.smooth = FALSE]
<1>1. call' = [call EXCEPT ![p] = r]
  BY DEF Vfkit!Rough
<1>2. call[p] \in VfkitCalls
  OBVIOUS
<1>3. /\ r \in VfkitCalls /\ r.op = call[p].op /\ r.pc = "idle" /\ r.pid = 0
      /\ r.size = 0 /\ r.result = res /\ r.smooth = FALSE
  BY <1>2, Zenon, ZenonT(30) DEF Vfkit!Idle, VfkitCalls, VfkitPlaces, VfkitOps, VfkitResults
<1> HIDE DEF r
<1> QED BY <1>1, <1>3, VfkitMoves, Zenon

\* A call that changes the disk begins.
LEMMA VfkitBegins ==
  ASSUME call \in [Procs -> VfkitCalls], NEW p \in Procs, NEW op \in VfkitOps, NEW to \in VfkitPlaces,
         NEW size \in Sizes \cup {0},
         call' = [call EXCEPT ![p] = [Vfkit!Idle(op, "none") EXCEPT !.pc = to, !.size = size]]
  PROVE  VfkitNow(p, op, to, 0, size, "none", TRUE)
<1> DEFINE r == [Vfkit!Idle(op, "none") EXCEPT !.pc = to, !.size = size]
<1>1. call' = [call EXCEPT ![p] = r]
  OBVIOUS
<1>2. call[p] \in VfkitCalls
  OBVIOUS
<1>3. /\ r \in VfkitCalls /\ r.op = op /\ r.pc = to /\ r.pid = 0
      /\ r.size = size /\ r.result = "none" /\ r.smooth = TRUE
  <2> DEFINE i == Vfkit!Idle(op, "none")
  <2>1. /\ i \in VfkitCalls /\ i.op = op /\ i.pid = 0 /\ i.result = "none" /\ i.smooth = TRUE
    BY DEF Vfkit!Idle, VfkitCalls, VfkitOps
  <2> HIDE DEF i
  <2>2. r = [i EXCEPT !.pc = to, !.size = size]
    BY Zenon DEF i
  <2> HIDE DEF r
  <2> QED BY <2>1, <2>2, Zenon, ZenonT(60) DEF VfkitCalls, VfkitPlaces
<1> HIDE DEF r
<1>4. VfkitNow(p, r.op, r.pc, r.pid, r.size, r.result, r.smooth)
  BY <1>1, <1>3, VfkitMoves, Zenon
<1> QED BY <1>3, <1>4, Zenon

\* A call begins.
LEMMA VfkitBegun ==
  ASSUME call \in [Procs -> VfkitCalls], NEW p \in Procs, NEW op \in VfkitOps, NEW to \in VfkitPlaces,
         Vfkit!Begin(p, op, to)
  PROVE  VfkitNow(p, op, to, 0, 0, "none", TRUE)
<1> DEFINE r == [Vfkit!Idle(op, "none") EXCEPT !.pc = to]
<1>1. call' = [call EXCEPT ![p] = r]
  BY DEF Vfkit!Begin
<1>2. call[p] \in VfkitCalls
  OBVIOUS
<1>3. /\ r \in VfkitCalls /\ r.op = op /\ r.pc = to /\ r.pid = 0
      /\ r.size = 0 /\ r.result = "none" /\ r.smooth = TRUE
  BY <1>2, Zenon, ZenonT(30) DEF Vfkit!Idle, VfkitCalls, VfkitPlaces, VfkitOps, VfkitResults
<1> HIDE DEF r
<1> QED BY <1>1, <1>3, VfkitMoves, Zenon

\* A call returns at once.
LEMMA VfkitIdles ==
  ASSUME call \in [Procs -> VfkitCalls], NEW p \in Procs, NEW op \in VfkitOps, NEW res \in VfkitResults,
         call' = [call EXCEPT ![p] = Vfkit!Idle(op, res)]
  PROVE  VfkitNow(p, op, "idle", 0, 0, res, TRUE)
<1> DEFINE r == Vfkit!Idle(op, res)
<1>1. call' = [call EXCEPT ![p] = r]
  OBVIOUS
<1>2. call[p] \in VfkitCalls
  OBVIOUS
<1>3. /\ r \in VfkitCalls /\ r.op = op /\ r.pc = "idle" /\ r.pid = 0
      /\ r.size = 0 /\ r.result = res /\ r.smooth = TRUE
  BY <1>2 DEF Vfkit!Idle, VfkitCalls, VfkitPlaces, VfkitOps, VfkitResults
<1> HIDE DEF r
<1> QED BY <1>1, <1>3, VfkitMoves, Zenon

\* The call has started a process.
LEMMA VfkitSpawns ==
  ASSUME call \in [Procs -> VfkitCalls], NEW p \in Procs, NEW pid \in Pids,
         call' = [call EXCEPT ![p].pc = "early", ![p].pid = pid]
  PROVE  VfkitNow(p, call[p].op, "early", pid, call[p].size, call[p].result, call[p].smooth)
<1> DEFINE r == [call[p] EXCEPT !.pc = "early", !.pid = pid]
<1>1. call' = [call EXCEPT ![p] = r]
  BY Zenon
<1>2. call[p] \in VfkitCalls
  OBVIOUS
<1>3. /\ r \in VfkitCalls /\ r.op = call[p].op /\ r.pc = "early" /\ r.pid = pid
      /\ r.size = call[p].size /\ r.result = call[p].result /\ r.smooth = call[p].smooth
  BY <1>2, Zenon, ZenonT(30) DEF VfkitCalls, VfkitPlaces, VfkitOps, VfkitResults
<1> HIDE DEF r
<1>4. VfkitNow(p, r.op, r.pc, r.pid, r.size, r.result, r.smooth)
  BY <1>1, <1>3, VfkitMoves, Zenon
<1> QED BY <1>3, <1>4, Zenon

\* The call goes on after a fault that it ignores.
LEMMA VfkitStumbles ==
  ASSUME call \in [Procs -> VfkitCalls], NEW p \in Procs, NEW to \in VfkitPlaces,
         call' = [call EXCEPT ![p].pc = to, ![p].smooth = FALSE]
  PROVE  VfkitNow(p, call[p].op, to, call[p].pid, call[p].size, call[p].result, FALSE)
<1> DEFINE r == [call[p] EXCEPT !.pc = to, !.smooth = FALSE]
<1>1. call' = [call EXCEPT ![p] = r]
  BY Zenon
<1>2. call[p] \in VfkitCalls
  OBVIOUS
<1>3. /\ r \in VfkitCalls /\ r.op = call[p].op /\ r.pc = to /\ r.pid = call[p].pid
      /\ r.size = call[p].size /\ r.result = call[p].result /\ r.smooth = FALSE
  BY <1>2, Zenon, ZenonT(30) DEF VfkitCalls, VfkitPlaces, VfkitOps, VfkitResults
<1> HIDE DEF r
<1>4. VfkitNow(p, r.op, r.pc, r.pid, r.size, r.result, r.smooth)
  BY <1>1, <1>3, VfkitMoves, Zenon
<1> QED BY <1>3, <1>4, Zenon

\* What the invariant says of the one process there is.
VfkitFails(p) == call[p].op = "start" /\ call[p].pc = "idle" /\ call[p].smooth /\ call[p].result # "ok"

VfkitOf(p) ==
  /\ Vfkit!TypeOK /\ call \in [Procs -> VfkitCalls] /\ Vfkit!CapacityFits
  /\ VfkitFails(p) => pidFile = Vfkit!Junk
  /\ VfkitControl(p)
  /\ ~lost => VfkitKnown(p)

\* With one process the invariant is what it says of that process.
LEMMA VfkitOne ==
  ASSUME NEW p, Procs = {p}
  PROVE  (VfkitInv <=> VfkitOf(p)) /\ (VfkitInv' <=> VfkitOf(p)')
BY DEF VfkitInv, VfkitOf, VfkitFails, Vfkit!SmoothStartRecovers, Vfkit!Undisturbed

\* What GetState says of vfkit.pid.
LEMMA VfkitStates ==
  /\ Vfkit!Ours \subseteq Pids /\ 0 \notin Pids /\ Vfkit!Junk \notin Pids /\ Vfkit!Junk # 0
  /\ Vfkit!GetState \in {"Error", "Stopped", "Running"}
  /\ Vfkit!GetState = "Error" <=> pidFile = Vfkit!Junk
  /\ Vfkit!GetState = "Stopped" <=> pidFile # Vfkit!Junk /\ pidFile \notin Vfkit!Ours
  /\ Vfkit!GetState = "Running" <=> pidFile \in Vfkit!Ours
  /\ Vfkit!findVfkitProcess = Vfkit!Junk <=> Vfkit!GetState = "Error"
  /\ Vfkit!findVfkitProcess = 0 <=> Vfkit!GetState = "Stopped"
  /\ Vfkit!GetState = "Running" => Vfkit!findVfkitProcess = pidFile
BY VfkitAssumption DEF Vfkit!GetState, Vfkit!findVfkitProcess, Vfkit!Junk, Vfkit!Ours

\* The size of the disk and the configuration change only in these.
LEMMA VfkitDisks ==
  ASSUME NEW p, Procs = {p}, VfkitInv
  PROVE  \/ Vfkit!Create(p)
         \/ Vfkit!resize(p)
         \/ Vfkit!Save(p)
         \/ Vfkit!UpdateConfigRaw(p)
         => VfkitInv'
<1>0. p \in Procs /\ VfkitOf(p)
  BY VfkitOne
<1>02. p \in Procs /\ call \in [Procs -> VfkitCalls]
  BY <1>0 DEF VfkitOf
<1>00. UNCHANGED table => Vfkit!Ours' = Vfkit!Ours
  BY DEF Vfkit!Ours
<1>01. Vfkit!Fault => faults' \in 0..MaxFaults
  BY <1>0, VfkitAssumption DEF Vfkit!Fault, Vfkit!TypeOK, VfkitOf
<1> USE DEF VfkitOf, VfkitFails
<1>1. ASSUME Vfkit!Create(p) PROVE VfkitOf(p)'
  <2>1. PICK size \in Sizes :
          /\ call[p].pc = "idle" /\ saved = 0
          /\ VfkitNow(p, "create", "resize", 0, size, "none", TRUE)
          /\ disk' = ImageSize
          /\ UNCHANGED <<table, pidFile, saved, lease, lost, faults>>
    BY <1>02, <1>1, VfkitBegins, VfkitAssumption, Zenon
       DEF Vfkit!Create, Vfkit!files, Vfkit!At, VfkitPlaces, VfkitOps
  <2> QED BY <1>0, <2>1, <1>00, VfkitAssumption
             DEF VfkitNow, VfkitCalls, Vfkit!TypeOK, Vfkit!CapacityFits, VfkitControl, VfkitKnown
<1>2. ASSUME Vfkit!resize(p) PROVE VfkitOf(p)'
  <2>1. CASE call[p].size < disk
    <3>1. /\ call[p].pc = "resize"
          /\ VfkitNow(p, call[p].op, "idle", 0, 0, "error", call[p].smooth)
          /\ UNCHANGED <<table, pidFile, disk, saved, lease, lost, faults>>
      BY <1>02, <1>2, <2>1, VfkitReturns, Zenon
         DEF Vfkit!resize, Vfkit!files, Vfkit!At, VfkitResults
    <3> QED BY <1>0, <3>1, <1>00, VfkitAssumption
               DEF VfkitNow, VfkitCalls, Vfkit!TypeOK, Vfkit!CapacityFits, VfkitControl, VfkitKnown
  <2>2. CASE ~(call[p].size < disk)
    <3>1. /\ call[p].pc = "resize" /\ ~(call[p].size < disk)
          /\ VfkitNow(p, call[p].op, "save", call[p].pid, call[p].size, call[p].result, call[p].smooth)
          /\ disk' = call[p].size
          /\ UNCHANGED <<table, pidFile, saved, lease, lost, faults>>
      BY <1>02, <1>2, <2>2, VfkitGoes, Zenon DEF Vfkit!resize, Vfkit!files, Vfkit!At, VfkitPlaces
    <3> QED BY <1>0, <3>1, <1>00, VfkitAssumption
               DEF VfkitNow, VfkitCalls, Vfkit!TypeOK, Vfkit!CapacityFits, VfkitControl, VfkitKnown
  <2> QED BY <1>0, <1>2, <2>1, <2>2 DEF Vfkit!resize
<1>3. ASSUME Vfkit!Save(p) PROVE VfkitOf(p)'
  <2>1. /\ call[p].pc = "save"
        /\ VfkitNow(p, call[p].op, "idle", 0, 0, "ok", call[p].smooth)
        /\ saved' = call[p].size
        /\ UNCHANGED <<table, pidFile, disk, lease, lost, faults>>
    BY <1>02, <1>3, VfkitReturns, Zenon DEF Vfkit!Save, Vfkit!files, Vfkit!At, VfkitResults
  <2> QED BY <1>0, <2>1, <1>00, VfkitAssumption
             DEF VfkitNow, VfkitCalls, Vfkit!TypeOK, Vfkit!CapacityFits, VfkitControl, VfkitKnown
<1>4. ASSUME Vfkit!UpdateConfigRaw(p) PROVE VfkitOf(p)'
  <2>1. PICK size \in Sizes :
          /\ call[p].pc = "idle" /\ saved # 0
          /\ VfkitNow(p, "update", "resize", 0, size, "none", TRUE)
          /\ UNCHANGED <<table, pidFile, disk, saved, lease, lost, faults>>
    BY <1>02, <1>4, VfkitBegins, Zenon
       DEF Vfkit!UpdateConfigRaw, Vfkit!files, Vfkit!At, VfkitPlaces, VfkitOps
  <2> QED BY <1>0, <2>1, <1>00, VfkitAssumption
             DEF VfkitNow, VfkitCalls, Vfkit!TypeOK, Vfkit!CapacityFits, VfkitControl, VfkitKnown
<1> QED BY VfkitOne, <1>1, <1>2, <1>3, <1>4

\* From the look at the state to vfkit: none runs that vfkit.pid names.
LEMMA VfkitStarting ==
  ASSUME NEW p, Procs = {p}, VfkitInv
  PROVE  \/ Vfkit!ClientStart(p)
         \/ Vfkit!recoverFromUncleanShutdown(p)
         \/ Vfkit!AddDevices(p)
         \/ Vfkit!EarlyFailure(p)
         => VfkitInv'
<1>0. p \in Procs /\ VfkitOf(p)
  BY VfkitOne
<1>02. p \in Procs /\ call \in [Procs -> VfkitCalls]
  BY <1>0 DEF VfkitOf
<1>00. UNCHANGED table => Vfkit!Ours' = Vfkit!Ours
  BY DEF Vfkit!Ours
<1>01. Vfkit!Fault => faults' \in 0..MaxFaults
  BY <1>0, VfkitAssumption DEF Vfkit!Fault, Vfkit!TypeOK, VfkitOf
<1> USE DEF VfkitOf, VfkitFails
<1>1. ASSUME Vfkit!ClientStart(p) PROVE VfkitOf(p)'
  <2>1. CASE Vfkit!GetState = "Stopped"
    <3>1. /\ call[p].pc = "idle" /\ pidFile \notin Vfkit!Ours
          /\ VfkitNow(p, "start", "recover", 0, 0, "none", TRUE)
          /\ UNCHANGED <<table, pidFile, disk, saved, lease, lost, faults>>
      BY <1>02, <1>1, <2>1, VfkitBegun, VfkitStates, Zenon
         DEF Vfkit!ClientStart, Vfkit!files, Vfkit!At, VfkitPlaces, VfkitOps
    <3> QED BY <1>0, <3>1, <1>00, VfkitAssumption
               DEF VfkitNow, VfkitCalls, Vfkit!TypeOK, Vfkit!CapacityFits, VfkitControl, VfkitKnown
  <2>2. CASE Vfkit!GetState = "Error"
    <3>1. /\ call[p].pc = "idle" /\ pidFile = Vfkit!Junk
          /\ VfkitNow(p, "start", "idle", 0, 0, "error", TRUE)
          /\ UNCHANGED <<table, pidFile, disk, saved, lease, lost, faults>>
      BY <1>02, <1>1, <2>2, VfkitIdles, VfkitStates, Zenon
         DEF Vfkit!ClientStart, Vfkit!files, Vfkit!At, VfkitOps, VfkitResults
    <3> QED BY <1>0, <3>1, <1>00, VfkitAssumption
               DEF VfkitNow, VfkitCalls, Vfkit!TypeOK, Vfkit!CapacityFits, VfkitControl, VfkitKnown
  <2>3. CASE Vfkit!GetState = "Running"
    <3>1. /\ call[p].pc = "idle"
          /\ VfkitNow(p, "start", "idle", 0, 0, "ok", TRUE)
          /\ UNCHANGED <<table, pidFile, disk, saved, lease, lost, faults>>
      BY <1>02, <1>1, <2>3, VfkitIdles, VfkitStates, Zenon
         DEF Vfkit!ClientStart, Vfkit!files, Vfkit!At, VfkitOps, VfkitResults
    <3> QED BY <1>0, <3>1, <1>00, VfkitAssumption
               DEF VfkitNow, VfkitCalls, Vfkit!TypeOK, Vfkit!CapacityFits, VfkitControl, VfkitKnown
  <2> QED BY <1>0, <1>1, <2>1, <2>2, <2>3, VfkitStates DEF Vfkit!ClientStart
<1>2. ASSUME Vfkit!recoverFromUncleanShutdown(p) PROVE VfkitOf(p)'
  <2>1. /\ call[p].op = "start" /\ call[p].pc = "recover"
        /\ VfkitNow(p, call[p].op, "devices", call[p].pid, call[p].size, call[p].result, call[p].smooth)
        /\ pidFile' \in {pidFile, 0}
        /\ UNCHANGED <<table, disk, saved, lease, lost, faults>>
    BY <1>02, <1>2, VfkitGoes, Zenon
       DEF Vfkit!recoverFromUncleanShutdown, Vfkit!files, Vfkit!At, VfkitPlaces
  <2> QED BY <1>0, <2>1, <1>00, VfkitAssumption
             DEF VfkitNow, VfkitCalls, Vfkit!TypeOK, Vfkit!CapacityFits, VfkitControl, VfkitKnown
<1>3. ASSUME Vfkit!AddDevices(p) PROVE VfkitOf(p)'
  <2>1. CASE Vfkit!Go(p, "spawn") /\ UNCHANGED faults
    <3>1. /\ call[p].op = "start" /\ call[p].pc = "devices"
          /\ VfkitNow(p, call[p].op, "spawn", call[p].pid, call[p].size, call[p].result, call[p].smooth)
          /\ UNCHANGED <<table, pidFile, disk, saved, lease, lost, faults>>
      BY <1>02, <1>3, <2>1, VfkitGoes, Zenon
         DEF Vfkit!AddDevices, Vfkit!files, Vfkit!At, VfkitPlaces
    <3> QED BY <1>0, <3>1, <1>00, VfkitAssumption
               DEF VfkitNow, VfkitCalls, Vfkit!TypeOK, Vfkit!CapacityFits, VfkitControl, VfkitKnown
  <2>2. CASE Vfkit!Rough(p, "error") /\ Vfkit!Fault
    <3>1. /\ call[p].pc = "devices"
          /\ VfkitNow(p, call[p].op, "idle", 0, 0, "error", FALSE)
          /\ faults' \in 0..MaxFaults
          /\ UNCHANGED <<table, pidFile, disk, saved, lease, lost>>
      BY <1>02, <1>3, <2>2, VfkitRoughly, <1>01, Zenon
         DEF Vfkit!AddDevices, Vfkit!files, Vfkit!At, VfkitResults
    <3> QED BY <1>0, <3>1, <1>00, VfkitAssumption
               DEF VfkitNow, VfkitCalls, Vfkit!TypeOK, Vfkit!CapacityFits, VfkitControl, VfkitKnown
  <2> QED BY <1>0, <1>3, <2>1, <2>2 DEF Vfkit!AddDevices
<1>4. ASSUME Vfkit!EarlyFailure(p) PROVE VfkitOf(p)'
  <2>1. CASE table[call[p].pid] = "ours"
    <3>1. /\ call[p].op = "start" /\ call[p].pc = "early"
          /\ VfkitNow(p, call[p].op, "writePid", call[p].pid, call[p].size, call[p].result, call[p].smooth)
          /\ UNCHANGED <<table, pidFile, disk, saved, lease, lost, faults>>
      BY <1>02, <1>4, <2>1, VfkitGoes, Zenon
         DEF Vfkit!EarlyFailure, Vfkit!files, Vfkit!At, VfkitPlaces
    <3> QED BY <1>0, <3>1, <1>00, VfkitAssumption
               DEF VfkitNow, VfkitCalls, Vfkit!TypeOK, Vfkit!CapacityFits, VfkitControl, VfkitKnown
  <2>2. CASE table[call[p].pid] # "ours"
    <3>1. PICK answer \in {"error", "panic"} :
            /\ call[p].pc = "early" /\ call[p].pid \notin Vfkit!Ours /\ ~call[p].smooth
            /\ VfkitNow(p, call[p].op, "idle", 0, 0, answer, call[p].smooth)
            /\ UNCHANGED <<table, pidFile, disk, saved, lease, lost, faults>>
      BY <1>0, <1>4, <2>2, VfkitReturns, Zenon
         DEF Vfkit!EarlyFailure, Vfkit!files, Vfkit!At, VfkitResults, Vfkit!Ours, VfkitControl
    <3> QED BY <1>0, <3>1, <1>00, VfkitAssumption
               DEF VfkitNow, VfkitCalls, Vfkit!TypeOK, Vfkit!CapacityFits, VfkitControl, VfkitKnown
  <2> QED BY <2>1, <2>2
<1> QED BY VfkitOne, <1>1, <1>2, <1>3, <1>4

\* From vfkit to the answer of startHost: its number is written in between.
LEMMA VfkitStarted ==
  ASSUME NEW p, Procs = {p}, VfkitInv
  PROVE  \/ Vfkit!startVfkit(p)
         \/ Vfkit!WritePid(p)
         \/ Vfkit!WritePidFails(p)
         \/ Vfkit!GetIPAddressByMACAddress(p)
         \/ Vfkit!RetryAfter(p)
         \/ Vfkit!startHost(p)
         => VfkitInv'
<1>0. p \in Procs /\ VfkitOf(p)
  BY VfkitOne
<1>02. p \in Procs /\ call \in [Procs -> VfkitCalls]
  BY <1>0 DEF VfkitOf
<1>00. UNCHANGED table => Vfkit!Ours' = Vfkit!Ours
  BY DEF Vfkit!Ours
<1>01. Vfkit!Fault => faults' \in 0..MaxFaults
  BY <1>0, VfkitAssumption DEF Vfkit!Fault, Vfkit!TypeOK, VfkitOf
<1> USE DEF VfkitOf, VfkitFails
<1>1. ASSUME Vfkit!startVfkit(p) PROVE VfkitOf(p)'
  <2>1. PICK pid \in Pids :
          /\ table[pid] = "none" /\ call[p].op = "start" /\ call[p].pc = "spawn"
          /\ VfkitNow(p, call[p].op, "early", pid, call[p].size, call[p].result, call[p].smooth)
          /\ table' = [table EXCEPT ![pid] = "ours"]
          /\ UNCHANGED <<pidFile, disk, saved, lease, lost, faults>>
    BY <1>02, <1>1, VfkitSpawns, Zenon DEF Vfkit!startVfkit, Vfkit!files, Vfkit!At
  <2>5. Vfkit!Ours' = Vfkit!Ours \cup {pid}
    BY <1>0, <2>1 DEF Vfkit!Ours, Vfkit!TypeOK, VfkitControl
  <2>2. Vfkit!TypeOK' /\ Vfkit!CapacityFits'
    BY <1>0, <2>1, VfkitAssumption
       DEF VfkitNow, VfkitCalls, Vfkit!TypeOK, Vfkit!CapacityFits, VfkitControl
  <2>3. table'[pid] = "ours"
    BY <1>0, <2>1 DEF Vfkit!TypeOK
  <2>4. VfkitControl(p)'
    BY <1>0, <2>1, <2>3, <2>5 DEF VfkitNow, VfkitControl
  <2>6. ~lost => VfkitKnown(p)'
    BY <1>0, <2>1, <2>5 DEF VfkitNow, VfkitControl, VfkitKnown
  <2>7. call'[p].pc = "early" /\ call' \in [Procs -> VfkitCalls] /\ UNCHANGED lost
    BY <1>0, <2>1 DEF VfkitNow
  <2> QED BY <2>2, <2>4, <2>6, <2>7
<1>2. ASSUME Vfkit!WritePid(p) PROVE VfkitOf(p)'
  <2>1. CASE VirtioNet
    <3>1. /\ call[p].op = "start" /\ call[p].pc = "writePid"
          /\ VfkitNow(p, call[p].op, "ip", call[p].pid, call[p].size, call[p].result, call[p].smooth)
          /\ pidFile' = call[p].pid
          /\ UNCHANGED <<table, disk, saved, lease, lost, faults>>
      BY <1>02, <1>2, <2>1, VfkitGoes, Zenon DEF Vfkit!WritePid, Vfkit!files, Vfkit!At, VfkitPlaces
    <3> QED BY <1>0, <3>1, <1>00, VfkitAssumption
               DEF VfkitNow, VfkitCalls, Vfkit!TypeOK, Vfkit!CapacityFits, VfkitControl, VfkitKnown
  <2>2. CASE ~VirtioNet
    <3>1. /\ call[p].op = "start" /\ call[p].pc = "writePid"
          /\ VfkitNow(p, call[p].op, "inState", call[p].pid, call[p].size, call[p].result, call[p].smooth)
          /\ pidFile' = call[p].pid
          /\ UNCHANGED <<table, disk, saved, lease, lost, faults>>
      BY <1>02, <1>2, <2>2, VfkitGoes, Zenon DEF Vfkit!WritePid, Vfkit!files, Vfkit!At, VfkitPlaces
    <3> QED BY <1>0, <3>1, <1>00, VfkitAssumption
               DEF VfkitNow, VfkitCalls, Vfkit!TypeOK, Vfkit!CapacityFits, VfkitControl, VfkitKnown
  <2> QED BY <1>0, <1>2, <2>1, <2>2 DEF Vfkit!WritePid
<1>3. ASSUME Vfkit!WritePidFails(p) PROVE VfkitOf(p)'
  <2>1. PICK to \in {"ip", "inState"} :
          /\ call[p].op = "start" /\ call[p].pc = "writePid"
          /\ VfkitNow(p, call[p].op, to, call[p].pid, call[p].size, call[p].result, FALSE)
          /\ pidFile' = Vfkit!Junk
          /\ lost' = TRUE
          /\ faults' \in 0..MaxFaults
          /\ UNCHANGED <<table, disk, saved, lease>>
    BY <1>02, <1>3, VfkitStumbles, <1>01, Zenon
       DEF Vfkit!WritePidFails, Vfkit!files, Vfkit!At, VfkitPlaces
  <2> QED BY <1>0, <2>1, <1>00, VfkitAssumption
             DEF VfkitNow, VfkitCalls, Vfkit!TypeOK, Vfkit!CapacityFits, VfkitControl, VfkitKnown
<1>4. ASSUME Vfkit!GetIPAddressByMACAddress(p) PROVE VfkitOf(p)'
  <2>1. /\ call[p].op = "start" /\ call[p].pc = "ip"
        /\ VfkitNow(p, call[p].op, "inState", call[p].pid, call[p].size, call[p].result, call[p].smooth)
        /\ UNCHANGED <<table, pidFile, disk, saved, lease, lost, faults>>
    BY <1>02, <1>4, VfkitGoes, Zenon
       DEF Vfkit!GetIPAddressByMACAddress, Vfkit!files, Vfkit!At, VfkitPlaces
  <2> QED BY <1>0, <2>1, <1>00, VfkitAssumption
             DEF VfkitNow, VfkitCalls, Vfkit!TypeOK, Vfkit!CapacityFits, VfkitControl, VfkitKnown
<1>5. ASSUME Vfkit!RetryAfter(p) PROVE VfkitOf(p)'
  <2>1. CASE table[call[p].pid] = "ours"
    <3>1. /\ call[p].op = "start" /\ call[p].pc = "ip"
          /\ VfkitNow(p, call[p].op, "idle", 0, 0, "error", FALSE)
          /\ faults' \in 0..MaxFaults
          /\ UNCHANGED <<table, pidFile, disk, saved, lease, lost>>
      BY <1>02, <1>5, <2>1, VfkitRoughly, <1>01, Zenon
         DEF Vfkit!RetryAfter, Vfkit!files, Vfkit!At, VfkitResults
    <3> QED BY <1>0, <3>1, <1>00, VfkitAssumption
               DEF VfkitNow, VfkitCalls, Vfkit!TypeOK, Vfkit!CapacityFits, VfkitControl, VfkitKnown
  <2>2. CASE table[call[p].pid] # "ours"
    <3>1. /\ call[p].op = "start" /\ call[p].pc = "ip"
          /\ VfkitNow(p, call[p].op, "idle", 0, 0, "error", call[p].smooth)
          /\ UNCHANGED <<table, pidFile, disk, saved, lease, lost, faults>>
      BY <1>02, <1>5, <2>2, VfkitReturns, Zenon
         DEF Vfkit!RetryAfter, Vfkit!files, Vfkit!At, VfkitResults
    <3>2. ~call[p].smooth
      BY <1>0, <2>2, <3>1 DEF VfkitControl
    <3> QED BY <1>0, <3>1, <3>2, <1>00, VfkitAssumption
               DEF VfkitNow, VfkitCalls, Vfkit!TypeOK, Vfkit!CapacityFits, VfkitControl, VfkitKnown
  <2> QED BY <2>1, <2>2
<1>6. ASSUME Vfkit!startHost(p) PROVE VfkitOf(p)'
  <2>1. CASE Vfkit!GetState = "Running"
    <3>1. /\ call[p].op = "start" /\ call[p].pc = "inState"
          /\ VfkitNow(p, call[p].op, "idle", 0, 0, "ok", call[p].smooth)
          /\ UNCHANGED <<table, pidFile, disk, saved, lease, lost, faults>>
      BY <1>02, <1>6, <2>1, VfkitReturns, Zenon
         DEF Vfkit!startHost, Vfkit!files, Vfkit!At, VfkitResults
    <3> QED BY <1>0, <3>1, <1>00, VfkitAssumption
               DEF VfkitNow, VfkitCalls, Vfkit!TypeOK, Vfkit!CapacityFits, VfkitControl, VfkitKnown
  <2>2. CASE Vfkit!GetState # "Running"
    <3>1. /\ call[p].op = "start" /\ call[p].pc = "inState" /\ pidFile \notin Vfkit!Ours
          /\ VfkitNow(p, call[p].op, "idle", 0, 0, "error", call[p].smooth)
          /\ UNCHANGED <<table, pidFile, disk, saved, lease, lost, faults>>
      BY <1>02, <1>6, <2>2, VfkitReturns, VfkitStates, Zenon
         DEF Vfkit!startHost, Vfkit!files, Vfkit!At, VfkitResults
    <3>2. ~call[p].smooth
      BY <1>0, <3>1 DEF VfkitControl, Vfkit!Ours
    <3> QED BY <1>0, <3>1, <3>2, <1>00, VfkitAssumption
               DEF VfkitNow, VfkitCalls, Vfkit!TypeOK, Vfkit!CapacityFits, VfkitControl, VfkitKnown
  <2> QED BY <1>0, <1>6, <2>1, <2>2 DEF Vfkit!startHost
<1> QED BY VfkitOne, <1>1, <1>2, <1>3, <1>4, <1>5, <1>6

\* The signal goes to the process that vfkit.pid names.
LEMMA VfkitStopping ==
  ASSUME NEW p, Procs = {p}, VfkitInv
  PROVE  \/ Vfkit!runActionForState(p)
         \/ Vfkit!Stop(p)
         \/ Vfkit!sendSignal(p)
         \/ Vfkit!Poll(p)
         \/ Vfkit!PollTimeout(p)
         => VfkitInv'
<1>0. p \in Procs /\ VfkitOf(p)
  BY VfkitOne
<1>02. p \in Procs /\ call \in [Procs -> VfkitCalls]
  BY <1>0 DEF VfkitOf
<1>00. UNCHANGED table => Vfkit!Ours' = Vfkit!Ours
  BY DEF Vfkit!Ours
<1>01. Vfkit!Fault => faults' \in 0..MaxFaults
  BY <1>0, VfkitAssumption DEF Vfkit!Fault, Vfkit!TypeOK, VfkitOf
<1> USE DEF VfkitOf, VfkitFails
<1>1. ASSUME Vfkit!runActionForState(p) PROVE VfkitOf(p)'
  <2>1. CASE Vfkit!GetState = "Stopped"
    <3>1. PICK op \in {"stop", "kill"} :
            /\ call[p].pc = "idle"
            /\ VfkitNow(p, op, "idle", 0, 0, "stopped", TRUE)
            /\ UNCHANGED <<table, pidFile, disk, saved, lease, lost, faults>>
      BY <1>02, <1>1, <2>1, VfkitIdles, Zenon
         DEF Vfkit!runActionForState, Vfkit!files, Vfkit!At, VfkitOps, VfkitResults
    <3> QED BY <1>0, <3>1, <1>00, VfkitAssumption
               DEF VfkitNow, VfkitCalls, Vfkit!TypeOK, Vfkit!CapacityFits, VfkitControl, VfkitKnown
  <2>2. CASE Vfkit!GetState # "Stopped"
    <3>1. PICK op \in {"stop", "kill"}, to \in {"state", "signal"} :
            /\ call[p].pc = "idle"
            /\ VfkitNow(p, op, to, 0, 0, "none", TRUE)
            /\ UNCHANGED <<table, pidFile, disk, saved, lease, lost, faults>>
      BY <1>02, <1>1, <2>2, VfkitBegun, Zenon
         DEF Vfkit!runActionForState, Vfkit!files, Vfkit!At, VfkitPlaces, VfkitOps
    <3> QED BY <1>0, <3>1, <1>00, VfkitAssumption
               DEF VfkitNow, VfkitCalls, Vfkit!TypeOK, Vfkit!CapacityFits, VfkitControl, VfkitKnown
  <2> QED BY <1>0, <1>1, <2>1, <2>2 DEF Vfkit!runActionForState
<1>2. ASSUME Vfkit!Stop(p) PROVE VfkitOf(p)'
  <2>1. CASE Vfkit!GetState = "Error"
    <3>1. /\ call[p].op = "stop" /\ call[p].pc = "state"
          /\ VfkitNow(p, call[p].op, "idle", 0, 0, "error", FALSE)
          /\ UNCHANGED <<table, pidFile, disk, saved, lease, lost, faults>>
      BY <1>02, <1>2, <2>1, VfkitRoughly, Zenon DEF Vfkit!Stop, Vfkit!files, Vfkit!At, VfkitResults
    <3> QED BY <1>0, <3>1, <1>00, VfkitAssumption
               DEF VfkitNow, VfkitCalls, Vfkit!TypeOK, Vfkit!CapacityFits, VfkitControl, VfkitKnown
  <2>2. CASE Vfkit!GetState = "Stopped"
    <3>1. /\ call[p].op = "stop" /\ call[p].pc = "state" /\ pidFile \notin Vfkit!Ours
          /\ VfkitNow(p, call[p].op, "idle", 0, 0, "ok", call[p].smooth)
          /\ pidFile' = 0
          /\ UNCHANGED <<table, disk, saved, lease, lost, faults>>
      BY <1>02, <1>2, <2>2, VfkitReturns, VfkitStates, Zenon
         DEF Vfkit!Stop, Vfkit!files, Vfkit!At, VfkitResults
    <3> QED BY <1>0, <3>1, <1>00, VfkitAssumption, SMT, SMTT(60)
               DEF VfkitNow, VfkitCalls, Vfkit!TypeOK, Vfkit!CapacityFits, VfkitControl, VfkitKnown
  <2>3. CASE Vfkit!GetState = "Running"
    <3>1. /\ call[p].op = "stop" /\ call[p].pc = "state"
          /\ VfkitNow(p, call[p].op, "signal", call[p].pid, call[p].size, call[p].result, call[p].smooth)
          /\ UNCHANGED <<table, pidFile, disk, saved, lease, lost, faults>>
      BY <1>02, <1>2, <2>3, VfkitGoes, Zenon DEF Vfkit!Stop, Vfkit!files, Vfkit!At, VfkitPlaces
    <3> QED BY <1>0, <3>1, <1>00, VfkitAssumption
               DEF VfkitNow, VfkitCalls, Vfkit!TypeOK, Vfkit!CapacityFits, VfkitControl, VfkitKnown
  <2> QED BY <1>0, <1>2, <2>1, <2>2, <2>3, VfkitStates DEF Vfkit!Stop
<1>3. ASSUME Vfkit!sendSignal(p) PROVE VfkitOf(p)'
  <2>1. CASE Vfkit!findVfkitProcess = Vfkit!Junk
    <3>1. /\ call[p].pc = "signal"
          /\ VfkitNow(p, call[p].op, "idle", 0, 0, "error", FALSE)
          /\ UNCHANGED <<table, pidFile, disk, saved, lease, lost, faults>>
      BY <1>02, <1>3, <2>1, VfkitRoughly, VfkitStates, Zenon
         DEF Vfkit!sendSignal, Vfkit!files, Vfkit!At, VfkitResults
    <3> QED BY <1>0, <3>1, <1>00, VfkitAssumption
               DEF VfkitNow, VfkitCalls, Vfkit!TypeOK, Vfkit!CapacityFits, VfkitControl, VfkitKnown
  <2>2. CASE Vfkit!findVfkitProcess = 0
    <3>1. /\ call[p].pc = "signal"
          /\ VfkitNow(p, call[p].op, "idle", 0, 0, "panic", FALSE)
          /\ UNCHANGED <<table, pidFile, disk, saved, lease, lost, faults>>
      BY <1>02, <1>3, <2>2, VfkitRoughly, VfkitStates, Zenon
         DEF Vfkit!sendSignal, Vfkit!files, Vfkit!At, VfkitResults
    <3> QED BY <1>0, <3>1, <1>00, VfkitAssumption
               DEF VfkitNow, VfkitCalls, Vfkit!TypeOK, Vfkit!CapacityFits, VfkitControl, VfkitKnown
  <2>3. CASE Vfkit!findVfkitProcess \in Pids /\ call[p].op = "stop"
    <3>1. /\ call[p].op = "stop" /\ call[p].pc = "signal" /\ pidFile \in Vfkit!Ours
          /\ VfkitNow(p, call[p].op, "poll", call[p].pid, call[p].size, call[p].result, call[p].smooth)
          /\ table' = [table EXCEPT ![pidFile] = "stopping"]
          /\ UNCHANGED <<pidFile, disk, saved, lease, lost, faults>>
      BY <1>02, <1>3, <2>3, VfkitGoes, VfkitStates, Zenon
         DEF Vfkit!sendSignal, Vfkit!files, Vfkit!At, VfkitPlaces
    <3>5. Vfkit!Ours' = Vfkit!Ours
      BY <1>0, <3>1 DEF Vfkit!Ours, Vfkit!TypeOK, VfkitControl
    <3>2. Vfkit!TypeOK' /\ Vfkit!CapacityFits'
      BY <1>0, <3>1, VfkitAssumption
         DEF VfkitNow, VfkitCalls, Vfkit!TypeOK, Vfkit!CapacityFits, VfkitControl
    <3> QED BY <1>0, <3>1, <3>2, <3>5 DEF VfkitNow, VfkitControl, VfkitKnown
  <2>4. CASE Vfkit!findVfkitProcess \in Pids /\ call[p].op = "kill"
    <3>1. /\ call[p].op = "kill" /\ call[p].pc = "signal" /\ pidFile \in Vfkit!Ours
          /\ VfkitNow(p, call[p].op, "poll", call[p].pid, call[p].size, call[p].result, call[p].smooth)
          /\ table' = [table EXCEPT ![pidFile] = "none"]
          /\ UNCHANGED <<pidFile, disk, saved, lease, lost, faults>>
      BY <1>02, <1>3, <2>4, VfkitGoes, VfkitStates, Zenon
         DEF Vfkit!sendSignal, Vfkit!files, Vfkit!At, VfkitPlaces
    <3>5. Vfkit!Ours' = Vfkit!Ours \ {pidFile}
      BY <1>0, <3>1 DEF Vfkit!Ours, Vfkit!TypeOK, VfkitControl
    <3>2. Vfkit!TypeOK' /\ Vfkit!CapacityFits'
      BY <1>0, <3>1, VfkitAssumption
         DEF VfkitNow, VfkitCalls, Vfkit!TypeOK, Vfkit!CapacityFits, VfkitControl
    <3> QED BY <1>0, <3>1, <3>2, <3>5 DEF VfkitNow, VfkitControl, VfkitKnown
  <2>5. CASE Vfkit!findVfkitProcess \in Pids /\ call[p].op = "delete"
    <3>1. /\ call[p].op = "delete" /\ call[p].pc = "signal" /\ pidFile \in Vfkit!Ours
          /\ VfkitNow(p, call[p].op, "remove", call[p].pid, call[p].size, call[p].result, call[p].smooth)
          /\ table' = [table EXCEPT ![pidFile] = "none"]
          /\ UNCHANGED <<pidFile, disk, saved, lease, lost, faults>>
      BY <1>02, <1>3, <2>5, VfkitGoes, VfkitStates, Zenon
         DEF Vfkit!sendSignal, Vfkit!files, Vfkit!At, VfkitPlaces
    <3>5. Vfkit!Ours' = Vfkit!Ours \ {pidFile}
      BY <1>0, <3>1 DEF Vfkit!Ours, Vfkit!TypeOK, VfkitControl
    <3>2. Vfkit!TypeOK' /\ Vfkit!CapacityFits'
      BY <1>0, <3>1, VfkitAssumption
         DEF VfkitNow, VfkitCalls, Vfkit!TypeOK, Vfkit!CapacityFits, VfkitControl
    <3> QED BY <1>0, <3>1, <3>2, <3>5 DEF VfkitNow, VfkitControl, VfkitKnown
  <2> QED BY <1>0, <1>3, <2>1, <2>2, <2>3, <2>4, <2>5, VfkitStates
             DEF Vfkit!sendSignal, VfkitControl
<1>4. ASSUME Vfkit!Poll(p) PROVE VfkitOf(p)'
  <2>1. /\ call[p].pc = "poll" /\ pidFile \notin Vfkit!Ours
        /\ VfkitNow(p, call[p].op, "idle", 0, 0, "ok", call[p].smooth)
        /\ pidFile' \in {pidFile, 0}
        /\ UNCHANGED <<table, disk, saved, lease, lost, faults>>
    BY <1>02, <1>4, VfkitReturns, VfkitStates, Zenon
       DEF Vfkit!Poll, Vfkit!files, Vfkit!At, VfkitResults
  <2> QED BY <1>0, <2>1, <1>00, VfkitAssumption, SMT, SMTT(60)
             DEF VfkitNow, VfkitCalls, Vfkit!TypeOK, Vfkit!CapacityFits, VfkitControl, VfkitKnown
<1>5. ASSUME Vfkit!PollTimeout(p) PROVE VfkitOf(p)'
  <2>1. /\ call[p].pc = "poll"
        /\ VfkitNow(p, call[p].op, "idle", 0, 0, "error", FALSE)
        /\ faults' \in 0..MaxFaults
        /\ UNCHANGED <<table, pidFile, disk, saved, lease, lost>>
    BY <1>02, <1>5, VfkitRoughly, <1>01, Zenon
       DEF Vfkit!PollTimeout, Vfkit!files, Vfkit!At, VfkitResults
  <2> QED BY <1>0, <2>1, <1>00, VfkitAssumption
             DEF VfkitNow, VfkitCalls, Vfkit!TypeOK, Vfkit!CapacityFits, VfkitControl, VfkitKnown
<1> QED BY VfkitOne, <1>1, <1>2, <1>3, <1>4, <1>5

\* A delete has stopped a machine that was running, and one that is cut short leaves
\* vfkit as it is.
LEMMA VfkitLeaving ==
  ASSUME NEW p, Procs = {p}, VfkitInv
  PROVE  \/ Vfkit!Remove(p)
         \/ Vfkit!RemoveDirectory(p)
         \/ Vfkit!CutShort(p)
         => VfkitInv'
<1>0. p \in Procs /\ VfkitOf(p)
  BY VfkitOne
<1>02. p \in Procs /\ call \in [Procs -> VfkitCalls]
  BY <1>0 DEF VfkitOf
<1>00. UNCHANGED table => Vfkit!Ours' = Vfkit!Ours
  BY DEF Vfkit!Ours
<1>01. Vfkit!Fault => faults' \in 0..MaxFaults
  BY <1>0, VfkitAssumption DEF Vfkit!Fault, Vfkit!TypeOK, VfkitOf
<1> USE DEF VfkitOf, VfkitFails
<1>1. ASSUME Vfkit!Remove(p) PROVE VfkitOf(p)'
  <2>1. CASE Vfkit!GetState = "Running"
    <3>1. /\ call[p].pc = "idle"
          /\ VfkitNow(p, "delete", "signal", 0, 0, "none", TRUE)
          /\ UNCHANGED <<table, pidFile, disk, saved, lease, lost, faults>>
      BY <1>02, <1>1, <2>1, VfkitBegun, Zenon
         DEF Vfkit!Remove, Vfkit!files, Vfkit!At, VfkitPlaces, VfkitOps
    <3> QED BY <1>0, <3>1, <1>00, VfkitAssumption
               DEF VfkitNow, VfkitCalls, Vfkit!TypeOK, Vfkit!CapacityFits, VfkitControl, VfkitKnown
  <2>2. CASE Vfkit!GetState # "Running"
    <3>1. /\ call[p].pc = "idle" /\ pidFile \notin Vfkit!Ours
          /\ VfkitNow(p, "delete", "remove", 0, 0, "none", TRUE)
          /\ UNCHANGED <<table, pidFile, disk, saved, lease, lost, faults>>
      BY <1>02, <1>1, <2>2, VfkitBegun, VfkitStates, Zenon
         DEF Vfkit!Remove, Vfkit!files, Vfkit!At, VfkitPlaces, VfkitOps
    <3> QED BY <1>0, <3>1, <1>00, VfkitAssumption, SMT, SMTT(60)
               DEF VfkitNow, VfkitCalls, Vfkit!TypeOK, Vfkit!CapacityFits, VfkitControl, VfkitKnown
  <2> QED BY <1>0, <1>1, <2>1, <2>2, VfkitStates DEF Vfkit!Remove
<1>2. ASSUME Vfkit!RemoveDirectory(p) PROVE VfkitOf(p)'
  <2>1. /\ call[p].op = "delete" /\ call[p].pc = "remove"
        /\ VfkitNow(p, call[p].op, "idle", 0, 0, "ok", call[p].smooth)
        /\ pidFile' = 0
        /\ disk' = 0
        /\ saved' = 0
        /\ UNCHANGED <<table, lease, lost, faults>>
    BY <1>02, <1>2, VfkitReturns, Zenon
       DEF Vfkit!RemoveDirectory, Vfkit!files, Vfkit!At, VfkitResults
  <2> QED BY <1>0, <2>1, <1>00, VfkitAssumption
             DEF VfkitNow, VfkitCalls, Vfkit!TypeOK, Vfkit!CapacityFits, VfkitControl, VfkitKnown
<1>3. ASSUME Vfkit!CutShort(p) PROVE VfkitOf(p)'
  <2>1. /\ call[p].pc # "idle"
        /\ VfkitNow(p, call[p].op, "idle", 0, 0, "none", FALSE)
        /\ faults' \in 0..MaxFaults
        /\ lost' = (lost \/ call[p].pc \in {"early", "writePid"})
        /\ UNCHANGED <<table, pidFile, disk, saved, lease>>
    BY <1>02, <1>3, VfkitRoughly, <1>01, Zenon
       DEF Vfkit!CutShort, Vfkit!files, Vfkit!At, VfkitResults
  <2> QED BY <1>0, <2>1, <1>00, VfkitAssumption
             DEF VfkitNow, VfkitCalls, Vfkit!TypeOK, Vfkit!CapacityFits, VfkitControl, VfkitKnown
<1> QED BY VfkitOne, <1>1, <1>2, <1>3

\* The end of a vfkit disturbs the start that has run it, and changes no more of the operations.
LEMMA VfkitDisturbs ==
  ASSUME NEW p \in Procs, NEW pid \in Pids, Vfkit!VfkitEnds(pid), call \in [Procs -> VfkitCalls]
  PROVE  VfkitNow(p, call[p].op, call[p].pc, call[p].pid, call[p].size, call[p].result,
                  call[p].smooth /\ call[p].pid # pid)
<1>1. ASSUME NEW q \in Procs
      PROVE  /\ call'[q] \in VfkitCalls
             /\ call'[q].op = call[q].op /\ call'[q].pc = call[q].pc /\ call'[q].pid = call[q].pid
             /\ call'[q].size = call[q].size /\ call'[q].result = call[q].result
             /\ call'[q].smooth = (call[q].smooth /\ call[q].pid # pid)
  <2>1. call[q] \in VfkitCalls /\ call'[q] = [call[q] EXCEPT !.smooth = @ /\ call[q].pid # pid]
    BY DEF Vfkit!VfkitEnds
  <2>2. (call[q].smooth /\ call[q].pid # pid) \in BOOLEAN
    BY <2>1 DEF VfkitCalls
  <2> QED BY <2>1, <2>2 DEF VfkitCalls
<1>2. call' \in [Procs -> VfkitCalls]
  BY <1>1 DEF Vfkit!VfkitEnds
<1> QED BY <1>1, <1>2 DEF VfkitNow

\* The host: a vfkit that ends was the one, and the number of another process is no vfkit's.
LEMMA VfkitHost ==
  ASSUME NEW p, Procs = {p}, VfkitInv
  PROVE  (\E pid \in Pids : Vfkit!VfkitEnds(pid) \/ Vfkit!OtherProcess(pid)) \/ Vfkit!Lease => VfkitInv'
<1>0. p \in Procs /\ VfkitOf(p)
  BY VfkitOne
<1> USE DEF VfkitOf, VfkitFails, Vfkit!files
<1>1. ASSUME NEW pid \in Pids, Vfkit!VfkitEnds(pid) PROVE VfkitOf(p)'
  <2>1. /\ UNCHANGED <<pidFile, disk, saved, faults, lease>>
        /\ table' = [table EXCEPT ![pid] = "none"] /\ lost' = (lost /\ Vfkit!Ours # {pid})
    BY <1>1 DEF Vfkit!VfkitEnds
  <2>2. Vfkit!Ours' = Vfkit!Ours \ {pid}
    BY <1>0, <2>1 DEF Vfkit!Ours, Vfkit!TypeOK
  <2>3. VfkitNow(p, call[p].op, call[p].pc, call[p].pid, call[p].size, call[p].result,
                 call[p].smooth /\ call[p].pid # pid)
    BY <1>0, <1>1, VfkitDisturbs
  <2>4. Vfkit!TypeOK'
    BY <1>0, <2>1, <2>3 DEF Vfkit!TypeOK, VfkitNow, VfkitCalls
  <2>5. Vfkit!CapacityFits'
    BY <1>0, <2>1 DEF Vfkit!CapacityFits
  <2>6. VfkitControl(p)'
    BY <1>0, <2>1, <2>3 DEF Vfkit!TypeOK, VfkitNow, VfkitControl
  <2>7. ~lost' => VfkitKnown(p)'
    BY <1>0, <1>1, <2>1, <2>2, <2>3 DEF VfkitKnown, VfkitNow
  <2>8. VfkitFails(p)' => VfkitFails(p)
    BY <2>3 DEF VfkitNow
  <2> QED BY <1>0, <2>1, <2>3, <2>4, <2>5, <2>6, <2>7, <2>8 DEF VfkitNow
<1>2. ASSUME NEW pid \in Pids, Vfkit!OtherProcess(pid) PROVE VfkitOf(p)'
  <2>1. /\ UNCHANGED <<pidFile, disk, saved, call, lost, faults, lease>>
        /\ table[pid] \in {"none", "other"}
        /\ \E now1 \in {"none", "other"} : table' = [table EXCEPT ![pid] = now1]
    BY <1>2 DEF Vfkit!OtherProcess
  <2>2. Vfkit!Ours' = Vfkit!Ours
    BY <1>0, <2>1 DEF Vfkit!Ours, Vfkit!TypeOK
  <2>3. Vfkit!TypeOK' /\ Vfkit!CapacityFits' /\ VfkitControl(p)'
    BY <1>0, <2>1, SMT, SMTT(60) DEF Vfkit!TypeOK, Vfkit!CapacityFits, VfkitControl
  <2> QED BY <1>0, <2>1, <2>2, <2>3 DEF VfkitKnown
<1>3. ASSUME Vfkit!Lease PROVE VfkitOf(p)'
  <2>1. /\ UNCHANGED <<table, pidFile, disk, saved, call, lost, faults>>
        /\ lease' \in BOOLEAN
    BY <1>3 DEF Vfkit!Lease
  <2> QED BY <1>0, <2>1, SMT, SMTT(60)
           DEF Vfkit!TypeOK, Vfkit!CapacityFits, Vfkit!Ours, VfkitControl, VfkitKnown
<1> QED BY <1>1, <1>2, <1>3, VfkitOne

\* A step that leaves vfkit alone keeps the invariant.
LEMMA VfkitStutters == VfkitInv /\ UNCHANGED Vfkit!vars => VfkitInv'
BY SMT, SMTT(60) DEF VfkitInv, Vfkit!vars, Vfkit!files, Vfkit!TypeOK, Vfkit!CapacityFits, Vfkit!SmoothStartRecovers,
       Vfkit!Undisturbed, Vfkit!Ours, VfkitControl, VfkitKnown

(***************************************************************************)
(* With one crc process every vfkit whose number has been written is the   *)
(* one vfkit.pid names, whatever fails, is cut short or ends by itself, and *)
(* whatever numbers other processes are given.                             *)
(***************************************************************************)
THEOREM VfkitInvariant == ASSUME OneProc PROVE Vfkit!Spec => []VfkitInv
<1>1. ASSUME VfkitInv, [Vfkit!Next]_(Vfkit!vars) PROVE VfkitInv'
  <2>1. CASE UNCHANGED Vfkit!vars
    BY <1>1, <2>1, VfkitStutters
  <2>2. CASE Vfkit!Next
    <3> PICK p : Procs = {p}
      BY DEF OneProc
    <3> QED BY <1>1, <2>2, VfkitDisks, VfkitStarting, VfkitStarted, VfkitStopping, VfkitLeaving, VfkitHost
              DEF Vfkit!Next
  <2> QED BY <1>1, <2>1, <2>2
<1> QED BY <1>1, VfkitInit, PTL DEF Vfkit!Spec

\* What the invariant says of the answers.
LEMMA VfkitAnswers ==
  ASSUME OneProc, VfkitInv
  PROVE  /\ Vfkit!TypeOK /\ Vfkit!CapacityFits /\ Vfkit!SmoothStartRecovers
         /\ Vfkit!StateTruthful /\ Vfkit!OneKnownVfkit /\ Vfkit!StopStops
<1> PICK p : Procs = {p}
  BY DEF OneProc
<1>0. VfkitOf(p)
  BY VfkitOne
<1>1. Vfkit!StateTruthful
  BY <1>0, VfkitStates DEF Vfkit!StateTruthful, VfkitOf, VfkitKnown
<1>2. Vfkit!StopStops
  BY <1>0 DEF Vfkit!StopStops, VfkitOf, VfkitKnown
<1>3. Vfkit!OneKnownVfkit
  BY <1>0 DEF Vfkit!OneKnownVfkit, Vfkit!OneVfkit, VfkitOf, VfkitKnown
<1> QED BY <1>1, <1>2, <1>3 DEF VfkitInv

-----------------------------------------------------------------------------
(***************************************************************************)
(* The driver of Windows.  What Hyper-V has and what the store says are    *)
(* related by the place the operation is at.                               *)
(***************************************************************************)
HypervOps == {"none", "start", "stop", "poweroff", "delete", "cleanup"}
HypervResults == {"none", "ok", "error", "running", "stopped"}

\* Create, the update of the settings, and the start of a machine that exists.
Creating == {"check", "copy", "new", "adapter", "memory", "cpus", "actions", "attach", "exists"}
Updating == {"state", "setMemory", "setCpus", "save"}
Starting == {"setSize", "saveSize", "startVm", "waitIp", "inState"}
Deleting == {"getVm", "removeVm", "removeStore"}

HypervPlaces ==
  {"idle", "stopVm", "turnOff", "waitStopped"} \cup Creating \cup Updating \cup Starting \cup Deleting

HypervCalls == [op : HypervOps, pc : HypervPlaces, result : HypervResults, smooth : BOOLEAN]

VMs ==
  [memory : Memories \cup {0}, cpus : CPUs \cup {0, 1}, adapter : BOOLEAN, dynamic : BOOLEAN,
   stopAction : {"none", "Save", "ShutDown"}, attached : BOOLEAN]

HypervTypes ==
  /\ Hyperv!TypeOK /\ vm \in VMs /\ command \in HypervCalls
  /\ asked \in Hyperv!Configs \cup {Hyperv!NoConfig}
  /\ machines = 0 => power = "Off"
  /\ ~exists => ~torn

HypervControl ==
  /\ command.pc \in Creating \cup Updating \cup Starting => command.op = "start"
  /\ command.pc = "stopVm" => command.op = "stop"
  /\ command.pc = "turnOff" => command.op \in {"poweroff", "delete"}
  /\ command.pc = "waitStopped" => command.op \in {"stop", "poweroff", "delete"}
  /\ command.pc \in Deleting => command.op = "delete"
  /\ command.pc = "removeStore" /\ command.smooth => machines = 0

\* What a Create that has come this far has done to the machine it has made.
HypervCreates ==
  /\ command.pc \in Creating => ~exists /\ driver \in Hyperv!Configs /\ asked = driver
  /\ command.pc \in {"check", "copy", "new"} => machines < MaxMachines
  /\ command.pc \in Creating /\ command.pc # "check" => stored = driver
  /\ command.pc \in Creating /\ command.pc \notin {"check", "copy", "new"} =>
       machines # 0 /\ power = "Off" /\ vm.memory = driver.memory
  /\ command.pc = "adapter" => ~driver.switch
  /\ command.pc \in {"adapter", "memory", "cpus"} => vm.cpus = 1
  /\ command.pc \in {"memory", "cpus", "actions", "attach", "exists"} => vm.adapter = driver.switch
  /\ command.pc \in {"cpus", "actions", "attach", "exists"} => ~vm.dynamic
  /\ command.pc \in {"actions", "attach", "exists"} => vm.cpus = driver.cpus
  /\ command.pc \in {"attach", "exists"} => vm.stopAction = "ShutDown"
  /\ command.pc = "exists" => vm.attached

\* A machine that crc says exists, if Hyper-V has it, is complete.
HypervComplete ==
  /\ exists /\ machines # 0 =>
       vm.attached /\ vm.stopAction = "ShutDown" /\ ~vm.dynamic /\ vm.adapter = stored.switch
  /\ command.pc \in Updating \cup Starting =>
       exists /\ driver \in Hyperv!Configs /\ asked \in Hyperv!Configs /\ driver.switch = stored.switch
  /\ command.pc \in Updating \cup Starting /\ command.pc # "state" => machines # 0
  /\ command.pc \in {"state", "setMemory"} => driver = stored
  /\ command.pc = "setCpus" => driver.memory = asked.memory /\ driver.cpus = stored.cpus
  /\ command.pc = "save" \/ command.pc \in Starting => driver.memory = asked.memory /\ driver.cpus = asked.cpus
  /\ command.pc \in Starting => stored.memory = asked.memory /\ stored.cpus = asked.cpus

\* The settings of the machine are the ones crc knows of: the loaded ones in an update, the
\* stored ones otherwise.
HypervSettings ==
  /\ command.pc \in {"setCpus", "save"} => vm.memory = driver.memory /\ vm.cpus = driver.cpus
  /\ command.pc \notin {"setCpus", "save"} /\ exists /\ machines # 0 =>
       vm.memory = stored.memory /\ vm.cpus = stored.cpus

HypervRest ==
  /\ HypervControl /\ HypervCreates /\ HypervComplete
  /\ ~torn => HypervSettings
  /\ Hyperv!StopStops /\ Hyperv!DeletedUnlessRough /\ Hyperv!HardwareUnlessTorn

HypervInv == HypervTypes /\ HypervRest

\* Where a step leaves the operation.
HypervNow(op, pc0, res, smooth) ==
  /\ command' \in HypervCalls
  /\ command'.op = op /\ command'.pc = pc0 /\ command'.result = res /\ command'.smooth = smooth

\* The operation goes on to another place.
LEMMA HypervGoes ==
  ASSUME command \in HypervCalls, NEW to \in HypervPlaces, Hyperv!Go(to)
  PROVE  HypervNow(command.op, to, command.result, command.smooth)
BY DEF Hyperv!Go, HypervNow, HypervCalls

\* An operation begins.
LEMMA HypervBegins ==
  ASSUME NEW op \in HypervOps, NEW to \in HypervPlaces, Hyperv!Begin(op, to)
  PROVE  HypervNow(op, to, "none", TRUE)
BY Zenon, ZenonT(30) DEF Hyperv!Begin, Hyperv!Idle, HypervNow, HypervCalls, HypervResults

\* The operation returns.
LEMMA HypervReturns ==
  ASSUME command \in HypervCalls, NEW res \in HypervResults, Hyperv!Return(res)
  PROVE  HypervNow(command.op, "idle", res, command.smooth)
BY DEF Hyperv!Return, Hyperv!Idle, HypervNow, HypervCalls, HypervPlaces

\* The operation returns after a failure or a timeout.
LEMMA HypervRoughly ==
  ASSUME command \in HypervCalls, NEW res \in HypervResults, Hyperv!Rough(res)
  PROVE  HypervNow(command.op, "idle", res, FALSE)
BY Zenon, ZenonT(30) DEF Hyperv!Rough, Hyperv!Idle, HypervNow, HypervCalls, HypervPlaces

\* An operation returns at once.
LEMMA HypervIdles ==
  ASSUME NEW op \in HypervOps, NEW res \in HypervResults, command' = Hyperv!Idle(op, res)
  PROVE  HypervNow(op, "idle", res, TRUE)
BY DEF Hyperv!Idle, HypervNow, HypervCalls, HypervPlaces

\* A configuration that is stored is none of zeros.
LEMMA HypervConfigs ==
  /\ Hyperv!NoConfig \notin Hyperv!Configs
  /\ \A c \in Hyperv!Configs :
       /\ c.memory \in Memories /\ c.cpus \in CPUs /\ c.size \in VhdSizes /\ c.switch \in BOOLEAN
       /\ c = [c EXCEPT !.switch = c.switch]
       /\ \A b \in BOOLEAN : [c EXCEPT !.switch = b] \in Hyperv!Configs
BY HypervAssumption DEF Hyperv!NoConfig, Hyperv!Configs

\* The machine that New-VM makes.
NewMachine(mem) ==
  [Hyperv!NoVM EXCEPT !.memory = mem, !.cpus = 1, !.adapter = TRUE, !.dynamic = TRUE, !.stopAction = "Save"]

\* What New-VM has set, and what Create has still to set.
LEMMA HypervNewMachine ==
  ASSUME NEW mem \in Memories
  PROVE  /\ NewMachine(mem) \in VMs
         /\ NewMachine(mem).memory = mem /\ NewMachine(mem).cpus = 1 /\ NewMachine(mem).adapter = TRUE
BY Zenon, ZenonT(30) DEF NewMachine, Hyperv!NoVM, VMs

\* The memory is changed alone.
LEMMA HypervMemory ==
  ASSUME NEW c \in Hyperv!Configs, NEW v \in VMs, NEW mem \in Memories, NEW d, d = [c EXCEPT !.memory = mem],
         NEW w, w = IF c.memory # mem THEN [v EXCEPT !.memory = mem] ELSE v
  PROVE  /\ d \in Hyperv!Configs /\ d.memory = mem /\ d.cpus = c.cpus /\ d.size = c.size /\ d.switch = c.switch
         /\ w \in VMs /\ w.cpus = v.cpus /\ w.adapter = v.adapter
         /\ w.dynamic = v.dynamic /\ w.stopAction = v.stopAction /\ w.attached = v.attached
         /\ v.memory = c.memory => w.memory = mem
BY DEF Hyperv!Configs, VMs

\* The processors are changed alone.
LEMMA HypervCPUs ==
  ASSUME NEW c \in Hyperv!Configs, NEW v \in VMs, NEW n \in CPUs, NEW d, d = [c EXCEPT !.cpus = n],
         NEW w, w = IF c.cpus # n THEN [v EXCEPT !.cpus = n] ELSE v
  PROVE  /\ d \in Hyperv!Configs /\ d.memory = c.memory /\ d.cpus = n /\ d.size = c.size /\ d.switch = c.switch
         /\ w \in VMs /\ w.memory = v.memory /\ w.adapter = v.adapter
         /\ w.dynamic = v.dynamic /\ w.stopAction = v.stopAction /\ w.attached = v.attached
         /\ v.cpus = c.cpus => w.cpus = n
BY DEF Hyperv!Configs, VMs

\* What GetState says of the machine.
LEMMA HypervStates ==
  /\ Hyperv!GetState \in {"Error", "Running", "Stopped"}
  /\ Hyperv!GetState = "Stopped" => machines # 0 /\ power = "Off"
BY DEF Hyperv!GetState

\* From the look at the store to the machine Hyper-V makes.
LEMMA HypervMakes ==
  ASSUME HypervInv
  PROVE  \/ Hyperv!ClientStart
         \/ Hyperv!PreCreateCheck
         \/ Hyperv!CopyDisk
         \/ Hyperv!NewVM
         => HypervInv'
<1>0. HypervTypes /\ HypervRest
  BY DEF HypervInv
<1>01. Hyperv!Fault => failures' \in 0..MaxFailures
  BY <1>0, HypervAssumption DEF Hyperv!Fault, Hyperv!TypeOK, HypervTypes
<1>02. command \in HypervCalls
  BY <1>0 DEF HypervTypes
<1> USE DEF Hyperv!hyperv, Hyperv!store, Creating, Updating, Starting, Deleting
<1>1. ASSUME Hyperv!ClientStart PROVE (HypervTypes /\ HypervRest)'
  <2>1. CASE exists
    <3>1. PICK c \in Hyperv!Configs :
            /\ command.pc = "idle"
            /\ HypervNow("start", "state", "none", TRUE)
            /\ asked' = [c EXCEPT !.switch = stored.switch]
            /\ driver' = stored
            /\ UNCHANGED <<machines, vm, power, ip, vhd, stored, exists, torn, failures>>
      BY <1>02, <1>1, <2>1, HypervBegins, Zenon
         DEF Hyperv!ClientStart, Hyperv!At, HypervOps, HypervPlaces
    <3>2. stored \in Hyperv!Configs /\ stored.switch \in BOOLEAN /\ asked' \in Hyperv!Configs
      BY <1>0, <3>1, <2>1, HypervConfigs DEF HypervTypes, Hyperv!TypeOK
    <3>3. HypervTypes'
      BY <1>0, <3>1, <3>2, <2>1, HypervConfigs, HypervAssumption
         DEF HypervTypes, Hyperv!TypeOK, HypervNow, HypervRest, HypervCreates, HypervComplete
    <3> QED BY <1>0, <3>1, <3>2, <2>1, <3>3
               DEF HypervTypes, HypervRest, HypervNow, HypervControl, HypervCreates,
                   HypervComplete, HypervSettings, Hyperv!StopStops, Hyperv!DeletedUnlessRough,
                   Hyperv!HardwareUnlessTorn, Hyperv!StartedNow, Hyperv!Hardware
  <2>2. CASE ~exists
    <3>1. PICK c \in Hyperv!Configs :
            /\ command.pc = "idle" /\ machines < MaxMachines
            /\ HypervNow("start", "check", "none", TRUE)
            /\ asked' = c
            /\ driver' = c
            /\ UNCHANGED <<machines, vm, power, ip, vhd, stored, exists, torn, failures>>
      BY <1>02, <1>1, <2>2, HypervBegins, HypervConfigs, Zenon
         DEF Hyperv!ClientStart, Hyperv!At, HypervOps, HypervPlaces
    <3>3. HypervTypes'
      BY <1>0, <3>1, <2>2, HypervConfigs, HypervAssumption
         DEF HypervTypes, Hyperv!TypeOK, HypervNow, HypervRest, HypervCreates, HypervComplete
    <3> QED BY <1>0, <3>1, <2>2, <3>3
               DEF HypervTypes, HypervRest, HypervNow, HypervControl, HypervCreates,
                   HypervComplete, HypervSettings, Hyperv!StopStops, Hyperv!DeletedUnlessRough,
                   Hyperv!HardwareUnlessTorn, Hyperv!StartedNow, Hyperv!Hardware
  <2> QED BY <1>0, <1>1, <2>1, <2>2 DEF Hyperv!ClientStart, HypervTypes, Hyperv!TypeOK
<1>2. ASSUME Hyperv!PreCreateCheck PROVE (HypervTypes /\ HypervRest)'
  <2>1. /\ command.op = "start" /\ command.pc = "check"
        /\ HypervNow(command.op, "copy", command.result, command.smooth)
        /\ stored' = driver
        /\ UNCHANGED <<machines, vm, power, ip, vhd, exists, driver, asked, torn, failures>>
    BY <1>02, <1>2, HypervGoes, Zenon DEF Hyperv!PreCreateCheck, Hyperv!At, HypervPlaces
  <2>3. HypervTypes'
    BY <1>0, <2>1, HypervConfigs, HypervAssumption
       DEF HypervTypes, Hyperv!TypeOK, HypervNow, HypervRest, HypervCreates, HypervComplete
  <2> QED BY <1>0, <2>1, <2>3
             DEF HypervTypes, HypervRest, HypervNow, HypervControl, HypervCreates, HypervComplete,
                 HypervSettings, Hyperv!StopStops, Hyperv!DeletedUnlessRough,
                 Hyperv!HardwareUnlessTorn, Hyperv!StartedNow, Hyperv!Hardware
<1>3. ASSUME Hyperv!CopyDisk PROVE (HypervTypes /\ HypervRest)'
  <2>1. CASE power = "Off"
    <3>1. /\ command.op = "start" /\ command.pc = "copy"
          /\ HypervNow(command.op, "new", command.result, command.smooth)
          /\ vhd' = DefaultDiskSize
          /\ UNCHANGED <<machines, vm, power, ip, stored, exists, driver, asked, torn, failures>>
      BY <1>02, <1>3, <2>1, HypervGoes, Zenon DEF Hyperv!CopyDisk, Hyperv!At, HypervPlaces
    <3>3. HypervTypes'
      BY <1>0, <3>1, HypervConfigs, HypervAssumption
         DEF HypervTypes, Hyperv!TypeOK, HypervNow, HypervRest, HypervCreates, HypervComplete
    <3> QED BY <1>0, <3>1, <3>3
               DEF HypervTypes, HypervRest, HypervNow, HypervControl, HypervCreates, HypervComplete,
                   HypervSettings, Hyperv!StopStops, Hyperv!DeletedUnlessRough,
                   Hyperv!HardwareUnlessTorn, Hyperv!StartedNow, Hyperv!Hardware
  <2>2. CASE power # "Off"
    <3>1. /\ command.op = "start" /\ command.pc = "copy"
          /\ HypervNow(command.op, "idle", "error", command.smooth)
          /\ UNCHANGED <<machines, vm, power, ip, vhd, stored, exists, driver, asked, torn, failures>>
      BY <1>02, <1>3, <2>2, HypervReturns, Zenon DEF Hyperv!CopyDisk, Hyperv!At, HypervResults
    <3>3. HypervTypes'
      BY <1>0, <3>1, HypervConfigs, HypervAssumption
         DEF HypervTypes, Hyperv!TypeOK, HypervNow, HypervRest, HypervCreates, HypervComplete
    <3> QED BY <1>0, <3>1, <3>3
               DEF HypervTypes, HypervRest, HypervNow, HypervControl, HypervCreates, HypervComplete,
                   HypervSettings, Hyperv!StopStops, Hyperv!DeletedUnlessRough,
                   Hyperv!HardwareUnlessTorn, Hyperv!StartedNow, Hyperv!Hardware
  <2> QED BY <2>1, <2>2
<1>4. ASSUME Hyperv!NewVM PROVE (HypervTypes /\ HypervRest)'
  <2>1. CASE driver.switch
    <3>1. /\ command.op = "start" /\ command.pc = "new"
          /\ HypervNow(command.op, "memory", command.result, command.smooth)
          /\ machines' = machines + 1
          /\ vm' = NewMachine(driver.memory)
          /\ power' = "Off"
          /\ ip' = FALSE
          /\ UNCHANGED <<vhd, stored, exists, driver, asked, torn, failures>>
      BY <1>02, <1>4, <2>1, HypervGoes, Zenon DEF Hyperv!NewVM, Hyperv!At, HypervPlaces, NewMachine
    <3>8. ip' \in BOOLEAN
      BY <3>1, Zenon
    <3>5. machines < MaxMachines /\ machines \in 0..MaxMachines
      BY <1>0, <3>1, <3>8 DEF HypervTypes, Hyperv!TypeOK, HypervRest, HypervCreates
    <3>4. machines' \in 0..MaxMachines /\ machines' # 0
      BY <3>1, <3>5, HypervAssumption
    <3>2. vm' \in VMs /\ vm'.memory = driver.memory /\ vm'.cpus = 1 /\ vm'.adapter = driver.switch
      BY <1>0, <3>1, <3>8, <3>4, <2>1, HypervConfigs, HypervNewMachine, Zenon, ZenonT(30)
         DEF HypervRest, HypervCreates, Creating
    <3>3. HypervTypes'
      BY <1>0, <3>1, <3>8, <3>4, <3>2, HypervConfigs, HypervAssumption
         DEF HypervTypes, Hyperv!TypeOK, HypervNow, HypervRest, HypervCreates, HypervComplete
    <3> QED BY <1>0, <3>1, <3>8, <3>4, <3>2, <3>3
               DEF HypervTypes, HypervRest, HypervNow, HypervControl, HypervCreates,
                   HypervComplete, HypervSettings, Hyperv!StopStops, Hyperv!DeletedUnlessRough,
                   Hyperv!HardwareUnlessTorn, Hyperv!StartedNow, Hyperv!Hardware
  <2>2. CASE ~driver.switch
    <3>1. /\ command.op = "start" /\ command.pc = "new"
          /\ HypervNow(command.op, "adapter", command.result, command.smooth)
          /\ machines' = machines + 1
          /\ vm' = NewMachine(driver.memory)
          /\ power' = "Off"
          /\ ip' = FALSE
          /\ UNCHANGED <<vhd, stored, exists, driver, asked, torn, failures>>
      BY <1>02, <1>4, <2>2, HypervGoes, Zenon DEF Hyperv!NewVM, Hyperv!At, HypervPlaces, NewMachine
    <3>8. ip' \in BOOLEAN
      BY <3>1, Zenon
    <3>5. machines < MaxMachines /\ machines \in 0..MaxMachines
      BY <1>0, <3>1, <3>8 DEF HypervTypes, Hyperv!TypeOK, HypervRest, HypervCreates
    <3>4. machines' \in 0..MaxMachines /\ machines' # 0
      BY <3>1, <3>5, HypervAssumption
    <3>2. vm' \in VMs /\ vm'.memory = driver.memory /\ vm'.cpus = 1
      BY <1>0, <3>1, <3>8, <3>4, HypervConfigs, HypervNewMachine, Zenon, ZenonT(30)
         DEF HypervRest, HypervCreates, Creating
    <3>3. HypervTypes'
      BY <1>0, <3>1, <3>8, <3>4, <3>2, <2>2, HypervConfigs, HypervAssumption
         DEF HypervTypes, Hyperv!TypeOK, HypervNow, HypervRest, HypervCreates, HypervComplete
    <3> QED BY <1>0, <3>1, <3>8, <3>4, <3>2, <2>2, <3>3
               DEF HypervTypes, HypervRest, HypervNow, HypervControl, HypervCreates,
                   HypervComplete, HypervSettings, Hyperv!StopStops, Hyperv!DeletedUnlessRough,
                   Hyperv!HardwareUnlessTorn, Hyperv!StartedNow, Hyperv!Hardware
  <2> QED BY <1>0, <1>4, <2>1, <2>2 DEF Hyperv!NewVM, HypervTypes, Hyperv!TypeOK
<1> QED BY <1>1, <1>2, <1>3, <1>4 DEF HypervInv

\* What Create does to the machine, until it is marked as created.
LEMMA HypervEquips ==
  ASSUME HypervInv
  PROVE  \/ Hyperv!RemoveAdapter
         \/ Hyperv!SetHardware
         \/ Hyperv!SetProcessors
         \/ Hyperv!SetActions
         \/ Hyperv!AddHardDiskDrive
         \/ Hyperv!SetExists
         => HypervInv'
<1>0. HypervTypes /\ HypervRest
  BY DEF HypervInv
<1>01. Hyperv!Fault => failures' \in 0..MaxFailures
  BY <1>0, HypervAssumption DEF Hyperv!Fault, Hyperv!TypeOK, HypervTypes
<1>02. command \in HypervCalls
  BY <1>0 DEF HypervTypes
<1> USE DEF Hyperv!hyperv, Hyperv!store, Creating, Updating, Starting, Deleting
<1>1. ASSUME Hyperv!RemoveAdapter PROVE (HypervTypes /\ HypervRest)'
  <2>1. /\ command.op = "start" /\ command.pc = "adapter"
        /\ HypervNow(command.op, "memory", command.result, command.smooth)
        /\ vm' = [vm EXCEPT !.adapter = FALSE]
        /\ UNCHANGED <<machines, power, ip, vhd, stored, exists, driver, asked, torn, failures>>
    BY <1>02, <1>1, HypervGoes, Zenon DEF Hyperv!RemoveAdapter, Hyperv!At, HypervPlaces
  <2>2. /\ vm' \in VMs /\ vm'.adapter = driver.switch /\ vm'.memory = vm.memory
        /\ vm'.cpus = vm.cpus /\ vm'.dynamic = vm.dynamic /\ vm'.stopAction = vm.stopAction
        /\ vm'.attached = vm.attached
    BY <1>0, <2>1, HypervConfigs, Zenon, ZenonT(30) DEF VMs, HypervTypes, HypervRest, HypervCreates
  <2>3. HypervTypes'
    BY <1>0, <2>1, <2>2, HypervConfigs, HypervAssumption
       DEF HypervTypes, Hyperv!TypeOK, HypervNow, HypervRest, HypervCreates, HypervComplete
  <2> QED BY <1>0, <2>1, <2>2, <2>3, Zenon, ZenonT(30)
             DEF HypervTypes, HypervRest, HypervNow, HypervControl, HypervCreates, HypervComplete,
                 HypervSettings, Hyperv!StopStops, Hyperv!DeletedUnlessRough,
                 Hyperv!HardwareUnlessTorn, Hyperv!StartedNow, Hyperv!Hardware
<1>2. ASSUME Hyperv!SetHardware PROVE (HypervTypes /\ HypervRest)'
  <2>1. CASE driver.cpus > 1
    <3>1. /\ command.op = "start" /\ command.pc = "memory"
          /\ HypervNow(command.op, "cpus", command.result, command.smooth)
          /\ vm' = [vm EXCEPT !.dynamic = FALSE]
          /\ UNCHANGED <<machines, power, ip, vhd, stored, exists, driver, asked, torn, failures>>
      BY <1>02, <1>2, <2>1, HypervGoes, Zenon DEF Hyperv!SetHardware, Hyperv!At, HypervPlaces
    <3>2. /\ vm' \in VMs /\ vm'.dynamic = FALSE /\ vm'.memory = vm.memory /\ vm'.cpus = vm.cpus
          /\ vm'.adapter = vm.adapter /\ vm'.stopAction = vm.stopAction
          /\ vm'.attached = vm.attached
      BY <1>0, <3>1, Zenon, ZenonT(30) DEF VMs, HypervTypes
    <3>3. HypervTypes'
      BY <1>0, <3>1, <3>2, <2>1, HypervConfigs, HypervAssumption
         DEF HypervTypes, Hyperv!TypeOK, HypervNow, HypervRest, HypervCreates, HypervComplete
    <3> QED BY <1>0, <3>1, <3>2, <2>1, <3>3
               DEF HypervTypes, HypervRest, HypervNow, HypervControl, HypervCreates,
                   HypervComplete, HypervSettings, Hyperv!StopStops, Hyperv!DeletedUnlessRough,
                   Hyperv!HardwareUnlessTorn, Hyperv!StartedNow, Hyperv!Hardware
  <2>2. CASE ~(driver.cpus > 1)
    <3>1. /\ command.op = "start" /\ command.pc = "memory"
          /\ HypervNow(command.op, "actions", command.result, command.smooth)
          /\ vm' = [vm EXCEPT !.dynamic = FALSE]
          /\ UNCHANGED <<machines, power, ip, vhd, stored, exists, driver, asked, torn, failures>>
      BY <1>02, <1>2, <2>2, HypervGoes, Zenon DEF Hyperv!SetHardware, Hyperv!At, HypervPlaces
    <3>7. driver.cpus = 1
      BY <1>0, <3>1, <2>2, HypervConfigs, HypervAssumption DEF HypervRest, HypervCreates
    <3>2. /\ vm' \in VMs /\ vm'.dynamic = FALSE /\ vm'.memory = vm.memory /\ vm'.cpus = vm.cpus
          /\ vm'.adapter = vm.adapter /\ vm'.stopAction = vm.stopAction
          /\ vm'.attached = vm.attached
      BY <1>0, <3>1, <3>7, Zenon, ZenonT(30) DEF VMs, HypervTypes
    <3>3. HypervTypes'
      BY <1>0, <3>1, <3>7, <3>2, HypervConfigs, HypervAssumption
         DEF HypervTypes, Hyperv!TypeOK, HypervNow, HypervRest, HypervCreates, HypervComplete
    <3> QED BY <1>0, <3>1, <3>7, <3>2, <3>3
               DEF HypervTypes, HypervRest, HypervNow, HypervControl, HypervCreates,
                   HypervComplete, HypervSettings, Hyperv!StopStops, Hyperv!DeletedUnlessRough,
                   Hyperv!HardwareUnlessTorn, Hyperv!StartedNow, Hyperv!Hardware
  <2> QED BY <1>0, <1>2, <2>1, <2>2 DEF Hyperv!SetHardware, HypervTypes, Hyperv!TypeOK
<1>3. ASSUME Hyperv!SetProcessors PROVE (HypervTypes /\ HypervRest)'
  <2>1. /\ command.op = "start" /\ command.pc = "cpus"
        /\ HypervNow(command.op, "actions", command.result, command.smooth)
        /\ vm' = [vm EXCEPT !.cpus = driver.cpus]
        /\ UNCHANGED <<machines, power, ip, vhd, stored, exists, driver, asked, torn, failures>>
    BY <1>02, <1>3, HypervGoes, Zenon DEF Hyperv!SetProcessors, Hyperv!At, HypervPlaces
  <2>2. /\ vm' \in VMs /\ vm'.cpus = driver.cpus /\ vm'.memory = vm.memory
        /\ vm'.adapter = vm.adapter /\ vm'.dynamic = vm.dynamic /\ vm'.stopAction = vm.stopAction
        /\ vm'.attached = vm.attached
    BY <1>0, <2>1, HypervConfigs DEF VMs, HypervTypes, HypervRest, HypervCreates
  <2>3. HypervTypes'
    BY <1>0, <2>1, <2>2, HypervConfigs, HypervAssumption
       DEF HypervTypes, Hyperv!TypeOK, HypervNow, HypervRest, HypervCreates, HypervComplete
  <2> QED BY <1>0, <2>1, <2>2, <2>3
             DEF HypervTypes, HypervRest, HypervNow, HypervControl, HypervCreates, HypervComplete,
                 HypervSettings, Hyperv!StopStops, Hyperv!DeletedUnlessRough,
                 Hyperv!HardwareUnlessTorn, Hyperv!StartedNow, Hyperv!Hardware
<1>4. ASSUME Hyperv!SetActions PROVE (HypervTypes /\ HypervRest)'
  <2>1. /\ command.op = "start" /\ command.pc = "actions"
        /\ HypervNow(command.op, "attach", command.result, command.smooth)
        /\ vm' = [vm EXCEPT !.stopAction = "ShutDown"]
        /\ UNCHANGED <<machines, power, ip, vhd, stored, exists, driver, asked, torn, failures>>
    BY <1>02, <1>4, HypervGoes, Zenon DEF Hyperv!SetActions, Hyperv!At, HypervPlaces
  <2>2. /\ vm' \in VMs /\ vm'.stopAction = "ShutDown" /\ vm'.memory = vm.memory
        /\ vm'.cpus = vm.cpus /\ vm'.adapter = vm.adapter /\ vm'.dynamic = vm.dynamic
        /\ vm'.attached = vm.attached
    BY <1>0, <2>1 DEF VMs, HypervTypes
  <2>3. HypervTypes'
    BY <1>0, <2>1, <2>2, HypervConfigs, HypervAssumption
       DEF HypervTypes, Hyperv!TypeOK, HypervNow, HypervRest, HypervCreates, HypervComplete
  <2> QED BY <1>0, <2>1, <2>2, <2>3
             DEF HypervTypes, HypervRest, HypervNow, HypervControl, HypervCreates, HypervComplete,
                 HypervSettings, Hyperv!StopStops, Hyperv!DeletedUnlessRough,
                 Hyperv!HardwareUnlessTorn, Hyperv!StartedNow, Hyperv!Hardware
<1>5. ASSUME Hyperv!AddHardDiskDrive PROVE (HypervTypes /\ HypervRest)'
  <2>1. /\ command.op = "start" /\ command.pc = "attach"
        /\ HypervNow(command.op, "exists", command.result, command.smooth)
        /\ vm' = [vm EXCEPT !.attached = TRUE]
        /\ UNCHANGED <<machines, power, ip, vhd, stored, exists, driver, asked, torn, failures>>
    BY <1>02, <1>5, HypervGoes, Zenon DEF Hyperv!AddHardDiskDrive, Hyperv!At, HypervPlaces
  <2>2. /\ vm' \in VMs /\ vm'.attached = TRUE /\ vm'.memory = vm.memory /\ vm'.cpus = vm.cpus
        /\ vm'.adapter = vm.adapter /\ vm'.dynamic = vm.dynamic /\ vm'.stopAction = vm.stopAction
    BY <1>0, <2>1, Zenon, ZenonT(30) DEF VMs, HypervTypes
  <2>3. HypervTypes'
    BY <1>0, <2>1, <2>2, HypervConfigs, HypervAssumption
       DEF HypervTypes, Hyperv!TypeOK, HypervNow, HypervRest, HypervCreates, HypervComplete
  <2> QED BY <1>0, <2>1, <2>2, <2>3
             DEF HypervTypes, HypervRest, HypervNow, HypervControl, HypervCreates, HypervComplete,
                 HypervSettings, Hyperv!StopStops, Hyperv!DeletedUnlessRough,
                 Hyperv!HardwareUnlessTorn, Hyperv!StartedNow, Hyperv!Hardware
<1>6. ASSUME Hyperv!SetExists PROVE (HypervTypes /\ HypervRest)'
  <2>1. /\ command.op = "start" /\ command.pc = "exists"
        /\ HypervNow(command.op, "state", command.result, command.smooth)
        /\ exists' = TRUE
        /\ driver' = stored
        /\ UNCHANGED <<machines, vm, power, ip, vhd, stored, asked, torn, failures>>
    BY <1>02, <1>6, HypervGoes, Zenon DEF Hyperv!SetExists, Hyperv!At, HypervPlaces
  <2>3. HypervTypes'
    BY <1>0, <2>1, HypervConfigs, HypervAssumption
       DEF HypervTypes, Hyperv!TypeOK, HypervNow, HypervRest, HypervCreates, HypervComplete
  <2> QED BY <1>0, <2>1, <2>3
             DEF HypervTypes, HypervRest, HypervNow, HypervControl, HypervCreates, HypervComplete,
                 HypervSettings, Hyperv!StopStops, Hyperv!DeletedUnlessRough,
                 Hyperv!HardwareUnlessTorn, Hyperv!StartedNow, Hyperv!Hardware
<1> QED BY <1>1, <1>2, <1>3, <1>4, <1>5, <1>6 DEF HypervInv

\* A machine that is stopped is given the settings, which are then stored.
LEMMA HypervUpdating ==
  ASSUME HypervInv
  PROVE  \/ Hyperv!StateBeforeStart
         \/ Hyperv!setMemory
         \/ Hyperv!setVcpus
         \/ Hyperv!Save
         => HypervInv'
<1>0. HypervTypes /\ HypervRest
  BY DEF HypervInv
<1>01. Hyperv!Fault => failures' \in 0..MaxFailures
  BY <1>0, HypervAssumption DEF Hyperv!Fault, Hyperv!TypeOK, HypervTypes
<1>02. command \in HypervCalls
  BY <1>0 DEF HypervTypes
<1> USE DEF Hyperv!hyperv, Hyperv!store, Creating, Updating, Starting, Deleting
<1>1. ASSUME Hyperv!StateBeforeStart PROVE (HypervTypes /\ HypervRest)'
  <2>1. CASE Hyperv!GetState = "Error"
    <3>1. /\ command.op = "start" /\ command.pc = "state"
          /\ HypervNow(command.op, "idle", "error", command.smooth)
          /\ UNCHANGED <<machines, vm, power, ip, vhd, stored, exists, driver, asked, torn, failures>>
      BY <1>02, <1>1, <2>1, HypervReturns, Zenon
         DEF Hyperv!StateBeforeStart, Hyperv!At, HypervResults
    <3>3. HypervTypes'
      BY <1>0, <3>1, HypervConfigs, HypervAssumption
         DEF HypervTypes, Hyperv!TypeOK, HypervNow, HypervRest, HypervCreates, HypervComplete
    <3> QED BY <1>0, <3>1, <3>3
               DEF HypervTypes, HypervRest, HypervNow, HypervControl, HypervCreates,
                   HypervComplete, HypervSettings, Hyperv!StopStops, Hyperv!DeletedUnlessRough,
                   Hyperv!HardwareUnlessTorn, Hyperv!StartedNow, Hyperv!Hardware
  <2>2. CASE Hyperv!GetState = "Running"
    <3>1. /\ command.op = "start" /\ command.pc = "state"
          /\ HypervNow(command.op, "idle", "running", command.smooth)
          /\ UNCHANGED <<machines, vm, power, ip, vhd, stored, exists, driver, asked, torn, failures>>
      BY <1>02, <1>1, <2>2, HypervReturns, Zenon
         DEF Hyperv!StateBeforeStart, Hyperv!At, HypervResults
    <3>3. HypervTypes'
      BY <1>0, <3>1, HypervConfigs, HypervAssumption
         DEF HypervTypes, Hyperv!TypeOK, HypervNow, HypervRest, HypervCreates, HypervComplete
    <3> QED BY <1>0, <3>1, <3>3
               DEF HypervTypes, HypervRest, HypervNow, HypervControl, HypervCreates,
                   HypervComplete, HypervSettings, Hyperv!StopStops, Hyperv!DeletedUnlessRough,
                   Hyperv!HardwareUnlessTorn, Hyperv!StartedNow, Hyperv!Hardware
  <2>3. CASE Hyperv!GetState = "Stopped"
    <3>1. /\ command.op = "start" /\ command.pc = "state" /\ machines # 0
          /\ HypervNow(command.op, "setMemory", command.result, command.smooth)
          /\ UNCHANGED <<machines, vm, power, ip, vhd, stored, exists, driver, asked, torn, failures>>
      BY <1>02, <1>1, <2>3, HypervGoes, HypervStates, Zenon
         DEF Hyperv!StateBeforeStart, Hyperv!At, HypervPlaces
    <3>3. HypervTypes'
      BY <1>0, <3>1, HypervConfigs, HypervAssumption
         DEF HypervTypes, Hyperv!TypeOK, HypervNow, HypervRest, HypervCreates, HypervComplete
    <3> QED BY <1>0, <3>1, <3>3
               DEF HypervTypes, HypervRest, HypervNow, HypervControl, HypervCreates,
                   HypervComplete, HypervSettings, Hyperv!StopStops, Hyperv!DeletedUnlessRough,
                   Hyperv!HardwareUnlessTorn, Hyperv!StartedNow, Hyperv!Hardware
  <2> QED BY <1>0, <1>1, <2>1, <2>2, <2>3, HypervStates
             DEF Hyperv!StateBeforeStart, HypervTypes, Hyperv!TypeOK
<1>2. ASSUME Hyperv!setMemory PROVE (HypervTypes /\ HypervRest)'
  <2>1. /\ command.op = "start" /\ command.pc = "setMemory"
        /\ HypervNow(command.op, "setCpus", command.result, command.smooth)
        /\ vm' = IF driver.memory # asked.memory THEN [vm EXCEPT !.memory = asked.memory] ELSE vm
        /\ driver' = [driver EXCEPT !.memory = asked.memory]
        /\ UNCHANGED <<machines, power, ip, vhd, stored, exists, asked, torn, failures>>
    BY <1>02, <1>2, HypervGoes, Zenon DEF Hyperv!setMemory, Hyperv!At, HypervPlaces
  <2>7. driver \in Hyperv!Configs /\ vm \in VMs /\ asked.memory \in Memories /\ asked.cpus \in CPUs
    BY <1>0, <2>1, HypervConfigs DEF HypervTypes, HypervRest, HypervComplete
  <2>2. /\ vm' \in VMs /\ (vm.memory = driver.memory => vm'.memory = asked.memory)
        /\ vm'.cpus = vm.cpus /\ vm'.adapter = vm.adapter /\ vm'.dynamic = vm.dynamic
        /\ vm'.stopAction = vm.stopAction /\ vm'.attached = vm.attached
        /\ driver' \in Hyperv!Configs /\ driver'.memory = asked.memory /\ driver'.cpus = driver.cpus
        /\ driver'.size = driver.size /\ driver'.switch = driver.switch
    BY <1>0, <2>1, <2>7, HypervMemory
  <2>3. HypervTypes'
    BY <1>0, <2>1, <2>7, <2>2, HypervConfigs, HypervAssumption
       DEF HypervTypes, Hyperv!TypeOK, HypervNow, HypervRest, HypervCreates, HypervComplete
  <2> QED BY <1>0, <2>1, <2>7, <2>2, <2>3
             DEF HypervTypes, HypervRest, HypervNow, HypervControl, HypervCreates, HypervComplete,
                 HypervSettings, Hyperv!StopStops, Hyperv!DeletedUnlessRough,
                 Hyperv!HardwareUnlessTorn, Hyperv!StartedNow, Hyperv!Hardware
<1>3. ASSUME Hyperv!setVcpus PROVE (HypervTypes /\ HypervRest)'
  <2>1. /\ command.op = "start" /\ command.pc = "setCpus"
        /\ HypervNow(command.op, "save", command.result, command.smooth)
        /\ vm' = IF driver.cpus # asked.cpus THEN [vm EXCEPT !.cpus = asked.cpus] ELSE vm
        /\ driver' = [driver EXCEPT !.cpus = asked.cpus]
        /\ UNCHANGED <<machines, power, ip, vhd, stored, exists, asked, torn, failures>>
    BY <1>02, <1>3, HypervGoes, Zenon DEF Hyperv!setVcpus, Hyperv!At, HypervPlaces
  <2>7. driver \in Hyperv!Configs /\ vm \in VMs /\ asked.memory \in Memories /\ asked.cpus \in CPUs
    BY <1>0, <2>1, HypervConfigs DEF HypervTypes, HypervRest, HypervComplete
  <2>2. /\ vm' \in VMs /\ (vm.cpus = driver.cpus => vm'.cpus = asked.cpus) /\ vm'.memory = vm.memory
        /\ vm'.adapter = vm.adapter /\ vm'.dynamic = vm.dynamic /\ vm'.stopAction = vm.stopAction
        /\ vm'.attached = vm.attached
        /\ driver' \in Hyperv!Configs /\ driver'.cpus = asked.cpus /\ driver'.memory = driver.memory
        /\ driver'.size = driver.size /\ driver'.switch = driver.switch
    BY <1>0, <2>1, <2>7, HypervCPUs
  <2>3. HypervTypes'
    BY <1>0, <2>1, <2>7, <2>2, HypervConfigs, HypervAssumption
       DEF HypervTypes, Hyperv!TypeOK, HypervNow, HypervRest, HypervCreates, HypervComplete
  <2> QED BY <1>0, <2>1, <2>7, <2>2, <2>3
             DEF HypervTypes, HypervRest, HypervNow, HypervControl, HypervCreates, HypervComplete,
                 HypervSettings, Hyperv!StopStops, Hyperv!DeletedUnlessRough,
                 Hyperv!HardwareUnlessTorn, Hyperv!StartedNow, Hyperv!Hardware
<1>4. ASSUME Hyperv!Save PROVE (HypervTypes /\ HypervRest)'
  <2>1. /\ command.op = "start" /\ command.pc = "save"
        /\ HypervNow(command.op, "setSize", command.result, command.smooth)
        /\ stored' = driver
        /\ UNCHANGED <<machines, vm, power, ip, vhd, exists, driver, asked, torn, failures>>
    BY <1>02, <1>4, HypervGoes, Zenon DEF Hyperv!Save, Hyperv!At, HypervPlaces
  <2>3. HypervTypes'
    BY <1>0, <2>1, HypervConfigs, HypervAssumption
       DEF HypervTypes, Hyperv!TypeOK, HypervNow, HypervRest, HypervCreates, HypervComplete
  <2> QED BY <1>0, <2>1, <2>3
             DEF HypervTypes, HypervRest, HypervNow, HypervControl, HypervCreates, HypervComplete,
                 HypervSettings, Hyperv!StopStops, Hyperv!DeletedUnlessRough,
                 Hyperv!HardwareUnlessTorn, Hyperv!StartedNow, Hyperv!Hardware
<1> QED BY <1>1, <1>2, <1>3, <1>4 DEF HypervInv

\* The disk, the start itself and the waits.
LEMMA HypervStarting ==
  ASSUME HypervInv
  PROVE  \/ Hyperv!setDiskSize
         \/ Hyperv!SaveSize
         \/ Hyperv!Start
         \/ Hyperv!waitForIP
         \/ Hyperv!startHost
         => HypervInv'
<1>0. HypervTypes /\ HypervRest
  BY DEF HypervInv
<1>01. Hyperv!Fault => failures' \in 0..MaxFailures
  BY <1>0, HypervAssumption DEF Hyperv!Fault, Hyperv!TypeOK, HypervTypes
<1>02. command \in HypervCalls
  BY <1>0 DEF HypervTypes
<1> USE DEF Hyperv!hyperv, Hyperv!store, Creating, Updating, Starting, Deleting
<1>1. ASSUME Hyperv!setDiskSize PROVE (HypervTypes /\ HypervRest)'
  <2>1. CASE asked.size = DefaultDiskSize \/ asked.size = driver.size
    <3>1. /\ command.op = "start" /\ command.pc = "setSize"
          /\ HypervNow(command.op, "startVm", command.result, command.smooth)
          /\ UNCHANGED <<machines, vm, power, ip, vhd, stored, exists, driver, asked, torn, failures>>
      BY <1>02, <1>1, <2>1, HypervGoes, Zenon DEF Hyperv!setDiskSize, Hyperv!At, HypervPlaces
    <3>3. HypervTypes'
      BY <1>0, <3>1, HypervConfigs, HypervAssumption
         DEF HypervTypes, Hyperv!TypeOK, HypervNow, HypervRest, HypervCreates, HypervComplete
    <3> QED BY <1>0, <3>1, <3>3
               DEF HypervTypes, HypervRest, HypervNow, HypervControl, HypervCreates,
                   HypervComplete, HypervSettings, Hyperv!StopStops, Hyperv!DeletedUnlessRough,
                   Hyperv!HardwareUnlessTorn, Hyperv!StartedNow, Hyperv!Hardware
  <2>2. CASE ~(asked.size = DefaultDiskSize \/ asked.size = driver.size) /\ asked.size < vhd
    <3>1. /\ command.op = "start" /\ command.pc = "setSize"
          /\ HypervNow(command.op, "idle", "error", command.smooth)
          /\ UNCHANGED <<machines, vm, power, ip, vhd, stored, exists, driver, asked, torn, failures>>
      BY <1>02, <1>1, <2>2, HypervReturns, Zenon DEF Hyperv!setDiskSize, Hyperv!At, HypervResults
    <3>3. HypervTypes'
      BY <1>0, <3>1, HypervConfigs, HypervAssumption
         DEF HypervTypes, Hyperv!TypeOK, HypervNow, HypervRest, HypervCreates, HypervComplete
    <3> QED BY <1>0, <3>1, <3>3
               DEF HypervTypes, HypervRest, HypervNow, HypervControl, HypervCreates,
                   HypervComplete, HypervSettings, Hyperv!StopStops, Hyperv!DeletedUnlessRough,
                   Hyperv!HardwareUnlessTorn, Hyperv!StartedNow, Hyperv!Hardware
  <2>3. CASE ~(asked.size = DefaultDiskSize \/ asked.size = driver.size) /\ ~(asked.size < vhd)
    <3>1. /\ command.op = "start" /\ command.pc = "setSize"
          /\ HypervNow(command.op, "saveSize", command.result, command.smooth)
          /\ vhd' = asked.size
          /\ driver' = [driver EXCEPT !.size = asked.size]
          /\ UNCHANGED <<machines, vm, power, ip, stored, exists, asked, torn, failures>>
      BY <1>02, <1>1, <2>3, HypervGoes, Zenon DEF Hyperv!setDiskSize, Hyperv!At, HypervPlaces
    <3>2. /\ driver' \in Hyperv!Configs /\ asked.size \in VhdSizes /\ driver'.memory = driver.memory
          /\ driver'.cpus = driver.cpus /\ driver'.switch = driver.switch
      BY <1>0, <3>1, HypervConfigs DEF Hyperv!Configs, HypervTypes, HypervRest, HypervComplete
    <3>3. HypervTypes'
      BY <1>0, <3>1, <3>2, HypervConfigs, HypervAssumption
         DEF HypervTypes, Hyperv!TypeOK, HypervNow, HypervRest, HypervCreates, HypervComplete
    <3> QED BY <1>0, <3>1, <3>2, <3>3
               DEF HypervTypes, HypervRest, HypervNow, HypervControl, HypervCreates,
                   HypervComplete, HypervSettings, Hyperv!StopStops, Hyperv!DeletedUnlessRough,
                   Hyperv!HardwareUnlessTorn, Hyperv!StartedNow, Hyperv!Hardware
  <2> QED BY <1>0, <1>1, <2>1, <2>2, <2>3 DEF Hyperv!setDiskSize, HypervTypes, Hyperv!TypeOK
<1>2. ASSUME Hyperv!SaveSize PROVE (HypervTypes /\ HypervRest)'
  <2>1. /\ command.op = "start" /\ command.pc = "saveSize"
        /\ HypervNow(command.op, "startVm", command.result, command.smooth)
        /\ stored' = driver
        /\ UNCHANGED <<machines, vm, power, ip, vhd, exists, driver, asked, torn, failures>>
    BY <1>02, <1>2, HypervGoes, Zenon DEF Hyperv!SaveSize, Hyperv!At, HypervPlaces
  <2>3. HypervTypes'
    BY <1>0, <2>1, HypervConfigs, HypervAssumption
       DEF HypervTypes, Hyperv!TypeOK, HypervNow, HypervRest, HypervCreates, HypervComplete
  <2> QED BY <1>0, <2>1, <2>3
             DEF HypervTypes, HypervRest, HypervNow, HypervControl, HypervCreates, HypervComplete,
                 HypervSettings, Hyperv!StopStops, Hyperv!DeletedUnlessRough,
                 Hyperv!HardwareUnlessTorn, Hyperv!StartedNow, Hyperv!Hardware
<1>3. ASSUME Hyperv!Start PROVE (HypervTypes /\ HypervRest)'
  <2>1. CASE driver.switch
    <3>1. /\ command.op = "start" /\ command.pc = "startVm"
          /\ HypervNow(command.op, "waitIp", command.result, command.smooth)
          /\ power' = "Starting"
          /\ ip' = FALSE
          /\ UNCHANGED <<machines, vm, vhd, stored, exists, driver, asked, torn, failures>>
      BY <1>02, <1>3, <2>1, HypervGoes, Zenon DEF Hyperv!Start, Hyperv!At, HypervPlaces
    <3>8. ip' \in BOOLEAN
      BY <3>1, Zenon
    <3>3. HypervTypes'
      BY <1>0, <3>1, <3>8, HypervConfigs, HypervAssumption
         DEF HypervTypes, Hyperv!TypeOK, HypervNow, HypervRest, HypervCreates, HypervComplete
    <3> QED BY <1>0, <3>1, <3>8, <3>3
               DEF HypervTypes, HypervRest, HypervNow, HypervControl, HypervCreates,
                   HypervComplete, HypervSettings, Hyperv!StopStops, Hyperv!DeletedUnlessRough,
                   Hyperv!HardwareUnlessTorn, Hyperv!StartedNow, Hyperv!Hardware
  <2>2. CASE ~driver.switch
    <3>1. /\ command.op = "start" /\ command.pc = "startVm"
          /\ HypervNow(command.op, "inState", command.result, command.smooth)
          /\ power' = "Starting"
          /\ ip' = FALSE
          /\ UNCHANGED <<machines, vm, vhd, stored, exists, driver, asked, torn, failures>>
      BY <1>02, <1>3, <2>2, HypervGoes, Zenon DEF Hyperv!Start, Hyperv!At, HypervPlaces
    <3>8. ip' \in BOOLEAN
      BY <3>1, Zenon
    <3>3. HypervTypes'
      BY <1>0, <3>1, <3>8, HypervConfigs, HypervAssumption
         DEF HypervTypes, Hyperv!TypeOK, HypervNow, HypervRest, HypervCreates, HypervComplete
    <3> QED BY <1>0, <3>1, <3>8, <3>3
               DEF HypervTypes, HypervRest, HypervNow, HypervControl, HypervCreates,
                   HypervComplete, HypervSettings, Hyperv!StopStops, Hyperv!DeletedUnlessRough,
                   Hyperv!HardwareUnlessTorn, Hyperv!StartedNow, Hyperv!Hardware
  <2> QED BY <1>0, <1>3, <2>1, <2>2 DEF Hyperv!Start, HypervTypes, Hyperv!TypeOK
<1>4. ASSUME Hyperv!waitForIP PROVE (HypervTypes /\ HypervRest)'
  <2>1. /\ command.op = "start" /\ command.pc = "waitIp"
        /\ HypervNow(command.op, "inState", command.result, command.smooth)
        /\ UNCHANGED <<machines, vm, power, ip, vhd, stored, exists, driver, asked, torn, failures>>
    BY <1>02, <1>4, HypervGoes, Zenon DEF Hyperv!waitForIP, Hyperv!At, HypervPlaces
  <2>3. HypervTypes'
    BY <1>0, <2>1, HypervConfigs, HypervAssumption
       DEF HypervTypes, Hyperv!TypeOK, HypervNow, HypervRest, HypervCreates, HypervComplete
  <2> QED BY <1>0, <2>1, <2>3
             DEF HypervTypes, HypervRest, HypervNow, HypervControl, HypervCreates, HypervComplete,
                 HypervSettings, Hyperv!StopStops, Hyperv!DeletedUnlessRough,
                 Hyperv!HardwareUnlessTorn, Hyperv!StartedNow, Hyperv!Hardware
<1>5. ASSUME Hyperv!startHost PROVE (HypervTypes /\ HypervRest)'
  <2>1. CASE Hyperv!GetState = "Running"
    <3>1. /\ command.op = "start" /\ command.pc = "inState"
          /\ HypervNow(command.op, "idle", "ok", command.smooth)
          /\ stored' = driver
          /\ UNCHANGED <<machines, vm, power, ip, vhd, exists, driver, asked, torn, failures>>
      BY <1>02, <1>5, <2>1, HypervReturns, Zenon DEF Hyperv!startHost, Hyperv!At, HypervResults
    <3>3. HypervTypes'
      BY <1>0, <3>1, HypervConfigs, HypervAssumption
         DEF HypervTypes, Hyperv!TypeOK, HypervNow, HypervRest, HypervCreates, HypervComplete
    <3> QED BY <1>0, <3>1, <3>3
               DEF HypervTypes, HypervRest, HypervNow, HypervControl, HypervCreates,
                   HypervComplete, HypervSettings, Hyperv!StopStops, Hyperv!DeletedUnlessRough,
                   Hyperv!HardwareUnlessTorn, Hyperv!StartedNow, Hyperv!Hardware
  <2>2. CASE Hyperv!GetState # "Running"
    <3>1. /\ command.op = "start" /\ command.pc = "inState"
          /\ HypervNow(command.op, "idle", "error", FALSE)
          /\ stored' = driver
          /\ UNCHANGED <<machines, vm, power, ip, vhd, exists, driver, asked, torn, failures>>
      BY <1>02, <1>5, <2>2, HypervRoughly, Zenon DEF Hyperv!startHost, Hyperv!At, HypervResults
    <3>3. HypervTypes'
      BY <1>0, <3>1, HypervConfigs, HypervAssumption
         DEF HypervTypes, Hyperv!TypeOK, HypervNow, HypervRest, HypervCreates, HypervComplete
    <3> QED BY <1>0, <3>1, <3>3
               DEF HypervTypes, HypervRest, HypervNow, HypervControl, HypervCreates,
                   HypervComplete, HypervSettings, Hyperv!StopStops, Hyperv!DeletedUnlessRough,
                   Hyperv!HardwareUnlessTorn, Hyperv!StartedNow, Hyperv!Hardware
  <2> QED BY <1>0, <1>5, <2>1, <2>2, HypervStates DEF Hyperv!startHost, HypervTypes, Hyperv!TypeOK
<1> QED BY <1>1, <1>2, <1>3, <1>4, <1>5 DEF HypervInv

\* A stop waits until the machine is off.
LEMMA HypervStopping ==
  ASSUME HypervInv
  PROVE  \/ Hyperv!ClientStop
         \/ Hyperv!Stop
         \/ Hyperv!Kill
         \/ Hyperv!waitStopped
         \/ Hyperv!Interrupt
         => HypervInv'
<1>0. HypervTypes /\ HypervRest
  BY DEF HypervInv
<1>01. Hyperv!Fault => failures' \in 0..MaxFailures
  BY <1>0, HypervAssumption DEF Hyperv!Fault, Hyperv!TypeOK, HypervTypes
<1>02. command \in HypervCalls
  BY <1>0 DEF HypervTypes
<1> USE DEF Hyperv!hyperv, Hyperv!store, Creating, Updating, Starting, Deleting
<1>1. ASSUME Hyperv!ClientStop PROVE (HypervTypes /\ HypervRest)'
  <2>1. CASE Hyperv!Begin("stop", "stopVm")
    <3>1. /\ command.pc = "idle" /\ exists
          /\ HypervNow("stop", "stopVm", "none", TRUE)
          /\ driver' = stored
          /\ UNCHANGED <<machines, vm, power, ip, vhd, stored, exists, asked, torn, failures>>
      BY <1>02, <1>1, <2>1, HypervBegins, Zenon
         DEF Hyperv!ClientStop, Hyperv!At, HypervOps, HypervPlaces
    <3>3. HypervTypes'
      BY <1>0, <3>1, HypervConfigs, HypervAssumption
         DEF HypervTypes, Hyperv!TypeOK, HypervNow, HypervRest, HypervCreates, HypervComplete
    <3> QED BY <1>0, <3>1, <3>3
               DEF HypervTypes, HypervRest, HypervNow, HypervControl, HypervCreates,
                   HypervComplete, HypervSettings, Hyperv!StopStops, Hyperv!DeletedUnlessRough,
                   Hyperv!HardwareUnlessTorn, Hyperv!StartedNow, Hyperv!Hardware
  <2>2. CASE command' = Hyperv!Idle("stop", "stopped")
    <3>1. /\ command.pc = "idle" /\ exists
          /\ HypervNow("stop", "idle", "stopped", TRUE)
          /\ driver' = stored
          /\ UNCHANGED <<machines, vm, power, ip, vhd, stored, exists, asked, torn, failures>>
      BY <1>02, <1>1, <2>2, HypervIdles, Zenon
         DEF Hyperv!ClientStop, Hyperv!At, HypervOps, HypervResults
    <3>3. HypervTypes'
      BY <1>0, <3>1, HypervConfigs, HypervAssumption
         DEF HypervTypes, Hyperv!TypeOK, HypervNow, HypervRest, HypervCreates, HypervComplete
    <3> QED BY <1>0, <3>1, <3>3
               DEF HypervTypes, HypervRest, HypervNow, HypervControl, HypervCreates,
                   HypervComplete, HypervSettings, Hyperv!StopStops, Hyperv!DeletedUnlessRough,
                   Hyperv!HardwareUnlessTorn, Hyperv!StartedNow, Hyperv!Hardware
  <2>3. CASE command' = Hyperv!Idle("poweroff", "stopped")
    <3>1. /\ command.pc = "idle" /\ exists
          /\ HypervNow("poweroff", "idle", "stopped", TRUE)
          /\ driver' = stored
          /\ UNCHANGED <<machines, vm, power, ip, vhd, stored, exists, asked, torn, failures>>
      BY <1>02, <1>1, <2>3, HypervIdles, Zenon
         DEF Hyperv!ClientStop, Hyperv!At, HypervOps, HypervResults
    <3>3. HypervTypes'
      BY <1>0, <3>1, HypervConfigs, HypervAssumption
         DEF HypervTypes, Hyperv!TypeOK, HypervNow, HypervRest, HypervCreates, HypervComplete
    <3> QED BY <1>0, <3>1, <3>3
               DEF HypervTypes, HypervRest, HypervNow, HypervControl, HypervCreates,
                   HypervComplete, HypervSettings, Hyperv!StopStops, Hyperv!DeletedUnlessRough,
                   Hyperv!HardwareUnlessTorn, Hyperv!StartedNow, Hyperv!Hardware
  <2>4. CASE Hyperv!Begin("poweroff", "turnOff")
    <3>1. /\ command.pc = "idle" /\ exists
          /\ HypervNow("poweroff", "turnOff", "none", TRUE)
          /\ driver' = stored
          /\ UNCHANGED <<machines, vm, power, ip, vhd, stored, exists, asked, torn, failures>>
      BY <1>02, <1>1, <2>4, HypervBegins, Zenon
         DEF Hyperv!ClientStop, Hyperv!At, HypervOps, HypervPlaces
    <3>3. HypervTypes'
      BY <1>0, <3>1, HypervConfigs, HypervAssumption
         DEF HypervTypes, Hyperv!TypeOK, HypervNow, HypervRest, HypervCreates, HypervComplete
    <3> QED BY <1>0, <3>1, <3>3
               DEF HypervTypes, HypervRest, HypervNow, HypervControl, HypervCreates,
                   HypervComplete, HypervSettings, Hyperv!StopStops, Hyperv!DeletedUnlessRough,
                   Hyperv!HardwareUnlessTorn, Hyperv!StartedNow, Hyperv!Hardware
  <2> QED BY <1>0, <1>1, <2>1, <2>2, <2>3, <2>4 DEF Hyperv!ClientStop, HypervTypes, Hyperv!TypeOK
<1>2. ASSUME Hyperv!Stop PROVE (HypervTypes /\ HypervRest)'
  <2>1. CASE power = "Saved"
    <3>1. /\ command.pc = "stopVm"
          /\ HypervNow(command.op, "idle", "error", command.smooth)
          /\ UNCHANGED <<machines, vm, power, ip, vhd, stored, exists, driver, asked, torn, failures>>
      BY <1>02, <1>2, <2>1, HypervReturns, Zenon DEF Hyperv!Stop, Hyperv!At, HypervResults
    <3>3. HypervTypes'
      BY <1>0, <3>1, HypervConfigs, HypervAssumption
         DEF HypervTypes, Hyperv!TypeOK, HypervNow, HypervRest, HypervCreates, HypervComplete
    <3> QED BY <1>0, <3>1, <3>3
               DEF HypervTypes, HypervRest, HypervNow, HypervControl, HypervCreates,
                   HypervComplete, HypervSettings, Hyperv!StopStops, Hyperv!DeletedUnlessRough,
                   Hyperv!HardwareUnlessTorn, Hyperv!StartedNow, Hyperv!Hardware
  <2>2. CASE power # "Saved"
    <3>1. /\ command.pc = "stopVm"
          /\ power = "Off" => power' = "Off"
          /\ HypervNow(command.op, "waitStopped", command.result, command.smooth)
          /\ power' \in {power, "Stopping"}
          /\ UNCHANGED <<machines, vm, ip, vhd, stored, exists, driver, asked, torn, failures>>
      BY <1>02, <1>2, <2>2, HypervGoes, Zenon DEF Hyperv!Stop, Hyperv!At, HypervPlaces
    <3>3. HypervTypes'
      BY <1>0, <3>1, HypervConfigs, HypervAssumption
         DEF HypervTypes, Hyperv!TypeOK, HypervNow, HypervRest, HypervCreates, HypervComplete
    <3> QED BY <1>0, <3>1, <3>3
               DEF HypervTypes, HypervRest, HypervNow, HypervControl, HypervCreates,
                   HypervComplete, HypervSettings, Hyperv!StopStops, Hyperv!DeletedUnlessRough,
                   Hyperv!HardwareUnlessTorn, Hyperv!StartedNow, Hyperv!Hardware
  <2> QED BY <1>0, <1>2, <2>1, <2>2 DEF Hyperv!Stop, HypervTypes, Hyperv!TypeOK
<1>3. ASSUME Hyperv!Kill PROVE (HypervTypes /\ HypervRest)'
  <2>1. CASE machines = 0 \/ power = "Saved"
    <3>1. /\ command.pc = "turnOff"
          /\ HypervNow(command.op, "idle", "error", command.smooth)
          /\ UNCHANGED <<machines, vm, power, ip, vhd, stored, exists, driver, asked, torn, failures>>
      BY <1>02, <1>3, <2>1, HypervReturns, Zenon DEF Hyperv!Kill, Hyperv!At, HypervResults
    <3>3. HypervTypes'
      BY <1>0, <3>1, HypervConfigs, HypervAssumption
         DEF HypervTypes, Hyperv!TypeOK, HypervNow, HypervRest, HypervCreates, HypervComplete
    <3> QED BY <1>0, <3>1, <3>3
               DEF HypervTypes, HypervRest, HypervNow, HypervControl, HypervCreates,
                   HypervComplete, HypervSettings, Hyperv!StopStops, Hyperv!DeletedUnlessRough,
                   Hyperv!HardwareUnlessTorn, Hyperv!StartedNow, Hyperv!Hardware
  <2>2. CASE ~(machines = 0 \/ power = "Saved")
    <3>1. /\ command.pc = "turnOff"
          /\ HypervNow(command.op, "waitStopped", command.result, command.smooth)
          /\ power' = "Off"
          /\ ip' = FALSE
          /\ UNCHANGED <<machines, vm, vhd, stored, exists, driver, asked, torn, failures>>
      BY <1>02, <1>3, <2>2, HypervGoes, Zenon DEF Hyperv!Kill, Hyperv!At, HypervPlaces
    <3>8. ip' \in BOOLEAN
      BY <3>1, Zenon
    <3>3. HypervTypes'
      BY <1>0, <3>1, <3>8, HypervConfigs, HypervAssumption
         DEF HypervTypes, Hyperv!TypeOK, HypervNow, HypervRest, HypervCreates, HypervComplete
    <3> QED BY <1>0, <3>1, <3>8, <3>3
               DEF HypervTypes, HypervRest, HypervNow, HypervControl, HypervCreates,
                   HypervComplete, HypervSettings, Hyperv!StopStops, Hyperv!DeletedUnlessRough,
                   Hyperv!HardwareUnlessTorn, Hyperv!StartedNow, Hyperv!Hardware
  <2> QED BY <1>0, <1>3, <2>1, <2>2 DEF Hyperv!Kill, HypervTypes, Hyperv!TypeOK
<1>4. ASSUME Hyperv!waitStopped PROVE (HypervTypes /\ HypervRest)'
  <2>1. CASE Hyperv!GetState = "Error"
    <3>1. /\ command.pc = "waitStopped"
          /\ HypervNow(command.op, "idle", "error", FALSE)
          /\ UNCHANGED <<machines, vm, power, ip, vhd, stored, exists, driver, asked, torn, failures>>
      BY <1>02, <1>4, <2>1, HypervRoughly, Zenon DEF Hyperv!waitStopped, Hyperv!At, HypervResults
    <3>3. HypervTypes'
      BY <1>0, <3>1, HypervConfigs, HypervAssumption
         DEF HypervTypes, Hyperv!TypeOK, HypervNow, HypervRest, HypervCreates, HypervComplete
    <3> QED BY <1>0, <3>1, <3>3
               DEF HypervTypes, HypervRest, HypervNow, HypervControl, HypervCreates,
                   HypervComplete, HypervSettings, Hyperv!StopStops, Hyperv!DeletedUnlessRough,
                   Hyperv!HardwareUnlessTorn, Hyperv!StartedNow, Hyperv!Hardware
  <2>2. CASE Hyperv!GetState = "Stopped" /\ command.op = "delete"
    <3>1. /\ command.op = "delete" /\ command.pc = "waitStopped"
          /\ HypervNow(command.op, "removeVm", command.result, command.smooth)
          /\ UNCHANGED <<machines, vm, power, ip, vhd, stored, exists, driver, asked, torn, failures>>
      BY <1>02, <1>4, <2>2, HypervGoes, Zenon DEF Hyperv!waitStopped, Hyperv!At, HypervPlaces
    <3>3. HypervTypes'
      BY <1>0, <3>1, HypervConfigs, HypervAssumption
         DEF HypervTypes, Hyperv!TypeOK, HypervNow, HypervRest, HypervCreates, HypervComplete
    <3> QED BY <1>0, <3>1, <3>3
               DEF HypervTypes, HypervRest, HypervNow, HypervControl, HypervCreates,
                   HypervComplete, HypervSettings, Hyperv!StopStops, Hyperv!DeletedUnlessRough,
                   Hyperv!HardwareUnlessTorn, Hyperv!StartedNow, Hyperv!Hardware
  <2>3. CASE Hyperv!GetState = "Stopped" /\ command.op # "delete"
    <3>1. /\ command.pc = "waitStopped" /\ command.op # "delete" /\ power = "Off"
          /\ HypervNow(command.op, "idle", "ok", command.smooth)
          /\ UNCHANGED <<machines, vm, power, ip, vhd, stored, exists, driver, asked, torn, failures>>
      BY <1>02, <1>4, <2>3, HypervReturns, HypervStates, Zenon
         DEF Hyperv!waitStopped, Hyperv!At, HypervResults
    <3>3. HypervTypes'
      BY <1>0, <3>1, HypervConfigs, HypervAssumption
         DEF HypervTypes, Hyperv!TypeOK, HypervNow, HypervRest, HypervCreates, HypervComplete
    <3> QED BY <1>0, <3>1, <3>3
               DEF HypervTypes, HypervRest, HypervNow, HypervControl, HypervCreates,
                   HypervComplete, HypervSettings, Hyperv!StopStops, Hyperv!DeletedUnlessRough,
                   Hyperv!HardwareUnlessTorn, Hyperv!StartedNow, Hyperv!Hardware
  <2> QED BY <1>0, <1>4, <2>1, <2>2, <2>3, HypervStates
             DEF Hyperv!waitStopped, HypervTypes, Hyperv!TypeOK
<1>5. ASSUME Hyperv!Interrupt PROVE (HypervTypes /\ HypervRest)'
  <2>1. /\ command.pc \in {"waitIp", "waitStopped"}
        /\ HypervNow(command.op, "idle", "none", FALSE)
        /\ UNCHANGED <<machines, vm, power, ip, vhd, stored, exists, driver, asked, torn, failures>>
    BY <1>02, <1>5, HypervRoughly, Zenon DEF Hyperv!Interrupt, Hyperv!At, HypervResults
  <2>3. HypervTypes'
    BY <1>0, <2>1, HypervConfigs, HypervAssumption
       DEF HypervTypes, Hyperv!TypeOK, HypervNow, HypervRest, HypervCreates, HypervComplete
  <2> QED BY <1>0, <2>1, <2>3
             DEF HypervTypes, HypervRest, HypervNow, HypervControl, HypervCreates, HypervComplete,
                 HypervSettings, Hyperv!StopStops, Hyperv!DeletedUnlessRough,
                 Hyperv!HardwareUnlessTorn, Hyperv!StartedNow, Hyperv!Hardware
<1> QED BY <1>1, <1>2, <1>3, <1>4, <1>5 DEF HypervInv

\* A delete in which nothing fails removes the machine before the store.
LEMMA HypervDeleting ==
  ASSUME HypervInv
  PROVE  \/ Hyperv!Remove
         \/ Hyperv!GetVM
         \/ Hyperv!GetVMFails
         \/ Hyperv!RemoveVM
         \/ Hyperv!RemoveStore
         \/ Hyperv!removeCrcVM
         => HypervInv'
<1>0. HypervTypes /\ HypervRest
  BY DEF HypervInv
<1>01. Hyperv!Fault => failures' \in 0..MaxFailures
  BY <1>0, HypervAssumption DEF Hyperv!Fault, Hyperv!TypeOK, HypervTypes
<1>02. command \in HypervCalls
  BY <1>0 DEF HypervTypes
<1> USE DEF Hyperv!hyperv, Hyperv!store, Creating, Updating, Starting, Deleting
<1>1. ASSUME Hyperv!Remove PROVE (HypervTypes /\ HypervRest)'
  <2>1. /\ command.pc = "idle" /\ exists
        /\ HypervNow("delete", "getVm", "none", TRUE)
        /\ driver' = stored
        /\ UNCHANGED <<machines, vm, power, ip, vhd, stored, exists, asked, torn, failures>>
    BY <1>02, <1>1, HypervBegins, Zenon DEF Hyperv!Remove, Hyperv!At, HypervOps, HypervPlaces
  <2>3. HypervTypes'
    BY <1>0, <2>1, HypervConfigs, HypervAssumption
       DEF HypervTypes, Hyperv!TypeOK, HypervNow, HypervRest, HypervCreates, HypervComplete
  <2> QED BY <1>0, <2>1, <2>3
             DEF HypervTypes, HypervRest, HypervNow, HypervControl, HypervCreates, HypervComplete,
                 HypervSettings, Hyperv!StopStops, Hyperv!DeletedUnlessRough,
                 Hyperv!HardwareUnlessTorn, Hyperv!StartedNow, Hyperv!Hardware
<1>2. ASSUME Hyperv!GetVM PROVE (HypervTypes /\ HypervRest)'
  <2>1. CASE machines = 0 /\ Hyperv!Go("removeStore")
    <3>1. /\ command.op = "delete" /\ command.pc = "getVm" /\ machines = 0
          /\ HypervNow(command.op, "removeStore", command.result, command.smooth)
          /\ UNCHANGED <<machines, vm, power, ip, vhd, stored, exists, driver, asked, torn, failures>>
      BY <1>02, <1>2, <2>1, HypervGoes, Zenon DEF Hyperv!GetVM, Hyperv!At, HypervPlaces
    <3>3. HypervTypes'
      BY <1>0, <3>1, HypervConfigs, HypervAssumption
         DEF HypervTypes, Hyperv!TypeOK, HypervNow, HypervRest, HypervCreates, HypervComplete
    <3> QED BY <1>0, <3>1, <3>3
               DEF HypervTypes, HypervRest, HypervNow, HypervControl, HypervCreates,
                   HypervComplete, HypervSettings, Hyperv!StopStops, Hyperv!DeletedUnlessRough,
                   Hyperv!HardwareUnlessTorn, Hyperv!StartedNow, Hyperv!Hardware
  <2>2. CASE Hyperv!Return("error")
    <3>1. /\ command.op = "delete" /\ command.pc = "getVm"
          /\ HypervNow(command.op, "idle", "error", command.smooth)
          /\ UNCHANGED <<machines, vm, power, ip, vhd, stored, exists, driver, asked, torn, failures>>
      BY <1>02, <1>2, <2>2, HypervReturns, Zenon DEF Hyperv!GetVM, Hyperv!At, HypervResults
    <3>3. HypervTypes'
      BY <1>0, <3>1, HypervConfigs, HypervAssumption
         DEF HypervTypes, Hyperv!TypeOK, HypervNow, HypervRest, HypervCreates, HypervComplete
    <3> QED BY <1>0, <3>1, <3>3
               DEF HypervTypes, HypervRest, HypervNow, HypervControl, HypervCreates,
                   HypervComplete, HypervSettings, Hyperv!StopStops, Hyperv!DeletedUnlessRough,
                   Hyperv!HardwareUnlessTorn, Hyperv!StartedNow, Hyperv!Hardware
  <2>3. CASE Hyperv!Go("turnOff")
    <3>1. /\ command.op = "delete" /\ command.pc = "getVm"
          /\ HypervNow(command.op, "turnOff", command.result, command.smooth)
          /\ UNCHANGED <<machines, vm, power, ip, vhd, stored, exists, driver, asked, torn, failures>>
      BY <1>02, <1>2, <2>3, HypervGoes, Zenon DEF Hyperv!GetVM, Hyperv!At, HypervPlaces
    <3>3. HypervTypes'
      BY <1>0, <3>1, HypervConfigs, HypervAssumption
         DEF HypervTypes, Hyperv!TypeOK, HypervNow, HypervRest, HypervCreates, HypervComplete
    <3> QED BY <1>0, <3>1, <3>3
               DEF HypervTypes, HypervRest, HypervNow, HypervControl, HypervCreates,
                   HypervComplete, HypervSettings, Hyperv!StopStops, Hyperv!DeletedUnlessRough,
                   Hyperv!HardwareUnlessTorn, Hyperv!StartedNow, Hyperv!Hardware
  <2>4. CASE Hyperv!Go("removeVm")
    <3>1. /\ command.op = "delete" /\ command.pc = "getVm"
          /\ HypervNow(command.op, "removeVm", command.result, command.smooth)
          /\ UNCHANGED <<machines, vm, power, ip, vhd, stored, exists, driver, asked, torn, failures>>
      BY <1>02, <1>2, <2>4, HypervGoes, Zenon DEF Hyperv!GetVM, Hyperv!At, HypervPlaces
    <3>3. HypervTypes'
      BY <1>0, <3>1, HypervConfigs, HypervAssumption
         DEF HypervTypes, Hyperv!TypeOK, HypervNow, HypervRest, HypervCreates, HypervComplete
    <3> QED BY <1>0, <3>1, <3>3
               DEF HypervTypes, HypervRest, HypervNow, HypervControl, HypervCreates,
                   HypervComplete, HypervSettings, Hyperv!StopStops, Hyperv!DeletedUnlessRough,
                   Hyperv!HardwareUnlessTorn, Hyperv!StartedNow, Hyperv!Hardware
  <2> QED BY <1>0, <1>2, <2>1, <2>2, <2>3, <2>4 DEF Hyperv!GetVM, HypervTypes, Hyperv!TypeOK
<1>3. ASSUME Hyperv!GetVMFails PROVE (HypervTypes /\ HypervRest)'
  <2>1. /\ command.op = "delete" /\ command.pc = "getVm"
        /\ HypervNow(command.op, "removeStore", command.result, FALSE)
        /\ failures' \in 0..MaxFailures
        /\ UNCHANGED <<machines, vm, power, ip, vhd, stored, exists, driver, asked, torn>>
    BY <1>02, <1>3, <1>01, Zenon, ZenonT(30) DEF Hyperv!GetVMFails, Hyperv!At, HypervNow, HypervCalls, HypervPlaces
  <2>3. HypervTypes'
    BY <1>0, <2>1, HypervConfigs, HypervAssumption
       DEF HypervTypes, Hyperv!TypeOK, HypervNow, HypervRest, HypervCreates, HypervComplete
  <2> QED BY <1>0, <2>1, <2>3
             DEF HypervTypes, HypervRest, HypervNow, HypervControl, HypervCreates, HypervComplete,
                 HypervSettings, Hyperv!StopStops, Hyperv!DeletedUnlessRough,
                 Hyperv!HardwareUnlessTorn, Hyperv!StartedNow, Hyperv!Hardware
<1>4. ASSUME Hyperv!RemoveVM PROVE (HypervTypes /\ HypervRest)'
  <2>1. /\ command.op = "delete" /\ command.pc = "removeVm"
        /\ HypervNow(command.op, "removeStore", command.result, command.smooth)
        /\ machines' = 0
        /\ vm' = Hyperv!NoVM
        /\ power' = "Off"
        /\ ip' = FALSE
        /\ UNCHANGED <<vhd, stored, exists, driver, asked, torn, failures>>
    BY <1>02, <1>4, HypervGoes, Zenon DEF Hyperv!RemoveVM, Hyperv!At, HypervPlaces
  <2>8. ip' \in BOOLEAN
    BY <2>1, Zenon
  <2>2. vm' \in VMs /\ vm'.memory \in Memories \cup {0} /\ vm'.cpus \in CPUs \cup {0, 1}
    BY <1>0, <2>1, <2>8 DEF Hyperv!NoVM, VMs
  <2>3. HypervTypes'
    BY <1>0, <2>1, <2>8, <2>2, HypervConfigs, HypervAssumption
       DEF HypervTypes, Hyperv!TypeOK, HypervNow, HypervRest, HypervCreates, HypervComplete
  <2> QED BY <1>0, <2>1, <2>8, <2>2, <2>3
             DEF HypervTypes, HypervRest, HypervNow, HypervControl, HypervCreates, HypervComplete,
                 HypervSettings, Hyperv!StopStops, Hyperv!DeletedUnlessRough,
                 Hyperv!HardwareUnlessTorn, Hyperv!StartedNow, Hyperv!Hardware
<1>5. ASSUME Hyperv!RemoveStore PROVE (HypervTypes /\ HypervRest)'
  <2>1. CASE power = "Off"
    <3>1. /\ command.op = "delete" /\ command.pc = "removeStore"
          /\ HypervNow(command.op, "idle", "ok", command.smooth)
          /\ stored' = Hyperv!NoConfig
          /\ exists' = FALSE
          /\ torn' = FALSE
          /\ vhd' = 0
          /\ UNCHANGED <<machines, vm, power, ip, driver, asked, failures>>
      BY <1>02, <1>5, <2>1, HypervReturns, Zenon DEF Hyperv!RemoveStore, Hyperv!At, HypervResults
    <3>2. exists' \in BOOLEAN /\ torn' \in BOOLEAN
      BY <3>1, Zenon
    <3>3. HypervTypes'
      BY <1>0, <3>1, <3>2, HypervConfigs, HypervAssumption
         DEF HypervTypes, Hyperv!TypeOK, HypervNow, HypervRest, HypervCreates, HypervComplete
    <3> QED BY <1>0, <3>1, <3>3
               DEF HypervTypes, HypervRest, HypervNow, HypervControl, HypervCreates,
                   HypervComplete, HypervSettings, Hyperv!StopStops, Hyperv!DeletedUnlessRough,
                   Hyperv!HardwareUnlessTorn, Hyperv!StartedNow, Hyperv!Hardware
  <2>2. CASE power # "Off"
    <3>1. /\ command.op = "delete" /\ command.pc = "removeStore"
          /\ HypervNow(command.op, "idle", "error", command.smooth)
          /\ stored' = Hyperv!NoConfig
          /\ exists' = FALSE
          /\ torn' = FALSE
          /\ UNCHANGED <<machines, vm, power, ip, vhd, driver, asked, failures>>
      BY <1>02, <1>5, <2>2, HypervReturns, Zenon DEF Hyperv!RemoveStore, Hyperv!At, HypervResults
    <3>2. exists' \in BOOLEAN /\ torn' \in BOOLEAN
      BY <3>1, Zenon
    <3>3. HypervTypes'
      BY <1>0, <3>1, <3>2, HypervConfigs, HypervAssumption
         DEF HypervTypes, Hyperv!TypeOK, HypervNow, HypervRest, HypervCreates, HypervComplete
    <3> QED BY <1>0, <3>1, <3>3
               DEF HypervTypes, HypervRest, HypervNow, HypervControl, HypervCreates,
                   HypervComplete, HypervSettings, Hyperv!StopStops, Hyperv!DeletedUnlessRough,
                   Hyperv!HardwareUnlessTorn, Hyperv!StartedNow, Hyperv!Hardware
  <2> QED BY <1>0, <1>5, <2>1, <2>2 DEF Hyperv!RemoveStore, HypervTypes, Hyperv!TypeOK
<1>6. ASSUME Hyperv!removeCrcVM PROVE (HypervTypes /\ HypervRest)'
  <2>1. /\ command.pc = "idle"
        /\ HypervNow("cleanup", "idle", "ok", TRUE)
        /\ machines' = 0
        /\ vm' = Hyperv!NoVM
        /\ power' = "Off"
        /\ ip' = FALSE
        /\ stored' = Hyperv!NoConfig
        /\ exists' = FALSE
        /\ torn' = FALSE
        /\ vhd' = 0
        /\ UNCHANGED <<driver, asked, failures>>
    BY <1>02, <1>6, HypervIdles, Zenon DEF Hyperv!removeCrcVM, Hyperv!At, HypervOps, HypervResults
  <2>8. ip' \in BOOLEAN
    BY <2>1, Zenon
  <2>7. exists' \in BOOLEAN /\ torn' \in BOOLEAN
    BY <1>0, <2>1, Zenon
  <2>2. vm' \in VMs /\ vm'.memory \in Memories \cup {0} /\ vm'.cpus \in CPUs \cup {0, 1}
    BY <1>0, <2>1, <2>8, <2>7 DEF Hyperv!NoVM, VMs
  <2>3. HypervTypes'
    BY <1>0, <2>1, <2>8, <2>7, <2>2, HypervConfigs, HypervAssumption
       DEF HypervTypes, Hyperv!TypeOK, HypervNow, HypervRest, HypervCreates, HypervComplete
  <2> QED BY <1>0, <2>1, <2>8, <2>7, <2>2, <2>3
             DEF HypervTypes, HypervRest, HypervNow, HypervControl, HypervCreates, HypervComplete,
                 HypervSettings, Hyperv!StopStops, Hyperv!DeletedUnlessRough,
                 Hyperv!HardwareUnlessTorn, Hyperv!StartedNow, Hyperv!Hardware
<1> QED BY <1>1, <1>2, <1>3, <1>4, <1>5, <1>6 DEF HypervInv

\* A command that fails between Hyper-V and the store is what torn remembers, and the guest
\* and the user change only what is on.
LEMMA HypervRough ==
  ASSUME HypervInv
  PROVE  \/ Hyperv!CommandFails
         \/ Hyperv!Boots
         \/ Hyperv!GetsAddress
         \/ Hyperv!Halts
         \/ Hyperv!HaltsByItself
         \/ Hyperv!UserSaves
         \/ Hyperv!UserResumes
         => HypervInv'
<1>0. HypervTypes /\ HypervRest
  BY DEF HypervInv
<1>01. Hyperv!Fault => failures' \in 0..MaxFailures
  BY <1>0, HypervAssumption DEF Hyperv!Fault, Hyperv!TypeOK, HypervTypes
<1>02. command \in HypervCalls
  BY <1>0 DEF HypervTypes
<1> USE DEF Hyperv!hyperv, Hyperv!store, Creating, Updating, Starting, Deleting
<1>1. ASSUME Hyperv!CommandFails PROVE (HypervTypes /\ HypervRest)'
  <2>1. /\ command.pc # "idle"
        /\ HypervNow(command.op, "idle", "error", FALSE)
        /\ torn' = (torn \/ (command.pc \in {"setCpus", "save", "saveSize"} /\ driver # stored))
        /\ failures' \in 0..MaxFailures
        /\ UNCHANGED <<machines, vm, power, ip, vhd, stored, exists, driver, asked>>
    BY <1>02, <1>1, HypervRoughly, <1>01, Zenon DEF Hyperv!CommandFails, Hyperv!At, HypervResults
  <2>3. HypervTypes'
    BY <1>0, <2>1, HypervConfigs, HypervAssumption
       DEF HypervTypes, Hyperv!TypeOK, HypervNow, HypervRest, HypervCreates, HypervComplete
  <2> QED BY <1>0, <2>1, <2>3, Zenon, ZenonT(30)
             DEF HypervTypes, HypervRest, HypervNow, HypervControl, HypervCreates, HypervComplete,
                 HypervSettings, Hyperv!StopStops, Hyperv!DeletedUnlessRough,
                 Hyperv!HardwareUnlessTorn, Hyperv!StartedNow, Hyperv!Hardware
<1>2. ASSUME Hyperv!Boots PROVE (HypervTypes /\ HypervRest)'
  <2>1. /\ power = "Starting"
        /\ power' = "Running"
        /\ UNCHANGED <<machines, vm, ip, vhd, stored, exists, driver, asked, torn, failures, command>>
    BY <1>02, <1>2 DEF Hyperv!Boots, Hyperv!At
  <2>3. HypervTypes'
    BY <1>0, <2>1, HypervConfigs, HypervAssumption
       DEF HypervTypes, Hyperv!TypeOK, HypervNow, HypervRest, HypervCreates, HypervComplete
  <2>4. /\ HypervControl' /\ HypervComplete' /\ (~torn => HypervSettings)'
        /\ Hyperv!DeletedUnlessRough'
    BY <1>0, <2>1
       DEF HypervRest, HypervControl, HypervComplete, HypervSettings, Hyperv!DeletedUnlessRough
  <2>5. HypervCreates'
    BY <1>0, <2>1 DEF HypervRest, HypervCreates
  <2>6. Hyperv!StopStops' /\ Hyperv!HardwareUnlessTorn'
    BY <1>0, <2>1
       DEF HypervRest, HypervTypes, Hyperv!StopStops, Hyperv!HardwareUnlessTorn, Hyperv!StartedNow,
           Hyperv!Hardware
  <2> QED BY <2>3, <2>4, <2>5, <2>6 DEF HypervRest
<1>3. ASSUME Hyperv!GetsAddress PROVE (HypervTypes /\ HypervRest)'
  <2>1. /\ power = "Running"
        /\ ip' = TRUE
        /\ UNCHANGED <<machines, vm, power, vhd, stored, exists, driver, asked, torn, failures, command>>
    BY <1>02, <1>3 DEF Hyperv!GetsAddress, Hyperv!At
  <2>8. ip' \in BOOLEAN
    BY <2>1, Zenon
  <2>3. HypervTypes'
    BY <1>0, <2>1, <2>8, HypervConfigs, HypervAssumption
       DEF HypervTypes, Hyperv!TypeOK, HypervNow, HypervRest, HypervCreates, HypervComplete
  <2>4. /\ HypervControl' /\ HypervComplete' /\ (~torn => HypervSettings)'
        /\ Hyperv!DeletedUnlessRough'
    BY <1>0, <2>1, <2>8
       DEF HypervRest, HypervControl, HypervComplete, HypervSettings, Hyperv!DeletedUnlessRough
  <2>5. HypervCreates'
    BY <1>0, <2>1, <2>8 DEF HypervRest, HypervCreates
  <2>6. Hyperv!StopStops' /\ Hyperv!HardwareUnlessTorn'
    BY <1>0, <2>1, <2>8
       DEF HypervRest, HypervTypes, Hyperv!StopStops, Hyperv!HardwareUnlessTorn, Hyperv!StartedNow,
           Hyperv!Hardware
  <2> QED BY <2>3, <2>4, <2>5, <2>6 DEF HypervRest
<1>4. ASSUME Hyperv!Halts PROVE (HypervTypes /\ HypervRest)'
  <2>1. /\ power = "Stopping"
        /\ power' = "Off"
        /\ ip' = FALSE
        /\ UNCHANGED <<machines, vm, vhd, stored, exists, driver, asked, torn, failures, command>>
    BY <1>02, <1>4 DEF Hyperv!Halts, Hyperv!At
  <2>8. ip' \in BOOLEAN
    BY <2>1, Zenon
  <2>3. HypervTypes'
    BY <1>0, <2>1, <2>8, HypervConfigs, HypervAssumption
       DEF HypervTypes, Hyperv!TypeOK, HypervNow, HypervRest, HypervCreates, HypervComplete
  <2>4. /\ HypervControl' /\ HypervComplete' /\ (~torn => HypervSettings)'
        /\ Hyperv!DeletedUnlessRough'
    BY <1>0, <2>1, <2>8
       DEF HypervRest, HypervControl, HypervComplete, HypervSettings, Hyperv!DeletedUnlessRough
  <2>5. HypervCreates'
    BY <1>0, <2>1, <2>8 DEF HypervRest, HypervCreates
  <2>6. Hyperv!StopStops' /\ Hyperv!HardwareUnlessTorn'
    BY <1>0, <2>1, <2>8
       DEF HypervRest, HypervTypes, Hyperv!StopStops, Hyperv!HardwareUnlessTorn, Hyperv!StartedNow,
           Hyperv!Hardware
  <2> QED BY <2>3, <2>4, <2>5, <2>6 DEF HypervRest
<1>5. ASSUME Hyperv!HaltsByItself PROVE (HypervTypes /\ HypervRest)'
  <2>1. /\ power \in {"Starting", "Running"}
        /\ power' = "Off"
        /\ ip' = FALSE
        /\ UNCHANGED <<machines, vm, vhd, stored, exists, driver, asked, torn, failures, command>>
    BY <1>02, <1>5 DEF Hyperv!HaltsByItself, Hyperv!At
  <2>8. ip' \in BOOLEAN
    BY <2>1, Zenon
  <2>3. HypervTypes'
    BY <1>0, <2>1, <2>8, HypervConfigs, HypervAssumption
       DEF HypervTypes, Hyperv!TypeOK, HypervNow, HypervRest, HypervCreates, HypervComplete
  <2>4. /\ HypervControl' /\ HypervComplete' /\ (~torn => HypervSettings)'
        /\ Hyperv!DeletedUnlessRough'
    BY <1>0, <2>1, <2>8
       DEF HypervRest, HypervControl, HypervComplete, HypervSettings, Hyperv!DeletedUnlessRough
  <2>5. HypervCreates'
    BY <1>0, <2>1, <2>8 DEF HypervRest, HypervCreates
  <2>6. Hyperv!StopStops' /\ Hyperv!HardwareUnlessTorn'
    BY <1>0, <2>1, <2>8
       DEF HypervRest, HypervTypes, Hyperv!StopStops, Hyperv!HardwareUnlessTorn, Hyperv!StartedNow,
           Hyperv!Hardware
  <2> QED BY <2>3, <2>4, <2>5, <2>6 DEF HypervRest
<1>6. ASSUME Hyperv!UserSaves PROVE (HypervTypes /\ HypervRest)'
  <2>1. /\ power = "Running"
        /\ power' = "Saved"
        /\ ip' = FALSE
        /\ UNCHANGED <<machines, vm, vhd, stored, exists, driver, asked, torn, failures, command>>
    BY <1>02, <1>6 DEF Hyperv!UserSaves, Hyperv!At
  <2>8. ip' \in BOOLEAN
    BY <2>1, Zenon
  <2>3. HypervTypes'
    BY <1>0, <2>1, <2>8, HypervConfigs, HypervAssumption
       DEF HypervTypes, Hyperv!TypeOK, HypervNow, HypervRest, HypervCreates, HypervComplete
  <2>4. /\ HypervControl' /\ HypervComplete' /\ (~torn => HypervSettings)'
        /\ Hyperv!DeletedUnlessRough'
    BY <1>0, <2>1, <2>8
       DEF HypervRest, HypervControl, HypervComplete, HypervSettings, Hyperv!DeletedUnlessRough
  <2>5. HypervCreates'
    BY <1>0, <2>1, <2>8 DEF HypervRest, HypervCreates
  <2>6. Hyperv!StopStops' /\ Hyperv!HardwareUnlessTorn'
    BY <1>0, <2>1, <2>8
       DEF HypervRest, HypervTypes, Hyperv!StopStops, Hyperv!HardwareUnlessTorn, Hyperv!StartedNow,
           Hyperv!Hardware
  <2> QED BY <2>3, <2>4, <2>5, <2>6 DEF HypervRest
<1>7. ASSUME Hyperv!UserResumes PROVE (HypervTypes /\ HypervRest)'
  <2>1. /\ power = "Saved"
        /\ power' = "Running"
        /\ UNCHANGED <<machines, vm, ip, vhd, stored, exists, driver, asked, torn, failures, command>>
    BY <1>02, <1>7 DEF Hyperv!UserResumes, Hyperv!At
  <2>3. HypervTypes'
    BY <1>0, <2>1, HypervConfigs, HypervAssumption
       DEF HypervTypes, Hyperv!TypeOK, HypervNow, HypervRest, HypervCreates, HypervComplete
  <2>4. /\ HypervControl' /\ HypervComplete' /\ (~torn => HypervSettings)'
        /\ Hyperv!DeletedUnlessRough'
    BY <1>0, <2>1
       DEF HypervRest, HypervControl, HypervComplete, HypervSettings, Hyperv!DeletedUnlessRough
  <2>5. HypervCreates'
    BY <1>0, <2>1 DEF HypervRest, HypervCreates
  <2>6. Hyperv!StopStops' /\ Hyperv!HardwareUnlessTorn'
    BY <1>0, <2>1
       DEF HypervRest, HypervTypes, Hyperv!StopStops, Hyperv!HardwareUnlessTorn, Hyperv!StartedNow,
           Hyperv!Hardware
  <2> QED BY <2>3, <2>4, <2>5, <2>6 DEF HypervRest
<1> QED BY <1>1, <1>2, <1>3, <1>4, <1>5, <1>6, <1>7 DEF HypervInv

(***************************************************************************)
(* Whatever fails or is interrupted, and whatever the guest and the user   *)
(* do, what Hyper-V has and what the store says stay related in this way.  *)
(***************************************************************************)
THEOREM HypervInvariant == Hyperv!Spec => []HypervInv
<1>1. Hyperv!Init => HypervInv
  <2> SUFFICES ASSUME Hyperv!Init PROVE HypervInv
    OBVIOUS
  <2> USE HypervAssumption DEF Hyperv!Init, Hyperv!Idle
  <2>1. ip \in BOOLEAN /\ exists \in BOOLEAN /\ torn \in BOOLEAN
    BY Zenon
  <2>2. /\ vm \in VMs /\ vm.memory = 0 /\ vm.cpus = 0
        /\ command \in HypervCalls /\ command.pc = "idle" /\ command.op = "none"
    BY DEF Hyperv!NoVM, VMs, HypervCalls, HypervOps, HypervPlaces, HypervResults
  <2>3. HypervTypes
    BY <2>1, <2>2 DEF HypervTypes, Hyperv!TypeOK
  <2> QED BY <2>2, <2>3
        DEF HypervInv, HypervRest, HypervControl, HypervCreates, HypervComplete, HypervSettings, Hyperv!StopStops,
            Hyperv!DeletedUnlessRough, Hyperv!HardwareUnlessTorn, Hyperv!StartedNow,
            Creating, Updating, Starting, Deleting
<1>2. ASSUME HypervInv, [Hyperv!Next]_(Hyperv!vars) PROVE HypervInv'
  <2>1. CASE Hyperv!Next
    BY <1>2, <2>1, HypervMakes, HypervEquips, HypervUpdating, HypervStarting, HypervStopping,
       HypervDeleting, HypervRough DEF Hyperv!Next, Hyperv!Steps
  <2>2. CASE UNCHANGED Hyperv!vars
    <3>1. UNCHANGED <<machines, vm, power, ip, vhd, stored, exists, driver, asked, torn, failures, command>>
      BY <2>2 DEF Hyperv!vars, Hyperv!hyperv, Hyperv!store
    <3>2. HypervTypes'
      BY <1>2, <3>1 DEF HypervInv, HypervTypes, Hyperv!TypeOK
    <3>3. HypervControl' /\ HypervCreates'
      BY <1>2, <3>1, SMT, SMTT(60) DEF HypervInv, HypervRest, HypervControl, HypervCreates
    <3>4. HypervComplete' /\ (~torn => HypervSettings)'
      BY <1>2, <3>1 DEF HypervInv, HypervRest, HypervComplete, HypervSettings
    <3>5. Hyperv!StopStops' /\ Hyperv!DeletedUnlessRough' /\ Hyperv!HardwareUnlessTorn'
      BY <1>2, <3>1
         DEF HypervInv, HypervRest, Hyperv!StopStops, Hyperv!DeletedUnlessRough, Hyperv!HardwareUnlessTorn,
             Hyperv!StartedNow, Hyperv!Hardware
    <3> QED BY <3>2, <3>3, <3>4, <3>5 DEF HypervInv, HypervRest
  <2> QED BY <1>2, <2>1, <2>2
<1> QED BY <1>1, <1>2, PTL DEF Hyperv!Spec

-----------------------------------------------------------------------------
\* A behaviour of the drivers is one of each of them.
LEMMA DriversParts == DriversSpec => Spec /\ Vfkit!Spec /\ Hyperv!Spec
<1>1. DriversInit => Init /\ Vfkit!Init /\ Hyperv!Init
  BY DEF DriversInit
<1>2. [DriversNext]_all => [Next]_vars /\ [Vfkit!Next]_(Vfkit!vars) /\ [Hyperv!Next]_(Hyperv!vars)
  BY DEF DriversNext, all, Retries, OnMac, OnWindows, Over, vars, vfkit, hyperv, Vfkit!vars, Vfkit!files,
         Hyperv!vars, Hyperv!hyperv, Hyperv!store
<1> QED BY <1>1, <1>2, PTL DEF DriversSpec, Spec, Vfkit!Spec, Hyperv!Spec

(***************************************************************************)
(* What a driver reports is so, for every set of process numbers, sizes    *)
(* and settings, any number of failures and any number of machines: the    *)
(* state and the number of vfkit processes, the size of the disk, a stop   *)
(* and a delete that have returned nil, and a machine that is on.          *)
(***************************************************************************)
THEOREM DriversReportTruthfully == ASSUME OneProc PROVE DriversSpec => []DriversTruthful
<1>1. IInv /\ VfkitInv /\ HypervInv => DriversTruthful
  <2> SUFFICES ASSUME IInv, VfkitInv, HypervInv PROVE DriversTruthful
    OBVIOUS
  <2>1. Hyperv!OnMeansComplete
    BY DEF HypervInv, HypervRest, HypervTypes, HypervComplete, Hyperv!OnMeansComplete
  <2> QED BY <2>1, VfkitAnswers
             DEF IInv, HypervInv, HypervRest, HypervTypes, DriversTruthful, TypesOK
<1>2. IInv /\ [Next]_vars => IInv'
  BY NextIInv
<1>3. Spec => []IInv
  BY <1>2, InitIInv, PTL DEF Spec
<1> QED BY <1>1, <1>3, DriversParts, VfkitInvariant, HypervInvariant, PTL

(***************************************************************************)
(* A start of vfkit that nothing disturbs succeeds after any operation     *)
(* that failed or was cut short.                                           *)
(***************************************************************************)
THEOREM DriversStartRecovers == ASSUME OneProc PROVE DriversSpec => []SmoothStartRecovers
<1>1. VfkitInv => SmoothStartRecovers
  BY DEF VfkitInv, SmoothStartRecovers
<1> QED BY <1>1, DriversParts, VfkitInvariant, PTL

(***************************************************************************)
(* A start on Windows gives the machine the memory and the processors it   *)
(* was asked for, unless an earlier update has failed between Hyper-V and  *)
(* the store.                                                              *)
(***************************************************************************)
THEOREM DriversHardware == DriversSpec => []HardwareUnlessTorn
<1>1. HypervInv => HardwareUnlessTorn
  BY DEF HypervInv, HypervRest, HardwareUnlessTorn
<1> QED BY <1>1, DriversParts, HypervInvariant, PTL

=============================================================================

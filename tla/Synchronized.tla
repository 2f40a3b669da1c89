---------------------------- MODULE Synchronized ----------------------------
(***************************************************************************)
(* The operation gate of pkg/crc/machine/sync.go.  The daemon serves every *)
(* API request on a goroutine of its own, and all of them share one        *)
(* Synchronized machine, which lets a single Start, Stop or Delete of the  *)
(* underlying client run at a time, lets a Stop or a Delete cancel a Start *)
(* in progress, and answers Status from its own state while one runs.      *)
(*                                                                         *)
(* A member of Calls is one call, hence one goroutine and one context.     *)
(* currentState and startCancel are only touched with stateLock held, so   *)
(* a critical section is one step up to the point where it blocks:         *)
(* cancelUnlocked waits with the lock held.  The channel is used without   *)
(* the lock, so its sends are steps of their own.                          *)
(***************************************************************************)
EXTENDS Naturals, Sequences

CONSTANTS
  Calls,     \* the calls made on the machine, one goroutine each
  Nil        \* the nil CancelFunc

ASSUME NilAssumption == Nil \notin Calls

VARIABLES
  op,                \* the method each call invokes
  pc,                \* how far each call is
  stateLock,         \* the call that holds the mutex, or Nil
  currentState,      \* Synchronized.currentState
  startCancel,       \* the Start whose context Synchronized.startCancel cancels
  syncOperationDone, \* the buffered channel
  cancelled          \* the Start calls whose context has been cancelled

vars == <<op, pc, stateLock, currentState, startCancel, syncOperationDone,
          cancelled>>

State == {"Idle", "Deleting", "Stopping", "Starting"}

ChannelCapacity == 1

\* The methods that go through the gate, with the state each one sets.
OperationState == [Start |-> "Starting", Stop |-> "Stopping", Delete |-> "Deleting"]

Operations == DOMAIN OperationState

\* The methods handed straight to the underlying client; Query stands for the
\* ones that only read (IsRunning, Exists, GetConsoleURL, ConnectionDetails...).
Unsynchronized == {"PowerOff", "GenerateBundle", "Query"}

Methods == Operations \cup Unsynchronized \cup {"Status"}

Steps == {"called", "cancelling", "running", "sending", "querying", "done", "refused"}

InProgress(c) == op[c] \in Operations /\ pc[c] \in {"running", "sending"}

-----------------------------------------------------------------------------

\* NewSynchronizedMachine; the calls have been made and none has run yet.
Init ==
  /\ op \in [Calls -> Methods]
  /\ pc = [c \in Calls |-> "called"]
  /\ stateLock = Nil
  /\ currentState = "Idle"
  /\ startCancel = Nil
  /\ syncOperationDone = <<>>
  /\ cancelled = {}

Goto(c, step) == pc' = [pc EXCEPT ![c] = step]

(***************************************************************************)
(* currentStateUnlocked polls the channel without blocking; what it leaves *)
(* in the three fields depends only on what is buffered there.             *)
(***************************************************************************)
Polled ==
  IF syncOperationDone = <<>>
  THEN [state |-> currentState, cancel |-> startCancel]
  ELSE [state  |-> IF currentState = Head(syncOperationDone) THEN "Idle" ELSE currentState,
        cancel |-> IF Head(syncOperationDone) = "Starting" THEN Nil ELSE startCancel]

DrainChannel ==
  syncOperationDone' = IF syncOperationDone = <<>> THEN <<>> ELSE Tail(syncOperationDone)

\* The critical section only polled: the fields keep what the poll left.
KeepPolled ==
  /\ DrainChannel
  /\ currentState' = Polled.state
  /\ startCancel' = Polled.cancel

\* Mutation: the state is compared with the operations that forbid a Stop.
PrepareStartWhileStarting(c) ==
  /\ op[c] = "Start" /\ pc[c] = "called"
  /\ stateLock = Nil
  /\ \/ /\ Polled.state \in {"Deleting", "Stopping"}
        /\ KeepPolled
        /\ Goto(c, "refused")
     \/ /\ Polled.state \in {"Idle", "Starting"}
        /\ DrainChannel
        /\ startCancel' = c
        /\ currentState' = "Starting"
        /\ Goto(c, "running")
  /\ UNCHANGED <<op, stateLock, cancelled>>

\* prepareStart: refused unless the polled state is Idle.
PrepareStart(c) ==
  /\ op[c] = "Start" /\ pc[c] = "called"
  /\ stateLock = Nil
  /\ \/ /\ Polled.state # "Idle"
        /\ KeepPolled
        /\ Goto(c, "refused")
     \/ /\ Polled.state = "Idle"
        /\ DrainChannel
        /\ startCancel' = c
        /\ currentState' = "Starting"
        /\ Goto(c, "running")
  /\ UNCHANGED <<op, stateLock, cancelled>>

\* Mutation: the fields are read without polling the channel first.
PrepareStopDeleteUnpolled(c) ==
  /\ op[c] \in {"Stop", "Delete"} /\ pc[c] = "called"
  /\ stateLock = Nil
  /\ \/ /\ currentState = "Starting"
        /\ cancelled' = cancelled \cup {startCancel}
        /\ stateLock' = c
        /\ Goto(c, "cancelling")
        /\ UNCHANGED currentState
     \/ /\ currentState = "Idle"
        /\ currentState' = OperationState[op[c]]
        /\ Goto(c, "running")
        /\ UNCHANGED <<stateLock, cancelled>>
     \/ /\ currentState \in {"Deleting", "Stopping"}
        /\ Goto(c, "refused")
        /\ UNCHANGED <<stateLock, currentState, cancelled>>
  /\ UNCHANGED <<op, startCancel, syncOperationDone>>

(***************************************************************************)
(* prepareStopDelete up to its return or to the select of cancelUnlocked,  *)
(* which it reaches with the running start's context cancelled.            *)
(***************************************************************************)
PrepareStopDelete(c) ==
  /\ op[c] \in {"Stop", "Delete"} /\ pc[c] = "called"
  /\ stateLock = Nil
  /\ \/ /\ Polled.state = "Starting"
        /\ KeepPolled
        /\ cancelled' = IF Polled.cancel # Nil THEN cancelled \cup {Polled.cancel}
                                               ELSE cancelled
        /\ stateLock' = c
        /\ Goto(c, "cancelling")
     \/ /\ Polled.state = "Idle"
        /\ DrainChannel
        /\ startCancel' = Polled.cancel
        /\ currentState' = OperationState[op[c]]
        /\ Goto(c, "running")
        /\ UNCHANGED <<stateLock, cancelled>>
     \/ /\ Polled.state \in {"Deleting", "Stopping"}
        /\ KeepPolled
        /\ Goto(c, "refused")
        /\ UNCHANGED <<stateLock, cancelled>>
  /\ UNCHANGED op

\* cancelUnlocked receives whatever the channel holds and the operation goes on.
CancelReceive(c) ==
  /\ pc[c] = "cancelling"
  /\ syncOperationDone # <<>>
  /\ syncOperationDone' = Tail(syncOperationDone)
  /\ currentState' = OperationState[op[c]]
  /\ stateLock' = Nil
  /\ Goto(c, "running")
  /\ UNCHANGED <<op, startCancel, cancelled>>

\* Mutation: the error of cancelUnlocked is only logged.
CancelTimeoutGoesOn(c) ==
  /\ pc[c] = "cancelling"
  /\ currentState' = OperationState[op[c]]
  /\ stateLock' = Nil
  /\ Goto(c, "running")
  /\ UNCHANGED <<op, startCancel, syncOperationDone, cancelled>>

\* startCancelTimeout expires first (select may choose it even when both are ready).
CancelTimeout(c) ==
  /\ pc[c] = "cancelling"
  /\ stateLock' = Nil
  /\ Goto(c, "refused")
  /\ UNCHANGED <<op, currentState, startCancel, syncOperationDone, cancelled>>

\* Mutation: a cancelled operation is retried for ever.
UnderlyingRetriesCancelled(c) ==
  /\ op[c] \in Operations /\ pc[c] = "running"
  /\ Goto(c, IF c \in cancelled THEN "running" ELSE "sending")
  /\ UNCHANGED <<op, stateLock, currentState, startCancel, syncOperationDone, cancelled>>

\* The underlying Start, Stop or Delete returns, with an error or without.
UnderlyingReturn(c) ==
  /\ op[c] \in Operations /\ pc[c] = "running"
  /\ Goto(c, "sending")
  /\ UNCHANGED <<op, stateLock, currentState, startCancel, syncOperationDone, cancelled>>

\* syncOperationDone <- state, which blocks while the buffer is full.
SendDone(c) ==
  /\ pc[c] = "sending"
  /\ Len(syncOperationDone) < ChannelCapacity
  /\ syncOperationDone' = Append(syncOperationDone, OperationState[op[c]])
  /\ Goto(c, "done")
  /\ UNCHANGED <<op, stateLock, currentState, startCancel, cancelled>>

\* Status: CurrentState under the lock, then an answer or a call to underlying.Status.
StatusPoll(c) ==
  /\ op[c] = "Status" /\ pc[c] = "called"
  /\ stateLock = Nil
  /\ KeepPolled
  /\ Goto(c, IF Polled.state = "Idle" THEN "querying" ELSE "done")
  /\ UNCHANGED <<op, stateLock, cancelled>>

\* A method that is forwarded without looking at the gate.
Forward(c) ==
  /\ op[c] \in Unsynchronized /\ pc[c] = "called"
  /\ Goto(c, "querying")
  /\ UNCHANGED <<op, stateLock, currentState, startCancel, syncOperationDone, cancelled>>

\* underlying.Status or a forwarded method returns.
QueryReturn(c) ==
  /\ pc[c] = "querying"
  /\ Goto(c, "done")
  /\ UNCHANGED <<op, stateLock, currentState, startCancel, syncOperationDone, cancelled>>

\* Every goroutine has ended.
AllReturned ==
  /\ \A c \in Calls : pc[c] \in {"done", "refused"}
  /\ UNCHANGED vars

Step(c) ==
  \/ PrepareStart(c)
  \/ PrepareStopDelete(c)
  \/ CancelReceive(c)
  \/ CancelTimeout(c)
  \/ UnderlyingReturn(c)
  \/ SendDone(c)
  \/ StatusPoll(c)
  \/ Forward(c)
  \/ QueryReturn(c)

Next == (\E c \in Calls : Step(c)) \/ AllReturned

Spec == Init /\ [][Next]_vars

(***************************************************************************)
(* Goroutines are scheduled, sync.Mutex hands itself over to a waiter, the *)
(* timer of cancelUnlocked fires, and the client's operations are bounded  *)
(* by the limits of their retries.                                         *)
(***************************************************************************)
Fairness == \A c \in Calls : WF_vars(Step(c))

FairSpec == Spec /\ Fairness

-----------------------------------------------------------------------------

TypeOK ==
  /\ op \in [Calls -> Methods]
  /\ pc \in [Calls -> Steps]
  /\ stateLock \in Calls \cup {Nil}
  /\ currentState \in State
  /\ startCancel \in Calls \cup {Nil}
  /\ syncOperationDone \in {<<>>} \cup {<<st>> : st \in State}
  /\ cancelled \in SUBSET Calls

(***************************************************************************)
(* Mutual exclusion (sync.go, Start, Stop and Delete): the underlying      *)
(* client never performs two of the gated operations at once, and a new    *)
(* one does not begin before the previous one has reported its end.        *)
(***************************************************************************)
MutualExclusion ==
  \A c, d \in Calls : InProgress(c) /\ InProgress(d) => c = d

(***************************************************************************)
(* A goroutine that has finished its operation finds room in the channel   *)
(* (sync.go, `syncOperationDone <- ...`): the send after the underlying    *)
(* call never blocks, whoever is or is not polling.                        *)
(***************************************************************************)
SendNeverBlocks ==
  \A c \in Calls : pc[c] = "sending" => Len(syncOperationDone) < ChannelCapacity

(***************************************************************************)
(* What CurrentState would answer is what is going on (sync.go,            *)
(* currentStateUnlocked): the state of the operation in progress, and Idle *)
(* exactly when there is none.  The gate neither admits a call during an   *)
(* operation nor stays shut once the operations have ended.                *)
(***************************************************************************)
StateIsAccurate ==
  /\ \A c \in Calls : InProgress(c) => Polled.state = OperationState[op[c]]
  /\ (\A c \in Calls : ~InProgress(c)) => Polled.state = "Idle"

(***************************************************************************)
(* A Stop or Delete that waits in cancelUnlocked has cancelled the context *)
(* of the very Start it waits for: startCancel is neither nil nor the      *)
(* left-over of an earlier Start.                                          *)
(***************************************************************************)
CancelReachesStart ==
  \A s, c \in Calls : pc[s] = "cancelling" /\ InProgress(c) => c \in cancelled

(***************************************************************************)
(* Why the gate works, as one inductive invariant.  Away from Idle there   *)
(* is exactly one token: an operation in progress or, once it has ended,   *)
(* its message in the channel, and either one agrees with currentState.    *)
(* Whoever holds the mutex across steps is cancelling a Start, and the     *)
(* cancel function in place is that of the Start in progress.              *)
(***************************************************************************)
GateInvariant ==
  /\ TypeOK
  /\ MutualExclusion
  /\ \A c \in Calls :
       /\ pc[c] \in {"running", "sending"} => op[c] \in Operations
       /\ pc[c] = "querying" => op[c] \notin Operations
       /\ InProgress(c) => /\ currentState = OperationState[op[c]]
                           /\ syncOperationDone = <<>>
       /\ InProgress(c) /\ op[c] = "Start" => startCancel = c
       /\ pc[c] = "cancelling" => /\ op[c] \in {"Stop", "Delete"}
                                  /\ stateLock = c
                                  /\ currentState = "Starting"
  /\ syncOperationDone # <<>> => /\ currentState # "Idle"
                                 /\ syncOperationDone = <<currentState>>
  /\ currentState # "Idle" /\ syncOperationDone = <<>> =>
       \E c \in Calls : InProgress(c)
  /\ CancelReachesStart

(***************************************************************************)
(* startCancel is not cleared when cancelUnlocked takes the message of the *)
(* Start it cancelled.  The stale function is harmless: no step cancels a  *)
(* context unless it belongs to a Start in progress.                       *)
(***************************************************************************)
OnlyRunningStartCancelled ==
  [][\A c \in cancelled' \ cancelled : op[c] = "Start" /\ InProgress(c)]_vars

(***************************************************************************)
(* No call hangs on the mutex, on the channel or in the wait for a         *)
(* cancelled Start: every call on the machine returns.                     *)
(***************************************************************************)
EveryCallReturns ==
  \A c \in Calls : <>(pc[c] \in {"done", "refused"})

(***************************************************************************)
(* The gate implements the promise of ExclusiveOperations: an operation is *)
(* performed from the moment the gate admits it to the moment its end is   *)
(* on the channel.                                                         *)
(***************************************************************************)
Promise == INSTANCE ExclusiveOperations WITH
  method <- op,
  active <- {c \in Calls : InProgress(c)},
  answer <- [c \in Calls |-> IF pc[c] = "done" THEN "performed"
                             ELSE IF pc[c] = "refused" THEN "refused" ELSE "none"]

\* The whole of sync.go keeps the promise its callers rely on, fairness included.
KeepsPromise == Promise!Spec
=============================================================================

------------------------- MODULE SynchronizedProofs -------------------------
(***************************************************************************)
(* Proofs about Synchronized, for any set of calls.  GateInvariant is      *)
(* inductive; mutual exclusion, the accuracy of the state, the channel's   *)
(* never being full and the reach of a cancellation follow from it.        *)
(***************************************************************************)
EXTENDS Synchronized, TLAPS

\* What the sequence operators do to a channel that holds at most one message.
LEMMA OneMessage ==
  ASSUME NEW st \in State
  PROVE  /\ Head(<<st>>) = st
         /\ Tail(<<st>>) = <<>>
         /\ <<st>> # <<>>
         /\ Append(<<>>, st) = <<st>>
         /\ Len(<<>>) = 0
         /\ Len(<<st>>) = 1
  OBVIOUS

\* The states of the operations, spelled out.
LEMMA OperationStates ==
  /\ Operations = {"Start", "Stop", "Delete"}
  /\ OperationState["Start"] = "Starting"
  /\ OperationState["Stop"] = "Stopping"
  /\ OperationState["Delete"] = "Deleting"
  BY DEF Operations, OperationState

(***************************************************************************)
(* What currentStateUnlocked finds.  Either the channel is empty, and the  *)
(* fields stay as they are, or an operation has ended, and the poll finds  *)
(* the gate Idle with nothing in progress.                                 *)
(***************************************************************************)
LEMMA PolledState ==
  ASSUME GateInvariant
  PROVE  /\ \/ /\ syncOperationDone = <<>>
               /\ Polled.state = currentState
               /\ Polled.cancel = startCancel
            \/ /\ Polled.state = "Idle"
               /\ Polled.cancel \in {Nil, startCancel}
         /\ Polled.state = "Idle" <=> \A d \in Calls : ~InProgress(d)
         /\ Polled.state \in State
         /\ Polled.cancel \in Calls \cup {Nil}
         /\ DrainChannel => syncOperationDone' = <<>>
  <1> USE OneMessage, OperationStates DEF GateInvariant, TypeOK, State
  <1>1. CASE syncOperationDone = <<>>
    <2>1. Polled.state = currentState /\ Polled.cancel = startCancel
      BY <1>1 DEF Polled
    <2>2. \A d \in Calls : InProgress(d) => currentState # "Idle"
      BY DEF InProgress
    <2> QED
      BY <1>1, <2>1, <2>2 DEF DrainChannel
  <1>2. CASE syncOperationDone # <<>>
    <2>1. syncOperationDone = <<currentState>>
      BY <1>2
    <2>2. Polled.state = "Idle" /\ Polled.cancel \in {Nil, startCancel}
      BY <1>2, <2>1 DEF Polled
    <2>3. \A d \in Calls : ~InProgress(d)
      BY <1>2
    <2> QED
      BY <1>2, <2>1, <2>2, <2>3 DEF DrainChannel
  <1> QED
    BY <1>1, <1>2

\* Init establishes the invariant.
LEMMA InitGate == Init => GateInvariant
  BY OperationStates DEF Init, GateInvariant, TypeOK, MutualExclusion, CancelReachesStart, InProgress,
     Steps, State, Methods

\* prepareStart preserves the invariant, refused or admitted.
LEMMA PrepareStartGate ==
  ASSUME GateInvariant, NEW c \in Calls, PrepareStart(c)
  PROVE  GateInvariant'
  <1> USE NilAssumption, OperationStates
  <1> USE DEF GateInvariant, TypeOK, MutualExclusion, CancelReachesStart, Steps, State
  <1>1. stateLock = Nil /\ \A s \in Calls : pc[s] # "cancelling"
    BY DEF PrepareStart
  <1>2. CASE Polled.state # "Idle"
    <2>1. /\ syncOperationDone = <<>>
          /\ UNCHANGED <<op, stateLock, currentState, startCancel, syncOperationDone, cancelled>>
          /\ pc' = [pc EXCEPT ![c] = "refused"]
      BY <1>2, PolledState DEF PrepareStart, KeepPolled, Goto
    <2> QED
      BY <1>1, <2>1 DEF PrepareStart, InProgress
  <1>3. CASE Polled.state = "Idle"
    <2>1. /\ syncOperationDone' = <<>>
          /\ currentState' = "Starting" /\ startCancel' = c
          /\ pc' = [pc EXCEPT ![c] = "running"]
          /\ op[c] = "Start" /\ UNCHANGED <<op, stateLock, cancelled>>
      BY <1>3, PolledState DEF PrepareStart, Goto
    <2>2. \A d \in Calls : InProgress(d)' <=> d = c
      BY <1>3, <2>1, PolledState DEF InProgress
    <2> QED
      BY <1>1, <2>1, <2>2 DEF InProgress
  <1> QED
    BY <1>2, <1>3

\* So does prepareStopDelete, whether it waits, goes on or is refused.
LEMMA PrepareStopDeleteGate ==
  ASSUME GateInvariant, NEW c \in Calls, PrepareStopDelete(c)
  PROVE  GateInvariant'
  <1> USE NilAssumption, OperationStates
  <1> USE DEF GateInvariant, TypeOK, MutualExclusion, CancelReachesStart, Steps, State
  <1>1. stateLock = Nil /\ \A s \in Calls : pc[s] # "cancelling"
    BY DEF PrepareStopDelete
  <1>2. CASE Polled.state = "Starting"
    <2>1. /\ syncOperationDone = <<>> /\ currentState = "Starting"
          /\ UNCHANGED <<op, currentState, startCancel, syncOperationDone>>
          /\ stateLock' = c
          /\ pc' = [pc EXCEPT ![c] = "cancelling"]
          /\ op[c] \in {"Stop", "Delete"} /\ pc[c] = "called"
          /\ cancelled' = IF startCancel # Nil THEN cancelled \cup {startCancel} ELSE cancelled
      BY <1>2, PolledState DEF PrepareStopDelete, KeepPolled, Goto
    <2>2. \A d \in Calls : InProgress(d)' <=> InProgress(d)
      BY <2>1 DEF InProgress
    <2>3. \A d \in Calls : InProgress(d) => op[d] = "Start"
      BY <2>1 DEF InProgress
    <2>4. CancelReachesStart'
      BY <2>1, <2>2, <2>3
    <2>5. TypeOK'
      BY <2>1
    <2> QED
      BY <1>1, <2>1, <2>2, <2>3, <2>4, <2>5 DEF InProgress
  <1>3. CASE Polled.state = "Idle"
    <2>1. /\ syncOperationDone' = <<>>
          /\ currentState' = OperationState[op[c]] /\ startCancel' \in Calls \cup {Nil}
          /\ pc' = [pc EXCEPT ![c] = "running"]
          /\ op[c] \in {"Stop", "Delete"} /\ UNCHANGED <<op, stateLock, cancelled>>
      BY <1>3, PolledState DEF PrepareStopDelete, Goto
    <2>2. \A d \in Calls : InProgress(d)' <=> d = c
      BY <1>3, <2>1, PolledState DEF InProgress
    <2> QED
      BY <1>1, <2>1, <2>2 DEF InProgress
  <1>4. CASE Polled.state \in {"Deleting", "Stopping"}
    <2>1. /\ syncOperationDone = <<>>
          /\ UNCHANGED <<op, stateLock, currentState, startCancel, syncOperationDone, cancelled>>
          /\ pc' = [pc EXCEPT ![c] = "refused"]
      BY <1>4, PolledState DEF PrepareStopDelete, KeepPolled, Goto
    <2> QED
      BY <1>1, <2>1 DEF PrepareStopDelete, InProgress
  <1> QED
    BY <1>2, <1>3, <1>4, PolledState

\* The end of the wait in cancelUnlocked: the message of the Start is the only token.
LEMMA CancelReceiveGate ==
  ASSUME GateInvariant, NEW c \in Calls, CancelReceive(c)
  PROVE  GateInvariant'
  <1> USE NilAssumption, OperationStates
  <1> USE DEF GateInvariant, TypeOK, MutualExclusion, CancelReachesStart, Steps, State
  <1>1. /\ syncOperationDone' = <<>>
        /\ currentState' = OperationState[op[c]] /\ stateLock' = Nil
        /\ pc[c] = "cancelling" /\ pc' = [pc EXCEPT ![c] = "running"]
        /\ op[c] \in {"Stop", "Delete"} /\ UNCHANGED <<op, startCancel, cancelled>>
    BY OneMessage DEF CancelReceive, Goto
  <1>2. \A s \in Calls : pc[s] = "cancelling" => s = c
    BY <1>1
  <1>3. \A d \in Calls : ~InProgress(d)
    BY DEF CancelReceive
  <1>4. \A d \in Calls : InProgress(d)' <=> d = c
    BY <1>1, <1>3 DEF InProgress
  <1> QED
    BY <1>1, <1>2, <1>4 DEF InProgress

\* The report of an operation's end moves the token into the channel.
LEMMA SendDoneGate ==
  ASSUME GateInvariant, NEW c \in Calls, SendDone(c)
  PROVE  GateInvariant'
  <1> USE NilAssumption, OperationStates
  <1> USE DEF GateInvariant, TypeOK, MutualExclusion, CancelReachesStart, Steps, State
  <1>1. InProgress(c)
    BY DEF SendDone, InProgress
  <1>2. /\ syncOperationDone' = <<currentState>>
        /\ currentState # "Idle"
        /\ pc' = [pc EXCEPT ![c] = "done"]
        /\ UNCHANGED <<op, stateLock, currentState, startCancel, cancelled>>
    <2>1. /\ syncOperationDone = <<>> /\ currentState = OperationState[op[c]]
          /\ op[c] \in Operations
      BY <1>1 DEF InProgress
    <2>2. Append(<<>>, currentState) = <<currentState>>
      BY OneMessage
    <2> QED
      BY <2>1, <2>2 DEF SendDone, Goto
  <1>3. \A d \in Calls : ~InProgress(d)'
    BY <1>1, <1>2 DEF InProgress
  <1> QED
    BY <1>2, <1>3, OneMessage DEF InProgress

\* A Status call may take the message of an operation that has ended.
LEMMA StatusPollGate ==
  ASSUME GateInvariant, NEW c \in Calls, StatusPoll(c)
  PROVE  GateInvariant'
  <1> USE NilAssumption, OperationStates
  <1> USE DEF GateInvariant, TypeOK, MutualExclusion, CancelReachesStart, Steps, State
  <1>1. /\ syncOperationDone' = <<>>
        /\ currentState' = Polled.state /\ startCancel' = Polled.cancel
        /\ op[c] = "Status" /\ pc[c] = "called"
        /\ pc' = [pc EXCEPT ![c] = IF Polled.state = "Idle" THEN "querying" ELSE "done"]
        /\ stateLock = Nil /\ UNCHANGED <<op, stateLock, cancelled>>
    BY PolledState DEF StatusPoll, KeepPolled, Goto
  <1>2. \A d \in Calls : InProgress(d)' <=> InProgress(d)
    BY <1>1 DEF InProgress
  <1>3. \A s \in Calls : pc'[s] # "cancelling"
    BY <1>1
  <1>4. TypeOK'
    BY <1>1, PolledState
  <1> QED
    BY <1>1, <1>2, <1>3, <1>4, PolledState DEF InProgress

\* Every step of every call preserves the invariant.
LEMMA StepGate ==
  ASSUME GateInvariant, NEW c \in Calls, Step(c)
  PROVE  GateInvariant'
  <1>1. CASE CancelTimeout(c)
    BY <1>1, NilAssumption, OperationStates
    DEF CancelTimeout, GateInvariant, TypeOK, MutualExclusion, CancelReachesStart,
        InProgress, Goto, Steps, State
  <1>2. CASE UnderlyingReturn(c)
    BY <1>2, NilAssumption, OperationStates
    DEF UnderlyingReturn, GateInvariant, TypeOK, MutualExclusion, CancelReachesStart,
        InProgress, Goto, Steps, State
  <1>3. CASE Forward(c) \/ QueryReturn(c)
    BY <1>3, NilAssumption, OperationStates
    DEF Forward, QueryReturn, Unsynchronized, GateInvariant, TypeOK, MutualExclusion, CancelReachesStart,
        InProgress, Goto, Steps, State
  <1> QED
    BY <1>1, <1>2, <1>3, PrepareStartGate, PrepareStopDeleteGate, CancelReceiveGate,
       SendDoneGate, StatusPollGate DEF Step

(***************************************************************************)
(* The gate of sync.go keeps its invariant for any number of concurrent    *)
(* calls, types included.                                                  *)
(***************************************************************************)
THEOREM GateHolds == Spec => []GateInvariant
  <1>1. GateInvariant /\ [Next]_vars => GateInvariant'
    <2> SUFFICES ASSUME GateInvariant, [Next]_vars PROVE GateInvariant'
      OBVIOUS
    <2>1. CASE \E c \in Calls : Step(c)
      BY <2>1, StepGate
    <2>2. CASE UNCHANGED vars
      BY <2>2 DEF vars, GateInvariant, TypeOK, MutualExclusion, CancelReachesStart, InProgress
    <2> QED
      BY <2>1, <2>2 DEF Next, AllReturned
  <1> QED
    BY InitGate, <1>1, PTL DEF Spec

(***************************************************************************)
(* The underlying client never performs two of Start, Stop and Delete at   *)
(* once (sync.go, prepareStart and prepareStopDelete).                     *)
(***************************************************************************)
THEOREM OperationsExclude == Spec => []MutualExclusion
  <1>1. GateInvariant => MutualExclusion
    BY DEF GateInvariant
  <1> QED
    BY <1>1, GateHolds, PTL

(***************************************************************************)
(* CurrentState tells the operation in progress, and Idle when there is    *)
(* none (sync.go, currentStateUnlocked).                                   *)
(***************************************************************************)
THEOREM StateAccurate == Spec => []StateIsAccurate
  <1>1. GateInvariant => StateIsAccurate
    <2> SUFFICES ASSUME GateInvariant PROVE StateIsAccurate
      OBVIOUS
    <2>1. ASSUME NEW c \in Calls, InProgress(c) PROVE Polled.state = OperationState[op[c]]
      BY <2>1, PolledState DEF GateInvariant
    <2> QED
      BY <2>1, PolledState DEF StateIsAccurate
  <1> QED
    BY <1>1, GateHolds, PTL

(***************************************************************************)
(* The send that ends an operation never blocks (sync.go, Start, Stop and  *)
(* Delete): one slot is enough for the channel.                            *)
(***************************************************************************)
THEOREM SendsDoNotBlock == Spec => []SendNeverBlocks
  <1>1. GateInvariant => SendNeverBlocks
    BY OneMessage DEF GateInvariant, SendNeverBlocks, InProgress, ChannelCapacity, State
  <1> QED
    BY <1>1, GateHolds, PTL

(***************************************************************************)
(* A context is cancelled only while the Start it belongs to is in         *)
(* progress (sync.go, cancelUnlocked): the cancel function that stays      *)
(* behind after a cancellation never reaches a later Start.                *)
(***************************************************************************)
THEOREM CancelsOnlyRunningStart == Spec => OnlyRunningStartCancelled
  <1>1. GateInvariant /\ [Next]_vars =>
          [\A c \in cancelled' \ cancelled : op[c] = "Start" /\ InProgress(c)]_vars
    <2> SUFFICES ASSUME GateInvariant, Next, NEW c \in cancelled' \ cancelled
                 PROVE  op[c] = "Start" /\ InProgress(c)
      OBVIOUS
    <2>1. PICK s \in Calls : PrepareStopDelete(s) /\ Polled.state = "Starting" /\ c = Polled.cancel
      BY PolledState
      DEF Next, AllReturned, vars, Step, PrepareStart, PrepareStopDelete, CancelReceive,
          CancelTimeout, UnderlyingReturn, SendDone, StatusPoll, Forward, QueryReturn
    <2>2. currentState = "Starting" /\ syncOperationDone = <<>> /\ c = startCancel
      BY <2>1, PolledState
    <2>3. PICK d \in Calls : InProgress(d)
      BY <2>2 DEF GateInvariant
    <2>4. op[d] = "Start"
      BY <2>2, <2>3, OperationStates DEF GateInvariant, InProgress
    <2> QED
      BY <2>2, <2>3, <2>4 DEF GateInvariant
  <1> QED
    BY <1>1, GateHolds, PTL DEF Spec, OnlyRunningStartCancelled

\* Initially nothing is performed and nobody has been answered.
LEMMA InitPromise == Init => Promise!Init
  BY DEF Init, Promise!Init, InProgress

\* What a step does to the operations in progress when it moves one call only.
LEMMA OthersStay ==
  ASSUME TypeOK, NEW c \in Calls, NEW step, pc' = [pc EXCEPT ![c] = step], op' = op
  PROVE  \A d \in Calls : d # c => (InProgress(d)' <=> InProgress(d))
  BY DEF TypeOK, InProgress

\* What the promise can see of a step that takes call c to `step`.
Effect(c, step) ==
  /\ pc' = [pc EXCEPT ![c] = step] /\ op' = op
  /\ pc[c] \notin {"done", "refused"}
  /\ \/ step \notin {"done", "refused"} /\ (InProgress(c)' <=> InProgress(c))
     \/ /\ op[c] \in Operations /\ step = "running"
        /\ \A d \in Calls : ~InProgress(d)
     \/ InProgress(c) /\ step = "done"
     \/ /\ op[c] \in Operations /\ step = "refused" /\ ~InProgress(c)
        /\ op[c] = "Start" => \E d \in Calls : InProgress(d)
     \/ op[c] \notin Operations /\ step = "done"

\* Every step of a call has one of those effects.
LEMMA StepEffect ==
  ASSUME GateInvariant, NEW c \in Calls, Step(c)
  PROVE  \E step \in Steps : Effect(c, step)
  <1> USE OperationStates DEF GateInvariant, TypeOK, Steps, Goto, InProgress, Effect
  <1>1. CASE PrepareStart(c)
    BY <1>1, PolledState DEF PrepareStart
  <1>2. CASE PrepareStopDelete(c)
    BY <1>2, PolledState DEF PrepareStopDelete, State
  <1>3. CASE CancelReceive(c)
    BY <1>3 DEF CancelReceive
  <1>4. CASE CancelTimeout(c)
    BY <1>4 DEF CancelTimeout
  <1>5. CASE UnderlyingReturn(c)
    BY <1>5 DEF UnderlyingReturn
  <1>6. CASE SendDone(c)
    BY <1>6 DEF SendDone
  <1>7. CASE StatusPoll(c)
    BY <1>7 DEF StatusPoll
  <1>8. CASE Forward(c)
    BY <1>8 DEF Forward, Unsynchronized
  <1>9. CASE QueryReturn(c)
    BY <1>9 DEF QueryReturn
  <1> QED
    BY <1>1, <1>2, <1>3, <1>4, <1>5, <1>6, <1>7, <1>8, <1>9 DEF Step

\* Writing to a function's entry what it holds changes nothing.
LEMMA SameUpdate ==
  ASSUME NEW S, NEW f, f = [x \in S |-> f[x]], NEW c \in S
  PROVE  [f EXCEPT ![c] = f[c]] = f
OBVIOUS

(***************************************************************************)
(* Every step of sync.go is a step of ExclusiveOperations or changes none  *)
(* of what the promise speaks of.                                          *)
(***************************************************************************)
LEMMA StepPromise ==
  ASSUME GateInvariant, NEW c \in Calls, Step(c)
  PROVE  [Promise!Next]_(Promise!vars)
  <1> DEFINE act == {d \in Calls : InProgress(d)}
             Ans(p) == IF p = "done" THEN "performed" ELSE IF p = "refused" THEN "refused" ELSE "none"
             ans == [d \in Calls |-> Ans(pc[d])]
  <1>1. PICK step \in Steps : Effect(c, step)
    BY StepEffect
  <1> USE OperationStates DEF GateInvariant, TypeOK
  <1>2. pc' = [pc EXCEPT ![c] = step] /\ op' = op /\ pc[c] \notin {"done", "refused"}
    BY <1>1 DEF Effect
  <1>3. \A d \in Calls : d # c => (InProgress(d)' <=> InProgress(d))
    BY <1>2, OthersStay
  <1>4. ans' = [ans EXCEPT ![c] = Ans(step)] /\ ans[c] = "none"
    BY <1>2
  <1>5. CASE step \notin {"done", "refused"} /\ (InProgress(c)' <=> InProgress(c))
    <2>1. act' = act
      BY <1>3, <1>5
    <2>2. ans' = ans
      BY <1>2, <1>5
    <2> QED
      BY <1>2, <2>1, <2>2 DEF Promise!vars
  <1>6. CASE op[c] \in Operations /\ step = "running" /\ \A d \in Calls : ~InProgress(d)
    <2>1. act = {} /\ act' = {c}
      BY <1>2, <1>3, <1>6 DEF InProgress
    <2>a. Ans(step) = ans[c]
      BY <1>4, <1>6
    <2>b. ans = [d \in Calls |-> ans[d]]
      OBVIOUS
    <2>2. ans' = ans
      <3> HIDE DEF ans, Ans
      <3> QED BY <1>4, <2>a, <2>b, SameUpdate
    <2>3. Promise!Begin(c)
      BY <1>2, <1>4, <1>6, <2>1, <2>2 DEF Promise!Begin, Promise!Exclusive
    <2> QED
      BY <2>3 DEF Promise!Next
  <1>7. CASE InProgress(c) /\ step = "done"
    <2>1. c \in act /\ act' = act \ {c}
      BY <1>2, <1>3, <1>7 DEF InProgress
    <2>2. Promise!End(c)
      BY <1>2, <1>4, <1>7, <2>1 DEF Promise!End, Promise!Answer
    <2> QED
      BY <2>2 DEF Promise!Next
  <1>8. CASE /\ op[c] \in Operations /\ step = "refused" /\ ~InProgress(c)
             /\ op[c] = "Start" => \E d \in Calls : InProgress(d)
    <2>1. act' = act /\ c \notin act /\ (op[c] = "Start" => act # {})
      BY <1>2, <1>3, <1>8 DEF InProgress
    <2>2. Promise!Refuse(c)
      BY <1>2, <1>4, <1>8, <2>1 DEF Promise!Refuse, Promise!Answer, Promise!Exclusive
    <2> QED
      BY <2>2 DEF Promise!Next
  <1>9. CASE op[c] \notin Operations /\ step = "done"
    <2>1. act' = act
      BY <1>2, <1>3, <1>9 DEF InProgress
    <2>2. Promise!Read(c)
      BY <1>2, <1>4, <1>9, <2>1 DEF Promise!Read, Promise!Answer, Promise!Exclusive
    <2> QED
      BY <2>2 DEF Promise!Next
  <1> QED
    BY <1>1, <1>5, <1>6, <1>7, <1>8, <1>9 DEF Effect

(***************************************************************************)
(* sync.go keeps the safety half of the promise to its callers, whatever   *)
(* the number of calls: one operation at a time, one answer per call, and  *)
(* a Start refused only because of another operation.                      *)
(***************************************************************************)
THEOREM GateKeepsPromise == Spec => Promise!SafeSpec
  <1>1. GateInvariant /\ [Next]_vars => [Promise!Next]_(Promise!vars)
    <2> SUFFICES ASSUME GateInvariant, [Next]_vars PROVE [Promise!Next]_(Promise!vars)
      OBVIOUS
    <2>1. CASE \E c \in Calls : Step(c)
      BY <2>1, StepPromise
    <2>2. CASE UNCHANGED vars
      BY <2>2 DEF vars, Promise!vars, InProgress
    <2> QED
      BY <2>1, <2>2 DEF Next, AllReturned
  <1> QED
    BY InitPromise, <1>1, GateHolds, PTL DEF Spec, Promise!SafeSpec
=============================================================================

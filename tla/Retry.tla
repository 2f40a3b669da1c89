------------------------------- MODULE Retry -------------------------------
(***************************************************************************)
(* errors.Retry: the loop behind every wait of crc (for SSH, the API       *)
(* server, certificates, the pull secret, the state of the VM).  It calls  *)
(* a callback until it returns nil, an error that is not retriable, the    *)
(* time is over or the context is cancelled.                               *)
(*                                                                         *)
(* Time passes in the callback, for as long as it likes within MaxCall,    *)
(* and in the sleep after a retriable error.                               *)
(***************************************************************************)
EXTENDS Naturals, Sequences

CONSTANTS
  Limit,      \* how long to try
  Delay,      \* the sleep between two tries
  MaxCall,    \* the longest a callback takes
  Texts       \* the texts a retriable error may have

\* Every caller in crc sleeps for a second or more.
ASSUME RetryAssumption == Limit \in Nat /\ Delay \in Nat \ {0} /\ MaxCall \in Nat

VARIABLES
  pc,        \* "called", "loop", "callback", "sleep" or "returned"
  now,       \* the time since Retry was called
  attempt,   \* the local variable
  m,         \* the errors collected
  wake,      \* when the sleep ends
  done,      \* is the context cancelled
  late,      \* how many callbacks have begun since
  result     \* "none", "nil", "cancelled" or "errors"

vars == <<pc, now, attempt, m, wake, done, late, result>>

Fatal == "fatal"

Return(r) == pc' = "returned" /\ result' = r

Init ==
  /\ pc = "called"
  /\ now = 0 /\ wake = 0
  /\ attempt = 0 /\ m = <<>>
  /\ done \in BOOLEAN /\ late = 0
  /\ result = "none"

\* The context is looked at before the first attempt,
Call ==
  /\ pc = "called"
  /\ IF done THEN Return("cancelled") ELSE pc' = "loop" /\ UNCHANGED result
  /\ UNCHANGED <<now, attempt, m, wake, done, late>>

\* Mutation: the time limit is for one attempt.
LoopForever ==
  /\ pc = "loop"
  /\ IF now - wake < Limit \/ attempt < 2
     THEN pc' = "callback" /\ late' = late + (IF done THEN 1 ELSE 0) /\ UNCHANGED result
     ELSE Return("errors") /\ UNCHANGED late
  /\ UNCHANGED <<now, attempt, m, wake, done>>

\* and the time before every one; there are two at least.
Loop ==
  /\ pc = "loop"
  /\ IF now < Limit \/ attempt < 2
     THEN pc' = "callback" /\ late' = late + (IF done THEN 1 ELSE 0) /\ UNCHANGED result
     ELSE Return("errors") /\ UNCHANGED late
  /\ UNCHANGED <<now, attempt, m, wake, done>>

\* The callback returns: nil, an error that ends the loop, or a retriable one.
Callback(took, err) ==
  /\ pc = "callback"
  /\ now' = now + took
  /\ \/ /\ err = "nil" /\ Return("nil")
        /\ UNCHANGED <<attempt, m, wake>>
     \/ /\ err = Fatal /\ Return("errors")
        /\ attempt' = attempt + 1 /\ m' = Append(m, err)
        /\ UNCHANGED wake
     \/ /\ err \in Texts
        /\ attempt' = attempt + 1 /\ m' = Append(m, err)
        /\ wake' = now' + Delay
        /\ pc' = "sleep" /\ UNCHANGED result
  /\ UNCHANGED <<done, late>>

\* The select: whichever comes first, and either when both have come.
Sleep ==
  /\ pc = "sleep"
  /\ \/ /\ done
        /\ Return("cancelled") /\ UNCHANGED now
     \/ /\ done => now = wake
        /\ now' = wake
        /\ pc' = "loop" /\ UNCHANGED result
  /\ UNCHANGED <<attempt, m, wake, done, late>>

\* The context may be cancelled at any time, also after part of the sleep.
Cancel ==
  /\ ~done /\ pc # "returned"
  /\ done' = TRUE
  /\ IF pc = "sleep" THEN now' \in now..wake ELSE UNCHANGED now
  /\ UNCHANGED <<pc, attempt, m, wake, late, result>>

CallbackReturns ==
  \E took \in 0..MaxCall, err \in {"nil", Fatal} \cup Texts : Callback(took, err)

Next == Call \/ Loop \/ CallbackReturns \/ Sleep \/ Cancel

Spec == Init /\ [][Next]_vars

\* The callback returns, the clock goes on and the goroutine is scheduled.
FairSpec == Spec /\ WF_vars(Call \/ Loop \/ CallbackReturns \/ Sleep)

-----------------------------------------------------------------------------
\* MultiError.Error: runs of equal texts become one, with their length.
ErrorText(errors) ==
  LET After[i \in 1..Len(errors)] ==
        IF i = 1 THEN [out |-> <<>>, current |-> errors[1], count |-> 1]
        ELSE LET s == After[i - 1]
             IN  IF errors[i] = s.current THEN [s EXCEPT !.count = @ + 1]
                 ELSE [out |-> Append(s.out, <<s.current, s.count>>),
                       current |-> errors[i], count |-> 1]
      Last == After[Len(errors)]
  IN  IF errors = <<>> THEN <<>> ELSE Append(Last.out, <<Last.current, Last.count>>)

\* What a reader makes of the text: each line as often as it says.
Expand(lines) ==
  LET Upto[i \in 0..Len(lines)] ==
        IF i = 0 THEN <<>> ELSE Upto[i - 1] \o [j \in 1..lines[i][2] |-> lines[i][1]]
  IN  Upto[Len(lines)]

TypeOK ==
  /\ pc \in {"called", "loop", "callback", "sleep", "returned"}
  /\ now \in Nat /\ attempt \in Nat /\ wake \in Nat /\ late \in Nat
  /\ m \in Seq(Texts \cup {Fatal})
  /\ done \in BOOLEAN
  /\ result \in {"none", "nil", "cancelled", "errors"}

(***************************************************************************)
(* errors.Retry gives up with the errors it has collected only after an    *)
(* error that is not retriable or after two attempts, the last of which    *)
(* ended when the time was over: a first attempt that used up all the time *)
(* (a slow "oc" over SSH) is not the last word.                            *)
(***************************************************************************)
GivesUpLate ==
  result = "errors" =>
    /\ m # <<>>
    /\ \/ m[Len(m)] = Fatal
       \/ attempt >= 2 /\ now >= Limit

\* The latest time at which Retry can be over.
Latest ==
  LET lastStart == IF Limit > MaxCall + Delay THEN Limit ELSE MaxCall + Delay
  IN  lastStart + MaxCall + Delay

(***************************************************************************)
(* errors.Retry overruns its limit by one attempt and one sleep at most    *)
(* (two when the limit is shorter than the first attempt): the wait of a   *)
(* "crc start" is bounded although the callbacks take their own time.      *)
(***************************************************************************)
OverrunBounded == now <= Latest

(***************************************************************************)
(* A cancelled context (a client that stops the start in progress) ends    *)
(* errors.Retry: one callback at most begins after it, when the sleep and  *)
(* the cancellation are over at the same time or the loop is in between.   *)
(***************************************************************************)
CancelStopsRetrying == late <= 1

(***************************************************************************)
(* The text of a MultiError ("... (x3)") accounts for every error          *)
(* collected, in order.                                                    *)
(***************************************************************************)
TextAccountsForErrors == Expand(ErrorText(m)) = m

(***************************************************************************)
(* errors.Retry returns, whatever the callback answers.                    *)
(***************************************************************************)
Returns == <>(pc = "returned")

=============================================================================

--------------------------- MODULE ClusterStable ---------------------------
(***************************************************************************)
(* The end of "crc start": WaitForClusterStable lists the operators of the *)
(* cluster every half minute until it has found all of them ready a number *)
(* of consecutive times, while the operators come and go as they like.     *)
(***************************************************************************)
EXTENDS Naturals, Sequences

CONSTANTS
  Operators,        \* the cluster operators
  Conditions,       \* the conditions an operator may report: functions from types to status
  retryCount,       \* how often the operators are listed
  numConsecutive    \* how many matches in a row are enough

ASSUME StableAssumption ==
  retryCount \in Nat /\ numConsecutive \in Nat \ {0}

VARIABLES
  reports,   \* what the operators that exist report
  pc,        \* "called", "list", "wait" or "returned"
  count,     \* the local variable
  polls,     \* for each round so far, were all operators found ready
  done,      \* is the context cancelled
  result     \* "none", "nil", "cancelled" or "unstable"

vars == <<reports, pc, count, polls, done, result>>

Reports == UNION {[S -> Conditions] : S \in SUBSET Operators}

\* Does some operator report the condition with this status.
Some(report, type, status) ==
  \E o \in DOMAIN report : type \in DOMAIN report[o] /\ report[o][type] = status

Other(report, type, status) ==
  \E o \in DOMAIN report : type \in DOMAIN report[o] /\ report[o][type] # status

\* The status made of the conditions; a condition that is missing counts as fine.
getStatus(report) ==
  [Available   |-> ~Other(report, "Available", "True"),
   Progressing |-> Some(report, "Progressing", "True"),
   Degraded    |-> Some(report, "Degraded", "True"),
   Disabled    |-> Some(report, "Disabled", "True")]

IsReady(status) ==
  status.Available /\ ~status.Progressing /\ ~status.Degraded /\ ~status.Disabled

Init ==
  /\ reports \in Reports
  /\ pc = "called" /\ count = 0 /\ polls = <<>>
  /\ done \in BOOLEAN
  /\ result = "none"

Return(r) == pc' = "returned" /\ result' = r

Call ==
  /\ pc = "called"
  /\ IF done THEN Return("cancelled") ELSE pc' = "list" /\ UNCHANGED result
  /\ UNCHANGED <<reports, count, polls, done>>

\* Mutation: an error leaves the count as it is.
CountKept(answer) ==
  IF answer = "error" THEN count ELSE IF answer = "ready" THEN count + 1 ELSE 0

\* The count of consecutive matches after an answer.
Count(answer) == IF answer = "ready" THEN count + 1 ELSE 0

\* The answer to a request: an error, also when there are no operators at all.
Answers ==
  {"error"} \cup
  (IF reports = <<>> THEN {} ELSE {IF IsReady(getStatus(reports)) THEN "ready" ELSE "notReady"})

\* A round of the loop; the request fails whenever it likes.
List ==
  /\ pc = "list"
  /\ IF Len(polls) = retryCount THEN Return("unstable") /\ UNCHANGED <<count, polls>>
     ELSE \E answer \in Answers :
            /\ count' = Count(answer)
            /\ polls' = Append(polls, answer = "ready")
            /\ IF count' = numConsecutive THEN Return("nil")
               ELSE pc' = "wait" /\ UNCHANGED result
  /\ UNCHANGED <<reports, done>>

\* The select between two rounds.
Wait ==
  /\ pc = "wait"
  /\ \/ done /\ Return("cancelled")
     \/ ~done /\ pc' = "list" /\ UNCHANGED result
  /\ UNCHANGED <<reports, count, polls, done>>

Cancel ==
  /\ ~done /\ pc # "returned" /\ done' = TRUE
  /\ UNCHANGED <<reports, pc, count, polls, result>>

\* An operator appears, reports something else or disappears.
Change ==
  /\ pc # "returned"
  /\ \E o \in Operators :
       \/ \E c \in Conditions :
            reports' = [p \in DOMAIN reports \cup {o} |-> IF p = o THEN c ELSE reports[p]]
       \/ reports' = [p \in DOMAIN reports \ {o} |-> reports[p]]
  /\ UNCHANGED <<pc, count, polls, done, result>>

Next == Call \/ List \/ Wait \/ Cancel \/ Change

Spec == Init /\ [][Next]_vars

\* The request returns (its timeout is five seconds) and the clock goes on.
FairSpec == Spec /\ WF_vars(Call \/ List \/ Wait)

-----------------------------------------------------------------------------
TypeOK ==
  /\ reports \in Reports
  /\ pc \in {"called", "list", "wait", "returned"}
  /\ count \in 0..numConsecutive
  /\ polls \in Seq(BOOLEAN) /\ Len(polls) <= retryCount
  /\ done \in BOOLEAN
  /\ result \in {"none", "nil", "cancelled", "unstable"}

\* Were all operators ready in the numConsecutive rounds that begin with round i.
Match(i) ==
  i + numConsecutive - 1 <= Len(polls) /\ \A k \in 0..(numConsecutive - 1) : polls[i + k]

(***************************************************************************)
(* "WaitForClusterStable checks that the cluster is running a number of    *)
(* consecutive times" (status.go): it returns nil exactly when its last    *)
(* rounds all found the operators ready, no failed request in between, and *)
(* it stops at the first such match.                                       *)
(***************************************************************************)
NilMeansConsecutive ==
  /\ result = "nil" => Len(polls) >= numConsecutive /\ Match(Len(polls) - numConsecutive + 1)
  /\ \A i \in 1..Len(polls) : Match(i) => result = "nil" /\ i = Len(polls) - numConsecutive + 1

(***************************************************************************)
(* A round in which the operators were found ready was one in which none   *)
(* of them reported to be progressing, degraded, disabled or unavailable,  *)
(* and there was an operator at all: before the operators have registered, *)
(* the empty list does not count as a stable cluster.                      *)
(***************************************************************************)
ReadyMeansNoComplaint ==
  [][(Len(polls') > Len(polls) /\ polls'[Len(polls')]) =>
       /\ reports # <<>>
       /\ \A o \in DOMAIN reports, type \in {"Available", "Progressing", "Degraded", "Disabled"} :
            type \in DOMAIN reports[o] =>
              (reports[o][type] = "True") = (type = "Available")]_vars

(***************************************************************************)
(* WaitForClusterStable returns, however often the operators change.       *)
(***************************************************************************)
Returns == <>(pc = "returned")

=============================================================================

------------------------ MODULE ExclusiveOperations ------------------------
(***************************************************************************)
(* What callers of the machine are promised: the operations that change    *)
(* the virtual machine (Start, Stop, Delete) are performed one at a time,  *)
(* each call is answered once, a refused call is never performed, and a    *)
(* Start is refused only while another operation is being performed.       *)
(***************************************************************************)
CONSTANTS Calls

VARIABLES
  method,    \* what each call asks for
  active,    \* the operations being performed
  answer     \* what each caller has been told

vars == <<method, active, answer>>

Exclusive == {"Start", "Stop", "Delete"}

Init ==
  /\ active = {}
  /\ answer = [c \in Calls |-> "none"]

Answer(c, a) ==
  /\ answer[c] = "none"
  /\ answer' = [answer EXCEPT ![c] = a]

Begin(c) ==
  /\ method[c] \in Exclusive
  /\ answer[c] = "none"
  /\ active = {}
  /\ active' = {c}
  /\ UNCHANGED <<method, answer>>

End(c) ==
  /\ c \in active
  /\ active' = active \ {c}
  /\ Answer(c, "performed")
  /\ UNCHANGED method

\* A Stop or a Delete may also give up waiting for the Start it cancelled.
Refuse(c) ==
  /\ method[c] \in Exclusive
  /\ c \notin active
  /\ method[c] = "Start" => active # {}
  /\ Answer(c, "refused")
  /\ UNCHANGED <<method, active>>

Read(c) ==
  /\ method[c] \notin Exclusive
  /\ Answer(c, "performed")
  /\ UNCHANGED <<method, active>>

Next == \E c \in Calls : Begin(c) \/ End(c) \/ Refuse(c) \/ Read(c)

SafeSpec == Init /\ [][Next]_vars

\* An operation that has begun ends.
Spec == SafeSpec /\ \A c \in Calls : WF_vars(End(c))
=============================================================================

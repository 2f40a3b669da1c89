---------------------------- MODULE ClusterWaits ----------------------------
(***************************************************************************)
(* The two long waits of a start for the cluster, for certificates of the  *)
(* kubelet and for the operators.  The first is over before the second     *)
(* begins, so a behaviour is of one of them, and the other stays where it  *)
(* begins.                                                                 *)
(***************************************************************************)
EXTENDS ClusterStable

CONSTANTS Names, MaxFaults   \* of CertRenewal

VARIABLES
  part,                                                                        \* the one it is of
  step, expired, todo, verdict, vm, kubelet, certs, asked, csrs, faults        \* of CertRenewal

renewal == <<step, expired, todo, verdict, vm, kubelet, certs, asked, csrs, faults>>
all == <<part, vars, renewal>>

Renewal == INSTANCE CertRenewal WITH pc <- step, result <- verdict

\* "none" is not the name of a request.
ASSUME RenewalAssumption == Renewal!NoName \notin Names /\ MaxFaults \in Nat

\* The part a behaviour is not of is in one of its initial states.
WaitsInit ==
  /\ part \in {"operators", "certificates"}
  /\ Init /\ (part # "operators" => reports = <<>> /\ ~done)
  /\ Renewal!Init /\ (part # "certificates" => \A c \in DOMAIN certs : certs[c] = "valid")

InOperators == part = "operators" /\ UNCHANGED <<part, renewal>>
InCertificates == part = "certificates" /\ UNCHANGED <<part, vars>>

\* A WaitForClusterStable that has returned is over.
Over == pc = "returned" /\ UNCHANGED all

WaitsNext ==
  \/ InOperators /\ Next
  \/ Over
  \/ InCertificates /\ Renewal!Next

\* The fairness of the parts.
WaitsSpec ==
  /\ WaitsInit /\ [][WaitsNext]_all
  /\ WF_all(InOperators /\ (Call \/ List \/ Wait))
  /\ WF_all(InCertificates /\ Renewal!Steps)
  /\ WF_all(InCertificates /\ Renewal!Ask) /\ WF_all(InCertificates /\ Renewal!Fetch)
  /\ WF_all(InCertificates /\ Renewal!AutoApprove) /\ WF_all(InCertificates /\ Renewal!Issue)

-----------------------------------------------------------------------------
\* The type invariants of the parts.
TypesOK == TypeOK /\ Renewal!TypeOK

(***************************************************************************)
(* The renewal of certificates does what it is for (cert_renewal.go).      *)
(* After a start that returned nil both certificates of the kubelet are    *)
(* valid, and as long as no start has been cut short no wait for a request *)
(* or a certificate runs out.                                              *)
(***************************************************************************)
CertificatesRenewed ==
  /\ TypesOK
  /\ Renewal!SuccessMeansRenewed
  /\ Renewal!UndisturbedStartSucceeds

(***************************************************************************)
(* Answers are read for what they say.  An operator counts as ready only   *)
(* when none of its conditions complains (status.go), and a start approves *)
(* and deletes only requests of the signers it looks after (csr.go).       *)
(***************************************************************************)
AnswersHeeded == ReadyMeansNoComplaint /\ Renewal!TouchesOwnRequests

\* WaitForClusterStable returns, however often the operators change, and the renewal gets
\* to its end, with whatever result.
WaitsReturn == (part = "operators" => Returns) /\ Renewal!StartEnds

=============================================================================

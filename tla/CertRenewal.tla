---------------------------- MODULE CertRenewal ----------------------------
(***************************************************************************)
(* "crc start" on an instance that was off for longer than the kubelet's   *)
(* certificates are valid: CheckCertsValidity, the start of the kubelet    *)
(* and ApproveCSRAndWaitForCertsRenewal, against a kubelet that asks for   *)
(* certificates and a controller manager that issues what is approved.     *)
(*                                                                         *)
(* A start is cut short when one of its commands fails, a wait runs out or *)
(* the process ends; the user stops the instance and starts it again.      *)
(***************************************************************************)
EXTENDS Naturals, FiniteSets

CONSTANTS
  Names,       \* the certificate signing requests there may be
  MaxFaults    \* how many starts may be cut short

VARIABLES
  pc,        \* where the start is; "idle" when there is none
  expired,   \* what CheckCertsValidity has found
  todo,      \* the requests listed that are yet to be approved or deleted
  result,    \* of the last start
  vm,        \* is the instance running
  kubelet,   \* and the kubelet in it
  certs,     \* its certificates, "valid" or "expired"
  asked,     \* the requests for a client and a serving certificate it waits for
  csrs,      \* the requests in the cluster: signer and status
  faults     \* how many starts have been cut short

start == <<pc, expired, todo, result>>
guest == <<vm, kubelet, certs, asked>>
vars == <<start, guest, csrs, faults>>

Client == "client"
Server == "server"
Certs == {Client, Server}

\* The names of the signers, in the code and in the kubelet.
kubeletClientSignerName == "kubernetes.io/kube-apiserver-client-kubelet"
authClientSignerName == "kubernetes.io/kube-apiserver-client"
kubeletServingSignerName == "kubernetes.io/kubelet-serving"
SignerOf == [c \in Certs |-> IF c = Client THEN kubeletClientSignerName ELSE kubeletServingSignerName]

NoName == "none"
None == [c \in Certs |-> NoName]
NotExpired == [c \in Certs |-> FALSE]

Init ==
  /\ pc = "idle" /\ expired = NotExpired /\ todo = {} /\ result = "none"
  /\ vm = FALSE /\ kubelet = FALSE
  /\ certs \in [Certs -> {"valid", "expired"}]
  /\ asked = None
  /\ csrs = <<>>
  /\ faults = 0

isPending(n) == csrs[n].status = "pending"

\* Mutation: the requests of every signer.
AllCSRs(signer) == DOMAIN csrs

\* The requests of one signer.
getCSRList(signer) == {n \in DOMAIN csrs : csrs[n].signer = signer}

Go(to) == pc' = to /\ UNCHANGED <<expired, todo, result>>

Return(r) == pc' = "idle" /\ result' = r /\ todo' = {} /\ UNCHANGED expired

\* A start of a stopped instance, with names left for the requests that may follow.
Begin ==
  /\ pc = "idle" /\ ~vm /\ vm' = TRUE
  /\ Go("check")
  /\ Cardinality(Names \ DOMAIN csrs) >= 2
  /\ UNCHANGED <<kubelet, certs, asked, csrs, faults>>

CheckCertsValidity ==
  /\ pc = "check"
  /\ expired' = [c \in Certs |-> certs[c] = "expired"]
  /\ pc' = "kubelet" /\ UNCHANGED <<todo, result>>
  /\ UNCHANGED <<guest, csrs, faults>>

\* systemctl start kubelet, and what comes next.
StartKubelet ==
  /\ pc = "kubelet"
  /\ kubelet' = TRUE
  /\ Go(IF expired[Client] THEN "list" ELSE "waitServer")
  /\ UNCHANGED <<vm, certs, asked, csrs, faults>>

\* A round of the loop in approvePendingCSRs: with nothing pending, another follows.
ListPending ==
  /\ pc = "list"
  /\ {n \in getCSRList(kubeletClientSignerName) : isPending(n)} # {}
  /\ todo' = {n \in getCSRList(kubeletClientSignerName) : isPending(n)}
  /\ pc' = "approve" /\ UNCHANGED <<expired, result>>
  /\ UNCHANGED <<guest, csrs, faults>>

approvePendingCSRs ==
  /\ pc = "approve"
  /\ IF todo = {} THEN Go("listAuth") /\ UNCHANGED csrs
     ELSE \E n \in todo :
            /\ csrs' = [csrs EXCEPT ![n].status = "approved"]
            /\ todo' = todo \ {n} /\ UNCHANGED <<pc, expired, result>>
  /\ UNCHANGED <<guest, faults>>

ListAuth ==
  /\ pc = "listAuth"
  /\ todo' = getCSRList(authClientSignerName)
  /\ pc' = "delete" /\ UNCHANGED <<expired, result>>
  /\ UNCHANGED <<guest, csrs, faults>>

\* Mutation: the list is made again as long as the operator asks again, and after that.
DeleteForever ==
  /\ pc = "delete"
  /\ IF todo = {} THEN Go("listAuth") /\ UNCHANGED csrs
     ELSE \E n \in todo :
            /\ csrs' = [m \in DOMAIN csrs \ {n} |-> csrs[m]]
            /\ todo' = todo \ {n} /\ UNCHANGED <<pc, expired, result>>
  /\ UNCHANGED <<guest, faults>>

deleteCSR ==
  /\ pc = "delete"
  /\ IF todo = {} THEN Go("waitClient") /\ UNCHANGED csrs
     ELSE \E n \in todo :
            /\ csrs' = [m \in DOMAIN csrs \ {n} |-> csrs[m]]
            /\ todo' = todo \ {n} /\ UNCHANGED <<pc, expired, result>>
  /\ UNCHANGED <<guest, faults>>

\* Mutation: an approved request is taken for a renewed certificate.
DoNotWait ==
  /\ pc = "waitClient" /\ Go("waitServer")
  /\ UNCHANGED <<guest, csrs, faults>>

waitForCertRenewal ==
  /\ pc = "waitClient" /\ certs[Client] = "valid"
  /\ Go("waitServer")
  /\ UNCHANGED <<guest, csrs, faults>>

\* The end, after the wait for the serving certificate if it had expired.
WaitForServer ==
  /\ pc = "waitServer"
  /\ expired[Server] => certs[Server] = "valid"
  /\ Return("ok")
  /\ UNCHANGED <<guest, csrs, faults>>

\* A command fails, a wait runs out, the process ends.
CutShort ==
  /\ pc # "idle" /\ faults < MaxFaults
  /\ Return("error") /\ faults' = faults + 1
  /\ UNCHANGED <<guest, csrs>>

-----------------------------------------------------------------------------
Wants(c) ==
  /\ certs[c] = "expired" /\ asked[c] = NoName
  /\ c = Server => certs[Client] = "valid"

Granted(c) == asked[c] \in DOMAIN csrs /\ csrs[asked[c]].status = "issued"

\* Requests that cluster-machine-approver or the controller manager will deal with.
Underway ==
  {n \in DOMAIN csrs :
     csrs[n].status = "approved" \/ (isPending(n) /\ csrs[n].signer = kubeletServingSignerName)}

\* A wait of the start runs out: minutes after the cluster has done all it will do.
RunOut ==
  /\ pc \in {"list", "waitClient", "waitServer"}
  /\ kubelet => Underway = {} /\ ~\E c \in Certs : Wants(c) \/ Granted(c)
  /\ pc = "list" => {n \in getCSRList(kubeletClientSignerName) : isPending(n)} = {}
  /\ pc = "waitClient" => certs[Client] = "expired"
  /\ pc = "waitServer" => expired[Server] /\ certs[Server] = "expired"
  /\ Return("timeout")
  /\ UNCHANGED <<guest, csrs, faults>>

\* The kubelet asks for a certificate that has expired, the serving one with its client one,
Ask ==
  /\ kubelet
  /\ \E c \in Certs, n \in Names \ DOMAIN csrs :
       /\ Wants(c)
       /\ asked' = [asked EXCEPT ![c] = n]
       /\ csrs' = [m \in DOMAIN csrs \cup {n} |->
                     IF m = n THEN [signer |-> SignerOf[c], status |-> "pending"] ELSE csrs[m]]
  /\ UNCHANGED <<start, vm, kubelet, certs, faults>>

\* and takes it when it has been issued.
Fetch ==
  /\ kubelet
  /\ \E c \in Certs :
       /\ Granted(c)
       /\ certs' = [certs EXCEPT ![c] = "valid"]
       /\ asked' = [asked EXCEPT ![c] = NoName]
  /\ UNCHANGED <<start, vm, kubelet, csrs, faults>>

\* cluster-machine-approver approves serving certificates.
AutoApprove ==
  /\ kubelet
  /\ \E n \in getCSRList(kubeletServingSignerName) :
       /\ isPending(n)
       /\ csrs' = [csrs EXCEPT ![n].status = "approved"]
  /\ UNCHANGED <<start, guest, faults>>

\* The controller manager issues what is approved.
Issue ==
  /\ kubelet
  /\ \E n \in DOMAIN csrs :
       /\ csrs[n].status = "approved"
       /\ csrs' = [csrs EXCEPT ![n].status = "issued"]
  /\ UNCHANGED <<start, guest, faults>>

\* The authentication operator asks too, of another signer.
AuthAsks ==
  /\ kubelet
  /\ getCSRList(authClientSignerName) = {}
  /\ \E n \in Names \ DOMAIN csrs :
       /\ Cardinality(Names \ DOMAIN csrs) > 2 /\ pc # "idle"
       /\ csrs' = [m \in DOMAIN csrs \cup {n} |->
                     IF m = n THEN [signer |-> authClientSignerName, status |-> "pending"] ELSE csrs[m]]
  /\ UNCHANGED <<start, guest, faults>>

\* Old requests are collected.
Collect ==
  /\ pc = "idle"
  /\ \E n \in DOMAIN csrs \ {asked[c] : c \in Certs} :
       csrs' = [m \in DOMAIN csrs \ {n} |-> csrs[m]]
  /\ UNCHANGED <<start, guest, faults>>

\* The instance is stopped; the kubelet may find its requests again or make new ones.
Stop ==
  /\ pc = "idle" /\ vm
  /\ vm' = FALSE /\ kubelet' = FALSE
  /\ asked' \in {asked, None}
  /\ UNCHANGED <<start, certs, csrs, faults>>

\* It stays off for a month: certificates expire.
Expire ==
  /\ pc = "idle" /\ ~vm
  /\ \E cs \in SUBSET Certs \ {{}} :
       certs' = [c \in Certs |-> IF c \in cs THEN "expired" ELSE certs[c]]
  /\ result' = "none"
  /\ UNCHANGED <<pc, expired, todo, vm, kubelet, asked, csrs, faults>>

Steps ==
  \/ CheckCertsValidity
  \/ StartKubelet
  \/ ListPending
  \/ approvePendingCSRs
  \/ ListAuth
  \/ deleteCSR
  \/ waitForCertRenewal
  \/ WaitForServer
  \/ RunOut

Cluster == Ask \/ Fetch \/ AutoApprove \/ Issue

Next == Begin \/ Steps \/ CutShort \/ Cluster \/ AuthAsks \/ Collect \/ Stop \/ Expire

Spec == Init /\ [][Next]_vars

\* The start goes on and the cluster does its part; nobody has to stop or start anything.
FairSpec ==
  /\ Spec
  /\ WF_vars(Steps)
  /\ WF_vars(Ask) /\ WF_vars(Fetch) /\ WF_vars(AutoApprove) /\ WF_vars(Issue)

-----------------------------------------------------------------------------
TypeOK ==
  /\ pc \in {"idle", "check", "kubelet", "list", "approve", "listAuth", "delete",
             "waitClient", "waitServer"}
  /\ expired \in [Certs -> BOOLEAN]
  /\ todo \subseteq DOMAIN csrs
  /\ result \in {"none", "ok", "error", "timeout"}
  /\ vm \in BOOLEAN /\ kubelet \in BOOLEAN
  /\ certs \in [Certs -> {"valid", "expired"}]
  /\ asked \in [Certs -> Names \cup {NoName}]
  /\ \A n \in DOMAIN csrs :
       n \in Names /\ csrs[n].status \in {"pending", "approved", "issued"}
  /\ faults \in 0..MaxFaults

(***************************************************************************)
(* After ApproveCSRAndWaitForCertsRenewal has returned nil, and as long as *)
(* the instance is not off long enough for them to expire again, both      *)
(* certificates of the kubelet are valid, however many starts before it    *)
(* were cut short.                                                         *)
(***************************************************************************)
SuccessMeansRenewed ==
  result = "ok" => \A c \in Certs : certs[c] = "valid"

(***************************************************************************)
(* approvePendingCSRs approves requests of kubeletClientSignerName and     *)
(* deleteCSR deletes those of authClientSignerName; a start leaves every   *)
(* other request alone.                                                    *)
(***************************************************************************)
TouchesOwnRequests ==
  [][(pc # "idle" /\ start # start') =>
       \A n \in DOMAIN csrs :
         \/ n \in DOMAIN csrs' /\ csrs'[n] = csrs[n]
         \/ n \in DOMAIN csrs' /\ csrs[n].signer = kubeletClientSignerName
         \/ n \notin DOMAIN csrs' /\ csrs[n].signer = authClientSignerName]_vars

(***************************************************************************)
(* As long as no start has been cut short, no wait runs out: the request   *)
(* approvePendingCSRs waits for comes, and the certificates are renewed in *)
(* the order in which the code waits for them.                             *)
(***************************************************************************)
UndisturbedStartSucceeds == faults = 0 => result # "timeout"

(***************************************************************************)
(* A start gets to its end, with whatever result: none of its loops goes   *)
(* on for ever while the cluster does its part.                            *)
(***************************************************************************)
StartEnds == pc # "idle" ~> pc = "idle"

(***************************************************************************)
(* "First, kubelet starts and tries to connect to API server. If its       *)
(* certificate is expired, it asks for a new one / Admin needs to approve  *)
(* it. The Kubernetes controller manager will then issue the cert, kubelet *)
(* will fetch it and use it." (cert_renewal.go): then no start waits in    *)
(* vain for a request or for a certificate.                                *)
(***************************************************************************)
NoWaitInVain == result # "timeout"

=============================================================================

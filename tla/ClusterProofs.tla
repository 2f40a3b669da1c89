--------------------------- MODULE ClusterProofs ---------------------------
(***************************************************************************)
(* What a start relies on and sees to while it makes the cluster the       *)
(* user's, for any settings, any overrides, and any number of starts cut   *)
(* short and of edits by users.  WaitForClusterStable returns nil exactly  *)
(* after the required number of consecutive matches, for every number of   *)
(* rounds and matches and every behaviour of the operators.  The renewal   *)
(* of certificates leaves the kubelet with valid ones, whatever requests   *)
(* there are and however many starts were cut short.                       *)
(***************************************************************************)
EXTENDS ClusterStart, ClusterWaits, TLAPS

\* What the loop's own variables are.
Locals ==
  /\ pc \in {"called", "list", "wait", "returned"}
  /\ count \in 0..numConsecutive
  /\ polls \in Seq(BOOLEAN)
  /\ result \in {"none", "nil", "cancelled", "unstable"}
  /\ pc = "returned" <=> result # "none"
  /\ result = "nil" <=> count = numConsecutive

\* count is the length of the run of matches that ends with the last round.
Counted ==
  /\ count <= Len(polls)
  /\ \A j \in 1..Len(polls) : j > Len(polls) - count => polls[j]
  /\ count < Len(polls) => ~polls[Len(polls) - count]

IInv == Locals /\ Counted /\ NilMeansConsecutive

(***************************************************************************)
(* The invariant holds when WaitForClusterStable is called.                *)
(***************************************************************************)
LEMMA InitIInv == Init => IInv
BY StableAssumption DEF Init, IInv, Locals, Counted, NilMeansConsecutive, Match

(***************************************************************************)
(* A round of List keeps it: the count goes up with a match, and starts    *)
(* from zero after anything else, a failed request included.               *)
(***************************************************************************)
LEMMA ListIInv == IInv /\ List => IInv'
<1> SUFFICES ASSUME IInv, List PROVE IInv'
  OBVIOUS
<1> USE StableAssumption DEF IInv
<1>1. CASE Len(polls) = retryCount
  BY <1>1, Zenon DEF List, Return, Locals, Counted, NilMeansConsecutive, Match
<1>2. CASE Len(polls) # retryCount
  <2> PICK answer \in Answers :
        /\ count' = Count(answer)
        /\ polls' = Append(polls, answer = "ready")
        /\ IF count' = numConsecutive THEN Return("nil") ELSE pc' = "wait" /\ UNCHANGED result
    BY <1>2 DEF List
  <2> DEFINE ready == answer = "ready"
  <2>1. /\ result = "none" /\ count < numConsecutive /\ pc = "list"
        /\ polls' \in Seq(BOOLEAN) /\ Len(polls') = Len(polls) + 1
        /\ polls'[Len(polls) + 1] = ready
        /\ \A j \in 1..Len(polls) : polls'[j] = polls[j]
        /\ count' = (IF ready THEN count + 1 ELSE 0)
    BY DEF List, Locals, Count
  <2> HIDE DEF ready
  <2>2. Locals'
    BY <2>1 DEF Locals, Return
  <2>3. Counted'
    BY <2>1, <2>2 DEF Counted, Locals
  <2>4. NilMeansConsecutive'
    <3>1. result' = "nil" =>
            /\ Len(polls') >= numConsecutive
            /\ \A k \in 0..(numConsecutive - 1) : polls'[Len(polls') - numConsecutive + 1 + k]
      BY <2>1, <2>2, <2>3, SMT, SMTT(30) DEF Counted, Locals
    <3>2. ASSUME NEW i \in 1..Len(polls'), Match(i)'
          PROVE  i = Len(polls') - numConsecutive + 1
      <4>1. /\ i + numConsecutive - 1 <= Len(polls')
            /\ \A k \in 0..(numConsecutive - 1) : polls'[i + k]
        BY <3>2, Zenon DEF Match
      <4>2. CASE i + numConsecutive - 1 = Len(polls')
        BY <4>2, <2>1 DEF Locals
      <4>3. CASE i + numConsecutive - 1 # Len(polls')
        <5>1. i \in 1..Len(polls) /\ i + numConsecutive - 1 <= Len(polls)
          <6>1. Len(polls) \in Nat /\ numConsecutive \in Nat \ {0} /\ Len(polls') = Len(polls) + 1
            BY <2>1 DEF Locals
          <6> QED BY <4>1, <4>3, <6>1
        <5>2. \A k \in 0..(numConsecutive - 1) : polls[i + k]
          BY <4>1, <5>1, <2>1 DEF Locals
        <5> QED BY <5>1, <5>2, <2>1, Zenon DEF NilMeansConsecutive, Match
      <4> QED BY <4>2, <4>3
    <3>3. ASSUME NEW i \in 1..Len(polls'), Match(i)'
          PROVE  result' = "nil"
      <4>1. /\ i = Len(polls') - numConsecutive + 1
            /\ \A k \in 0..(numConsecutive - 1) : polls'[i + k]
        BY <3>2, <3>3, Zenon DEF Match
      <4>2. /\ count' \in Nat /\ Len(polls') \in Nat /\ numConsecutive \in Nat
            /\ count' <= numConsecutive /\ i >= 1
            /\ count' < Len(polls') => ~polls'[Len(polls') - count']
        <5>1. Len(polls') \in Nat
          BY <2>1
        <5>2. count' \in 0..numConsecutive
          BY <2>2 DEF Locals
        <5> QED BY <5>1, <5>2, <2>3 DEF Counted
      <4>3. CASE count' < numConsecutive
        <5> DEFINE k == numConsecutive - 1 - count'
        <5>1. k \in 0..(numConsecutive - 1) /\ i + k = Len(polls') - count' /\ count' < Len(polls')
          BY <4>1, <4>2, <4>3
        <5>2. polls'[i + k]
          BY <4>1, <5>1, Zenon
        <5> QED BY <4>2, <5>1, <5>2
      <4>4. CASE count' = numConsecutive
        BY <4>4, <2>2 DEF Locals
      <4> QED BY <4>2, <4>3, <4>4
    <3>4. result' = "nil" =>
            Len(polls') >= numConsecutive /\ Match(Len(polls) - numConsecutive + 1)'
      <4>1. Len(polls') \in Nat /\ numConsecutive \in Nat
        BY <2>1
      <4>2. (Len(polls') - numConsecutive + 1) + numConsecutive - 1 <= Len(polls')
        BY <4>1
      <4> QED BY <3>1, <4>2, Zenon DEF Match
    <3>5. \A i \in 1..Len(polls') :
            Match(i)' => result' = "nil" /\ i = Len(polls') - numConsecutive + 1
      BY <3>2, <3>3
    <3> QED BY <3>4, <3>5 DEF NilMeansConsecutive
  <2> QED BY <2>2, <2>3, <2>4
<1> QED BY <1>1, <1>2

(***************************************************************************)
(* The other steps leave the rounds alone.                                 *)
(***************************************************************************)
LEMMA NextIInv == IInv /\ [Next]_vars => IInv'
<1> SUFFICES ASSUME IInv, [Next]_vars PROVE IInv'
  OBVIOUS
<1> USE StableAssumption DEF IInv
<1>1. CASE List
  BY <1>1, ListIInv
<1>2. CASE Call \/ Wait
  BY <1>2, Zenon DEF Call, Wait, Return, Locals, Counted, NilMeansConsecutive, Match
<1>3. CASE Cancel \/ Change \/ UNCHANGED vars
  BY <1>3, Zenon DEF Cancel, Change, vars, Locals, Counted, NilMeansConsecutive, Match
<1> QED BY <1>1, <1>2, <1>3 DEF Next

(***************************************************************************)
(* WaitForClusterStable returns nil at, and only at, the first run of      *)
(* numConsecutive rounds that all found the operators ready.               *)
(***************************************************************************)
THEOREM StableNilMeansConsecutive == Spec => []NilMeansConsecutive
<1>1. IInv => NilMeansConsecutive
  BY DEF IInv
<1> QED BY <1>1, InitIInv, NextIInv, PTL DEF Spec

-----------------------------------------------------------------------------
(***************************************************************************)
(* The renewal of certificates.                                            *)
(***************************************************************************)
Signers == {Renewal!kubeletClientSignerName, Renewal!authClientSignerName, Renewal!kubeletServingSignerName}

\* What the requests are, and what a start has listed of them.
Requests ==
  /\ csrs \in [DOMAIN csrs -> [signer : Signers, status : {"pending", "approved", "issued"}]]
  /\ step = "idle" => todo = {}
  /\ step = "approve" => \A n \in todo : csrs[n].signer = Renewal!kubeletClientSignerName /\ Renewal!isPending(n)
  /\ step = "delete" => \A n \in todo : csrs[n].signer = Renewal!authClientSignerName

\* What a start has found out about the certificates is so for as long as it runs.
ChecksFound ==
  /\ step # "idle" => vm
  /\ kubelet => vm
  /\ step \notin {"idle", "check", "kubelet"} => kubelet
  /\ step \notin {"idle", "check"} => \A c \in Renewal!Certs : ~expired[c] => certs[c] = "valid"
  /\ step \in {"list", "approve", "listAuth", "delete", "waitClient"} => expired["client"]
  /\ step = "waitServer" => certs["client"] = "valid"

\* A request the kubelet waits for is there, and one that is not issued is waited for.
Waited(c) ==
  /\ asked[c] # Renewal!NoName =>
       /\ certs[c] = "expired"
       /\ asked[c] \in DOMAIN csrs /\ csrs[asked[c]].signer = Renewal!SignerOf[c]
  /\ \A n \in DOMAIN csrs :
       (csrs[n].signer = Renewal!SignerOf[c] /\ csrs[n].status # "issued") => n = asked[c]

\* Where the request for the client certificate is when no start has been cut short.
ClientRequest ==
  /\ step = "idle" => \A c \in Renewal!Certs : asked[c] = Renewal!NoName /\ (vm => certs[c] = "valid")
  /\ step \in {"check", "kubelet", "list"} /\ asked["client"] # Renewal!NoName =>
       Renewal!isPending(asked["client"])
  /\ step = "list" \/ (step = "kubelet" /\ expired["client"]) => certs["client"] = "expired"
  /\ step \in {"approve", "listAuth", "delete", "waitClient"} =>
       \/ certs["client"] = "valid"
       \/ /\ asked["client"] # Renewal!NoName
          /\ Renewal!isPending(asked["client"]) => step = "approve" /\ asked["client"] \in todo

Undisturbed == faults = 0 => ClientRequest /\ \A c \in Renewal!Certs : Waited(c)

RenewalInv ==
  /\ Renewal!TypeOK /\ Requests /\ ChecksFound /\ Undisturbed
  /\ Renewal!SuccessMeansRenewed /\ Renewal!UndisturbedStartSucceeds

(***************************************************************************)
(* It holds before the first start.                                        *)
(***************************************************************************)
LEMMA RenewalInit == Renewal!Init => RenewalInv
<1> SUFFICES ASSUME Renewal!Init PROVE RenewalInv
  OBVIOUS
<1> USE RenewalAssumption DEF Renewal!Init, Renewal!Certs, Renewal!Client, Renewal!Server,
        Renewal!None, Renewal!NotExpired, Renewal!NoName
<1>1. DOMAIN csrs = {}
  OBVIOUS
<1>2. Renewal!TypeOK
  <2>1. todo \subseteq DOMAIN csrs /\ \A n \in DOMAIN csrs : n \in Names /\ csrs[n].status = "pending"
    BY <1>1
  <2>2. faults \in 0..MaxFaults
    OBVIOUS
  <2>3. /\ expired \in [{"client", "server"} -> BOOLEAN]
        /\ asked \in [{"client", "server"} -> Names \cup {"none"}]
    OBVIOUS
  <2> QED BY <2>1, <2>2, <2>3, Zenon DEF Renewal!TypeOK
<1>3. Requests
  BY <1>1 DEF Requests
<1>4. ChecksFound /\ Undisturbed
  BY <1>1 DEF ChecksFound, Undisturbed, ClientRequest, Waited
<1> QED
  BY <1>2, <1>3, <1>4 DEF RenewalInv, Renewal!SuccessMeansRenewed, Renewal!UndisturbedStartSucceeds

(***************************************************************************)
(* The requests stay what they are, and a start what it has listed: only   *)
(* old requests are collected, and only while no start runs.               *)
(***************************************************************************)
LEMMA RenewalTypes == RenewalInv /\ [Renewal!Next]_(Renewal!vars) => (Renewal!TypeOK /\ Requests)'
<1> SUFFICES ASSUME RenewalInv, [Renewal!Next]_(Renewal!vars) PROVE (Renewal!TypeOK /\ Requests)'
  OBVIOUS
<1> USE RenewalAssumption DEF Renewal!Certs, Renewal!Client, Renewal!Server, Renewal!NoName,
        RenewalInv, Renewal!TypeOK, Requests, Renewal!guest, Renewal!start, Signers, Renewal!isPending,
        Renewal!Go, Renewal!Return
<1>1. CASE Renewal!Begin \/ Renewal!CheckCertsValidity \/ Renewal!StartKubelet
  BY <1>1, Zenon DEF Renewal!Begin, Renewal!CheckCertsValidity, Renewal!StartKubelet
<1>2. CASE Renewal!ListPending \/ Renewal!ListAuth
  <2>1. \/ /\ step' = "approve"
           /\ todo' = {n \in Renewal!getCSRList(Renewal!kubeletClientSignerName) : Renewal!isPending(n)}
        \/ step' = "delete" /\ todo' \subseteq Renewal!getCSRList(Renewal!authClientSignerName)
    BY <1>2 DEF Renewal!ListPending, Renewal!ListAuth
  <2>2. UNCHANGED <<expired, verdict, vm, kubelet, certs, asked, csrs, faults>>
    BY <1>2 DEF Renewal!ListPending, Renewal!ListAuth
  <2> QED BY <2>1, <2>2 DEF Renewal!getCSRList
<1>3. CASE Renewal!approvePendingCSRs
  BY <1>3 DEF Renewal!approvePendingCSRs
<1>4. CASE Renewal!deleteCSR
  <2>1. CASE todo = {}
    BY <1>4, <2>1 DEF Renewal!deleteCSR
  <2>2. CASE todo # {}
    <3>1. PICK n \in todo : csrs' = [m \in DOMAIN csrs \ {n} |-> csrs[m]] /\ todo' = todo \ {n}
      BY <1>4, <2>2, Zenon DEF Renewal!deleteCSR
    <3>2. DOMAIN csrs' = DOMAIN csrs \ {n} /\ \A m \in DOMAIN csrs' : csrs'[m] = csrs[m]
      BY <3>1
    <3>3. step = "delete" /\ UNCHANGED <<step, expired, verdict, vm, kubelet, certs, asked, faults>>
      BY <1>4, <2>2, Zenon DEF Renewal!deleteCSR
    <3> QED BY <3>1, <3>2, <3>3
  <2> QED BY <2>1, <2>2
<1>5. CASE Renewal!waitForCertRenewal \/ Renewal!WaitForServer \/ Renewal!RunOut \/ Renewal!CutShort
  BY <1>5 DEF Renewal!waitForCertRenewal, Renewal!WaitForServer, Renewal!RunOut, Renewal!CutShort
<1>6. CASE Renewal!Ask
  BY <1>6 DEF Renewal!Ask, Renewal!SignerOf
<1>7. CASE Renewal!Fetch
  BY <1>7 DEF Renewal!Fetch
<1>8. CASE Renewal!AutoApprove \/ Renewal!Issue
  <2>1. PICK n \in DOMAIN csrs, to \in {"approved", "issued"} :
          /\ csrs[n].signer = Renewal!kubeletServingSignerName \/ ~Renewal!isPending(n)
          /\ csrs' = [csrs EXCEPT ![n].status = to]
    BY <1>8 DEF Renewal!AutoApprove, Renewal!Issue, Renewal!getCSRList
  <2>2. UNCHANGED <<step, expired, todo, verdict, vm, kubelet, certs, asked, faults>>
    BY <1>8 DEF Renewal!AutoApprove, Renewal!Issue
  <2>3. step = "approve" => n \notin todo
    BY <2>1 DEF Renewal!kubeletServingSignerName, Renewal!kubeletClientSignerName
  <2> QED BY <2>1, <2>2, <2>3
<1>9. CASE Renewal!AuthAsks
  BY <1>9 DEF Renewal!AuthAsks
<1>10. CASE Renewal!Collect
  <2>1. PICK n \in DOMAIN csrs : csrs' = [m \in DOMAIN csrs \ {n} |-> csrs[m]]
    BY <1>10 DEF Renewal!Collect
  <2>2. DOMAIN csrs' = DOMAIN csrs \ {n} /\ \A m \in DOMAIN csrs' : csrs'[m] = csrs[m]
    BY <2>1
  <2> QED BY <1>10, <2>1, <2>2 DEF Renewal!Collect
<1>11. CASE Renewal!Stop
  BY <1>11, Zenon, ZenonT(60) DEF Renewal!Stop, Renewal!None
<1>12. CASE Renewal!Expire
  BY <1>12 DEF Renewal!Expire
<1>13. CASE UNCHANGED Renewal!vars
  BY <1>13 DEF Renewal!vars
<1> QED
  BY <1>1, <1>2, <1>3, <1>4, <1>5, <1>6, <1>7, <1>8, <1>9, <1>10, <1>11, <1>12, <1>13, Zenon
     DEF Renewal!Next, Renewal!Steps, Renewal!Cluster

(***************************************************************************)
(* A certificate expires only while the instance is off, so what           *)
(* CheckCertsValidity has found valid stays valid, and the start that ends *)
(* with nil has waited for the rest.                                       *)
(***************************************************************************)
LEMMA RenewalFound ==
  RenewalInv /\ [Renewal!Next]_(Renewal!vars) => (ChecksFound /\ Renewal!SuccessMeansRenewed)'
<1> SUFFICES ASSUME RenewalInv, [Renewal!Next]_(Renewal!vars)
             PROVE  (ChecksFound /\ Renewal!SuccessMeansRenewed)'
  OBVIOUS
<1> USE DEF RenewalInv, Renewal!TypeOK, ChecksFound, Renewal!SuccessMeansRenewed, Renewal!Certs,
        Renewal!Client, Renewal!Server, Renewal!guest, Renewal!start, Renewal!Go, Renewal!Return
<1>1. CASE Renewal!Begin \/ Renewal!CheckCertsValidity \/ Renewal!StartKubelet
  BY <1>1 DEF Renewal!Begin, Renewal!CheckCertsValidity, Renewal!StartKubelet
<1>2. CASE Renewal!ListPending \/ Renewal!ListAuth \/ Renewal!approvePendingCSRs \/ Renewal!deleteCSR
  BY <1>2, Zenon DEF Renewal!ListPending, Renewal!ListAuth, Renewal!approvePendingCSRs, Renewal!deleteCSR
<1>3. CASE Renewal!waitForCertRenewal \/ Renewal!WaitForServer
  BY <1>3 DEF Renewal!waitForCertRenewal, Renewal!WaitForServer
<1>4. CASE Renewal!RunOut \/ Renewal!CutShort
  BY <1>4 DEF Renewal!RunOut, Renewal!CutShort
<1>5. CASE Renewal!Ask \/ Renewal!AutoApprove \/ Renewal!Issue \/ Renewal!AuthAsks \/ Renewal!Collect
  BY <1>5 DEF Renewal!Ask, Renewal!AutoApprove, Renewal!Issue, Renewal!AuthAsks, Renewal!Collect
<1>6. CASE Renewal!Fetch
  BY <1>6 DEF Renewal!Fetch
<1>7. CASE Renewal!Stop \/ Renewal!Expire
  BY <1>7 DEF Renewal!Stop, Renewal!Expire
<1>8. CASE UNCHANGED Renewal!vars
  BY <1>8 DEF Renewal!vars
<1> QED
  BY <1>1, <1>2, <1>3, <1>4, <1>5, <1>6, <1>7, <1>8
     DEF Renewal!Next, Renewal!Steps, Renewal!Cluster

(***************************************************************************)
(* Without a start that was cut short, the requests left from earlier      *)
(* starts are issued ones, so the request approvePendingCSRs finds is the  *)
(* one the kubelet waits for.                                              *)
(***************************************************************************)
LEMMA RenewalUndisturbed ==
  RenewalInv /\ [Renewal!Next]_(Renewal!vars) => (Undisturbed /\ Renewal!UndisturbedStartSucceeds)'
<1> SUFFICES ASSUME RenewalInv, [Renewal!Next]_(Renewal!vars), faults' = 0
             PROVE  (/\ ClientRequest /\ \A c \in Renewal!Certs : Waited(c)
                     /\ verdict # "timeout")'
  BY DEF Undisturbed, Renewal!UndisturbedStartSucceeds
<1> USE RenewalAssumption DEF Renewal!Certs, Renewal!Client, Renewal!Server, Renewal!guest,
        Renewal!start, Renewal!Go, Renewal!Return, ClientRequest, Waited, Renewal!isPending
<1>0. /\ Renewal!TypeOK /\ Requests /\ ChecksFound
      /\ Renewal!TypeOK' /\ Requests' /\ ChecksFound' /\ Renewal!SuccessMeansRenewed'
  BY RenewalTypes, RenewalFound DEF RenewalInv
<1> DEFINE k == Renewal!kubeletClientSignerName
           a == Renewal!authClientSignerName
           v == Renewal!kubeletServingSignerName
<1>00. k # a /\ a # v /\ k # v /\ Renewal!SignerOf["client"] = k /\ Renewal!SignerOf["server"] = v
  BY DEF Renewal!SignerOf, Renewal!kubeletClientSignerName, Renewal!authClientSignerName,
         Renewal!kubeletServingSignerName
<1> HIDE DEF k, a, v
<1>1. CASE Renewal!CutShort
  BY <1>0, <1>1 DEF Renewal!CutShort, Renewal!TypeOK
<1> SUFFICES ASSUME faults = 0, ~Renewal!CutShort
             PROVE  (/\ ClientRequest /\ \A c \in Renewal!Certs : Waited(c)
                     /\ verdict # "timeout")'
  <2>1. Renewal!CutShort \/ UNCHANGED faults
    BY DEF Renewal!Next, Renewal!Steps, Renewal!Cluster, Renewal!Begin, Renewal!CheckCertsValidity,
           Renewal!StartKubelet, Renewal!ListPending, Renewal!ListAuth, Renewal!approvePendingCSRs,
           Renewal!deleteCSR, Renewal!waitForCertRenewal, Renewal!WaitForServer, Renewal!RunOut,
           Renewal!Ask, Renewal!Fetch, Renewal!AutoApprove, Renewal!Issue, Renewal!AuthAsks,
           Renewal!Collect, Renewal!Stop, Renewal!Expire, Renewal!vars
  <2> QED BY <1>1, <2>1, Zenon, ZenonT(60)
<1>2. ClientRequest /\ verdict # "timeout" /\ Waited("client") /\ Waited("server")
  BY DEF RenewalInv, Undisturbed, Renewal!UndisturbedStartSucceeds
<1>3. CASE Renewal!Begin \/ Renewal!CheckCertsValidity
  BY <1>0, <1>2, <1>3, Zenon DEF Renewal!Begin, Renewal!CheckCertsValidity
<1>4. CASE Renewal!StartKubelet
  BY <1>0, <1>2, <1>4 DEF Renewal!StartKubelet
<1>5. CASE Renewal!ListPending
  <2>1. /\ todo' = {n \in DOMAIN csrs : csrs[n].signer = k /\ csrs[n].status = "pending"}
        /\ todo' # {} /\ step' = "approve"
        /\ UNCHANGED <<expired, verdict, vm, kubelet, certs, asked, csrs, faults>>
    BY <1>5 DEF Renewal!ListPending, Renewal!getCSRList, k
  <2>2. todo' = {asked["client"]}
    BY <1>00, <1>2, <2>1
  <2> QED BY <1>2, <2>1, <2>2, <1>0, SMT, SMTT(60) DEF Renewal!TypeOK
<1>6. CASE Renewal!approvePendingCSRs
  <2>1. CASE todo = {}
    BY <1>2, <1>6, <2>1 DEF Renewal!approvePendingCSRs
  <2>2. CASE todo # {}
    <3>1. PICK n \in todo : csrs' = [csrs EXCEPT ![n].status = "approved"] /\ todo' = todo \ {n}
      BY <1>6, <2>2 DEF Renewal!approvePendingCSRs
    <3>2. /\ step = "approve"
          /\ UNCHANGED <<step, expired, verdict, vm, kubelet, certs, asked, faults>>
      BY <1>6, <2>2 DEF Renewal!approvePendingCSRs
    <3>3. /\ n \in DOMAIN csrs /\ DOMAIN csrs' = DOMAIN csrs /\ csrs[n].signer = k
          /\ csrs'[n].status = "approved" /\ csrs'[n].signer = csrs[n].signer
          /\ \A m \in DOMAIN csrs : m # n => csrs'[m] = csrs[m]
      BY <1>0, <3>1, <3>2 DEF Renewal!TypeOK, Requests, k
    <3>4. n = asked["client"]
      BY <1>0, <1>00, <1>2, <3>2, <3>3 DEF Requests
    <3> QED BY <1>00, <1>2, <3>1, <3>2, <3>3, <3>4
  <2> QED BY <2>1, <2>2
<1>7. CASE Renewal!ListAuth \/ Renewal!waitForCertRenewal
  BY <1>0, <1>2, <1>7 DEF Renewal!ListAuth, Renewal!waitForCertRenewal
<1>8. CASE Renewal!deleteCSR
  <2>1. CASE todo = {}
    BY <1>2, <1>8, <2>1 DEF Renewal!deleteCSR
  <2>2. CASE todo # {}
    <3>1. PICK n \in todo : csrs' = [m \in DOMAIN csrs \ {n} |-> csrs[m]] /\ todo' = todo \ {n}
      BY <1>8, <2>2, Zenon DEF Renewal!deleteCSR
    <3>2. /\ step = "delete" /\ n \in DOMAIN csrs /\ csrs[n].signer = a
          /\ UNCHANGED <<step, expired, verdict, vm, kubelet, certs, asked, faults>>
      BY <1>0, <1>8, <2>2, Zenon DEF Renewal!deleteCSR, Requests, Renewal!TypeOK, a
    <3>3. DOMAIN csrs' = DOMAIN csrs \ {n} /\ \A m \in DOMAIN csrs' : csrs'[m] = csrs[m]
      BY <3>1
    <3> QED BY <1>00, <1>2, <3>2, <3>3
  <2> QED BY <2>1, <2>2
<1>9. CASE Renewal!WaitForServer
  BY <1>0, <1>2, <1>9, SMT, SMTT(60) DEF Renewal!WaitForServer, Renewal!SuccessMeansRenewed, Renewal!TypeOK
<1>10. CASE Renewal!RunOut
  BY <1>0, <1>2, <1>10, SMT, SMTT(60) DEF Renewal!RunOut, ChecksFound, Renewal!Underway, Renewal!Wants,
       Renewal!Granted, Renewal!getCSRList, Requests, Renewal!TypeOK, Renewal!SignerOf
<1>11. CASE Renewal!Ask
  <2>1. PICK c \in {"client", "server"}, n \in Names \ DOMAIN csrs :
          /\ Renewal!Wants(c)
          /\ asked' = [asked EXCEPT ![c] = n]
          /\ csrs' = [m \in DOMAIN csrs \cup {n} |->
                        IF m = n THEN [signer |-> Renewal!SignerOf[c], status |-> "pending"] ELSE csrs[m]]
    BY <1>11, Zenon DEF Renewal!Ask
  <2>2. /\ DOMAIN csrs' = DOMAIN csrs \cup {n}
        /\ csrs'[n] = [signer |-> Renewal!SignerOf[c], status |-> "pending"]
        /\ \A m \in DOMAIN csrs : csrs'[m] = csrs[m]
    BY <2>1
  <2>3. /\ kubelet /\ UNCHANGED <<step, expired, todo, verdict, vm, kubelet, certs, faults>>
        /\ certs[c] = "expired" /\ asked[c] = Renewal!NoName
        /\ c = "server" => certs["client"] = "valid"
    BY <1>11, <2>1 DEF Renewal!Ask, Renewal!Wants
  <2>4. /\ asked'[c] = n /\ n # Renewal!NoName
        /\ \A d \in {"client", "server"} : d # c => asked'[d] = asked[d]
    BY <1>0, <2>1 DEF Renewal!TypeOK, Renewal!NoName
  <2>5. \A d \in {"client", "server"} : Waited(d)'
    <3>1. Waited(c)'
      <4>1. Waited(c) /\ Renewal!NoName \notin DOMAIN csrs
        BY <1>0, <1>2, Zenon DEF Renewal!TypeOK
      <4> QED BY <2>2, <2>3, <2>4, <4>1
    <3>2. ASSUME NEW d \in {"client", "server"}, d # c PROVE Waited(d)'
      <4>1. Waited(d) /\ Renewal!SignerOf[d] # Renewal!SignerOf[c] /\ asked'[d] = asked[d]
        BY <1>00, <1>2, <2>4, <3>2
      <4> QED BY <2>2, <2>3, <4>1, SMT, SMTT(60)
    <3> QED BY <3>1, <3>2
  <2>6. ClientRequest'
    BY <1>0, <1>2, <2>2, <2>3, <2>4, SMT, SMTT(60) DEF ChecksFound
  <2> QED BY <1>2, <2>3, <2>5, <2>6, Zenon
<1>12. CASE Renewal!Fetch
  BY <1>0, <1>2, <1>12, SMT, SMTT(60) DEF Renewal!Fetch, Renewal!Granted, Renewal!TypeOK, ChecksFound
<1>13. CASE Renewal!AutoApprove
  <2>1. PICK n \in DOMAIN csrs : /\ csrs[n].signer = v /\ csrs[n].status = "pending"
                                /\ csrs' = [csrs EXCEPT ![n].status = "approved"]
    BY <1>13, Zenon DEF Renewal!AutoApprove, Renewal!getCSRList, v
  <2>2. /\ DOMAIN csrs' = DOMAIN csrs
        /\ csrs'[n].status = "approved" /\ csrs'[n].signer = v
        /\ \A m \in DOMAIN csrs : m # n => csrs'[m] = csrs[m]
    BY <1>0, <2>1 DEF Requests
  <2>3. UNCHANGED <<step, expired, todo, verdict, vm, kubelet, certs, asked, faults>>
    BY <1>13 DEF Renewal!AutoApprove
  <2> QED BY <1>00, <1>2, <2>1, <2>2, <2>3
<1>14. CASE Renewal!Issue
  BY <1>0, <1>2, <1>14 DEF Renewal!Issue, Renewal!TypeOK, Requests
<1>15. CASE Renewal!AuthAsks
  <2>1. PICK n \in Names \ DOMAIN csrs :
          csrs' = [m \in DOMAIN csrs \cup {n} |->
                     IF m = n THEN [signer |-> a, status |-> "pending"] ELSE csrs[m]]
    BY <1>15 DEF Renewal!AuthAsks, a
  <2>2. /\ DOMAIN csrs' = DOMAIN csrs \cup {n} /\ csrs'[n].signer = a
        /\ \A m \in DOMAIN csrs : csrs'[m] = csrs[m]
    BY <2>1, Zenon
  <2>3. UNCHANGED <<step, expired, todo, verdict, vm, kubelet, certs, asked, faults>>
    BY <1>15, Zenon DEF Renewal!AuthAsks
  <2> QED BY <1>00, <1>2, <2>2, <2>3, Zenon, ZenonT(60)
<1>16. CASE Renewal!Collect
  BY <1>0, <1>2, <1>16, SMT, SMTT(60) DEF Renewal!Collect
<1>17. CASE Renewal!Stop \/ Renewal!Expire
  BY <1>0, <1>2, <1>17, SMT, SMTT(60) DEF Renewal!Stop, Renewal!Expire, Renewal!None
<1>18. CASE UNCHANGED Renewal!vars
  BY <1>2, <1>18 DEF Renewal!vars
<1> QED
  BY <1>3, <1>4, <1>5, <1>6, <1>7, <1>8, <1>9, <1>10, <1>11, <1>12, <1>13, <1>14, <1>15, <1>16,
     <1>17, <1>18, Zenon DEF Renewal!Next, Renewal!Steps, Renewal!Cluster

(***************************************************************************)
(* The invariant of the renewal.                                           *)
(***************************************************************************)
THEOREM RenewalInvariant == Renewal!Spec => []RenewalInv
<1>1. RenewalInv /\ [Renewal!Next]_(Renewal!vars) => RenewalInv'
  BY RenewalTypes, RenewalFound, RenewalUndisturbed DEF RenewalInv
<1> QED BY <1>1, RenewalInit, PTL DEF Renewal!Spec

(***************************************************************************)
(* approvePendingCSRs approves requests of kubeletClientSignerName and     *)
(* deleteCSR deletes those of authClientSignerName; a start leaves every   *)
(* other request alone.                                                    *)
(***************************************************************************)
THEOREM RenewalTouchesOwnRequests == Renewal!Spec => Renewal!TouchesOwnRequests
<1> DEFINE Own ==
      (step # "idle" /\ Renewal!start # Renewal!start') =>
        \A n \in DOMAIN csrs :
          \/ n \in DOMAIN csrs' /\ csrs'[n] = csrs[n]
          \/ n \in DOMAIN csrs' /\ csrs[n].signer = Renewal!kubeletClientSignerName
          \/ n \notin DOMAIN csrs' /\ csrs[n].signer = Renewal!authClientSignerName
<1>1. RenewalInv /\ [Renewal!Next]_(Renewal!vars) => [Own]_(Renewal!vars)
  <2> SUFFICES ASSUME RenewalInv, Renewal!Next, step # "idle", Renewal!start # Renewal!start'
               PROVE  Own
    OBVIOUS
  <2>1. CASE Renewal!approvePendingCSRs
    BY <2>1 DEF Renewal!approvePendingCSRs, RenewalInv, Requests, Renewal!TypeOK
  <2>2. CASE Renewal!deleteCSR
    <3>1. CASE todo = {}
      BY <2>2, <3>1 DEF Renewal!deleteCSR
    <3>2. CASE todo # {}
      <4>1. PICK n \in todo : csrs' = [m \in DOMAIN csrs \ {n} |-> csrs[m]]
        BY <2>2, <3>2, Zenon DEF Renewal!deleteCSR
      <4>2. csrs[n].signer = Renewal!authClientSignerName
        BY <2>2 DEF Renewal!deleteCSR, RenewalInv, Requests
      <4>3. DOMAIN csrs' = DOMAIN csrs \ {n} /\ \A m \in DOMAIN csrs' : csrs'[m] = csrs[m]
        BY <4>1
      <4> QED BY <4>2, <4>3
    <3> QED BY <3>1, <3>2
  <2>3. CASE \/ Renewal!Begin \/ Renewal!CheckCertsValidity \/ Renewal!StartKubelet \/ Renewal!ListPending
             \/ Renewal!ListAuth \/ Renewal!waitForCertRenewal \/ Renewal!WaitForServer
             \/ Renewal!RunOut \/ Renewal!CutShort \/ Renewal!Expire
    <3>1. UNCHANGED csrs
      BY <2>3 DEF Renewal!Begin, Renewal!CheckCertsValidity, Renewal!StartKubelet, Renewal!ListPending,
           Renewal!ListAuth, Renewal!waitForCertRenewal, Renewal!WaitForServer, Renewal!RunOut,
           Renewal!CutShort, Renewal!Expire
    <3> QED BY <3>1
  <2>4. CASE Renewal!Cluster \/ Renewal!AuthAsks \/ Renewal!Collect \/ Renewal!Stop
    <3>1. UNCHANGED Renewal!start
      BY <2>4 DEF Renewal!Cluster, Renewal!Ask, Renewal!Fetch, Renewal!AutoApprove, Renewal!Issue,
           Renewal!AuthAsks, Renewal!Collect, Renewal!Stop
    <3> QED BY <3>1
  <2> QED BY <2>1, <2>2, <2>3, <2>4 DEF Renewal!Next, Renewal!Steps
<1> QED BY <1>1, RenewalInvariant, PTL DEF Renewal!Spec, Renewal!TouchesOwnRequests

-----------------------------------------------------------------------------
(***************************************************************************)
(* The operators: types, and what it takes to find them ready.             *)
(***************************************************************************)
LEMMA StableTypes == IInv /\ TypeOK /\ [Next]_vars => TypeOK'
<1> SUFFICES ASSUME IInv, TypeOK, [Next]_vars PROVE TypeOK'
  OBVIOUS
<1> USE StableAssumption DEF TypeOK
<1>1. CASE Call \/ Wait \/ Cancel
  BY <1>1, Zenon DEF Call, Wait, Cancel, Return
<1>2. CASE List
  <2>1. IInv'
    BY NextIInv
  <2>2. Len(polls') <= retryCount /\ reports' = reports /\ done' = done
    BY <1>2 DEF List, IInv, Locals
  <2> QED BY <2>1, <2>2 DEF IInv, Locals
<1>3. CASE Change
  <2>1. PICK o \in Operators :
          \/ \E c \in Conditions :
               reports' = [p \in DOMAIN reports \cup {o} |-> IF p = o THEN c ELSE reports[p]]
          \/ reports' = [p \in DOMAIN reports \ {o} |-> reports[p]]
    BY <1>3, Zenon DEF Change
  <2>2. PICK S \in SUBSET Operators : reports \in [S -> Conditions]
    BY DEF Reports
  <2>3. \/ reports' \in [S \cup {o} -> Conditions]
        \/ reports' \in [S \ {o} -> Conditions]
    BY <2>1, <2>2, Zenon
  <2>4. S \cup {o} \in SUBSET Operators /\ S \ {o} \in SUBSET Operators
    BY <2>2
  <2>5. reports' \in Reports
    BY <2>3, <2>4 DEF Reports
  <2> QED BY <1>3, <2>5 DEF Change
<1>4. CASE UNCHANGED vars
  BY <1>4 DEF vars
<1> QED BY <1>1, <1>2, <1>3, <1>4 DEF Next

(***************************************************************************)
(* What the loop of WaitForClusterStable sees is of the types it should.   *)
(***************************************************************************)
THEOREM StableTypeOK == Spec => []TypeOK
<1>1. Init => TypeOK
  BY StableAssumption DEF Init, TypeOK
<1>2. Spec => []IInv
  BY InitIInv, NextIInv, PTL DEF Spec
<1> QED BY <1>1, <1>2, StableTypes, PTL DEF Spec

(***************************************************************************)
(* The operators are found ready only when there is one and none of them   *)
(* reports to be progressing, degraded, disabled or unavailable.           *)
(***************************************************************************)
THEOREM StableReadyMeansNoComplaint == Spec => ReadyMeansNoComplaint
<1> DEFINE Heeded ==
      (Len(polls') > Len(polls) /\ polls'[Len(polls')]) =>
        /\ reports # <<>>
        /\ \A o \in DOMAIN reports, type \in {"Available", "Progressing", "Degraded", "Disabled"} :
             type \in DOMAIN reports[o] => (reports[o][type] = "True") = (type = "Available")
<1>1. TypeOK /\ [Next]_vars => [Heeded]_vars
  <2> SUFFICES ASSUME TypeOK, Next, Len(polls') > Len(polls), polls'[Len(polls')] PROVE Heeded
    OBVIOUS
  <2>1. List /\ Len(polls) # retryCount
    BY DEF Next, Call, List, Wait, Cancel, Change, TypeOK
  <2>2. PICK answer \in Answers : polls' = Append(polls, answer = "ready")
    BY <2>1 DEF List
  <2>3. answer = "ready"
    <3> DEFINE ready == answer = "ready"
    <3>1. polls' = Append(polls, ready) /\ ready \in BOOLEAN /\ polls \in Seq(BOOLEAN)
      BY <2>2 DEF TypeOK
    <3> HIDE DEF ready
    <3>2. Len(polls') = Len(polls) + 1 /\ polls'[Len(polls) + 1] = ready
      BY <3>1
    <3>3. ready
      BY <3>2, Zenon
    <3> QED BY <3>3 DEF ready
  <2>4. reports # <<>> /\ IsReady(getStatus(reports))
    BY <2>2, <2>3 DEF Answers
  <2>5. /\ ~Other(reports, "Available", "True")
        /\ \A type \in {"Progressing", "Degraded", "Disabled"} : ~Some(reports, type, "True")
    BY <2>4, Zenon DEF IsReady, getStatus
  <2> QED BY <2>4, <2>5 DEF Some, Other
<1> QED BY <1>1, StableTypeOK, PTL DEF Spec, ReadyMeansNoComplaint

-----------------------------------------------------------------------------
(***************************************************************************)
(* Both waits: a behaviour of the two is one of each.                      *)
(***************************************************************************)
LEMMA WaitsParts == WaitsSpec => Spec /\ Renewal!Spec
<1>1. WaitsInit => Init /\ Renewal!Init
  BY DEF WaitsInit
<1>2. [WaitsNext]_all => [Next]_vars /\ [Renewal!Next]_(Renewal!vars)
  BY DEF WaitsNext, InOperators, InCertificates, Over, all, renewal, Renewal!vars, Renewal!start,
         Renewal!guest
<1> QED BY <1>1, <1>2, PTL DEF WaitsSpec, Spec, Renewal!Spec

(***************************************************************************)
(* After a start of which ApproveCSRAndWaitForCertsRenewal has returned    *)
(* nil both certificates of the kubelet are valid, however many starts     *)
(* before it were cut short and whatever requests they left; and as long   *)
(* as none was cut short no wait for a request or a certificate runs out.  *)
(***************************************************************************)
THEOREM WaitsCertificatesRenewed == WaitsSpec => []CertificatesRenewed
<1>1. TypeOK /\ RenewalInv => CertificatesRenewed
  BY DEF RenewalInv, CertificatesRenewed, TypesOK
<1> QED BY <1>1, WaitsParts, StableTypeOK, RenewalInvariant, PTL

(***************************************************************************)
(* Answers are read for what they say: an operator counts as ready only    *)
(* when none of its conditions complains, and a start approves and deletes *)
(* only requests of the signers it looks after.                            *)
(***************************************************************************)
THEOREM WaitsAnswersHeeded == WaitsSpec => AnswersHeeded
BY WaitsParts, StableReadyMeansNoComplaint, RenewalTouchesOwnRequests, PTL DEF AnswersHeeded
-----------------------------------------------------------------------------
\* A start is not cut short within the exchange of the client CA.
ExchangeWhole == {"clientCA", "patchCA", "copyKubeconfig"} \subseteq Uncut

\* The places of a start up to the one at which something is seen to, and from one on to the end.
UntilSecret == {"kubelet", "api", "lease", "pullSecret"}
UntilKey == {"kubelet", "api", "lease", "pullSecret", "sshKey"}
UntilDisk == {"kubelet", "api", "lease", "pullSecret", "sshKey", "disk"}
UntilProxyCA == {"kubelet", "api", "lease", "pullSecret", "sshKey", "disk", "proxy"}
UntilProxy == {"kubelet", "api", "lease", "pullSecret", "sshKey", "disk", "proxy", "proxySpec"}
UntilHtpasswd ==
  {"kubelet", "api", "lease", "pullSecret", "sshKey", "disk", "proxy", "proxySpec", "password", "htpasswd",
   "patchHtpasswd"}
UntilId ==
  {"kubelet", "api", "lease", "pullSecret", "sshKey", "disk", "proxy", "proxySpec", "password", "htpasswd",
   "patchHtpasswd", "clusterId"}
UntilRoutes ==
  {"kubelet", "api", "lease", "pullSecret", "sshKey", "disk", "proxy", "proxySpec", "password", "htpasswd",
   "patchHtpasswd", "clusterId", "routes"}
FromRequestHeader ==
  {"requestHeader", "kubeconfig", "clientCA", "patchCA", "copyKubeconfig", "stable", "writeKubeconfig"}
FromKubeconfig == {"kubeconfig", "clientCA", "patchCA", "copyKubeconfig", "stable", "writeKubeconfig"}
FromClientCA == {"clientCA", "patchCA", "copyKubeconfig", "stable", "writeKubeconfig"}
FromStable == {"stable", "writeKubeconfig"}

\* A start is past these places, or has come to one of these, or has succeeded.
Past(places, place, end) == IF place = "idle" THEN end = "ok" ELSE place \notin places
Reached(places, place, end) == IF place = "idle" THEN end = "ok" ELSE place \in places

Texts ==
  STRING \cup {"missing", "invalid", "bundle", "generated", "user", "id1", "OkdPullSecret", "developer",
               "kubeadmin", "alice", "a", "changed", "other"}

HostType == [kubeconfig : Texts, password : Texts, keyring : Texts, cas : 0..Len(CAs), ca : Texts]

GuestType ==
  [vm : BOOLEAN, kubelet : BOOLEAN, kubeconfig : Texts, disk : Texts, aggregator : {"valid", "expired"}]

Lines == [user : Texts, password : Texts]

ClusterType ==
  [ca : Texts, secret : Texts, key : Texts, id : Texts, users : SUBSET Lines, proxy : Texts,
   proxyCA : Texts, routes : BOOLEAN, overrides : Seq(STRING), lease : BOOLEAN,
   apiserver : {"up", "stale", "down"}]

StartTypes ==
  /\ in \in Inputs
  /\ outcome \in {"none", "ok", "alreadyRunning", "error", "timeout", "noPullSecret"}
  /\ calm \in BOOLEAN /\ edited \in BOOLEAN /\ edits \in 0..MaxEdits /\ cuts \in 0..MaxCuts
  /\ host \in HostType /\ guest \in GuestType /\ cluster \in ClusterType

\* The VM and its kubelet are started in turn, and the lease is there for the one that deletes it.
Running ==
  /\ guest.kubelet => guest.vm
  /\ at = "kubelet" => guest.vm /\ ~guest.kubelet
  /\ at \notin {"idle", "kubelet"} => guest.kubelet
  /\ at # "idle" => outcome = "none"
  /\ (~guest.vm \/ at \in {"kubelet", "api", "lease"}) => cluster.lease

\* The CAs there are have been made, and there are more to come for a start that makes one.
Made(cas) == {CAs[i] : i \in 1..cas} \cup {"missing", "bundle"}

CAsMade ==
  /\ {host.kubeconfig, host.ca, cluster.ca, guest.kubeconfig} \subseteq Made(host.cas)
  /\ host.ca # "missing" /\ cluster.ca # "missing"
  /\ (~guest.vm \/ at \notin {"idle"} \cup FromClientCA) => host.cas < Len(CAs)

\* The client CA is exchanged for one that belongs to the kubeconfig of the host.
Exchanged ==
  /\ at \notin {"patchCA", "copyKubeconfig"} => guest.kubeconfig = cluster.ca
  /\ at \notin {"clientCA", "patchCA", "copyKubeconfig"} =>
       host.kubeconfig = cluster.ca \/ (host.kubeconfig = "missing" /\ cluster.ca = "bundle")
  /\ at = "clientCA" =>
       host.kubeconfig = cluster.ca \/ (host.kubeconfig = host.ca /\ cluster.ca = "bundle")
  /\ at = "patchCA" => host.kubeconfig = host.ca
  /\ at = "copyKubeconfig" => host.kubeconfig = host.ca /\ cluster.ca = host.ca
  /\ Reached(FromStable, at, outcome) => host.kubeconfig = cluster.ca

\* Every user has one line of the htpasswd secret, and crc's two users have one.
OneLine(lines) == \A a, b \in lines : a.user = b.user => a = b

OneLineEach(lines) ==
  /\ OneLine(lines)
  /\ \A u \in {"developer", "kubeadmin"} : \E line \in lines : line.user = u

\* The line of a user, and the lines of those who are not crc's.
HasLine(lines, user, password) == {line \in lines : line.user = user} = {Line(user, password)}

OtherLines(lines) == {line \in lines : line.user \notin {"developer", "kubeadmin"}}

\* The two overrides of the monitoring stack are there, in this order, or none of them is.
Paired(overrides, i, j) ==
  /\ i \in DOMAIN overrides /\ j \in DOMAIN overrides /\ i < j
  /\ Named(overrides, "cluster-monitoring-operator") = {i} /\ Named(overrides, "monitoring") = {j}

NonePaired(overrides) ==
  Named(overrides, "cluster-monitoring-operator") = {} /\ Named(overrides, "monitoring") = {}

PairedOrNot(overrides) ==
  NonePaired(overrides) \/ \E i, j \in DOMAIN overrides : Paired(overrides, i, j)

\* What a start has read is still so when it is used.
FoundPair(overrides, found) ==
  \E i, j \in DOMAIN overrides : Paired(overrides, i, j) /\ found[2] = i - 1 /\ found[3] = j - 1

FoundOthers(lines) == lines \subseteq Lines /\ OneLine(lines) /\ OtherLines(lines) = lines

GotShort == Len(got) <= 3

GotKnown ==
  /\ at = "patchHtpasswd" => FoundOthers(got[2]) /\ (~EditAnytime => got[2] = OtherLines(cluster.users))
  /\ at = "patchOverrides" => FoundPair(cluster.overrides, got)
  /\ at \notin {"idle", "kubelet"} \cup FromKubeconfig => (got[1] # "expired" => cluster.apiserver = "up")

\* What has been seen to at a place, unless a user has edited the cluster since.
SeenTo ==
  /\ Reached(FromKubeconfig, at, outcome) => cluster.apiserver = "up"
  /\ ~edited /\ Past(UntilSecret, at, outcome) => ImagePullSecret(cluster.secret)
  /\ ~edited /\ Past(UntilDisk, at, outcome) => ImagePullSecret(guest.disk)
  /\ Past(UntilKey, at, outcome) => cluster.key = "user"
  /\ at = "proxySpec" => in.proxy # "missing"
  /\ Past(UntilProxyCA, at, outcome) /\ in.proxy # "missing" /\ in.proxyCA # "missing" => cluster.proxyCA = in.proxyCA
  /\ Past(UntilProxy, at, outcome) /\ in.proxy # "missing" => cluster.proxy = in.proxy
  /\ ~edited /\ Past(UntilHtpasswd, at, outcome) =>
       HasLine(cluster.users, "kubeadmin", host.password) /\ HasLine(cluster.users, "developer", "developer")
  /\ Past(UntilId, at, outcome) => cluster.id # "missing"
  /\ Past(UntilRoutes, at, outcome) /\ in.vsock => cluster.routes
  /\ Reached(FromRequestHeader, at, outcome) /\ in.monitoring => NonePaired(cluster.overrides)

StartInv ==
  /\ StartTypes /\ Running /\ CAsMade /\ OneLineEach(cluster.users) /\ PairedOrNot(cluster.overrides)
  /\ GotShort /\ GotKnown /\ SeenTo

StartInvCut == StartInv /\ Exchanged /\ SmoothStartSucceeds

-----------------------------------------------------------------------------
\* The second host is the first one but for these fields.
HostSame(r, s, changed) ==
  /\ "kubeconfig" \in changed \/ s.kubeconfig = r.kubeconfig
  /\ "password" \in changed \/ s.password = r.password
  /\ "keyring" \in changed \/ s.keyring = r.keyring
  /\ "cas" \in changed \/ s.cas = r.cas
  /\ "ca" \in changed \/ s.ca = r.ca

\* The second guest is the first one but for these fields.
GuestSame(r, s, changed) ==
  /\ "vm" \in changed \/ s.vm = r.vm
  /\ "kubelet" \in changed \/ s.kubelet = r.kubelet
  /\ "kubeconfig" \in changed \/ s.kubeconfig = r.kubeconfig
  /\ "disk" \in changed \/ s.disk = r.disk
  /\ "aggregator" \in changed \/ s.aggregator = r.aggregator

\* The second cluster is the first one but for these fields.
ClusterSame(r, s, changed) ==
  /\ "ca" \in changed \/ s.ca = r.ca
  /\ "secret" \in changed \/ s.secret = r.secret
  /\ "key" \in changed \/ s.key = r.key
  /\ "id" \in changed \/ s.id = r.id
  /\ "users" \in changed \/ s.users = r.users
  /\ "proxy" \in changed \/ s.proxy = r.proxy
  /\ "proxyCA" \in changed \/ s.proxyCA = r.proxyCA
  /\ "routes" \in changed \/ s.routes = r.routes
  /\ "overrides" \in changed \/ s.overrides = r.overrides
  /\ "lease" \in changed \/ s.lease = r.lease
  /\ "apiserver" \in changed \/ s.apiserver = r.apiserver

\* A step changes these fields only, and leaves all of them of their types.
HostKeeps(changed) == host' \in HostType /\ HostSame(host, host', changed)
GuestKeeps(changed) == guest' \in GuestType /\ GuestSame(guest, guest', changed)
ClusterKeeps(changed) == cluster' \in ClusterType /\ ClusterSame(cluster, cluster', changed)

\* A step that gives one field of host a value changes nothing else in it.
LEMMA HostGiven ==
  ASSUME StartInv
  PROVE
    /\ \A v \in Texts : host' = [host EXCEPT !.password = v] => HostKeeps({"password"}) /\ host'.password = v
    /\ \A v \in Texts : host' = [host EXCEPT !.keyring = v] => HostKeeps({"keyring"}) /\ host'.keyring = v
<1> host \in HostType
  BY DEF StartInv, StartTypes
<1>1. ASSUME NEW v \in Texts, host' = [host EXCEPT !.password = v] PROVE HostKeeps({"password"}) /\ host'.password = v
  BY <1>1 DEF HostType, HostKeeps, HostSame
<1>2. ASSUME NEW v \in Texts, host' = [host EXCEPT !.keyring = v] PROVE HostKeeps({"keyring"}) /\ host'.keyring = v
  BY <1>2 DEF HostType, HostKeeps, HostSame
<1> QED
  BY <1>1, <1>2

\* A step that gives one field of guest a value changes nothing else in it.
LEMMA GuestGiven ==
  ASSUME StartInv
  PROVE
    /\ \A v \in BOOLEAN : guest' = [guest EXCEPT !.vm = v] => GuestKeeps({"vm"}) /\ guest'.vm = v
    /\ \A v \in BOOLEAN : guest' = [guest EXCEPT !.kubelet = v] => GuestKeeps({"kubelet"}) /\ guest'.kubelet = v
    /\ \A v \in Texts : guest' = [guest EXCEPT !.kubeconfig = v] => GuestKeeps({"kubeconfig"}) /\ guest'.kubeconfig = v
    /\ \A v \in Texts : guest' = [guest EXCEPT !.disk = v] => GuestKeeps({"disk"}) /\ guest'.disk = v
    /\ \A v \in {"valid", "expired"} : guest' = [guest EXCEPT !.aggregator = v] => GuestKeeps({"aggregator"}) /\ guest'.aggregator = v
<1> guest \in GuestType
  BY DEF StartInv, StartTypes
<1>1. ASSUME NEW v \in BOOLEAN, guest' = [guest EXCEPT !.vm = v] PROVE GuestKeeps({"vm"}) /\ guest'.vm = v
  BY <1>1 DEF GuestType, GuestKeeps, GuestSame
<1>2. ASSUME NEW v \in BOOLEAN, guest' = [guest EXCEPT !.kubelet = v] PROVE GuestKeeps({"kubelet"}) /\ guest'.kubelet = v
  BY <1>2 DEF GuestType, GuestKeeps, GuestSame
<1>3. ASSUME NEW v \in Texts, guest' = [guest EXCEPT !.kubeconfig = v] PROVE GuestKeeps({"kubeconfig"}) /\ guest'.kubeconfig = v
  BY <1>3 DEF GuestType, GuestKeeps, GuestSame
<1>4. ASSUME NEW v \in Texts, guest' = [guest EXCEPT !.disk = v] PROVE GuestKeeps({"disk"}) /\ guest'.disk = v
  BY <1>4 DEF GuestType, GuestKeeps, GuestSame
<1>5. ASSUME NEW v \in {"valid", "expired"}, guest' = [guest EXCEPT !.aggregator = v] PROVE GuestKeeps({"aggregator"}) /\ guest'.aggregator = v
  BY <1>5 DEF GuestType, GuestKeeps, GuestSame
<1> QED
  BY <1>1, <1>2, <1>3, <1>4, <1>5

\* A step that gives one field of cluster a value changes nothing else in it.
LEMMA ClusterGiven ==
  ASSUME StartInv
  PROVE
    /\ \A v \in Texts : cluster' = [cluster EXCEPT !.ca = v] => ClusterKeeps({"ca"}) /\ cluster'.ca = v
    /\ \A v \in Texts : cluster' = [cluster EXCEPT !.secret = v] => ClusterKeeps({"secret"}) /\ cluster'.secret = v
    /\ \A v \in Texts : cluster' = [cluster EXCEPT !.key = v] => ClusterKeeps({"key"}) /\ cluster'.key = v
    /\ \A v \in Texts : cluster' = [cluster EXCEPT !.id = v] => ClusterKeeps({"id"}) /\ cluster'.id = v
    /\ \A v \in SUBSET Lines : cluster' = [cluster EXCEPT !.users = v] => ClusterKeeps({"users"}) /\ cluster'.users = v
    /\ \A v \in Texts : cluster' = [cluster EXCEPT !.proxy = v] => ClusterKeeps({"proxy"}) /\ cluster'.proxy = v
    /\ \A v \in Texts : cluster' = [cluster EXCEPT !.proxyCA = v] => ClusterKeeps({"proxyCA"}) /\ cluster'.proxyCA = v
    /\ \A v \in BOOLEAN : cluster' = [cluster EXCEPT !.routes = v] => ClusterKeeps({"routes"}) /\ cluster'.routes = v
    /\ \A v \in Seq(STRING) : cluster' = [cluster EXCEPT !.overrides = v] => ClusterKeeps({"overrides"}) /\ cluster'.overrides = v
    /\ \A v \in BOOLEAN : cluster' = [cluster EXCEPT !.lease = v] => ClusterKeeps({"lease"}) /\ cluster'.lease = v
    /\ \A v \in {"up", "stale", "down"} : cluster' = [cluster EXCEPT !.apiserver = v] => ClusterKeeps({"apiserver"}) /\ cluster'.apiserver = v
<1> cluster \in ClusterType
  BY DEF StartInv, StartTypes
<1>1. ASSUME NEW v \in Texts, cluster' = [cluster EXCEPT !.ca = v] PROVE ClusterKeeps({"ca"}) /\ cluster'.ca = v
  BY <1>1 DEF ClusterType, ClusterKeeps, ClusterSame
<1>2. ASSUME NEW v \in Texts, cluster' = [cluster EXCEPT !.secret = v] PROVE ClusterKeeps({"secret"}) /\ cluster'.secret = v
  BY <1>2 DEF ClusterType, ClusterKeeps, ClusterSame
<1>3. ASSUME NEW v \in Texts, cluster' = [cluster EXCEPT !.key = v] PROVE ClusterKeeps({"key"}) /\ cluster'.key = v
  BY <1>3 DEF ClusterType, ClusterKeeps, ClusterSame
<1>4. ASSUME NEW v \in Texts, cluster' = [cluster EXCEPT !.id = v] PROVE ClusterKeeps({"id"}) /\ cluster'.id = v
  BY <1>4 DEF ClusterType, ClusterKeeps, ClusterSame
<1>5. ASSUME NEW v \in SUBSET Lines, cluster' = [cluster EXCEPT !.users = v] PROVE ClusterKeeps({"users"}) /\ cluster'.users = v
  BY <1>5 DEF ClusterType, ClusterKeeps, ClusterSame
<1>6. ASSUME NEW v \in Texts, cluster' = [cluster EXCEPT !.proxy = v] PROVE ClusterKeeps({"proxy"}) /\ cluster'.proxy = v
  BY <1>6 DEF ClusterType, ClusterKeeps, ClusterSame
<1>7. ASSUME NEW v \in Texts, cluster' = [cluster EXCEPT !.proxyCA = v] PROVE ClusterKeeps({"proxyCA"}) /\ cluster'.proxyCA = v
  BY <1>7 DEF ClusterType, ClusterKeeps, ClusterSame
<1>8. ASSUME NEW v \in BOOLEAN, cluster' = [cluster EXCEPT !.routes = v] PROVE ClusterKeeps({"routes"}) /\ cluster'.routes = v
  BY <1>8 DEF ClusterType, ClusterKeeps, ClusterSame
<1>9. ASSUME NEW v \in Seq(STRING), cluster' = [cluster EXCEPT !.overrides = v] PROVE ClusterKeeps({"overrides"}) /\ cluster'.overrides = v
  BY <1>9 DEF ClusterType, ClusterKeeps, ClusterSame
<1>10. ASSUME NEW v \in BOOLEAN, cluster' = [cluster EXCEPT !.lease = v] PROVE ClusterKeeps({"lease"}) /\ cluster'.lease = v
  BY <1>10 DEF ClusterType, ClusterKeeps, ClusterSame
<1>11. ASSUME NEW v \in {"up", "stale", "down"}, cluster' = [cluster EXCEPT !.apiserver = v] PROVE ClusterKeeps({"apiserver"}) /\ cluster'.apiserver = v
  BY <1>11 DEF ClusterType, ClusterKeeps, ClusterSame
<1> QED
  BY <1>1, <1>2, <1>3, <1>4, <1>5, <1>6, <1>7, <1>8, <1>9, <1>10, <1>11, Zenon

\* What a step leaves as it is keeps all its fields.
LEMMA KeptAsIs ==
  ASSUME StartInv
  PROVE  /\ host' = host => HostKeeps({})
         /\ guest' = guest => GuestKeeps({})
         /\ cluster' = cluster => ClusterKeeps({})
BY DEF StartInv, StartTypes, HostKeeps, HostSame, GuestKeeps, GuestSame, ClusterKeeps, ClusterSame

\* What a start is given.
LEMMA InputTypes ==
  ASSUME StartInv
  PROVE  /\ in.path \in Texts /\ in.file \in Texts /\ in.prompt \in Texts \ {"invalid"} /\ in.okd \in BOOLEAN
         /\ in.proxy \in Texts /\ in.proxyCA \in Texts /\ in.password \in Texts
         /\ in.vsock \in BOOLEAN /\ in.monitoring \in BOOLEAN
BY StartAssumption DEF StartInv, StartTypes, Texts

-----------------------------------------------------------------------------
\* What is left of a list when one of its elements is removed.
LEMMA Removed ==
  ASSUME NEW s \in Seq(STRING), NEW k \in 0..(Len(s) - 1)
  PROVE  LET r == RemoveAt(s, k)
         IN  /\ r \in Seq(STRING) /\ Len(r) = Len(s) - 1
             /\ \A m \in 1..(Len(s) - 1) : r[m] = IF m <= k THEN s[m] ELSE s[m + 1]
<1> DEFINE a == SubSeq(s, 1, k)
<1> DEFINE b == SubSeq(s, k + 2, Len(s))
<1>1. Len(s) \in Nat /\ k \in Nat /\ k < Len(s)
  OBVIOUS
<1>2. a \in Seq(STRING) /\ Len(a) = k /\ \A m \in 1..k : a[m] = s[m]
  BY <1>1
<1>3. b \in Seq(STRING) /\ Len(b) = Len(s) - (k + 1) /\ \A m \in 1..(Len(s) - (k + 1)) : b[m] = s[m + k + 1]
  BY <1>1
<1> HIDE DEF a, b
<1>4. a \o b \in Seq(STRING) /\ Len(a \o b) = Len(s) - 1
  <2>1. a \in Seq(STRING) /\ b \in Seq(STRING)
    BY <1>2, <1>3
  <2>2. a \o b \in Seq(STRING) /\ Len(a \o b) = Len(a) + Len(b)
    BY <2>1
  <2>3. Len(a) = k /\ Len(b) = Len(s) - (k + 1)
    BY <1>2, <1>3
  <2> QED
    BY <1>1, <2>2, <2>3
<1>5. ASSUME NEW m \in 1..(Len(s) - 1) PROVE (a \o b)[m] = IF m <= k THEN s[m] ELSE s[m + 1]
  <2>1. CASE m <= k
    BY <2>1, <1>1, <1>2, <1>3
  <2>2. CASE ~(m <= k)
    <3>1. (a \o b)[m] = b[m - k]
      BY <2>2, <1>1, <1>2, <1>3
    <3>2. m - k \in 1..(Len(s) - (k + 1)) /\ (m - k) + k + 1 = m + 1
      BY <2>2, <1>1
    <3> QED
      BY <3>1, <3>2, <2>2, <1>3
  <2> QED
    BY <2>1, <2>2, Zenon
<1> QED
  BY <1>4, <1>5, Zenon DEF RemoveAt, a, b

\* Without the two of the monitoring stack a list has the others, in the same order.
LEMMA PairRemoved ==
  ASSUME NEW o \in Seq(STRING), NEW i \in DOMAIN o, NEW j \in DOMAIN o, Paired(o, i, j)
  PROVE  LET r == RemoveAt(RemoveAt(o, i - 1), (j - 1) - 1)
         IN  r \in Seq(STRING) /\ NonePaired(r) /\ SameOthers(o, r)
<1> DEFINE p == RemoveAt(o, i - 1)
<1> DEFINE r == RemoveAt(p, (j - 1) - 1)
<1>1. i \in 1..Len(o) /\ j \in 1..Len(o) /\ i < j /\ Len(o) \in Nat
  BY DEF Paired
<1>2. p \in Seq(STRING) /\ Len(p) = Len(o) - 1
      /\ \A m \in 1..(Len(o) - 1) : p[m] = IF m <= i - 1 THEN o[m] ELSE o[m + 1]
  <2>1. i - 1 \in 0..(Len(o) - 1)
    BY <1>1
  <2> QED
    BY <2>1, Removed, Zenon
<1> HIDE DEF p
<1>3. r \in Seq(STRING) /\ Len(r) = Len(p) - 1
      /\ \A m \in 1..(Len(p) - 1) : r[m] = IF m <= (j - 1) - 1 THEN p[m] ELSE p[m + 1]
  <2>1. p \in Seq(STRING) /\ (j - 1) - 1 \in 0..(Len(p) - 1)
    BY <1>1, <1>2
  <2> QED
    BY <2>1, Removed, Zenon
<1> HIDE DEF r
<1>4. DOMAIN r = 1..(Len(o) - 2)
  BY <1>1, <1>2, <1>3
<1> DEFINE from(m) == IF m < i THEN m ELSE IF m < j - 1 THEN m + 1 ELSE m + 2
<1>5. ASSUME NEW m \in 1..(Len(o) - 2) PROVE from(m) \in 1..Len(o) /\ from(m) \notin {i, j} /\ r[m] = o[from(m)]
  <2>1. from(m) \in 1..Len(o) /\ from(m) \notin {i, j}
    BY <1>1
  <2>2. CASE m < i
    BY <2>2, <1>1, <1>2, <1>3
  <2>3. CASE ~(m < i) /\ m < j - 1
    BY <2>3, <1>1, <1>2, <1>3
  <2>4. CASE ~(m < i) /\ ~(m < j - 1)
    BY <2>4, <1>1, <1>2, <1>3
  <2> QED
    BY <2>1, <2>2, <2>3, <2>4, <1>1
<1>6. \A k \in DOMAIN o : (o[k] = "cluster-monitoring-operator" <=> k = i) /\ (o[k] = "monitoring" <=> k = j)
  BY DEF Paired, Named
<1>7. \A m \in DOMAIN r : r[m] # "cluster-monitoring-operator" /\ r[m] # "monitoring"
  BY <1>1, <1>4, <1>5, <1>6
<1>8. NonePaired(r)
  BY <1>7 DEF NonePaired, Named
<1>9. Others(r) = 1..(Len(o) - 2) /\ Others(o) = (1..Len(o)) \ {i, j}
  BY <1>1, <1>4, <1>6, <1>7 DEF Others, Monitoring
<1> DEFINE to(k) == IF k < i THEN k ELSE IF k < j THEN k - 1 ELSE k - 2
<1> DEFINE place == [k \in Others(o) |-> to(k)]
<1>10. \A k \in (1..Len(o)) \ {i, j} : to(k) \in 1..(Len(o) - 2) /\ from(to(k)) = k
  BY <1>1
<1>11. \A m \in 1..(Len(o) - 2) : from(m) \in (1..Len(o)) \ {i, j} /\ to(from(m)) = m
  BY <1>1
<1>12. \A k, l \in (1..Len(o)) \ {i, j} : k < l => to(k) < to(l)
  BY <1>1
<1>13. place \in [Others(o) -> Others(r)] /\ \A k \in Others(o) : place[k] = to(k)
  BY <1>9, <1>10
<1> HIDE DEF place
<1>14. \A k \in Others(o) : r[to(k)] = o[from(to(k))]
  BY <1>5, <1>9, <1>10
<1> HIDE DEF from, to
<1>15. \A k \in Others(o) : r[place[k]] = o[k]
  BY <1>9, <1>10, <1>13, <1>14
<1>16. \A k, l \in Others(o) : k < l => place[k] < place[l]
  BY <1>9, <1>12, <1>13
<1>17. \A m \in Others(r) : \E k \in Others(o) : place[k] = m
  BY <1>9, <1>11, <1>13
<1>18. SameOthers(o, r)
  BY <1>13, <1>15, <1>16, <1>17 DEF SameOthers
<1> QED
  BY <1>3, <1>8, <1>18 DEF p, r

\* And a list has its own others.
LEMMA OwnOthers == ASSUME NEW o \in Seq(STRING) PROVE SameOthers(o, o)
<1> DEFINE place == [i \in Others(o) |-> i]
<1>1. place \in [Others(o) -> Others(o)] /\ \A i \in Others(o) : place[i] = i
  OBVIOUS
<1> HIDE DEF place
<1> QED
  BY <1>1 DEF SameOthers

\* The lines that are patched into the htpasswd secret are lines again.
LEMMA UsersTyped ==
  ASSUME StartInv, UpdateKubeAdminUserPassword
  PROVE  getHtpasswd(got[2]) \in SUBSET Lines
<1>1. got[2] \in SUBSET Lines /\ host.password \in Texts
  BY DEF StartInv, GotKnown, FoundOthers, StartTypes, HostType, UpdateKubeAdminUserPassword, At
<1>2. credentials = [u \in {"developer", "kubeadmin"} |-> IF u = "developer" THEN "developer" ELSE host.password]
  BY DEF credentials, GetKubeadminPassword
<1>3. \A u \in {"developer", "kubeadmin"} : Line(u, credentials[u]) \in Lines
  BY <1>1, <1>2, Zenon DEF Line, Lines, Texts
<1> QED
  BY <1>1, <1>2, <1>3 DEF getHtpasswd

\* The overrides that are patched are names again.
LEMMA OverridesTyped ==
  ASSUME StartInv, StartMonitoring
  PROVE  LET r == RemoveAt(RemoveAt(cluster.overrides, got[2]), got[3] - 1)
         IN  r \in Seq(STRING) /\ NonePaired(r) /\ SameOthers(cluster.overrides, r)
<1>1. PICK i, j \in DOMAIN cluster.overrides : Paired(cluster.overrides, i, j) /\ got[2] = i - 1 /\ got[3] = j - 1
  BY DEF StartInv, GotKnown, FoundPair, StartMonitoring, At
<1>2. cluster.overrides \in Seq(STRING)
  BY DEF StartInv, StartTypes, ClusterType
<1> QED
  BY <1>1, <1>2, PairRemoved

-----------------------------------------------------------------------------
\* The two users of crc and the passwords they are to have.
LEMMA Credentials ==
  /\ DOMAIN credentials = {"developer", "kubeadmin"}
  /\ credentials["developer"] = "developer" /\ credentials["kubeadmin"] = host.password
BY DEF credentials, GetKubeadminPassword

\* The lines of others are those of no user of crc.
LEMMA ExternalsAre ==
  ASSUME NEW lines
  PROVE  Externals(lines) = OtherLines(lines)
BY Credentials DEF Externals, OtherLines

\* The secret that is written instead has the two lines, and those of the others as they were.
LEMMA LoginsWritten ==
  ASSUME NEW others, FoundOthers(others)
  PROVE  LET users == getHtpasswd(others)
         IN  /\ OneLineEach(users) /\ OtherLines(users) = others
             /\ HasLine(users, "kubeadmin", host.password) /\ HasLine(users, "developer", "developer")
<1> DEFINE k == Line("kubeadmin", host.password)
<1> DEFINE d == Line("developer", "developer")
<1>1. getHtpasswd(others) = others \cup {k, d}
  BY Credentials DEF getHtpasswd
<1>2. k.user = "kubeadmin" /\ d.user = "developer"
  BY DEF Line
<1> HIDE DEF k, d
<1>3. OneLine(others) /\ \A line \in others : line.user \notin {"developer", "kubeadmin"}
  BY DEF FoundOthers, OtherLines
<1>4. OneLine(others \cup {k, d})
  BY <1>2, <1>3 DEF OneLine
<1>5. /\ {line \in others \cup {k, d} : line.user = "kubeadmin"} = {k}
      /\ {line \in others \cup {k, d} : line.user = "developer"} = {d}
      /\ {line \in others \cup {k, d} : line.user \notin {"developer", "kubeadmin"}} = others
  BY <1>2, <1>3
<1>6. \A u \in {"developer", "kubeadmin"} : \E line \in others \cup {k, d} : line.user = u
  BY <1>2
<1> QED
  BY <1>1, <1>4, <1>5, <1>6 DEF OneLineEach, OtherLines, HasLine, k, d

\* A pull secret that is to be had is a valid one.
LEMMA ValueValid ==
  ASSUME StartInv, Value # "missing"
  PROVE  Value \in Texts /\ ImagePullSecret(Value)
<1>1. in.path \in Texts /\ in.file \in Texts /\ in.prompt \in Texts /\ in.prompt # "invalid" /\ host.keyring \in Texts
  BY InputTypes DEF StartInv, StartTypes, HostType
<1>2. nonInteractiveValue # "missing" =>
        nonInteractiveValue \in Texts /\ nonInteractiveValue # "invalid"
  BY <1>1 DEF nonInteractiveValue, loadFile, loadFromKeyring, ImagePullSecret, Missing,
              Invalid, Texts
<1> QED
  BY <1>1, <1>2 DEF Value, promptUserForSecret, ImagePullSecret, Missing, Invalid

\* The place a start looks up.
LEMMA IndexOf ==
  ASSUME NEW o \in Seq(STRING), NEW name
  PROVE  /\ Named(o, name) = {} => getIndexInOverridesForObjectName(o, name) = Len(o)
         /\ \A i \in DOMAIN o : Named(o, name) = {i} => getIndexInOverridesForObjectName(o, name) = i - 1
<1>1. Named(o, name) = {k \in DOMAIN o : o[k] = name}
  BY DEF Named
<1>2. ASSUME NEW i \in DOMAIN o, Named(o, name) = {i}
      PROVE  getIndexInOverridesForObjectName(o, name) = i - 1
  <2>1. {k \in DOMAIN o : o[k] = name} = {i} /\ i \in Nat
    BY <1>1, <1>2
  <2>2. (CHOOSE k \in {i} : \A l \in {i} : k <= l) = i
    BY <2>1
  <2> QED
    BY <2>1, <2>2 DEF getIndexInOverridesForObjectName
<1>3. ASSUME Named(o, name) = {} PROVE getIndexInOverridesForObjectName(o, name) = Len(o)
  BY <1>1, <1>3 DEF getIndexInOverridesForObjectName
<1> QED
  BY <1>2, <1>3

-----------------------------------------------------------------------------
\* A step changes nothing in the cluster that belongs to others.
LeftAlone ==
  /\ OtherLines(cluster'.users) = OtherLines(cluster.users)
  /\ ImagePullSecret(cluster.secret) => cluster'.secret = cluster.secret
  /\ cluster.id # "missing" => cluster'.id = cluster.id
  /\ SameOthers(cluster.overrides, cluster'.overrides)

\* What every step of a start keeps.
StepKeeps ==
  /\ StartInv'
  /\ ExchangeWhole /\ Exchanged => Exchanged' /\ (SmoothStartSucceeds => SmoothStartSucceeds')
  /\ (at # "idle" /\ edits' = edits /\ ~EditAnytime) => LeftAlone

\* The overrides of others stay when all do.
LEMMA OverridesStay ==
  ASSUME StartInv, cluster'.overrides = cluster.overrides
  PROVE  SameOthers(cluster.overrides, cluster'.overrides)
<1> cluster.overrides \in Seq(STRING)
  BY DEF StartInv, StartTypes, ClusterType
<1> QED
  BY OwnOthers

\* What is counted stays within its bound.
LEMMA WithinBound ==
  /\ \A n \in 0..MaxEdits : n < MaxEdits => n + 1 \in 0..MaxEdits
  /\ \A n \in 0..MaxCuts : n < MaxCuts => n + 1 \in 0..MaxCuts
<1> MaxEdits \in Nat /\ MaxCuts \in Nat
  BY StartAssumption
<1> QED
  OBVIOUS

\* What a start has read is short.
LEMMA Lengths == ASSUME NEW a, NEW b, NEW c PROVE Len(<<>>) <= 3 /\ Len(<<a>>) <= 3 /\ Len(<<a, b>>) <= 3 /\ Len(<<a, b, c>>) <= 3
OBVIOUS

\* What has been seen to stays so while the start is at its place and the fields it is about
\* stay, the disk being one with a pull secret by then.
LEMMA SeenStays ==
  ASSUME StartInv, UNCHANGED <<at, in, outcome, edited>>, host'.password = host.password,
         ~edited /\ Past(UntilDisk, at, outcome) => ImagePullSecret(guest'.disk),
         cluster'.apiserver = cluster.apiserver, cluster'.secret = cluster.secret,
         cluster'.key = cluster.key, cluster'.proxyCA = cluster.proxyCA, cluster'.proxy = cluster.proxy,
         cluster'.users = cluster.users, cluster'.id = cluster.id, cluster'.routes = cluster.routes,
         cluster'.overrides = cluster.overrides
  PROVE  SeenTo'
<1> SeenTo
  BY Zenon DEF StartInv
<1>1. /\ Reached(FromKubeconfig, at', outcome') => cluster'.apiserver = "up"
      /\ Past(UntilKey, at', outcome') => cluster'.key = "user"
      /\ Past(UntilId, at', outcome') => cluster'.id # "missing"
      /\ Past(UntilRoutes, at', outcome') /\ in'.vsock => cluster'.routes
      /\ Reached(FromRequestHeader, at', outcome') /\ in'.monitoring => NonePaired(cluster'.overrides)
  BY Zenon DEF SeenTo
<1>2. /\ ~edited' /\ Past(UntilSecret, at', outcome') => ImagePullSecret(cluster'.secret)
      /\ ~edited' /\ Past(UntilDisk, at', outcome') => ImagePullSecret(guest'.disk)
  BY Zenon DEF SeenTo
<1>3. /\ at' = "proxySpec" => in'.proxy # "missing"
      /\ Past(UntilProxyCA, at', outcome') /\ in'.proxy # "missing" /\ in'.proxyCA # "missing" =>
           cluster'.proxyCA = in'.proxyCA
      /\ Past(UntilProxy, at', outcome') /\ in'.proxy # "missing" => cluster'.proxy = in'.proxy
  BY Zenon DEF SeenTo
<1>4. ~edited' /\ Past(UntilHtpasswd, at', outcome') =>
        HasLine(cluster'.users, "kubeadmin", host'.password) /\ HasLine(cluster'.users, "developer", "developer")
  BY Zenon DEF SeenTo
<1> QED
  BY <1>1, <1>2, <1>3, <1>4, Zenon DEF SeenTo

\* The same when at most the lease changes.
LEMMA SeenKept ==
  ASSUME StartInv, UNCHANGED <<at, in, outcome, edited>>, HostKeeps({}), GuestKeeps({}) \/ GuestKeeps({"aggregator"}),
         ClusterKeeps({}) \/ ClusterKeeps({"lease"})
  PROVE  SeenTo'
<1>1. host'.password = host.password
  BY Zenon, ZenonT(60) DEF HostKeeps, HostSame
<1>2. guest'.disk = guest.disk
  BY DEF GuestKeeps, GuestSame
<1>3. ~edited /\ Past(UntilDisk, at, outcome) => ImagePullSecret(guest'.disk)
  BY <1>2, Zenon, ZenonT(60) DEF StartInv, SeenTo
<1>4. /\ cluster'.apiserver = cluster.apiserver /\ cluster'.secret = cluster.secret
      /\ cluster'.key = cluster.key /\ cluster'.proxyCA = cluster.proxyCA /\ cluster'.proxy = cluster.proxy
      /\ cluster'.users = cluster.users /\ cluster'.id = cluster.id /\ cluster'.routes = cluster.routes
      /\ cluster'.overrides = cluster.overrides
  BY DEF ClusterKeeps, ClusterSame
<1> QED
  BY <1>1, <1>3, <1>4, SeenStays, Zenon

\* One more CA is made.
LEMMA MadeGrows == ASSUME NEW n \in Nat PROVE Made(n) \subseteq Made(n + 1) /\ CAs[n + 1] \in Made(n + 1)
BY DEF Made

\* A start that begins knows nothing of the cluster yet, and keeps what earlier ones have left.
LEMMA StartKeeps == ASSUME StartInv, Start PROVE StepKeeps
<1> /\ at = "idle" /\ in' \in Inputs /\ got' = <<>> /\ calm' = TRUE /\ edited' = FALSE
    /\ \/ guest.vm /\ at' = "idle" /\ outcome' = "alreadyRunning" /\ guest'.vm = guest.vm
       \/ ~guest.vm /\ at' = "kubelet" /\ outcome' = "none" /\ guest'.vm = TRUE
    /\ HostKeeps({}) /\ GuestKeeps({"vm"}) /\ ClusterKeeps({}) /\ UNCHANGED <<edits, cuts>>
  <2> host \in HostType /\ guest \in GuestType /\ cluster \in ClusterType
    BY DEF StartInv, StartTypes
  <2>1. host' = host /\ cluster' = cluster
    BY DEF Start
  <2>2. HostKeeps({}) /\ ClusterKeeps({})
    BY <2>1, KeptAsIs
  <2>3. CASE guest.vm
    <3>1. guest' = guest /\ at' = "idle" /\ outcome' = "alreadyRunning"
      BY <2>3 DEF Start
    <3>2. GuestKeeps({"vm"})
      BY <3>1 DEF GuestKeeps, GuestSame
    <3> QED
      BY <2>2, <2>3, <3>1, <3>2, Zenon DEF Start, At
  <2>4. CASE ~guest.vm
    <3>1. guest' = [guest EXCEPT !.vm = TRUE] /\ at' = "kubelet" /\ outcome' = "none"
      BY <2>4 DEF Start
    <3>2. GuestKeeps({"vm"}) /\ guest'.vm = TRUE
      BY <3>1, GuestGiven, Zenon
    <3> QED
      BY <2>2, <2>4, <3>1, <3>2 DEF Start, At
  <2> QED
    BY <2>3, <2>4, Zenon
<1> StartTypes' /\ Running' /\ OneLineEach(cluster.users)' /\ PairedOrNot(cluster.overrides)'
  BY Zenon, ZenonT(60) DEF StartInv, StartTypes, Running, HostKeeps, GuestKeeps, GuestSame, ClusterKeeps, ClusterSame
<1> CAsMade'
  BY DEF StartInv, CAsMade, FromClientCA, HostKeeps, HostSame, GuestKeeps, GuestSame, ClusterKeeps, ClusterSame
<1> GotKnown'
  BY Zenon DEF StartInv, GotKnown, FromKubeconfig, ClusterKeeps, ClusterSame
<1> GotShort'
  BY Lengths, Zenon DEF StartInv, GotShort
<1> SeenTo'
  BY Zenon DEF StartInv, SeenTo, Past, Reached, UntilSecret, UntilKey, UntilDisk, UntilProxyCA, UntilProxy, UntilHtpasswd, UntilId, UntilRoutes, FromRequestHeader, FromKubeconfig, HostKeeps, HostSame, GuestKeeps, GuestSame, ClusterKeeps, ClusterSame
<1> ExchangeWhole /\ Exchanged => Exchanged' /\ (SmoothStartSucceeds => SmoothStartSucceeds')
  BY Zenon DEF StartInv, Running, CAsMade, ExchangeWhole, Exchanged, Reached, FromStable, SmoothStartSucceeds, HostKeeps, HostSame, GuestKeeps, GuestSame, ClusterKeeps, ClusterSame
<1> (at # "idle" /\ edits' = edits /\ ~EditAnytime) => LeftAlone
  BY OverridesStay, Zenon DEF LeftAlone, ClusterKeeps, ClusterSame
<1> QED
  BY Zenon DEF StepKeeps, StartInv

\* The kubelet is started, and the aggregator's certificate is remembered as it was before.
LEMMA StartKubeletKeeps == ASSUME StartInv, StartKubelet PROVE StepKeeps
<1>1. /\ at = "kubelet" /\ at' = "api" /\ got' = <<guest.aggregator>> /\ UNCHANGED <<in, outcome, calm, edited, edits, cuts>>
      /\ host' = host /\ guest' = [guest EXCEPT !.kubelet = TRUE] /\ cluster' = [cluster EXCEPT !.apiserver = IF guest.aggregator = "expired" THEN "stale" ELSE "up"]
  BY DEF StartKubelet, At, Keep
<1>2. (IF guest.aggregator = "expired" THEN "stale" ELSE "up") \in {"up", "stale", "down"}
  BY DEF StartInv, StartTypes, HostType, GuestType, ClusterType, Texts
<1> /\ at = "kubelet" /\ at' = "api" /\ got' = <<guest.aggregator>> /\ UNCHANGED <<in, outcome, calm, edited, edits, cuts>>
    /\ HostKeeps({}) /\ GuestKeeps({"kubelet"}) /\ guest'.kubelet = TRUE /\ ClusterKeeps({"apiserver"}) /\ cluster'.apiserver = (IF guest.aggregator = "expired" THEN "stale" ELSE "up")
  BY <1>1, <1>2, KeptAsIs, GuestGiven, ClusterGiven, Zenon
<1> StartTypes' /\ Running' /\ OneLineEach(cluster.users)' /\ PairedOrNot(cluster.overrides)'
  BY Zenon, ZenonT(60) DEF StartInv, StartTypes, Running, HostKeeps, GuestKeeps, GuestSame, ClusterKeeps, ClusterSame
<1> CAsMade'
  BY DEF StartInv, CAsMade, FromClientCA, HostKeeps, HostSame, GuestKeeps, GuestSame, ClusterKeeps, ClusterSame
<1> GotKnown'
  BY Zenon DEF StartInv, GotKnown, FromKubeconfig, ClusterKeeps, ClusterSame
<1> GotShort'
  BY Lengths, Zenon DEF StartInv, GotShort
<1> SeenTo'
  BY Zenon DEF StartInv, SeenTo, Past, Reached, UntilSecret, UntilKey, UntilDisk, UntilProxyCA, UntilProxy, UntilHtpasswd, UntilId, UntilRoutes, FromRequestHeader, FromKubeconfig, HostKeeps, HostSame, GuestKeeps, GuestSame, ClusterKeeps, ClusterSame
<1> ExchangeWhole /\ Exchanged => Exchanged' /\ (SmoothStartSucceeds => SmoothStartSucceeds')
  BY Zenon DEF StartInv, Running, CAsMade, ExchangeWhole, Exchanged, Reached, FromStable, SmoothStartSucceeds, HostKeeps, HostSame, GuestKeeps, GuestSame, ClusterKeeps, ClusterSame
<1> (at # "idle" /\ edits' = edits /\ ~EditAnytime) => LeftAlone
  BY OverridesStay, Zenon DEF LeftAlone, ClusterKeeps, ClusterSame
<1> QED
  BY Zenon DEF StepKeeps, StartInv

\* A start that goes on has seen the API server answer.
LEMMA WaitForAPIServerKeeps == ASSUME StartInv, WaitForAPIServer PROVE StepKeeps
<1>1. /\ at = "api" /\ at' = "lease" /\ UNCHANGED <<in, got, outcome, calm, edited, edits, cuts>>
      /\ host' = host /\ guest' = guest /\ cluster' = cluster
  BY DEF WaitForAPIServer, Oc, At, Go
<1> /\ at = "api" /\ at' = "lease" /\ UNCHANGED <<in, got, outcome, calm, edited, edits, cuts>>
    /\ HostKeeps({}) /\ GuestKeeps({}) /\ ClusterKeeps({})
  BY <1>1, KeptAsIs, Zenon
<1> StartTypes' /\ Running' /\ OneLineEach(cluster.users)' /\ PairedOrNot(cluster.overrides)'
  BY Zenon, ZenonT(60) DEF StartInv, StartTypes, Running, HostKeeps, GuestKeeps, GuestSame, ClusterKeeps, ClusterSame
<1> CAsMade'
  BY DEF StartInv, CAsMade, FromClientCA, HostKeeps, HostSame, GuestKeeps, GuestSame, ClusterKeeps, ClusterSame
<1> GotKnown'
  BY Zenon DEF StartInv, GotKnown, FromKubeconfig, ClusterKeeps, ClusterSame
<1> GotShort'
  BY Lengths, Zenon DEF StartInv, GotShort
<1> SeenTo'
  BY Zenon DEF StartInv, SeenTo, Past, Reached, UntilSecret, UntilKey, UntilDisk, UntilProxyCA, UntilProxy, UntilHtpasswd, UntilId, UntilRoutes, FromRequestHeader, FromKubeconfig, HostKeeps, HostSame, GuestKeeps, GuestSame, ClusterKeeps, ClusterSame
<1> ExchangeWhole /\ Exchanged => Exchanged' /\ (SmoothStartSucceeds => SmoothStartSucceeds')
  BY Zenon DEF StartInv, Running, CAsMade, ExchangeWhole, Exchanged, Reached, FromStable, SmoothStartSucceeds, HostKeeps, HostSame, GuestKeeps, GuestSame, ClusterKeeps, ClusterSame
<1> (at # "idle" /\ edits' = edits /\ ~EditAnytime) => LeftAlone
  BY OverridesStay, Zenon DEF LeftAlone, ClusterKeeps, ClusterSame
<1> QED
  BY Zenon DEF StepKeeps, StartInv

\* The lease is deleted, or the start ends with an error if it is not there.
LEMMA DeleteMCOLeaderLeaseKeeps == ASSUME StartInv, DeleteMCOLeaderLease PROVE StepKeeps
<1> /\ at = "lease" /\ UNCHANGED <<in, calm, edited, edits, cuts>>
    /\ \/ cluster.lease /\ at' = "pullSecret" /\ UNCHANGED <<got, outcome>>
       \/ ~cluster.lease /\ at' = "idle" /\ outcome' = "error" /\ got' = <<>>
    /\ HostKeeps({}) /\ GuestKeeps({}) /\ ClusterKeeps({"lease"})
  <2> host \in HostType /\ guest \in GuestType /\ cluster \in ClusterType
    BY DEF StartInv, StartTypes
  <2>1. host' = host /\ guest' = guest /\ cluster' = [cluster EXCEPT !.lease = FALSE]
    BY DEF DeleteMCOLeaderLease
  <2>2. HostKeeps({}) /\ GuestKeeps({})
    BY <2>1, KeptAsIs
  <2>3. ClusterKeeps({"lease"})
    BY <2>1, ClusterGiven, Zenon
  <2> QED
    BY <2>2, <2>3 DEF DeleteMCOLeaderLease, Oc, At, Go, Leave
<1> StartTypes' /\ Running' /\ OneLineEach(cluster.users)' /\ PairedOrNot(cluster.overrides)'
  BY Zenon, ZenonT(60) DEF StartInv, StartTypes, Running, HostKeeps, GuestKeeps, GuestSame, ClusterKeeps, ClusterSame
<1> CAsMade'
  BY DEF StartInv, CAsMade, FromClientCA, HostKeeps, HostSame, GuestKeeps, GuestSame, ClusterKeeps, ClusterSame
<1> GotKnown'
  BY Zenon DEF StartInv, GotKnown, FromKubeconfig, ClusterKeeps, ClusterSame
<1> GotShort'
  BY Lengths, Zenon DEF StartInv, GotShort
<1> SeenTo'
  BY Zenon DEF StartInv, SeenTo, Past, Reached, UntilSecret, UntilKey, UntilDisk, UntilProxyCA, UntilProxy, UntilHtpasswd, UntilId, UntilRoutes, FromRequestHeader, FromKubeconfig, HostKeeps, HostSame, GuestKeeps, GuestSame, ClusterKeeps, ClusterSame
<1> ExchangeWhole /\ Exchanged => Exchanged' /\ (SmoothStartSucceeds => SmoothStartSucceeds')
  BY Zenon DEF StartInv, Running, CAsMade, ExchangeWhole, Exchanged, Reached, FromStable, SmoothStartSucceeds, HostKeeps, HostSame, GuestKeeps, GuestSame, ClusterKeeps, ClusterSame
<1> (at # "idle" /\ edits' = edits /\ ~EditAnytime) => LeftAlone
  BY OverridesStay, Zenon DEF LeftAlone, ClusterKeeps, ClusterSame
<1> QED
  BY Zenon DEF StepKeeps, StartInv

\* A pull secret that is not a valid one is replaced by a valid one, and a valid one stays.
LEMMA EnsurePullSecretPresentInTheClusterKeeps == ASSUME StartInv, EnsurePullSecretPresentInTheCluster PROVE StepKeeps
<1> /\ at = "pullSecret" /\ UNCHANGED <<in, calm, edited, edits, cuts>>
    /\ HostKeeps({"keyring"}) /\ GuestKeeps({}) /\ ClusterKeeps({"secret"})
    /\ ImagePullSecret(cluster.secret) => cluster'.secret = cluster.secret
    /\ \/ at' = "sshKey" /\ ImagePullSecret(cluster'.secret) /\ UNCHANGED <<got, outcome>>
       \/ at' = "idle" /\ outcome' = "noPullSecret" /\ got' = <<>>
  <2> host \in HostType /\ guest \in GuestType /\ cluster \in ClusterType /\ in \in Inputs
    BY DEF StartInv, StartTypes
  <2>1. at = "pullSecret" /\ UNCHANGED <<edited, edits, cuts>> /\ guest' = guest
    BY DEF EnsurePullSecretPresentInTheCluster, Oc, At
  <2>2. GuestKeeps({})
    BY <2>1, KeptAsIs, Zenon
  <2>3. CASE host' = host /\ cluster' = cluster
    <3>1. HostKeeps({"keyring"}) /\ ClusterKeeps({"secret"})
      BY <2>3 DEF HostKeeps, HostSame, ClusterKeeps, ClusterSame
    <3>2. CASE ImagePullSecret(cluster.secret)
      BY <2>1, <2>2, <2>3, <3>1, <3>2 DEF EnsurePullSecretPresentInTheCluster, Go
    <3>3. CASE ~ImagePullSecret(cluster.secret) /\ Value = "missing"
      BY <2>1, <2>2, <2>3, <3>1, <3>3 DEF EnsurePullSecretPresentInTheCluster, Leave, Missing
    <3>4. CASE ~ImagePullSecret(cluster.secret) /\ Value # "missing"
      <4>1. at' = "sshKey" /\ UNCHANGED <<in, got, outcome, calm>> /\ cluster' = [cluster EXCEPT !.secret = Value]
        BY <3>4 DEF EnsurePullSecretPresentInTheCluster, Go, Missing
      <4>2. Value \in Texts /\ ImagePullSecret(Value)
        BY <3>4, ValueValid
      <4>3. cluster'.secret = Value
        BY <4>1, <4>2, ClusterGiven
      <4> QED
        BY <2>1, <2>2, <3>1, <3>4, <4>1, <4>2, <4>3
    <3> QED
      BY <3>2, <3>3, <3>4, Zenon
  <2>4. CASE ~(host' = host /\ cluster' = cluster)
    <3>1. ~ImagePullSecret(cluster.secret) /\ Value # "missing"
      BY <2>4 DEF EnsurePullSecretPresentInTheCluster, Missing
    <3>2. at' = "sshKey" /\ UNCHANGED <<in, got, outcome, calm>> /\ StoreInKeyring
          /\ cluster' = [cluster EXCEPT !.secret = Value]
      BY <3>1 DEF EnsurePullSecretPresentInTheCluster, Go, Missing
    <3>3. Value \in Texts /\ ImagePullSecret(Value)
      BY <3>1, ValueValid
    <3>4. ClusterKeeps({"secret"}) /\ cluster'.secret = Value
      BY <3>2, <3>3, ClusterGiven
    <3>5. host' \in {host, [host EXCEPT !.keyring = in.prompt]}
      BY <3>2 DEF StoreInKeyring, promptUserForSecret
    <3>6. HostKeeps({"keyring"})
      <4>1. CASE host' = host
        BY <4>1 DEF HostKeeps, HostSame
      <4>2. CASE host' = [host EXCEPT !.keyring = in.prompt]
        <5>1. in.prompt \in Texts
          BY InputTypes, Zenon, ZenonT(60)
        <5> QED
          BY <4>2, <5>1, HostGiven
      <4> QED
        BY <3>5, <4>1, <4>2
    <3> QED
      BY <2>1, <2>2, <3>1, <3>2, <3>3, <3>4, <3>6
  <2> QED
    BY <2>3, <2>4
<1> StartTypes' /\ Running' /\ OneLineEach(cluster.users)' /\ PairedOrNot(cluster.overrides)'
  BY DEF StartInv, StartTypes, Running, HostKeeps, GuestKeeps, GuestSame, ClusterKeeps, ClusterSame
<1> CAsMade'
  BY Zenon DEF StartInv, CAsMade, FromClientCA, HostKeeps, HostSame, GuestKeeps, GuestSame, ClusterKeeps, ClusterSame
<1> GotKnown'
  BY Zenon DEF StartInv, GotKnown, FromKubeconfig, ClusterKeeps, ClusterSame
<1> GotShort'
  BY Lengths, Zenon DEF StartInv, GotShort
<1> SeenTo'
  BY Zenon DEF StartInv, SeenTo, Past, Reached, UntilSecret, UntilKey, UntilDisk, UntilProxyCA, UntilProxy, UntilHtpasswd, UntilId, UntilRoutes, FromRequestHeader, FromKubeconfig, HostKeeps, HostSame, GuestKeeps, GuestSame, ClusterKeeps, ClusterSame
<1> ExchangeWhole /\ Exchanged => Exchanged' /\ (SmoothStartSucceeds => SmoothStartSucceeds')
  BY Zenon DEF StartInv, Running, CAsMade, ExchangeWhole, Exchanged, Reached, FromStable, SmoothStartSucceeds, HostKeeps, HostSame, GuestKeeps, GuestSame, ClusterKeeps, ClusterSame
<1> (at # "idle" /\ edits' = edits /\ ~EditAnytime) => LeftAlone
  BY OverridesStay, Zenon, ZenonT(60) DEF LeftAlone, ClusterKeeps, ClusterSame
<1> QED
  BY Zenon DEF StepKeeps, StartInv

\* The key of the machine config is the user's afterwards.
LEMMA EnsureSSHKeyPresentInTheClusterKeeps == ASSUME StartInv, EnsureSSHKeyPresentInTheCluster PROVE StepKeeps
<1>1. /\ at = "sshKey" /\ at' = "disk" /\ UNCHANGED <<in, got, outcome, calm, edited, edits, cuts>>
      /\ host' = host /\ guest' = guest /\ cluster' = [cluster EXCEPT !.key = "user"]
  BY DEF EnsureSSHKeyPresentInTheCluster, Oc, At, Go
<1>2. "user" \in Texts
  BY DEF StartInv, StartTypes, HostType, GuestType, ClusterType, Texts
<1> /\ at = "sshKey" /\ at' = "disk" /\ UNCHANGED <<in, got, outcome, calm, edited, edits, cuts>>
    /\ HostKeeps({}) /\ GuestKeeps({}) /\ ClusterKeeps({"key"}) /\ cluster'.key = "user"
  BY <1>1, <1>2, KeptAsIs, ClusterGiven, Zenon, ZenonT(60)
<1> StartTypes' /\ Running' /\ OneLineEach(cluster.users)' /\ PairedOrNot(cluster.overrides)'
  BY DEF StartInv, StartTypes, Running, HostKeeps, GuestKeeps, GuestSame, ClusterKeeps, ClusterSame
<1> CAsMade'
  BY Zenon DEF StartInv, CAsMade, FromClientCA, HostKeeps, HostSame, GuestKeeps, GuestSame, ClusterKeeps, ClusterSame
<1> GotKnown'
  BY Zenon DEF StartInv, GotKnown, FromKubeconfig, ClusterKeeps, ClusterSame
<1> GotShort'
  BY Lengths, Zenon DEF StartInv, GotShort
<1> SeenTo'
  BY Zenon DEF StartInv, SeenTo, Past, Reached, UntilSecret, UntilKey, UntilDisk, UntilProxyCA, UntilProxy, UntilHtpasswd, UntilId, UntilRoutes, FromRequestHeader, FromKubeconfig, HostKeeps, HostSame, GuestKeeps, GuestSame, ClusterKeeps, ClusterSame
<1> ExchangeWhole /\ Exchanged => Exchanged' /\ (SmoothStartSucceeds => SmoothStartSucceeds')
  BY Zenon DEF StartInv, Running, CAsMade, ExchangeWhole, Exchanged, Reached, FromStable, SmoothStartSucceeds, HostKeeps, HostSame, GuestKeeps, GuestSame, ClusterKeeps, ClusterSame
<1> (at # "idle" /\ edits' = edits /\ ~EditAnytime) => LeftAlone
  BY OverridesStay, Zenon, ZenonT(60) DEF LeftAlone, ClusterKeeps, ClusterSame
<1> QED
  BY DEF StepKeeps, StartInv

\* A start that goes on has seen a valid pull secret on the disk.
LEMMA WaitForPullSecretPresentOnInstanceDiskKeeps == ASSUME StartInv, WaitForPullSecretPresentOnInstanceDisk PROVE StepKeeps
<1>1. /\ at = "disk" /\ at' = "proxy" /\ UNCHANGED <<in, got, outcome, calm, edited, edits, cuts>> /\ ImagePullSecret(guest.disk)
      /\ host' = host /\ guest' = guest /\ cluster' = cluster
  BY DEF WaitForPullSecretPresentOnInstanceDisk, Oc, At, Go
<1> /\ at = "disk" /\ at' = "proxy" /\ UNCHANGED <<in, got, outcome, calm, edited, edits, cuts>> /\ ImagePullSecret(guest.disk)
    /\ HostKeeps({}) /\ GuestKeeps({}) /\ ClusterKeeps({})
  BY <1>1, KeptAsIs, Zenon, ZenonT(60)
<1> StartTypes' /\ Running' /\ OneLineEach(cluster.users)' /\ PairedOrNot(cluster.overrides)'
  BY DEF StartInv, StartTypes, Running, HostKeeps, GuestKeeps, GuestSame, ClusterKeeps, ClusterSame
<1> CAsMade'
  BY Zenon DEF StartInv, CAsMade, FromClientCA, HostKeeps, HostSame, GuestKeeps, GuestSame, ClusterKeeps, ClusterSame
<1> GotKnown'
  BY Zenon DEF StartInv, GotKnown, FromKubeconfig, ClusterKeeps, ClusterSame
<1> GotShort'
  BY Lengths, Zenon DEF StartInv, GotShort
<1> SeenTo'
  BY Zenon DEF StartInv, SeenTo, Past, Reached, UntilSecret, UntilKey, UntilDisk, UntilProxyCA, UntilProxy, UntilHtpasswd, UntilId, UntilRoutes, FromRequestHeader, FromKubeconfig, HostKeeps, HostSame, GuestKeeps, GuestSame, ClusterKeeps, ClusterSame
<1> ExchangeWhole /\ Exchanged => Exchanged' /\ (SmoothStartSucceeds => SmoothStartSucceeds')
  BY Zenon DEF StartInv, Running, CAsMade, ExchangeWhole, Exchanged, Reached, FromStable, SmoothStartSucceeds, HostKeeps, HostSame, GuestKeeps, GuestSame, ClusterKeeps, ClusterSame
<1> (at # "idle" /\ edits' = edits /\ ~EditAnytime) => LeftAlone
  BY OverridesStay, Zenon, ZenonT(60) DEF LeftAlone, ClusterKeeps, ClusterSame
<1> QED
  BY DEF StepKeeps, StartInv

\* The CA of the proxy is there before the proxy refers to it.
LEMMA addProxyCACertToClusterKeeps == ASSUME StartInv, addProxyCACertToCluster PROVE StepKeeps
<1>1. /\ at = "proxy" /\ at' = "proxySpec" /\ UNCHANGED <<in, got, outcome, calm, edited, edits, cuts>> /\ in.proxy # "missing"
      /\ host' = host /\ guest' = guest /\ cluster' = [cluster EXCEPT !.proxyCA = IF in.proxyCA # "missing" THEN in.proxyCA ELSE cluster.proxyCA]
  BY DEF addProxyCACertToCluster, Oc, At, Go, Missing
<1>2. (IF in.proxyCA # "missing" THEN in.proxyCA ELSE cluster.proxyCA) \in Texts
  BY InputTypes, Zenon, ZenonT(60) DEF StartInv, StartTypes, HostType, GuestType, ClusterType, Texts
<1> /\ at = "proxy" /\ at' = "proxySpec" /\ UNCHANGED <<in, got, outcome, calm, edited, edits, cuts>> /\ in.proxy # "missing"
    /\ HostKeeps({}) /\ GuestKeeps({}) /\ ClusterKeeps({"proxyCA"}) /\ cluster'.proxyCA = (IF in.proxyCA # "missing" THEN in.proxyCA ELSE cluster.proxyCA)
  BY <1>1, <1>2, KeptAsIs, ClusterGiven
<1> StartTypes' /\ Running' /\ OneLineEach(cluster.users)' /\ PairedOrNot(cluster.overrides)'
  BY DEF StartInv, StartTypes, Running, HostKeeps, GuestKeeps, GuestSame, ClusterKeeps, ClusterSame
<1> CAsMade'
  BY Zenon DEF StartInv, CAsMade, FromClientCA, HostKeeps, HostSame, GuestKeeps, GuestSame, ClusterKeeps, ClusterSame
<1> GotKnown'
  BY Zenon DEF StartInv, GotKnown, FromKubeconfig, ClusterKeeps, ClusterSame
<1> GotShort'
  BY Lengths, Zenon DEF StartInv, GotShort
<1> SeenTo'
  BY Zenon DEF StartInv, SeenTo, Past, Reached, UntilSecret, UntilKey, UntilDisk, UntilProxyCA, UntilProxy, UntilHtpasswd, UntilId, UntilRoutes, FromRequestHeader, FromKubeconfig, HostKeeps, HostSame, GuestKeeps, GuestSame, ClusterKeeps, ClusterSame
<1> ExchangeWhole /\ Exchanged => Exchanged' /\ (SmoothStartSucceeds => SmoothStartSucceeds')
  BY Zenon DEF StartInv, Running, CAsMade, ExchangeWhole, Exchanged, Reached, FromStable, SmoothStartSucceeds, HostKeeps, HostSame, GuestKeeps, GuestSame, ClusterKeeps, ClusterSame
<1> (at # "idle" /\ edits' = edits /\ ~EditAnytime) => LeftAlone
  BY OverridesStay, Zenon, ZenonT(60) DEF LeftAlone, ClusterKeeps, ClusterSame
<1> QED
  BY DEF StepKeeps, StartInv

\* The proxy of the cluster is the one that was asked for.
LEMMA AddProxyConfigToClusterKeeps == ASSUME StartInv, AddProxyConfigToCluster PROVE StepKeeps
<1>1. /\ at = "proxySpec" /\ at' = "password" /\ UNCHANGED <<in, got, outcome, calm, edited, edits, cuts>>
      /\ host' = host /\ guest' = guest /\ cluster' = [cluster EXCEPT !.proxy = in.proxy]
  BY DEF AddProxyConfigToCluster, Oc, At, Go
<1>2. in.proxy \in Texts
  BY InputTypes, Zenon DEF StartInv, StartTypes, HostType, GuestType, ClusterType, Texts
<1> /\ at = "proxySpec" /\ at' = "password" /\ UNCHANGED <<in, got, outcome, calm, edited, edits, cuts>>
    /\ HostKeeps({}) /\ GuestKeeps({}) /\ ClusterKeeps({"proxy"}) /\ cluster'.proxy = in.proxy
  BY <1>1, <1>2, KeptAsIs, ClusterGiven, Zenon, ZenonT(60)
<1> StartTypes' /\ Running' /\ OneLineEach(cluster.users)' /\ PairedOrNot(cluster.overrides)'
  BY DEF StartInv, StartTypes, Running, HostKeeps, GuestKeeps, GuestSame, ClusterKeeps, ClusterSame
<1> CAsMade'
  BY Zenon DEF StartInv, CAsMade, FromClientCA, HostKeeps, HostSame, GuestKeeps, GuestSame, ClusterKeeps, ClusterSame
<1> GotKnown'
  BY Zenon DEF StartInv, GotKnown, FromKubeconfig, ClusterKeeps, ClusterSame
<1> GotShort'
  BY Lengths, Zenon DEF StartInv, GotShort
<1> SeenTo'
  BY Zenon DEF StartInv, SeenTo, Past, Reached, UntilSecret, UntilKey, UntilDisk, UntilProxyCA, UntilProxy, UntilHtpasswd, UntilId, UntilRoutes, FromRequestHeader, FromKubeconfig, HostKeeps, HostSame, GuestKeeps, GuestSame, ClusterKeeps, ClusterSame
<1> ExchangeWhole /\ Exchanged => Exchanged' /\ (SmoothStartSucceeds => SmoothStartSucceeds')
  BY Zenon DEF StartInv, Running, CAsMade, ExchangeWhole, Exchanged, Reached, FromStable, SmoothStartSucceeds, HostKeeps, HostSame, GuestKeeps, GuestSame, ClusterKeeps, ClusterSame
<1> (at # "idle" /\ edits' = edits /\ ~EditAnytime) => LeftAlone
  BY OverridesStay, Zenon, ZenonT(60) DEF LeftAlone, ClusterKeeps, ClusterSame
<1> QED
  BY DEF StepKeeps, StartInv

\* Whether there is a proxy to configure is decided by what the start was given.
LEMMA ensureProxyIsConfiguredInOpenShiftKeeps == ASSUME StartInv, ensureProxyIsConfiguredInOpenShift PROVE StepKeeps
<1>1. /\ at = "proxy" /\ at' = "password" /\ UNCHANGED <<in, got, outcome, calm, edited, edits, cuts>> /\ in.proxy = "missing"
      /\ host' = host /\ guest' = guest /\ cluster' = cluster
  BY DEF ensureProxyIsConfiguredInOpenShift, Oc, At, Go, Missing
<1> /\ at = "proxy" /\ at' = "password" /\ UNCHANGED <<in, got, outcome, calm, edited, edits, cuts>> /\ in.proxy = "missing"
    /\ HostKeeps({}) /\ GuestKeeps({}) /\ ClusterKeeps({})
  BY <1>1, KeptAsIs, Zenon, ZenonT(60)
<1> StartTypes' /\ Running' /\ OneLineEach(cluster.users)' /\ PairedOrNot(cluster.overrides)'
  BY DEF StartInv, StartTypes, Running, HostKeeps, GuestKeeps, GuestSame, ClusterKeeps, ClusterSame
<1> CAsMade'
  BY Zenon DEF StartInv, CAsMade, FromClientCA, HostKeeps, HostSame, GuestKeeps, GuestSame, ClusterKeeps, ClusterSame
<1> GotKnown'
  BY Zenon DEF StartInv, GotKnown, FromKubeconfig, ClusterKeeps, ClusterSame
<1> GotShort'
  BY Lengths, Zenon DEF StartInv, GotShort
<1> SeenTo'
  BY Zenon DEF StartInv, SeenTo, Past, Reached, UntilSecret, UntilKey, UntilDisk, UntilProxyCA, UntilProxy, UntilHtpasswd, UntilId, UntilRoutes, FromRequestHeader, FromKubeconfig, HostKeeps, HostSame, GuestKeeps, GuestSame, ClusterKeeps, ClusterSame
<1> ExchangeWhole /\ Exchanged => Exchanged' /\ (SmoothStartSucceeds => SmoothStartSucceeds')
  BY Zenon DEF StartInv, Running, CAsMade, ExchangeWhole, Exchanged, Reached, FromStable, SmoothStartSucceeds, HostKeeps, HostSame, GuestKeeps, GuestSame, ClusterKeeps, ClusterSame
<1> (at # "idle" /\ edits' = edits /\ ~EditAnytime) => LeftAlone
  BY OverridesStay, Zenon, ZenonT(60) DEF LeftAlone, ClusterKeeps, ClusterSame
<1> QED
  BY DEF StepKeeps, StartInv

\* The password is written to its file before it is patched into the cluster.
LEMMA WritePasswordKeeps == ASSUME StartInv, WritePassword PROVE StepKeeps
<1>1. /\ at = "password" /\ at' = "htpasswd" /\ UNCHANGED <<in, got, outcome, calm, edited, edits, cuts>>
      /\ host' = [host EXCEPT !.password = IF in.password # "missing" THEN in.password ELSE host.password] /\ guest' = guest /\ cluster' = cluster
  BY DEF WritePassword, Oc, At, Go, Missing
<1>2. (IF in.password # "missing" THEN in.password ELSE host.password) \in Texts
  BY InputTypes, Zenon, ZenonT(60) DEF StartInv, StartTypes, HostType, GuestType, ClusterType, Texts
<1> /\ at = "password" /\ at' = "htpasswd" /\ UNCHANGED <<in, got, outcome, calm, edited, edits, cuts>>
    /\ HostKeeps({"password"}) /\ host'.password = (IF in.password # "missing" THEN in.password ELSE host.password) /\ GuestKeeps({}) /\ ClusterKeeps({})
  BY <1>1, <1>2, HostGiven, KeptAsIs
<1> StartTypes' /\ Running' /\ OneLineEach(cluster.users)' /\ PairedOrNot(cluster.overrides)'
  BY DEF StartInv, StartTypes, Running, HostKeeps, GuestKeeps, GuestSame, ClusterKeeps, ClusterSame
<1> CAsMade'
  BY Zenon DEF StartInv, CAsMade, FromClientCA, HostKeeps, HostSame, GuestKeeps, GuestSame, ClusterKeeps, ClusterSame
<1> GotKnown'
  BY Zenon DEF StartInv, GotKnown, FromKubeconfig, ClusterKeeps, ClusterSame
<1> GotShort'
  BY Lengths, Zenon DEF StartInv, GotShort
<1> SeenTo'
  BY Zenon DEF StartInv, SeenTo, Past, Reached, UntilSecret, UntilKey, UntilDisk, UntilProxyCA, UntilProxy, UntilHtpasswd, UntilId, UntilRoutes, FromRequestHeader, FromKubeconfig, HostKeeps, HostSame, GuestKeeps, GuestSame, ClusterKeeps, ClusterSame
<1> ExchangeWhole /\ Exchanged => Exchanged' /\ (SmoothStartSucceeds => SmoothStartSucceeds')
  BY Zenon DEF StartInv, Running, CAsMade, ExchangeWhole, Exchanged, Reached, FromStable, SmoothStartSucceeds, HostKeeps, HostSame, GuestKeeps, GuestSame, ClusterKeeps, ClusterSame
<1> (at # "idle" /\ edits' = edits /\ ~EditAnytime) => LeftAlone
  BY OverridesStay, Zenon, ZenonT(60) DEF LeftAlone, ClusterKeeps, ClusterSame
<1> QED
  BY DEF StepKeeps, StartInv

\* The patch has the lines of the two users of crc, and those of the others as they were read.
LEMMA UpdateKubeAdminUserPasswordKeeps == ASSUME StartInv, UpdateKubeAdminUserPassword PROVE StepKeeps
<1>1. /\ at = "patchHtpasswd" /\ at' = "clusterId" /\ got' = <<got[1]>> /\ UNCHANGED <<in, outcome, calm, edited, edits, cuts>>
      /\ host' = host /\ guest' = guest /\ cluster' = [cluster EXCEPT !.users = getHtpasswd(got[2])]
  BY DEF UpdateKubeAdminUserPassword, At, Keep
<1>2. getHtpasswd(got[2]) \in SUBSET Lines
  BY UsersTyped
<1> /\ at = "patchHtpasswd" /\ at' = "clusterId" /\ got' = <<got[1]>> /\ UNCHANGED <<in, outcome, calm, edited, edits, cuts>>
    /\ HostKeeps({}) /\ GuestKeeps({}) /\ ClusterKeeps({"users"}) /\ cluster'.users = getHtpasswd(got[2])
  BY <1>1, <1>2, KeptAsIs, ClusterGiven, Zenon
<1> /\ OneLineEach(cluster'.users) /\ (~EditAnytime => OtherLines(cluster'.users) = OtherLines(cluster.users))
    /\ HasLine(cluster'.users, "kubeadmin", host.password) /\ HasLine(cluster'.users, "developer", "developer")
  BY LoginsWritten, Zenon, ZenonT(60) DEF StartInv, GotKnown
<1> StartTypes' /\ Running' /\ OneLineEach(cluster.users)' /\ PairedOrNot(cluster.overrides)'
  BY DEF StartInv, StartTypes, Running, HostKeeps, GuestKeeps, GuestSame, ClusterKeeps, ClusterSame
<1> CAsMade'
  BY Zenon DEF StartInv, CAsMade, FromClientCA, HostKeeps, HostSame, GuestKeeps, GuestSame, ClusterKeeps, ClusterSame
<1> GotKnown'
  BY Zenon DEF StartInv, GotKnown, FromKubeconfig, ClusterKeeps, ClusterSame
<1> GotShort'
  BY Lengths, Zenon DEF StartInv, GotShort
<1> SeenTo'
  BY Zenon DEF StartInv, SeenTo, Past, Reached, UntilSecret, UntilKey, UntilDisk, UntilProxyCA, UntilProxy, UntilHtpasswd, UntilId, UntilRoutes, FromRequestHeader, FromKubeconfig, HostKeeps, HostSame, GuestKeeps, GuestSame, ClusterKeeps, ClusterSame
<1> ExchangeWhole /\ Exchanged => Exchanged' /\ (SmoothStartSucceeds => SmoothStartSucceeds')
  BY Zenon DEF StartInv, Running, CAsMade, ExchangeWhole, Exchanged, Reached, FromStable, SmoothStartSucceeds, HostKeeps, HostSame, GuestKeeps, GuestSame, ClusterKeeps, ClusterSame
<1> (at # "idle" /\ edits' = edits /\ ~EditAnytime) => LeftAlone
  BY OverridesStay, Zenon, ZenonT(60) DEF LeftAlone, ClusterKeeps, ClusterSame
<1> QED
  BY DEF StepKeeps, StartInv

\* A cluster without an ID gets one, and one with an ID keeps it.
LEMMA EnsureClusterIDIsNotEmptyKeeps == ASSUME StartInv, EnsureClusterIDIsNotEmpty PROVE StepKeeps
<1>1. /\ at = "clusterId" /\ at' = "routes" /\ UNCHANGED <<in, got, outcome, calm, edited, edits, cuts>>
      /\ host' = host /\ guest' = guest /\ cluster' = [cluster EXCEPT !.id = IF cluster.id = "missing" THEN "id1" ELSE cluster.id]
  BY Zenon DEF EnsureClusterIDIsNotEmpty, Oc, At, Go, Missing
<1>2. (IF cluster.id = "missing" THEN "id1" ELSE cluster.id) \in Texts
  BY DEF StartInv, StartTypes, HostType, GuestType, ClusterType, Texts
<1> /\ at = "clusterId" /\ at' = "routes" /\ UNCHANGED <<in, got, outcome, calm, edited, edits, cuts>>
    /\ HostKeeps({}) /\ GuestKeeps({}) /\ ClusterKeeps({"id"}) /\ cluster'.id = (IF cluster.id = "missing" THEN "id1" ELSE cluster.id)
  BY <1>1, <1>2, KeptAsIs, ClusterGiven, Zenon, ZenonT(60)
<1> StartTypes' /\ Running' /\ OneLineEach(cluster.users)' /\ PairedOrNot(cluster.overrides)'
  BY DEF StartInv, StartTypes, Running, HostKeeps, GuestKeeps, GuestSame, ClusterKeeps, ClusterSame
<1> CAsMade'
  BY Zenon DEF StartInv, CAsMade, FromClientCA, HostKeeps, HostSame, GuestKeeps, GuestSame, ClusterKeeps, ClusterSame
<1> GotKnown'
  BY Zenon DEF StartInv, GotKnown, FromKubeconfig, ClusterKeeps, ClusterSame
<1> GotShort'
  BY Lengths, Zenon DEF StartInv, GotShort
<1> SeenTo'
  BY Zenon DEF StartInv, SeenTo, Past, Reached, UntilSecret, UntilKey, UntilDisk, UntilProxyCA, UntilProxy, UntilHtpasswd, UntilId, UntilRoutes, FromRequestHeader, FromKubeconfig, HostKeeps, HostSame, GuestKeeps, GuestSame, ClusterKeeps, ClusterSame
<1> ExchangeWhole /\ Exchanged => Exchanged' /\ (SmoothStartSucceeds => SmoothStartSucceeds')
  BY Zenon DEF StartInv, Running, CAsMade, ExchangeWhole, Exchanged, Reached, FromStable, SmoothStartSucceeds, HostKeeps, HostSame, GuestKeeps, GuestSame, ClusterKeeps, ClusterSame
<1> (at # "idle" /\ edits' = edits /\ ~EditAnytime) => LeftAlone
  BY OverridesStay, Zenon, ZenonT(60) DEF LeftAlone, ClusterKeeps, ClusterSame
<1> QED
  BY DEF StepKeeps, StartInv

\* The routes controller runs afterwards if the network of the user is used.
LEMMA ensureRoutesControllerIsRunningKeeps == ASSUME StartInv, ensureRoutesControllerIsRunning PROVE StepKeeps
<1>1. /\ at = "routes" /\ at' = "monitoring" /\ UNCHANGED <<in, got, outcome, calm, edited, edits, cuts>>
      /\ host' = host /\ guest' = guest /\ cluster' = [cluster EXCEPT !.routes = cluster.routes \/ in.vsock]
  BY DEF ensureRoutesControllerIsRunning, Oc, At, Go
<1>2. (cluster.routes \/ in.vsock) \in BOOLEAN
  BY InputTypes, Zenon DEF StartInv, StartTypes, HostType, GuestType, ClusterType, Texts
<1> /\ at = "routes" /\ at' = "monitoring" /\ UNCHANGED <<in, got, outcome, calm, edited, edits, cuts>>
    /\ HostKeeps({}) /\ GuestKeeps({}) /\ ClusterKeeps({"routes"}) /\ cluster'.routes = (cluster.routes \/ in.vsock)
  BY <1>1, <1>2, KeptAsIs, ClusterGiven, Zenon
<1> StartTypes' /\ Running' /\ OneLineEach(cluster.users)' /\ PairedOrNot(cluster.overrides)'
  BY Zenon DEF StartInv, StartTypes, Running, HostKeeps, GuestKeeps, GuestSame, ClusterKeeps, ClusterSame
<1> CAsMade'
  BY Zenon DEF StartInv, CAsMade, FromClientCA, HostKeeps, HostSame, GuestKeeps, GuestSame, ClusterKeeps, ClusterSame
<1> GotKnown'
  BY Zenon DEF StartInv, GotKnown, FromKubeconfig, ClusterKeeps, ClusterSame
<1> GotShort'
  BY Lengths, Zenon DEF StartInv, GotShort
<1> SeenTo'
  BY Zenon DEF StartInv, SeenTo, Past, Reached, UntilSecret, UntilKey, UntilDisk, UntilProxyCA, UntilProxy, UntilHtpasswd, UntilId, UntilRoutes, FromRequestHeader, FromKubeconfig, HostKeeps, HostSame, GuestKeeps, GuestSame, ClusterKeeps, ClusterSame
<1> ExchangeWhole /\ Exchanged => Exchanged' /\ (SmoothStartSucceeds => SmoothStartSucceeds')
  BY Zenon DEF StartInv, Running, CAsMade, ExchangeWhole, Exchanged, Reached, FromStable, SmoothStartSucceeds, HostKeeps, HostSame, GuestKeeps, GuestSame, ClusterKeeps, ClusterSame
<1> (at # "idle" /\ edits' = edits /\ ~EditAnytime) => LeftAlone
  BY OverridesStay, Zenon DEF LeftAlone, ClusterKeeps, ClusterSame
<1> QED
  BY DEF StepKeeps, StartInv

\* The two places that are kept are those of the overrides of the monitoring stack, in this order.
LEMMA GetOverridesKeeps == ASSUME StartInv, GetOverrides PROVE StepKeeps
<1> /\ at = "monitoring" /\ UNCHANGED <<in, outcome, calm, edited, edits, cuts>>
    /\ HostKeeps({}) /\ GuestKeeps({}) /\ ClusterKeeps({})
    /\ \/ at' = "requestHeader" /\ got' = got /\ (in.monitoring => NonePaired(cluster.overrides))
       \/ /\ at' = "patchOverrides"
          /\ \E i, j \in DOMAIN cluster.overrides : Paired(cluster.overrides, i, j) /\ got' = <<got[1], i - 1, j - 1>>
  <2> host \in HostType /\ guest \in GuestType /\ cluster \in ClusterType
    BY DEF StartInv, StartTypes
  <2>1. at = "monitoring" /\ UNCHANGED <<in, outcome, calm, edited, edits, cuts, host, guest, cluster>>
    BY DEF GetOverrides, At, Go, Keep
  <2>2. HostKeeps({}) /\ GuestKeeps({}) /\ ClusterKeeps({})
    BY <2>1, KeptAsIs
  <2> DEFINE o == cluster.overrides
  <2> DEFINE deployment == getIndexInOverridesForObjectName(o, "cluster-monitoring-operator")
  <2> DEFINE cvo == getIndexInOverridesForObjectName(o, "monitoring")
  <2>3. o \in Seq(STRING)
    BY DEF ClusterType
  <2>4. \/ in.monitoring /\ deployment < Len(o) /\ cvo < Len(o) /\ at' = "patchOverrides" /\ got' = <<got[1], deployment, cvo>>
        \/ ~(in.monitoring /\ deployment < Len(o) /\ cvo < Len(o)) /\ at' = "requestHeader" /\ got' = got
    BY Zenon, ZenonT(60) DEF GetOverrides, Go, Keep
  <2>5. CASE NonePaired(o)
    <3>1. deployment = Len(o) /\ Len(o) \in Nat
      BY <2>3, <2>5, IndexOf DEF NonePaired
    <3>2. ~(deployment < Len(o))
      BY <3>1
    <3> QED
      BY <2>1, <2>2, <2>4, <2>5, <3>2
  <2>6. ASSUME NEW i \in DOMAIN o, NEW j \in DOMAIN o, Paired(o, i, j)
        PROVE  /\ at' = "patchOverrides" => got' = <<got[1], i - 1, j - 1>>
               /\ at' = "requestHeader" => ~in.monitoring
    <3>1. deployment = i - 1 /\ cvo = j - 1
      BY <2>3, <2>6, IndexOf DEF Paired
    <3>2. i - 1 < Len(o) /\ j - 1 < Len(o)
      BY <2>3
    <3> QED
      BY <2>4, <3>1, <3>2
  <2> HIDE DEF deployment, cvo
  <2> QED
    BY <2>1, <2>2, <2>4, <2>5, <2>6 DEF StartInv, PairedOrNot
<1> StartTypes' /\ Running' /\ OneLineEach(cluster.users)' /\ PairedOrNot(cluster.overrides)'
  BY Zenon DEF StartInv, StartTypes, Running, HostKeeps, GuestKeeps, GuestSame, ClusterKeeps, ClusterSame
<1> CAsMade'
  BY Zenon, ZenonT(60) DEF StartInv, CAsMade, FromClientCA, HostKeeps, HostSame, GuestKeeps, GuestSame, ClusterKeeps, ClusterSame
<1> GotKnown'
  <2> at' = "patchOverrides" => FoundPair(cluster.overrides, got')
    BY DEF FoundPair
  <2> QED
    BY DEF StartInv, GotKnown, FromKubeconfig, ClusterKeeps, ClusterSame
<1> GotShort'
  BY Lengths, Zenon DEF StartInv, GotShort
<1> SeenTo'
  BY Zenon, ZenonT(60) DEF StartInv, SeenTo, Past, Reached, UntilSecret, UntilKey, UntilDisk, UntilProxyCA, UntilProxy, UntilHtpasswd, UntilId, UntilRoutes, FromRequestHeader, FromKubeconfig, HostKeeps, HostSame, GuestKeeps, GuestSame, ClusterKeeps, ClusterSame
<1> ExchangeWhole /\ Exchanged => Exchanged' /\ (SmoothStartSucceeds => SmoothStartSucceeds')
  BY Zenon DEF StartInv, Running, CAsMade, ExchangeWhole, Exchanged, Reached, FromStable, SmoothStartSucceeds, HostKeeps, HostSame, GuestKeeps, GuestSame, ClusterKeeps, ClusterSame
<1> (at # "idle" /\ edits' = edits /\ ~EditAnytime) => LeftAlone
  BY OverridesStay DEF LeftAlone, ClusterKeeps, ClusterSame
<1> QED
  BY Zenon, ZenonT(60) DEF StepKeeps, StartInv

\* The two overrides of the monitoring stack go, and those of others stay in their order.
LEMMA StartMonitoringKeeps == ASSUME StartInv, StartMonitoring PROVE StepKeeps
<1>1. /\ at = "patchOverrides" /\ at' = "requestHeader" /\ got' = <<got[1]>> /\ UNCHANGED <<in, outcome, calm, edited, edits, cuts>>
      /\ host' = host /\ guest' = guest /\ cluster' = [cluster EXCEPT !.overrides = RemoveAt(RemoveAt(cluster.overrides, got[2]), got[3] - 1)]
  BY DEF StartMonitoring, At, Keep
<1>2. (RemoveAt(RemoveAt(cluster.overrides, got[2]), got[3] - 1)) \in Seq(STRING)
  BY OverridesTyped
<1> /\ at = "patchOverrides" /\ at' = "requestHeader" /\ got' = <<got[1]>> /\ UNCHANGED <<in, outcome, calm, edited, edits, cuts>>
    /\ HostKeeps({}) /\ GuestKeeps({}) /\ ClusterKeeps({"overrides"}) /\ cluster'.overrides = (RemoveAt(RemoveAt(cluster.overrides, got[2]), got[3] - 1))
  BY <1>1, <1>2, KeptAsIs, ClusterGiven
<1> NonePaired(cluster'.overrides) /\ SameOthers(cluster.overrides, cluster'.overrides)
  BY OverridesTyped, Zenon
<1> StartTypes' /\ Running' /\ OneLineEach(cluster.users)' /\ PairedOrNot(cluster.overrides)'
  BY Zenon DEF StartInv, StartTypes, Running, HostKeeps, GuestKeeps, GuestSame, ClusterKeeps, ClusterSame, PairedOrNot
<1> CAsMade'
  BY Zenon DEF StartInv, CAsMade, FromClientCA, HostKeeps, HostSame, GuestKeeps, GuestSame, ClusterKeeps, ClusterSame
<1> GotKnown'
  BY Zenon DEF StartInv, GotKnown, FromKubeconfig, ClusterKeeps, ClusterSame
<1> GotShort'
  BY Lengths, Zenon DEF StartInv, GotShort
<1> SeenTo'
  BY Zenon DEF StartInv, SeenTo, Past, Reached, UntilSecret, UntilKey, UntilDisk, UntilProxyCA, UntilProxy, UntilHtpasswd, UntilId, UntilRoutes, FromRequestHeader, FromKubeconfig, HostKeeps, HostSame, GuestKeeps, GuestSame, ClusterKeeps, ClusterSame
<1> ExchangeWhole /\ Exchanged => Exchanged' /\ (SmoothStartSucceeds => SmoothStartSucceeds')
  BY Zenon DEF StartInv, Running, CAsMade, ExchangeWhole, Exchanged, Reached, FromStable, SmoothStartSucceeds, HostKeeps, HostSame, GuestKeeps, GuestSame, ClusterKeeps, ClusterSame
<1> (at # "idle" /\ edits' = edits /\ ~EditAnytime) => LeftAlone
  BY Zenon DEF LeftAlone, ClusterKeeps, ClusterSame
<1> QED
  BY Zenon DEF StepKeeps, StartInv

\* With the aggregator's certificate renewed, the API server is one that knows it.
LEMMA DeleteOpenshiftAPIServerPodsKeeps == ASSUME StartInv, DeleteOpenshiftAPIServerPods PROVE StepKeeps
<1>1. /\ at = "requestHeader" /\ at' = "kubeconfig" /\ UNCHANGED <<in, got, outcome, calm, edited, edits, cuts>>
      /\ host' = host /\ guest' = guest /\ cluster' = [cluster EXCEPT !.apiserver = IF got[1] = "expired" THEN "up" ELSE cluster.apiserver]
  BY Zenon DEF DeleteOpenshiftAPIServerPods, Oc, At, Go
<1>2. (IF got[1] = "expired" THEN "up" ELSE cluster.apiserver) \in {"up", "stale", "down"}
  BY DEF StartInv, StartTypes, HostType, GuestType, ClusterType, Texts
<1> /\ at = "requestHeader" /\ at' = "kubeconfig" /\ UNCHANGED <<in, got, outcome, calm, edited, edits, cuts>>
    /\ HostKeeps({}) /\ GuestKeeps({}) /\ ClusterKeeps({"apiserver"}) /\ cluster'.apiserver = (IF got[1] = "expired" THEN "up" ELSE cluster.apiserver)
  BY <1>1, <1>2, KeptAsIs, ClusterGiven, Zenon, ZenonT(60)
<1> StartTypes' /\ Running' /\ OneLineEach(cluster.users)' /\ PairedOrNot(cluster.overrides)'
  BY DEF StartInv, StartTypes, Running, HostKeeps, GuestKeeps, GuestSame, ClusterKeeps, ClusterSame
<1> CAsMade'
  BY Zenon DEF StartInv, CAsMade, FromClientCA, HostKeeps, HostSame, GuestKeeps, GuestSame, ClusterKeeps, ClusterSame
<1> GotKnown'
  BY Zenon DEF StartInv, GotKnown, FromKubeconfig, ClusterKeeps, ClusterSame
<1> GotShort'
  BY Lengths, Zenon DEF StartInv, GotShort
<1> SeenTo'
  <2> cluster'.apiserver = "up"
    BY Zenon DEF StartInv, GotKnown, FromKubeconfig
  <2> QED
    BY Zenon DEF StartInv, SeenTo, Past, Reached, UntilSecret, UntilKey, UntilDisk, UntilProxyCA, UntilProxy, UntilHtpasswd, UntilId, UntilRoutes, FromRequestHeader, FromKubeconfig, HostKeeps, HostSame, GuestKeeps, GuestSame, ClusterKeeps, ClusterSame
<1> ExchangeWhole /\ Exchanged => Exchanged' /\ (SmoothStartSucceeds => SmoothStartSucceeds')
  BY Zenon DEF StartInv, Running, CAsMade, ExchangeWhole, Exchanged, Reached, FromStable, SmoothStartSucceeds, HostKeeps, HostSame, GuestKeeps, GuestSame, ClusterKeeps, ClusterSame
<1> (at # "idle" /\ edits' = edits /\ ~EditAnytime) => LeftAlone
  BY OverridesStay, Zenon DEF LeftAlone, ClusterKeeps, ClusterSame
<1> QED
  BY Zenon DEF StepKeeps, StartInv

\* A CA is generated, and a kubeconfig that is not there yet gets a certificate of it.
LEMMA updateKubeconfigKeeps == ASSUME StartInv, updateKubeconfig PROVE StepKeeps
<1> /\ at = "kubeconfig" /\ at' = "clientCA" /\ UNCHANGED <<in, got, outcome, calm, edited, edits, cuts>>
    /\ HostKeeps({"cas", "ca", "kubeconfig"}) /\ GuestKeeps({}) /\ ClusterKeeps({})
    /\ host'.cas = host.cas + 1 /\ host'.ca = CAs[host.cas + 1]
    /\ host'.kubeconfig = IF host.kubeconfig = "missing" THEN CAs[host.cas + 1] ELSE host.kubeconfig
  <2> host \in HostType /\ guest \in GuestType /\ cluster \in ClusterType
    BY DEF StartInv, StartTypes
  <2>1. at = "kubeconfig" /\ at' = "clientCA" /\ UNCHANGED <<in, got, outcome, calm, edited, edits, cuts, guest, cluster>>
    BY DEF updateKubeconfig, At, Go
  <2>2. GuestKeeps({}) /\ ClusterKeeps({})
    BY <2>1, KeptAsIs
  <2> DEFINE ca == CAs[host.cas + 1]
  <2> DEFINE key == IF host.kubeconfig = "missing" THEN ca ELSE host.kubeconfig
  <2>3. host.cas \in 0..Len(CAs) /\ host.cas < Len(CAs) /\ host.kubeconfig \in Texts
    BY <2>1 DEF HostType, StartInv, CAsMade, FromClientCA
  <2>4. host.cas + 1 \in 1..Len(CAs)
    BY <2>3, StartAssumption
  <2>5. ca \in Texts /\ key \in Texts
    BY <2>3, <2>4, StartAssumption DEF Texts
  <2>6. host' = [host EXCEPT !.cas = host.cas + 1, !.ca = ca, !.kubeconfig = key]
    BY DEF updateKubeconfig, GetSelfSignedCA, copyKubeconfigFileWithUpdatedUserClientCertAndKey,
           GenerateClientCertificate, Missing
  <2>7. host' = [kubeconfig |-> key, password |-> host.password, keyring |-> host.keyring, cas |-> host.cas + 1, ca |-> ca]
    <3> HIDE DEF ca, key
    <3> QED
      BY <2>6, Zenon, ZenonT(60) DEF HostType
  <2> HIDE DEF ca, key
  <2>8. HostKeeps({"cas", "ca", "kubeconfig"}) /\ host'.cas = host.cas + 1 /\ host'.ca = ca /\ host'.kubeconfig = key
    BY <2>4, <2>5, <2>7, SMT, SMTT(30) DEF HostKeeps, HostSame, HostType
  <2> QED
    BY <2>1, <2>2, <2>8 DEF ca, key
<1> StartTypes' /\ Running' /\ OneLineEach(cluster.users)' /\ PairedOrNot(cluster.overrides)'
  BY Zenon DEF StartInv, StartTypes, Running, HostKeeps, GuestKeeps, GuestSame, ClusterKeeps, ClusterSame
<1> CAsMade'
  <2> host.cas \in Nat
    BY DEF StartInv, StartTypes, HostType
  <2> Made(host.cas) \subseteq Made(host.cas + 1) /\ CAs[host.cas + 1] \in Made(host.cas + 1)
    BY MadeGrows, Zenon, ZenonT(60)
  <2> CAs[host.cas + 1] # "missing"
    BY StartAssumption DEF StartInv, StartTypes, HostType, CAsMade, FromClientCA
  <2> guest'.vm
    BY Zenon DEF StartInv, Running, GuestKeeps, GuestSame
  <2> cluster'.ca = cluster.ca /\ guest'.kubeconfig = guest.kubeconfig
    BY Zenon DEF GuestKeeps, GuestSame, ClusterKeeps, ClusterSame
  <2> {host.kubeconfig, cluster.ca, guest.kubeconfig} \subseteq Made(host.cas + 1) /\ cluster.ca # "missing"
    BY Zenon DEF StartInv, CAsMade
  <2> QED
    BY Zenon, ZenonT(60) DEF CAsMade, FromClientCA
<1> GotKnown'
  BY Zenon DEF StartInv, GotKnown, FromKubeconfig, ClusterKeeps, ClusterSame
<1> GotShort'
  BY Lengths, Zenon DEF StartInv, GotShort
<1> SeenTo'
  BY Zenon DEF StartInv, SeenTo, Past, Reached, UntilSecret, UntilKey, UntilDisk, UntilProxyCA, UntilProxy, UntilHtpasswd, UntilId, UntilRoutes, FromRequestHeader, FromKubeconfig, HostKeeps, HostSame, GuestKeeps, GuestSame, ClusterKeeps, ClusterSame
<1> ExchangeWhole /\ Exchanged => Exchanged' /\ (SmoothStartSucceeds => SmoothStartSucceeds')
  BY Zenon DEF StartInv, Running, CAsMade, ExchangeWhole, Exchanged, Reached, FromStable, SmoothStartSucceeds, HostKeeps, HostSame, GuestKeeps, GuestSame, ClusterKeeps, ClusterSame
<1> (at # "idle" /\ edits' = edits /\ ~EditAnytime) => LeftAlone
  BY OverridesStay, Zenon DEF LeftAlone, ClusterKeeps, ClusterSame
<1> QED
  BY Zenon DEF StepKeeps, StartInv

\* A CA of the cluster that has signed the kubeconfig is kept.
LEMMA VerifyClientCAKeeps == ASSUME StartInv, VerifyClientCA PROVE StepKeeps
<1>1. /\ at = "clientCA" /\ at' = (IF cluster.ca = host.kubeconfig THEN "stable" ELSE "patchCA") /\ UNCHANGED <<in, got, outcome, calm, edited, edits, cuts>>
      /\ host' = host /\ guest' = guest /\ cluster' = cluster
  BY Zenon DEF VerifyClientCA, Oc, At, Go, VerifyCertificateAgainstRootCA
<1> /\ at = "clientCA" /\ at' = (IF cluster.ca = host.kubeconfig THEN "stable" ELSE "patchCA") /\ UNCHANGED <<in, got, outcome, calm, edited, edits, cuts>>
    /\ HostKeeps({}) /\ GuestKeeps({}) /\ ClusterKeeps({})
  BY <1>1, KeptAsIs, Zenon
<1> StartTypes' /\ Running' /\ OneLineEach(cluster.users)' /\ PairedOrNot(cluster.overrides)'
  BY Zenon DEF StartInv, StartTypes, Running, HostKeeps, GuestKeeps, GuestSame, ClusterKeeps, ClusterSame
<1> CAsMade'
  BY Zenon DEF StartInv, CAsMade, FromClientCA, HostKeeps, HostSame, GuestKeeps, GuestSame, ClusterKeeps, ClusterSame
<1> GotKnown'
  BY Zenon DEF StartInv, GotKnown, FromKubeconfig, ClusterKeeps, ClusterSame
<1> GotShort'
  BY Lengths, Zenon DEF StartInv, GotShort
<1> SeenTo'
  BY Zenon DEF StartInv, SeenTo, Past, Reached, UntilSecret, UntilKey, UntilDisk, UntilProxyCA, UntilProxy, UntilHtpasswd, UntilId, UntilRoutes, FromRequestHeader, FromKubeconfig, HostKeeps, HostSame, GuestKeeps, GuestSame, ClusterKeeps, ClusterSame
<1> ExchangeWhole /\ Exchanged => Exchanged' /\ (SmoothStartSucceeds => SmoothStartSucceeds')
  BY Zenon DEF StartInv, Running, CAsMade, ExchangeWhole, Exchanged, Reached, FromStable, SmoothStartSucceeds, HostKeeps, HostSame, GuestKeeps, GuestSame, ClusterKeeps, ClusterSame
<1> (at # "idle" /\ edits' = edits /\ ~EditAnytime) => LeftAlone
  BY OverridesStay, Zenon, ZenonT(60) DEF LeftAlone, ClusterKeeps, ClusterSame
<1> QED
  BY Zenon DEF StepKeeps, StartInv

\* The CA of the cluster becomes the one that this start has generated.
LEMMA EnsureGeneratedClientCAPresentInTheClusterKeeps == ASSUME StartInv, EnsureGeneratedClientCAPresentInTheCluster PROVE StepKeeps
<1>1. /\ at = "patchCA" /\ at' = "copyKubeconfig" /\ UNCHANGED <<in, got, outcome, calm, edited, edits, cuts>>
      /\ host' = host /\ guest' = guest /\ cluster' = [cluster EXCEPT !.ca = host.ca]
  BY Zenon DEF EnsureGeneratedClientCAPresentInTheCluster, Oc, At, Go
<1>2. host.ca \in Texts
  BY DEF StartInv, StartTypes, HostType, GuestType, ClusterType, Texts
<1> /\ at = "patchCA" /\ at' = "copyKubeconfig" /\ UNCHANGED <<in, got, outcome, calm, edited, edits, cuts>>
    /\ HostKeeps({}) /\ GuestKeeps({}) /\ ClusterKeeps({"ca"}) /\ cluster'.ca = host.ca
  BY <1>1, <1>2, KeptAsIs, ClusterGiven
<1> StartTypes' /\ Running' /\ OneLineEach(cluster.users)' /\ PairedOrNot(cluster.overrides)'
  BY Zenon DEF StartInv, StartTypes, Running, HostKeeps, GuestKeeps, GuestSame, ClusterKeeps, ClusterSame
<1> CAsMade'
  BY Zenon DEF StartInv, CAsMade, FromClientCA, HostKeeps, HostSame, GuestKeeps, GuestSame, ClusterKeeps, ClusterSame
<1> GotKnown'
  BY Zenon DEF StartInv, GotKnown, FromKubeconfig, ClusterKeeps, ClusterSame
<1> GotShort'
  BY Lengths, Zenon DEF StartInv, GotShort
<1> SeenTo'
  BY Zenon DEF StartInv, SeenTo, Past, Reached, UntilSecret, UntilKey, UntilDisk, UntilProxyCA, UntilProxy, UntilHtpasswd, UntilId, UntilRoutes, FromRequestHeader, FromKubeconfig, HostKeeps, HostSame, GuestKeeps, GuestSame, ClusterKeeps, ClusterSame
<1> ExchangeWhole /\ Exchanged => Exchanged' /\ (SmoothStartSucceeds => SmoothStartSucceeds')
  BY Zenon DEF StartInv, Running, CAsMade, ExchangeWhole, Exchanged, Reached, FromStable, SmoothStartSucceeds, HostKeeps, HostSame, GuestKeeps, GuestSame, ClusterKeeps, ClusterSame
<1> (at # "idle" /\ edits' = edits /\ ~EditAnytime) => LeftAlone
  BY OverridesStay, Zenon, ZenonT(60) DEF LeftAlone, ClusterKeeps, ClusterSame
<1> QED
  BY DEF StepKeeps, StartInv

\* The kubeconfig of the VM becomes that of the host, which ends the exchange.
LEMMA CopyKubeconfigKeeps == ASSUME StartInv, CopyKubeconfig PROVE StepKeeps
<1>1. /\ at = "copyKubeconfig" /\ at' = "stable" /\ UNCHANGED <<in, got, outcome, calm, edited, edits, cuts>>
      /\ host' = host /\ guest' = [guest EXCEPT !.kubeconfig = host.kubeconfig] /\ cluster' = cluster
  BY Zenon DEF CopyKubeconfig, Oc, At, Go
<1>2. host.kubeconfig \in Texts
  BY DEF StartInv, StartTypes, HostType, GuestType, ClusterType, Texts
<1> /\ at = "copyKubeconfig" /\ at' = "stable" /\ UNCHANGED <<in, got, outcome, calm, edited, edits, cuts>>
    /\ HostKeeps({}) /\ GuestKeeps({"kubeconfig"}) /\ guest'.kubeconfig = host.kubeconfig /\ ClusterKeeps({})
  BY <1>1, <1>2, KeptAsIs, GuestGiven
<1> StartTypes' /\ Running' /\ OneLineEach(cluster.users)' /\ PairedOrNot(cluster.overrides)'
  BY Zenon DEF StartInv, StartTypes, Running, HostKeeps, GuestKeeps, GuestSame, ClusterKeeps, ClusterSame
<1> CAsMade'
  BY Zenon DEF StartInv, CAsMade, FromClientCA, HostKeeps, HostSame, GuestKeeps, GuestSame, ClusterKeeps, ClusterSame
<1> GotKnown'
  BY Zenon DEF StartInv, GotKnown, FromKubeconfig, ClusterKeeps, ClusterSame
<1> GotShort'
  BY Lengths, Zenon DEF StartInv, GotShort
<1> SeenTo'
  BY Zenon DEF StartInv, SeenTo, Past, Reached, UntilSecret, UntilKey, UntilDisk, UntilProxyCA, UntilProxy, UntilHtpasswd, UntilId, UntilRoutes, FromRequestHeader, FromKubeconfig, HostKeeps, HostSame, GuestKeeps, GuestSame, ClusterKeeps, ClusterSame
<1> ExchangeWhole /\ Exchanged => Exchanged' /\ (SmoothStartSucceeds => SmoothStartSucceeds')
  BY Zenon DEF StartInv, Running, CAsMade, ExchangeWhole, Exchanged, Reached, FromStable, SmoothStartSucceeds, HostKeeps, HostSame, GuestKeeps, GuestSame, ClusterKeeps, ClusterSame
<1> (at # "idle" /\ edits' = edits /\ ~EditAnytime) => LeftAlone
  BY OverridesStay, Zenon DEF LeftAlone, ClusterKeeps, ClusterSame
<1> QED
  BY DEF StepKeeps, StartInv

\* Waiting for the proxy to be known to the operators changes nothing.
LEMMA waitForProxyPropagationKeeps == ASSUME StartInv, waitForProxyPropagation PROVE StepKeeps
<1>1. /\ at = "stable" /\ at' = "writeKubeconfig" /\ UNCHANGED <<in, got, outcome, calm, edited, edits, cuts>>
      /\ host' = host /\ guest' = guest /\ cluster' = cluster
  BY DEF waitForProxyPropagation, Oc, At, Go
<1> /\ at = "stable" /\ at' = "writeKubeconfig" /\ UNCHANGED <<in, got, outcome, calm, edited, edits, cuts>>
    /\ HostKeeps({}) /\ GuestKeeps({}) /\ ClusterKeeps({})
  BY <1>1, KeptAsIs, Zenon, ZenonT(60)
<1> StartTypes' /\ Running' /\ OneLineEach(cluster.users)' /\ PairedOrNot(cluster.overrides)'
  BY DEF StartInv, StartTypes, Running, HostKeeps, GuestKeeps, GuestSame, ClusterKeeps, ClusterSame
<1> CAsMade'
  BY Zenon DEF StartInv, CAsMade, FromClientCA, HostKeeps, HostSame, GuestKeeps, GuestSame, ClusterKeeps, ClusterSame
<1> GotKnown'
  BY Zenon DEF StartInv, GotKnown, FromKubeconfig, ClusterKeeps, ClusterSame
<1> GotShort'
  BY Lengths, Zenon DEF StartInv, GotShort
<1> SeenTo'
  BY Zenon DEF StartInv, SeenTo, Past, Reached, UntilSecret, UntilKey, UntilDisk, UntilProxyCA, UntilProxy, UntilHtpasswd, UntilId, UntilRoutes, FromRequestHeader, FromKubeconfig, HostKeeps, HostSame, GuestKeeps, GuestSame, ClusterKeeps, ClusterSame
<1> ExchangeWhole /\ Exchanged => Exchanged' /\ (SmoothStartSucceeds => SmoothStartSucceeds')
  BY Zenon DEF StartInv, Running, CAsMade, ExchangeWhole, Exchanged, Reached, FromStable, SmoothStartSucceeds, HostKeeps, HostSame, GuestKeeps, GuestSame, ClusterKeeps, ClusterSame
<1> (at # "idle" /\ edits' = edits /\ ~EditAnytime) => LeftAlone
  BY OverridesStay, Zenon, ZenonT(60) DEF LeftAlone, ClusterKeeps, ClusterSame
<1> QED
  BY Zenon DEF StepKeeps, StartInv

\* A start that returns nil has been at every place, and what each was for is seen to.
LEMMA SucceedKeeps == ASSUME StartInv, Succeed PROVE StepKeeps
<1>1. /\ at = "writeKubeconfig" /\ at' = "idle" /\ outcome' = "ok" /\ got' = <<>> /\ UNCHANGED <<in, calm, edited, edits, cuts>>
      /\ host' = host /\ guest' = guest /\ cluster' = cluster
  BY DEF Succeed, At, Leave
<1> /\ at = "writeKubeconfig" /\ at' = "idle" /\ outcome' = "ok" /\ got' = <<>> /\ UNCHANGED <<in, calm, edited, edits, cuts>>
    /\ HostKeeps({}) /\ GuestKeeps({}) /\ ClusterKeeps({})
  BY <1>1, KeptAsIs, Zenon, ZenonT(60)
<1> StartTypes' /\ Running' /\ OneLineEach(cluster.users)' /\ PairedOrNot(cluster.overrides)'
  BY DEF StartInv, StartTypes, Running, HostKeeps, GuestKeeps, GuestSame, ClusterKeeps, ClusterSame
<1> CAsMade'
  BY Zenon DEF StartInv, CAsMade, FromClientCA, HostKeeps, HostSame, GuestKeeps, GuestSame, ClusterKeeps, ClusterSame
<1> GotKnown'
  BY Zenon DEF StartInv, GotKnown, FromKubeconfig, ClusterKeeps, ClusterSame
<1> GotShort'
  BY Lengths, Zenon DEF StartInv, GotShort
<1> SeenTo'
  BY Zenon DEF StartInv, SeenTo, Past, Reached, UntilSecret, UntilKey, UntilDisk, UntilProxyCA, UntilProxy, UntilHtpasswd, UntilId, UntilRoutes, FromRequestHeader, FromKubeconfig, HostKeeps, HostSame, GuestKeeps, GuestSame, ClusterKeeps, ClusterSame
<1> ExchangeWhole /\ Exchanged => Exchanged' /\ (SmoothStartSucceeds => SmoothStartSucceeds')
  BY Zenon DEF StartInv, Running, CAsMade, ExchangeWhole, Exchanged, Reached, FromStable, SmoothStartSucceeds, HostKeeps, HostSame, GuestKeeps, GuestSame, ClusterKeeps, ClusterSame
<1> (at # "idle" /\ edits' = edits /\ ~EditAnytime) => LeftAlone
  BY OverridesStay, Zenon DEF LeftAlone, ClusterKeeps, ClusterSame
<1> QED
  BY DEF StepKeeps, StartInv

\* A wait that runs out ends the start, with what it has done so far.
LEMMA RunOutKeeps == ASSUME StartInv, RunOut PROVE StepKeeps
<1> /\ at' = "idle" /\ outcome' = "timeout" /\ got' = <<>> /\ UNCHANGED <<in, calm, edited, edits, cuts>>
    /\ HostKeeps({}) /\ GuestKeeps({}) /\ ClusterKeeps({})
    /\ \/ /\ at \in {"api", "lease", "pullSecret", "sshKey", "proxy", "htpasswd", "clusterId", "clientCA"}
          /\ ~(guest.kubelet /\ guest.kubeconfig = cluster.ca)
       \/ at = "disk" /\ guest.disk = cluster.secret /\ ~ImagePullSecret(guest.disk)
  <2> host \in HostType /\ guest \in GuestType /\ cluster \in ClusterType
    BY DEF StartInv, StartTypes
  <2>1. host' = host /\ guest' = guest /\ cluster' = cluster
    BY DEF RunOut
  <2>2. HostKeeps({}) /\ GuestKeeps({}) /\ ClusterKeeps({})
    BY <2>1, KeptAsIs
  <2> QED
    BY <2>2 DEF RunOut, Leave, OcAnswers, At
<1> StartTypes' /\ Running' /\ OneLineEach(cluster.users)' /\ PairedOrNot(cluster.overrides)'
  BY Zenon DEF StartInv, StartTypes, Running, HostKeeps, GuestKeeps, GuestSame, ClusterKeeps, ClusterSame
<1> CAsMade'
  BY Zenon DEF StartInv, CAsMade, FromClientCA, HostKeeps, HostSame, GuestKeeps, GuestSame, ClusterKeeps, ClusterSame
<1> GotKnown'
  BY Zenon DEF StartInv, GotKnown, FromKubeconfig, ClusterKeeps, ClusterSame
<1> GotShort'
  BY Lengths, Zenon DEF StartInv, GotShort
<1> SeenTo'
  BY Zenon DEF StartInv, SeenTo, Past, Reached, UntilSecret, UntilKey, UntilDisk, UntilProxyCA, UntilProxy, UntilHtpasswd, UntilId, UntilRoutes, FromRequestHeader, FromKubeconfig, HostKeeps, HostSame, GuestKeeps, GuestSame, ClusterKeeps, ClusterSame
<1> ExchangeWhole /\ Exchanged => Exchanged' /\ (SmoothStartSucceeds => SmoothStartSucceeds')
  BY Zenon DEF StartInv, Running, CAsMade, ExchangeWhole, Exchanged, Reached, FromStable, SmoothStartSucceeds, HostKeeps, HostSame, GuestKeeps, GuestSame, ClusterKeeps, ClusterSame, SeenTo, Past, UntilSecret
<1> (at # "idle" /\ edits' = edits /\ ~EditAnytime) => LeftAlone
  BY OverridesStay, Zenon, ZenonT(60) DEF LeftAlone, ClusterKeeps, ClusterSame
<1> QED
  BY Zenon, ZenonT(60) DEF StepKeeps, StartInv

\* A start that is cut short leaves what it has done so far.
LEMMA CutShortKeeps == ASSUME StartInv, CutShort PROVE StepKeeps
<1>1. /\ at \notin {"idle"} \cup Uncut /\ at' = "idle" /\ outcome' = "error" /\ got' = <<>> /\ calm' = FALSE /\ cuts < MaxCuts /\ cuts' = cuts + 1 /\ UNCHANGED <<in, edited, edits>>
      /\ host' = host /\ guest' = guest /\ cluster' = cluster
  BY DEF CutShort
<1> /\ at \notin {"idle"} \cup Uncut /\ at' = "idle" /\ outcome' = "error" /\ got' = <<>> /\ calm' = FALSE /\ cuts < MaxCuts /\ cuts' = cuts + 1 /\ UNCHANGED <<in, edited, edits>>
    /\ HostKeeps({}) /\ GuestKeeps({}) /\ ClusterKeeps({})
  BY <1>1, KeptAsIs
<1> StartTypes' /\ Running' /\ OneLineEach(cluster.users)' /\ PairedOrNot(cluster.overrides)'
  <2> cuts' \in 0..MaxCuts
    BY WithinBound, Zenon DEF StartInv, StartTypes
  <2> QED
    BY Zenon DEF StartInv, StartTypes, Running, HostKeeps, GuestKeeps, GuestSame, ClusterKeeps, ClusterSame
<1> CAsMade'
  BY Zenon DEF StartInv, CAsMade, FromClientCA, HostKeeps, HostSame, GuestKeeps, GuestSame, ClusterKeeps, ClusterSame
<1> GotKnown'
  BY Zenon DEF StartInv, GotKnown, FromKubeconfig, ClusterKeeps, ClusterSame
<1> GotShort'
  BY Lengths, Zenon DEF StartInv, GotShort
<1> SeenTo'
  BY Zenon DEF StartInv, SeenTo, Past, Reached, UntilSecret, UntilKey, UntilDisk, UntilProxyCA, UntilProxy, UntilHtpasswd, UntilId, UntilRoutes, FromRequestHeader, FromKubeconfig, HostKeeps, HostSame, GuestKeeps, GuestSame, ClusterKeeps, ClusterSame
<1> ExchangeWhole /\ Exchanged => Exchanged' /\ (SmoothStartSucceeds => SmoothStartSucceeds')
  BY Zenon DEF StartInv, Running, CAsMade, ExchangeWhole, Exchanged, Reached, FromStable, SmoothStartSucceeds, HostKeeps, HostSame, GuestKeeps, GuestSame, ClusterKeeps, ClusterSame
<1> (at # "idle" /\ edits' = edits /\ ~EditAnytime) => LeftAlone
  BY OverridesStay, Zenon DEF LeftAlone, ClusterKeeps, ClusterSame
<1> QED
  BY DEF StepKeeps, StartInv

\* The operator brings the pull secret of the cluster to the disk, in its own time.
LEMMA SyncKeeps == ASSUME StartInv, Sync PROVE StepKeeps
<1>1. /\ guest.kubelet /\ UNCHANGED <<at, in, got, outcome, calm, edited, edits, cuts>>
      /\ host' = host /\ guest' = [guest EXCEPT !.disk = cluster.secret] /\ cluster' = cluster
  BY Zenon DEF Sync, start
<1>2. cluster.secret \in Texts
  BY DEF StartInv, StartTypes, HostType, GuestType, ClusterType, Texts
<1> /\ guest.kubelet /\ UNCHANGED <<at, in, got, outcome, calm, edited, edits, cuts>>
    /\ HostKeeps({}) /\ GuestKeeps({"disk"}) /\ guest'.disk = cluster.secret /\ ClusterKeeps({})
  BY <1>1, <1>2, KeptAsIs, GuestGiven
<1> StartTypes' /\ Running' /\ OneLineEach(cluster.users)' /\ PairedOrNot(cluster.overrides)'
  BY Zenon DEF StartInv, StartTypes, Running, HostKeeps, GuestKeeps, GuestSame, ClusterKeeps, ClusterSame
<1> CAsMade'
  BY Zenon DEF StartInv, CAsMade, FromClientCA, HostKeeps, HostSame, GuestKeeps, GuestSame, ClusterKeeps, ClusterSame
<1> GotKnown'
  BY Zenon DEF StartInv, GotKnown, FromKubeconfig, ClusterKeeps, ClusterSame
<1> GotShort'
  BY Lengths, Zenon DEF StartInv, GotShort
<1> SeenTo'
  <2> Past(UntilDisk, at, outcome) => Past(UntilSecret, at, outcome)
    BY Zenon DEF Past, UntilDisk, UntilSecret
  <2> ~edited /\ Past(UntilDisk, at, outcome) => ImagePullSecret(guest'.disk)
    BY Zenon DEF StartInv, SeenTo
  <2>1. host'.password = host.password
    BY Zenon DEF HostKeeps, HostSame
  <2>2. /\ cluster'.apiserver = cluster.apiserver /\ cluster'.secret = cluster.secret
        /\ cluster'.key = cluster.key /\ cluster'.proxyCA = cluster.proxyCA /\ cluster'.proxy = cluster.proxy
        /\ cluster'.users = cluster.users /\ cluster'.id = cluster.id /\ cluster'.routes = cluster.routes
        /\ cluster'.overrides = cluster.overrides
    BY <1>1, Zenon
  <2> QED
    BY <2>1, <2>2, SeenStays, Zenon
<1> ExchangeWhole /\ Exchanged => Exchanged' /\ (SmoothStartSucceeds => SmoothStartSucceeds')
  BY Zenon DEF StartInv, Running, CAsMade, ExchangeWhole, Exchanged, Reached, FromStable, SmoothStartSucceeds, HostKeeps, HostSame, GuestKeeps, GuestSame, ClusterKeeps, ClusterSame
<1> (at # "idle" /\ edits' = edits /\ ~EditAnytime) => LeftAlone
  BY OverridesStay, Zenon DEF LeftAlone, ClusterKeeps, ClusterSame
<1> QED
  BY Zenon DEF StepKeeps, StartInv

\* The controller has its lease back.
LEMMA TakeLeaseKeeps == ASSUME StartInv, TakeLease PROVE StepKeeps
<1>1. /\ guest.kubelet /\ UNCHANGED <<at, in, got, outcome, calm, edited, edits, cuts>>
      /\ host' = host /\ guest' = guest /\ cluster' = [cluster EXCEPT !.lease = TRUE]
  BY DEF TakeLease, start
<1> /\ guest.kubelet /\ UNCHANGED <<at, in, got, outcome, calm, edited, edits, cuts>>
    /\ HostKeeps({}) /\ GuestKeeps({}) /\ ClusterKeeps({"lease"}) /\ cluster'.lease = TRUE
  BY <1>1, KeptAsIs, ClusterGiven, Zenon
<1> StartTypes' /\ Running' /\ OneLineEach(cluster.users)' /\ PairedOrNot(cluster.overrides)'
  BY Zenon DEF StartInv, StartTypes, Running, HostKeeps, GuestKeeps, GuestSame, ClusterKeeps, ClusterSame
<1> CAsMade'
  BY Zenon DEF StartInv, CAsMade, FromClientCA, HostKeeps, HostSame, GuestKeeps, GuestSame, ClusterKeeps, ClusterSame
<1> GotKnown'
  BY Zenon DEF StartInv, GotKnown, FromKubeconfig, ClusterKeeps, ClusterSame
<1> GotShort'
  BY Lengths, Zenon DEF StartInv, GotShort
<1> SeenTo'
  BY SeenKept, Zenon
<1> ExchangeWhole /\ Exchanged => Exchanged' /\ (SmoothStartSucceeds => SmoothStartSucceeds')
  BY Zenon DEF StartInv, Running, CAsMade, ExchangeWhole, Exchanged, Reached, FromStable, SmoothStartSucceeds, HostKeeps, HostSame, GuestKeeps, GuestSame, ClusterKeeps, ClusterSame
<1> (at # "idle" /\ edits' = edits /\ ~EditAnytime) => LeftAlone
  BY OverridesStay, Zenon, ZenonT(60) DEF LeftAlone, ClusterKeeps, ClusterSame
<1> QED
  BY Zenon DEF StepKeeps, StartInv

\* The certificate of the aggregator is renewed, which leaves the cluster as it was.
LEMMA RenewAggregatorKeeps == ASSUME StartInv, RenewAggregator PROVE StepKeeps
<1>1. /\ guest.kubelet /\ UNCHANGED <<at, in, got, outcome, calm, edited, edits, cuts>>
      /\ host' = host /\ guest' = [guest EXCEPT !.aggregator = "valid"] /\ cluster' = cluster
  BY Zenon DEF RenewAggregator, start
<1>2. "valid" \in {"valid", "expired"}
  BY DEF StartInv, StartTypes, HostType, GuestType, ClusterType, Texts
<1> /\ guest.kubelet /\ UNCHANGED <<at, in, got, outcome, calm, edited, edits, cuts>>
    /\ HostKeeps({}) /\ GuestKeeps({"aggregator"}) /\ guest'.aggregator = "valid" /\ ClusterKeeps({})
  BY <1>1, <1>2, KeptAsIs, GuestGiven
<1> StartTypes' /\ Running' /\ OneLineEach(cluster.users)' /\ PairedOrNot(cluster.overrides)'
  BY Zenon DEF StartInv, StartTypes, Running, HostKeeps, GuestKeeps, GuestSame, ClusterKeeps, ClusterSame
<1> CAsMade'
  BY Zenon DEF StartInv, CAsMade, FromClientCA, HostKeeps, HostSame, GuestKeeps, GuestSame, ClusterKeeps, ClusterSame
<1> GotKnown'
  BY Zenon DEF StartInv, GotKnown, FromKubeconfig, ClusterKeeps, ClusterSame
<1> GotShort'
  BY Lengths, Zenon DEF StartInv, GotShort
<1> SeenTo'
  BY SeenKept, Zenon
<1> ExchangeWhole /\ Exchanged => Exchanged' /\ (SmoothStartSucceeds => SmoothStartSucceeds')
  BY Zenon DEF StartInv, Running, CAsMade, ExchangeWhole, Exchanged, Reached, FromStable, SmoothStartSucceeds, HostKeeps, HostSame, GuestKeeps, GuestSame, ClusterKeeps, ClusterSame
<1> (at # "idle" /\ edits' = edits /\ ~EditAnytime) => LeftAlone
  BY OverridesStay, Zenon DEF LeftAlone, ClusterKeeps, ClusterSame
<1> QED
  BY DEF StepKeeps, StartInv

\* What a user edits is marked as edited, and is typed as before.
LEMMA UserEditsKeeps == ASSUME StartInv, UserEdits PROVE StepKeeps
<1> /\ guest.kubelet /\ (at = "patchHtpasswd" => EditAnytime)
    /\ edits < MaxEdits /\ edits' = edits + 1 /\ edited' = TRUE
    /\ UNCHANGED <<at, in, got, outcome, calm, cuts>>
    /\ HostKeeps({}) /\ GuestKeeps({}) /\ ClusterKeeps({"users", "secret"})
    /\ OneLineEach(cluster'.users)
  <2> host \in HostType /\ guest \in GuestType /\ cluster \in ClusterType
    BY DEF StartInv, StartTypes
  <2>1. PICK c :
          /\ Edit(c)
          /\ \/ /\ c = [cluster EXCEPT !.users = cluster.users \cup {Line("alice", "a")}]
                /\ \A line \in cluster.users : line.user # "alice"
             \/ \E line \in cluster.users :
                  c = [cluster EXCEPT !.users = (cluster.users \ {line}) \cup {Line(line.user, "changed")}]
             \/ \E s \in {"other", "invalid"} : c = [cluster EXCEPT !.secret = s]
    BY Zenon DEF UserEdits, Invalid
  <2>2. /\ guest.kubelet /\ (at = "patchHtpasswd" => EditAnytime)
        /\ edits < MaxEdits /\ edits' = edits + 1 /\ edited' = TRUE
        /\ UNCHANGED <<at, in, got, outcome, calm, cuts, host, guest>> /\ cluster' = c
    BY <2>1 DEF Edit, start
  <2>3. HostKeeps({}) /\ GuestKeeps({})
    BY <2>2, KeptAsIs
  <2>4. cluster.users \subseteq Lines /\ OneLine(cluster.users)
        /\ \A u \in {"developer", "kubeadmin"} : \E line \in cluster.users : line.user = u
    BY DEF ClusterType, StartInv, OneLineEach
  <2>5. CASE c = [cluster EXCEPT !.users = cluster.users \cup {Line("alice", "a")}]
             /\ \A line \in cluster.users : line.user # "alice"
    <3> DEFINE new == Line("alice", "a")
    <3>1. new \in Lines /\ new.user = "alice"
      BY DEF Line, Lines, Texts
    <3> HIDE DEF new
    <3>2. cluster.users \cup {new} \in SUBSET Lines
      BY <2>4, <3>1
    <3>3. ClusterKeeps({"users"}) /\ cluster'.users = cluster.users \cup {new}
      BY <2>2, <2>5, <3>2, ClusterGiven, Zenon DEF new
    <3>4. OneLineEach(cluster'.users)
      BY <2>4, <2>5, <3>1, <3>3 DEF OneLineEach, OneLine
    <3> QED
      BY <2>2, <2>3, <3>3, <3>4, Zenon DEF ClusterKeeps, ClusterSame
  <2>6. CASE \E line \in cluster.users :
               c = [cluster EXCEPT !.users = (cluster.users \ {line}) \cup {Line(line.user, "changed")}]
    <3>0. PICK line \in cluster.users :
            c = [cluster EXCEPT !.users = (cluster.users \ {line}) \cup {Line(line.user, "changed")}]
      BY <2>6, Zenon
    <3> DEFINE new == Line(line.user, "changed")
    <3>1. new \in Lines /\ new.user = line.user
      BY <2>4, Zenon DEF Line, Lines, Texts
    <3> HIDE DEF new
    <3>2. (cluster.users \ {line}) \cup {new} \in SUBSET Lines
      BY <2>4, <3>1, Zenon
    <3>3. ClusterKeeps({"users"}) /\ cluster'.users = (cluster.users \ {line}) \cup {new}
      BY <2>2, <3>0, <3>2, ClusterGiven, Zenon DEF new
    <3>4. OneLineEach(cluster'.users)
      BY <2>4, <3>1, <3>3, Zenon, ZenonT(60) DEF OneLineEach, OneLine
    <3> QED
      BY <2>2, <2>3, <3>3, <3>4, Zenon DEF ClusterKeeps, ClusterSame
  <2>7. CASE \E s \in {"other", "invalid"} : c = [cluster EXCEPT !.secret = s]
    <3>1. PICK s \in {"other", "invalid"} : c = [cluster EXCEPT !.secret = s]
      BY <2>7
    <3>2. s \in Texts
      BY DEF Texts
    <3>3. ClusterKeeps({"secret"})
      BY <2>2, <3>1, <3>2, ClusterGiven, Zenon
    <3>4. OneLineEach(cluster'.users)
      BY <2>4, <3>3, Zenon DEF OneLineEach, ClusterKeeps, ClusterSame
    <3> QED
      BY <2>2, <2>3, <3>3, <3>4 DEF ClusterKeeps, ClusterSame
  <2> QED
    BY <2>1, <2>5, <2>6, <2>7, Zenon
<1> StartTypes' /\ Running' /\ OneLineEach(cluster.users)' /\ PairedOrNot(cluster.overrides)'
  <2> edits' \in 0..MaxEdits
    BY WithinBound, Zenon DEF StartInv, StartTypes
  <2> QED
    BY Zenon DEF StartInv, StartTypes, Running, HostKeeps, GuestKeeps, GuestSame, ClusterKeeps, ClusterSame
<1> CAsMade'
  BY Zenon DEF StartInv, CAsMade, FromClientCA, HostKeeps, HostSame, GuestKeeps, GuestSame, ClusterKeeps, ClusterSame
<1> GotKnown'
  BY Zenon DEF StartInv, GotKnown, FromKubeconfig, ClusterKeeps, ClusterSame
<1> GotShort'
  BY Lengths, Zenon DEF StartInv, GotShort
<1> SeenTo'
  BY Zenon, ZenonT(60) DEF StartInv, SeenTo, HostKeeps, HostSame, GuestKeeps, GuestSame, ClusterKeeps, ClusterSame
<1> ExchangeWhole /\ Exchanged => Exchanged' /\ (SmoothStartSucceeds => SmoothStartSucceeds')
  BY Zenon DEF StartInv, Running, CAsMade, ExchangeWhole, Exchanged, Reached, FromStable, SmoothStartSucceeds, HostKeeps, HostSame, GuestKeeps, GuestSame, ClusterKeeps, ClusterSame
<1> (at # "idle" /\ edits' = edits /\ ~EditAnytime) => LeftAlone
  BY DEF StartInv, StartTypes
<1> QED
  BY Zenon DEF StepKeeps, StartInv

\* The instance stops, and what a start had found out is no longer claimed.
LEMMA StopKeeps == ASSUME StartInv, Stop PROVE StepKeeps
<1> /\ at = "idle" /\ guest.vm /\ cluster.lease /\ host.cas < Len(CAs)
    /\ outcome' = "none" /\ calm' = TRUE /\ edited' = FALSE /\ UNCHANGED <<at, in, got, edits, cuts>>
    /\ HostKeeps({}) /\ GuestKeeps({"vm", "kubelet", "aggregator"}) /\ ClusterKeeps({"apiserver"})
    /\ guest'.vm = FALSE /\ guest'.kubelet = FALSE
  <2> host \in HostType /\ guest \in GuestType /\ cluster \in ClusterType
    BY DEF StartInv, StartTypes
  <2>1. host' = host /\ cluster' = [cluster EXCEPT !.apiserver = "down"]
    BY DEF Stop
  <2>2. HostKeeps({})
    BY <2>1, KeptAsIs
  <2>3. ClusterKeeps({"apiserver"})
    BY <2>1, ClusterGiven
  <2>4. PICK a \in {guest.aggregator, "expired"} : guest' = [guest EXCEPT !.vm = FALSE, !.kubelet = FALSE, !.aggregator = a]
    BY Zenon DEF Stop
  <2>5. guest' = [vm |-> FALSE, kubelet |-> FALSE, kubeconfig |-> guest.kubeconfig, disk |-> guest.disk, aggregator |-> a]
    BY <2>4, Zenon DEF GuestType
  <2>6. a \in {"valid", "expired"} /\ guest.kubeconfig \in Texts /\ guest.disk \in Texts
    BY Zenon DEF GuestType
  <2>7. GuestKeeps({"vm", "kubelet", "aggregator"}) /\ guest'.vm = FALSE /\ guest'.kubelet = FALSE
    BY <2>5, <2>6 DEF GuestKeeps, GuestSame, GuestType
  <2> QED
    BY <2>2, <2>3, <2>7 DEF Stop, At
<1> StartTypes' /\ Running' /\ OneLineEach(cluster.users)' /\ PairedOrNot(cluster.overrides)'
  BY Zenon DEF StartInv, StartTypes, Running, HostKeeps, GuestKeeps, GuestSame, ClusterKeeps, ClusterSame
<1> CAsMade'
  BY Zenon DEF StartInv, CAsMade, FromClientCA, HostKeeps, HostSame, GuestKeeps, GuestSame, ClusterKeeps, ClusterSame
<1> GotKnown'
  BY Zenon DEF StartInv, GotKnown, FromKubeconfig, ClusterKeeps, ClusterSame
<1> GotShort'
  BY Lengths, Zenon DEF StartInv, GotShort
<1> SeenTo'
  BY Zenon DEF StartInv, SeenTo, Past, Reached, UntilSecret, UntilKey, UntilDisk, UntilProxyCA, UntilProxy, UntilHtpasswd, UntilId, UntilRoutes, FromRequestHeader, FromKubeconfig, HostKeeps, HostSame, GuestKeeps, GuestSame, ClusterKeeps, ClusterSame
<1> ExchangeWhole /\ Exchanged => Exchanged' /\ (SmoothStartSucceeds => SmoothStartSucceeds')
  BY Zenon DEF StartInv, Running, CAsMade, ExchangeWhole, Exchanged, Reached, FromStable, SmoothStartSucceeds, HostKeeps, HostSame, GuestKeeps, GuestSame, ClusterKeeps, ClusterSame
<1> (at # "idle" /\ edits' = edits /\ ~EditAnytime) => LeftAlone
  BY OverridesStay, Zenon DEF LeftAlone, ClusterKeeps, ClusterSame
<1> QED
  BY Zenon DEF StepKeeps, StartInv

\* A step of something else leaves the invariant as it is.
LEMMA StartStays == ASSUME StartInv, UNCHANGED startVars PROVE StepKeeps
<1> /\ UNCHANGED <<at, in, got, outcome, calm, edited, edits, cuts>>
    /\ HostKeeps({}) /\ GuestKeeps({}) /\ ClusterKeeps({})
  <2> host \in HostType /\ guest \in GuestType /\ cluster \in ClusterType
    BY DEF StartInv, StartTypes
  <2>1. host' = host /\ guest' = guest /\ cluster' = cluster
    BY DEF startVars
  <2>2. HostKeeps({}) /\ GuestKeeps({}) /\ ClusterKeeps({})
    BY <2>1, KeptAsIs, Zenon, ZenonT(60)
  <2> QED
    BY <2>2 DEF startVars, start
<1> StartTypes' /\ Running' /\ OneLineEach(cluster.users)' /\ PairedOrNot(cluster.overrides)'
  BY DEF StartInv, StartTypes, Running, HostKeeps, GuestKeeps, GuestSame, ClusterKeeps, ClusterSame
<1> CAsMade'
  BY Zenon DEF StartInv, CAsMade, FromClientCA, HostKeeps, HostSame, GuestKeeps, GuestSame, ClusterKeeps, ClusterSame
<1> GotKnown'
  BY Zenon DEF StartInv, GotKnown, FromKubeconfig, ClusterKeeps, ClusterSame
<1> GotShort'
  BY Lengths, Zenon DEF StartInv, GotShort
<1> SeenTo'
  BY SeenKept, Zenon
<1> ExchangeWhole /\ Exchanged => Exchanged' /\ (SmoothStartSucceeds => SmoothStartSucceeds')
  BY Zenon DEF StartInv, Running, CAsMade, ExchangeWhole, Exchanged, Reached, FromStable, SmoothStartSucceeds, HostKeeps, HostSame, GuestKeeps, GuestSame, ClusterKeeps, ClusterSame
<1> (at # "idle" /\ edits' = edits /\ ~EditAnytime) => LeftAlone
  BY OverridesStay, Zenon DEF LeftAlone, ClusterKeeps, ClusterSame
<1> QED
  BY Zenon DEF StepKeeps, StartInv

-----------------------------------------------------------------------------
\* What is known of finite sets.
LOCAL Finite == INSTANCE FiniteSetTheorems

\* The sizes of sets are those of FiniteSets.
LEMMA SameCardinality == ASSUME NEW S PROVE Finite!Cardinality(S) = Cardinality(S)
BY Zenon DEF Finite!Cardinality, Cardinality

\* Two things are two.
LEMMA TwoAreTwo == ASSUME NEW a, NEW b, a # b PROVE Finite!IsFiniteSet({a, b}) /\ Finite!Cardinality({a, b}) = 2
<1>1. Finite!IsFiniteSet({a}) /\ Finite!Cardinality({a}) = 1
  BY Finite!FS_Singleton, Zenon
<1>2. Finite!IsFiniteSet({a} \cup {b}) /\ Finite!Cardinality({a} \cup {b}) = Finite!Cardinality({a}) + 1
  <2>1. b \notin {a}
    OBVIOUS
  <2> QED
    BY <1>1, <2>1, Finite!FS_AddElement
<1>3. {a} \cup {b} = {a, b}
  BY Zenon, ZenonT(60)
<1> QED
  BY <1>1, <1>2, <1>3

\* Two lines that match are those of the two users.
LEMMA LoginsFound ==
  ASSUME cluster.users \subseteq Lines, OneLine(cluster.users), host.password \in Texts,
         Found(cluster.users) = Cardinality(DOMAIN credentials)
  PROVE  HasLine(cluster.users, "kubeadmin", host.password) /\ HasLine(cluster.users, "developer", "developer")
<1> DEFINE k == Line("kubeadmin", host.password)
<1> DEFINE d == Line("developer", "developer")
<1> DEFINE m == {line \in cluster.users : /\ line.user \in DOMAIN credentials
                                         /\ testBCryptPassword(credentials[line.user], line.password)}
<1>1. k.user = "kubeadmin" /\ d.user = "developer" /\ k # d
  BY Zenon DEF Line
<1>2. m \subseteq {k, d}
  <2>1. SUFFICES ASSUME NEW line \in m PROVE line = k \/ line = d
    BY Zenon
  <2>2. line \in Lines /\ line.user \in {"developer", "kubeadmin"} /\ line.password = credentials[line.user]
    BY Credentials, Zenon DEF testBCryptPassword
  <2>3. line = [user |-> line.user, password |-> line.password]
    BY <2>2, Zenon DEF Lines
  <2> QED
    BY <2>2, <2>3, Credentials, Zenon DEF Line
<1>3. Finite!IsFiniteSet({k, d}) /\ Finite!Cardinality({k, d}) = 2
  BY <1>1, TwoAreTwo, Zenon
<1>4. Finite!Cardinality({"developer", "kubeadmin"}) = 2
  BY TwoAreTwo, Zenon
<1>5. Finite!Cardinality(m) = 2
  <2>1. Found(cluster.users) = Cardinality(m)
    BY Zenon DEF Found
  <2> QED
    BY <2>1, <1>4, Credentials, SameCardinality, Zenon
<1>6. m = {k, d}
  BY <1>2, <1>3, <1>5, Finite!FS_Subset, Zenon
<1>7. k \in cluster.users /\ d \in cluster.users
  BY <1>6, Zenon
<1> HIDE DEF k, d, m
<1>8. {line \in cluster.users : line.user = "kubeadmin"} = {k} /\ {line \in cluster.users : line.user = "developer"} = {d}
  BY <1>1, <1>7, Zenon DEF OneLine
<1> QED
  BY <1>8 DEF HasLine, k, d

\* A secret with the right lines is left, and the lines of others are kept for the patch.
LEMMA GetHtpasswdKeeps == ASSUME StartInv, GetHtpasswd PROVE StepKeeps
<1> /\ at = "htpasswd" /\ UNCHANGED <<in, outcome, calm, edited, edits, cuts>>
    /\ HostKeeps({}) /\ GuestKeeps({}) /\ ClusterKeeps({})
    /\ \/ /\ at' = "clusterId" /\ got' = got
          /\ HasLine(cluster.users, "kubeadmin", host.password) /\ HasLine(cluster.users, "developer", "developer")
       \/ at' = "patchHtpasswd" /\ got' = <<got[1], OtherLines(cluster.users)>>
  <2> host \in HostType /\ guest \in GuestType /\ cluster \in ClusterType
    BY DEF StartInv, StartTypes
  <2>1. at = "htpasswd" /\ UNCHANGED <<in, outcome, calm, edited, edits, cuts, host, guest, cluster>>
    BY DEF GetHtpasswd, Oc, At, Go, Keep
  <2>2. HostKeeps({}) /\ GuestKeeps({}) /\ ClusterKeeps({})
    BY <2>1, KeptAsIs, Zenon, ZenonT(60)
  <2>3. CASE Found(cluster.users) = Cardinality(DOMAIN credentials)
    <3>1. compareHtpasswd(cluster.users).ok
      BY <2>3, Zenon DEF compareHtpasswd
    <3>2. at' = "clusterId" /\ got' = got
      BY <3>1 DEF GetHtpasswd, Go
    <3>3. cluster.users \subseteq Lines /\ host.password \in Texts
      BY DEF HostType, ClusterType
    <3> QED
      BY <2>1, <2>2, <2>3, <3>2, <3>3, LoginsFound DEF StartInv, OneLineEach
  <2>4. CASE ~(Found(cluster.users) = Cardinality(DOMAIN credentials))
    <3>1. ~compareHtpasswd(cluster.users).ok /\ compareHtpasswd(cluster.users).externals = OtherLines(cluster.users)
      BY <2>4, ExternalsAre, Zenon DEF compareHtpasswd
    <3>2. at' = "patchHtpasswd" /\ got' = <<got[1], OtherLines(cluster.users)>>
      BY <3>1 DEF GetHtpasswd, Keep
    <3> QED
      BY <2>1, <2>2, <3>2
  <2> QED
    BY <2>3, <2>4
<1> StartTypes' /\ Running' /\ OneLineEach(cluster.users)' /\ PairedOrNot(cluster.overrides)'
  BY Zenon DEF StartInv, StartTypes, Running, HostKeeps, GuestKeeps, GuestSame, ClusterKeeps, ClusterSame
<1> CAsMade'
  BY Zenon, ZenonT(60) DEF StartInv, CAsMade, FromClientCA, HostKeeps, HostSame, GuestKeeps, GuestSame, ClusterKeeps, ClusterSame
<1> GotKnown'
  <2> FoundOthers(OtherLines(cluster.users))
    BY DEF StartInv, StartTypes, ClusterType, FoundOthers, OtherLines, OneLineEach, OneLine
  <2> QED
    BY SMT, SMTT(30) DEF StartInv, GotKnown, FromKubeconfig, ClusterKeeps, ClusterSame
<1> GotShort'
  BY Lengths, Zenon DEF StartInv, GotShort
<1> SeenTo'
  BY Zenon DEF StartInv, SeenTo, Past, Reached, UntilSecret, UntilKey, UntilDisk, UntilProxyCA, UntilProxy, UntilHtpasswd, UntilId, UntilRoutes, FromRequestHeader, FromKubeconfig, HostKeeps, HostSame, GuestKeeps, GuestSame, ClusterKeeps, ClusterSame
<1> ExchangeWhole /\ Exchanged => Exchanged' /\ (SmoothStartSucceeds => SmoothStartSucceeds')
  BY Zenon DEF StartInv, Running, CAsMade, ExchangeWhole, Exchanged, Reached, FromStable, SmoothStartSucceeds, HostKeeps, HostSame, GuestKeeps, GuestSame, ClusterKeeps, ClusterSame
<1> (at # "idle" /\ edits' = edits /\ ~EditAnytime) => LeftAlone
  BY OverridesStay, Zenon, ZenonT(60) DEF LeftAlone, ClusterKeeps, ClusterSame
<1> QED
  BY Zenon, ZenonT(60) DEF StepKeeps, StartInv

-----------------------------------------------------------------------------
\* An instance that has just been created from a bundle.
LEMMA StartBegins == ASSUME StartInit PROVE StartInvCut
<1>1. StartAssumption
  BY StartAssumption
<1>2. Len(CAs) \in Nat /\ Len(CAs) # 0 /\ MaxEdits \in Nat /\ MaxCuts \in Nat
  BY <1>1 DEF StartAssumption
<1> Len(CAs) \in Nat /\ Len(CAs) # 0 /\ edits \in 0..MaxEdits /\ cuts \in 0..MaxCuts
  <2>1. edits = 0 /\ cuts = 0
    BY Zenon DEF StartInit
  <2> QED
    BY <1>2, <2>1
<1>3. PICK o \in Overrides :
        cluster = [ca |-> "bundle", secret |-> "invalid", key |-> "bundle", id |-> "missing",
                   users |-> {Line("developer", "developer"), Line("kubeadmin", "bundle")},
                   proxy |-> "missing", proxyCA |-> "missing", routes |-> FALSE,
                   overrides |-> o, lease |-> TRUE, apiserver |-> "down"]
  BY Zenon DEF StartInit, Missing, Invalid, Bundle
<1> o \in Seq(STRING) /\ PairedOrNot(o)
  BY <1>1, Zenon, ZenonT(60) DEF StartAssumption, PairedOrNot, NonePaired, Paired
<1> DEFINE users == {Line("developer", "developer"), Line("kubeadmin", "bundle")}
<1> users \in SUBSET Lines /\ OneLineEach(users)
  BY DEF Line, Lines, Texts, OneLineEach, OneLine
<1> HIDE DEF users
<1>4. /\ cluster \in ClusterType /\ cluster.users = users /\ cluster.overrides = o
      /\ cluster.ca = "bundle" /\ cluster.lease = TRUE
  BY <1>3, Zenon DEF ClusterType, Texts, users
<1>5. /\ host \in HostType /\ host.kubeconfig = "missing" /\ host.ca = "bundle" /\ host.cas = 0
  <2>1. host = [kubeconfig |-> "missing", password |-> GenerateKubeAdminUserPassword, keyring |-> "missing",
                cas |-> 0, ca |-> "bundle"]
    BY Zenon DEF StartInit, Missing, Bundle
  <2>2. 0 \in 0..Len(CAs)
    OBVIOUS
  <2>3. GenerateKubeAdminUserPassword \in Texts /\ "missing" \in Texts /\ "bundle" \in Texts
    BY DEF Texts, GenerateKubeAdminUserPassword
  <2> QED
    BY <2>1, <2>2, <2>3, Zenon DEF HostType
<1>6. guest \in GuestType /\ guest.vm = FALSE /\ guest.kubelet = FALSE /\ guest.kubeconfig = "bundle"
  BY Zenon DEF StartInit, GuestType, Texts, Invalid, Bundle
<1>7. /\ at = "idle" /\ in \in Inputs /\ got = <<>> /\ outcome = "none" /\ calm = TRUE /\ edited = FALSE
  BY Zenon DEF StartInit
<1>8. StartTypes /\ Running /\ OneLineEach(cluster.users) /\ PairedOrNot(cluster.overrides)
  BY <1>4, <1>5, <1>6, <1>7, Zenon DEF StartTypes, Running
<1>9. CAsMade
  BY <1>4, <1>5, <1>6, <1>7 DEF CAsMade, Made
<1>10. GotShort
  BY <1>7, Lengths, Zenon DEF GotShort
<1>11. GotKnown /\ SeenTo /\ Exchanged /\ SmoothStartSucceeds
  BY <1>4, <1>5, <1>6, <1>7, Zenon DEF GotKnown, SeenTo, Past, Reached, Exchanged, SmoothStartSucceeds
<1> QED
  BY <1>8, <1>9, <1>10, <1>11 DEF StartInv, StartInvCut

\* Every step, of a start, of the operators, or of a user, keeps the invariant.
LEMMA StartStep == ASSUME StartInv, [StartNext]_startVars PROVE StepKeeps
<1>1. CASE Steps
  BY <1>1, StartKubeletKeeps, WaitForAPIServerKeeps, DeleteMCOLeaderLeaseKeeps, EnsurePullSecretPresentInTheClusterKeeps,
     EnsureSSHKeyPresentInTheClusterKeeps, WaitForPullSecretPresentOnInstanceDiskKeeps, addProxyCACertToClusterKeeps,
     AddProxyConfigToClusterKeeps, ensureProxyIsConfiguredInOpenShiftKeeps, WritePasswordKeeps, GetHtpasswdKeeps,
     UpdateKubeAdminUserPasswordKeeps, EnsureClusterIDIsNotEmptyKeeps, ensureRoutesControllerIsRunningKeeps,
     GetOverridesKeeps, StartMonitoringKeeps, DeleteOpenshiftAPIServerPodsKeeps, updateKubeconfigKeeps,
     VerifyClientCAKeeps, EnsureGeneratedClientCAPresentInTheClusterKeeps, CopyKubeconfigKeeps,
     waitForProxyPropagationKeeps, SucceedKeeps, RunOutKeeps, Zenon DEF Steps
<1>2. CASE OperatorSteps
  BY <1>2, SyncKeeps, TakeLeaseKeeps, RenewAggregatorKeeps, Zenon DEF OperatorSteps
<1> QED
  BY <1>1, <1>2, StartKeeps, CutShortKeeps, UserEditsKeeps, StopKeeps, StartStays, Zenon DEF StartNext

(***************************************************************************)
(* What a start relies on at each of its places, and has seen to there,    *)
(* whatever earlier starts that were cut short, the operators and the users *)
(* have left or do meanwhile.                                              *)
(***************************************************************************)
THEOREM StartInvariant == StartSpec => []StartInv
<1>1. StartInit => StartInv
  BY StartBegins DEF StartInvCut
<1>2. StartInv /\ [StartNext]_startVars => StartInv'
  BY StartStep DEF StepKeeps
<1> QED
  BY <1>1, <1>2, PTL DEF StartSpec

(***************************************************************************)
(* The exchange of the client CA, if no start is cut short within it: the  *)
(* cluster, the kubeconfig of the host and that of the VM belong together  *)
(* again at its end, so that a start in which nothing fails gets there.    *)
(***************************************************************************)
THEOREM StartInvariantCut == ExchangeWhole => (StartSpec => []StartInvCut)
<1> SUFFICES ASSUME ExchangeWhole PROVE StartSpec => []StartInvCut
  OBVIOUS
<1>1. StartInit => StartInvCut
  BY StartBegins
<1>2. StartInvCut /\ [StartNext]_startVars => StartInvCut'
  BY StartStep DEF StepKeeps, StartInvCut
<1> QED
  BY <1>1, <1>2, PTL DEF StartSpec

\* What the invariant means for a start that has ended.
LEMMA StartMeans == ASSUME StartInv PROVE StartTypeOK /\ ResourcesThere
<1>1. StartTypeOK
  BY Zenon DEF StartInv, StartTypes, Running, CAsMade, Made, GotShort, StartTypeOK, Missing, Bundle
<1>2. ASSUME at = "idle", outcome = "ok", ~edited
      PROVE  /\ ImagePullSecret(cluster.secret) /\ ImagePullSecret(guest.disk)
             /\ cluster.key = "user" /\ cluster.id # "missing"
             /\ in.proxy # "missing" => cluster.proxy = in.proxy
             /\ in.proxy # "missing" /\ in.proxyCA # "missing" => cluster.proxyCA = in.proxyCA
             /\ in.vsock => cluster.routes
             /\ in.monitoring => NonePaired(cluster.overrides)
             /\ cluster.apiserver = "up"
             /\ HasLine(cluster.users, "kubeadmin", host.password) /\ HasLine(cluster.users, "developer", "developer")
  <2> \A places : Past(places, at, outcome) /\ Reached(places, at, outcome)
    BY <1>2 DEF Past, Reached
  <2> QED
    BY <1>2, Zenon DEF StartInv, SeenTo
<1>3. NonePaired(cluster.overrides) => \A i \in DOMAIN cluster.overrides : cluster.overrides[i] \notin Monitoring
  BY Zenon DEF NonePaired, Named, Monitoring
<1>4. /\ HasLine(cluster.users, "kubeadmin", host.password) => Login("kubeadmin", host.password)
      /\ HasLine(cluster.users, "developer", "developer") => Login("developer", "developer")
  BY DEF HasLine, Login
<1>5. ResourcesThere
  BY <1>2, <1>3, <1>4, Zenon DEF ResourcesThere, Missing
<1> QED
  BY <1>1, <1>5

(***************************************************************************)
(* When client.Start returns nil, all it is to see to is there and the     *)
(* kubeconfigs are accepted: for any settings and overrides, any number of *)
(* edits and of starts cut short, none of them within the exchange of the  *)
(* client CA.                                                              *)
(***************************************************************************)
THEOREM ClusterStartEstablishes == ExchangeWhole => (StartSpec => []SuccessEstablishes)
<1> SUFFICES ASSUME ExchangeWhole PROVE StartSpec => []SuccessEstablishes
  OBVIOUS
<1>1. StartInvCut => StartTypeOK /\ ResourcesThere
  BY StartMeans DEF StartInvCut
<1>2. StartInvCut => KubeconfigAccepted
  BY DEF StartInvCut, Exchanged, Reached, KubeconfigAccepted
<1>3. StartInvCut => SuccessEstablishes
  BY <1>1, <1>2 DEF SuccessEstablishes
<1>4. StartSpec => []StartInvCut
  BY StartInvariantCut
<1> QED
  BY <1>3, <1>4, PTL

\* Starting again is the remedy for a start that was cut short, for any number of them and
\* anywhere outside the exchange of the client CA: client.Start does not fail when nothing does.
THEOREM ClusterStartRecovers == ExchangeWhole => (StartSpec => []SmoothStartSucceeds)
<1> SUFFICES ASSUME ExchangeWhole PROVE StartSpec => []SmoothStartSucceeds
  OBVIOUS
<1>1. StartInvCut => SmoothStartSucceeds
  BY DEF StartInvCut
<1>2. StartSpec => []StartInvCut
  BY StartInvariantCut
<1> QED
  BY <1>1, <1>2, PTL

(***************************************************************************)
(* A step of a start changes nothing of others in the cluster (a valid     *)
(* pull secret, a cluster ID, other users' logins, the overrides of other  *)
(* operators), if no user is added between the get and the patch of the    *)
(* htpasswd secret.                                                        *)
(***************************************************************************)
THEOREM ClusterStartLeavesOthers == ~EditAnytime => (StartSpec => LeavesOthersAlone)
<1> SUFFICES ASSUME ~EditAnytime PROVE StartSpec => LeavesOthersAlone
  OBVIOUS
<1>1. ASSUME StartInv, [StartNext]_startVars, at # "idle", edits' = edits
      PROVE  /\ Externals(cluster'.users) = Externals(cluster.users)
             /\ ImagePullSecret(cluster.secret) => cluster'.secret = cluster.secret
             /\ cluster.id # Missing => cluster'.id = cluster.id
             /\ SameOthers(cluster.overrides, cluster'.overrides)
  BY <1>1, StartStep, ExternalsAre, Zenon DEF StepKeeps, LeftAlone, Missing
<1>2. StartInv /\ [StartNext]_startVars =>
        [(at # "idle" /\ edits' = edits) =>
           /\ Externals(cluster'.users) = Externals(cluster.users)
           /\ ImagePullSecret(cluster.secret) => cluster'.secret = cluster.secret
           /\ cluster.id # Missing => cluster'.id = cluster.id
           /\ SameOthers(cluster.overrides, cluster'.overrides)]_startVars
  BY <1>1, Zenon
<1> QED
  BY <1>2, StartInvariant, PTL DEF StartSpec, LeavesOthersAlone

=============================================================================

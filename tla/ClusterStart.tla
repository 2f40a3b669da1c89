---------------------------- MODULE ClusterStart ----------------------------
(***************************************************************************)
(* What "crc start" does to an OpenShift instance once its VM answers:     *)
(* the second half of client.Start and the functions of pkg/crc/cluster it *)
(* calls, over the states the host, the guest and the cluster may be left  *)
(* in by starts that were cut short before.                                *)
(*                                                                         *)
(* A start is cut short when a command of it fails or its process ends,    *)
(* before or after the command has taken effect.  A user with access to    *)
(* the cluster edits it meanwhile; the operators do their part.            *)
(* Certificates of the kubelet are the subject of CertRenewal, the wait at *)
(* the end that of ClusterStable.                                          *)
(***************************************************************************)
EXTENDS Naturals, Sequences, FiniteSets

CONSTANTS
  Inputs,        \* the settings and sources a start may be given
  Overrides,     \* the lists of overrides a bundle may have
  CAs,           \* the certificate authorities GetSelfSignedCA generates, in order
  Uncut,         \* the places at which starts are not cut short
  EditAnytime,   \* are users added also between the get and the patch of htpasswd
  MaxEdits,      \* how often users edit the cluster
  MaxCuts        \* how many starts may be cut short

\* Where a list of overrides has a name.
Named(overrides, name) == {i \in DOMAIN overrides : overrides[i] = name}

\* Bundles name the deployment of the monitoring stack before its cluster operator, or
\* neither; what is typed for a pull secret is validated; no CA is like that of the bundle.
ASSUME StartAssumption ==
  /\ Inputs \subseteq [path : STRING, file : STRING, prompt : STRING \ {"invalid"}, okd : BOOLEAN,
                       proxy : STRING, proxyCA : STRING, password : STRING,
                       vsock : BOOLEAN, monitoring : BOOLEAN]
  /\ \A o \in Overrides :
       /\ o \in Seq(STRING)
       /\ \/ Named(o, "cluster-monitoring-operator") = {} /\ Named(o, "monitoring") = {}
          \/ \E i, j \in DOMAIN o : /\ i < j /\ Named(o, "cluster-monitoring-operator") = {i}
                                    /\ Named(o, "monitoring") = {j}
  /\ CAs \in Seq(STRING \ {"missing", "bundle"}) /\ Len(CAs) # 0
  /\ EditAnytime \in BOOLEAN /\ MaxEdits \in Nat /\ MaxCuts \in Nat

VARIABLES
  at,        \* where the start is; "idle" when there is none
  in,        \* what it was given
  got,       \* what it has read and not yet used
  outcome,   \* of the last start
  calm,      \* has nothing failed in it
  edited,    \* has a user edited the cluster since it began
  host,      \* the files of the instance on the host, the keyring, the CAs made
  guest,     \* the VM: the kubelet, the kubeconfig of "oc", the pull secret on disk
  cluster,   \* the resources of the cluster
  edits, cuts

start == <<at, in, got, outcome, calm>>
startVars == <<start, edited, host, guest, cluster, edits, cuts>>

Missing == "missing"
Invalid == "invalid"
Bundle == "bundle"

\* validation.ImagePullSecret accepts it.
ImagePullSecret(secret) == secret \notin {Missing, Invalid}

\* What is written to the file when the instance is created.
GenerateKubeAdminUserPassword == "generated"

\* A line of the htpasswd secret, which has one for each user, in any order.  A hash is known
\* by the password it was made from.
Line(user, password) == [user |-> user, password |-> password]

StartInit ==
  /\ at = "idle" /\ in \in Inputs /\ got = <<>>
  /\ outcome = "none" /\ calm = TRUE /\ edited = FALSE
  /\ host = [kubeconfig |-> Missing, password |-> GenerateKubeAdminUserPassword, keyring |-> Missing, cas |-> 0, ca |-> Bundle]
  /\ guest = [vm |-> FALSE, kubelet |-> FALSE, kubeconfig |-> Bundle, disk |-> Invalid, aggregator |-> "valid"]
  /\ \E o \in Overrides :
       cluster = [ca |-> Bundle, secret |-> Invalid, key |-> Bundle, id |-> Missing,
                  users |-> {Line("developer", "developer"), Line("kubeadmin", Bundle)},
                  proxy |-> Missing, proxyCA |-> Missing, routes |-> FALSE,
                  overrides |-> o, lease |-> TRUE, apiserver |-> "down"]
  /\ edits = 0 /\ cuts = 0

At(place) == at = place

\* The next place, with the rest of the start's variables as they are.
Go(place) == at' = place /\ UNCHANGED <<in, got, outcome, calm>>

Keep(place, value) == at' = place /\ got' = value /\ UNCHANGED <<in, outcome, calm>>

Leave(r) == at' = "idle" /\ outcome' = r /\ got' = <<>> /\ UNCHANGED <<in, calm>>

\* Does "oc" in the guest get an answer: the API server is up and accepts its certificate.
OcAnswers == guest.kubelet /\ guest.kubeconfig = cluster.ca

\* WaitForAPIServer and WaitForOpenshiftResource at the beginning of a step: with no answer
\* to come, or no valid pull secret to reach the disk, the wait runs out and the start has failed.
Oc(place) == At(place) /\ OcAnswers

RunOut ==
  /\ \/ /\ at \in {"api", "lease", "pullSecret", "sshKey", "proxy", "htpasswd", "clusterId", "clientCA"}
        /\ ~OcAnswers
     \/ At("disk") /\ guest.disk = cluster.secret /\ ~ImagePullSecret(guest.disk)
  /\ Leave("timeout")
  /\ UNCHANGED <<edited, host, guest, cluster, edits, cuts>>

-----------------------------------------------------------------------------
\* client.Start finds the VM running and leaves it alone, or starts it.
Start ==
  /\ At("idle")
  /\ in' \in Inputs /\ got' = <<>> /\ calm' = TRUE /\ edited' = FALSE
  /\ IF guest.vm THEN at' = "idle" /\ outcome' = "alreadyRunning" /\ UNCHANGED guest
     ELSE at' = "kubelet" /\ outcome' = "none" /\ guest' = [guest EXCEPT !.vm = TRUE]
  /\ UNCHANGED <<host, cluster, edits, cuts>>

\* The aggregator's certificate is looked at before the kubelet starts everything.
StartKubelet ==
  /\ At("kubelet")
  /\ Keep("api", <<guest.aggregator>>)
  /\ guest' = [guest EXCEPT !.kubelet = TRUE]
  /\ cluster' = [cluster EXCEPT !.apiserver = IF guest.aggregator = "expired" THEN "stale" ELSE "up"]
  /\ UNCHANGED <<edited, host, edits, cuts>>

WaitForAPIServer ==
  /\ Oc("api") /\ Go("lease")
  /\ UNCHANGED <<edited, host, guest, cluster, edits, cuts>>

DeleteMCOLeaderLease ==
  /\ Oc("lease")
  /\ IF cluster.lease THEN Go("pullSecret") ELSE Leave("error")
  /\ cluster' = [cluster EXCEPT !.lease = FALSE]
  /\ UNCHANGED <<edited, host, guest, edits, cuts>>

\* The pull secret of the user: the one built in for OKD, the file given, the one configured,
\* the keyring's, and what is typed at a terminal.
loadFile(content) == IF ImagePullSecret(content) THEN content ELSE Missing

loadFromKeyring == IF ImagePullSecret(host.keyring) THEN host.keyring ELSE Missing

nonInteractiveValue ==
  IF in.okd THEN "OkdPullSecret"
  ELSE IF loadFile(in.path) # Missing THEN loadFile(in.path)
  ELSE IF loadFile(in.file) # Missing THEN loadFile(in.file)
  ELSE loadFromKeyring

promptUserForSecret == in.prompt

Value == IF nonInteractiveValue # Missing THEN nonInteractiveValue ELSE promptUserForSecret

\* What is typed goes to the keyring; an error of the keyring is logged only.
StoreInKeyring ==
  host' \in IF nonInteractiveValue # Missing THEN {host}
            ELSE {host, [host EXCEPT !.keyring = promptUserForSecret]}

\* Mutation: the user's pull secret always replaces the cluster's.
PullSecretAlways ==
  /\ Oc("pullSecret")
  /\ IF Value = Missing THEN Leave("noPullSecret") /\ UNCHANGED <<host, cluster>>
     ELSE /\ Go("sshKey") /\ StoreInKeyring
          /\ cluster' = [cluster EXCEPT !.secret = Value]
  /\ UNCHANGED <<edited, guest, edits, cuts>>

EnsurePullSecretPresentInTheCluster ==
  /\ Oc("pullSecret")
  /\ IF ImagePullSecret(cluster.secret) THEN Go("sshKey") /\ UNCHANGED <<host, cluster>>
     ELSE IF Value = Missing THEN Leave("noPullSecret") /\ UNCHANGED <<host, cluster>>
     ELSE /\ Go("sshKey") /\ StoreInKeyring
          /\ cluster' = [cluster EXCEPT !.secret = Value]
  /\ UNCHANGED <<edited, guest, edits, cuts>>

EnsureSSHKeyPresentInTheCluster ==
  /\ Oc("sshKey") /\ Go("disk")
  /\ cluster' = [cluster EXCEPT !.key = "user"]
  /\ UNCHANGED <<edited, host, guest, edits, cuts>>

WaitForPullSecretPresentOnInstanceDisk ==
  /\ At("disk") /\ ImagePullSecret(guest.disk) /\ Go("proxy")
  /\ UNCHANGED <<edited, host, guest, cluster, edits, cuts>>

\* The certificate of the proxy, when it has one, is in the cluster before its address is.
addProxyCACertToCluster ==
  /\ Oc("proxy") /\ in.proxy # Missing
  /\ Go("proxySpec")
  /\ cluster' = [cluster EXCEPT !.proxyCA = IF in.proxyCA # Missing THEN in.proxyCA ELSE @]
  /\ UNCHANGED <<edited, host, guest, edits, cuts>>

AddProxyConfigToCluster ==
  /\ At("proxySpec") /\ Go("password")
  /\ cluster' = [cluster EXCEPT !.proxy = in.proxy]
  /\ UNCHANGED <<edited, host, guest, edits, cuts>>

ensureProxyIsConfiguredInOpenShift ==
  /\ At("proxy") /\ in.proxy = Missing /\ Go("password")
  /\ UNCHANGED <<edited, host, guest, cluster, edits, cuts>>

-----------------------------------------------------------------------------
\* A password given with the start goes to the file "crc console" reads,
WritePassword ==
  /\ At("password") /\ Go("htpasswd")
  /\ host' = [host EXCEPT !.password = IF in.password # Missing THEN in.password ELSE @]
  /\ UNCHANGED <<edited, guest, cluster, edits, cuts>>

GetKubeadminPassword == host.password

credentials == [u \in {"developer", "kubeadmin"} |-> IF u = "developer" THEN "developer" ELSE GetKubeadminPassword]

testBCryptPassword(password, hash) == hash = password

\* the number of lines that match is compared with the number of credentials,
Found(lines) ==
  Cardinality({line \in lines : /\ line.user \in DOMAIN credentials
                               /\ testBCryptPassword(credentials[line.user], line.password)})

Externals(lines) == {line \in lines : line.user \notin DOMAIN credentials}

\* Mutation: one match is enough.
compareOne(lines) == [ok |-> Found(lines) > 0, externals |-> Externals(lines)]

compareHtpasswd(lines) == [ok |-> Found(lines) = Cardinality(DOMAIN credentials), externals |-> Externals(lines)]

GetHtpasswd ==
  /\ Oc("htpasswd")
  /\ LET compared == compareHtpasswd(cluster.users)
     IN  IF compared.ok THEN Go("clusterId")
         ELSE Keep("patchHtpasswd", <<got[1], compared.externals>>)
  /\ UNCHANGED <<edited, host, guest, cluster, edits, cuts>>

\* and the whole secret is replaced by the other users' lines and the two.
getHtpasswd(externals) == externals \cup {Line(u, credentials[u]) : u \in DOMAIN credentials}

UpdateKubeAdminUserPassword ==
  /\ At("patchHtpasswd")
  /\ Keep("clusterId", <<got[1]>>)
  /\ cluster' = [cluster EXCEPT !.users = getHtpasswd(got[2])]
  /\ UNCHANGED <<edited, host, guest, edits, cuts>>

EnsureClusterIDIsNotEmpty ==
  /\ Oc("clusterId") /\ Go("routes")
  /\ cluster' = [cluster EXCEPT !.id = IF @ = Missing THEN "id1" ELSE @]
  /\ UNCHANGED <<edited, host, guest, edits, cuts>>

ensureRoutesControllerIsRunning ==
  /\ At("routes") /\ Go("monitoring")
  /\ cluster' = [cluster EXCEPT !.routes = @ \/ in.vsock]
  /\ UNCHANGED <<edited, host, guest, edits, cuts>>

-----------------------------------------------------------------------------
\* The place of the first override of that name, counted from 0; -1 is given as Len.
getIndexInOverridesForObjectName(overrides, name) ==
  LET places == {i \in DOMAIN overrides : overrides[i] = name}
  IN  IF places = {} THEN Len(overrides) ELSE (CHOOSE i \in places : \A j \in places : i <= j) - 1

\* A JSON patch "remove" of element i, counted from 0.
RemoveAt(s, i) == SubSeq(s, 1, i) \o SubSeq(s, i + 2, Len(s))

\* Mutation: the overrides have to be there.
GetOverridesRequired ==
  /\ At("monitoring")
  /\ LET o == cluster.overrides
         deployment == getIndexInOverridesForObjectName(o, "cluster-monitoring-operator")
         cvo == getIndexInOverridesForObjectName(o, "monitoring")
     IN  IF ~in.monitoring THEN Go("requestHeader")
         ELSE IF deployment < Len(o) /\ cvo < Len(o)
         THEN Keep("patchOverrides", <<got[1], deployment, cvo>>)
         ELSE Leave("error")
  /\ UNCHANGED <<edited, host, guest, cluster, edits, cuts>>

GetOverrides ==
  /\ At("monitoring")
  /\ LET o == cluster.overrides
         deployment == getIndexInOverridesForObjectName(o, "cluster-monitoring-operator")
         cvo == getIndexInOverridesForObjectName(o, "monitoring")
     IN  IF in.monitoring /\ deployment < Len(o) /\ cvo < Len(o)
         THEN Keep("patchOverrides", <<got[1], deployment, cvo>>)
         ELSE Go("requestHeader")
  /\ UNCHANGED <<edited, host, guest, cluster, edits, cuts>>

StartMonitoring ==
  /\ At("patchOverrides")
  /\ Keep("requestHeader", <<got[1]>>)
  /\ cluster' = [cluster EXCEPT !.overrides = RemoveAt(RemoveAt(@, got[2]), got[3] - 1)]
  /\ UNCHANGED <<edited, host, guest, edits, cuts>>

\* With the aggregator's certificate renewed, the pods that hold the old one are deleted.
DeleteOpenshiftAPIServerPods ==
  /\ At("requestHeader")
  /\ got[1] = "expired" => guest.aggregator = "valid"
  /\ Go("kubeconfig")
  /\ cluster' = [cluster EXCEPT !.apiserver = IF got[1] = "expired" THEN "up" ELSE @]
  /\ UNCHANGED <<edited, host, guest, edits, cuts>>

-----------------------------------------------------------------------------
\* Every start generates a CA.  A certificate is known by the CA that signed it.
GetSelfSignedCA == CAs[host.cas + 1]

GenerateClientCertificate(ca) == ca

VerifyCertificateAgainstRootCA(ca, certificate) == certificate = ca

\* A kubeconfig that is there already is kept, whichever CA it belongs to.
copyKubeconfigFileWithUpdatedUserClientCertAndKey(ca) ==
  IF host.kubeconfig = Missing THEN GenerateClientCertificate(ca) ELSE host.kubeconfig

updateKubeconfig ==
  /\ At("kubeconfig") /\ Go("clientCA")
  /\ LET ca == GetSelfSignedCA
     IN  host' = [host EXCEPT !.cas = @ + 1, !.ca = ca,
                    !.kubeconfig = copyKubeconfigFileWithUpdatedUserClientCertAndKey(ca)]
  /\ UNCHANGED <<edited, guest, cluster, edits, cuts>>

VerifyClientCA ==
  /\ Oc("clientCA")
  /\ Go(IF VerifyCertificateAgainstRootCA(cluster.ca, host.kubeconfig) THEN "stable" ELSE "patchCA")
  /\ UNCHANGED <<edited, host, guest, cluster, edits, cuts>>

EnsureGeneratedClientCAPresentInTheCluster ==
  /\ At("patchCA") /\ Go("copyKubeconfig")
  /\ cluster' = [cluster EXCEPT !.ca = host.ca]
  /\ UNCHANGED <<edited, host, guest, edits, cuts>>

CopyKubeconfig ==
  /\ At("copyKubeconfig") /\ Go("stable")
  /\ guest' = [guest EXCEPT !.kubeconfig = host.kubeconfig]
  /\ UNCHANGED <<edited, host, cluster, edits, cuts>>

\* A cluster that does not become stable, and a proxy that is not seen, are logged only.
waitForProxyPropagation ==
  /\ At("stable") /\ Go("writeKubeconfig")
  /\ UNCHANGED <<edited, host, guest, cluster, edits, cuts>>

Succeed ==
  /\ At("writeKubeconfig") /\ Leave("ok")
  /\ UNCHANGED <<edited, host, guest, cluster, edits, cuts>>

\* A command fails or the process ends.
CutShort ==
  /\ at \notin {"idle"} \cup Uncut /\ cuts < MaxCuts
  /\ at' = "idle" /\ outcome' = "error" /\ got' = <<>> /\ calm' = FALSE /\ UNCHANGED in
  /\ cuts' = cuts + 1
  /\ UNCHANGED <<edited, host, guest, cluster, edits>>

-----------------------------------------------------------------------------
\* The machine config operator brings the pull secret to the disk and takes its lease again,
Sync ==
  /\ guest.kubelet /\ guest.disk # cluster.secret
  /\ guest' = [guest EXCEPT !.disk = cluster.secret]
  /\ UNCHANGED <<start, edited, host, cluster, edits, cuts>>

TakeLease ==
  /\ guest.kubelet /\ ~cluster.lease
  /\ cluster' = [cluster EXCEPT !.lease = TRUE]
  /\ UNCHANGED <<start, edited, host, guest, edits, cuts>>

\* the aggregator's certificate is renewed,
RenewAggregator ==
  /\ guest.kubelet /\ guest.aggregator = "expired"
  /\ guest' = [guest EXCEPT !.aggregator = "valid"]
  /\ UNCHANGED <<start, edited, host, cluster, edits, cuts>>

\* and a user adds another, changes a password or the pull secret.
Edit(c) ==
  /\ guest.kubelet /\ edits < MaxEdits
  /\ at = "patchHtpasswd" => EditAnytime
  /\ cluster' = c
  /\ edits' = edits + 1 /\ edited' = TRUE
  /\ UNCHANGED <<start, host, guest, cuts>>

UserEdits ==
  \/ /\ \A line \in cluster.users : line.user # "alice"
     /\ Edit([cluster EXCEPT !.users = @ \cup {Line("alice", "a")}])
  \/ \E line \in cluster.users :
       Edit([cluster EXCEPT !.users = (@ \ {line}) \cup {Line(line.user, "changed")}])
  \/ \E secret \in {"other", Invalid} : Edit([cluster EXCEPT !.secret = secret])

\* The instance is stopped, with the lease taken again, and may be off for long.
Stop ==
  /\ At("idle") /\ guest.vm
  /\ cluster.lease /\ host.cas < Len(CAs)
  /\ \E a \in {guest.aggregator, "expired"} :
       guest' = [guest EXCEPT !.vm = FALSE, !.kubelet = FALSE, !.aggregator = a]
  /\ cluster' = [cluster EXCEPT !.apiserver = "down"]
  /\ outcome' = "none" /\ calm' = TRUE /\ edited' = FALSE
  /\ UNCHANGED <<at, in, got, host, edits, cuts>>

Steps ==
  \/ StartKubelet
  \/ WaitForAPIServer
  \/ DeleteMCOLeaderLease
  \/ EnsurePullSecretPresentInTheCluster
  \/ EnsureSSHKeyPresentInTheCluster
  \/ WaitForPullSecretPresentOnInstanceDisk
  \/ addProxyCACertToCluster
  \/ AddProxyConfigToCluster
  \/ ensureProxyIsConfiguredInOpenShift
  \/ WritePassword
  \/ GetHtpasswd
  \/ UpdateKubeAdminUserPassword
  \/ EnsureClusterIDIsNotEmpty
  \/ ensureRoutesControllerIsRunning
  \/ GetOverrides
  \/ StartMonitoring
  \/ DeleteOpenshiftAPIServerPods
  \/ updateKubeconfig
  \/ VerifyClientCA
  \/ EnsureGeneratedClientCAPresentInTheCluster
  \/ CopyKubeconfig
  \/ waitForProxyPropagation
  \/ Succeed
  \/ RunOut

OperatorSteps == Sync \/ TakeLease \/ RenewAggregator

StartNext == Start \/ Steps \/ CutShort \/ OperatorSteps \/ UserEdits \/ Stop

StartSpec == StartInit /\ [][StartNext]_startVars

-----------------------------------------------------------------------------
Monitoring == {"cluster-monitoring-operator", "monitoring"}

\* Where a list of overrides has others than those of the monitoring stack.
Others(overrides) == {i \in DOMAIN overrides : overrides[i] \notin Monitoring}

\* The second list has the others of the first one, and in the same order.
SameOthers(before, after) ==
  \E place \in [Others(before) -> Others(after)] :
    /\ \A i \in Others(before) : after[place[i]] = before[i]
    /\ \A i, j \in Others(before) : i < j => place[i] < place[j]
    /\ \A k \in Others(after) : \E i \in Others(before) : place[i] = k

\* Type invariant.
StartTypeOK ==
  /\ in \in Inputs
  /\ Len(got) <= 3
  /\ outcome \in {"none", "ok", "alreadyRunning", "error", "timeout", "noPullSecret"}
  /\ calm \in BOOLEAN /\ edited \in BOOLEAN
  /\ {host.kubeconfig, host.ca, cluster.ca, guest.kubeconfig} \subseteq
       {CAs[i] : i \in 1..host.cas} \cup {Missing, Bundle}
  /\ guest.kubelet => guest.vm
  /\ edits \in 0..MaxEdits /\ cuts \in 0..MaxCuts

\* The OAuth server accepts this password of the user, and no other.
Login(user, password) == {line \in cluster.users : line.user = user} = {Line(user, password)}

(***************************************************************************)
(* When client.Start returns nil, everything it is to see to is there,     *)
(* whatever earlier starts that were cut short have left behind: a valid   *)
(* pull secret in the cluster and on the disk, the SSH key, a cluster ID,  *)
(* the proxy, the routes controller, the monitoring stack, an API server   *)
(* that knows the aggregator's certificate, and the passwords that         *)
(* "crc console --credentials" shows.                                      *)
(***************************************************************************)
ResourcesThere ==
  (at = "idle" /\ outcome = "ok" /\ ~edited) =>
    /\ ImagePullSecret(cluster.secret) /\ ImagePullSecret(guest.disk)
    /\ cluster.key = "user" /\ cluster.id # Missing
    /\ in.proxy # Missing => cluster.proxy = in.proxy
    /\ in.proxy # Missing /\ in.proxyCA # Missing => cluster.proxyCA = in.proxyCA
    /\ in.vsock => cluster.routes
    /\ in.monitoring => \A i \in DOMAIN cluster.overrides : cluster.overrides[i] \notin Monitoring
    /\ cluster.apiserver = "up"
    /\ Login("kubeadmin", host.password) /\ Login("developer", "developer")

(***************************************************************************)
(* "update SSH key and copy kubeconfig to instance dir and VM" (client.    *)
(* Start): the cluster accepts the certificate of the kubeconfig in the    *)
(* instance directory, and of the one "oc" uses in the VM, when a start    *)
(* has returned nil.                                                       *)
(***************************************************************************)
KubeconfigAccepted ==
  (at = "idle" /\ outcome = "ok") => host.kubeconfig = cluster.ca /\ guest.kubeconfig = cluster.ca

\* Both and the types, of starts none of which was cut short within the exchange of the client CA.
SuccessEstablishes == StartTypeOK /\ ResourcesThere /\ KubeconfigAccepted

(***************************************************************************)
(* Starting again is the remedy for a start that was cut short anywhere:   *)
(* client.Start on a stopped instance returns nil when nothing fails in it *)
(* and a pull secret is to be had, since its steps look at what is there   *)
(* and not at what an earlier start is thought to have done.               *)
(***************************************************************************)
SmoothStartSucceeds ==
  (at = "idle" /\ calm /\ ~edited) => outcome \notin {"error", "timeout"}

(***************************************************************************)
(* The functions of pkg/crc/cluster touch only what is crc's own: a step   *)
(* of a start changes no other user's line of the htpasswd secret, no      *)
(* valid pull secret, no cluster ID and no other override.                 *)
(***************************************************************************)
LeavesOthersAlone ==
  [][(at # "idle" /\ edits' = edits) =>
       /\ Externals(cluster'.users) = Externals(cluster.users)
       /\ ImagePullSecret(cluster.secret) => cluster'.secret = cluster.secret
       /\ cluster.id # Missing => cluster'.id = cluster.id
       /\ SameOthers(cluster.overrides, cluster'.overrides)]_startVars

(***************************************************************************)
(* "Started the OpenShift cluster." (cmd/crc/cmd/start.go) is printed when *)
(* the result says that the kubelet is started: it is.                     *)
(***************************************************************************)
StartedMeansServing ==
  (at = "idle" /\ outcome \in {"ok", "alreadyRunning"}) => guest.kubelet

=============================================================================

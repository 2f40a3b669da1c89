----------------------------- MODULE MCInstance -----------------------------
(***************************************************************************)
(* For TLC: the store of one process, the guests of six systems, and the   *)
(* settings as a handler of the daemon and a command use them.             *)
(***************************************************************************)
EXTENDS Instance

\* OpenShift on the three systems' own networks and, where the shared directories are
\* outside of /home and where they are not, on the user network.  What is done for Podman
\* differs with the address and the place of the directories only.
MCSystems ==
  [os : {"linux", "darwin", "windows"}, openshift : {TRUE}, user : {FALSE}] \cup
  [os : {"linux", "darwin"}, openshift : {TRUE}, user : {TRUE}] \cup
  [os : {"darwin"}, openshift : {FALSE}, user : {TRUE}]

\* Two name servers, the text of one of which contains that of the other.
TextContains == [n \in Nameservers |-> IF n = "10.0.0.1" THEN Nameservers ELSE {n}]

=============================================================================

---------------------------- MODULE MCUserFiles ----------------------------
(***************************************************************************)
(* For TLC: two handlers of the daemon at crc.json, the daemon and a       *)
(* command at it, and commands that change the kubeconfig of a user.       *)
(***************************************************************************)
EXTENDS UserFiles

CONSTANTS d1, d2, c, daemon, cli, cpus, memory, v

InDaemon == [t \in {d1, d2} |-> daemon]
NoOverrides == [p \in Procs |-> NoSettings]
WrittenFiles == {Whole(NoSettings), Whole([NoSettings EXCEPT ![memory] = v])}
AnyFile == {Absent} \cup WrittenFiles

\* CRC_CPUS is in the environment of the command.
InBoth == [t \in {d1, c} |-> IF t = c THEN cli ELSE daemon]
Environment == [p \in {daemon, cli} |-> [k \in Keys |-> IF p = cli /\ k = cpus THEN v ELSE NoValue]]

OnePath == <<"config">>

\* A context of the user's with credentials of its own, one that uses the name of crc's
\* developer on another cluster, and one on the cluster of crc.
MCEntries ==
  {[name |-> "work", cluster |-> "work", auth |-> "work"],
   [name |-> "shared", cluster |-> "work", auth |-> "developer"],
   [name |-> "login", cluster |-> "crc", auth |-> "login"]}

=============================================================================

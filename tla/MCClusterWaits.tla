--------------------------- MODULE MCClusterWaits ---------------------------
(***************************************************************************)
(* For TLC: the two waits, of operators with conditions of every kind.     *)
(***************************************************************************)
EXTENDS ClusterWaits, TLC

MCConditions ==
  {<<>>,
   "Available" :> "True" @@ "Degraded" :> "False" @@ "Upgradeable" :> "False",
   "Available" :> "Unknown",
   "Available" :> "True" @@ "Progressing" :> "True",
   "Available" :> "True" @@ "Degraded" :> "True",
   "Available" :> "True" @@ "Disabled" :> "True"}

=============================================================================

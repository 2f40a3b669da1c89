----------------------------- MODULE MCBundles -----------------------------
(***************************************************************************)
(* For TLC: the way of a bundle, and next to it the start that makes the   *)
(* cluster of a bundle the user's.  A behaviour is of one of the two, and  *)
(* the other stays where it begins.                                        *)
(***************************************************************************)
EXTENDS BundleLife, ClusterStart

VARIABLE side   \* the one it is of

RunInit ==
  /\ side \in {"bundle", "cluster"}
  /\ LifeInit /\ (side # "bundle" => part = "copy" /\ len = 0)
  /\ StartInit /\ (side # "cluster" => /\ in = CHOOSE i \in Inputs : TRUE
                                       /\ cluster.overrides = CHOOSE o \in Overrides : TRUE)

RunNext ==
  \/ side = "bundle" /\ LifeNext /\ UNCHANGED <<side, startVars>>
  \/ side = "cluster" /\ StartNext /\ UNCHANGED <<side, all>>

RunSpec == RunInit /\ [][RunNext]_<<side, all, startVars>>

\* The default bundle, one without a cluster pulled from a registry, and a file of the user's
\* without podman.  The podman executable is among the entries that are not verified.
MCSource == [default |-> "default", image |-> "docker", file |-> "local"]
MCEntries == <<"directory", "crc-bundle-info.json", "diskImage", "podman">>
MCListed == [default |-> {"oc", "podman"}, image |-> {"podman"}, file |-> {"oc"}]
MCVerified == {"crc-bundle-info.json", "diskImage"}

Given(path, prompt, proxy, password) ==
  [path |-> path, file |-> "missing", prompt |-> prompt, okd |-> FALSE, proxy |-> proxy, proxyCA |-> proxy,
   password |-> password, vsock |-> FALSE, monitoring |-> FALSE]

\* A start with a pull secret file, one that asks for it behind a proxy since the file is not
\* valid, and the daemon's with none, which turns on what the others leave off.
MCInputs ==
  {Given("mine", "missing", "missing", "new"),
   Given("invalid", "typed", "proxy", "missing"),
   [Given("missing", "missing", "missing", "missing") EXCEPT !.vsock = TRUE, !.monitoring = TRUE]}

\* Bundles name the deployment before the cluster operator, among others.
MCOverrides ==
  {<<"cluster-monitoring-operator", "cloud", "monitoring", "insights">>, <<"insights">>}

MCCAs == <<"ca1", "ca2">>

=============================================================================

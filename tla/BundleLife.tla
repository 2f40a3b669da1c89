----------------------------- MODULE BundleLife -----------------------------
(***************************************************************************)
(* The way of a bundle.  It is unpacked into the cache (BundleCache), its  *)
(* disk image is copied (SparseCopy), and the instance made from it may    *)
(* become a bundle again (CustomBundle).  A behaviour is of one of the     *)
(* three, the others stay where they begin: each begins when the one       *)
(* before it is over.                                                      *)
(***************************************************************************)
EXTENDS SparseCopy, BundleCache, CustomBundle

VARIABLE part   \* the one it is of

all == <<part, copyVars, cacheVars, customVars>>

\* A cache that has lost files lacks some that verify() looks for.
ASSUME CacheAssumption ==
  /\ Entries \in Seq(STRING) /\ Len(Entries) > 1
  /\ Verified \subseteq All /\ ~(Verified \subseteq Damaged)
  /\ "none" \notin Bundles /\ Source \in [Bundles -> {"default", "http", "docker", "local"}]
  /\ Listed \in [Bundles -> SUBSET Executables] /\ MaxFaults \in Nat

ASSUME CustomAssumption == MaxRendered \in Nat \ {0} /\ MaxFailures \in Nat

-----------------------------------------------------------------------------
\* The parts a behaviour is not of are in one of their initial states.
LifeInit ==
  /\ part \in {"copy", "cache", "custom"}
  /\ CopyInit /\ (part # "copy" => len = 0)
  /\ CacheInit /\ (part # "cache" => \A b \in Bundles : cached[b] = {} /\ archive[b] = "complete")
  /\ CustomInit /\ (part # "custom" => openshift)

LifeNext ==
  \/ part = "copy" /\ CopyNext /\ UNCHANGED <<part, cacheVars, customVars>>
  \/ part = "cache" /\ CacheNext /\ UNCHANGED <<part, copyVars, customVars>>
  \/ part = "custom" /\ CustomNext /\ UNCHANGED <<part, copyVars, cacheVars>>

LifeSpec == LifeInit /\ [][LifeNext]_all

-----------------------------------------------------------------------------
\* The type invariants of the parts.
TypesOK == CopyTypeOK /\ CacheTypeOK /\ CustomTypeOK

(***************************************************************************)
(* Bundles that should be made are made, and whole.  Unpacking succeeds    *)
(* when nothing fails, whatever earlier commands have left in the cache    *)
(* (bundle/repository.go), and a copy with holes is the original           *)
(* (os/copy.go); GenerateBundle succeeds when nothing fails, and returns   *)
(* nil only for a bundle with all its files, close errors aside            *)
(* (machine/generate_bundle.go).                                           *)
(***************************************************************************)
BundlesMade ==
  /\ TypesOK
  /\ CopyFaithful
  /\ SmoothSucceeds
  /\ GeneratedMeansWhole
  /\ SmoothGenerates

(***************************************************************************)
(* A command changes what is its own.  Removing old rendered machine       *)
(* configs never removes the newest one (cluster.go), and a start leaves   *)
(* links to those executables of its own bundle that Use is to link, and   *)
(* the other links as they were (bundle/repository.go).                    *)
(***************************************************************************)
ChangesItsOwn ==
  /\ NewestKept
  /\ UseLinksBundle

=============================================================================

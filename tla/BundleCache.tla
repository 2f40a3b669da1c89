---------------------------- MODULE BundleCache ----------------------------
(***************************************************************************)
(* The bundles under ~/.crc/cache: "crc setup" and "crc start" download    *)
(* one and unpack it unless Repository.Get finds it unpacked already.      *)
(* Several crc processes, the daemon among them, may be at it at once.     *)
(*                                                                         *)
(* A bundle is the list of the entries of its archive; an entry arrives    *)
(* whole.  The directory itself is the first of them.                      *)
(***************************************************************************)
EXTENDS Naturals, Sequences, FiniteSets

CONSTANTS
  Procs,       \* the processes
  Bundles,     \* the names of bundles
  Source,      \* where each comes from: "default", "http", "docker" or "local"
  Entries,     \* the entries of an archive, in order
  Verified,    \* those Repository.Get and verify() look for
  Supported,   \* the bundles whose version and domains Repository.Get accepts
  OpenShift,   \* the bundles of a cluster
  Listed,      \* the executables, "oc" and "podman", that the metadata of each list
  MaxFaults    \* how often downloads fail and processes end

VARIABLES
  archive,   \* the files <name>.crcbundle: "missing", "partial", "wrong" or "complete"
  tmp,       \* what is in tmp-extract/<name>
  cached,    \* what is in <name>
  bin,       \* of each executable: the bundle its link in ~/.crc/bin/oc belongs to
  torn,      \* the bundles whose removal has not been finished
  proc,      \* of each process: where it is, its command and bundle, entries done, and whether
             \* a first Use has failed
  smooth,    \* has nothing failed in the command of the process
  faults

cacheVars == <<archive, tmp, cached, bin, torn, proc, smooth, faults>>

All == {Entries[i] : i \in DOMAIN Entries}
Damaged == {Entries[1], Entries[2]}

Executables == {"oc", "podman"}

Idle(result) == [pc |-> "idle", command |-> "none", bundle |-> "none", done |-> 0, again |-> FALSE, result |-> result]

\* A cache may be empty, in use, or have lost files.
CacheInit ==
  /\ archive \in [Bundles -> {"missing", "complete"}]
  /\ \A b \in Bundles : Source[b] = "local" => archive[b] = "complete"
  /\ tmp = [b \in Bundles |-> {}]
  /\ cached \in [Bundles -> {{}, All, Damaged}]
  /\ bin = [e \in Executables |-> "none"] /\ torn = {}
  /\ proc = [p \in Procs |-> Idle("none")]
  /\ smooth = [p \in Procs |-> TRUE]
  /\ faults = 0

IsAt(p, pc) == proc[p].pc = pc
B(p) == proc[p].bundle
GoOn(p, pc) == proc' = [proc EXCEPT ![p] = [@ EXCEPT !.pc = pc, !.done = 0]]
Finish(p, result) == proc' = [proc EXCEPT ![p] = Idle(result)]

\* After a first Use that fails, for whatever reason, getCrcBundleInfo downloads and unpacks
\* the bundle; setup does so when the bundle is not found.
UseFails(p) ==
  IF proc[p].again THEN Finish(p, "error")
  ELSE proc' = [proc EXCEPT ![p] = [@ EXCEPT !.pc = "download", !.done = 0, !.again = TRUE]]

checkVersion(b) == b \in Supported

\* verify() looks for the key, the images, oc and the kubeconfig, and not at other files.
verify(b) == Verified \subseteq cached[b]

Get(b) == verify(b) /\ checkVersion(b)

-----------------------------------------------------------------------------
\* checkBundleExtracted and getCrcBundleInfo look for the bundle first,
Begin(p) ==
  /\ IsAt(p, "idle")
  /\ \E command \in {"setup", "start"}, b \in Bundles :
       proc' = [proc EXCEPT ![p] = [pc |-> "get", command |-> command, bundle |-> b, done |-> 0,
                                    again |-> FALSE, result |-> "none"]]
  /\ smooth' = [smooth EXCEPT ![p] = TRUE]
  /\ UNCHANGED <<archive, tmp, cached, bin, torn, faults>>

Look(p) ==
  /\ IsAt(p, "get")
  /\ IF ~Get(B(p)) THEN UseFails(p)
     ELSE IF proc[p].command = "start" THEN GoOn(p, "oc") ELSE Finish(p, "ok")
  /\ UNCHANGED <<archive, tmp, cached, bin, torn, smooth, faults>>

\* and download it: a local file is there, an image is pulled, and a download goes on where
\* an earlier one has ended.
Download(p) ==
  /\ IsAt(p, "download")
  /\ GoOn(p, IF Source[B(p)] = "local" THEN "clean"
           ELSE IF Source[B(p)] = "docker" THEN "pull" ELSE "request")
  /\ UNCHANGED <<archive, tmp, cached, bin, torn, smooth, faults>>

doRequest(p) ==
  /\ IsAt(p, "request")
  /\ IF archive[B(p)] = "complete" THEN GoOn(p, "clean") /\ UNCHANGED archive
     ELSE GoOn(p, "transfer") /\ archive' = [archive EXCEPT ![B(p)] = "partial"]
  /\ UNCHANGED <<tmp, cached, bin, torn, smooth, faults>>

\* The layer of an image is pulled to a directory of its own and unpacked in the cache.
copyImage(p) ==
  /\ IsAt(p, "pull")
  /\ GoOn(p, "layer")
  /\ archive' = [archive EXCEPT ![B(p)] = "partial"]
  /\ UNCHANGED <<tmp, cached, bin, torn, smooth, faults>>

Transfer(p) ==
  /\ proc[p].pc \in {"transfer", "layer"}
  /\ GoOn(p, "clean")
  /\ archive' = [archive EXCEPT ![B(p)] = "complete"]
  /\ UNCHANGED <<tmp, cached, bin, torn, smooth, faults>>

Fault(p) ==
  /\ faults < MaxFaults
  /\ faults' = faults + 1
  /\ smooth' = [smooth EXCEPT ![p] = FALSE]

\* The connection breaks, or what has arrived is not what the checksum is of, and deleted,
DownloadFails(p) ==
  /\ IsAt(p, "transfer") /\ Fault(p)
  /\ Finish(p, "error")
  /\ \E a \in {"partial", "missing"} : archive' = [archive EXCEPT ![B(p)] = a]
  /\ UNCHANGED <<tmp, cached, bin, torn>>

\* or what the signature is of, and left.
PullFails(p) ==
  /\ proc[p].pc \in {"pull", "layer"} /\ Fault(p)
  /\ Finish(p, "error")
  /\ \E a \in IF IsAt(p, "pull") THEN {archive[B(p)]} ELSE {"partial", "wrong"} :
       archive' = [archive EXCEPT ![B(p)] = a]
  /\ UNCHANGED <<tmp, cached, bin, torn>>

\* Can the archive be read, its format being told by its first bytes.
uncompress(b) == archive[b] = "complete"

\* The files with another one written, its directory made if it is not there.
uncompressFile(files, n) == files \cup {Entries[n], Entries[1]}

\* Repository.Extract begins with an empty tmp-extract,
Clean(p) ==
  /\ IsAt(p, "clean")
  /\ GoOn(p, "uncompress")
  /\ tmp' = [b \in Bundles |-> {}]
  /\ UNCHANGED <<archive, cached, bin, torn, smooth, faults>>

\* Mutation: it unpacks in place.
untarInPlace(p) ==
  /\ IsAt(p, "uncompress")
  /\ LET n == proc[p].done + 1
     IN  IF ~uncompress(B(p)) THEN GoOn(p, "fail") /\ UNCHANGED cached
         ELSE IF n > Len(Entries) THEN GoOn(p, "chmod") /\ UNCHANGED cached
         ELSE /\ proc' = [proc EXCEPT ![p].done = n]
              /\ cached' = [cached EXCEPT ![B(p)] = uncompressFile(@, n)]
  /\ UNCHANGED <<archive, tmp, bin, torn, smooth, faults>>

\* unpacks the archive there, creating directories that are missing,
untar(p) ==
  /\ IsAt(p, "uncompress")
  /\ LET n == proc[p].done + 1
     IN  IF ~uncompress(B(p)) THEN GoOn(p, "fail") /\ UNCHANGED tmp
         ELSE IF n > Len(Entries) THEN GoOn(p, "remove") /\ UNCHANGED tmp
         ELSE /\ proc' = [proc EXCEPT ![p].done = n]
              /\ tmp' = [tmp EXCEPT ![B(p)] = uncompressFile(@, n)]
  /\ UNCHANGED <<archive, cached, bin, torn, smooth, faults>>

\* removes what is there under its name, file by file,
Remove(p) ==
  /\ IsAt(p, "remove")
  /\ IF cached[B(p)] = {} THEN GoOn(p, "rename") /\ UNCHANGED cached
     ELSE /\ \E e \in cached[B(p)] :
               /\ e = Entries[1] => cached[B(p)] = {e}
               /\ cached' = [cached EXCEPT ![B(p)] = @ \ {e}]
          /\ UNCHANGED proc
  /\ UNCHANGED <<archive, tmp, bin, torn, smooth, faults>>

\* going on if it cannot,
RemoveFails(p) ==
  /\ IsAt(p, "remove") /\ Fault(p)
  /\ GoOn(p, "rename")
  /\ torn' = torn \cup {B(p)}
  /\ UNCHANGED <<archive, tmp, cached, bin>>

\* and renames the directory, trying again for a minute.
Rename(p) ==
  /\ IsAt(p, "rename")
  /\ IF tmp[B(p)] # {} /\ cached[B(p)] = {}
     THEN /\ GoOn(p, "chmod")
          /\ cached' = [cached EXCEPT ![B(p)] = tmp[B(p)]]
          /\ tmp' = [tmp EXCEPT ![B(p)] = {}]
          /\ torn' = torn \ {B(p)}
     ELSE GoOn(p, "fail") /\ UNCHANGED <<cached, tmp, torn>>
  /\ UNCHANGED <<archive, bin, smooth, faults>>

Chmod(p) ==
  /\ IsAt(p, "chmod")
  /\ GoOn(p, IF cached[B(p)] = {} THEN "fail" ELSE "succeed")
  /\ UNCHANGED <<archive, tmp, cached, bin, torn, smooth, faults>>

\* In either case tmp-extract is removed when it returns, and the bundle looked for again.
Extract(p) ==
  /\ proc[p].pc \in {"succeed", "fail"}
  /\ tmp' = [b \in Bundles |-> {}]
  /\ IF IsAt(p, "fail") THEN Finish(p, "error") ELSE GoOn(p, "getAgain")
  /\ UNCHANGED <<archive, cached, bin, torn, smooth, faults>>

GetAgain(p) ==
  /\ IsAt(p, "getAgain")
  /\ IF ~Get(B(p)) THEN Finish(p, "error")
     ELSE IF proc[p].command = "start" THEN GoOn(p, "get") ELSE Finish(p, "ok")
  /\ UNCHANGED <<archive, tmp, cached, bin, torn, smooth, faults>>

-----------------------------------------------------------------------------
\* Repository.Use replaces the links to oc, for the bundle of a cluster, and to podman, if the
\* metadata list them: a link is removed, and made again.
Linked(b, e) == e \in Listed[b] /\ (e = "oc" => b \in OpenShift)

Made == [oc |-> "linkOc", podman |-> "linkPodman"]

Linking(p, e) == IF e = "oc" THEN GoOn(p, "podman") ELSE Finish(p, "ok")

Unlink(p) ==
  /\ \E e \in Executables :
       /\ IsAt(p, e)
       /\ IF Linked(B(p), e) THEN GoOn(p, Made[e]) /\ bin' = [bin EXCEPT ![e] = "none"]
          ELSE Linking(p, e) /\ UNCHANGED bin
  /\ UNCHANGED <<archive, tmp, cached, torn, smooth, faults>>

\* That fails when another process has made it meanwhile,
copyExecutableFromBundle(p) ==
  /\ \E e \in Executables :
       /\ IsAt(p, Made[e])
       /\ IF bin[e] = "none" THEN Linking(p, e) /\ bin' = [bin EXCEPT ![e] = B(p)]
          ELSE UseFails(p) /\ UNCHANGED bin
  /\ UNCHANGED <<archive, tmp, cached, torn, smooth, faults>>

\* when an executable in use could not be removed, or when it cannot be made.
LinkFails(p) ==
  /\ \E e \in Executables : proc[p].pc \in {e, Made[e]} /\ Linked(B(p), e)
  /\ Fault(p)
  /\ UseFails(p)
  /\ UNCHANGED <<archive, tmp, cached, bin, torn>>

\* A process ends without its deferred calls.
Crash(p) ==
  /\ ~IsAt(p, "idle") /\ Fault(p)
  /\ Finish(p, "none")
  /\ torn' = IF IsAt(p, "remove") THEN torn \cup {B(p)} ELSE torn
  /\ UNCHANGED <<archive, tmp, cached, bin>>

Step(p) ==
  \/ Look(p)
  \/ Download(p)
  \/ doRequest(p)
  \/ copyImage(p)
  \/ Transfer(p)
  \/ DownloadFails(p)
  \/ PullFails(p)
  \/ Clean(p)
  \/ untar(p)
  \/ Remove(p)
  \/ RemoveFails(p)
  \/ Rename(p)
  \/ Chmod(p)
  \/ Extract(p)
  \/ GetAgain(p)
  \/ Unlink(p)
  \/ copyExecutableFromBundle(p)
  \/ LinkFails(p)

CacheNext == \E p \in Procs : Begin(p) \/ Step(p) \/ Crash(p)

CacheSpec == CacheInit /\ [][CacheNext]_cacheVars

-----------------------------------------------------------------------------
\* Type invariant.
CacheTypeOK ==
  /\ archive \in [Bundles -> {"missing", "partial", "wrong", "complete"}]
  /\ tmp \in [Bundles -> SUBSET All] /\ cached \in [Bundles -> SUBSET All]
  /\ \A b \in Bundles : cached[b] # {} => Entries[1] \in cached[b]
  /\ bin \in [Executables -> Bundles \cup {"none"}] /\ torn \subseteq Bundles
  /\ \A p \in Procs : proc[p].done \in 0..Len(Entries) /\ proc[p].result \in {"none", "ok", "error"}
  /\ smooth \in [Procs -> BOOLEAN] /\ faults \in 0..MaxFaults

(***************************************************************************)
(* A bundle that Repository.Get accepts is whole, the entries that         *)
(* verify() does not look for included: it is unpacked elsewhere and       *)
(* renamed, so that nothing cut short on the way leaves what Get accepts.  *)
(* The one exception is the RemoveAll of Extract over a bundle that Get    *)
(* accepts, which a start comes to when a link could not be made: while it *)
(* runs and, if it is cut short or fails, until the bundle is unpacked     *)
(* again.                                                                  *)
(***************************************************************************)
GetMeansWhole ==
  \A b \in Bundles :
    (Get(b) /\ b \notin torn /\ \A p \in Procs : ~(IsAt(p, "remove") /\ B(p) = b)) => cached[b] = All

(***************************************************************************)
(* The same without the exception, which does not hold.                    *)
(***************************************************************************)
GetAlwaysMeansWhole == \A b \in Bundles : Get(b) => cached[b] = All

(***************************************************************************)
(* "crc setup" and the unpacking of "crc start" succeed when no download   *)
(* fails and no process ends, with whatever earlier commands that did      *)
(* not have left in the cache: TestExtract says that Extract returns nil   *)
(* and that Get finds the bundle then.                                     *)
(***************************************************************************)
SmoothSucceeds ==
  \A p \in Procs : (IsAt(p, "idle") /\ smooth[p]) => proc[p].result # "error"

(***************************************************************************)
(* When getCrcBundleInfo returns nil, ~/.crc/bin/oc holds those            *)
(* executables of the bundle that is started which Use is to link, and not *)
(* those of the one started before.  No command touches the others: a link *)
(* to oc stays that of an older bundle when the bundle started lists none  *)
(* or has no cluster.                                                      *)
(***************************************************************************)
UseLinksBundle ==
  [][\A p \in Procs, e \in Executables :
       /\ (proc[p].command = "start" /\ proc'[p].result = "ok" /\ ~IsAt(p, "idle") /\ Linked(B(p), e))
            => bin'[e] = B(p)
       /\ bin'[e] # bin[e] => \E q \in Procs : ~IsAt(q, "idle") /\ Linked(B(q), e)]_cacheVars

(***************************************************************************)
(* What the name of the directory says: after a start with the bundle of a *)
(* cluster, oc is that bundle's.  It does not hold when its metadata list  *)
(* no oc.                                                                  *)
(***************************************************************************)
OcIsBundles ==
  [][\A p \in Procs :
       (proc[p].command = "start" /\ proc'[p].result = "ok" /\ ~IsAt(p, "idle") /\ B(p) \in OpenShift)
         => bin'["oc"] = B(p)]_cacheVars

=============================================================================

-------------------------- MODULE BundleLifeProofs --------------------------
(***************************************************************************)
(* What happens to a bundle, for every value of the constants: each of the *)
(* three parts of BundleLife has an inductive invariant here, and what the *)
(* whole promises follows from them.                                       *)
(***************************************************************************)
EXTENDS BundleLife, TLAPS

-----------------------------------------------------------------------------
\* Nothing is copied at the beginning.
LEMMA CopyBegins == CopyInit => CopyInv
<1> SUFFICES ASSUME CopyInit PROVE CopyInv
  OBVIOUS
<1>1. len \in Nat /\ src \in [1..len -> Bytes] /\ read = 0 /\ offset = 0 /\ size = 0
  BY SparseAssumption DEF CopyInit
<1>2. 1..size = {} /\ (size + 1)..read = {}
  BY <1>1
<1>3. content \in [1..size -> Bytes]
  BY <1>1, <1>2 DEF CopyInit
<1>4. read \in 0..len /\ offset \in 0..len /\ size \in 0..len
  BY <1>1
<1>5. lastChunkSparse = FALSE /\ pc = "copy"
  BY DEF CopyInit
<1>6. CopyTypeOK
  BY <1>1, <1>3, <1>4, <1>5, Zenon DEF CopyTypeOK
<1>7. /\ \A i \in 1..size : content[i] = src[i]
      /\ \A i \in (size + 1)..read : src[i] = 0
  BY <1>2
<1>8. offset = read /\ size <= read /\ size = read /\ pc # "done"
  BY <1>1, <1>5
<1> QED
  BY <1>6, <1>7, <1>8 DEF CopyInv

\* A chunk that is skipped is a run of zeroes, and one that is written continues the copy.
LEMMA WritePreserves == CopyInv /\ Write => CopyInv'
<1> SUFFICES ASSUME CopyInv, Write PROVE CopyInv'
  OBVIOUS
<1> USE SparseAssumption
<1>1. PICK k \in 1..MaxRead :
        /\ read + k <= len
        /\ IF isEmptyChunk(k) THEN Skip(k) ELSE WriteChunk(k)
  BY DEF Write
<1>2. UNCHANGED <<len, src, pc>> /\ pc = "copy"
  BY DEF Write
<1>3. k \in Nat /\ k > 0
  BY <1>1
<1>4. CASE isEmptyChunk(k)
  <2>1. Skip(k)
    BY <1>1, <1>4
  <2>2. \A i \in (read + 1)..(read + k) : src[i] = 0
    BY <1>4 DEF isEmptyChunk
  <2> QED
    BY <1>1, <1>2, <1>3, <2>1, <2>2 DEF CopyInv, CopyTypeOK, Skip
<1>5. CASE ~isEmptyChunk(k)
  <2>1. WriteChunk(k)
    BY <1>1, <1>5
  <2>2. /\ size' = read + k /\ read' = read + k /\ offset' = read + k /\ lastChunkSparse' = FALSE
        /\ content' = [i \in 1..(read + k) |->
                         IF i > read THEN src[i - read + read]
                         ELSE IF i <= size THEN content[i] ELSE 0]
    BY <2>1 DEF WriteChunk, CopyInv
  <2>3. \A i \in 1..(read + k) : content'[i] = src[i]
    <3> SUFFICES ASSUME NEW i \in 1..(read + k) PROVE content'[i] = src[i]
      OBVIOUS
    <3>1. i \in Nat /\ read \in Nat /\ size \in Nat
      BY <1>3 DEF CopyInv, CopyTypeOK
    <3>2. CASE i > read
      <4>1. i - read + read = i
        BY <3>1
      <4> QED
        BY <2>2, <3>2, <4>1
    <3>3. CASE i <= read /\ i <= size
      BY <2>2, <3>1, <3>3 DEF CopyInv
    <3>4. CASE i <= read /\ ~(i <= size)
      <4>1. i \in (size + 1)..read
        BY <3>1, <3>4
      <4>2. src[i] = 0
        BY <4>1 DEF CopyInv
      <4> QED
        BY <2>2, <3>1, <3>4, <4>2
    <3> QED
      BY <3>1, <3>2, <3>3, <3>4
  <2>4. content' \in [1..size' -> Bytes]
    <3>1. \A i \in 1..(read + k) : i \in 1..len
      BY <1>1, <1>3 DEF CopyInv, CopyTypeOK
    <3>2. \A i \in 1..(read + k) : content'[i] \in Bytes
      BY <2>3, <3>1 DEF CopyInv, CopyTypeOK
    <3> QED
      BY <2>2, <3>2
  <2>5. read + k \in 0..len /\ read + k \in Nat /\ len \in Nat
    BY <1>1, <1>3 DEF CopyInv, CopyTypeOK
  <2>6. CopyTypeOK'
    BY <1>2, <2>2, <2>4, <2>5, Zenon DEF CopyInv, CopyTypeOK
  <2>7. (size' + 1)..read' = {}
    BY <2>2, <2>5
  <2>8. /\ \A i \in 1..size' : content'[i] = src'[i]
        /\ \A i \in (size' + 1)..read' : src'[i] = 0
    BY <1>2, <2>2, <2>3, <2>7
  <2>9. offset' = read' /\ size' = read' /\ size' <= read' /\ pc' # "done"
    BY <1>2, <2>2, <2>5
  <2> QED
    BY <2>6, <2>8, <2>9 DEF CopyInv
<1> QED
  BY <1>4, <1>5

\* A zero at the end makes the hole before it part of the file.
LEMMA ClosePreserves == CopyInv /\ Close => CopyInv'
<1> SUFFICES ASSUME CopyInv, Close PROVE CopyInv'
  OBVIOUS
<1> USE SparseAssumption
<1>1. CASE ~lastChunkSparse
  BY <1>1 DEF CopyInv, CopyTypeOK, Close
<1>2. CASE lastChunkSparse
  <2>0. read \in Nat /\ size \in Nat /\ size <= read /\ offset = read
    BY DEF CopyInv, CopyTypeOK
  <2>1. /\ size' = read /\ read = len /\ pc' = "done"
        /\ UNCHANGED <<len, src, read, offset, lastChunkSparse>>
        /\ content' = [i \in 1..read |-> IF i <= size THEN content[i] ELSE 0]
    BY <1>2 DEF CopyInv, Close
  <2>2. \A i \in 1..read : content'[i] = src[i]
    BY <2>1 DEF CopyInv, CopyTypeOK
  <2>3. content' \in [1..read -> Bytes]
    BY <2>1 DEF CopyInv, CopyTypeOK
  <2>4. CopyTypeOK'
    BY <2>0, <2>1, <2>3 DEF CopyInv, CopyTypeOK
  <2>5. (size' + 1)..read' = {}
    BY <2>0, <2>1
  <2>6. /\ \A i \in 1..size' : content'[i] = src'[i]
        /\ \A i \in (size' + 1)..read' : src'[i] = 0
    BY <2>1, <2>2, <2>5
  <2>7. offset' = read' /\ size' = read' /\ size' <= read' /\ read' = len'
    BY <2>0, <2>1
  <2> QED
    BY <2>4, <2>6, <2>7 DEF CopyInv
<1> QED
  BY <1>1, <1>2 DEF CopyInv, CopyTypeOK

\* Every step of the copy keeps what has been copied.
LEMMA CopyStep == CopyInv /\ [CopyNext]_copyVars => CopyInv'
<1>1. CopyInv /\ UNCHANGED copyVars => CopyInv'
  BY DEF CopyInv, CopyTypeOK, copyVars
<1> QED
  BY <1>1, WritePreserves, ClosePreserves DEF CopyNext

\* The invariant says all there is to say about a copy that is done.
LEMMA CopyMeans == CopyInv => CopyFaithful
<1> SUFFICES ASSUME CopyInv, pc = "done" PROVE size = len /\ content = src
  BY DEF CopyFaithful
<1>0. size = read /\ read = len
  BY DEF CopyInv
<1>1. size = len
  BY <1>0
<1>2. content \in [1..len -> Bytes] /\ src \in [1..len -> Bytes]
  BY <1>1 DEF CopyInv, CopyTypeOK
<1>3. \A i \in 1..len : content[i] = src[i]
  BY <1>1 DEF CopyInv
<1>4. content = [i \in 1..len |-> content[i]] /\ src = [i \in 1..len |-> src[i]]
  BY <1>2
<1> QED
  BY <1>1, <1>3, <1>4

\* What CopySparse keeps, for every chunk size, every length and all bytes of the source.
THEOREM CopyInvariant == CopySpec => []CopyInv
BY CopyBegins, CopyStep, PTL DEF CopySpec

\* CopySparse copies: for every chunk size, every length and all bytes of the source, and
\* wherever the reads end, the destination is equal to the source when it returns nil.
THEOREM SparseCopyFaithful == CopySpec => []CopyFaithful
BY CopyInvariant, CopyMeans, PTL

-----------------------------------------------------------------------------
\* The processes are one, and its command the only one at the cache.
OneProcess == \A p, q \in Procs : p = q

CachePlaces ==
  {"idle", "get", "download", "request", "pull", "transfer", "layer", "clean", "uncompress", "remove",
   "rename", "chmod", "succeed", "fail", "getAgain", "oc", "linkOc", "podman", "linkPodman"}

\* Something has failed in every command that is under way.
Troubled == \A q \in Procs : ~smooth[q]

Results == {"none", "ok", "error"}

CacheTypes ==
  /\ archive \in [Bundles -> {"missing", "partial", "wrong", "complete"}]
  /\ tmp \in [Bundles -> SUBSET All] /\ cached \in [Bundles -> SUBSET All]
  /\ bin \in [Executables -> Bundles \cup {"none"}] /\ torn \subseteq Bundles
  /\ proc \in [Procs -> [pc : CachePlaces, command : {"none", "setup", "start"}, bundle : Bundles \cup {"none"},
                         done : 0..Len(Entries), again : BOOLEAN, result : Results]]
  /\ smooth \in [Procs -> BOOLEAN] /\ faults \in 0..MaxFaults

\* The first entries of the archive.
Unpacked(n) == {Entries[i] : i \in 1..n}

\* What the command of a process relies on at its place.
CacheKnows(j) ==
  /\ j.pc # "idle" => j.bundle \in Bundles /\ j.command \in {"setup", "start"} /\ j.result = "none"
  /\ j.pc \in {"request", "pull", "transfer", "layer"} => Source[j.bundle] # "local"
  /\ j.pc \in {"clean", "uncompress"} => archive[j.bundle] = "complete"
  /\ j.pc = "uncompress" => tmp[j.bundle] = Unpacked(j.done)
  /\ j.pc \in {"remove", "rename"} => tmp[j.bundle] = All
  /\ j.pc = "rename" => cached[j.bundle] = {} \/ (j.bundle \in torn /\ Troubled)
  /\ j.pc \in {"chmod", "succeed", "getAgain"} \/ (j.pc = "get" /\ j.again) => cached[j.bundle] = All
  /\ j.pc = "fail" => Troubled

\* The same of Use, which links one executable after the other.
LinkKnows(j) ==
  /\ j.pc \in {"oc", "linkOc", "podman", "linkPodman"} => j.command = "start"
  /\ j.pc = "linkOc" => bin["oc"] = "none" /\ Linked(j.bundle, "oc")
  /\ j.pc \in {"podman", "linkPodman"} /\ Linked(j.bundle, "oc") => bin["oc"] = j.bundle
  /\ j.pc = "linkPodman" => bin["podman"] = "none" /\ Linked(j.bundle, "podman")

\* Is the bundle being removed.
Removing(b) == \E p \in Procs : proc[p].pc = "remove" /\ proc[p].bundle = b

\* Files of the user's are there, directories are made before what is in them, and what Get
\* accepts is whole unless its removal is under way or has been left.
CacheSound ==
  /\ \A b \in Bundles : Source[b] = "local" => archive[b] = "complete"
  /\ \A b \in Bundles : cached[b] # {} => Entries[1] \in cached[b]
  /\ \A b \in Bundles : Get(b) /\ b \notin torn /\ ~Removing(b) => cached[b] = All

CacheInv ==
  /\ CacheTypes /\ CacheSound
  /\ \A p \in Procs : CacheKnows(proc[p]) /\ LinkKnows(proc[p])
  /\ Bundles \subseteq Supported => SmoothSucceeds

CacheJobs ==
  [pc : CachePlaces, command : {"none", "setup", "start"}, bundle : Bundles \cup {"none"},
   done : 0..Len(Entries), again : BOOLEAN, result : Results]

\* The links are those of the bundle when a start has ended well, and others are left alone.
Links(p) ==
  \A e \in Executables :
    /\ (proc[p].command = "start" /\ proc'[p].result = "ok" /\ proc[p].pc # "idle" /\ Linked(proc[p].bundle, e))
         => bin'[e] = proc[p].bundle
    /\ bin'[e] # bin[e] => proc[p].pc # "idle" /\ Linked(proc[p].bundle, e)

\* The entries of an archive, and those that are there when it has been unpacked up to one of them.
LEMMA EntriesUnpacked ==
  /\ Len(Entries) \in Nat /\ Len(Entries) > 1
  /\ Unpacked(0) = {} /\ Unpacked(Len(Entries)) = All
  /\ \A n \in 0..Len(Entries) : Unpacked(n) \subseteq All
  /\ \A n \in 0..Len(Entries) :
       n + 1 <= Len(Entries) => Unpacked(n) \cup {Entries[n + 1], Entries[1]} = Unpacked(n + 1)
  /\ Entries[1] \in All /\ Damaged \subseteq All
<1>1. Entries \in Seq(STRING) /\ Len(Entries) \in Nat /\ Len(Entries) > 1 /\ DOMAIN Entries = 1..Len(Entries)
  BY CacheAssumption
<1>2. Unpacked(0) = {} /\ Unpacked(Len(Entries)) = All
  BY <1>1 DEF Unpacked, All
<1>3. \A n \in 0..Len(Entries) : Unpacked(n) \subseteq All
  BY <1>1 DEF Unpacked, All
<1>4. ASSUME NEW n \in 0..Len(Entries), n + 1 <= Len(Entries)
      PROVE  Unpacked(n) \cup {Entries[n + 1], Entries[1]} = Unpacked(n + 1)
  <2>1. 1..(n + 1) = (1..n) \cup {n + 1} /\ 1 \in 1..(n + 1)
    BY <1>1, <1>4
  <2> QED BY <2>1 DEF Unpacked
<1>5. Entries[1] \in All /\ Damaged \subseteq All
  BY <1>1 DEF All, Damaged
<1> QED BY <1>1, <1>2, <1>3, <1>4, <1>5

\* The cache may have been in use.
LEMMA CacheBegins == CacheInit => CacheInv
<1> SUFFICES ASSUME CacheInit PROVE CacheInv
  OBVIOUS
<1> USE EntriesUnpacked, CacheAssumption
<1>1. CacheTypes
  BY DEF CacheInit, Idle, CacheTypes, CachePlaces, Results, Executables
<1>2. CacheSound
  <2>1. \A b \in Bundles : cached[b] # {} => Entries[1] \in cached[b]
    BY DEF CacheInit, Damaged
  <2>2. \A b \in Bundles : Get(b) => cached[b] = All
    BY DEF CacheInit, Get, verify
  <2> QED BY <2>1, <2>2 DEF CacheInit, CacheSound
<1>3. \A p \in Procs : CacheKnows(proc[p]) /\ LinkKnows(proc[p]) /\ proc[p].result = "none"
  BY DEF CacheInit, Idle, CacheKnows, LinkKnows
<1> QED BY <1>1, <1>2, <1>3 DEF CacheInv, SmoothSucceeds

\* A command at its next place.
Moved(i, place) == [i EXCEPT !.pc = place, !.done = 0]

Retried(i) == [i EXCEPT !.pc = "download", !.done = 0, !.again = TRUE]

\* It is a command again, and its other fields stay.
LEMMA JobGoes ==
  ASSUME NEW i \in CacheJobs, NEW place \in CachePlaces
  PROVE  /\ Moved(i, place) \in CacheJobs /\ Moved(i, place).pc = place
         /\ Moved(i, place).command = i.command /\ Moved(i, place).bundle = i.bundle
         /\ Moved(i, place).done = 0 /\ Moved(i, place).again = i.again /\ Moved(i, place).result = i.result
<1>1. i = [pc |-> i.pc, command |-> i.command, bundle |-> i.bundle, done |-> i.done, again |-> i.again,
           result |-> i.result]
  BY DEF CacheJobs
<1>2. PICK j : j = [i EXCEPT !.pc = place, !.done = 0]
  OBVIOUS
<1>3. j = [pc |-> j.pc, command |-> j.command, bundle |-> j.bundle, done |-> j.done, again |-> j.again,
           result |-> j.result]
  BY <1>1, <1>2, Zenon
<1>4. /\ j.pc = place /\ j.command = i.command /\ j.bundle = i.bundle /\ j.done = 0 /\ j.again = i.again
      /\ j.result = i.result
  BY <1>1, <1>2
<1>5. /\ 0 \in 0..Len(Entries) /\ i.command \in {"none", "setup", "start"}
      /\ i.bundle \in Bundles \cup {"none"} /\ i.again \in BOOLEAN /\ i.result \in Results
  BY EntriesUnpacked DEF CacheJobs
<1>6. j \in CacheJobs
  BY <1>3, <1>4, <1>5 DEF CacheJobs
<1>7. Moved(i, place) = j
  BY <1>2, Zenon DEF Moved
<1> QED BY <1>4, <1>6, <1>7

\* So it is where a first Use has failed.
LEMMA JobRetries ==
  ASSUME NEW i \in CacheJobs
  PROVE  /\ Retried(i) \in CacheJobs /\ Retried(i).pc = "download"
         /\ Retried(i).command = i.command /\ Retried(i).bundle = i.bundle
         /\ Retried(i).again = TRUE /\ Retried(i).result = i.result
<1>1. i = [pc |-> i.pc, command |-> i.command, bundle |-> i.bundle, done |-> i.done, again |-> i.again,
           result |-> i.result]
  BY DEF CacheJobs
<1>2. PICK j : j = [i EXCEPT !.pc = "download", !.done = 0, !.again = TRUE]
  OBVIOUS
<1>3. j = [pc |-> j.pc, command |-> j.command, bundle |-> j.bundle, done |-> j.done, again |-> j.again,
           result |-> j.result]
  BY <1>1, <1>2, Zenon
<1>4. /\ j.pc = "download" /\ j.command = i.command /\ j.bundle = i.bundle /\ j.done = 0 /\ j.again = TRUE
      /\ j.result = i.result
  BY <1>1, <1>2
<1>5. /\ 0 \in 0..Len(Entries) /\ i.command \in {"none", "setup", "start"} /\ "download" \in CachePlaces
      /\ i.bundle \in Bundles \cup {"none"} /\ i.result \in Results
  BY EntriesUnpacked DEF CacheJobs, CachePlaces
<1>6. j \in CacheJobs
  BY <1>3, <1>4, <1>5 DEF CacheJobs
<1>7. Retried(i) = j
  BY <1>2, Zenon DEF Retried
<1> QED BY <1>4, <1>6, <1>7

\* One whose fields are given.
LEMMA JobGiven ==
  ASSUME NEW place \in CachePlaces, NEW command \in {"none", "setup", "start"}, NEW b \in Bundles \cup {"none"},
         NEW r \in Results, NEW j, j = [pc |-> place, command |-> command, bundle |-> b, done |-> 0, again |-> FALSE, result |-> r]
  PROVE  /\ j \in CacheJobs
         /\ j.pc = place /\ j.command = command /\ j.bundle = b /\ j.again = FALSE /\ j.result = r
BY EntriesUnpacked DEF CacheJobs

\* One that begins.
Begun(command, b) ==
  [pc |-> "get", command |-> command, bundle |-> b, done |-> 0, again |-> FALSE, result |-> "none"]

Fresh(j, command, b) ==
  /\ j \in CacheJobs
  /\ j.pc = "get" /\ j.command = command /\ j.bundle = b /\ j.again = FALSE /\ j.result = "none"

\* It is a command with the fields it was given.
LEMMA JobBegins == \A command \in {"setup", "start"}, b \in Bundles : Fresh(Begun(command, b), command, b)
BY EntriesUnpacked DEF Fresh, Begun, CacheJobs, CachePlaces, Results

\* What a command's next place is.
LEMMA CacheGoes ==
  ASSUME CacheTypes, NEW p \in Procs, NEW place \in CachePlaces, GoOn(p, place)
  PROVE  /\ proc' \in [Procs -> CacheJobs]
         /\ proc'[p].pc = place /\ proc'[p].command = proc[p].command /\ proc'[p].bundle = proc[p].bundle
         /\ proc'[p].done = 0 /\ proc'[p].again = proc[p].again /\ proc'[p].result = proc[p].result
<1>1. proc[p] \in CacheJobs /\ proc \in [Procs -> CacheJobs]
  BY DEF CacheTypes, CacheJobs
<1>2. proc' = [proc EXCEPT ![p] = Moved(proc[p], place)]
  BY Zenon DEF GoOn, Moved
<1>3. /\ Moved(proc[p], place) \in CacheJobs /\ Moved(proc[p], place).pc = place
      /\ Moved(proc[p], place).command = proc[p].command /\ Moved(proc[p], place).bundle = proc[p].bundle
      /\ Moved(proc[p], place).done = 0 /\ Moved(proc[p], place).again = proc[p].again
      /\ Moved(proc[p], place).result = proc[p].result
  BY <1>1, JobGoes
<1>4. proc' \in [Procs -> CacheJobs] /\ proc'[p] = Moved(proc[p], place)
  BY <1>1, <1>2, <1>3
<1> QED BY <1>3, <1>4

\* A command that is over.
LEMMA CacheReturns ==
  ASSUME CacheTypes, NEW p \in Procs, NEW r \in Results, Finish(p, r)
  PROVE  /\ proc' \in [Procs -> CacheJobs]
         /\ proc'[p].pc = "idle" /\ proc'[p].result = r
BY EntriesUnpacked DEF CacheTypes, CacheJobs, CachePlaces, Finish, Idle, Results

\* A Use that fails: the first one leads to a download.
LEMMA CacheRetries ==
  ASSUME CacheTypes, NEW p \in Procs, UseFails(p)
  PROVE  /\ proc' \in [Procs -> CacheJobs]
         /\ \/ /\ proc[p].again = FALSE /\ proc'[p].pc = "download"
               /\ proc'[p].command = proc[p].command /\ proc'[p].bundle = proc[p].bundle
               /\ proc'[p].again = TRUE /\ proc'[p].result = proc[p].result
            \/ proc[p].again = TRUE /\ proc'[p].pc = "idle" /\ proc'[p].result = "error"
<1>1. proc[p] \in CacheJobs /\ proc \in [Procs -> CacheJobs] /\ proc[p].again \in BOOLEAN
  BY DEF CacheTypes, CacheJobs
<1>2. CASE proc[p].again = TRUE
  <2>1. Finish(p, "error")
    BY <1>2 DEF UseFails
  <2> QED BY <1>2, <2>1, CacheReturns DEF Results
<1>3. CASE proc[p].again = FALSE
  <2>1. proc' = [proc EXCEPT ![p] = Retried(proc[p])]
    BY <1>3, Zenon DEF UseFails, Retried
  <2>2. /\ Retried(proc[p]) \in CacheJobs /\ Retried(proc[p]).pc = "download"
        /\ Retried(proc[p]).command = proc[p].command /\ Retried(proc[p]).bundle = proc[p].bundle
        /\ Retried(proc[p]).again = TRUE /\ Retried(proc[p]).result = proc[p].result
    BY <1>1, JobRetries
  <2>3. proc' \in [Procs -> CacheJobs] /\ proc'[p] = Retried(proc[p])
    BY <1>1, <2>1, <2>2
  <2> QED BY <1>3, <2>2, <2>3
<1> QED BY <1>1, <1>2, <1>3

\* A step that leaves the bundles as they are, and takes the command to a place it may be at.
LEMMA CacheMoves ==
  ASSUME OneProcess, CacheInv, NEW p \in Procs, proc' \in [Procs -> CacheJobs],
         UNCHANGED <<archive, tmp, cached, torn>>, bin' \in [Executables -> Bundles \cup {"none"}],
         smooth' \in [Procs -> BOOLEAN], faults' \in 0..MaxFaults,
         proc[p].pc # "remove", CacheKnows(proc[p])', LinkKnows(proc[p])',
         Bundles \subseteq Supported => (proc'[p].pc = "idle" /\ smooth'[p] => proc'[p].result # "error")
  PROVE  CacheInv'
<1>1. \A q \in Procs : q = p
  BY DEF OneProcess
<1>2. CacheTypes'
  BY DEF CacheInv, CacheTypes, CacheJobs
<1>3. \A b \in Bundles : ~Removing(b)
  BY <1>1 DEF Removing
<1>4. CacheSound'
  BY <1>3 DEF CacheInv, CacheSound, Get, verify
<1>5. \A q \in Procs : CacheKnows(proc[q])' /\ LinkKnows(proc[q])'
  BY <1>1
<1>6. Bundles \subseteq Supported => SmoothSucceeds'
  BY <1>1 DEF SmoothSucceeds, IsAt
<1> QED BY <1>2, <1>4, <1>5, <1>6, Zenon DEF CacheInv

\* What the steps of a command do to its place, to the links, and to the rest.
LEMMA CacheLooks ==
  ASSUME OneProcess, CacheInv, NEW p \in Procs,
         Begin(p) \/ Look(p) \/ Download(p) \/ Chmod(p) \/ GetAgain(p)
  PROVE  CacheInv' /\ Links(p)
<1>0. /\ CacheTypes /\ CacheSound /\ CacheKnows(proc[p]) /\ proc[p] \in CacheJobs
      /\ proc[p].pc \in {"idle", "get", "download", "chmod", "getAgain"}
  BY DEF CacheInv, CacheTypes, CacheJobs, Begin, Look, Download, Chmod, GetAgain, IsAt
<1> DEFINE Right == proc'[p].pc = "idle" /\ smooth'[p] => proc'[p].result # "error"
<1>1. CASE Begin(p)
  <2>1. PICK command \in {"setup", "start"}, b \in Bundles : proc' = [proc EXCEPT ![p] = Begun(command, b)]
    BY <1>1, Zenon DEF Begin, Begun
  <2>2. /\ Begun(command, b) \in CacheJobs
        /\ Begun(command, b).pc = "get" /\ Begun(command, b).command = command
        /\ Begun(command, b).bundle = b /\ Begun(command, b).again = FALSE /\ Begun(command, b).result = "none"
    <3>1. Fresh(Begun(command, b), command, b)
      BY JobBegins, Zenon
    <3> QED BY <3>1, Zenon DEF Fresh
  <2>3. proc' \in [Procs -> CacheJobs] /\ proc'[p] = Begun(command, b)
    BY <1>0, <2>1, <2>2 DEF CacheTypes, CacheJobs
  <2>4. CacheKnows(proc[p])' /\ LinkKnows(proc[p])' /\ Right
    BY <1>1, <2>2, <2>3, Zenon, ZenonT(60) DEF CacheKnows, LinkKnows
  <2>5. /\ smooth' \in [Procs -> BOOLEAN] /\ bin' = bin /\ bin \in [Executables -> Bundles \cup {"none"}]
        /\ UNCHANGED <<archive, tmp, cached, torn, faults>> /\ faults \in 0..MaxFaults
    BY <1>0, <1>1 DEF Begin, CacheTypes
  <2>6. Links(p)
    BY <2>2, <2>3, <2>5, Zenon DEF Links
  <2> QED BY <1>0, <2>3, <2>4, <2>5, <2>6, CacheMoves DEF Right
<1> HIDE DEF Right
<1>a. ASSUME UNCHANGED <<archive, tmp, cached, bin, torn, smooth, faults>>, proc' \in [Procs -> CacheJobs],
             CacheKnows(proc[p])', LinkKnows(proc[p])', Bundles \subseteq Supported => Right,
             proc'[p].result = "ok" => proc[p].command # "start"
      PROVE  CacheInv' /\ Links(p)
  <2>1. /\ smooth' \in [Procs -> BOOLEAN] /\ bin' \in [Executables -> Bundles \cup {"none"}] /\ faults' \in 0..MaxFaults
        /\ UNCHANGED <<archive, tmp, cached, torn>>
    BY <1>0, <1>a DEF CacheTypes
  <2>2. CacheInv'
    BY <1>0, <1>a, <2>1, CacheMoves DEF Right
  <2>3. Links(p)
    BY <1>a, Zenon DEF Links
  <2> QED BY <2>2, <2>3
<1>2. CASE Look(p)
  <2>1. proc[p].pc = "get" /\ UNCHANGED <<archive, tmp, cached, bin, torn, smooth, faults>>
    BY <1>2, Zenon, ZenonT(60) DEF Look, IsAt
  <2>b. /\ proc[p].bundle \in Bundles /\ proc[p].command \in {"setup", "start"} /\ proc[p].result = "none"
        /\ proc[p].again \in BOOLEAN
    BY <1>0, <2>1 DEF CacheKnows, CacheJobs
  <2>2. /\ proc' \in [Procs -> CacheJobs]
        /\ proc'[p].pc \in {"download", "oc", "idle"}
        /\ proc'[p].pc # "idle" =>
             proc'[p].command = proc[p].command /\ proc'[p].bundle = proc[p].bundle /\ proc'[p].result = "none"
        /\ proc'[p].pc = "oc" => proc[p].command = "start"
        /\ proc'[p].pc = "idle" =>
             \/ proc'[p].result = "ok" /\ proc[p].command # "start"
             \/ proc'[p].result = "error" /\ ~Get(proc[p].bundle) /\ proc[p].again = TRUE
    <3>1. CASE ~Get(proc[p].bundle)
      <4>1. UseFails(p)
        BY <1>2, <3>1 DEF Look, B
      <4> QED BY <1>0, <2>b, <3>1, <4>1, CacheRetries
    <3>2. CASE Get(proc[p].bundle) /\ proc[p].command = "start"
      <4>1. GoOn(p, "oc")
        BY <1>2, <3>2 DEF Look, B
      <4> QED BY <1>0, <2>b, <3>2, <4>1, CacheGoes DEF CachePlaces
    <3>3. CASE Get(proc[p].bundle) /\ proc[p].command # "start"
      <4>1. Finish(p, "ok")
        BY <1>2, <3>3 DEF Look, B
      <4> QED BY <1>0, <3>3, <4>1, CacheReturns DEF Results
    <3> QED BY <3>1, <3>2, <3>3
  <2>3. CacheKnows(proc[p])' /\ LinkKnows(proc[p])'
    BY <2>b, <2>2, Zenon DEF CacheKnows, LinkKnows
  <2>4. (Bundles \subseteq Supported /\ proc[p].again = TRUE) => Get(proc[p].bundle)
    BY <1>0, <2>1, <2>b, CacheAssumption, Zenon DEF CacheKnows, Get, verify, checkVersion
  <2>5. (Bundles \subseteq Supported => Right) /\ (proc'[p].result = "ok" => proc[p].command # "start")
    BY <2>2, <2>4, Zenon DEF Right
  <2> QED BY <1>a, <2>1, <2>2, <2>3, <2>5, Zenon
<1>3. CASE Download(p)
  <2>1. proc[p].pc = "download" /\ UNCHANGED <<archive, tmp, cached, bin, torn, smooth, faults>>
    BY <1>3, Zenon DEF Download, IsAt
  <2>2. /\ proc' \in [Procs -> CacheJobs]
        /\ proc'[p].pc \in {"clean", "pull", "request"}
        /\ proc'[p].command = proc[p].command /\ proc'[p].bundle = proc[p].bundle /\ proc'[p].result = "none"
        /\ proc'[p].pc = "clean" <=> Source[proc[p].bundle] = "local"
    BY <1>0, <1>3, <2>1, CacheGoes, Zenon DEF Download, B, CacheKnows, CachePlaces
  <2>3. CacheKnows(proc[p])' /\ LinkKnows(proc[p])'
    BY <1>0, <2>1, <2>2, Zenon, ZenonT(60) DEF CacheKnows, LinkKnows, CacheSound
  <2>4. Right /\ proc'[p].result # "ok"
    BY <2>2 DEF Right
  <2> QED BY <1>a, <2>1, <2>2, <2>3, <2>4, Zenon
<1>4. CASE Chmod(p)
  <2>1. proc[p].pc = "chmod" /\ UNCHANGED <<archive, tmp, cached, bin, torn, smooth, faults>>
    BY <1>4, Zenon DEF Chmod, IsAt
  <2>2. cached[proc[p].bundle] # {}
    BY <1>0, <2>1, EntriesUnpacked, Zenon DEF CacheKnows
  <2>3. /\ proc' \in [Procs -> CacheJobs] /\ proc'[p].pc = "succeed"
        /\ proc'[p].command = proc[p].command /\ proc'[p].bundle = proc[p].bundle /\ proc'[p].result = "none"
    BY <1>0, <1>4, <2>1, <2>2, CacheGoes, Zenon, ZenonT(60) DEF Chmod, B, CacheKnows, CachePlaces
  <2>4. CacheKnows(proc[p])' /\ LinkKnows(proc[p])'
    BY <1>0, <2>1, <2>3 DEF CacheKnows, LinkKnows
  <2>5. Right /\ proc'[p].result # "ok"
    BY <2>3 DEF Right
  <2> QED BY <1>a, <2>1, <2>3, <2>4, <2>5, Zenon
<1>5. CASE GetAgain(p)
  <2>1. proc[p].pc = "getAgain" /\ UNCHANGED <<archive, tmp, cached, bin, torn, smooth, faults>>
    BY <1>5, Zenon DEF GetAgain, IsAt
  <2>2. Bundles \subseteq Supported => Get(proc[p].bundle)
    BY <1>0, <2>1, CacheAssumption, Zenon DEF CacheKnows, Get, verify, checkVersion
  <2>3. /\ proc' \in [Procs -> CacheJobs]
        /\ proc'[p].pc \in {"get", "idle"}
        /\ proc'[p].pc # "idle" =>
             proc'[p].command = proc[p].command /\ proc'[p].bundle = proc[p].bundle /\ proc'[p].result = "none"
        /\ proc'[p].pc = "idle" =>
             (proc'[p].result = "ok" /\ proc[p].command # "start") \/ (proc'[p].result = "error" /\ ~Get(proc[p].bundle))
    <3>1. CASE ~Get(proc[p].bundle)
      BY <1>0, <1>5, <2>1, <3>1, CacheGoes, CacheReturns, Zenon DEF GetAgain, B, CacheKnows, CachePlaces, Results
    <3>2. CASE Get(proc[p].bundle) /\ proc[p].command = "start"
      BY <1>0, <1>5, <2>1, <3>2, CacheGoes, Zenon DEF GetAgain, B, CacheKnows, CachePlaces
    <3>3. CASE Get(proc[p].bundle) /\ proc[p].command # "start"
      BY <1>0, <1>5, <2>1, <3>3, CacheReturns, Zenon DEF GetAgain, B, Results
    <3> QED BY <3>1, <3>2, <3>3, Zenon
  <2>4. CacheKnows(proc[p])' /\ LinkKnows(proc[p])'
    BY <1>0, <2>1, <2>3, Zenon DEF CacheKnows, LinkKnows
  <2>5. (Bundles \subseteq Supported => Right) /\ (proc'[p].result = "ok" => proc[p].command # "start")
    BY <2>2, <2>3, Zenon DEF Right
  <2> QED BY <1>a, <2>1, <2>3, <2>4, <2>5, Zenon
<1> QED BY <1>1, <1>2, <1>3, <1>4, <1>5


\* With one process, what is to be shown is about its command.
LEMMA CacheEnds ==
  ASSUME OneProcess, NEW p \in Procs, CacheTypes', CacheSound', CacheKnows(proc[p])', LinkKnows(proc[p])',
         Bundles \subseteq Supported => (proc'[p].pc = "idle" /\ smooth'[p] => proc'[p].result # "error")
  PROVE  CacheInv'
<1>1. \A q \in Procs : q = p
  BY DEF OneProcess
<1>2. \A q \in Procs : CacheKnows(proc[q])' /\ LinkKnows(proc[q])'
  BY <1>1
<1>3. Bundles \subseteq Supported => SmoothSucceeds'
  BY <1>1 DEF SmoothSucceeds, IsAt
<1> QED BY <1>2, <1>3, Zenon DEF CacheInv

\* Failures are counted.
LEMMA CacheFaults ==
  ASSUME CacheTypes, NEW p \in Procs, Fault(p)
  PROVE  smooth' \in [Procs -> BOOLEAN] /\ faults' \in 0..MaxFaults /\ ~smooth'[p]
<1>1. faults' \in 0..MaxFaults
  BY CacheAssumption DEF CacheTypes, Fault
<1>2. smooth' \in [Procs -> BOOLEAN] /\ smooth'[p] = FALSE
  BY DEF CacheTypes, Fault
<1> QED BY <1>1, <1>2

\* The archive is downloaded, or the download fails.
LEMMA CacheDownloads ==
  ASSUME OneProcess, CacheInv, NEW p \in Procs,
         \/ doRequest(p) \/ copyImage(p) \/ Transfer(p)
         \/ DownloadFails(p) \/ PullFails(p)
  PROVE  CacheInv' /\ Links(p)
<1> DEFINE b == proc[p].bundle
<1>0. /\ CacheTypes /\ CacheSound /\ CacheKnows(proc[p]) /\ UNCHANGED <<tmp, cached, bin, torn>>
      /\ proc[p].pc \in {"request", "pull", "transfer", "layer"}
  BY DEF CacheInv, doRequest, copyImage, Transfer, DownloadFails, PullFails, IsAt
<1>1. b \in Bundles /\ Source[b] # "local" /\ proc[p].result = "none"
      /\ proc[p].command \in {"setup", "start"}
  BY <1>0, Zenon, ZenonT(60) DEF CacheKnows
<1>2. /\ proc' \in [Procs -> CacheJobs]
      /\ \/ /\ proc'[p].pc \in {"transfer", "layer", "clean"} /\ proc'[p].command = proc[p].command
            /\ proc'[p].bundle = b /\ proc'[p].result = "none"
         \/ proc'[p].pc = "idle" /\ proc'[p].result = "error"
  <2>1. CASE doRequest(p)
    BY <1>0, <1>1, <2>1, CacheGoes, Zenon DEF doRequest, CachePlaces
  <2>2. CASE copyImage(p)
    BY <1>0, <1>1, <2>2, CacheGoes, Zenon DEF copyImage, CachePlaces
  <2>3. CASE Transfer(p)
    BY <1>0, <1>1, <2>3, CacheGoes, Zenon DEF Transfer, CachePlaces
  <2>4. CASE DownloadFails(p)
    BY <1>0, <1>1, <2>4, CacheReturns, Zenon DEF DownloadFails, Results
  <2>5. CASE PullFails(p)
    BY <1>0, <1>1, <2>5, CacheReturns DEF PullFails, Results
  <2> QED BY <2>1, <2>2, <2>3, <2>4, <2>5
<1>3. \E a \in {"missing", "partial", "wrong", "complete"} :
        /\ archive' = [archive EXCEPT ![b] = a]
        /\ proc'[p].pc = "clean" => a = "complete"
  <2>0. archive[b] \in {"missing", "partial", "wrong", "complete"} /\ archive = [archive EXCEPT ![b] = archive[b]]
    BY <1>0, <1>1 DEF CacheTypes
  <2>1. CASE doRequest(p) /\ archive[b] = "complete"
    BY <1>0, <2>0, <2>1 DEF doRequest, B
  <2>2. CASE doRequest(p) /\ archive[b] # "complete"
    <3>1. GoOn(p, "transfer") /\ archive' = [archive EXCEPT ![b] = "partial"]
      BY <2>2 DEF doRequest, B
    <3>2. proc'[p].pc = "transfer"
      BY <1>0, <3>1, CacheGoes DEF CachePlaces
    <3> QED BY <3>1, <3>2
  <2>3. CASE copyImage(p)
    <3>1. GoOn(p, "layer") /\ archive' = [archive EXCEPT ![b] = "partial"]
      BY <2>3, Zenon DEF copyImage, B
    <3>2. proc'[p].pc = "layer"
      BY <1>0, <3>1, CacheGoes, Zenon DEF CachePlaces
    <3> QED BY <3>1, <3>2
  <2>4. CASE Transfer(p)
    BY <2>4 DEF Transfer, B
  <2>5. CASE DownloadFails(p)
    <3>1. proc'[p].pc = "idle"
      BY <1>0, <2>5, CacheReturns DEF DownloadFails, Results
    <3> QED BY <2>5, <3>1, Zenon DEF DownloadFails, B
  <2>6. CASE PullFails(p)
    <3>1. proc'[p].pc = "idle"
      BY <1>0, <2>6, CacheReturns DEF PullFails, Results
    <3>2. \E a \in {archive[b], "partial", "wrong"} : archive' = [archive EXCEPT ![b] = a]
      BY <2>6, Zenon DEF PullFails, B
    <3> QED BY <2>0, <3>1, <3>2, Zenon
  <2> QED BY <2>1, <2>2, <2>3, <2>4, <2>5, <2>6, Zenon
<1>4. smooth' \in [Procs -> BOOLEAN] /\ faults' \in 0..MaxFaults /\ (proc'[p].pc = "idle" => ~smooth'[p])
  <2>1. CASE DownloadFails(p) \/ PullFails(p)
    <3>1. Fault(p)
      BY <2>1 DEF DownloadFails, PullFails
    <3> QED BY <1>0, <3>1, CacheFaults
  <2>2. CASE doRequest(p) \/ copyImage(p) \/ Transfer(p)
    <3>1. proc'[p].pc \in {"clean", "transfer", "layer"}
      BY <1>0, <2>2, CacheGoes, Zenon DEF doRequest, copyImage, Transfer, CachePlaces
    <3>2. UNCHANGED <<smooth, faults>>
      BY <2>2, Zenon DEF doRequest, copyImage, Transfer
    <3> QED BY <1>0, <3>1, <3>2 DEF CacheTypes
  <2> QED BY <2>1, <2>2
<1> HIDE DEF b
<1>5. CacheTypes'
  BY <1>0, <1>1, <1>2, <1>3, <1>4 DEF CacheTypes, CacheJobs
<1>a. \A c \in Bundles : ~Removing(c)
  BY <1>0 DEF OneProcess, Removing
<1>6. CacheSound'
  BY <1>0, <1>1, <1>3, <1>a, Zenon, ZenonT(60) DEF CacheTypes, CacheSound, Get, verify
<1>7. CacheKnows(proc[p])' /\ LinkKnows(proc[p])'
  BY <1>0, <1>1, <1>2, <1>3 DEF CacheTypes, CacheKnows, LinkKnows
<1>8. Links(p)
  BY <1>0, <1>2 DEF Links
<1> QED BY <1>2, <1>4, <1>5, <1>6, <1>7, <1>8, CacheEnds

\* Extract returns an error.
LEMMA CacheGivesUp ==
  ASSUME OneProcess, CacheInv, NEW p \in Procs, Extract(p), proc[p].pc = "fail"
  PROVE  CacheInv' /\ Links(p)
<1>1. /\ CacheTypes /\ CacheSound /\ UNCHANGED <<archive, cached, bin, torn, smooth, faults>>
      /\ Finish(p, "error") /\ tmp' = [c \in Bundles |-> {}] /\ ~smooth[p]
  BY DEF CacheInv, CacheKnows, Extract, IsAt, Troubled
<1>2. proc' \in [Procs -> CacheJobs] /\ proc'[p].pc = "idle" /\ proc'[p].result = "error"
  BY <1>1, CacheReturns, Zenon DEF Results
<1>3. \A c \in Bundles : ~Removing(c)
  BY DEF OneProcess, Removing
<1>4. CacheTypes' /\ CacheSound'
  BY <1>1, <1>2, <1>3 DEF CacheTypes, CacheJobs, CacheSound, Get, verify
<1>5. CacheKnows(proc[p])' /\ LinkKnows(proc[p])'
  BY <1>2, Zenon DEF CacheKnows, LinkKnows
<1>6. Links(p)
  BY <1>1, <1>2 DEF Links
<1> QED BY <1>1, <1>2, <1>4, <1>5, <1>6, CacheEnds

\* The archive is unpacked in a directory that is removed before and after.
LEMMA CacheUnpacks ==
  ASSUME OneProcess, CacheInv, NEW p \in Procs, Clean(p) \/ untar(p) \/ Extract(p), proc[p].pc # "fail"
  PROVE  CacheInv' /\ Links(p)
<1> DEFINE b == proc[p].bundle
<1>0. /\ CacheTypes /\ CacheSound /\ CacheKnows(proc[p]) /\ UNCHANGED <<archive, cached, bin, torn, smooth, faults>>
      /\ proc[p].pc \in {"clean", "uncompress", "succeed"}
  BY DEF CacheInv, CacheKnows, Clean, untar, Extract, IsAt
<1>1. b \in Bundles /\ proc[p].result = "none" /\ proc[p].command \in {"setup", "start"}
  BY <1>0, Zenon DEF CacheKnows
<1>a. \A c \in Bundles : ~Removing(c)
  BY <1>0 DEF OneProcess, Removing
<1>2. /\ proc' \in [Procs -> CacheJobs] /\ tmp' \in [Bundles -> SUBSET All]
      /\ proc'[p].command = proc[p].command /\ proc'[p].bundle = b /\ proc'[p].result = "none"
      /\ \/ /\ proc[p].pc \in {"clean", "uncompress"} /\ proc'[p].pc = "uncompress"
            /\ tmp'[b] = Unpacked(proc'[p].done)
         \/ proc[p].pc = "uncompress" /\ proc'[p].pc = "remove" /\ tmp'[b] = All
         \/ proc[p].pc = "succeed" /\ proc'[p].pc = "getAgain"
  <2>1. CASE Clean(p)
    <3>1. proc[p].pc = "clean" /\ GoOn(p, "uncompress") /\ tmp' = [c \in Bundles |-> {}]
      BY <2>1, Zenon DEF Clean, IsAt
    <3>2. /\ proc' \in [Procs -> CacheJobs] /\ proc'[p].pc = "uncompress" /\ proc'[p].command = proc[p].command
          /\ proc'[p].bundle = b /\ proc'[p].done = 0 /\ proc'[p].result = proc[p].result
      BY <1>0, <3>1, CacheGoes, Zenon DEF CachePlaces
    <3>3. tmp' \in [Bundles -> SUBSET All] /\ tmp'[b] = Unpacked(0)
      BY <1>1, <3>1, EntriesUnpacked, Zenon, ZenonT(60)
    <3> QED BY <1>1, <3>1, <3>2, <3>3, Zenon
  <2>2. CASE Extract(p)
    <3>1. proc[p].pc = "succeed" /\ GoOn(p, "getAgain") /\ tmp' = [c \in Bundles |-> {}]
      BY <1>0, <2>2, Zenon DEF Extract, IsAt
    <3>2. /\ proc' \in [Procs -> CacheJobs] /\ proc'[p].pc = "getAgain" /\ proc'[p].command = proc[p].command
          /\ proc'[p].bundle = b /\ proc'[p].result = proc[p].result
      BY <1>0, <3>1, CacheGoes, Zenon DEF CachePlaces
    <3> QED BY <1>1, <3>1, <3>2
  <2>3. CASE untar(p)
    <3> DEFINE n == proc[p].done + 1
    <3>1. proc[p].pc = "uncompress" /\ tmp[b] = Unpacked(proc[p].done) /\ archive[b] = "complete"
      BY <1>0, <2>3 DEF untar, IsAt, CacheKnows
    <3>2. proc[p] \in CacheJobs /\ proc[p].done \in 0..Len(Entries)
      BY <1>0 DEF CacheTypes, CacheJobs
    <3>0. proc[p].done \in 0..Len(Entries) /\ Len(Entries) \in Nat
      BY <3>2, EntriesUnpacked, Zenon
    <3>3. CASE n > Len(Entries)
      <4>1. GoOn(p, "remove") /\ UNCHANGED tmp
        BY <2>3, <3>1, <3>3 DEF untar, uncompress, B
      <4>2. /\ proc' \in [Procs -> CacheJobs] /\ proc'[p].pc = "remove" /\ proc'[p].command = proc[p].command
            /\ proc'[p].bundle = b /\ proc'[p].result = proc[p].result
        BY <1>0, <4>1, CacheGoes, Zenon DEF CachePlaces
      <4>3. proc[p].done = Len(Entries)
        BY <3>0, <3>3
      <4> QED BY <1>0, <1>1, <3>1, <4>1, <4>2, <4>3, EntriesUnpacked, Zenon DEF CacheTypes
    <3>4. CASE ~(n > Len(Entries))
      <4>1. /\ proc' = [proc EXCEPT ![p].done = n]
            /\ tmp' = [tmp EXCEPT ![b] = uncompressFile(@, n)]
        BY <2>3, <3>1, <3>4 DEF untar, uncompress, B
      <4>2. n \in 0..Len(Entries) /\ n <= Len(Entries)
        BY <3>0, <3>4
      <4>3. /\ proc' \in [Procs -> CacheJobs] /\ proc'[p].pc = "uncompress" /\ proc'[p].command = proc[p].command
            /\ proc'[p].bundle = b /\ proc'[p].result = proc[p].result /\ proc'[p].done = n
        <5> HIDE DEF n
        <5> QED BY <1>0, <3>1, <3>2, <4>1, <4>2, Zenon DEF CacheTypes, CacheJobs
      <4>4. uncompressFile(tmp[b], n) = Unpacked(n)
        BY <3>1, <3>2, <4>2, EntriesUnpacked, Zenon DEF uncompressFile
      <4>5. Unpacked(n) \subseteq All
        BY <4>2, EntriesUnpacked, Zenon
      <4> HIDE DEF n
      <4>6. tmp' \in [Bundles -> SUBSET All] /\ tmp'[b] = Unpacked(n)
        BY <1>0, <1>1, <4>1, <4>4, <4>5 DEF CacheTypes
      <4> QED BY <1>1, <3>1, <4>3, <4>6, Zenon
    <3> QED BY <3>3, <3>4, Zenon
  <2> QED BY <2>1, <2>2, <2>3, Zenon
<1> HIDE DEF b
<1>3. CacheTypes' /\ CacheSound'
  BY <1>0, <1>2, <1>a DEF CacheTypes, CacheJobs, CacheSound, Get, verify
<1>4. CacheKnows(proc[p])' /\ LinkKnows(proc[p])'
  <2>1. b = proc[p].bundle
    BY DEF b
  <2> QED BY <1>0, <1>1, <1>2, <2>1, Zenon DEF CacheKnows, LinkKnows
<1>5. Links(p)
  BY <1>0, <1>2 DEF Links
<1> QED BY <1>2, <1>3, <1>4, <1>5, CacheEnds, Zenon

\* What was there under the name of the bundle makes room for it, if it can be removed.
LEMMA CacheReplaces ==
  ASSUME OneProcess, CacheInv, NEW p \in Procs, Remove(p) \/ RemoveFails(p) \/ Rename(p)
  PROVE  CacheInv' /\ Links(p)
<1>0. /\ CacheTypes /\ CacheSound /\ CacheKnows(proc[p]) /\ UNCHANGED <<archive, bin>>
      /\ proc[p].pc \in {"remove", "rename"}
  BY Zenon DEF CacheInv, Remove, RemoveFails, Rename, IsAt
<1>a. PICK b \in Bundles : b = proc[p].bundle
  BY <1>0 DEF CacheKnows
<1>1. /\ proc[p].result = "none" /\ proc[p].command \in {"setup", "start"}
      /\ tmp[b] = All /\ proc[p] \in CacheJobs /\ proc \in [Procs -> CacheJobs]
  BY <1>0, <1>a, Zenon DEF CacheKnows, CacheTypes, CacheJobs
<1>b. /\ \A c \in Bundles : Removing(c) <=> (proc[p].pc = "remove" /\ c = b)
      /\ \A c \in Bundles : Removing(c)' <=> (proc'[p].pc = "remove" /\ c = proc'[p].bundle)
  BY <1>a DEF OneProcess, Removing
<1>c. \A c \in Bundles : cached[c] = {} => ~Get(c)
  BY CacheAssumption DEF Get, verify, All
<1>d. ASSUME proc'[p].result = "none"
      PROVE  Links(p)
  BY <1>0, <1>d DEF Links
<1>2. CASE Remove(p) /\ cached[b] = {}
  <2>1. GoOn(p, "rename") /\ UNCHANGED <<cached, tmp, torn, smooth, faults>> /\ proc[p].pc = "remove"
    BY <1>a, <1>2, Zenon, ZenonT(60) DEF Remove, B, IsAt
  <2>2. /\ proc' \in [Procs -> CacheJobs] /\ proc'[p].pc = "rename" /\ proc'[p].command = proc[p].command
        /\ proc'[p].bundle = b /\ proc'[p].result = "none"
    BY <1>0, <1>a, <1>1, <2>1, CacheGoes DEF CachePlaces
  <2>3. CacheTypes' /\ CacheSound'
    BY <1>0, <1>2, <1>b, <1>c, <2>1, <2>2 DEF CacheTypes, CacheJobs, CacheSound, Get, verify
  <2>4. CacheKnows(proc[p])' /\ LinkKnows(proc[p])'
    BY <1>1, <1>2, <2>1, <2>2, Zenon DEF CacheKnows, LinkKnows
  <2> QED BY <1>d, <2>2, <2>3, <2>4, CacheEnds, Zenon
<1>3. CASE Remove(p) /\ cached[b] # {}
  <2>1. PICK e \in cached[b] : /\ e = Entries[1] => cached[b] = {e}
                               /\ cached' = [cached EXCEPT ![b] = @ \ {e}]
    BY <1>a, <1>3, Zenon DEF Remove, B
  <2>2. UNCHANGED <<proc, tmp, torn, smooth, faults>> /\ proc[p].pc = "remove"
    BY <1>a, <1>3, Zenon DEF Remove, B, IsAt
  <2>3. cached'[b] \subseteq cached[b] /\ \A c \in Bundles : c # b => cached'[c] = cached[c]
    BY <1>0, <2>1, Zenon DEF CacheTypes
  <2>4. \A c \in Bundles : c # b => (Get(c)' <=> Get(c))
    BY <2>3 DEF Get, verify
  <2>5. CacheTypes'
    BY <1>0, <2>1, <2>2 DEF CacheTypes
  <2>6. \A c \in Bundles : cached'[c] # {} => Entries[1] \in cached'[c]
    BY <1>0, <2>1, <2>3 DEF CacheSound, CacheTypes
  <2>7. Removing(b)' /\ \A c \in Bundles : c # b => ~Removing(c)
    BY <1>a, <1>b, <2>2
  <2>8. CacheSound'
    BY <1>0, <2>2, <2>3, <2>4, <2>6, <2>7, Zenon DEF CacheSound
  <2>9. CacheKnows(proc[p])' /\ LinkKnows(proc[p])'
    BY <1>0, <1>a, <1>1, <2>2, Zenon DEF CacheKnows, LinkKnows
  <2> QED BY <1>1, <1>d, <2>2, <2>5, <2>8, <2>9, CacheEnds, Zenon
<1>4. CASE RemoveFails(p)
  <2>1. /\ GoOn(p, "rename") /\ UNCHANGED <<cached, tmp>> /\ torn' = torn \cup {b} /\ Fault(p)
        /\ proc[p].pc = "remove"
    BY <1>a, <1>4, Zenon DEF RemoveFails, B, IsAt
  <2>2. /\ proc' \in [Procs -> CacheJobs] /\ proc'[p].pc = "rename" /\ proc'[p].command = proc[p].command
        /\ proc'[p].bundle = b /\ proc'[p].result = "none"
    BY <1>0, <1>a, <1>1, <2>1, CacheGoes DEF CachePlaces
  <2>3. smooth' \in [Procs -> BOOLEAN] /\ faults' \in 0..MaxFaults /\ ~smooth'[p]
    BY <1>0, <2>1, CacheFaults
  <2>4. CacheTypes' /\ CacheSound'
    BY <1>0, <1>b, <2>1, <2>2, <2>3 DEF CacheTypes, CacheJobs, CacheSound, Get, verify
  <2>5. Troubled'
    BY <2>3 DEF OneProcess, Troubled
  <2>6. CacheKnows(proc[p])' /\ LinkKnows(proc[p])'
    BY <1>1, <2>1, <2>2, <2>5, Zenon DEF CacheKnows, LinkKnows
  <2> QED BY <1>d, <2>2, <2>4, <2>6, CacheEnds, Zenon
<1>5. CASE Rename(p) /\ cached[b] = {}
  <2>1. /\ GoOn(p, "chmod") /\ cached' = [cached EXCEPT ![b] = tmp[b]]
        /\ tmp' = [tmp EXCEPT ![b] = {}] /\ torn' = torn \ {b} /\ UNCHANGED <<smooth, faults>>
    BY <1>a, <1>1, <1>5, EntriesUnpacked, Zenon DEF Rename, B
  <2>2. proc[p].pc = "rename"
    BY <1>5 DEF Rename, IsAt
  <2>3. /\ proc' \in [Procs -> CacheJobs] /\ proc'[p].pc = "chmod" /\ proc'[p].command = proc[p].command
        /\ proc'[p].bundle = b /\ proc'[p].result = "none"
    BY <1>0, <1>a, <1>1, <2>1, CacheGoes DEF CachePlaces
  <2>4. /\ cached' \in [Bundles -> SUBSET All] /\ tmp' \in [Bundles -> SUBSET All]
        /\ cached'[b] = All /\ \A c \in Bundles : c # b => cached'[c] = cached[c]
    BY <1>0, <1>1, <2>1 DEF CacheTypes
  <2>5. CacheTypes'
    BY <1>0, <2>1, <2>3, <2>4, Zenon DEF CacheTypes, CacheJobs
  <2>6. CacheSound'
    BY <1>0, <1>b, <2>1, <2>2, <2>4, EntriesUnpacked DEF CacheSound, Get, verify
  <2>7. CacheKnows(proc[p])' /\ LinkKnows(proc[p])'
    BY <1>1, <2>3, <2>4, Zenon DEF CacheKnows, LinkKnows
  <2> QED BY <1>d, <2>3, <2>5, <2>6, <2>7, CacheEnds, Zenon
<1>6. CASE Rename(p) /\ cached[b] # {}
  <2>1. /\ GoOn(p, "fail") /\ UNCHANGED <<cached, tmp, torn, smooth, faults>> /\ proc[p].pc = "rename"
    BY <1>a, <1>6, Zenon DEF Rename, B, IsAt
  <2>2. /\ proc' \in [Procs -> CacheJobs] /\ proc'[p].pc = "fail" /\ proc'[p].command = proc[p].command
        /\ proc'[p].bundle = b /\ proc'[p].result = "none"
    BY <1>0, <1>a, <1>1, <2>1, CacheGoes DEF CachePlaces
  <2>3. CacheTypes' /\ CacheSound'
    BY <1>0, <1>b, <2>1, <2>2 DEF CacheTypes, CacheJobs, CacheSound, Get, verify
  <2>4. Troubled'
    BY <1>0, <1>a, <1>6, <2>1 DEF CacheKnows, Troubled
  <2>5. CacheKnows(proc[p])' /\ LinkKnows(proc[p])'
    BY <1>1, <2>2, <2>4, Zenon DEF CacheKnows, LinkKnows
  <2> QED BY <1>d, <2>2, <2>3, <2>5, CacheEnds, Zenon
<1> QED BY <1>2, <1>3, <1>4, <1>5, <1>6

\* A link is removed, or left alone if the bundle has none.
LEMMA CacheUnlinks ==
  ASSUME OneProcess, CacheInv, NEW p \in Procs, Unlink(p)
  PROVE  CacheInv' /\ Links(p)
<1>0. /\ CacheTypes /\ CacheKnows(proc[p]) /\ LinkKnows(proc[p])
      /\ UNCHANGED <<archive, tmp, cached, torn, smooth, faults>>
      /\ smooth' \in [Procs -> BOOLEAN] /\ faults' \in 0..MaxFaults
      /\ bin \in [Executables -> Bundles \cup {"none"}] /\ Executables = {"oc", "podman"}
  BY DEF CacheInv, CacheTypes, Unlink, Executables
<1>1. PICK e \in Executables :
        /\ proc[p].pc = e
        /\ IF Linked(proc[p].bundle, e) THEN GoOn(p, Made[e]) /\ bin' = [bin EXCEPT ![e] = "none"]
           ELSE Linking(p, e) /\ UNCHANGED bin
  BY DEF Unlink, IsAt, B
<1>a. PICK b \in Bundles : b = proc[p].bundle
  BY <1>0, <1>1 DEF CacheKnows
<1>b. proc[p].command = "start" /\ proc[p].result = "none"
  BY <1>0, <1>1 DEF CacheKnows, LinkKnows
<1>2. CASE Linked(b, e)
  <2>1. /\ GoOn(p, Made[e]) /\ bin' \in [Executables -> Bundles \cup {"none"}] /\ bin'[e] = "none"
        /\ \A f \in Executables : f # e => bin'[f] = bin[f]
    BY <1>0, <1>1, <1>2, <1>a
  <2>2. /\ e = "oc" => Made[e] = "linkOc"
        /\ e = "podman" => Made[e] = "linkPodman"
    BY DEF Made
  <2>3. Made[e] \in CachePlaces
    BY <1>0, <2>2 DEF CachePlaces
  <2>4. /\ proc' \in [Procs -> CacheJobs] /\ proc'[p].pc = Made[e] /\ proc'[p].command = "start"
        /\ proc'[p].bundle = b /\ proc'[p].result = "none"
    BY <1>0, <1>a, <1>b, <2>1, <2>3, CacheGoes
  <2>5. CacheKnows(proc[p])'
    BY <1>0, <1>a, <2>2, <2>4, Zenon DEF CacheKnows
  <2>6. LinkKnows(proc[p])'
    BY <1>0, <1>1, <1>2, <1>a, <2>1, <2>2, <2>4 DEF LinkKnows, Linked
  <2>7. Links(p)
    BY <1>0, <1>1, <1>2, <1>a, <2>1, <2>4 DEF Links
  <2> QED BY <1>0, <1>1, <2>1, <2>2, <2>4, <2>5, <2>6, <2>7, CacheMoves
<1>3. CASE ~Linked(b, e) /\ e = "oc"
  <2>1. GoOn(p, "podman") /\ bin' = bin
    BY <1>1, <1>3, <1>a DEF Linking
  <2>2. /\ proc' \in [Procs -> CacheJobs] /\ proc'[p].pc = "podman" /\ proc'[p].command = "start"
        /\ proc'[p].bundle = b /\ proc'[p].result = "none"
    BY <1>0, <1>a, <1>b, <2>1, CacheGoes DEF CachePlaces
  <2>3. CacheKnows(proc[p])' /\ LinkKnows(proc[p])'
    BY <1>3, <2>2, Zenon DEF CacheKnows, LinkKnows, Linked
  <2>4. Links(p)
    BY <2>1, <2>2 DEF Links
  <2> QED BY <1>0, <1>1, <1>3, <2>1, <2>2, <2>3, <2>4, CacheMoves
<1>4. CASE ~Linked(b, e) /\ e = "podman"
  <2>1. Finish(p, "ok") /\ bin' = bin
    BY <1>1, <1>4, <1>a DEF Linking
  <2>2. proc' \in [Procs -> CacheJobs] /\ proc'[p].pc = "idle" /\ proc'[p].result = "ok"
    BY <1>0, <2>1, CacheReturns DEF Results
  <2>3. CacheKnows(proc[p])' /\ LinkKnows(proc[p])'
    BY <2>2, Zenon DEF CacheKnows, LinkKnows
  <2>4. Linked(b, "oc") => bin'["oc"] = b
    BY <1>0, <1>1, <1>4, <1>a, <2>1 DEF LinkKnows
  <2>5. Links(p)
    BY <1>0, <1>4, <1>a, <2>1, <2>4 DEF Links
  <2> QED BY <1>0, <1>1, <1>4, <2>1, <2>2, <2>3, <2>5, CacheMoves
<1> QED BY <1>0, <1>2, <1>3, <1>4

\* It is made again.
LEMMA CacheLinks ==
  ASSUME OneProcess, CacheInv, NEW p \in Procs, copyExecutableFromBundle(p)
  PROVE  CacheInv' /\ Links(p)
<1>0. /\ CacheTypes /\ CacheKnows(proc[p]) /\ LinkKnows(proc[p])
      /\ UNCHANGED <<archive, tmp, cached, torn, smooth, faults>>
      /\ smooth' \in [Procs -> BOOLEAN] /\ faults' \in 0..MaxFaults
      /\ bin \in [Executables -> Bundles \cup {"none"}] /\ Executables = {"oc", "podman"}
  BY DEF CacheInv, CacheTypes, copyExecutableFromBundle, Executables
<1>1. PICK e \in Executables :
        /\ proc[p].pc = Made[e]
        /\ IF bin[e] = "none" THEN Linking(p, e) /\ bin' = [bin EXCEPT ![e] = proc[p].bundle]
           ELSE UseFails(p) /\ UNCHANGED bin
  BY DEF copyExecutableFromBundle, IsAt, B
<1>2. /\ e = "oc" => proc[p].pc = "linkOc"
      /\ e = "podman" => proc[p].pc = "linkPodman"
  BY <1>1 DEF Made
<1>a. PICK b \in Bundles : b = proc[p].bundle
  BY <1>0, <1>2 DEF CacheKnows
<1>b. proc[p].command = "start" /\ proc[p].result = "none" /\ bin[e] = "none" /\ Linked(b, e)
  BY <1>0, <1>2, <1>a DEF CacheKnows, LinkKnows
<1>3. /\ Linking(p, e) /\ bin' \in [Executables -> Bundles \cup {"none"}] /\ bin'[e] = b
      /\ \A f \in Executables : f # e => bin'[f] = bin[f]
  BY <1>0, <1>1, <1>a, <1>b
<1>4. CASE e = "oc"
  <2>1. GoOn(p, "podman")
    BY <1>3, <1>4 DEF Linking
  <2>2. /\ proc' \in [Procs -> CacheJobs] /\ proc'[p].pc = "podman" /\ proc'[p].command = "start"
        /\ proc'[p].bundle = b /\ proc'[p].result = "none"
    BY <1>0, <1>a, <1>b, <2>1, CacheGoes DEF CachePlaces
  <2>3. CacheKnows(proc[p])' /\ LinkKnows(proc[p])'
    BY <1>3, <1>4, <2>2, Zenon DEF CacheKnows, LinkKnows
  <2>4. Links(p)
    BY <1>2, <1>3, <1>4, <1>a, <1>b, <2>2 DEF Links
  <2> QED BY <1>0, <1>2, <1>3, <1>4, <2>2, <2>3, <2>4, CacheMoves
<1>5. CASE e = "podman"
  <2>1. Finish(p, "ok")
    BY <1>3, <1>5 DEF Linking
  <2>2. proc' \in [Procs -> CacheJobs] /\ proc'[p].pc = "idle" /\ proc'[p].result = "ok"
    BY <1>0, <2>1, CacheReturns DEF Results
  <2>3. CacheKnows(proc[p])' /\ LinkKnows(proc[p])'
    BY <2>2, Zenon DEF CacheKnows, LinkKnows
  <2>4. Linked(b, "oc") => bin'["oc"] = b
    BY <1>0, <1>2, <1>3, <1>5, <1>a DEF LinkKnows
  <2>5. Links(p)
    BY <1>0, <1>2, <1>3, <1>5, <1>a, <1>b, <2>4 DEF Links
  <2> QED BY <1>0, <1>2, <1>3, <1>5, <2>2, <2>3, <2>5, CacheMoves
<1> QED BY <1>0, <1>4, <1>5

\* A link cannot be made, and a process that ends leaves what is there.
LEMMA CacheCut ==
  ASSUME OneProcess, CacheInv, NEW p \in Procs, LinkFails(p) \/ Crash(p)
  PROVE  CacheInv' /\ Links(p)
<1>0. /\ CacheTypes /\ CacheSound /\ CacheKnows(proc[p]) /\ UNCHANGED <<archive, tmp, cached, bin>>
      /\ bin \in [Executables -> Bundles \cup {"none"}] /\ Fault(p)
  BY DEF CacheInv, CacheTypes, LinkFails, Crash
<1>1. smooth' \in [Procs -> BOOLEAN] /\ faults' \in 0..MaxFaults /\ ~smooth'[p]
  BY <1>0, CacheFaults
<1>2. CASE LinkFails(p)
  <2>1. UseFails(p) /\ UNCHANGED torn /\ proc[p].pc \in {"oc", "linkOc", "podman", "linkPodman"}
    <3>1. PICK e \in Executables : proc[p].pc \in {e, Made[e]}
      BY <1>2, Zenon DEF LinkFails
    <3>2. e \in {"oc", "podman"} /\ Made["oc"] = "linkOc" /\ Made["podman"] = "linkPodman"
      BY DEF Made, Executables
    <3>3. UseFails(p) /\ UNCHANGED torn
      BY <1>2, Zenon DEF LinkFails
    <3> QED BY <3>1, <3>2, <3>3
  <2>2. /\ proc' \in [Procs -> CacheJobs]
        /\ \/ /\ proc'[p].pc = "download" /\ proc'[p].command = proc[p].command
              /\ proc'[p].bundle = proc[p].bundle /\ proc'[p].result = proc[p].result
           \/ proc'[p].pc = "idle" /\ proc'[p].result = "error"
    BY <1>0, <2>1, CacheRetries
  <2>3. proc[p].bundle \in Bundles /\ proc[p].command \in {"setup", "start"} /\ proc[p].result = "none"
    BY <1>0, <2>1 DEF CacheKnows
  <2>4. CacheKnows(proc[p])' /\ LinkKnows(proc[p])'
    BY <2>2, <2>3, Zenon DEF CacheKnows, LinkKnows
  <2>5. Links(p)
    BY <1>0, <2>2, <2>3 DEF Links
  <2> QED BY <1>0, <1>1, <2>1, <2>2, <2>4, <2>5, CacheMoves
<1>3. CASE Crash(p)
  <2>1. /\ Finish(p, "none") /\ proc[p].pc # "idle"
        /\ torn' = IF proc[p].pc = "remove" THEN torn \cup {proc[p].bundle} ELSE torn
    BY <1>3 DEF Crash, IsAt, B
  <2>2. proc' \in [Procs -> CacheJobs] /\ proc'[p].pc = "idle" /\ proc'[p].result = "none"
    BY <1>0, <2>1, CacheReturns, Zenon DEF Results
  <2>3. proc[p].bundle \in Bundles
    BY <1>0, <2>1 DEF CacheKnows
  <2>4. CacheTypes'
    BY <1>0, <1>1, <2>1, <2>2, <2>3 DEF CacheTypes, CacheJobs
  <2>5. \A c \in Bundles : Removing(c) => c \in torn'
    BY <2>1 DEF OneProcess, Removing
  <2>6. torn \subseteq torn'
    BY <2>1
  <2>7. CacheSound'
    BY <1>0, <2>5, <2>6 DEF CacheSound, Get, verify
  <2>8. CacheKnows(proc[p])' /\ LinkKnows(proc[p])'
    BY <2>2, Zenon DEF CacheKnows, LinkKnows
  <2>9. Links(p)
    BY <1>0, <2>2 DEF Links
  <2> QED BY <2>2, <2>4, <2>7, <2>8, <2>9, CacheEnds, Zenon
<1> QED BY <1>2, <1>3

\* A step of the command keeps what it relies on.
LEMMA CacheStep == OneProcess /\ CacheInv /\ [CacheNext]_(cacheVars) => CacheInv' /\ \A p \in Procs : Links(p)
<1> SUFFICES ASSUME OneProcess, CacheInv, [CacheNext]_(cacheVars)
             PROVE  CacheInv' /\ \A p \in Procs : Links(p)
  OBVIOUS
<1>1. CASE UNCHANGED cacheVars
  <2> UNCHANGED <<archive, tmp, cached, bin, torn, proc, smooth, faults>>
    BY <1>1 DEF cacheVars
  <2>1. /\ CacheTypes' /\ CacheSound' /\ (Bundles \subseteq Supported => SmoothSucceeds')
        /\ \A p \in Procs : CacheKnows(proc[p])' /\ LinkKnows(proc[p])'
    <3>1. CacheTypes'
      BY Zenon DEF CacheInv, CacheTypes
    <3>2. CacheSound'
      BY Zenon DEF CacheInv, CacheSound, Removing, Get, verify
    <3>3. Bundles \subseteq Supported => SmoothSucceeds'
      BY Zenon DEF CacheInv, SmoothSucceeds, IsAt
    <3>4. ASSUME NEW p \in Procs PROVE CacheKnows(proc[p])' /\ LinkKnows(proc[p])'
      BY Zenon DEF CacheInv, CacheKnows, LinkKnows, Troubled
    <3> QED BY <3>1, <3>2, <3>3, <3>4
  <2>2. \A p \in Procs : Links(p)
    BY <1>1, Zenon DEF CacheInv, cacheVars, CacheKnows, Links
  <2> QED BY <2>1, <2>2, Zenon DEF CacheInv
<1>2. CASE CacheNext
  <2>1. PICK p \in Procs : Begin(p) \/ Step(p) \/ Crash(p)
    BY <1>2 DEF CacheNext
  <2>2. CacheInv' /\ Links(p)
    <3>1. CASE Begin(p) \/ Look(p) \/ Download(p) \/ Chmod(p) \/ GetAgain(p)
      BY <3>1, CacheLooks
    <3>2. CASE doRequest(p) \/ copyImage(p) \/ Transfer(p) \/ DownloadFails(p) \/ PullFails(p)
      BY <3>2, CacheDownloads
    <3>3. CASE Clean(p) \/ untar(p) \/ Extract(p)
      <4>1. CASE proc[p].pc = "fail" /\ Extract(p)
        BY <4>1, CacheGivesUp
      <4>2. CASE proc[p].pc # "fail"
        BY <3>3, <4>2, CacheUnpacks
      <4> QED BY <3>3, <4>1, <4>2 DEF Clean, untar, IsAt
    <3>4. CASE Remove(p) \/ RemoveFails(p) \/ Rename(p)
      BY <3>4, CacheReplaces
    <3>5. CASE Unlink(p)
      BY <3>5, CacheUnlinks
    <3>6. CASE copyExecutableFromBundle(p)
      BY <3>6, CacheLinks
    <3>7. CASE LinkFails(p) \/ Crash(p)
      BY <3>7, CacheCut
    <3> QED BY <2>1, <3>1, <3>2, <3>3, <3>4, <3>5, <3>6, <3>7, Zenon DEF Step
  <2> QED BY <2>2 DEF OneProcess
<1> QED BY <1>1, <1>2

(***************************************************************************)
(* What one process at a time relies on in the cache, whatever bundles     *)
(* there are, wherever they come from, and however often it is cut short.  *)
(***************************************************************************)
THEOREM CacheInvariant == OneProcess => (CacheSpec => []CacheInv)
<1> SUFFICES ASSUME OneProcess PROVE CacheSpec => []CacheInv
  OBVIOUS
<1>1. CacheInv /\ [CacheNext]_(cacheVars) => CacheInv'
  BY CacheStep
<1> QED BY <1>1, CacheBegins, PTL DEF CacheSpec

-----------------------------------------------------------------------------
CustomPlaces ==
  {"idle", "starting", "removeSecret", "wait", "list", "delete", "stop", "powerOff", "isRunning", "copy",
   "disk", "verify", "compress"}

ClusterTypes ==
  /\ openshift \in BOOLEAN /\ vm \in {"stopped", "running"} /\ api \in BOOLEAN
  /\ secret \in Secrets /\ disk \in Secrets /\ config \in [Pools -> Secrets]

RenderedTypes ==
  /\ rendered \in [Pools -> SUBSET (1..MaxRendered)] /\ old \in [Pools -> SUBSET (1..MaxRendered)]

CommandTypes ==
  /\ step \in CustomPlaces /\ force \in BOOLEAN
  /\ result \in Results /\ settled \in BOOLEAN /\ steady \in BOOLEAN /\ unflushed \in BOOLEAN
  /\ failures \in 0..MaxFailures

CopyTypes ==
  /\ copied \in SUBSET Files /\ image \in Secrets \cup {"none"}
  /\ bundle \in [files : SUBSET Files, image : Secrets \cup {"none"}]

CustomTypes == ClusterTypes /\ RenderedTypes /\ CommandTypes /\ CopyTypes

\* Every pool has a newest config, and those to be deleted are not the newest.
NewestThere ==
  /\ \A p \in Pools : \E n \in rendered[p] : \A m \in rendered[p] : m <= n
  /\ step = "delete" => \A p \in Pools : \A n \in old[p] : \E m \in rendered[p] : n < m

\* A cluster answers only while its instance runs, and only that of OpenShift.
Answers ==
  /\ api => openshift /\ vm = "running"
  /\ step = "removeSecret" /\ steady => api
  /\ step \in {"removeSecret", "wait", "list", "delete"} => openshift
  /\ step \in {"isRunning", "copy", "disk", "verify", "compress"} => vm = "stopped"
  /\ step \in {"powerOff", "isRunning", "copy", "disk", "verify", "compress"} => ~api

\* How far the secret has been taken out of a cluster to whose disk it had been brought: the
\* config is that of the secret, and the disk that of the config, or they are older.
SecretLeaves ==
  (settled /\ openshift /\ step \notin {"idle", "starting"}) =>
    /\ config["master"] = "empty" => secret = "empty"
    /\ disk = "empty" => config["master"] = "empty"
    /\ step # "removeSecret" => secret = "empty"
    /\ step \notin {"removeSecret", "wait"} => disk = "empty"
    /\ step \in {"removeSecret", "wait", "list"} /\ config["master"] = "empty" =>
         \E m, n \in rendered["master"] : m # n
    /\ step = "delete" => old["master"] # {}

\* What has been copied at a place, and what is on the disk of the copy.
CopiedSoFar ==
  /\ ~openshift => disk = "empty"
  /\ step = "disk" => Files \ {"disk", "info"} \subseteq copied
  /\ step = "verify" => Files \ {"info"} \subseteq copied
  /\ step = "compress" => copied = Files
  /\ step \in {"verify", "compress"} => image = disk
  /\ step # "idle" => result = "none"

CustomPromises == NoSecretInBundle /\ GeneratedMeansWhole /\ SmoothGenerates

CustomInv ==
  CustomTypes /\ NewestThere /\ Answers /\ SecretLeaves /\ CopiedSoFar /\ CustomPromises


\* A disk and its description are part of every bundle.
LEMMA FilesThere == "disk" \in Files /\ "info" \in Files
BY DEF Files

\* The files depend on the preset only.
LEMMA FilesStay == ASSUME openshift' = openshift PROVE Files' = Files
BY DEF Files

\* A set with a greatest number has a newest.
LEMMA NewestIs ==
  ASSUME NEW S, \E n \in S : \A m \in S : m <= n
  PROVE  Newest(S) \in S /\ \A m \in S : m <= Newest(S)
BY DEF Newest

\* An instance that has been created.
LEMMA CustomBegins == CustomInit => CustomInv
<1> SUFFICES ASSUME CustomInit PROVE CustomInv
  OBVIOUS
<1>1. CustomTypes
  <2>1. ClusterTypes
    BY Zenon DEF CustomInit, ClusterTypes, Secrets
  <2>2. RenderedTypes
    BY CustomAssumption DEF CustomInit, RenderedTypes
  <2>3. CommandTypes
    <3>1. failures \in 0..MaxFailures
      BY CustomAssumption DEF CustomInit
    <3> QED
      BY <3>1, Zenon DEF CustomInit, CommandTypes, CustomPlaces, Results
  <2>4. CopyTypes
    BY DEF CustomInit, NoArchive, CopyTypes
  <2> QED
    BY <2>1, <2>2, <2>3, <2>4 DEF CustomTypes
<1>2. NewestThere /\ Answers /\ SecretLeaves /\ CopiedSoFar
  BY DEF CustomInit, NewestThere, Answers, SecretLeaves, CopiedSoFar
<1>3. CustomPromises
  BY DEF CustomInit, CustomPromises, NoSecretInBundle, GeneratedMeansWhole, SmoothGenerates
<1> QED BY <1>1, <1>2, <1>3 DEF CustomInv

\* The types of what the cluster has stay.
LEMMA ClusterTyped ==
  ASSUME ClusterTypes, [CustomNext]_(customVars)
  PROVE  ClusterTypes'
<1>1. CASE \E p \in Pools : Render(p)
  <2>1. PICK p \in Pools : Render(p)
    BY <1>1
  <2>2. config' = [config EXCEPT ![p] = secret] /\ secret \in Secrets /\ config \in [Pools -> Secrets]
    BY <2>1 DEF Render, ClusterTypes
  <2>3. config' \in [Pools -> Secrets]
    BY <2>2
  <2> QED
    BY <2>1, <2>3 DEF Render, ClusterTypes
<1>2. CASE Apply
  <2>1. config["master"] \in Secrets
    BY DEF ClusterTypes, Pools
  <2> QED
    BY <1>2, <2>1 DEF Apply, ClusterTypes
<1>3. CASE StartInstance
  BY <1>3, Zenon DEF StartInstance, AtStep, hostVars, ClusterTypes, Secrets
<1>4. CASE Started
  BY <1>4 DEF Started, AtStep, clusterVars, hostVars, status, ClusterTypes, Secrets
<1>5. CASE loadVM
  BY <1>5 DEF loadVM, AtStep, clusterVars, NoArchive, ClusterTypes, Secrets
<1>6. CASE RemovePullSecretFromCluster
  BY <1>6 DEF RemovePullSecretFromCluster, AtStep, Proceed, End, hostVars, status, ClusterTypes, Secrets
<1>7. CASE waitForPullSecretRemovedFromInstanceDisk
  BY <1>7 DEF waitForPullSecretRemovedFromInstanceDisk, AtStep, Proceed, clusterVars, hostVars, status, ClusterTypes, Secrets
<1>8. CASE ListRendered
  BY <1>8 DEF ListRendered, AtStep, Proceed, clusterVars, hostVars, status, ClusterTypes, Secrets
<1>9. CASE RemoveOldRenderedMachineConfig
  BY <1>9 DEF RemoveOldRenderedMachineConfig, AtStep, Proceed, End, hostVars, status, ClusterTypes, Secrets
<1>10. CASE StopInstance
  BY <1>10, Zenon DEF StopInstance, AtStep, Proceed, hostVars, status, ClusterTypes, Secrets
<1>11. CASE StopFails
  BY <1>11, Zenon DEF StopFails, AtStep, CanFail, Fail, hostVars, ClusterTypes, Secrets
<1>12. CASE PowerOff
  BY <1>12 DEF PowerOff, AtStep, Proceed, clusterVars, hostVars, status, ClusterTypes, Secrets
<1>13. CASE IsRunning
  BY <1>13 DEF IsRunning, AtStep, Proceed, End, clusterVars, hostVars, status, ClusterTypes, Secrets
<1>14. CASE CopyFilesFromFileList
  BY <1>14 DEF CopyFilesFromFileList, AtStep, Proceed, clusterVars, status, ClusterTypes, Secrets
<1>15. CASE copyDiskImage
  BY <1>15 DEF copyDiskImage, AtStep, Proceed, clusterVars, status, ClusterTypes, Secrets
<1>16. CASE CopierGenerateBundle
  BY <1>16 DEF CopierGenerateBundle, AtStep, Proceed, End, clusterVars, status, ClusterTypes, Secrets
<1>17. CASE Compress
  BY <1>17 DEF Compress, AtStep, End, clusterVars, ClusterTypes, Secrets
<1>18. CASE CloseFails
  BY <1>18 DEF CloseFails, AtStep, CanFail, clusterVars, ClusterTypes, Secrets
<1>19. CASE CallFails
  BY <1>19 DEF CallFails, AtStep, Fail, CanFail, clusterVars, ClusterTypes, Secrets
<1>20. CASE Interrupt
  BY <1>20 DEF Interrupt, AtStep, Fail, CanFail, clusterVars, hostVars, ClusterTypes, Secrets
<1>21. CASE UNCHANGED customVars
  BY <1>21 DEF customVars, clusterVars, hostVars, status, ClusterTypes, Secrets
<1> QED
  BY <1>1, <1>2, <1>3, <1>4, <1>5, <1>6, <1>7, <1>8, <1>9, <1>10, <1>11, <1>12, <1>13, <1>14, <1>15, <1>16, <1>17, <1>18, <1>19, <1>20, <1>21 DEF CustomNext, GenerateBundle

\* The types of the command in progress, and of what it has come to, stay.
LEMMA CommandTyped ==
  ASSUME CommandTypes, openshift \in BOOLEAN, [CustomNext]_(customVars)
  PROVE  CommandTypes'
<1>1. CASE \E p \in Pools : Render(p)
  BY <1>1, CustomAssumption DEF Render, hostVars, status, CommandTypes, CustomPlaces, Results
<1>2. CASE Apply
  BY <1>2, CustomAssumption DEF Apply, status, hostVars, CommandTypes, CustomPlaces, Results
<1>3. CASE StartInstance
  BY <1>3, CustomAssumption, Zenon DEF StartInstance, AtStep, hostVars, CommandTypes, CustomPlaces, Results
<1>4. CASE Started
  BY <1>4, CustomAssumption DEF Started, AtStep, clusterVars, hostVars, status, CommandTypes, CustomPlaces, Results
<1>5. CASE loadVM
  <2>1. steady' \in BOOLEAN
    BY <1>5, Zenon DEF loadVM
  <2>2. settled' \in BOOLEAN
    BY <1>5, Zenon DEF loadVM
  <2> QED
    BY <1>5, <2>1, <2>2, Zenon DEF loadVM, CommandTypes, CustomPlaces, Results
<1>6. CASE RemovePullSecretFromCluster
  BY <1>6, CustomAssumption DEF RemovePullSecretFromCluster, AtStep, Proceed, End, hostVars, status, CommandTypes, CustomPlaces, Results
<1>7. CASE waitForPullSecretRemovedFromInstanceDisk
  BY <1>7, CustomAssumption DEF waitForPullSecretRemovedFromInstanceDisk, AtStep, Proceed, clusterVars, hostVars, status, CommandTypes, CustomPlaces, Results
<1>8. CASE ListRendered
  BY <1>8, CustomAssumption DEF ListRendered, AtStep, Proceed, clusterVars, hostVars, status, CommandTypes, CustomPlaces, Results
<1>9. CASE RemoveOldRenderedMachineConfig
  BY <1>9, CustomAssumption DEF RemoveOldRenderedMachineConfig, AtStep, Proceed, End, hostVars, status, CommandTypes, CustomPlaces, Results
<1>10. CASE StopInstance
  BY <1>10, CustomAssumption DEF StopInstance, AtStep, Proceed, hostVars, status, CommandTypes, CustomPlaces, Results
<1>11. CASE StopFails
  <2>1. failures' \in 0..MaxFailures
    BY <1>11, CustomAssumption DEF StopFails, Fail, CanFail, CommandTypes
  <2>2. step' \in {"idle", "powerOff"} /\ result' \in Results /\ steady' = FALSE /\ force' = force /\ settled' = settled /\ unflushed' \in {unflushed, TRUE}
    BY <1>11, Zenon DEF StopFails, Fail, CommandTypes, Results
  <2>3. steady' \in BOOLEAN /\ force' \in BOOLEAN /\ settled' \in BOOLEAN /\ unflushed' \in BOOLEAN
    BY <2>2, Zenon DEF CommandTypes
  <2> QED
    BY <2>1, <2>2, <2>3 DEF CommandTypes, CustomPlaces
<1>12. CASE PowerOff
  BY <1>12, CustomAssumption DEF PowerOff, AtStep, Proceed, clusterVars, hostVars, status, CommandTypes, CustomPlaces, Results
<1>13. CASE IsRunning
  BY <1>13, CustomAssumption DEF IsRunning, AtStep, Proceed, End, clusterVars, hostVars, status, CommandTypes, CustomPlaces, Results
<1>14. CASE CopyFilesFromFileList
  BY <1>14, CustomAssumption DEF CopyFilesFromFileList, AtStep, Proceed, clusterVars, status, CommandTypes, CustomPlaces, Results
<1>15. CASE copyDiskImage
  BY <1>15, CustomAssumption DEF copyDiskImage, AtStep, Proceed, clusterVars, status, CommandTypes, CustomPlaces, Results
<1>16. CASE CopierGenerateBundle
  BY <1>16, CustomAssumption DEF CopierGenerateBundle, AtStep, Proceed, End, clusterVars, status, CommandTypes, CustomPlaces, Results
<1>17. CASE Compress
  BY <1>17, CustomAssumption DEF Compress, AtStep, End, clusterVars, CommandTypes, CustomPlaces, Results
<1>18. CASE CloseFails
  <2>1. failures' \in 0..MaxFailures
    BY <1>18, CustomAssumption DEF CloseFails, Fail, CanFail, CommandTypes
  <2>2. step' \in {"idle", "powerOff"} /\ result' \in Results /\ steady' = FALSE /\ force' = force /\ settled' = settled /\ unflushed' \in {unflushed, TRUE}
    BY <1>18 DEF CloseFails, Fail, CommandTypes, Results
  <2>3. steady' \in BOOLEAN /\ force' \in BOOLEAN /\ settled' \in BOOLEAN /\ unflushed' \in BOOLEAN
    BY <2>2, Zenon DEF CommandTypes
  <2> QED
    BY <2>1, <2>2, <2>3 DEF CommandTypes, CustomPlaces
<1>19. CASE CallFails
  <2>1. failures' \in 0..MaxFailures
    BY <1>19, CustomAssumption DEF CallFails, Fail, CanFail, CommandTypes
  <2>2. step' \in {"idle", "powerOff"} /\ result' \in Results /\ steady' = FALSE /\ force' = force /\ settled' = settled /\ unflushed' \in {unflushed, TRUE}
    BY <1>19 DEF CallFails, Fail, CommandTypes, Results
  <2>3. steady' \in BOOLEAN /\ force' \in BOOLEAN /\ settled' \in BOOLEAN /\ unflushed' \in BOOLEAN
    BY <2>2, Zenon DEF CommandTypes
  <2> QED
    BY <2>1, <2>2, <2>3 DEF CommandTypes, CustomPlaces
<1>20. CASE Interrupt
  <2>1. failures' \in 0..MaxFailures
    BY <1>20, CustomAssumption DEF Interrupt, Fail, CanFail, CommandTypes
  <2>2. step' \in {"idle", "powerOff"} /\ result' \in Results /\ steady' = FALSE /\ force' = force /\ settled' = settled /\ unflushed' \in {unflushed, TRUE}
    BY <1>20 DEF Interrupt, Fail, CommandTypes, Results
  <2>3. steady' \in BOOLEAN /\ force' \in BOOLEAN /\ settled' \in BOOLEAN /\ unflushed' \in BOOLEAN
    BY <2>2, Zenon DEF CommandTypes
  <2> QED
    BY <2>1, <2>2, <2>3 DEF CommandTypes, CustomPlaces
<1>21. CASE UNCHANGED customVars
  BY <1>21, CustomAssumption DEF customVars, clusterVars, hostVars, status, CommandTypes, CustomPlaces, Results
<1> QED
  BY <1>1, <1>2, <1>3, <1>4, <1>5, <1>6, <1>7, <1>8, <1>9, <1>10, <1>11, <1>12, <1>13, <1>14, <1>15, <1>16, <1>17, <1>18, <1>19, <1>20, <1>21 DEF CustomNext, GenerateBundle

\* A config is rendered only up to the bound, and those that are listed are rendered ones.
LEMMA RenderedTyped ==
  ASSUME RenderedTypes, NewestThere, [CustomNext]_(customVars)
  PROVE  RenderedTypes'
<1>1. CASE \E p \in Pools : Render(p)
  <2>1. PICK p \in Pools : Render(p)
    BY <1>1
  <2>2. Newest(rendered[p]) \in rendered[p]
    BY NewestIs DEF NewestThere
  <2>3. rendered[p] \cup {Newest(rendered[p]) + 1} \in SUBSET (1..MaxRendered)
    BY <2>1, <2>2, CustomAssumption DEF Render, RenderedTypes
  <2>4. rendered' = [rendered EXCEPT ![p] = rendered[p] \cup {Newest(rendered[p]) + 1}] /\ old' = old
    BY <2>1 DEF Render
  <2> QED
    BY <2>3, <2>4 DEF RenderedTypes
<1>2. CASE Apply
  BY <1>2, CustomAssumption DEF Apply, status, hostVars, RenderedTypes
<1>3. CASE StartInstance
  BY <1>3, CustomAssumption DEF StartInstance, AtStep, hostVars, RenderedTypes
<1>4. CASE Started
  BY <1>4, CustomAssumption DEF Started, AtStep, clusterVars, hostVars, status, RenderedTypes
<1>5. CASE loadVM
  BY <1>5, CustomAssumption DEF loadVM, AtStep, clusterVars, NoArchive, RenderedTypes
<1>6. CASE RemovePullSecretFromCluster
  BY <1>6, CustomAssumption DEF RemovePullSecretFromCluster, AtStep, Proceed, End, hostVars, status, RenderedTypes
<1>7. CASE waitForPullSecretRemovedFromInstanceDisk
  BY <1>7, CustomAssumption DEF waitForPullSecretRemovedFromInstanceDisk, AtStep, Proceed, clusterVars, hostVars, status, RenderedTypes
<1>8. CASE ListRendered
  BY <1>8, CustomAssumption DEF ListRendered, AtStep, Proceed, clusterVars, hostVars, status, RenderedTypes
<1>9. CASE RemoveOldRenderedMachineConfig
  BY <1>9, CustomAssumption DEF RemoveOldRenderedMachineConfig, AtStep, Proceed, End, hostVars, status, RenderedTypes
<1>10. CASE StopInstance
  BY <1>10, CustomAssumption DEF StopInstance, AtStep, Proceed, hostVars, status, RenderedTypes
<1>11. CASE StopFails
  BY <1>11, CustomAssumption DEF StopFails, AtStep, CanFail, Fail, hostVars, RenderedTypes
<1>12. CASE PowerOff
  BY <1>12, CustomAssumption DEF PowerOff, AtStep, Proceed, clusterVars, hostVars, status, RenderedTypes
<1>13. CASE IsRunning
  BY <1>13, CustomAssumption DEF IsRunning, AtStep, Proceed, End, clusterVars, hostVars, status, RenderedTypes
<1>14. CASE CopyFilesFromFileList
  BY <1>14, CustomAssumption DEF CopyFilesFromFileList, AtStep, Proceed, clusterVars, status, RenderedTypes
<1>15. CASE copyDiskImage
  BY <1>15, CustomAssumption DEF copyDiskImage, AtStep, Proceed, clusterVars, status, RenderedTypes
<1>16. CASE CopierGenerateBundle
  BY <1>16, CustomAssumption DEF CopierGenerateBundle, AtStep, Proceed, End, clusterVars, status, RenderedTypes
<1>17. CASE Compress
  BY <1>17, CustomAssumption DEF Compress, AtStep, End, clusterVars, RenderedTypes
<1>18. CASE CloseFails
  BY <1>18, CustomAssumption DEF CloseFails, AtStep, CanFail, clusterVars, RenderedTypes
<1>19. CASE CallFails
  BY <1>19, CustomAssumption DEF CallFails, AtStep, Fail, CanFail, clusterVars, RenderedTypes
<1>20. CASE Interrupt
  BY <1>20, CustomAssumption DEF Interrupt, AtStep, Fail, CanFail, clusterVars, hostVars, RenderedTypes
<1>21. CASE UNCHANGED customVars
  BY <1>21, CustomAssumption DEF customVars, clusterVars, hostVars, status, RenderedTypes
<1> QED
  BY <1>1, <1>2, <1>3, <1>4, <1>5, <1>6, <1>7, <1>8, <1>9, <1>10, <1>11, <1>12, <1>13, <1>14, <1>15, <1>16, <1>17, <1>18, <1>19, <1>20, <1>21 DEF CustomNext, GenerateBundle

\* What is copied, and what is compressed, are files of a bundle.
LEMMA CopyTyped ==
  ASSUME CopyTypes, disk \in Secrets, [CustomNext]_(customVars)
  PROVE  CopyTypes'
<1>1. CASE \E p \in Pools : Render(p)
  BY <1>1, FilesThere, FilesStay DEF Render, hostVars, status, CopyTypes
<1>2. CASE Apply
  BY <1>2, FilesThere, FilesStay DEF Apply, status, hostVars, CopyTypes
<1>3. CASE StartInstance
  BY <1>3, FilesThere, FilesStay DEF StartInstance, AtStep, hostVars, CopyTypes
<1>4. CASE Started
  BY <1>4, FilesThere, FilesStay, Zenon, ZenonT(60) DEF Started, AtStep, clusterVars, hostVars, status, CopyTypes
<1>5. CASE loadVM
  BY <1>5, FilesThere, FilesStay DEF loadVM, AtStep, clusterVars, NoArchive, CopyTypes
<1>6. CASE RemovePullSecretFromCluster
  BY <1>6, FilesThere, FilesStay DEF RemovePullSecretFromCluster, AtStep, Proceed, End, hostVars, status, CopyTypes
<1>7. CASE waitForPullSecretRemovedFromInstanceDisk
  BY <1>7, FilesThere, FilesStay, Zenon DEF waitForPullSecretRemovedFromInstanceDisk, AtStep, Proceed, clusterVars, hostVars, status, CopyTypes
<1>8. CASE ListRendered
  BY <1>8, FilesThere, FilesStay, Zenon DEF ListRendered, AtStep, Proceed, clusterVars, hostVars, status, CopyTypes
<1>9. CASE RemoveOldRenderedMachineConfig
  BY <1>9, FilesThere, FilesStay DEF RemoveOldRenderedMachineConfig, AtStep, Proceed, End, hostVars, status, CopyTypes
<1>10. CASE StopInstance
  BY <1>10, FilesThere, FilesStay DEF StopInstance, AtStep, Proceed, hostVars, status, CopyTypes
<1>11. CASE StopFails
  BY <1>11, FilesThere, FilesStay DEF StopFails, AtStep, CanFail, Fail, hostVars, CopyTypes
<1>12. CASE PowerOff
  BY <1>12, FilesThere, FilesStay DEF PowerOff, AtStep, Proceed, clusterVars, hostVars, status, CopyTypes
<1>13. CASE IsRunning
  BY <1>13, FilesThere, FilesStay DEF IsRunning, AtStep, Proceed, End, clusterVars, hostVars, status, CopyTypes
<1>14. CASE CopyFilesFromFileList
  BY <1>14, FilesThere, FilesStay DEF CopyFilesFromFileList, AtStep, Proceed, clusterVars, status, CopyTypes
<1>15. CASE copyDiskImage
  BY <1>15, FilesThere, FilesStay DEF copyDiskImage, AtStep, Proceed, clusterVars, status, CopyTypes
<1>16. CASE CopierGenerateBundle
  BY <1>16, FilesThere, FilesStay DEF CopierGenerateBundle, AtStep, Proceed, End, clusterVars, status, CopyTypes
<1>17. CASE Compress
  BY <1>17, FilesThere, FilesStay, Zenon DEF Compress, AtStep, End, clusterVars, CopyTypes
<1>18. CASE CloseFails
  BY <1>18, FilesThere, FilesStay, SMT, SMTT(30) DEF CloseFails, AtStep, CanFail, clusterVars, CopyTypes
<1>19. CASE CallFails
  BY <1>19, FilesThere, FilesStay DEF CallFails, AtStep, Fail, CanFail, clusterVars, CopyTypes
<1>20. CASE Interrupt
  BY <1>20, FilesThere, FilesStay DEF Interrupt, AtStep, Fail, CanFail, clusterVars, hostVars, CopyTypes
<1>21. CASE UNCHANGED customVars
  BY <1>21, FilesThere, FilesStay DEF customVars, clusterVars, hostVars, status, CopyTypes
<1> QED
  BY <1>1, <1>2, <1>3, <1>4, <1>5, <1>6, <1>7, <1>8, <1>9, <1>10, <1>11, <1>12, <1>13, <1>14, <1>15, <1>16, <1>17, <1>18, <1>19, <1>20, <1>21 DEF CustomNext, GenerateBundle

\* The newest config of a pool is never deleted: only those that ListRendered has found to be older are, and the operator
\* renders newer ones meanwhile.
LEMMA CustomNewest ==
  ASSUME CustomInv, [CustomNext]_(customVars)
  PROVE  NewestThere' /\ \A p \in Pools : Newest(rendered[p]) \in rendered'[p]
<1> NewestThere /\ RenderedTypes
  BY DEF CustomInv, CustomTypes
<1> \A p \in Pools : Newest(rendered[p]) \in rendered[p] /\ \A m \in rendered[p] : m <= Newest(rendered[p])
  BY NewestIs DEF NewestThere
<1>1. CASE \E p \in Pools : Render(p)
  <2>1. PICK p \in Pools : Render(p)
    BY <1>1
  <2> DEFINE new == Newest(rendered[p]) + 1
  <2>2. rendered' = [rendered EXCEPT ![p] = rendered[p] \cup {new}] /\ old' = old /\ step' = step
    BY <2>1 DEF Render
  <2>3. rendered'[p] = rendered[p] \cup {new} /\ \A q \in Pools : q # p => rendered'[q] = rendered[q]
    BY <2>2, Zenon DEF RenderedTypes
  <2>4. \A q \in Pools : rendered[q] \subseteq rendered'[q] /\ rendered[q] \subseteq 1..MaxRendered
    BY <2>3, Zenon DEF RenderedTypes
  <2>5. new \in rendered'[p] /\ \A m \in rendered'[p] : m <= new
    BY <2>3, <2>4, CustomAssumption, SMT, SMTT(30)
  <2>6. \A q \in Pools : \E n \in rendered'[q] : \A m \in rendered'[q] : m <= n
    BY <2>3, <2>5, Zenon
  <2>7. step' = "delete" => \A q \in Pools : \A n \in old'[q] : \E m \in rendered'[q] : n < m
    BY <2>2, <2>4, Zenon, ZenonT(60) DEF NewestThere
  <2> QED
    BY <2>4, <2>6, <2>7, Zenon DEF NewestThere
<1>2. CASE Apply
  BY <1>2 DEF Apply, status, hostVars, NewestThere
<1>3. CASE StartInstance
  BY <1>3, Zenon DEF StartInstance, AtStep, hostVars, NewestThere
<1>4. CASE Started
  BY <1>4, Zenon DEF Started, AtStep, clusterVars, hostVars, status, NewestThere
<1>5. CASE loadVM
  BY <1>5, Zenon DEF loadVM, AtStep, clusterVars, NoArchive, NewestThere
<1>6. CASE RemovePullSecretFromCluster
  BY <1>6, Zenon, ZenonT(60) DEF RemovePullSecretFromCluster, AtStep, Proceed, End, hostVars, status, NewestThere
<1>7. CASE waitForPullSecretRemovedFromInstanceDisk
  BY <1>7 DEF waitForPullSecretRemovedFromInstanceDisk, AtStep, Proceed, clusterVars, hostVars, status, NewestThere
<1>8. CASE ListRendered
  <2>1. rendered' = rendered /\ old' = [p \in Pools |-> {n \in rendered[p] : n # Newest(rendered[p])}]
    BY <1>8 DEF ListRendered, clusterVars
  <2>2. ASSUME NEW p \in Pools, NEW n \in old'[p] PROVE \E m \in rendered'[p] : n < m
    <3>1. n \in rendered[p] /\ n # Newest(rendered[p])
      BY <2>1, <2>2
    <3>2. rendered[p] \subseteq 1..MaxRendered
      BY DEF RenderedTypes
    <3> QED
      BY <3>1, <3>2, <2>1, CustomAssumption
  <2> QED
    BY <2>1, <2>2 DEF NewestThere
<1>9. CASE RemoveOldRenderedMachineConfig
  <2>1. step = "delete" /\ step' # "delete"
    BY <1>9 DEF RemoveOldRenderedMachineConfig, AtStep, Proceed, End
  <2>2. CASE rendered' = rendered
    BY <2>1, <2>2, Zenon DEF NewestThere
  <2>3. CASE rendered' = [p \in Pools |-> rendered[p] \ old[p]]
    <3>1. ASSUME NEW p \in Pools PROVE Newest(rendered[p]) \in rendered'[p] /\ \A m \in rendered'[p] : m <= Newest(rendered[p])
      <4>1. rendered[p] \subseteq 1..MaxRendered /\ rendered'[p] = rendered[p] \ old[p]
        BY <2>3 DEF RenderedTypes
      <4>2. Newest(rendered[p]) \notin old[p]
        BY <2>1, <4>1, CustomAssumption DEF NewestThere
      <4> QED
        BY <4>1, <4>2
    <3> QED
      BY <3>1, <2>1 DEF NewestThere
  <2> QED
    BY <1>9, <2>2, <2>3 DEF RemoveOldRenderedMachineConfig
<1>10. CASE StopInstance
  BY <1>10, Zenon DEF StopInstance, AtStep, Proceed, hostVars, status, NewestThere
<1>11. CASE StopFails
  BY <1>11, Zenon DEF StopFails, AtStep, CanFail, Fail, hostVars, NewestThere
<1>12. CASE PowerOff
  BY <1>12, Zenon DEF PowerOff, AtStep, Proceed, clusterVars, hostVars, status, NewestThere
<1>13. CASE IsRunning
  BY <1>13, Zenon DEF IsRunning, AtStep, Proceed, End, clusterVars, hostVars, status, NewestThere
<1>14. CASE CopyFilesFromFileList
  BY <1>14, Zenon DEF CopyFilesFromFileList, AtStep, Proceed, clusterVars, status, NewestThere
<1>15. CASE copyDiskImage
  BY <1>15, Zenon, ZenonT(60) DEF copyDiskImage, AtStep, Proceed, clusterVars, status, NewestThere
<1>16. CASE CopierGenerateBundle
  BY <1>16 DEF CopierGenerateBundle, AtStep, Proceed, End, clusterVars, status, NewestThere
<1>17. CASE Compress
  BY <1>17, Zenon DEF Compress, AtStep, End, clusterVars, NewestThere
<1>18. CASE CloseFails
  BY <1>18, Zenon DEF CloseFails, AtStep, CanFail, clusterVars, NewestThere
<1>19. CASE CallFails
  BY <1>19, Zenon DEF CallFails, AtStep, Fail, CanFail, clusterVars, NewestThere
<1>20. CASE Interrupt
  BY <1>20 DEF Interrupt, AtStep, Fail, CanFail, clusterVars, hostVars, NewestThere
<1>21. CASE UNCHANGED customVars
  BY <1>21, Zenon DEF customVars, clusterVars, hostVars, status, NewestThere
<1> QED
  BY <1>1, <1>2, <1>3, <1>4, <1>5, <1>6, <1>7, <1>8, <1>9, <1>10, <1>11, <1>12, <1>13, <1>14, <1>15, <1>16, <1>17, <1>18, <1>19, <1>20, <1>21, Zenon DEF CustomNext, GenerateBundle

\* The cluster answers only while its instance runs, and the command gets to copying only when it does not.
LEMMA CustomAnswers ==
  ASSUME CustomInv, [CustomNext]_(customVars)
  PROVE  Answers'
<1> ClusterTypes /\ Answers
  BY DEF CustomInv, CustomTypes
<1>1. CASE \E p \in Pools : Render(p)
  BY <1>1 DEF Render, hostVars, status, Answers, ClusterTypes
<1>2. CASE Apply
  BY <1>2 DEF Apply, status, hostVars, Answers, ClusterTypes
<1>3. CASE StartInstance
  BY <1>3 DEF StartInstance, AtStep, hostVars, Answers, ClusterTypes
<1>4. CASE Started
  BY <1>4, Zenon DEF Started, AtStep, clusterVars, hostVars, status, Answers, ClusterTypes
<1>5. CASE loadVM
  BY <1>5, Zenon DEF loadVM, AtStep, clusterVars, NoArchive, Answers, ClusterTypes
<1>6. CASE RemovePullSecretFromCluster
  BY <1>6 DEF RemovePullSecretFromCluster, AtStep, Proceed, End, hostVars, status, Answers, ClusterTypes
<1>7. CASE waitForPullSecretRemovedFromInstanceDisk
  BY <1>7, Zenon DEF waitForPullSecretRemovedFromInstanceDisk, AtStep, Proceed, clusterVars, hostVars, status, Answers, ClusterTypes
<1>8. CASE ListRendered
  BY <1>8, Zenon, ZenonT(60) DEF ListRendered, AtStep, Proceed, clusterVars, hostVars, status, Answers, ClusterTypes
<1>9. CASE RemoveOldRenderedMachineConfig
  BY <1>9 DEF RemoveOldRenderedMachineConfig, AtStep, Proceed, End, hostVars, status, Answers, ClusterTypes
<1>10. CASE StopInstance
  BY <1>10 DEF StopInstance, AtStep, Proceed, hostVars, status, Answers, ClusterTypes
<1>11. CASE StopFails
  BY <1>11 DEF StopFails, AtStep, CanFail, Fail, hostVars, Answers, ClusterTypes
<1>12. CASE PowerOff
  BY <1>12, Zenon DEF PowerOff, AtStep, Proceed, clusterVars, hostVars, status, Answers, ClusterTypes
<1>13. CASE IsRunning
  BY <1>13, Zenon, ZenonT(60) DEF IsRunning, AtStep, Proceed, End, clusterVars, hostVars, status, Answers, ClusterTypes
<1>14. CASE CopyFilesFromFileList
  BY <1>14 DEF CopyFilesFromFileList, AtStep, Proceed, clusterVars, status, Answers, ClusterTypes
<1>15. CASE copyDiskImage
  BY <1>15, Zenon DEF copyDiskImage, AtStep, Proceed, clusterVars, status, Answers, ClusterTypes
<1>16. CASE CopierGenerateBundle
  BY <1>16, Zenon DEF CopierGenerateBundle, AtStep, Proceed, End, clusterVars, status, Answers, ClusterTypes
<1>17. CASE Compress
  BY <1>17, Zenon, ZenonT(60) DEF Compress, AtStep, End, clusterVars, Answers, ClusterTypes
<1>18. CASE CloseFails
  BY <1>18 DEF CloseFails, AtStep, CanFail, clusterVars, Answers, ClusterTypes
<1>19. CASE CallFails
  BY <1>19, Zenon DEF CallFails, AtStep, Fail, CanFail, clusterVars, Answers, ClusterTypes
<1>20. CASE Interrupt
  BY <1>20, Zenon, ZenonT(60) DEF Interrupt, AtStep, Fail, CanFail, clusterVars, hostVars, Answers, ClusterTypes
<1>21. CASE UNCHANGED customVars
  BY <1>21 DEF customVars, clusterVars, hostVars, status, Answers, ClusterTypes
<1> QED
  BY <1>1, <1>2, <1>3, <1>4, <1>5, <1>6, <1>7, <1>8, <1>9, <1>10, <1>11, <1>12, <1>13, <1>14, <1>15, <1>16, <1>17, <1>18, <1>19, <1>20, <1>21 DEF CustomNext, GenerateBundle

\* The secret leaves the cluster in the order secret, config, disk, and a config that is without it is not the only one.
LEMMA CustomSecret ==
  ASSUME CustomInv, [CustomNext]_(customVars)
  PROVE  SecretLeaves'
<1> ClusterTypes /\ Answers /\ SecretLeaves /\ NewestThere
  BY DEF CustomInv, CustomTypes
<1>1. CASE \E p \in Pools : Render(p)
  <2>1. PICK p \in Pools : Render(p)
    BY <1>1
  <2> DEFINE new == Newest(rendered[p]) + 1
  <2>2. /\ rendered' = [rendered EXCEPT ![p] = rendered[p] \cup {new}]
        /\ config' = [config EXCEPT ![p] = secret] /\ config[p] # secret
        /\ UNCHANGED <<openshift, secret, disk, step, old, settled>>
    BY <2>1 DEF Render, status
  <2>3. \E n \in rendered["master"] : \A m \in rendered["master"] : m <= n
    BY DEF NewestThere, Pools
  <2>t. RenderedTypes
    BY Zenon, ZenonT(60) DEF CustomInv, CustomTypes
  <2>4. CASE p # "master"
    <3>1. config'["master"] = config["master"] /\ rendered'["master"] = rendered["master"]
      BY <2>2, <2>4, <2>t, Zenon, ZenonT(60) DEF ClusterTypes, RenderedTypes, Pools
    <3> QED
      BY <3>1, <2>2 DEF SecretLeaves
  <2>5. CASE p = "master"
    <3>1. config'["master"] = secret /\ rendered'["master"] = rendered["master"] \cup {new} /\ config["master"] # secret
      BY <2>2, <2>5, <2>t, Zenon DEF ClusterTypes, RenderedTypes, Pools
    <3>2. new \notin rendered["master"] /\ rendered["master"] # {}
      <4>1. Newest(rendered["master"]) \in rendered["master"] /\ \A m \in rendered["master"] : m <= Newest(rendered["master"])
        BY <2>3, NewestIs
      <4>2. rendered["master"] \subseteq 1..MaxRendered
        BY <2>t DEF RenderedTypes, Pools
      <4> QED
        BY <4>1, <4>2, <2>5, CustomAssumption
    <3>3. \E m, n \in rendered'["master"] : m # n
      BY <3>1, <3>2
    <3>4. secret \in {"user", "empty"} /\ config["master"] \in {"user", "empty"} /\ disk \in {"user", "empty"}
      BY DEF ClusterTypes, Secrets, Pools
    <3> HIDE DEF new
    <3> QED
      BY <3>1, <3>3, <3>4, <2>2 DEF SecretLeaves
  <2> QED
    BY <2>4, <2>5
<1>2. CASE Apply
  BY <1>2, Zenon, ZenonT(60) DEF Apply, status, hostVars, SecretLeaves, ClusterTypes, Answers, Secrets, Pools
<1>3. CASE StartInstance
  BY <1>3 DEF StartInstance, AtStep, hostVars, SecretLeaves, ClusterTypes, Answers, Secrets, Pools
<1>4. CASE Started
  BY <1>4, Zenon DEF Started, AtStep, clusterVars, hostVars, status, SecretLeaves, ClusterTypes, Answers, Secrets, Pools
<1>5. CASE loadVM
  BY <1>5, Zenon DEF loadVM, AtStep, clusterVars, NoArchive, SecretLeaves, ClusterTypes, Answers, Secrets, Pools
<1>6. CASE RemovePullSecretFromCluster
  BY <1>6, Zenon DEF RemovePullSecretFromCluster, AtStep, Proceed, End, hostVars, status, SecretLeaves, ClusterTypes, Answers, Secrets, Pools
<1>7. CASE waitForPullSecretRemovedFromInstanceDisk
  BY <1>7, Zenon, ZenonT(60) DEF waitForPullSecretRemovedFromInstanceDisk, AtStep, Proceed, clusterVars, hostVars, status, SecretLeaves, ClusterTypes, Answers, Secrets, Pools
<1>8. CASE ListRendered
  BY <1>8 DEF ListRendered, AtStep, Proceed, clusterVars, hostVars, status, SecretLeaves, ClusterTypes, Answers, Secrets, Pools
<1>9. CASE RemoveOldRenderedMachineConfig
  BY <1>9, Zenon DEF RemoveOldRenderedMachineConfig, AtStep, Proceed, End, hostVars, status, SecretLeaves, ClusterTypes, Answers, Secrets, Pools
<1>10. CASE StopInstance
  BY <1>10, Zenon DEF StopInstance, AtStep, Proceed, hostVars, status, SecretLeaves, ClusterTypes, Answers, Secrets, Pools
<1>11. CASE StopFails
  BY <1>11, Zenon DEF StopFails, AtStep, CanFail, Fail, hostVars, SecretLeaves, ClusterTypes, Answers, Secrets, Pools
<1>12. CASE PowerOff
  BY <1>12, Zenon DEF PowerOff, AtStep, Proceed, clusterVars, hostVars, status, SecretLeaves, ClusterTypes, Answers, Secrets, Pools
<1>13. CASE IsRunning
  BY <1>13, Zenon DEF IsRunning, AtStep, Proceed, End, clusterVars, hostVars, status, SecretLeaves, ClusterTypes, Answers, Secrets, Pools
<1>14. CASE CopyFilesFromFileList
  BY <1>14, Zenon DEF CopyFilesFromFileList, AtStep, Proceed, clusterVars, status, SecretLeaves, ClusterTypes, Answers, Secrets, Pools
<1>15. CASE copyDiskImage
  BY <1>15 DEF copyDiskImage, AtStep, Proceed, clusterVars, status, SecretLeaves, ClusterTypes, Answers, Secrets, Pools
<1>16. CASE CopierGenerateBundle
  BY <1>16, Zenon DEF CopierGenerateBundle, AtStep, Proceed, End, clusterVars, status, SecretLeaves, ClusterTypes, Answers, Secrets, Pools
<1>17. CASE Compress
  BY <1>17, Zenon DEF Compress, AtStep, End, clusterVars, SecretLeaves, ClusterTypes, Answers, Secrets, Pools
<1>18. CASE CloseFails
  BY <1>18, Zenon DEF CloseFails, AtStep, CanFail, clusterVars, SecretLeaves, ClusterTypes, Answers, Secrets, Pools
<1>19. CASE CallFails
  BY <1>19, Zenon DEF CallFails, AtStep, Fail, CanFail, clusterVars, SecretLeaves, ClusterTypes, Answers, Secrets, Pools
<1>20. CASE Interrupt
  BY <1>20, Zenon DEF Interrupt, AtStep, Fail, CanFail, clusterVars, hostVars, SecretLeaves, ClusterTypes, Answers, Secrets, Pools
<1>21. CASE UNCHANGED customVars
  BY <1>21, Zenon DEF customVars, clusterVars, hostVars, status, SecretLeaves, ClusterTypes, Answers, Secrets, Pools
<1> QED
  BY <1>1, <1>2, <1>3, <1>4, <1>5, <1>6, <1>7, <1>8, <1>9, <1>10, <1>11, <1>12, <1>13, <1>14, <1>15, <1>16, <1>17, <1>18, <1>19, <1>20, <1>21 DEF CustomNext, GenerateBundle

\* The command copies all files of a bundle in turn, and the image that of the disk.
LEMMA CustomCopies ==
  ASSUME CustomInv, [CustomNext]_(customVars)
  PROVE  CopiedSoFar'
<1> ClusterTypes /\ CopyTypes /\ CopiedSoFar /\ Answers
  BY Zenon DEF CustomInv, CustomTypes
<1>1. CASE \E p \in Pools : Render(p)
  BY <1>1, FilesThere, FilesStay, SMT, SMTT(30) DEF Render, hostVars, status, CopiedSoFar, Answers, ClusterTypes, CopyTypes
<1>2. CASE Apply
  BY <1>2, FilesThere, FilesStay, Zenon DEF Apply, status, hostVars, CopiedSoFar, Answers, ClusterTypes, CopyTypes
<1>3. CASE StartInstance
  BY <1>3, FilesThere, FilesStay, Zenon DEF StartInstance, AtStep, hostVars, CopiedSoFar, Answers, ClusterTypes, CopyTypes
<1>4. CASE Started
  BY <1>4, FilesThere, FilesStay DEF Started, AtStep, clusterVars, hostVars, status, CopiedSoFar, Answers, ClusterTypes, CopyTypes
<1>5. CASE loadVM
  BY <1>5, FilesThere, FilesStay, Zenon DEF loadVM, AtStep, clusterVars, NoArchive, CopiedSoFar, Answers, ClusterTypes, CopyTypes
<1>6. CASE RemovePullSecretFromCluster
  BY <1>6, FilesThere, FilesStay, Zenon DEF RemovePullSecretFromCluster, AtStep, Proceed, End, hostVars, status, CopiedSoFar, Answers, ClusterTypes, CopyTypes
<1>7. CASE waitForPullSecretRemovedFromInstanceDisk
  BY <1>7, FilesThere, FilesStay DEF waitForPullSecretRemovedFromInstanceDisk, AtStep, Proceed, clusterVars, hostVars, status, CopiedSoFar, Answers, ClusterTypes, CopyTypes
<1>8. CASE ListRendered
  BY <1>8, FilesThere, FilesStay, Zenon DEF ListRendered, AtStep, Proceed, clusterVars, hostVars, status, CopiedSoFar, Answers, ClusterTypes, CopyTypes
<1>9. CASE RemoveOldRenderedMachineConfig
  BY <1>9, FilesThere, FilesStay, Zenon DEF RemoveOldRenderedMachineConfig, AtStep, Proceed, End, hostVars, status, CopiedSoFar, Answers, ClusterTypes, CopyTypes
<1>10. CASE StopInstance
  BY <1>10, FilesThere, FilesStay, Zenon DEF StopInstance, AtStep, Proceed, hostVars, status, CopiedSoFar, Answers, ClusterTypes, CopyTypes
<1>11. CASE StopFails
  BY <1>11, FilesThere, FilesStay, Zenon DEF StopFails, AtStep, CanFail, Fail, hostVars, CopiedSoFar, Answers, ClusterTypes, CopyTypes
<1>12. CASE PowerOff
  BY <1>12, FilesThere, FilesStay, Zenon DEF PowerOff, AtStep, Proceed, clusterVars, hostVars, status, CopiedSoFar, Answers, ClusterTypes, CopyTypes
<1>13. CASE IsRunning
  BY <1>13, FilesThere, FilesStay, Zenon, ZenonT(60) DEF IsRunning, AtStep, Proceed, End, clusterVars, hostVars, status, CopiedSoFar, Answers, ClusterTypes, CopyTypes
<1>14. CASE CopyFilesFromFileList
  BY <1>14, FilesThere, FilesStay DEF CopyFilesFromFileList, AtStep, Proceed, clusterVars, status, CopiedSoFar, Answers, ClusterTypes, CopyTypes
<1>15. CASE copyDiskImage
  BY <1>15, FilesThere, FilesStay, Zenon DEF copyDiskImage, AtStep, Proceed, clusterVars, status, CopiedSoFar, Answers, ClusterTypes, CopyTypes
<1>16. CASE CopierGenerateBundle
  BY <1>16, FilesThere, FilesStay, Zenon, ZenonT(60) DEF CopierGenerateBundle, AtStep, Proceed, End, clusterVars, status, CopiedSoFar, Answers, ClusterTypes, CopyTypes
<1>17. CASE Compress
  BY <1>17, FilesThere, FilesStay DEF Compress, AtStep, End, clusterVars, CopiedSoFar, Answers, ClusterTypes, CopyTypes
<1>18. CASE CloseFails
  BY <1>18, FilesThere, FilesStay, Zenon DEF CloseFails, AtStep, CanFail, clusterVars, CopiedSoFar, Answers, ClusterTypes, CopyTypes
<1>19. CASE CallFails
  BY <1>19, FilesThere, FilesStay, Zenon DEF CallFails, AtStep, Fail, CanFail, clusterVars, CopiedSoFar, Answers, ClusterTypes, CopyTypes
<1>20. CASE Interrupt
  BY <1>20, FilesThere, FilesStay, Zenon DEF Interrupt, AtStep, Fail, CanFail, clusterVars, hostVars, CopiedSoFar, Answers, ClusterTypes, CopyTypes
<1>21. CASE UNCHANGED customVars
  BY <1>21, FilesThere, FilesStay DEF customVars, clusterVars, hostVars, status, CopiedSoFar, Answers, ClusterTypes, CopyTypes
<1> QED
  BY <1>1, <1>2, <1>3, <1>4, <1>5, <1>6, <1>7, <1>8, <1>9, <1>10, <1>11, <1>12, <1>13, <1>14, <1>15, <1>16, <1>17, <1>18, <1>19, <1>20, <1>21 DEF CustomNext, GenerateBundle

\* What has been promised of a bundle stays with the bundle and the command,
LEMMA PromisesStay ==
  ASSUME CustomPromises, UNCHANGED <<openshift, step, result, bundle, settled, steady, unflushed>>
  PROVE  CustomPromises'
<1> Files' = Files
  BY FilesStay
<1> QED
  BY Zenon DEF CustomPromises, NoSecretInBundle, GeneratedMeansWhole, SmoothGenerates, Whole, AtStep

\* nothing new is promised before the command ends,
LEMMA PromisesGoOn ==
  ASSUME CustomPromises, step' # "idle", UNCHANGED <<bundle, settled>>
  PROVE  CustomPromises'
BY Zenon DEF CustomPromises, NoSecretInBundle, GeneratedMeansWhole, SmoothGenerates, AtStep

\* nor when it ends with an error, unless it was calm.
LEMMA PromisesFail ==
  ASSUME CustomPromises, result' # "ok", ~(steady' /\ settled'), UNCHANGED <<bundle, settled>>
  PROVE  CustomPromises'
BY Zenon DEF CustomPromises, NoSecretInBundle, GeneratedMeansWhole, SmoothGenerates

\* What a command that has ended has made is whole, is without the secret, and nothing stood in its way.
LEMMA CustomPromised ==
  ASSUME CustomInv, [CustomNext]_(customVars)
  PROVE  CustomPromises'
<1> ClusterTypes /\ CopyTypes /\ CopiedSoFar /\ Answers /\ SecretLeaves /\ CustomPromises
  BY DEF CustomInv, CustomTypes
<1>1. CASE \E p \in Pools : Render(p)
  <2>1. UNCHANGED <<openshift, step, result, bundle, settled, steady, unflushed>>
    BY <1>1, Zenon DEF Render, hostVars, status
  <2> QED
    BY <2>1, PromisesStay
<1>2. CASE Apply
  <2>1. UNCHANGED <<openshift, step, result, bundle, settled, steady, unflushed>>
    BY <1>2, Zenon DEF Apply, hostVars, status
  <2> QED
    BY <2>1, PromisesStay
<1>3. CASE StartInstance
  <2>1. step' = "starting" /\ ~settled'
    BY <1>3, Zenon DEF StartInstance
  <2> QED
    BY <2>1, Zenon DEF CustomPromises, NoSecretInBundle, GeneratedMeansWhole, SmoothGenerates, AtStep
<1>4. CASE Started
  <2>1. result' = "none" /\ UNCHANGED <<bundle, settled>>
    BY <1>4, Zenon DEF Started, AtStep, hostVars, status, CopiedSoFar
  <2> QED
    BY <2>1, Zenon DEF CustomPromises, NoSecretInBundle, GeneratedMeansWhole, SmoothGenerates
<1>5. CASE loadVM
  <2>1. bundle' = NoArchive /\ step' # "idle"
    BY <1>5, Zenon DEF loadVM
  <2>2. "disk" \notin bundle'.files
    BY <2>1 DEF NoArchive
  <2> QED
    BY <2>1, <2>2, Zenon DEF CustomPromises, NoSecretInBundle, GeneratedMeansWhole, SmoothGenerates, AtStep
<1>6. CASE RemovePullSecretFromCluster
  <2>1. UNCHANGED <<bundle, settled>>
    BY <1>6, Zenon DEF RemovePullSecretFromCluster, Proceed, End, hostVars, status
  <2>2. CASE api
    BY <1>6, <2>1, <2>2, PromisesGoOn, Zenon DEF RemovePullSecretFromCluster, Proceed
  <2>3. CASE ~api
    <3>1. ~steady /\ steady' = steady /\ result' = "error"
      BY <1>6, <2>3, Zenon DEF RemovePullSecretFromCluster, AtStep, End, Answers
    <3> QED
      BY <2>1, <3>1, PromisesFail, Zenon
  <2> QED
    BY <2>2, <2>3
<1>7. CASE waitForPullSecretRemovedFromInstanceDisk
  BY <1>7, PromisesGoOn, Zenon DEF waitForPullSecretRemovedFromInstanceDisk, Proceed, hostVars, status
<1>8. CASE ListRendered
  BY <1>8, PromisesGoOn, Zenon DEF ListRendered, Proceed, hostVars, status
<1>9. CASE RemoveOldRenderedMachineConfig
  <2>1. UNCHANGED <<bundle, settled>>
    BY <1>9, Zenon DEF RemoveOldRenderedMachineConfig, Proceed, End, hostVars, status
  <2>2. CASE settled
    <3>1. old["master"] # {} /\ "master" \in Pools
      BY <1>9, <2>2, Zenon DEF SecretLeaves, Answers, RemoveOldRenderedMachineConfig, AtStep, Pools
    <3>2. step' = "stop"
      BY <1>9, <3>1, Zenon DEF RemoveOldRenderedMachineConfig, Proceed
    <3> QED
      BY <2>1, <3>2, PromisesGoOn, Zenon
  <2>3. CASE ~settled
    <3>1. step' = "stop" \/ result' = "error"
      BY <1>9, Zenon DEF RemoveOldRenderedMachineConfig, Proceed, End
    <3> QED
      BY <2>1, <2>3, <3>1, PromisesGoOn, PromisesFail, Zenon
  <2> QED
    BY <2>2, <2>3
<1>10. CASE StopInstance
  BY <1>10, PromisesGoOn, Zenon DEF StopInstance, Proceed, hostVars, status
<1>11. CASE StopFails
  <2>1. UNCHANGED <<bundle, settled>> /\ ~steady' /\ (step' = "powerOff" \/ result' = "error")
    BY <1>11, Zenon DEF StopFails, Fail, hostVars
  <2> QED
    BY <2>1, PromisesGoOn, PromisesFail, Zenon
<1>12. CASE PowerOff
  BY <1>12, PromisesGoOn, Zenon DEF PowerOff, Proceed, hostVars, status
<1>13. CASE IsRunning
  <2>1. vm # "running"
    BY <1>13, Zenon DEF IsRunning, AtStep, Answers
  <2> QED
    BY <1>13, <2>1, PromisesGoOn, Zenon DEF IsRunning, Proceed, hostVars, status
<1>14. CASE CopyFilesFromFileList
  BY <1>14, PromisesGoOn, Zenon DEF CopyFilesFromFileList, AtStep, Proceed, status
<1>15. CASE copyDiskImage
  BY <1>15, PromisesGoOn, Zenon DEF copyDiskImage, Proceed, status
<1>16. CASE CopierGenerateBundle
  <2>1. Files \ {"info"} \subseteq copied
    BY <1>16, Zenon, ZenonT(60) DEF CopierGenerateBundle, AtStep, CopiedSoFar
  <2> QED
    BY <1>16, <2>1, PromisesGoOn, Zenon DEF CopierGenerateBundle, Proceed, status
<1>17. CASE Compress
  <2>1. step = "compress" /\ openshift' = openshift /\ settled' = settled /\ result' = "ok"
    BY <1>17, Zenon DEF Compress, AtStep, End
  <2>2. bundle'.files = copied /\ bundle'.image = image
    BY <1>17 DEF Compress
  <2>3. copied = Files /\ image = disk /\ disk \in Secrets
    BY <2>1, Zenon DEF CopiedSoFar, ClusterTypes
  <2>4. settled => disk = "empty"
    BY <2>1, Zenon DEF SecretLeaves, CopiedSoFar
  <2>5. Files' = Files
    BY <2>1, FilesStay, Zenon
  <2> QED
    BY <2>1, <2>2, <2>3, <2>4, <2>5 DEF CustomPromises, NoSecretInBundle, GeneratedMeansWhole, SmoothGenerates, Whole
<1>18. CASE CloseFails
  <2>1. step = "compress" /\ step' = "idle" /\ unflushed' = TRUE /\ steady' = FALSE /\ settled' = settled
    BY <1>18, Zenon DEF CloseFails, AtStep
  <2>2. bundle'.image = image
    BY <1>18, SMT, SMTT(30) DEF CloseFails
  <2>3. settled => image # "user"
    BY <2>1, Zenon, ZenonT(60) DEF SecretLeaves, CopiedSoFar, ClusterTypes
  <2> QED
    BY <2>1, <2>2, <2>3 DEF CustomPromises, NoSecretInBundle, GeneratedMeansWhole, SmoothGenerates, AtStep
<1>19. CASE CallFails
  <2>1. result' = "error" /\ ~steady' /\ settled' = settled
    BY <1>19, Zenon DEF CallFails, Fail
  <2>2. bundle' = bundle \/ bundle'.files \subseteq {"kubeconfig"}
    BY <1>19 DEF CallFails
  <2> QED
    BY <2>1, <2>2 DEF CustomPromises, NoSecretInBundle, GeneratedMeansWhole, SmoothGenerates
<1>20. CASE Interrupt
  <2>1. result' = "none" /\ ~steady' /\ UNCHANGED <<bundle, settled>>
    BY <1>20, Zenon DEF Interrupt, Fail, hostVars
  <2> QED
    BY <2>1, PromisesFail, Zenon
<1>21. CASE UNCHANGED customVars
  <2>1. UNCHANGED <<openshift, step, result, bundle, settled, steady, unflushed>>
    BY <1>21, Zenon, ZenonT(60) DEF customVars, hostVars, status
  <2> QED
    BY <2>1, PromisesStay
<1> QED
  BY <1>1, <1>2, <1>3, <1>4, <1>5, <1>6, <1>7, <1>8, <1>9, <1>10, <1>11, <1>12, <1>13, <1>14, <1>15, <1>16,
     <1>17, <1>18, <1>19, <1>20, <1>21 DEF CustomNext, GenerateBundle

\* A step of the command, of the operator or of a start keeps the invariant.
LEMMA CustomStep ==
  CustomInv /\ [CustomNext]_(customVars) =>
    CustomInv' /\ \A p \in Pools : Newest(rendered[p]) \in rendered'[p]
<1> SUFFICES ASSUME CustomInv, [CustomNext]_(customVars)
    PROVE CustomInv' /\ \A p \in Pools : Newest(rendered[p]) \in rendered'[p]
  OBVIOUS
<1>1. ClusterTypes /\ RenderedTypes /\ CommandTypes /\ CopyTypes /\ NewestThere
  BY DEF CustomInv, CustomTypes
<1>2. openshift \in BOOLEAN /\ disk \in Secrets
  BY <1>1 DEF ClusterTypes
<1>3. CustomTypes'
  BY <1>1, <1>2, ClusterTyped, RenderedTyped, CommandTyped, CopyTyped DEF CustomTypes
<1> QED
  BY <1>3, CustomNewest, CustomAnswers, CustomSecret, CustomCopies, CustomPromised DEF CustomInv

(***************************************************************************)
(* GenerateBundle keeps the invariant, whatever the machine config operator *)
(* does meanwhile, wherever a command is cut short and for any number of   *)
(* attempts, and what it deletes is never the newest rendered config.      *)
(***************************************************************************)
THEOREM CustomInvariant == CustomSpec => []CustomInv /\ NewestKept
<1>1. CustomInv /\ [CustomNext]_(customVars) =>
        CustomInv' /\ [\A p \in Pools : Newest(rendered[p]) \in rendered'[p]]_(customVars)
  BY CustomStep, Zenon
<1> QED
  BY <1>1, CustomBegins, PTL DEF CustomSpec, NewestKept

-----------------------------------------------------------------------------
\* A behaviour of the whole is one of each of the parts.
LEMMA LifeParts == LifeSpec => CopySpec /\ CacheSpec /\ CustomSpec
<1>1. LifeInit => CopyInit /\ CacheInit /\ CustomInit
  BY DEF LifeInit
<1>2. [LifeNext]_all => [CopyNext]_copyVars /\ [CacheNext]_cacheVars /\ [CustomNext]_customVars
  BY DEF LifeNext, all
<1> QED
  BY <1>1, <1>2, PTL DEF LifeSpec, CopySpec, CacheSpec, CustomSpec

\* A bundle that Repository.Get accepts is whole, wherever a command that unpacked it was cut
\* short and whatever is downloaded, if one process is at the cache at a time and the bundle
\* has not been left half removed.
THEOREM GetFindsWhole == OneProcess => (LifeSpec => []GetMeansWhole)
<1> SUFFICES ASSUME OneProcess PROVE LifeSpec => []GetMeansWhole
  BY Zenon
<1>1. CacheInv => GetMeansWhole
  BY DEF CacheInv, CacheSound, GetMeansWhole, Removing, IsAt, B
<1>2. CacheSpec => []CacheInv
  BY CacheInvariant
<1> QED
  BY <1>1, <1>2, LifeParts, PTL

(***************************************************************************)
(* Unpacking and GenerateBundle succeed when nothing fails in them,        *)
(* whatever those before have left, and GenerateBundle returns nil only    *)
(* for a whole bundle: for any number of bundles, all of them supported,   *)
(* any archive, any number of failures and of rendered configs.            *)
(***************************************************************************)
THEOREM BundlesAreMade == (OneProcess /\ Bundles \subseteq Supported) => (LifeSpec => []BundlesMade)
<1> SUFFICES ASSUME OneProcess, Bundles \subseteq Supported PROVE LifeSpec => []BundlesMade
  OBVIOUS
<1>1. CopyInv => CopyTypeOK /\ CopyFaithful
  BY CopyMeans DEF CopyInv
<1>2. CacheInv => CacheTypeOK /\ SmoothSucceeds
  BY Zenon DEF CacheInv, CacheTypes, CacheSound, CacheTypeOK, Results
<1>3. CustomInv => CustomTypeOK
  BY DEF CustomInv, CustomTypes, ClusterTypes, RenderedTypes, CommandTypes, CopyTypes, Answers, CustomTypeOK, Results
<1>4. CustomInv => GeneratedMeansWhole /\ SmoothGenerates
  BY DEF CustomInv, CustomPromises
<1>5. CacheSpec => []CacheInv
  BY CacheInvariant
<1>6. CopyInv /\ CacheInv /\ CustomInv => BundlesMade
  BY <1>1, <1>2, <1>3, <1>4 DEF BundlesMade, TypesOK
<1> QED
  BY <1>5, <1>6, CopyInvariant, CustomInvariant, LifeParts, PTL

\* A custom bundle is without the user's pull secret if that had reached the disk before
\* GenerateBundle began, however the operator's steps and those of the command interleave.
THEOREM SecretStaysBehind == LifeSpec => []NoSecretInBundle
<1>1. CustomInv => NoSecretInBundle
  BY DEF CustomInv, CustomPromises
<1> QED
  BY <1>1, CustomInvariant, LifeParts, PTL

(***************************************************************************)
(* The newest rendered config is kept, whatever is removed around it, and  *)
(* Use links those executables of its own bundle that it is to link and    *)
(* leaves the other links alone, if one process is at the cache at a time. *)
(***************************************************************************)
THEOREM StepsChangeTheirOwn == OneProcess => (LifeSpec => ChangesItsOwn)
<1> SUFFICES ASSUME OneProcess PROVE LifeSpec => ChangesItsOwn
  OBVIOUS
<1>1. CacheSpec => UseLinksBundle
  <2>1. CacheInv /\ [CacheNext]_cacheVars =>
          [\A p \in Procs, e \in Executables :
             /\ (proc[p].command = "start" /\ proc'[p].result = "ok" /\ ~IsAt(p, "idle") /\ Linked(B(p), e))
                  => bin'[e] = B(p)
             /\ bin'[e] # bin[e] => \E q \in Procs : ~IsAt(q, "idle") /\ Linked(B(q), e)]_cacheVars
    BY CacheStep DEF Links, IsAt, B
  <2>2. CacheSpec => []CacheInv
    BY CacheInvariant
  <2> QED
    BY <2>1, <2>2, PTL DEF CacheSpec, UseLinksBundle
<1> QED
  BY <1>1, CustomInvariant, LifeParts, PTL DEF ChangesItsOwn

=============================================================================

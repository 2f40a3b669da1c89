--------------------------- MODULE SettingsProofs ---------------------------
(***************************************************************************)
(* Proofs about Settings, for every set of handlers and commands, of       *)
(* settings and of requests: what a request that has been alone with the   *)
(* settings knows of them, and what it has stored.                         *)
(***************************************************************************)
EXTENDS Settings, TLAPS

-----------------------------------------------------------------------------
(***************************************************************************)
(* The settings that depend on the preset.  A request that has been alone  *)
(* knows them as they are: a command that starts the machine has validated *)
(* and read them, GET /config has registered the defaults of the preset.   *)
(***************************************************************************)
Places == {"register", "check", "store", "validate", "read", "end"}

HasKey(todo, key) == \E i \in DOMAIN todo : todo[i].key = key

JobOK(j) ==
  /\ j = [do |-> j.do, at |-> j.at, todo |-> j.todo, asked |-> j.asked, got |-> j.got,
          failed |-> j.failed, quiet |-> j.quiet]
  /\ j.do \in Kinds \cup {"idle"} /\ j.at \in Places
  /\ j.todo \in Seq(Properties) /\ j.asked \in Seq(Properties)
  /\ j.got = [key \in Keys |-> j.got[key]]
  /\ j.failed \in BOOLEAN /\ j.quiet \in BOOLEAN
  /\ j.at = "store" => j.todo # <<>>

DefaultsOK ==
  /\ defaults \in [Workers -> [Sized -> Nat]]
  /\ \A w \in Workers, key \in Sized :
       defaults[w][key] \in {Minimum(key, p) : p \in Presets}

Types ==
  /\ Assumptions
  /\ stored = [key \in Keys |-> stored[key]]
  /\ \A key \in Keys : stored[key] \in ValuesOf(key) \cup {NoValue}
  /\ DefaultsOK
  /\ job = [w \in Workers |-> job[w]] /\ \A w \in Workers : JobOK(job[w])
  /\ faults \in 0..MaxFaults

DefaultIsCurrent(w, key) == defaults[w][key] = Minimum(key, GetPreset)

\* GET /config.
GetKnows(w) ==
  (job[w].do = "get" /\ job[w].quiet) =>
    /\ job[w].at \in {"register", "read"}
    /\ job[w].at = "register" =>
         \A key \in Sized : HasKey(job[w].todo, key) \/ DefaultIsCurrent(w, key)
    /\ job[w].at = "read" =>
         /\ \A key \in Sized : DefaultIsCurrent(w, key)
         /\ \A key \in Keys : HasKey(job[w].todo, key) \/ job[w].got[key] = Get(w, key)

\* "crc start".
StartKnows(w) ==
  (w \notin Daemon /\ job[w].do = "start" /\ job[w].quiet) =>
    /\ job[w].at \in {"register", "validate", "read", "check"}
    /\ job[w].at = "check" => job[w].failed /\ job[w].todo = <<>>
    /\ job[w].at = "validate" =>
         \A key \in Sized :
           HasKey(job[w].todo, key) \/ validateSize(key, Get(w, key))
    /\ job[w].at = "read" =>
         /\ \A key \in Sized : validateSize(key, Get(w, key))
         /\ \A key \in Keys \cap {"cpus", "memory", "preset"} :
              HasKey(job[w].todo, key) \/ job[w].got[key] = Get(w, key)

ReadsInv == Types /\ \A w \in Workers : GetKnows(w) /\ StartKnows(w)

\* Of the sequences of keys and properties.
Lists(keys, key) == \E i \in DOMAIN keys : keys[i] = key

\* Two sequences in one.
LEMMA Joined ==
  ASSUME NEW S, NEW s \in Seq(S), NEW t \in Seq(S)
  PROVE  s \o t \in Seq(S) /\ \A x : Lists(s, x) \/ Lists(t, x) => Lists(s \o t, x)
<1>1. /\ s \o t \in Seq(S) /\ DOMAIN (s \o t) = 1..(Len(s) + Len(t))
      /\ \A i \in 1..Len(s) : (s \o t)[i] = s[i]
      /\ \A i \in 1..Len(t) : (s \o t)[Len(s) + i] = t[i]
  OBVIOUS
<1>2. ASSUME NEW x, Lists(s, x) PROVE Lists(s \o t, x)
  <2>1. PICK i \in 1..Len(s) : s[i] = x
    BY <1>2 DEF Lists
  <2>2. i \in 1..(Len(s) + Len(t))
    OBVIOUS
  <2> QED BY <1>1, <2>1, <2>2 DEF Lists
<1>3. ASSUME NEW x, Lists(t, x) PROVE Lists(s \o t, x)
  <2>1. PICK i \in 1..Len(t) : t[i] = x
    BY <1>3 DEF Lists
  <2>2. Len(s) + i \in 1..(Len(s) + Len(t))
    OBVIOUS
  <2> QED BY <1>1, <2>1, <2>2 DEF Lists
<1> QED BY <1>1, <1>2, <1>3

\* A setting that there is, or none.
LEMMA OnlyKeys ==
  ASSUME NEW key
  PROVE  Only(key) \in Seq(Keys) /\ (key \in Keys => Lists(Only(key), key))
BY DEF Only, Lists

\* The reads of some settings are properties, one for each.
LEMMA ReadsProperties ==
  ASSUME NEW keys \in Seq(Keys)
  PROVE  /\ Reads(keys) \in Seq(Properties)
         /\ \A key : Lists(keys, key) => HasKey(Reads(keys), key)
<1>1. /\ DOMAIN Reads(keys) = 1..Len(keys)
      /\ \A i \in 1..Len(keys) : Reads(keys)[i] = [key |-> keys[i], value |-> NoValue]
  BY DEF Reads, Property
<1>2. ASSUME NEW i \in 1..Len(keys) PROVE Reads(keys)[i] \in Properties
  <2>1. keys[i] \in Keys /\ Reads(keys)[i] = Property(keys[i], NoValue)
    BY DEF Reads
  <2>2. Reads(keys)[i] \in UnsetProperties
    BY <2>1, Zenon DEF UnsetProperties
  <2> QED BY <2>2 DEF Properties
<1>3. Reads(keys) \in Seq(Properties)
  <2>1. Len(keys) \in Nat /\ DOMAIN keys = 1..Len(keys)
    OBVIOUS
  <2>2. Reads(keys) \in [1..Len(keys) -> Properties]
    BY <1>2, <2>1, Zenon DEF Reads
  <2> QED BY <2>1, <2>2
<1> QED BY <1>1, <1>3 DEF Lists, HasKey

\* Every size is registered and validated.
LEMMA PlansProperties ==
  /\ Registered \in Seq(Properties) /\ Validated \in Seq(Properties)
  /\ \A key \in Sized : HasKey(Registered, key) /\ HasKey(Validated, key)
<1> DEFINE c == Only("cpus")
           m == Only("memory")
<1>1. /\ c \in Seq(Keys) /\ m \in Seq(Keys)
      /\ "cpus" \in Keys => Lists(c, "cpus")
      /\ "memory" \in Keys => Lists(m, "memory")
  BY OnlyKeys
<1> HIDE DEF c, m
<1>2. /\ c \o m \in Seq(Keys) /\ \A key \in Sized : Lists(c \o m, key)
  BY <1>1, Joined DEF Sized
<1>3. /\ m \o c \in Seq(Keys) /\ \A key \in Sized : Lists(m \o c, key)
  BY <1>1, Joined DEF Sized
<1> QED BY <1>2, <1>3, ReadsProperties DEF Registered, Validated, c, m

\* A start reads the sizes and the preset,
LEMMA StartReadsProperties ==
  ASSUME NEW w
  PROVE  /\ StartReads(w) \in Seq(Properties)
         /\ \A key \in Keys \cap {"cpus", "memory", "preset"} : HasKey(StartReads(w), key)
<1> DEFINE c == Only("cpus")
           m == Only("memory")
           p == Only("preset")
           d == Only("enable-shared-dirs")
           s == IF OnWindows /\ w \notin Daemon THEN Only("shared-dir-password") ELSE <<>>
<1>1. /\ c \in Seq(Keys) /\ m \in Seq(Keys) /\ p \in Seq(Keys)
      /\ "cpus" \in Keys => Lists(c, "cpus")
      /\ "memory" \in Keys => Lists(m, "memory")
      /\ "preset" \in Keys => Lists(p, "preset")
  BY OnlyKeys
<1>2. d \in Seq(Keys) /\ s \in Seq(Keys)
  BY OnlyKeys
<1> HIDE DEF c, m, p, d, s
<1>3. m \o c \in Seq(Keys) /\ \A key : Lists(m, key) \/ Lists(c, key) => Lists(m \o c, key)
  BY <1>1, Joined
<1>4. /\ m \o c \o p \in Seq(Keys)
      /\ \A key : Lists(m \o c, key) \/ Lists(p, key) => Lists(m \o c \o p, key)
  BY <1>1, <1>3, Joined
<1>5. /\ m \o c \o p \o d \in Seq(Keys)
      /\ \A key : Lists(m \o c \o p, key) => Lists(m \o c \o p \o d, key)
  BY <1>2, <1>4, Joined
<1>6. /\ m \o c \o p \o d \o s \in Seq(Keys)
      /\ \A key : Lists(m \o c \o p \o d, key) => Lists(m \o c \o p \o d \o s, key)
  <2> DEFINE before == m \o c \o p \o d
  <2>1. before \in Seq(Keys)
    BY <1>5
  <2> HIDE DEF before
  <2>2. before \o s \in Seq(Keys) /\ \A key : Lists(before, key) => Lists(before \o s, key)
    BY <1>2, <2>1, Joined
  <2> QED BY <2>2 DEF before
<1>7. \A key \in Keys \cap {"cpus", "memory", "preset"} : Lists(m \o c \o p \o d \o s, key)
  BY <1>1, <1>3, <1>4, <1>5, <1>6
<1>8. StartReads(w) = Reads(m \o c \o p \o d \o s)
  BY DEF StartReads, c, m, p, d, s
<1> QED BY <1>6, <1>7, <1>8, ReadsProperties

\* GET /config every setting, in any order.
LEMMA ConfigReadsProperties ==
  ASSUME Assumptions, NEW todo \in ConfigReads
  PROVE  todo \in Seq(Properties) /\ \A key \in Keys : HasKey(todo, key)
<1>2. Cardinality(Keys) \in Nat
  BY DEF Assumptions
<1>3. PICK keys \in MapOrders : todo = Reads(keys)
  BY DEF ConfigReads
<1>4. keys \in Seq(Keys)
  BY <1>2 DEF MapOrders
<1>5. \A key \in Keys : Lists(keys, key)
  BY DEF MapOrders, Lists
<1> QED BY <1>3, <1>4, <1>5, ReadsProperties

\* A property that is done is the only one that is no longer to do.
LEMMA TailKeys ==
  ASSUME NEW S, NEW todo \in Seq(S), todo # <<>>
  PROVE  /\ Tail(todo) \in Seq(S) /\ Head(todo) \in S
         /\ \A key : HasKey(todo, key) => key = Head(todo).key \/ HasKey(Tail(todo), key)
<1>1. /\ Tail(todo) \in Seq(S) /\ Head(todo) \in S /\ Head(todo) = todo[1]
      /\ DOMAIN Tail(todo) = 1..(Len(todo) - 1) /\ \A i \in 1..(Len(todo) - 1) : Tail(todo)[i] = todo[i + 1]
  OBVIOUS
<1>2. ASSUME NEW key, HasKey(todo, key), key # Head(todo).key PROVE HasKey(Tail(todo), key)
  <2>1. PICK i \in 1..Len(todo) : todo[i].key = key
    BY <1>2 DEF HasKey
  <2>2. i - 1 \in 1..(Len(todo) - 1) /\ (i - 1) + 1 = i
    BY <1>1, <1>2, <2>1
  <2> QED BY <1>1, <2>1, <2>2 DEF HasKey
<1> QED BY <1>1, <1>2

\* What a property says is a value of its setting.
LEMMA PropertyValues ==
  ASSUME NEW p \in Properties
  PROVE  p.key \in Keys /\ p.value \in ValuesOf(p.key) \cup {NoValue}
<1>1. CASE p \in SetProperties
  <2>1. PICK key \in Keys : p \in {Property(key, value) : value \in ValuesOf(key)}
    BY <1>1 DEF SetProperties
  <2>2. PICK value \in ValuesOf(key) : p = [key |-> key, value |-> value]
    BY <2>1 DEF Property
  <2> QED BY <2>2
<1>2. CASE p \in UnsetProperties
  BY <1>2 DEF UnsetProperties, Property
<1> QED BY <1>1, <1>2 DEF Properties

\* The steps of one request leave the others alone, or tell them that the settings have changed.
LEMMA JobMoves ==
  ASSUME Types, NEW w \in Workers, NEW j, JobOK(j), job' = [job EXCEPT ![w] = j]
  PROVE  /\ job' = [v \in Workers |-> job'[v]] /\ (\A v \in Workers : JobOK(job'[v]))
         /\ job'[w] = j /\ (\A v \in Workers : v # w => job'[v] = job[v])
<1>1. /\ job' = [v \in Workers |-> job'[v]] /\ job'[w] = j
      /\ \A v \in Workers : v # w => job'[v] = job[v]
  BY DEF Types
<1> QED BY <1>1 DEF Types

\* A request that has been told so is as it was.
LEMMA JobTold ==
  ASSUME NEW j, JobOK(j), NEW k,
         k = [do |-> j.do, at |-> j.at, todo |-> j.todo, asked |-> j.asked, got |-> j.got,
              failed |-> j.failed, quiet |-> FALSE]
  PROVE  JobOK(k)
BY DEF JobOK

\* They tell them where they store something.
LEMMA JobDisturbs ==
  ASSUME Types, NEW w \in Workers, NEW j, JobOK(j),
         job' = Disturbed(w, [job EXCEPT ![w] = j])
  PROVE  /\ job' = [v \in Workers |-> job'[v]] /\ (\A v \in Workers : JobOK(job'[v]))
         /\ job'[w] = j
         /\ \A v \in Workers : v # w => /\ job[v].do = "idle" \/ ~job'[v].quiet
                                        /\ job'[v].do = job[v].do
                                        /\ job'[v].at = job[v].at /\ job'[v].asked = job[v].asked
<1> DEFINE jobs == [job EXCEPT ![w] = j]
<1>1. jobs[w] = j /\ \A v \in Workers : v # w => jobs[v] = job[v]
  BY DEF Types
<1> HIDE DEF jobs
<1>2. /\ job' = [v \in Workers |-> job'[v]] /\ job'[w] = j
      /\ \A v \in Workers : v # w =>
           IF job[v].do = "idle" THEN job'[v] = job[v] ELSE job'[v] = [job[v] EXCEPT !.quiet = FALSE]
  BY <1>1 DEF Disturbed, jobs
<1>3. ASSUME NEW v \in Workers, v # w
      PROVE  /\ JobOK(job'[v]) /\ (job[v].do = "idle" \/ ~job'[v].quiet) /\ job'[v].do = job[v].do
             /\ job'[v].at = job[v].at /\ job'[v].asked = job[v].asked
  <2>1. /\ job[v] = [do |-> job[v].do, at |-> job[v].at, todo |-> job[v].todo, asked |-> job[v].asked,
                     got |-> job[v].got, failed |-> job[v].failed, quiet |-> job[v].quiet]
        /\ JobOK(job[v])
    BY <1>3 DEF Types, JobOK
  <2>2. CASE job[v].do = "idle"
    BY <1>2, <1>3, <2>1, <2>2
  <2>3. CASE job[v].do # "idle"
    <3>1. job'[v] = [job[v] EXCEPT !.quiet = FALSE]
      BY <1>2, <1>3, <2>3
    <3>2. job'[v] = [do |-> job[v].do, at |-> job[v].at, todo |-> job[v].todo, asked |-> job[v].asked,
                     got |-> job[v].got, failed |-> job[v].failed, quiet |-> FALSE]
      BY <2>1, <3>1
    <3>3. job'[v].quiet = FALSE /\ job'[v].do = job[v].do /\ job'[v].at = job[v].at /\ job'[v].asked = job[v].asked
      BY <3>2
    <3>4. JobOK(job'[v])
      BY <2>1, <3>2, JobTold
    <3> QED BY <3>3, <3>4
  <2> QED BY <2>2, <2>3
<1> QED BY <1>2, <1>3

\* The fields of a request.
Fields(j, do, at, todo, asked, got, failed, quiet) ==
  /\ j = [do |-> j.do, at |-> j.at, todo |-> j.todo, asked |-> j.asked, got |-> j.got,
          failed |-> j.failed, quiet |-> j.quiet]
  /\ j.do = do /\ j.at = at /\ j.todo = todo /\ j.asked = asked /\ j.got = got
  /\ j.failed = failed /\ j.quiet = quiet

\* A request that goes on to something else.
LEMMA FieldsDone ==
  ASSUME NEW j, j = [do |-> j.do, at |-> j.at, todo |-> j.todo, asked |-> j.asked, got |-> j.got,
                     failed |-> j.failed, quiet |-> j.quiet],
         NEW at0, NEW todo0, NEW r, r = [j EXCEPT !.todo = todo0, !.at = at0]
  PROVE  Fields(r, j.do, at0, todo0, j.asked, j.got, j.failed, j.quiet)
<1>1. r = [do |-> r.do, at |-> r.at, todo |-> r.todo, asked |-> r.asked, got |-> r.got,
           failed |-> r.failed, quiet |-> r.quiet]
  OBVIOUS
<1>2. /\ r.do = j.do /\ r.at = at0 /\ r.todo = todo0 /\ r.asked = j.asked /\ r.got = j.got
      /\ r.failed = j.failed /\ r.quiet = j.quiet
  OBVIOUS
<1> QED BY <1>1, <1>2 DEF Fields

\* One that is somewhere else.
LEMMA FieldAt ==
  ASSUME NEW j, j = [do |-> j.do, at |-> j.at, todo |-> j.todo, asked |-> j.asked, got |-> j.got,
                     failed |-> j.failed, quiet |-> j.quiet],
         NEW at0, NEW r, r = [j EXCEPT !.at = at0]
  PROVE  Fields(r, j.do, at0, j.todo, j.asked, j.got, j.failed, j.quiet)
<1>1. r = [do |-> r.do, at |-> r.at, todo |-> r.todo, asked |-> r.asked, got |-> r.got,
           failed |-> r.failed, quiet |-> r.quiet]
  OBVIOUS
<1>2. /\ r.do = j.do /\ r.at = at0 /\ r.todo = j.todo /\ r.asked = j.asked /\ r.got = j.got
      /\ r.failed = j.failed /\ r.quiet = j.quiet
  OBVIOUS
<1> QED BY <1>1, <1>2 DEF Fields

\* One that has failed.
LEMMA FieldFailed ==
  ASSUME NEW j, j = [do |-> j.do, at |-> j.at, todo |-> j.todo, asked |-> j.asked, got |-> j.got,
                     failed |-> j.failed, quiet |-> j.quiet],
         NEW r, r = [j EXCEPT !.failed = TRUE]
  PROVE  Fields(r, j.do, j.at, j.todo, j.asked, j.got, TRUE, j.quiet)
<1>1. r = [do |-> r.do, at |-> r.at, todo |-> r.todo, asked |-> r.asked, got |-> r.got,
           failed |-> r.failed, quiet |-> r.quiet]
  OBVIOUS
<1>2. /\ r.do = j.do /\ r.at = j.at /\ r.todo = j.todo /\ r.asked = j.asked /\ r.got = j.got
      /\ r.failed = TRUE /\ r.quiet = j.quiet
  OBVIOUS
<1> QED BY <1>1, <1>2 DEF Fields

\* One that has read something.
LEMMA FieldGot ==
  ASSUME NEW j, j = [do |-> j.do, at |-> j.at, todo |-> j.todo, asked |-> j.asked, got |-> j.got,
                     failed |-> j.failed, quiet |-> j.quiet],
         NEW got0, NEW r, r = [j EXCEPT !.got = got0]
  PROVE  Fields(r, j.do, j.at, j.todo, j.asked, got0, j.failed, j.quiet)
<1>1. r = [do |-> r.do, at |-> r.at, todo |-> r.todo, asked |-> r.asked, got |-> r.got,
           failed |-> r.failed, quiet |-> r.quiet]
  OBVIOUS
<1>2. /\ r.do = j.do /\ r.at = j.at /\ r.todo = j.todo /\ r.asked = j.asked /\ r.got = got0
      /\ r.failed = j.failed /\ r.quiet = j.quiet
  OBVIOUS
<1> QED BY <1>1, <1>2 DEF Fields

\* One whose fields are all given.
LEMMA FieldsGiven ==
  ASSUME NEW do0, NEW at0, NEW todo0, NEW asked0, NEW got0, NEW failed0, NEW quiet0, NEW r,
         r = [do |-> do0, at |-> at0, todo |-> todo0, asked |-> asked0, got |-> got0,
              failed |-> failed0, quiet |-> quiet0]
  PROVE  Fields(r, do0, at0, todo0, asked0, got0, failed0, quiet0)
BY DEF Fields

\* A request as it is made.
LEMMA NewRequest ==
  ASSUME NEW kind, NEW asked, NEW j,
         j = [Idle EXCEPT !.do = kind, !.asked = asked, !.at = "register", !.todo = Registered]
  PROVE  Fields(j, kind, "register", Registered, asked, Nothing, FALSE, TRUE)
<1>1. j = [do |-> kind, at |-> "register", todo |-> Registered, asked |-> asked, got |-> Nothing,
           failed |-> FALSE, quiet |-> TRUE]
  BY DEF Idle
<1> QED BY <1>1, FieldsGiven

\* The value of a setting depends on what is stored and on the defaults of the process.
LEMMA GetKept ==
  ASSUME NEW v \in Workers, UNCHANGED stored, NEW key,
         key \in Sized => defaults'[v][key] = defaults[v][key]
  PROVE  Get(v, key)' = Get(v, key) /\ GetPreset' = GetPreset
<1>1. defaultValue(v, key)' = defaultValue(v, key)
  BY DEF defaultValue
<1> QED BY <1>1 DEF Get, GetPreset, secretAccessible

\* A request that nobody disturbs keeps what it knows, also when another handler of its
\* process registers the settings anew.
LEMMA OthersKnow ==
  ASSUME ReadsInv, NEW v \in Workers, job'[v] = job[v], UNCHANGED stored,
         \A key \in Sized :
           defaults'[v][key] = defaults[v][key] \/ (v \in Daemon /\ DefaultIsCurrent(v, key)')
  PROVE  GetKnows(v)' /\ StartKnows(v)'
<1>1. GetPreset' = GetPreset
  BY DEF GetPreset
<1>2. \A key \in Sized :
        DefaultIsCurrent(v, key) => DefaultIsCurrent(v, key)' /\ defaults'[v][key] = defaults[v][key]
  BY <1>1 DEF DefaultIsCurrent, Minimum
<1>3. GetKnows(v)'
  BY <1>2, GetKept DEF ReadsInv, GetKnows, HasKey
<1>4. StartKnows(v)'
  BY <1>1, GetKept DEF ReadsInv, StartKnows, HasKey, validateSize, ValidateCPUs, ValidateMemory
<1> QED BY <1>3, <1>4

\* A step of one request that stores nothing keeps what the others know.
LEMMA ReadsStay ==
  ASSUME ReadsInv, NEW w \in Workers, NEW j, JobOK(j), job' = [job EXCEPT ![w] = j],
         UNCHANGED <<stored, defaults>>, faults' \in 0..MaxFaults
  PROVE  /\ Types' /\ job'[w] = j
         /\ \A v \in Workers : v # w => GetKnows(v)' /\ StartKnows(v)'
<1>1. /\ job' = [v \in Workers |-> job'[v]] /\ (\A v \in Workers : JobOK(job'[v]))
      /\ job'[w] = j /\ (\A v \in Workers : v # w => job'[v] = job[v])
  BY JobMoves DEF ReadsInv
<1>2. \A v \in Workers : v # w => GetKnows(v)' /\ StartKnows(v)'
  BY <1>1, OthersKnow
<1>3. Types'
  BY <1>1 DEF ReadsInv, Types, DefaultsOK
<1> QED BY <1>1, <1>2, <1>3

\* What a request may go on to.
LEMMA GotoJob ==
  ASSUME Types, NEW w \in Workers, NEW at0 \in Places, NEW todo0 \in Seq(Properties),
         at0 # "store"
  PROVE  /\ Fields(Goto(w, at0, todo0), job[w].do, at0, todo0, job[w].asked, job[w].got,
                   job[w].failed, job[w].quiet)
         /\ JobOK(Goto(w, at0, todo0))
<1>1. JobOK(job[w])
  BY DEF Types
<1>2. Fields(Goto(w, at0, todo0), job[w].do, at0, todo0, job[w].asked, job[w].got,
             job[w].failed, job[w].quiet)
  BY <1>1, FieldsDone DEF JobOK, Goto
<1> QED BY <1>1, <1>2 DEF JobOK, Fields

\* A request that begins knows nothing yet.
LEMMA ReadsRequests ==
  ASSUME ReadsInv, NEW w \in Workers, NEW kind \in Kinds, NEW asked \in Seq(Properties),
         Request(w, kind, asked)
  PROVE  ReadsInv'
<1> DEFINE j == [Idle EXCEPT !.do = kind, !.asked = asked, !.at = "register", !.todo = Registered]
<1>1. job' = [job EXCEPT ![w] = j] /\ UNCHANGED <<stored, defaults, faults>>
  BY DEF Request
<1>2. Fields(j, kind, "register", Registered, asked, Nothing, FALSE, TRUE)
  BY NewRequest
<1> HIDE DEF j
<1>3. JobOK(j)
  BY <1>2, PlansProperties DEF Fields, JobOK, Places, Nothing
<1>4. /\ Types' /\ job'[w] = j
      /\ \A v \in Workers : v # w => GetKnows(v)' /\ StartKnows(v)'
  BY <1>1, <1>3, ReadsStay DEF ReadsInv, Types
<1>5. GetKnows(w)' /\ StartKnows(w)'
  BY <1>2, <1>4, PlansProperties DEF Fields, GetKnows, StartKnows
<1> QED BY <1>4, <1>5 DEF ReadsInv

\* Once the settings are registered, the defaults are those of the preset.
LEMMA ReadsWorks ==
  ASSUME ReadsInv, NEW w \in Workers, Work(w)
  PROVE  ReadsInv'
<1>1. PICK plan \in Plans(w) :
        job' = [job EXCEPT ![w] = Goto(w, plan.at, plan.todo)]
  BY DEF Work
<1>2. /\ UNCHANGED <<stored, defaults, faults>> /\ JobOK(job[w]) /\ job[w].at = "register"
      /\ job[w].do # "idle" /\ (Registers(w) => job[w].todo = <<>>)
  BY DEF Work, At, ReadsInv, Types
<1>3. \/ job[w].do = "start" /\ w \notin Daemon /\ plan.at = "validate" /\ plan.todo = Validated
      \/ job[w].do = "start" /\ w \in Daemon /\ plan.at = "read" /\ plan.todo = StartReads(w)
      \/ job[w].do = "get" /\ plan.at = "read" /\ plan.todo \in ConfigReads
      \/ job[w].do \notin {"start", "get"} /\ plan.at = "check" /\ plan.todo = job[w].asked
  BY DEF Plans
<1>a. Assumptions
  BY DEF ReadsInv, Types
<1>4. plan.at \in Places /\ plan.at # "store" /\ plan.todo \in Seq(Properties)
  BY <1>2, <1>3, <1>a, PlansProperties, StartReadsProperties, ConfigReadsProperties DEF Places, JobOK
<1> DEFINE j == Goto(w, plan.at, plan.todo)
<1>5. /\ Fields(j, job[w].do, plan.at, plan.todo, job[w].asked, job[w].got, job[w].failed, job[w].quiet)
      /\ JobOK(j)
  BY <1>4, GotoJob DEF ReadsInv
<1> HIDE DEF j
<1>6. /\ Types' /\ job'[w] = j
      /\ \A v \in Workers : v # w => GetKnows(v)' /\ StartKnows(v)'
  BY <1>1, <1>2, <1>5, ReadsStay DEF ReadsInv, Types, j
<1>7. GetKnows(w)'
  <2>1. SUFFICES ASSUME job[w].do = "get", job[w].quiet PROVE GetKnows(w)'
    BY <1>5, <1>6 DEF Fields, GetKnows
  <2>2. \A key \in Sized : DefaultIsCurrent(w, key)
    BY <1>2, <2>1 DEF ReadsInv, GetKnows, HasKey, Registers
  <2>3. \A key \in Sized : DefaultIsCurrent(w, key)'
    BY <1>2, <2>2 DEF DefaultIsCurrent, Minimum, GetPreset
  <2>4. j.at = "read" /\ \A key \in Keys : HasKey(j.todo, key)
    BY <1>3, <1>5, <1>a, <2>1, ConfigReadsProperties DEF Fields
  <2> QED BY <1>6, <2>3, <2>4 DEF GetKnows
<1>8. StartKnows(w)'
  <2>1. SUFFICES ASSUME job[w].do = "start", w \notin Daemon PROVE StartKnows(w)'
    BY <1>5, <1>6 DEF Fields, StartKnows
  <2>2. j.at = "validate" /\ \A key \in Sized : HasKey(j.todo, key)
    BY <1>3, <1>5, <2>1, PlansProperties DEF Fields
  <2> QED BY <1>6, <2>2 DEF StartKnows
<1> QED BY <1>6, <1>7, <1>8 DEF ReadsInv

\* Registering makes the default of one setting the one of the preset.
LEMMA ReadsRegisters ==
  ASSUME ReadsInv, NEW w \in Workers, RegisterSettings(w)
  PROVE  ReadsInv'
<1> DEFINE key == Head(job[w].todo).key
           m == Minimum(key, GetPreset)
           j == Goto(w, "register", Tail(job[w].todo))
<1>1. /\ job[w].do # "idle" /\ job[w].at = "register" /\ job[w].todo # <<>>
      /\ defaults' = [v \in Workers |-> IF v \in SameProcess(w)
                                        THEN [defaults[v] EXCEPT ![key] = m] ELSE defaults[v]]
      /\ job' = [job EXCEPT ![w] = j] /\ UNCHANGED <<stored, faults>>
  BY DEF RegisterSettings, At, Current, OneDone
<1>2. Types /\ JobOK(job[w]) /\ job[w].todo \in Seq(Properties)
  BY DEF ReadsInv, Types, JobOK
<1>3. /\ Tail(job[w].todo) \in Seq(Properties)
      /\ \A k : HasKey(job[w].todo, k) => k = key \/ HasKey(Tail(job[w].todo), k)
  BY <1>1, <1>2, TailKeys
<1>4. /\ Fields(j, job[w].do, "register", Tail(job[w].todo), job[w].asked, job[w].got,
                job[w].failed, job[w].quiet)
      /\ JobOK(j)
  BY <1>3, GotoJob DEF Places, ReadsInv
<1>5. m \in Nat /\ \E p \in Presets : m = Minimum(key, p)
  BY DEF Minimum, GetDefaultCPUs, GetDefaultMemory, Presets
<1>6. GetPreset' = GetPreset
  BY <1>1 DEF GetPreset
<1> HIDE DEF j
<1>7. /\ job' = [v \in Workers |-> job'[v]] /\ (\A v \in Workers : JobOK(job'[v]))
      /\ job'[w] = j /\ (\A v \in Workers : v # w => job'[v] = job[v])
  BY <1>1, <1>2, <1>4, JobMoves
<1>8. /\ defaults' \in [Workers -> [Sized -> Nat]]
      /\ \A v \in Workers, k \in Sized :
           defaults'[v][k] = IF v \in SameProcess(w) /\ k = key THEN m ELSE defaults[v][k]
  <2> HIDE DEF m, key
  <2>1. ASSUME NEW v \in Workers
        PROVE  /\ defaults'[v] \in [Sized -> Nat]
               /\ \A k \in Sized :
                    defaults'[v][k] = IF v \in SameProcess(w) /\ k = key THEN m ELSE defaults[v][k]
    <3>1. defaults[v] \in [Sized -> Nat]
      BY <1>2 DEF Types, DefaultsOK
    <3>2. defaults'[v] = IF v \in SameProcess(w) THEN [defaults[v] EXCEPT ![key] = m] ELSE defaults[v]
      BY <1>1
    <3> QED BY <3>1, <3>2, <1>5
  <2>2. defaults' = [v \in Workers |-> defaults'[v]]
    BY <1>1
  <2> QED BY <2>1, <2>2
<1>9. \A k \in Sized : k = key => m = Minimum(k, GetPreset')
  BY <1>6
<1> HIDE DEF m, key
<1>10. \A v \in Workers, k \in Sized :
         defaults'[v][k] \in {Minimum(k, p) : p \in Presets}
  <2>1. \A k \in Sized : k = key => m \in {Minimum(k, p) : p \in Presets}
    BY <1>5
  <2>2. ASSUME NEW v \in Workers, NEW k \in Sized
        PROVE  defaults'[v][k] \in {Minimum(k, p) : p \in Presets}
    <3>1. defaults[v][k] \in {Minimum(k, p) : p \in Presets}
      BY <1>2 DEF Types, DefaultsOK
    <3>2. \/ defaults'[v][k] = defaults[v][k]
          \/ k = key /\ defaults'[v][k] = m
      BY <1>8
    <3> QED BY <2>1, <3>1, <3>2
  <2> QED BY <2>2
<1>11. Types'
  BY <1>1, <1>2, <1>7, <1>8, <1>10 DEF Types, DefaultsOK
<1>12. \A v \in SameProcess(w) \cap Workers : \A k \in Sized : k = key => DefaultIsCurrent(v, k)'
  BY <1>8, <1>9 DEF DefaultIsCurrent
<1>13. ASSUME NEW v \in Workers, v # w PROVE GetKnows(v)' /\ StartKnows(v)'
  <2>1. job'[v] = job[v]
    BY <1>7, <1>13
  <2>2. ASSUME NEW k \in Sized
        PROVE  defaults'[v][k] = defaults[v][k] \/ (v \in Daemon /\ DefaultIsCurrent(v, k)')
    <3>1. CASE v \in SameProcess(w) /\ k = key
      BY <1>12, <1>13, <3>1 DEF SameProcess
    <3>2. CASE ~(v \in SameProcess(w) /\ k = key)
      BY <1>8, <3>2
    <3> QED BY <3>1, <3>2
  <2> QED BY <1>1, <2>1, <2>2, OthersKnow
<1>14. GetKnows(w)'
  <2>1. SUFFICES ASSUME job[w].do = "get", job[w].quiet PROVE GetKnows(w)'
    BY <1>4, <1>7 DEF Fields, GetKnows
  <2>2. \A k \in Sized : HasKey(job[w].todo, k) \/ DefaultIsCurrent(w, k)
    BY <1>1, <2>1 DEF ReadsInv, GetKnows
  <2>3. w \in SameProcess(w)
    BY DEF SameProcess
  <2>4. ASSUME NEW k \in Sized PROVE HasKey(j.todo, k) \/ DefaultIsCurrent(w, k)'
    <3>1. CASE k = key
      BY <1>12, <2>3, <3>1
    <3>2. CASE k # key /\ HasKey(job[w].todo, k)
      BY <1>3, <1>4, <3>2 DEF Fields
    <3>3. CASE k # key /\ DefaultIsCurrent(w, k)
      BY <1>6, <1>8, <3>3 DEF DefaultIsCurrent
    <3> QED BY <2>2, <3>1, <3>2, <3>3
  <2>5. j.at = "register"
    BY <1>4 DEF Fields
  <2> QED BY <1>7, <2>4, <2>5 DEF GetKnows
<1>15. StartKnows(w)'
  BY <1>4, <1>7 DEF Fields, StartKnows
<1> QED BY <1>11, <1>13, <1>14, <1>15 DEF ReadsInv

\* A request that is rejected is none that reads.
LEMMA ReadsRejects ==
  ASSUME ReadsInv, NEW w \in Workers, job[w].at \in {"check", "store"}, job[w].todo # <<>>,
         Rejected(w), UNCHANGED <<stored, defaults>>, faults' \in 0..MaxFaults
  PROVE  ReadsInv'
<1> DEFINE i == Goto(w, "check", Tail(job[w].todo))
           j == [i EXCEPT !.failed = TRUE]
<1>1. job' = [job EXCEPT ![w] = j]
  BY DEF Rejected, OneDone
<1>2. JobOK(job[w]) /\ job[w].todo \in Seq(Properties)
  BY DEF ReadsInv, Types, JobOK
<1>3. Tail(job[w].todo) \in Seq(Properties)
  BY <1>2, TailKeys
<1>4. /\ Fields(i, job[w].do, "check", Tail(job[w].todo), job[w].asked, job[w].got,
                job[w].failed, job[w].quiet)
      /\ JobOK(i)
  BY <1>3, GotoJob DEF Places, ReadsInv
<1>a. j = [i EXCEPT !.failed = TRUE]
  OBVIOUS
<1> HIDE DEF i, j
<1>b. i = [do |-> i.do, at |-> i.at, todo |-> i.todo, asked |-> i.asked, got |-> i.got,
           failed |-> i.failed, quiet |-> i.quiet]
  BY <1>4 DEF JobOK
<1>5. Fields(j, i.do, i.at, i.todo, i.asked, i.got, TRUE, i.quiet)
  BY <1>a, <1>b, FieldFailed
<1>6. JobOK(j)
  BY <1>4, <1>5 DEF JobOK, Fields
<1>7. /\ Types' /\ job'[w] = j
      /\ \A v \in Workers : v # w => GetKnows(v)' /\ StartKnows(v)'
  BY <1>1, <1>6, ReadsStay
<1>8. j.do = job[w].do /\ j.quiet = job[w].quiet
  BY <1>4, <1>5 DEF Fields
<1>9. GetKnows(w)'
  <2>1. ~(job[w].do = "get" /\ job[w].quiet)
    BY DEF ReadsInv, GetKnows
  <2> QED BY <1>7, <1>8, <2>1 DEF GetKnows
<1>10. StartKnows(w)'
  <2>1. ~(w \notin Daemon /\ job[w].do = "start" /\ job[w].quiet)
    BY DEF ReadsInv, StartKnows
  <2> QED BY <1>7, <1>8, <2>1 DEF StartKnows
<1> QED BY <1>7, <1>9, <1>10 DEF ReadsInv

\* Nor is one that is validated,
LEMMA ReadsValidates ==
  ASSUME ReadsInv, NEW w \in Workers, Validate(w)
  PROVE  ReadsInv'
<1>1. CASE Rejected(w)
  BY <1>1, ReadsRejects DEF Validate, At, ReadsInv, Types
<1>2. CASE job' = [job EXCEPT ![w] = [job[w] EXCEPT !.at = "store"]]
  <2> DEFINE j == [job[w] EXCEPT !.at = "store"]
  <2>1. /\ job[w].at = "check" /\ job[w].todo # <<>> /\ UNCHANGED <<stored, defaults, faults>>
        /\ job[w].do # "idle" /\ JobOK(job[w]) /\ job' = [job EXCEPT ![w] = j]
    BY <1>2 DEF Validate, At, ReadsInv, Types
  <2>2. Fields(j, job[w].do, "store", job[w].todo, job[w].asked, job[w].got, job[w].failed, job[w].quiet)
    BY <2>1, FieldAt DEF JobOK
  <2> HIDE DEF j
  <2>3. JobOK(j)
    BY <2>1, <2>2 DEF JobOK, Fields, Places
  <2>4. /\ Types' /\ job'[w] = j
        /\ \A v \in Workers : v # w => GetKnows(v)' /\ StartKnows(v)'
    BY <2>1, <2>3, ReadsStay DEF ReadsInv, Types
  <2>5. j.do = job[w].do /\ j.quiet = job[w].quiet
    BY <2>2 DEF Fields
  <2>6. GetKnows(w)'
    <3>1. ~(job[w].do = "get" /\ job[w].quiet)
      BY <2>1 DEF ReadsInv, GetKnows
    <3> QED BY <2>4, <2>5, <3>1 DEF GetKnows
  <2>7. StartKnows(w)'
    <3>1. ~(w \notin Daemon /\ job[w].do = "start" /\ job[w].quiet)
      BY <2>1 DEF ReadsInv, StartKnows
    <3> QED BY <2>4, <2>5, <3>1 DEF StartKnows
  <2> QED BY <2>4, <2>6, <2>7 DEF ReadsInv
<1> QED BY <1>1, <1>2 DEF Validate

\* and one that stores something disturbs all others.
LEMMA ReadsStores ==
  ASSUME ReadsInv, NEW w \in Workers, Store(w)
  PROVE  ReadsInv'
<1>1. /\ job[w].at = "store" /\ job[w].do # "idle" /\ job[w].todo # <<>> /\ UNCHANGED defaults
      /\ Types /\ JobOK(job[w]) /\ job[w].todo \in Seq(Properties)
  BY DEF Store, At, ReadsInv, Types, JobOK
<1>2. CASE Rejected(w) /\ UNCHANGED stored
  <2>1. faults' \in 0..MaxFaults
    BY DEF Store, ReadsInv, Types, Assumptions
  <2> QED BY <1>1, <1>2, <2>1, ReadsRejects
<1>3. CASE /\ stored' = [stored EXCEPT ![Head(job[w].todo).key] = Head(job[w].todo).value]
           /\ job' = Disturbed(w, [job EXCEPT ![w] = Goto(w, "check", Tail(job[w].todo))])
           /\ UNCHANGED faults
  <2> DEFINE j == Goto(w, "check", Tail(job[w].todo))
             p == Head(job[w].todo)
  <2>1. Tail(job[w].todo) \in Seq(Properties) /\ p \in Properties
    BY <1>1, TailKeys
  <2>2. /\ Fields(j, job[w].do, "check", Tail(job[w].todo), job[w].asked, job[w].got,
                  job[w].failed, job[w].quiet)
        /\ JobOK(j)
    BY <2>1, GotoJob DEF Places, ReadsInv
  <2> HIDE DEF j, p
  <2>3. /\ job' = [v \in Workers |-> job'[v]] /\ (\A v \in Workers : JobOK(job'[v]))
        /\ job'[w] = j
        /\ \A v \in Workers : v # w => /\ job[v].do = "idle" \/ ~job'[v].quiet
                                       /\ job'[v].do = job[v].do
                                       /\ job'[v].at = job[v].at /\ job'[v].asked = job[v].asked
    BY <1>1, <1>3, <2>2, JobDisturbs DEF j
  <2>4. p.key \in Keys /\ p.value \in ValuesOf(p.key) \cup {NoValue}
    BY <2>1, PropertyValues
  <2>5. /\ stored' = [key \in Keys |-> stored'[key]]
        /\ \A key \in Keys : stored'[key] \in ValuesOf(key) \cup {NoValue}
    BY <1>1, <1>3, <2>4 DEF Types, p
  <2>6. Types'
    BY <1>1, <1>3, <2>3, <2>5 DEF Types, DefaultsOK
  <2>7. \A v \in Workers : v # w => GetKnows(v)' /\ StartKnows(v)'
    BY <2>3 DEF GetKnows, StartKnows
  <2>8. j.do = job[w].do /\ j.quiet = job[w].quiet
    BY <2>2 DEF Fields
  <2>9. GetKnows(w)'
    <3>1. ~(job[w].do = "get" /\ job[w].quiet)
      BY <1>1 DEF ReadsInv, GetKnows
    <3> QED BY <2>3, <2>8, <3>1 DEF GetKnows
  <2>10. StartKnows(w)'
    <3>1. ~(w \notin Daemon /\ job[w].do = "start" /\ job[w].quiet)
      BY <1>1 DEF ReadsInv, StartKnows
    <3> QED BY <2>3, <2>8, <3>1 DEF StartKnows
  <2> QED BY <2>6, <2>7, <2>9, <2>10 DEF ReadsInv
<1> QED BY <1>2, <1>3 DEF Store, OneDone, Current

\* Of a step that changes one request and nothing else, what the others see and what its own
\* process sees stays.
LEMMA SameKnown ==
  ASSUME NEW w \in Workers, UNCHANGED <<stored, defaults>>
  PROVE  \A key : /\ Get(w, key)' = Get(w, key)
                  /\ validateSize(key, Get(w, key))' = validateSize(key, Get(w, key))
                  /\ DefaultIsCurrent(w, key)' = DefaultIsCurrent(w, key)
<1>1. TAKE key
<1>2. Get(w, key)' = Get(w, key) /\ GetPreset' = GetPreset
  BY GetKept
<1>3. validateSize(key, Get(w, key))' = validateSize(key, Get(w, key))
  BY <1>2, Zenon DEF validateSize, ValidateCPUs, ValidateMemory,
     GetDefaultCPUs, GetDefaultMemory
<1>4. DefaultIsCurrent(w, key)' = DefaultIsCurrent(w, key)
  BY <1>2, Zenon DEF DefaultIsCurrent, Minimum, GetDefaultCPUs, GetDefaultMemory
<1> QED BY <1>2, <1>3, <1>4

\* What a start has validated is within its bounds.
LEMMA ReadsCheck ==
  ASSUME ReadsInv, NEW w \in Workers, validateStartFlags(w)
  PROVE  ReadsInv'
<1>1. /\ job[w].at = "validate" /\ job[w].do # "idle" /\ UNCHANGED <<stored, defaults, faults>>
      /\ Types /\ JobOK(job[w]) /\ job[w].todo \in Seq(Properties)
  BY DEF validateStartFlags, At, ReadsInv, Types, JobOK
<1>2. ~(job[w].do = "get" /\ job[w].quiet)
  BY <1>1 DEF ReadsInv, GetKnows
<1>3. w \notin Daemon /\ job[w].do = "start" /\ job[w].quiet =>
        \A key \in Sized :
          HasKey(job[w].todo, key) \/ validateSize(key, Get(w, key))
  BY <1>1 DEF ReadsInv, StartKnows
<1>4. CASE job[w].todo = <<>> /\ job' = [job EXCEPT ![w] = Goto(w, "read", StartReads(w))]
  <2> DEFINE j == Goto(w, "read", StartReads(w))
  <2>1. /\ Fields(j, job[w].do, "read", StartReads(w), job[w].asked, job[w].got,
                  job[w].failed, job[w].quiet)
        /\ JobOK(j)
    BY StartReadsProperties, GotoJob DEF Places, ReadsInv
  <2> HIDE DEF j
  <2>2. /\ Types' /\ job'[w] = j
        /\ \A v \in Workers : v # w => GetKnows(v)' /\ StartKnows(v)'
    BY <1>1, <1>4, <2>1, ReadsStay DEF j, Types
  <2>3. GetKnows(w)'
    BY <1>2, <2>1, <2>2 DEF GetKnows, Fields
  <2>4. StartKnows(w)'
    <3>1. SUFFICES ASSUME w \notin Daemon /\ job[w].do = "start" /\ job[w].quiet PROVE StartKnows(w)'
      BY <2>1, <2>2 DEF StartKnows, Fields
    <3>2. \A key \in Sized : validateSize(key, Get(w, key))'
      BY <1>1, <1>3, <1>4, <3>1, SameKnown, SMT, SMTT(60) DEF HasKey
    <3>3. /\ j.at = "read"
          /\ \A key \in Keys \cap {"cpus", "memory", "preset"} : HasKey(j.todo, key)
      BY <2>1, StartReadsProperties DEF Fields
    <3> QED BY <2>2, <3>2, <3>3 DEF StartKnows
  <2> QED BY <2>2, <2>3, <2>4 DEF ReadsInv
<1>5. CASE /\ job[w].todo # <<>>
           /\ validateSize(Head(job[w].todo).key, Get(w, Head(job[w].todo).key))
           /\ job' = [job EXCEPT ![w] = Goto(w, "validate", Tail(job[w].todo))]
  <2> DEFINE j == Goto(w, "validate", Tail(job[w].todo))
  <2>1. /\ Tail(job[w].todo) \in Seq(Properties)
        /\ \A k : HasKey(job[w].todo, k) => k = Head(job[w].todo).key \/ HasKey(Tail(job[w].todo), k)
    BY <1>1, <1>5, TailKeys
  <2>2. /\ Fields(j, job[w].do, "validate", Tail(job[w].todo), job[w].asked, job[w].got,
                  job[w].failed, job[w].quiet)
        /\ JobOK(j)
    BY <2>1, GotoJob DEF Places, ReadsInv
  <2> HIDE DEF j
  <2>3. /\ Types' /\ job'[w] = j
        /\ \A v \in Workers : v # w => GetKnows(v)' /\ StartKnows(v)'
    BY <1>1, <1>5, <2>2, ReadsStay DEF j, Types
  <2>4. GetKnows(w)'
    BY <1>2, <2>2, <2>3 DEF GetKnows, Fields
  <2>5. StartKnows(w)'
    <3>1. SUFFICES ASSUME w \notin Daemon /\ job[w].do = "start" /\ job[w].quiet PROVE StartKnows(w)'
      BY <2>2, <2>3 DEF StartKnows, Fields
    <3>2. \A key \in Sized :
            HasKey(Tail(job[w].todo), key) \/ validateSize(key, Get(w, key))
      BY <1>3, <1>5, <2>1, <3>1
    <3>3. \A key \in Sized :
            HasKey(Tail(job[w].todo), key) \/ validateSize(key, Get(w, key))'
      BY <1>1, <3>2, SameKnown
    <3>4. j.at = "validate" /\ j.todo = Tail(job[w].todo)
      BY <2>2 DEF Fields
    <3> QED BY <2>3, <3>3, <3>4 DEF StartKnows
  <2> QED BY <2>3, <2>4, <2>5 DEF ReadsInv
<1>6. CASE job' = [job EXCEPT ![w] = [Goto(w, "check", <<>>) EXCEPT !.failed = TRUE]]
  <2> DEFINE i == Goto(w, "check", <<>>)
             j == [i EXCEPT !.failed = TRUE]
  <2>1. /\ Fields(i, job[w].do, "check", <<>>, job[w].asked, job[w].got, job[w].failed, job[w].quiet)
        /\ JobOK(i)
    <3>1. <<>> \in Seq(Properties)
      OBVIOUS
    <3> QED BY <3>1, GotoJob DEF Places, ReadsInv
  <2>2. job' = [job EXCEPT ![w] = j] /\ j = [i EXCEPT !.failed = TRUE]
    BY <1>6
  <2> HIDE DEF i, j
  <2>3. i = [do |-> i.do, at |-> i.at, todo |-> i.todo, asked |-> i.asked, got |-> i.got,
             failed |-> i.failed, quiet |-> i.quiet]
    BY <2>1 DEF JobOK
  <2>4. Fields(j, i.do, i.at, i.todo, i.asked, i.got, TRUE, i.quiet)
    BY <2>2, <2>3, FieldFailed
  <2>5. JobOK(j)
    BY <2>1, <2>4 DEF JobOK, Fields
  <2>6. /\ Types' /\ job'[w] = j
        /\ \A v \in Workers : v # w => GetKnows(v)' /\ StartKnows(v)'
    BY <1>1, <2>2, <2>5, ReadsStay DEF Types
  <2>7. /\ j.do = job[w].do /\ j.quiet = job[w].quiet /\ j.at = "check" /\ j.failed
        /\ j.todo = <<>>
    BY <2>1, <2>4 DEF Fields
  <2>8. GetKnows(w)' /\ StartKnows(w)'
    BY <1>2, <2>6, <2>7 DEF GetKnows, StartKnows
  <2> QED BY <2>6, <2>8 DEF ReadsInv
<1> QED BY <1>4, <1>5, <1>6 DEF validateStartFlags, OneDone, Current

\* What is read is what is current.
LEMMA ReadsRead ==
  ASSUME ReadsInv, NEW w \in Workers, Read(w)
  PROVE  ReadsInv'
<1> DEFINE key == Head(job[w].todo).key
           i == Goto(w, "read", Tail(job[w].todo))
           got0 == [i.got EXCEPT ![key] = Get(w, key)]
           j == [i EXCEPT !.got = got0]
<1>1. /\ job[w].at = "read" /\ job[w].do # "idle" /\ job[w].todo # <<>> /\ UNCHANGED <<stored, defaults, faults>>
      /\ Types /\ JobOK(job[w]) /\ job[w].todo \in Seq(Properties)
  BY DEF Read, At, ReadsInv, Types, JobOK
<1>2. job' = [job EXCEPT ![w] = j] /\ j = [i EXCEPT !.got = got0]
  BY DEF Read, OneDone, Current
<1>3. /\ Tail(job[w].todo) \in Seq(Properties)
      /\ \A k : HasKey(job[w].todo, k) => k = key \/ HasKey(Tail(job[w].todo), k)
  BY <1>1, TailKeys
<1>4. /\ Fields(i, job[w].do, "read", Tail(job[w].todo), job[w].asked, job[w].got,
                job[w].failed, job[w].quiet)
      /\ JobOK(i)
  BY <1>3, GotoJob DEF Places, ReadsInv
<1> HIDE DEF i, j, got0, key
<1>5. i = [do |-> i.do, at |-> i.at, todo |-> i.todo, asked |-> i.asked, got |-> i.got,
           failed |-> i.failed, quiet |-> i.quiet]
  BY <1>4 DEF JobOK
<1>6. Fields(j, i.do, i.at, i.todo, i.asked, got0, i.failed, i.quiet)
  BY <1>2, <1>5, FieldGot
<1>7. i.got = job[w].got /\ i.got = [k \in Keys |-> i.got[k]]
  BY <1>4 DEF JobOK, Fields
<1>8. /\ got0 = [k \in Keys |-> got0[k]]
      /\ \A k \in Keys : got0[k] = IF k = key THEN Get(w, key) ELSE job[w].got[k]
  BY <1>7 DEF got0
<1>9. /\ j.do = job[w].do /\ j.at = "read" /\ j.todo = Tail(job[w].todo) /\ j.got = got0
      /\ j.quiet = job[w].quiet
  BY <1>4, <1>6 DEF Fields
<1>10. JobOK(j)
  BY <1>4, <1>6, <1>8 DEF JobOK, Fields
<1>11. /\ Types' /\ job'[w] = j
       /\ \A v \in Workers : v # w => GetKnows(v)' /\ StartKnows(v)'
  BY <1>1, <1>2, <1>10, ReadsStay DEF Types
<1>12. ASSUME NEW k \in Keys, HasKey(job[w].todo, k) \/ job[w].got[k] = Get(w, k)
       PROVE  HasKey(j.todo, k) \/ j.got[k] = Get(w, k)'
  <2>1. Get(w, k)' = Get(w, k)
    BY <1>1, SameKnown
  <2> QED BY <1>3, <1>8, <1>9, <1>12, <2>1
<1>13. GetKnows(w)'
  <2>1. SUFFICES ASSUME job[w].do = "get", job[w].quiet PROVE GetKnows(w)'
    BY <1>9, <1>11 DEF GetKnows
  <2>2. /\ \A k \in Sized : DefaultIsCurrent(w, k)
        /\ \A k \in Keys : HasKey(job[w].todo, k) \/ job[w].got[k] = Get(w, k)
    BY <1>1, <2>1 DEF ReadsInv, GetKnows
  <2>3. \A k \in Sized : DefaultIsCurrent(w, k)'
    BY <1>1, <2>2, SameKnown
  <2> QED BY <1>9, <1>11, <1>12, <2>2, <2>3 DEF GetKnows
<1>14. StartKnows(w)'
  <2>1. SUFFICES ASSUME w \notin Daemon, job[w].do = "start", job[w].quiet PROVE StartKnows(w)'
    BY <1>9, <1>11 DEF StartKnows
  <2>2. /\ \A k \in Sized : validateSize(k, Get(w, k))
        /\ \A k \in Keys \cap {"cpus", "memory", "preset"} :
             HasKey(job[w].todo, k) \/ job[w].got[k] = Get(w, k)
    BY <1>1, <2>1 DEF ReadsInv, StartKnows
  <2>3. \A k \in Sized : validateSize(k, Get(w, k))'
    BY <1>1, <2>2, SameKnown
  <2>4. \A k \in Keys \cap {"cpus", "memory", "preset"} :
          HasKey(j.todo, k) \/ j.got[k] = Get(w, k)'
    BY <1>12, <2>2
  <2> QED BY <1>9, <1>11, <2>3, <2>4 DEF StartKnows
<1> QED BY <1>11, <1>13, <1>14 DEF ReadsInv

\* No request.
LEMMA IdleJob ==
  JobOK(Idle) /\ Idle.do = "idle"
BY DEF JobOK, Idle, Nothing, Places

\* A request that has ended knows nothing more.
LEMMA ReadsReplies ==
  ASSUME ReadsInv, NEW w \in Workers, Reply(w)
  PROVE  ReadsInv'
<1>1. job' = [job EXCEPT ![w] = Idle] /\ UNCHANGED <<stored, defaults, faults>>
  BY DEF Reply
<1>2. /\ Types' /\ job'[w] = Idle
      /\ \A v \in Workers : v # w => GetKnows(v)' /\ StartKnows(v)'
  BY <1>1, IdleJob, ReadsStay DEF ReadsInv, Types
<1>3. GetKnows(w)' /\ StartKnows(w)'
  BY <1>2, IdleJob DEF GetKnows, StartKnows
<1> QED BY <1>2, <1>3 DEF ReadsInv

\* The requests there are.
LEMMA ReadsAsks ==
  ASSUME ReadsInv, NEW w \in Workers,
         SetConfig(w) \/ UnsetConfig(w) \/ GetConfig(w) \/ Start(w)
  PROVE  ReadsInv'
<1>1. /\ SetProperties \subseteq Properties
      /\ UnsetProperties \subseteq Properties
  BY DEF Properties
<1>0. \A kind, asked : Request(w, kind, asked) => kind \in Kinds
  BY DEF Request
<1>2. PICK kind \in Kinds, asked \in Seq(Properties) : Request(w, kind, asked)
  <2>1. CASE SetConfig(w)
    <3>1. CASE \E p \in SetProperties : Request(w, "set", <<p>>)
      <4>1. PICK p \in Properties : Request(w, "set", <<p>>)
        BY <1>1, <3>1
      <4>2. <<p>> \in Seq(Properties)
        OBVIOUS
      <4> QED BY <1>0, <4>1, <4>2
    <3>2. CASE \E p, q \in SetProperties : Request(w, "set", <<p, q>>)
      <4>1. PICK p \in Properties, q \in Properties : Request(w, "set", <<p, q>>)
        BY <1>1, <3>2
      <4>2. <<p, q>> \in Seq(Properties)
        OBVIOUS
      <4> QED BY <1>0, <4>1, <4>2
    <3> QED BY <2>1, <3>1, <3>2 DEF SetConfig
  <2>2. CASE UnsetConfig(w)
    <3>1. CASE \E p \in UnsetProperties : Request(w, "unset", <<p>>)
      <4>1. PICK p \in Properties : Request(w, "unset", <<p>>)
        BY <1>1, <3>1
      <4>2. <<p>> \in Seq(Properties)
        OBVIOUS
      <4> QED BY <1>0, <4>1, <4>2
    <3>2. CASE \E p, q \in UnsetProperties : Request(w, "unset", <<p, q>>)
      <4>1. PICK p \in Properties, q \in Properties : Request(w, "unset", <<p, q>>)
        BY <1>1, <3>2
      <4>2. <<p, q>> \in Seq(Properties)
        OBVIOUS
      <4> QED BY <1>0, <4>1, <4>2
    <3> QED BY <2>2, <3>1, <3>2 DEF UnsetConfig
  <2>3. <<>> \in Seq(Properties)
    OBVIOUS
  <2> QED BY <1>0, <2>1, <2>2, <2>3 DEF GetConfig, Start
<1> QED BY <1>2, ReadsRequests

\* Every step keeps what the requests know.
LEMMA ReadsSteps ==
  ASSUME ReadsInv, Next \/ UNCHANGED vars
  PROVE  ReadsInv'
<1>1. CASE UNCHANGED vars
  <2>1. UNCHANGED <<stored, defaults, job, faults>>
    BY <1>1 DEF vars
  <2>2. Types'
    BY <2>1 DEF ReadsInv, Types, DefaultsOK
  <2>3. \A v \in Workers : GetKnows(v)' /\ StartKnows(v)'
    BY <2>1, OthersKnow
  <2> QED BY <2>2, <2>3 DEF ReadsInv
<1>2. ASSUME NEW w \in Workers,
             \/ SetConfig(w) \/ UnsetConfig(w) \/ GetConfig(w) \/ Start(w)
             \/ RegisterSettings(w) \/ Work(w) \/ Validate(w) \/ Store(w)
             \/ validateStartFlags(w) \/ Read(w) \/ Reply(w)
      PROVE  ReadsInv'
  BY <1>2, ReadsAsks, ReadsRegisters, ReadsWorks, ReadsValidates, ReadsStores, ReadsCheck,
     ReadsRead, ReadsReplies
<1> QED BY <1>1, <1>2 DEF Next

\* There is no request at the beginning.
LEMMA ReadsBegins ==
  ASSUME Assumptions, Init
  PROVE  ReadsInv
<1>1. /\ job = [w \in Workers |-> Idle] /\ stored = [key \in Keys |-> NoValue]
      /\ defaults = [w \in Workers |-> [key \in Sized |-> Minimum(key, "openshift")]]
      /\ faults = 0
  BY DEF Init, Nothing
<1>2. job = [w \in Workers |-> job[w]] /\ \A w \in Workers : job[w] = Idle
  BY <1>1
<1>3. \A w \in Workers : JobOK(job[w]) /\ GetKnows(w) /\ StartKnows(w)
  BY <1>2, IdleJob DEF GetKnows, StartKnows
<1>4. \A key : Minimum(key, "openshift") \in Nat /\ "openshift" \in Presets
  BY DEF Minimum, GetDefaultCPUs, GetDefaultMemory, Presets
<1>5. /\ defaults \in [Workers -> [Sized -> Nat]]
      /\ \A w \in Workers, key \in Sized : defaults[w][key] = Minimum(key, "openshift")
  BY <1>1, <1>4
<1>6. \A w \in Workers, key \in Sized :
        defaults[w][key] \in {Minimum(key, p) : p \in Presets}
  BY <1>4, <1>5
<1>7. faults \in 0..MaxFaults
  BY <1>1 DEF Assumptions
<1>8. /\ stored = [key \in Keys |-> stored[key]]
      /\ \A key \in Keys : stored[key] \in ValuesOf(key) \cup {NoValue}
  BY <1>1
<1>9. Types
  BY <1>2, <1>3, <1>5, <1>6, <1>7, <1>8 DEF Types, DefaultsOK
<1> QED BY <1>3, <1>9 DEF ReadsInv

-----------------------------------------------------------------------------
(***************************************************************************)
(* Requests for several settings.  What there is left to do is the end of  *)
(* what was asked, and what comes before it is stored.                     *)
(***************************************************************************)
\* asked is its first n properties, which are stored, and then todo.
StoredFirst(values, asked, todo) ==
  /\ Len(todo) <= Len(asked)
  /\ \A i \in 1..Len(todo) : todo[i] = asked[(Len(asked) - Len(todo)) + i]
  /\ \A i \in 1..(Len(asked) - Len(todo)) : values[asked[i].key] = asked[i].value

WriteKnows(w) ==
  (job[w].do \in {"set", "unset"}) =>
    /\ job[w].at \in {"register", "check", "store"}
    /\ \A i, k \in DOMAIN job[w].asked : i # k => job[w].asked[i].key # job[w].asked[k].key
    /\ job[w].at \in {"check", "store"} /\ ~job[w].failed /\ job[w].quiet =>
         StoredFirst(stored, job[w].asked, job[w].todo)

WritesInv == Types /\ \A w \in Workers : WriteKnows(w)



\* A step of one request, alone with the settings, keeps what the others know.
LEMMA WritesStays ==
  ASSUME WritesInv, NEW w \in Workers, NEW j, JobOK(j), job' = [job EXCEPT ![w] = j],
         UNCHANGED stored, DefaultsOK', faults' \in 0..MaxFaults
  PROVE  Types' /\ job'[w] = j /\ \A v \in Workers : v # w => WriteKnows(v)'
<1>1. /\ job' = [v \in Workers |-> job'[v]] /\ job'[w] = j
      /\ \A v \in Workers : v # w => job'[v] = job[v]
  BY DEF WritesInv, Types
<1>2. \A v \in Workers : JobOK(job'[v])
  BY <1>1 DEF WritesInv, Types
<1>3. Types'
  BY <1>1, <1>2 DEF WritesInv, Types
<1>4. ASSUME NEW v \in Workers, v # w PROVE WriteKnows(v)'
  <2>1. job'[v] = job[v] /\ stored' = stored /\ WriteKnows(v)
    BY <1>1, <1>4 DEF WritesInv
  <2> QED BY <2>1, SMT, SMTT(60) DEF WriteKnows
<1> QED BY <1>1, <1>3, <1>4

\* A request to set or unset settings, what it was asked and how far it is.
Unsettled(j) == j.do \in {"set", "unset"}
Distinct(asked) == \A i, k \in DOMAIN asked : i # k => asked[i].key # asked[k].key

\* A request that begins is for different settings.
LEMMA WritesRequests ==
  ASSUME WritesInv, NEW w \in Workers, NEW kind \in Kinds, NEW asked \in Seq(Properties),
         Request(w, kind, asked)
  PROVE  WritesInv'
<1> DEFINE j == [Idle EXCEPT !.do = kind, !.asked = asked, !.at = "register", !.todo = Registered]
<1>1. job' = [job EXCEPT ![w] = j] /\ UNCHANGED <<stored, defaults, faults>> /\ Distinct(asked)
  BY DEF Request, Distinct
<1>4. Fields(j, kind, "register", Registered, asked, Nothing, FALSE, TRUE)
  BY NewRequest
<1> HIDE DEF j
<1>5. JobOK(j)
  BY <1>4, PlansProperties, StartReadsProperties, ConfigReadsProperties DEF Fields, JobOK, Places, Nothing
<1>6. Types' /\ job'[w] = j /\ \A v \in Workers : v # w => WriteKnows(v)'
  BY <1>1, <1>5, WritesStays DEF WritesInv, Types, DefaultsOK
<1>7. WriteKnows(w)'
  BY <1>1, <1>4, <1>6, SMT, SMTT(60) DEF Fields, WriteKnows, Distinct
<1> QED BY <1>6, <1>7 DEF WritesInv

\* The steps of a request that change nothing but where it is, and those of the others.
LEMMA WritesTurns ==
  ASSUME WritesInv, NEW w \in Workers, NEW at0 \in Places, NEW todo0 \in Seq(Properties),
         at0 # "store", job' = [job EXCEPT ![w] = Goto(w, at0, todo0)],
         UNCHANGED <<stored, faults>>, DefaultsOK',
         Unsettled(job[w]) =>
           at0 = "register" \/ (at0 = "check" /\ job[w].at = "register" /\ todo0 = job[w].asked)
  PROVE  WritesInv'
<1> DEFINE j == Goto(w, at0, todo0)
<1>1. /\ Fields(j, job[w].do, at0, todo0, job[w].asked, job[w].got, job[w].failed, job[w].quiet)
      /\ JobOK(j)
  BY GotoJob DEF WritesInv
<1>2. job' = [job EXCEPT ![w] = j]
  OBVIOUS
<1> HIDE DEF j
<1>3. Types' /\ job'[w] = j /\ \A v \in Workers : v # w => WriteKnows(v)'
  BY <1>1, <1>2, WritesStays DEF WritesInv, Types
<1>4. WriteKnows(w)'
  <2>1. SUFFICES ASSUME Unsettled(job[w]) PROVE WriteKnows(w)'
    BY <1>1, <1>3 DEF Fields, WriteKnows, Unsettled
  <2>2. Distinct(job[w].asked)
    BY <2>1 DEF WritesInv, WriteKnows, Unsettled, Distinct
  <2>3. job[w].asked \in Seq(Properties)
    BY DEF WritesInv, Types, JobOK
  <2>4. StoredFirst(stored', job[w].asked, job[w].asked)
    BY <2>3 DEF StoredFirst
  <2>5. /\ j.at \in {"register", "check"} /\ j.asked = job[w].asked
        /\ j.at = "check" => j.todo = job[w].asked
    BY <1>1, <2>1 DEF Fields
  <2> QED BY <1>1, <1>3, <2>2, <2>4, <2>5, SMT, SMTT(60) DEF Fields, WriteKnows, Distinct
<1> QED BY <1>3, <1>4 DEF WritesInv

\* Registering the settings stores nothing.
LEMMA WritesRegisters ==
  ASSUME WritesInv, NEW w \in Workers, RegisterSettings(w)
  PROVE  WritesInv'
<1> DEFINE key == Head(job[w].todo).key
           m == Minimum(key, GetPreset)
<1>1. /\ job[w].at = "register" /\ job[w].todo # <<>>
      /\ defaults' = [v \in Workers |-> IF v \in SameProcess(w)
                                        THEN [defaults[v] EXCEPT ![key] = m] ELSE defaults[v]]
      /\ job' = [job EXCEPT ![w] = Goto(w, "register", Tail(job[w].todo))]
      /\ UNCHANGED <<stored, faults>>
  BY DEF RegisterSettings, At, Current, OneDone
<1>2. Types /\ job[w].todo \in Seq(Properties)
  BY DEF WritesInv, Types, JobOK
<1>3. Tail(job[w].todo) \in Seq(Properties)
  BY <1>1, <1>2, TailKeys
<1>4. m \in Nat /\ \E p \in Presets : m = Minimum(key, p)
  BY DEF Minimum, GetDefaultCPUs, GetDefaultMemory, Presets
<1>5. \A k \in Sized : k = key => m \in {Minimum(k, p) : p \in Presets}
  BY <1>4
<1> HIDE DEF m, key
<1>6. ASSUME NEW v \in Workers
      PROVE  /\ defaults'[v] \in [Sized -> Nat]
             /\ \A k \in Sized : \/ defaults'[v][k] = defaults[v][k]
                                 \/ k = key /\ defaults'[v][k] = m
  <2>1. defaults[v] \in [Sized -> Nat]
    BY <1>2 DEF Types, DefaultsOK
  <2>2. defaults'[v] = IF v \in SameProcess(w) THEN [defaults[v] EXCEPT ![key] = m] ELSE defaults[v]
    BY <1>1
  <2> QED BY <2>1, <2>2, <1>4
<1>7. defaults' = [v \in Workers |-> defaults'[v]]
  BY <1>1
<1>8. ASSUME NEW v \in Workers, NEW k \in Sized
      PROVE  defaults'[v][k] \in {Minimum(k, p) : p \in Presets}
  <2>1. defaults[v][k] \in {Minimum(k, p) : p \in Presets}
    BY <1>2 DEF Types, DefaultsOK
  <2> QED BY <1>5, <1>6, <2>1
<1>9. defaults' \in [Workers -> [Sized -> Nat]]
  BY <1>6, <1>7
<1>10. DefaultsOK'
  BY <1>8, <1>9 DEF DefaultsOK
<1> QED BY <1>1, <1>3, <1>10, WritesTurns DEF Places

\* All that was asked is then to be done.
LEMMA WritesWorks ==
  ASSUME WritesInv, NEW w \in Workers, Work(w)
  PROVE  WritesInv'
<1>1. PICK plan \in Plans(w) :
        job' = [job EXCEPT ![w] = Goto(w, plan.at, plan.todo)]
  BY DEF Work
<1>2. /\ UNCHANGED <<stored, defaults, faults>> /\ JobOK(job[w]) /\ job[w].at = "register"
      /\ DefaultsOK
  BY DEF Work, At, WritesInv, Types
<1>3. \/ job[w].do = "start" /\ plan.at = "validate" /\ plan.todo = Validated
      \/ job[w].do = "start" /\ plan.at = "read" /\ plan.todo = StartReads(w)
      \/ job[w].do = "get" /\ plan.at = "read" /\ plan.todo \in ConfigReads
      \/ plan.at = "check" /\ plan.todo = job[w].asked
  BY DEF Plans
<1>a. Assumptions
  BY DEF WritesInv, Types
<1>4. plan.at \in Places /\ plan.at # "store" /\ plan.todo \in Seq(Properties)
  BY <1>2, <1>3, <1>a, PlansProperties, StartReadsProperties, ConfigReadsProperties DEF Places, JobOK
<1>5. DefaultsOK'
  BY <1>2 DEF DefaultsOK
<1>6. Unsettled(job[w]) => plan.at = "check" /\ plan.todo = job[w].asked
  BY <1>3 DEF Unsettled
<1> QED BY <1>1, <1>2, <1>4, <1>5, <1>6, WritesTurns

\* A request with a property that is rejected has failed.
LEMMA WritesRejects ==
  ASSUME WritesInv, NEW w \in Workers, job[w].at \in {"check", "store"}, job[w].todo # <<>>,
         Rejected(w), UNCHANGED <<stored, defaults>>, faults' \in 0..MaxFaults
  PROVE  WritesInv'
<1> DEFINE i == Goto(w, "check", Tail(job[w].todo))
           j == [i EXCEPT !.failed = TRUE]
<1>1. job' = [job EXCEPT ![w] = j] /\ j = [i EXCEPT !.failed = TRUE]
  BY DEF Rejected, OneDone
<1>2. job[w].todo \in Seq(Properties) /\ DefaultsOK
  BY DEF WritesInv, Types, JobOK
<1>3. Tail(job[w].todo) \in Seq(Properties) /\ DefaultsOK'
  BY <1>2, TailKeys DEF DefaultsOK
<1>4. /\ Fields(i, job[w].do, "check", Tail(job[w].todo), job[w].asked, job[w].got,
                job[w].failed, job[w].quiet)
      /\ JobOK(i)
  BY <1>3, GotoJob DEF Places, WritesInv
<1> HIDE DEF i, j
<1>5. i = [do |-> i.do, at |-> i.at, todo |-> i.todo, asked |-> i.asked, got |-> i.got,
           failed |-> i.failed, quiet |-> i.quiet]
  BY <1>4 DEF JobOK
<1>6. Fields(j, i.do, i.at, i.todo, i.asked, i.got, TRUE, i.quiet)
  BY <1>1, <1>5, FieldFailed
<1>7. JobOK(j)
  BY <1>4, <1>6 DEF JobOK, Fields
<1>8. Types' /\ job'[w] = j /\ \A v \in Workers : v # w => WriteKnows(v)'
  BY <1>1, <1>3, <1>7, WritesStays
<1>9. j.do = job[w].do /\ j.at = "check" /\ j.asked = job[w].asked /\ j.failed = TRUE
  BY <1>4, <1>6 DEF Fields
<1>10. job[w].do \in {"set", "unset"} =>
         \A a, b \in DOMAIN job[w].asked : a # b => job[w].asked[a].key # job[w].asked[b].key
  BY DEF WritesInv, WriteKnows
<1>11. WriteKnows(w)'
  BY <1>8, <1>9, <1>10, SMT, SMTT(60) DEF WriteKnows
<1> QED BY <1>8, <1>11 DEF WritesInv

\* A property that is validated is not yet stored.
LEMMA WritesValidates ==
  ASSUME WritesInv, NEW w \in Workers, Validate(w)
  PROVE  WritesInv'
<1>1. CASE Rejected(w)
  BY <1>1, WritesRejects DEF Validate, At, WritesInv, Types
<1>2. CASE job' = [job EXCEPT ![w] = [job[w] EXCEPT !.at = "store"]]
  <2> DEFINE j == [job[w] EXCEPT !.at = "store"]
  <2>1. /\ job[w].at = "check" /\ job[w].todo # <<>> /\ UNCHANGED <<stored, defaults, faults>>
        /\ JobOK(job[w]) /\ job' = [job EXCEPT ![w] = j] /\ DefaultsOK
    BY <1>2 DEF Validate, At, WritesInv, Types
  <2>2. Fields(j, job[w].do, "store", job[w].todo, job[w].asked, job[w].got, job[w].failed, job[w].quiet)
    BY <2>1, FieldAt DEF JobOK
  <2> HIDE DEF j
  <2>3. JobOK(j)
    BY <2>1, <2>2 DEF JobOK, Fields, Places
  <2>4. DefaultsOK'
    BY <2>1 DEF DefaultsOK
  <2>5. Types' /\ job'[w] = j /\ \A v \in Workers : v # w => WriteKnows(v)'
    BY <2>1, <2>3, <2>4, WritesStays DEF WritesInv, Types
  <2>6. WriteKnows(w)
    BY DEF WritesInv
  <2>7. /\ j.do = job[w].do /\ j.at = "store" /\ j.asked = job[w].asked /\ j.failed = job[w].failed
        /\ j.quiet = job[w].quiet /\ j.todo = job[w].todo
    BY <2>2 DEF Fields
  <2>8. WriteKnows(w)'
    BY <2>1, <2>5, <2>6, <2>7, SMT, SMTT(60) DEF WriteKnows
  <2> QED BY <2>5, <2>8 DEF WritesInv
<1> QED BY <1>1, <1>2 DEF Validate

\* The indices of the end of a sequence.
LEMMA IndexShift ==
  ASSUME NEW n \in Nat, NEW m \in Nat, NEW i \in 1..(m - 1)
  PROVE  i + 1 \in 1..m /\ n + (i + 1) = (n + 1) + i
OBVIOUS

\* A property that is stored joins the ones that are, which are of other settings.
LEMMA StoredNext ==
  ASSUME NEW S, NEW asked \in Seq(S), NEW todo \in Seq(S), todo # <<>>, Distinct(asked),
         NEW keys, NEW values, values = [key \in keys |-> values[key]],
         \A p \in S : p.key \in keys,
         StoredFirst(values, asked, todo), NEW values1,
         values1 = [values EXCEPT ![Head(todo).key] = Head(todo).value]
  PROVE  StoredFirst(values1, asked, Tail(todo))
<1> DEFINE n == Len(asked) - Len(todo)
<1>1. /\ Len(todo) \in Nat /\ Len(asked) \in Nat /\ Len(todo) # 0 /\ Len(todo) <= Len(asked)
      /\ Len(Tail(todo)) = Len(todo) - 1 /\ Head(todo) = todo[1] /\ DOMAIN asked = 1..Len(asked)
      /\ \A i \in 1..(Len(todo) - 1) : Tail(todo)[i] = todo[i + 1]
  BY DEF StoredFirst
<1>2. /\ \A i \in 1..Len(todo) : todo[i] = asked[n + i]
      /\ \A i \in 1..n : values[asked[i].key] = asked[i].value
  BY DEF StoredFirst
<1>3. n \in Nat /\ n + 1 \in 1..Len(asked) /\ Len(asked) - Len(Tail(todo)) = n + 1
  BY <1>1
<1> HIDE DEF n
<1>4. Head(todo) = asked[n + 1] /\ asked[n + 1] \in S
  BY <1>1, <1>2, <1>3
<1>5. \A i \in 1..(Len(todo) - 1) : Tail(todo)[i] = asked[(n + 1) + i]
  <2>1. TAKE i \in 1..(Len(todo) - 1)
  <2>2. i + 1 \in 1..Len(todo) /\ n + (i + 1) = (n + 1) + i
    BY <1>1, <1>3, IndexShift
  <2> QED BY <1>1, <1>2, <2>2
<1>6. ASSUME NEW i \in 1..(n + 1) PROVE values1[asked[i].key] = asked[i].value
  <2>1. i \in DOMAIN asked /\ asked[i] \in S /\ asked[i].key \in keys
    BY <1>1, <1>3
  <2>2. CASE i = n + 1
    <3>1. asked[i] = Head(todo) /\ Head(todo).key \in keys
      BY <1>4, <2>1, <2>2
    <3>2. values1[Head(todo).key] = Head(todo).value
      BY <3>1
    <3> QED BY <3>1, <3>2
  <2>3. CASE i # n + 1
    <3>1. i \in 1..n /\ n + 1 \in DOMAIN asked
      BY <1>1, <1>3, <2>3
    <3>2. asked[i].key # asked[n + 1].key
      BY <2>1, <2>3, <3>1 DEF Distinct
    <3> QED BY <1>2, <1>4, <2>1, <3>1, <3>2
  <2> QED BY <2>2, <2>3
<1>7. Len(Tail(todo)) <= Len(asked)
  BY <1>1
<1> QED BY <1>1, <1>3, <1>5, <1>6, <1>7 DEF StoredFirst

\* A property that is stored is the next one.
LEMMA WritesStores ==
  ASSUME WritesInv, NEW w \in Workers, Store(w)
  PROVE  WritesInv'
<1>1. /\ job[w].at = "store" /\ job[w].todo # <<>> /\ UNCHANGED defaults
      /\ Types /\ JobOK(job[w]) /\ job[w].todo \in Seq(Properties)
      /\ job[w].asked \in Seq(Properties) /\ DefaultsOK
  BY DEF Store, At, WritesInv, Types, JobOK
<1>2. CASE Rejected(w) /\ UNCHANGED stored
  <2>1. faults' \in 0..MaxFaults
    BY DEF Store, WritesInv, Types, Assumptions
  <2> QED BY <1>1, <1>2, <2>1, WritesRejects
<1>3. CASE /\ stored' = [stored EXCEPT ![Head(job[w].todo).key] = Head(job[w].todo).value]
           /\ job' = Disturbed(w, [job EXCEPT ![w] = Goto(w, "check", Tail(job[w].todo))])
           /\ UNCHANGED faults
  <2> DEFINE j == Goto(w, "check", Tail(job[w].todo))
             p == Head(job[w].todo)
  <2>1. Tail(job[w].todo) \in Seq(Properties) /\ p \in Properties
    BY <1>1, TailKeys
  <2>2. /\ Fields(j, job[w].do, "check", Tail(job[w].todo), job[w].asked, job[w].got,
                  job[w].failed, job[w].quiet)
        /\ JobOK(j)
    BY <2>1, GotoJob DEF Places, WritesInv
  <2> HIDE DEF j, p
  <2>3. /\ job' = [v \in Workers |-> job'[v]] /\ (\A v \in Workers : JobOK(job'[v]))
        /\ job'[w] = j
        /\ \A v \in Workers : v # w => /\ job[v].do = "idle" \/ ~job'[v].quiet
                                       /\ job'[v].do = job[v].do
                                       /\ job'[v].at = job[v].at /\ job'[v].asked = job[v].asked
    BY <1>1, <1>3, <2>2, JobDisturbs DEF j
  <2>4. p.key \in Keys /\ p.value \in ValuesOf(p.key) \cup {NoValue}
    BY <2>1, PropertyValues
  <2>5. /\ stored' = [key \in Keys |-> stored'[key]]
        /\ \A key \in Keys : stored'[key] \in ValuesOf(key) \cup {NoValue}
    BY <1>1, <1>3, <2>4 DEF Types, p
  <2>6. DefaultsOK'
    BY <1>1 DEF DefaultsOK
  <2>7. Types'
    BY <1>1, <1>3, <2>3, <2>5, <2>6 DEF Types
  <2>8. \A v \in Workers : v # w => WriteKnows(v)'
    BY <2>3 DEF WritesInv, WriteKnows
  <2>9. /\ j.do = job[w].do /\ j.at = "check" /\ j.asked = job[w].asked /\ j.failed = job[w].failed
        /\ j.quiet = job[w].quiet /\ j.todo = Tail(job[w].todo)
    BY <2>2 DEF Fields
  <2>10. WriteKnows(w)'
    <3>1. SUFFICES ASSUME Unsettled(job[w]) PROVE WriteKnows(w)'
      BY <2>3, <2>9 DEF WriteKnows, Unsettled
    <3>2. Distinct(job[w].asked)
      BY <3>1 DEF WritesInv, WriteKnows, Unsettled, Distinct
    <3>3. ~job[w].failed /\ job[w].quiet => StoredFirst(stored', job[w].asked, Tail(job[w].todo))
      <4>1. SUFFICES ASSUME ~job[w].failed, job[w].quiet
                     PROVE  StoredFirst(stored', job[w].asked, Tail(job[w].todo))
        OBVIOUS
      <4>2. StoredFirst(stored, job[w].asked, job[w].todo)
        BY <1>1, <3>1, <4>1 DEF WritesInv, WriteKnows, Unsettled
      <4>3. \A q \in Properties : q.key \in Keys
        BY PropertyValues
      <4>4. stored = [key \in Keys |-> stored[key]]
        BY <1>1 DEF Types
      <4> QED BY <1>1, <1>3, <3>2, <4>2, <4>3, <4>4, StoredNext
    <3> QED BY <2>3, <2>9, <3>2, <3>3 DEF WriteKnows, Distinct
  <2> QED BY <2>7, <2>8, <2>10 DEF WritesInv
<1> QED BY <1>2, <1>3 DEF Store, OneDone, Current

\* A start and a report of the settings are not about what is stored.
LEMMA WritesRead ==
  ASSUME WritesInv, NEW w \in Workers, validateStartFlags(w) \/ Read(w)
  PROVE  WritesInv'
<1>1. /\ job[w].at \in {"validate", "read"} /\ UNCHANGED <<stored, defaults, faults>>
      /\ JobOK(job[w]) /\ job[w].todo \in Seq(Properties) /\ DefaultsOK
  BY DEF validateStartFlags, Read, At, WritesInv, Types, JobOK
<1>2. ~Unsettled(job[w]) /\ DefaultsOK'
  BY <1>1 DEF WritesInv, WriteKnows, Unsettled, DefaultsOK
<1>3. /\ StartReads(w) \in Seq(Properties) /\ <<>> \in Seq(Properties)
      /\ job[w].todo # <<>> => Tail(job[w].todo) \in Seq(Properties)
  BY <1>1, PlansProperties, StartReadsProperties, ConfigReadsProperties, TailKeys, SMT, SMTT(60)
<1>4. CASE job' = [job EXCEPT ![w] = Goto(w, "read", StartReads(w))]
  BY <1>1, <1>2, <1>3, <1>4, WritesTurns DEF Places
<1>5. CASE job[w].todo # <<>> /\ job' = [job EXCEPT ![w] = Goto(w, "validate", Tail(job[w].todo))]
  BY <1>1, <1>2, <1>3, <1>5, WritesTurns DEF Places
<1>6. ASSUME NEW j, JobOK(j), j.do = job[w].do, job' = [job EXCEPT ![w] = j]
      PROVE  WritesInv'
  <2>1. Types' /\ job'[w] = j /\ \A v \in Workers : v # w => WriteKnows(v)'
    BY <1>1, <1>2, <1>6, WritesStays DEF WritesInv, Types
  <2>2. WriteKnows(w)'
    BY <1>2, <1>6, <2>1 DEF WriteKnows, Unsettled
  <2> QED BY <2>1, <2>2 DEF WritesInv
<1>7. CASE job' = [job EXCEPT ![w] = [Goto(w, "check", <<>>) EXCEPT !.failed = TRUE]]
  <2> DEFINE i == Goto(w, "check", <<>>)
             j == [i EXCEPT !.failed = TRUE]
  <2>1. /\ Fields(i, job[w].do, "check", <<>>, job[w].asked, job[w].got, job[w].failed, job[w].quiet)
        /\ JobOK(i)
    BY <1>3, GotoJob DEF Places, WritesInv
  <2>2. job' = [job EXCEPT ![w] = j] /\ j = [i EXCEPT !.failed = TRUE]
    BY <1>7
  <2> HIDE DEF i, j
  <2>3. i = [do |-> i.do, at |-> i.at, todo |-> i.todo, asked |-> i.asked, got |-> i.got,
             failed |-> i.failed, quiet |-> i.quiet]
    BY <2>1 DEF JobOK
  <2>4. Fields(j, i.do, i.at, i.todo, i.asked, i.got, TRUE, i.quiet)
    BY <2>2, <2>3, FieldFailed
  <2>5. JobOK(j) /\ j.do = job[w].do
    BY <2>1, <2>4 DEF JobOK, Fields
  <2> QED BY <1>6, <2>2, <2>5
<1>8. CASE Read(w)
  <2> DEFINE key == Head(job[w].todo).key
             i == Goto(w, "read", Tail(job[w].todo))
             got0 == [i.got EXCEPT ![key] = Get(w, key)]
             j == [i EXCEPT !.got = got0]
  <2>1. job' = [job EXCEPT ![w] = j] /\ j = [i EXCEPT !.got = got0] /\ job[w].todo # <<>>
    BY <1>8 DEF Read, OneDone, Current
  <2>2. /\ Fields(i, job[w].do, "read", Tail(job[w].todo), job[w].asked, job[w].got,
                  job[w].failed, job[w].quiet)
        /\ JobOK(i)
    BY <1>3, <2>1, GotoJob DEF Places, WritesInv
  <2> HIDE DEF i, j, got0, key
  <2>3. i = [do |-> i.do, at |-> i.at, todo |-> i.todo, asked |-> i.asked, got |-> i.got,
             failed |-> i.failed, quiet |-> i.quiet]
    BY <2>2 DEF JobOK
  <2>4. Fields(j, i.do, i.at, i.todo, i.asked, got0, i.failed, i.quiet)
    BY <2>1, <2>3, FieldGot
  <2>5. i.got = [k \in Keys |-> i.got[k]]
    BY <2>2 DEF JobOK
  <2>6. got0 = [k \in Keys |-> got0[k]]
    BY <2>5 DEF got0
  <2>7. JobOK(j) /\ j.do = job[w].do
    BY <2>2, <2>4, <2>6 DEF JobOK, Fields
  <2> QED BY <1>6, <2>1, <2>7
<1>9. CASE validateStartFlags(w)
  BY <1>4, <1>5, <1>7, <1>9 DEF validateStartFlags, OneDone
<1> QED BY <1>8, <1>9

\* A request that has ended asks for nothing more.
LEMMA WritesReplies ==
  ASSUME WritesInv, NEW w \in Workers, Reply(w)
  PROVE  WritesInv'
<1>1. /\ job' = [job EXCEPT ![w] = Idle] /\ UNCHANGED <<stored, defaults, faults>>
      /\ DefaultsOK
  BY DEF Reply, WritesInv, Types
<1>2. DefaultsOK'
  BY <1>1 DEF DefaultsOK
<1>3. Types' /\ job'[w] = Idle /\ \A v \in Workers : v # w => WriteKnows(v)'
  BY <1>1, <1>2, IdleJob, WritesStays DEF WritesInv, Types
<1>4. WriteKnows(w)'
  BY <1>3, IdleJob DEF WriteKnows
<1> QED BY <1>3, <1>4 DEF WritesInv

\* The requests there are.
LEMMA WritesAsks ==
  ASSUME WritesInv, NEW w \in Workers,
         SetConfig(w) \/ UnsetConfig(w) \/ GetConfig(w) \/ Start(w)
  PROVE  WritesInv'
<1>1. /\ SetProperties \subseteq Properties
      /\ UnsetProperties \subseteq Properties
  BY DEF Properties
<1>2. \A kind, asked : Request(w, kind, asked) => kind \in Kinds
  BY DEF Request
<1>3. PICK kind \in Kinds, asked \in Seq(Properties) : Request(w, kind, asked)
  <2>1. ASSUME NEW do, \E p \in Properties : Request(w, do, <<p>>)
        PROVE  \E kind \in Kinds, asked \in Seq(Properties) : Request(w, kind, asked)
    <3>1. PICK p \in Properties : Request(w, do, <<p>>)
      BY <2>1
    <3>2. <<p>> \in Seq(Properties)
      OBVIOUS
    <3> QED BY <1>2, <3>1, <3>2
  <2>2. ASSUME NEW do, \E p, q \in Properties : Request(w, do, <<p, q>>)
        PROVE  \E kind \in Kinds, asked \in Seq(Properties) : Request(w, kind, asked)
    <3>1. PICK p \in Properties, q \in Properties : Request(w, do, <<p, q>>)
      BY <2>2
    <3>2. <<p, q>> \in Seq(Properties)
      OBVIOUS
    <3> QED BY <1>2, <3>1, <3>2
  <2>3. CASE SetConfig(w)
    BY <1>1, <2>1, <2>2, <2>3 DEF SetConfig
  <2>4. CASE UnsetConfig(w)
    BY <1>1, <2>1, <2>2, <2>4 DEF UnsetConfig
  <2>5. <<>> \in Seq(Properties)
    OBVIOUS
  <2> QED BY <1>2, <2>3, <2>4, <2>5 DEF GetConfig, Start
<1> QED BY <1>3, WritesRequests

\* Every step keeps what is stored for the requests.
LEMMA WritesSteps ==
  ASSUME WritesInv, Next \/ UNCHANGED vars
  PROVE  WritesInv'
<1>1. CASE UNCHANGED vars
  <2>1. UNCHANGED <<stored, defaults, job, faults>>
    BY <1>1 DEF vars
  <2>2. Types'
    BY <2>1 DEF WritesInv, Types, DefaultsOK
  <2>3. ASSUME NEW v \in Workers PROVE WriteKnows(v)'
    <3>1. job'[v] = job[v] /\ stored' = stored /\ WriteKnows(v)
      BY <2>1 DEF WritesInv
    <3> QED BY <3>1 DEF WriteKnows
  <2> QED BY <2>2, <2>3 DEF WritesInv
<1>2. ASSUME NEW w \in Workers,
             \/ SetConfig(w) \/ UnsetConfig(w) \/ GetConfig(w) \/ Start(w)
             \/ RegisterSettings(w) \/ Work(w) \/ Validate(w) \/ Store(w)
             \/ validateStartFlags(w) \/ Read(w) \/ Reply(w)
      PROVE  WritesInv'
  BY <1>2, WritesAsks, WritesRegisters, WritesWorks, WritesValidates, WritesStores,
     WritesRead, WritesReplies
<1> QED BY <1>1, <1>2 DEF Next

\* There is no request at the beginning.
LEMMA WritesBegins ==
  ASSUME Assumptions, Init
  PROVE  WritesInv
<1>1. /\ job = [w \in Workers |-> Idle] /\ stored = [key \in Keys |-> NoValue]
      /\ defaults = [w \in Workers |-> [key \in Sized |-> Minimum(key, "openshift")]]
      /\ faults = 0
  BY DEF Init, Nothing
<1>2. job = [w \in Workers |-> job[w]] /\ \A w \in Workers : job[w] = Idle
  BY <1>1
<1>3. \A w \in Workers : JobOK(job[w]) /\ WriteKnows(w)
  BY <1>2, IdleJob DEF WriteKnows
<1>4. \A key : Minimum(key, "openshift") \in Nat /\ "openshift" \in Presets
  BY DEF Minimum, GetDefaultCPUs, GetDefaultMemory, Presets
<1>5. /\ defaults \in [Workers -> [Sized -> Nat]]
      /\ \A w \in Workers, key \in Sized : defaults[w][key] = Minimum(key, "openshift")
  BY <1>1, <1>4
<1>6. DefaultsOK
  BY <1>4, <1>5 DEF DefaultsOK
<1>7. faults \in 0..MaxFaults
  BY <1>1 DEF Assumptions
<1>8. /\ stored = [key \in Keys |-> stored[key]]
      /\ \A key \in Keys : stored[key] \in ValuesOf(key) \cup {NoValue}
  BY <1>1
<1>9. Types
  BY <1>2, <1>3, <1>6, <1>7, <1>8 DEF Types
<1> QED BY <1>3, <1>9 DEF WritesInv

-----------------------------------------------------------------------------
\* The inductive invariant of what is read,
LEMMA ReadsInvariant == Assumptions => (Spec => []ReadsInv)
<1>1. Assumptions /\ Init => ReadsInv
  BY ReadsBegins
<1>2. ReadsInv /\ [Next]_vars => ReadsInv'
  BY ReadsSteps
<1> QED
  BY <1>1, <1>2, PTL DEF Spec

\* and the one of what is stored.
LEMMA WritesInvariant == Assumptions => (Spec => []WritesInv)
<1>1. Assumptions /\ Init => WritesInv
  BY WritesBegins
<1>2. WritesInv /\ [Next]_vars => WritesInv'
  BY WritesSteps
<1> QED
  BY <1>1, <1>2, PTL DEF Spec

\* The types are part of it.
LEMMA ReadsTypeOK == ReadsInv => TypeOK
BY DEF ReadsInv, Types, DefaultsOK, JobOK, TypeOK

\* What GET /config has read when it replies.
LEMMA ReadsDefaults ==
  ASSUME ReadsInv
  PROVE  ReportsCurrentDefaults
<1>1. SUFFICES ASSUME NEW w \in Workers, job[w].do = "get", Replying(w), job[w].quiet,
                      NEW key \in Sized, stored[key] = NoValue
               PROVE  job[w].got[key] = Minimum(key, job[w].got["preset"])
  BY DEF ReportsCurrentDefaults
<1>2. job[w].at = "read" /\ job[w].todo = <<>>
  BY <1>1 DEF ReadsInv, GetKnows, Replying
<1>3. key \in Keys /\ "preset" \in Keys /\ key \in {"cpus", "memory"}
  BY DEF Sized, ReadsInv, Types, Assumptions
<1>4. /\ DefaultIsCurrent(w, key)
      /\ job[w].got[key] = Get(w, key) /\ job[w].got["preset"] = Get(w, "preset")
  BY <1>1, <1>2, <1>3, SMT, SMTT(60) DEF ReadsInv, GetKnows, HasKey
<1>5. Get(w, key) = defaults[w][key]
  BY <1>1, <1>3 DEF Get, defaultValue
<1>6. Get(w, "preset") = GetPreset
  BY DEF Get, GetPreset, defaultValue, secretAccessible, isSecret,
     Sized
<1> QED BY <1>4, <1>5, <1>6 DEF DefaultIsCurrent

\* What a start has read when it hands it on.
LEMMA ReadsBounds ==
  ASSUME ReadsInv
  PROVE  CommandStartsWithinBounds
<1>1. SUFFICES ASSUME NEW w \in Workers \ Daemon, Started(w), job[w].quiet,
                      NEW key \in Sized
               PROVE  /\ job[w].got[key] >= Minimum(key, job[w].got["preset"])
                      /\ key = "memory" => job[w].got[key] <= TotalMemory
  BY DEF CommandStartsWithinBounds, Within
<1>2. job[w].do = "start" /\ job[w].at = "read" /\ job[w].todo = <<>>
  BY <1>1 DEF ReadsInv, StartKnows, Started, Replying
<1>3. key \in Keys /\ "preset" \in Keys /\ key \in {"cpus", "memory"}
  BY DEF Sized, ReadsInv, Types, Assumptions
<1>4. /\ validateSize(key, Get(w, key))
      /\ job[w].got[key] = Get(w, key) /\ job[w].got["preset"] = Get(w, "preset")
  BY <1>1, <1>2, <1>3, SMT, SMTT(60) DEF ReadsInv, StartKnows, HasKey
<1>5. Get(w, "preset") = GetPreset
  BY DEF Get, GetPreset, defaultValue, secretAccessible, isSecret,
     Sized
<1> QED
  BY <1>3, <1>4, <1>5 DEF validateSize, ValidateCPUs, ValidateMemory, Minimum

\* What is stored when a request reports success.
LEMMA WritesSuccess ==
  ASSUME WritesInv
  PROVE  SuccessMeansStored
<1>1. SUFFICES ASSUME NEW w \in Workers, job[w].do \in {"set", "unset"}, Replying(w),
                      ~job[w].failed, job[w].quiet, NEW i \in DOMAIN job[w].asked
               PROVE  stored[job[w].asked[i].key] = job[w].asked[i].value
  BY DEF SuccessMeansStored
<1>2. StoredFirst(stored, job[w].asked, <<>>) /\ job[w].asked \in Seq(Properties)
  BY <1>1 DEF WritesInv, WriteKnows, Replying, Types, JobOK
<1>3. Len(<<>>) = 0 /\ i \in 1..(Len(job[w].asked) - 0)
  BY <1>2
<1> QED BY <1>2, <1>3 DEF StoredFirst

(***************************************************************************)
(* The types of the settings and of the requests.                          *)
(***************************************************************************)
THEOREM SettingsTypes == Assumptions => (Spec => []TypeOK)
BY ReadsInvariant, ReadsTypeOK, PTL

(***************************************************************************)
(* GET /config alone with the settings reports sizes that go with the      *)
(* preset it reports, whoever has changed the preset before it             *)
(* (UpdateDefaults in api/handlers.go).                                    *)
(***************************************************************************)
THEOREM SettingsReportDefaults == Assumptions => (Spec => []ReportsCurrentDefaults)
<1>1. ReadsInv => ReportsCurrentDefaults
  BY ReadsDefaults
<1> QED
  BY <1>1, ReadsInvariant, PTL

(***************************************************************************)
(* "crc start" alone with the settings hands on sizes that go with the     *)
(* preset it hands on (validateStartFlags before the reads of runStart).   *)
(***************************************************************************)
THEOREM SettingsStartWithinBounds == Assumptions => (Spec => []CommandStartsWithinBounds)
<1>1. ReadsInv => CommandStartsWithinBounds
  BY ReadsBounds
<1> QED
  BY <1>1, ReadsInvariant, PTL

(***************************************************************************)
(* A request that reports success and has been alone has stored all it was *)
(* asked to, of any number of settings (SetConfig and UnsetConfig).        *)
(***************************************************************************)
THEOREM SettingsSuccessMeansStored == Assumptions => (Spec => []SuccessMeansStored)
<1>1. WritesInv => SuccessMeansStored
  BY WritesSuccess
<1> QED
  BY <1>1, WritesInvariant, PTL

=============================================================================

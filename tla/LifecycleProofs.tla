--------------------------- MODULE LifecycleProofs ---------------------------
(***************************************************************************)
(* The life of a process, from the outside in.                              *)
(*                                                                          *)
(* Lifecycle, for any number of connections and any providers: the store    *)
(* outlives whoever uses it, and the exit reports what failed.  The         *)
(* invariant follows the two components through Run: what a component has   *)
(* promised when its result is in the channel, and what Run knows once it   *)
(* has taken the result out.                                                *)
(*                                                                          *)
(* Its configuration, for any selection of providers: what the providers    *)
(* promise solves the recursion that applies them one by one, and main      *)
(* builds what the configuration names.                                     *)
(*                                                                          *)
(* Fanout, which main builds for the worker: what a nil error means, and    *)
(* how much of an attempt's deadline unavailable backends can use up, for   *)
(* any number of backends in any order with any timeouts.                   *)
(*                                                                          *)
(* Migrations, inside Lifecycle's OpenStore, for any number of processes    *)
(* and of migrations: whatever crashes, times out or races, the history     *)
(* stays true and whoever opens the store has what its binary needs.        *)
(***************************************************************************)
EXTENDS Lifecycle, Fanout, Migrations, RecursionProofs, SequenceTheorems, FiniteSetTheorems, TLAPS

Before == {"loading", "configured", "opening", "composing"}

TypeOK ==
    /\ main \in Before \cup {"running", "exited"}
    /\ web \in {"absent", "starting", "serving", "draining", "returned"}
    /\ serve \in {"absent", "accepting", "failed", "closed"}
    /\ worker \in {"absent", "checking", "claiming", "waiting", "notifying", "recording", "returned"}
    /\ running \subseteq {"web", "worker"}
    /\ results \subseteq running

\* Nothing runs before Launch and nothing has failed.
NothingYet ==
    main \in Before =>
        /\ web = "absent" /\ serve = "absent" /\ worker = "absent" /\ active = {}
        /\ running = {}
        /\ failed = {} /\ reported = {}
        /\ store = IF main = "composing" THEN "open" ELSE "none"

\* The server accepts connections only between Listen and BeginShutdown, so
\* that nothing fails and nobody new comes once it has returned.
ServerInv ==
    /\ serve = "absent" => active = {}
    /\ web \in {"absent", "starting"} => serve = "absent"
    /\ web \in {"draining", "returned"} => serve # "accepting"
    /\ web = "returned" /\ active # {} => "drain" \in failed

\* A component is running until Run has taken its result, and its result is
\* in the channel exactly when it has returned.  The server's error has all that
\* has failed.
RunInv ==
    main = "running" =>
        /\ store = "open"
        /\ web # "absent"
        /\ "web" \in running => ("web" \in results <=> web = "returned")
        /\ web # "returned" => failed = JoinedError({})
        /\ web = "returned" => failed = serverErr
        /\ "web" \notin running => web = "returned" /\ reported = failed
        /\ "worker" \in running => ("worker" \in results <=> worker = "returned")
        /\ "worker" \notin running => worker \in {"absent", "returned"}

ExitInv ==
    main = "exited" =>
        /\ reported = failed
        /\ store # "open"
        /\ web \in {"absent", "returned"}
        /\ worker \in {"absent", "returned"}
        /\ running = {}

LInv == TypeOK /\ NothingYet /\ ServerInv /\ RunInv /\ ExitInv

\* The steps of mainContext up to Run.
LEMMA StartupKeeps ==
  ASSUME LInv, ConfigUnreadable \/ LoadConfig \/ BuildNotifier \/ OpenStoreFails \/ OpenStore
               \/ NewRunnerFails \/ Launch
  PROVE  LInv'
<1>1. ASSUME NEW steps, StartupFails(steps), main \in Before, store' \in {"none", "closed"}
      PROVE  LInv'
  BY <1>1 DEF LInv, StartupFails, TypeOK, NothingYet, ServerInv, RunInv, JoinedError, ExitInv, Before
<1>2. ASSUME NEW stage \in Before, StartupGoesOn(stage), main \in Before,
             store' = IF stage = "composing" THEN "open" ELSE "none"
      PROVE  LInv'
  BY <1>2 DEF LInv, StartupGoesOn, TypeOK, NothingYet, ServerInv, RunInv, JoinedError, ExitInv, Before
<1>3. main \in Before => store = IF main = "composing" THEN "open" ELSE "none"
  BY DEF LInv, NothingYet
<1>4. CASE ConfigUnreadable \/ LoadConfig
  <2>1. main = "loading" /\ store' = store
    BY <1>4 DEF ConfigUnreadable, LoadConfig
  <2>2. (\E steps : StartupFails(steps)) \/ StartupGoesOn("configured")
    BY <1>4 DEF ConfigUnreadable, LoadConfig
  <2> QED
    BY <1>1, <1>2, <1>3, <2>1, <2>2 DEF Before
<1>5. CASE BuildNotifier
  <2>1. main = "configured" /\ store' = store
    BY <1>5 DEF BuildNotifier
  <2>2. (\E steps : StartupFails(steps)) \/ StartupGoesOn("opening")
    BY <1>5 DEF BuildNotifier
  <2> QED
    BY <1>1, <1>2, <1>3, <2>1, <2>2 DEF Before
<1>6. CASE OpenStoreFails \/ OpenStore
  BY <1>1, <1>2, <1>3, <1>6 DEF OpenStoreFails, OpenStore, Before
<1>7. CASE NewRunnerFails
  BY <1>1, <1>7 DEF NewRunnerFails, Before
<1>8. CASE Launch
  BY <1>8 DEF Launch, LInv, TypeOK, NothingYet, ServerInv, RunInv, JoinedError, ExitInv, Before, Components
<1> QED
  BY <1>4, <1>5, <1>6, <1>7, <1>8

\* Run and the end of mainContext.
LEMMA RunKeeps ==
  ASSUME LInv, Signal \/ ShutdownRequested \/ CloseStore
               \/ \E c \in {"web", "worker"} : Collect(c)
  PROVE  LInv'
<1>1. CASE Signal \/ ShutdownRequested
  BY <1>1 DEF Signal, ShutdownRequested, LInv, TypeOK, NothingYet, ServerInv, RunInv, JoinedError, ExitInv
<1>2. CASE Collect("web")
  BY <1>2 DEF Collect, LInv, TypeOK, NothingYet, ServerInv, RunInv, JoinedError, ExitInv, Before
<1>3. CASE Collect("worker")
  BY <1>3 DEF Collect, LInv, TypeOK, NothingYet, ServerInv, RunInv, JoinedError, ExitInv, Before
<1>4. CASE CloseStore
  BY <1>4 DEF CloseStore, CollectedAll, LInv, TypeOK, NothingYet, ServerInv, RunInv, JoinedError, ExitInv, Before
<1> QED
  BY <1>1, <1>2, <1>3, <1>4

\* The server.
LEMMA ServerKeeps ==
  ASSUME LInv, ListenFails \/ Listen \/ ServeFails \/ BeginShutdown
               \/ ShutdownCompletes \/ ShutdownTimesOut
               \/ \E h \in Handlers : Accept(h) \/ HandlerReturns(h)
  PROVE  LInv'
<1>1. CASE ListenFails
  BY <1>1 DEF ListenFails, LInv, TypeOK, NothingYet, ServerInv, RunInv, JoinedError, ExitInv, Before
<1>2. CASE Listen
  BY <1>2 DEF Listen, LInv, TypeOK, NothingYet, ServerInv, RunInv, JoinedError, ExitInv, Before
<1>3. CASE ServeFails
  BY <1>3 DEF ServeFails, LInv, TypeOK, NothingYet, ServerInv, RunInv, JoinedError, ExitInv, Before
<1>4. CASE BeginShutdown
  BY <1>4 DEF BeginShutdown, LInv, TypeOK, NothingYet, ServerInv, RunInv, JoinedError, ExitInv, Before
<1>5. CASE ShutdownCompletes \/ ShutdownTimesOut
  BY <1>5 DEF ShutdownCompletes, ShutdownTimesOut, Return, LInv, TypeOK, NothingYet, ServerInv,
              RunInv, JoinedError, ExitInv, Before
<1>6. ASSUME NEW h \in Handlers, Accept(h) \/ HandlerReturns(h) PROVE LInv'
  BY <1>6 DEF Accept, HandlerReturns, LInv, TypeOK, NothingYet, ServerInv, RunInv, JoinedError, ExitInv, Before
<1> QED
  BY <1>1, <1>2, <1>3, <1>4, <1>5, <1>6

\* The worker.
LEMMA WorkerKeeps ==
  ASSUME LInv, WorkerReturns \/ StartClaim \/ ClaimNothing \/ ClaimRow \/ NotifyEnds
               \/ RecordEnds \/ TimerFires
  PROVE  LInv'
<1>1. CASE WorkerReturns
  BY <1>1 DEF WorkerReturns, LInv, TypeOK, NothingYet, ServerInv, RunInv, JoinedError, ExitInv, Before
<1>2. ASSUME NEW from \in {"checking", "claiming", "waiting", "notifying", "recording"},
             NEW to \in {"checking", "claiming", "waiting", "notifying", "recording"},
             WorkerGoes(from, to)
      PROVE  LInv'
  BY <1>2 DEF WorkerGoes, LInv, TypeOK, NothingYet, ServerInv, RunInv, JoinedError, ExitInv, Before
<1> QED
  BY <1>1, <1>2 DEF StartClaim, ClaimNothing, ClaimRow, NotifyEnds, RecordEnds, TimerFires

\* LInv holds from the start of the process to its exit.
THEOREM LifecycleInvariant == Spec => []LInv
<1>1. Init => LInv
  BY DEF Init, LInv, TypeOK, NothingYet, ServerInv, RunInv, JoinedError, ExitInv, Before
<1>2. LInv /\ [Next]_vars => LInv'
  <2>1. LInv /\ UNCHANGED vars => LInv'
    BY DEF vars, LInv, TypeOK, NothingYet, ServerInv, RunInv, JoinedError, ExitInv
  <2> QED
    BY <2>1, StartupKeeps, RunKeeps, ServerKeeps, WorkerKeeps DEF Next
<1> QED
  BY <1>1, <1>2, PTL DEF Spec

\* When the store is closed no worker step is using it, and a handler only if
\* it overran the shutdown timeout.
THEOREM StoreOutlivesItsUsersHolds == Spec => []StoreOutlivesItsUsers
<1>1. LInv => StoreOutlivesItsUsers
  BY DEF LInv, StoreOutlivesItsUsers, TypeOK, NothingYet, ServerInv, RunInv, ExitInv, Before
<1> QED
  BY <1>1, LifecycleInvariant, PTL

\* The error of the process names every failure and nothing else, whatever
\* made it stop first.
THEOREM ExitReportsFailuresHolds == Spec => []ExitReportsFailures
<1>1. LInv => ExitReportsFailures
  BY DEF LInv, ExitInv, ExitReportsFailures
<1> QED
  BY <1>1, LifecycleInvariant, PTL

-----------------------------------------------------------------------------
(* The configuration, provider by provider. *)

\* Selections and sources that load: no value fails its provider.
Loadable(chosen, found) ==
    /\ chosen \in Selections /\ found \in AllSources(chosen)
    /\ \A i \in DOMAIN chosen : ~ApplyError(found[i])

\* What the first k providers promise, put together as Promised is.
MentionAt(chosen, found, k) ==
    LastOf({i \in DOMAIN chosen : i <= k /\ Mentions(chosen[i], found[i].database)})

DatabaseAt(chosen, found, k) ==
    LET last == MentionAt(chosen, found, k)
    IN IF last # 0 /\ found[last].database = "usable" THEN last ELSE Unset

FileAt(chosen, found, k) ==
    LastOf({i \in DOMAIN chosen : i <= k /\ chosen[i] # "environment" /\ found[i].listed})

ListAt(chosen, found, k) ==
    IF FileAt(chosen, found, k) = 0 THEN <<>> ELSE found[FileAt(chosen, found, k)].smtp

LaterAt(chosen, found, k, field) ==
    LastOf({i \in DOMAIN chosen : /\ i <= k /\ i > FileAt(chosen, found, k)
                                  /\ chosen[i] = "environment"
                                  /\ found[i][field] = "usable"})

SizeAt(chosen, found, k) ==
    IF /\ ListAt(chosen, found, k) = <<>>
       /\ LaterAt(chosen, found, k, "host") # 0 \/ LaterAt(chosen, found, k, "password") # 0
      THEN 1 ELSE Len(ListAt(chosen, found, k))

FieldAt(chosen, found, k, n, field) ==
    IF n = 1 /\ LaterAt(chosen, found, k, field) # 0 THEN LaterAt(chosen, found, k, field)
    ELSE IF n <= Len(ListAt(chosen, found, k)) /\ ListAt(chosen, found, k)[n][field] = "usable"
      THEN FileAt(chosen, found, k)
    ELSE Unset

ServersAt(chosen, found, k) ==
    [n \in 1..SizeAt(chosen, found, k) |->
        [host |-> FieldAt(chosen, found, k, n, "host"),
         password |-> FieldAt(chosen, found, k, n, "password")]]

PromisedAt(chosen, found, k) ==
    [database |-> DatabaseAt(chosen, found, k), smtp |-> ServersAt(chosen, found, k)]

\* One provider, as Applied applies it.
AppliedAt(chosen, found, k, old) ==
    IF chosen[k] = "environment" THEN ApplyEnvironment(k, found[k], old)
    ELSE applyYAMLConfig(k, found[k], old)

\* No position is none.
LEMMA LastOfNone == LastOf({}) = 0
  BY DEF LastOf

\* The new position is the last one.
LEMMA LastOfNew ==
  ASSUME NEW k \in Nat, NEW T, k \in T, \A i \in T : i \in Nat /\ i <= k
  PROVE  LastOf(T) = k
<1>1. T # {} /\ \A j \in T : j <= k
  OBVIOUS
<1>2. \A i \in T : (\A j \in T : j <= i) => i = k
  OBVIOUS
<1>3. (CHOOSE i \in T : \A j \in T : j <= i) = k
  BY <1>1, <1>2
<1> QED
  BY <1>1, <1>3 DEF LastOf

\* What a source says, when nothing in it fails.
LEMMA SourceFacts ==
  ASSUME NEW chosen, NEW found, Loadable(chosen, found)
  PROVE  /\ Len(chosen) \in Nat /\ DOMAIN chosen = 1..Len(chosen)
         /\ \A i \in 1..Len(chosen) :
               /\ found[i].database \in {"absent", "empty", "usable"}
               /\ chosen[i] = "environment" =>
                      /\ found[i].host \in {"absent", "usable"}
                      /\ found[i].password \in {"absent", "usable"}
               /\ chosen[i] # "environment" =>
                      /\ found[i].listed \in BOOLEAN
                      /\ found[i].smtp \in Seq(WrittenItem)
<1>1. Len(chosen) \in 1..3 /\ chosen \in Seq({"yaml", "azure-app-config", "environment"})
  BY SelectionsAssumption DEF Loadable
<1>2. DOMAIN chosen = 1..Len(chosen)
  BY <1>1
<1>3. \A i \in 1..Len(chosen) : found[i] \in SourcesOf(chosen[i])
  <2>1. CASE Len(chosen) = 1
    BY <2>1 DEF Loadable, AllSources
  <2>2. CASE Len(chosen) = 2
    BY <2>2 DEF Loadable, AllSources
  <2>3. CASE Len(chosen) = 3
    BY <2>3 DEF Loadable, AllSources
  <2> QED
    BY <1>1, <2>1, <2>2, <2>3
<1>4. ASSUME NEW i \in 1..Len(chosen)
      PROVE  /\ found[i].database \in {"absent", "empty", "usable"}
             /\ chosen[i] = "environment" =>
                      /\ found[i].host \in {"absent", "usable"}
                      /\ found[i].password \in {"absent", "usable"}
             /\ chosen[i] # "environment" =>
                      /\ found[i].listed \in BOOLEAN
                      /\ found[i].smtp \in Seq(WrittenItem)
  <2>1. ~ApplyError(found[i]) /\ found[i] \in SourcesOf(chosen[i])
    BY <1>2, <1>3 DEF Loadable
  <2>2. CASE chosen[i] = "environment"
    BY <2>1, <2>2 DEF SourcesOf, EnvironmentSource, ApplyError, Written
  <2>3. CASE chosen[i] # "environment"
    <3>1. /\ found[i] \in [database : Written, listed : BOOLEAN,
                           smtp : UNION {[1..n -> WrittenItem] : n \in 0..2}]
      BY <2>1, <2>3 DEF SourcesOf, FileSource
    <3>2. found[i].smtp \in Seq(WrittenItem)
      <4>1. PICK n \in 0..2 : found[i].smtp \in [1..n -> WrittenItem]
        BY <3>1
      <4>2. n \in Nat
        BY <4>1
      <4> QED
        BY <4>1, <4>2, SeqDef
    <3> QED
      BY <2>1, <2>3, <3>1, <3>2 DEF ApplyError, Written
  <2> QED
    BY <2>2, <2>3
<1> QED
  BY <1>1, <1>2, <1>4

\* The database, provider by provider.
LEMMA NextDatabase ==
  ASSUME NEW chosen, NEW found, Loadable(chosen, found),
         NEW k \in Nat, k + 1 <= Len(chosen)
  PROVE  DatabaseAt(chosen, found, k + 1)
         = ApplyScalar(k + 1,
                       IF chosen[k + 1] = "environment" THEN NonEmpty(found[k + 1].database)
                       ELSE found[k + 1].database,
                       DatabaseAt(chosen, found, k))
<1> DEFINE T(n) == {i \in DOMAIN chosen : i <= n /\ Mentions(chosen[i], found[i].database)}
<1>1. /\ k + 1 \in 1..Len(chosen) /\ DOMAIN chosen = 1..Len(chosen) /\ Len(chosen) \in Nat
      /\ found[k + 1].database \in {"absent", "empty", "usable"}
  BY SourceFacts
<1>2. CASE Mentions(chosen[k + 1], found[k + 1].database)
  <2>1. k + 1 \in T(k + 1) /\ \A i \in T(k + 1) : i \in Nat /\ i <= k + 1
    BY <1>1, <1>2
  <2> HIDE DEF T
  <2>2. LastOf(T(k + 1)) = k + 1 /\ k + 1 # 0
    BY <2>1, LastOfNew
  <2>3. MentionAt(chosen, found, k + 1) = k + 1 /\ k + 1 # 0
    BY <2>2 DEF T, MentionAt
  <2> QED
    BY <1>1, <1>2, <2>3 DEF DatabaseAt, Mentions, NonEmpty, ApplyScalar
<1>3. CASE ~Mentions(chosen[k + 1], found[k + 1].database)
  <2>1. T(k + 1) = T(k)
    BY <1>1, <1>3
  <2>2. MentionAt(chosen, found, k + 1) = MentionAt(chosen, found, k)
    BY <2>1 DEF MentionAt
  <2> QED
    BY <1>1, <1>3, <2>2 DEF DatabaseAt, Mentions, NonEmpty, ApplyScalar
<1> QED
  BY <1>2, <1>3

\* A file with a list becomes the one whose list counts.
LEMMA NextFile ==
  ASSUME NEW chosen, NEW found, Loadable(chosen, found),
         NEW k \in Nat, k + 1 <= Len(chosen)
  PROVE  FileAt(chosen, found, k + 1)
         = IF chosen[k + 1] # "environment" /\ found[k + 1].listed THEN k + 1
           ELSE FileAt(chosen, found, k)
<1> DEFINE T(n) == {i \in DOMAIN chosen : i <= n /\ chosen[i] # "environment" /\ found[i].listed}
<1>1. /\ k + 1 \in 1..Len(chosen) /\ DOMAIN chosen = 1..Len(chosen) /\ Len(chosen) \in Nat
  BY SourceFacts
<1>2. CASE chosen[k + 1] # "environment" /\ found[k + 1].listed
  <2>1. k + 1 \in T(k + 1) /\ \A i \in T(k + 1) : i \in Nat /\ i <= k + 1
    BY <1>1, <1>2
  <2> HIDE DEF T
  <2>2. LastOf(T(k + 1)) = k + 1
    BY <2>1, LastOfNew
  <2> QED
    BY <1>2, <2>2 DEF T, FileAt
<1>3. CASE ~(chosen[k + 1] # "environment" /\ found[k + 1].listed)
  <2>1. T(k + 1) = T(k)
    BY <1>1, <1>3
  <2> QED
    BY <1>3, <2>1 DEF FileAt
<1> QED
  BY <1>2, <1>3

\* A variable decides over a field until a file brings a new list.
LEMMA NextLater ==
  ASSUME NEW chosen, NEW found, Loadable(chosen, found),
         NEW k \in Nat, k + 1 <= Len(chosen), FileAt(chosen, found, k) \in 0..k,
         NEW field \in {"host", "password"}
  PROVE  LaterAt(chosen, found, k + 1, field)
         = IF chosen[k + 1] = "environment"
             THEN IF found[k + 1][field] = "usable" THEN k + 1 ELSE LaterAt(chosen, found, k, field)
           ELSE IF found[k + 1].listed THEN 0 ELSE LaterAt(chosen, found, k, field)
<1> DEFINE T(n) == {i \in DOMAIN chosen : /\ i <= n /\ i > FileAt(chosen, found, n)
                                          /\ chosen[i] = "environment"
                                          /\ found[i][field] = "usable"}
<1>1. /\ k + 1 \in 1..Len(chosen) /\ DOMAIN chosen = 1..Len(chosen) /\ Len(chosen) \in Nat
  BY SourceFacts
<1>2. CASE chosen[k + 1] = "environment" /\ found[k + 1][field] = "usable"
  <2>1. FileAt(chosen, found, k + 1) = FileAt(chosen, found, k)
    BY <1>2, NextFile
  <2>2. k + 1 \in T(k + 1) /\ \A i \in T(k + 1) : i \in Nat /\ i <= k + 1
    BY <1>1, <1>2, <2>1
  <2> HIDE DEF T
  <2>3. LastOf(T(k + 1)) = k + 1
    BY <2>2, LastOfNew
  <2> QED
    BY <1>2, <2>3 DEF T, LaterAt
<1>3. CASE chosen[k + 1] # "environment" /\ found[k + 1].listed
  <2>1. FileAt(chosen, found, k + 1) = k + 1
    BY <1>3, NextFile
  <2>2. T(k + 1) = {}
    BY <1>1, <2>1
  <2> HIDE DEF T
  <2>3. LastOf(T(k + 1)) = 0
    BY <2>2, LastOfNone
  <2> QED
    BY <1>3, <2>3 DEF T, LaterAt
<1>4. CASE IF chosen[k + 1] = "environment" THEN found[k + 1][field] # "usable"
           ELSE ~found[k + 1].listed
  <2>1. FileAt(chosen, found, k + 1) = FileAt(chosen, found, k)
    BY <1>4, NextFile
  <2>2. T(k + 1) = T(k)
    BY <1>1, <1>4, <2>1
  <2> QED
    BY <1>4, <2>2 DEF LaterAt
<1> QED
  BY <1>2, <1>3, <1>4

\* Where the list and the deciding variables come from.
PlacesOK(chosen, found, k) ==
    /\ FileAt(chosen, found, k) \in 0..k
    /\ \A field \in {"host", "password"} : LaterAt(chosen, found, k, field) \in 0..k

LEMMA NextPlaces ==
  ASSUME NEW chosen, NEW found, Loadable(chosen, found),
         NEW k \in Nat, k + 1 <= Len(chosen), PlacesOK(chosen, found, k)
  PROVE  PlacesOK(chosen, found, k + 1)
  BY NextFile, NextLater DEF PlacesOK

\* The list that counts is a list.
LEMMA ListFacts ==
  ASSUME NEW chosen, NEW found, Loadable(chosen, found),
         NEW k \in Nat, k <= Len(chosen), PlacesOK(chosen, found, k),
         FileAt(chosen, found, k) # 0 => chosen[FileAt(chosen, found, k)] # "environment"
  PROVE  ListAt(chosen, found, k) \in Seq(WrittenItem)
<1>1. CASE FileAt(chosen, found, k) = 0
  BY <1>1, EmptySeq DEF ListAt
<1>2. CASE FileAt(chosen, found, k) # 0
  <2>1. FileAt(chosen, found, k) \in 1..Len(chosen)
    BY <1>2, SourceFacts DEF PlacesOK
  <2> QED
    BY <1>2, <2>1, SourceFacts DEF ListAt
<1> QED
  BY <1>1, <1>2

\* The servers, after a file with a list.
LEMMA ServersAfterList ==
  ASSUME NEW chosen, NEW found, Loadable(chosen, found),
         NEW k \in Nat, k + 1 <= Len(chosen), PlacesOK(chosen, found, k),
         chosen[k + 1] # "environment", found[k + 1].listed
  PROVE  ServersAt(chosen, found, k + 1)
         = [n \in DOMAIN found[k + 1].smtp |-> ApplyItem(k + 1, found[k + 1].smtp[n])]
<1> DEFINE list == found[k + 1].smtp
<1>1. /\ FileAt(chosen, found, k + 1) = k + 1
      /\ LaterAt(chosen, found, k + 1, "host") = 0
      /\ LaterAt(chosen, found, k + 1, "password") = 0
  BY NextFile, NextLater DEF PlacesOK
<1>2. k + 1 # 0 /\ k + 1 \in 1..Len(chosen)
  BY SourceFacts
<1>3. ListAt(chosen, found, k + 1) = list
  BY <1>1, <1>2 DEF ListAt
<1>4. list \in Seq(WrittenItem)
  BY <1>2, SourceFacts
<1>5. SizeAt(chosen, found, k + 1) = Len(list)
  BY <1>1, <1>3 DEF SizeAt
<1> HIDE DEF list
<1>6. DOMAIN list = 1..Len(list) /\ Len(list) \in Nat
  BY <1>4, LenProperties
<1>7. ASSUME NEW n \in 1..Len(list), NEW field \in {"host", "password"}
      PROVE  FieldAt(chosen, found, k + 1, n, field) = ApplyScalar(k + 1, list[n][field], Unset)
  <2>1. list[n][field] \in {"absent", "usable"}
    <3>1. list[n] \in WrittenItem
      BY <1>4, ElementOfSeq
    <3>2. CASE field = "host"
      BY <3>1, <3>2 DEF WrittenItem
    <3>3. CASE field = "password"
      BY <3>1, <3>3 DEF WrittenItem
    <3> QED
      BY <3>2, <3>3
  <2>2. n <= Len(list)
    BY <1>6
  <2>3. LaterAt(chosen, found, k + 1, field) = 0
    BY <1>1
  <2> QED
    BY <1>1, <1>3, <2>1, <2>2, <2>3 DEF FieldAt, ApplyScalar
<1>8. ServersAt(chosen, found, k + 1) = [n \in 1..Len(list) |-> ApplyItem(k + 1, list[n])]
  BY <1>5, <1>7 DEF ServersAt, ApplyItem
<1> QED
  BY <1>6, <1>8 DEF list

\* The servers, after a file without one.
LEMMA ServersAfterNoList ==
  ASSUME NEW chosen, NEW found, Loadable(chosen, found),
         NEW k \in Nat, k + 1 <= Len(chosen), PlacesOK(chosen, found, k),
         chosen[k + 1] # "environment", ~found[k + 1].listed
  PROVE  ServersAt(chosen, found, k + 1) = ServersAt(chosen, found, k)
<1>1. FileAt(chosen, found, k + 1) = FileAt(chosen, found, k)
  BY NextFile
<1>2. /\ LaterAt(chosen, found, k + 1, "host") = LaterAt(chosen, found, k, "host")
      /\ LaterAt(chosen, found, k + 1, "password") = LaterAt(chosen, found, k, "password")
  BY NextLater DEF PlacesOK
<1>3. ListAt(chosen, found, k + 1) = ListAt(chosen, found, k)
  BY <1>1 DEF ListAt
<1>4. SizeAt(chosen, found, k + 1) = SizeAt(chosen, found, k)
  BY <1>2, <1>3 DEF SizeAt
<1>5. \A n : /\ FieldAt(chosen, found, k + 1, n, "host") = FieldAt(chosen, found, k, n, "host")
             /\ FieldAt(chosen, found, k + 1, n, "password") = FieldAt(chosen, found, k, n, "password")
  BY <1>1, <1>2, <1>3 DEF FieldAt
<1> QED
  BY <1>4, <1>5 DEF ServersAt

\* The servers, after the variables.
LEMMA ServersAfterEnvironment ==
  ASSUME NEW chosen, NEW found, Loadable(chosen, found),
         NEW k \in Nat, k + 1 <= Len(chosen), PlacesOK(chosen, found, k),
         ListAt(chosen, found, k) \in Seq(WrittenItem),
         chosen[k + 1] = "environment"
  PROVE  ServersAt(chosen, found, k + 1)
         = applySMTPEnvOverrides(k + 1, found[k + 1], ServersAt(chosen, found, k))
<1> DEFINE host == found[k + 1].host
           password == found[k + 1].password
           list == ListAt(chosen, found, k)
           file == FileAt(chosen, found, k)
           h == LaterAt(chosen, found, k, "host")
           p == LaterAt(chosen, found, k, "password")
           Old(n, field) == FieldAt(chosen, found, k, n, field)
           New(n, field) == FieldAt(chosen, found, k + 1, n, field)
           old == ServersAt(chosen, found, k)
           size == SizeAt(chosen, found, k)
<1>1. FileAt(chosen, found, k + 1) = file
  BY NextFile
<1>2. ListAt(chosen, found, k + 1) = list
  BY <1>1 DEF ListAt
<1>3. /\ LaterAt(chosen, found, k + 1, "host") = IF host = "usable" THEN k + 1 ELSE h
      /\ LaterAt(chosen, found, k + 1, "password") = IF password = "usable" THEN k + 1 ELSE p
  BY NextLater DEF PlacesOK
<1>4. host \in {"absent", "usable"} /\ password \in {"absent", "usable"}
  <2>1. k + 1 \in 1..Len(chosen)
    BY SourceFacts
  <2> QED
    BY <2>1, SourceFacts
<1>5. k + 1 # 0 /\ h \in Nat /\ p \in Nat
  BY DEF PlacesOK
<1>6. /\ Len(list) \in Nat /\ (list = <<>> <=> Len(list) = 0)
  BY EmptySeq, LenProperties
<1>7. size = IF list = <<>> /\ (h # 0 \/ p # 0) THEN 1 ELSE Len(list)
  BY DEF SizeAt
<1>8. SizeAt(chosen, found, k + 1) =
          IF list = <<>> /\ (host = "usable" \/ password = "usable" \/ h # 0 \/ p # 0)
            THEN 1 ELSE Len(list)
  BY <1>2, <1>3, <1>5 DEF SizeAt
<1>9. /\ \A n : New(n, "host") = IF n = 1 /\ host = "usable" THEN k + 1 ELSE Old(n, "host")
      /\ \A n : New(n, "password") = IF n = 1 /\ password = "usable" THEN k + 1 ELSE Old(n, "password")
  BY <1>1, <1>2, <1>3, <1>5 DEF FieldAt
<1>10. old = [n \in 1..size |-> [host |-> Old(n, "host"), password |-> Old(n, "password")]]
  BY DEF ServersAt
<1>11. ServersAt(chosen, found, k + 1) =
          [n \in 1..SizeAt(chosen, found, k + 1) |->
              [host |-> New(n, "host"), password |-> New(n, "password")]]
  BY DEF ServersAt
<1>12. old = <<>> <=> size = 0
  <2>1. size \in Nat
    BY <1>6, <1>7
  <2>2. DOMAIN old = 1..size
    BY <1>10
  <2>3. size = 0 => old = <<>>
    BY <1>10
  <2>4. old = <<>> => 1 \notin 1..size
    BY <2>2
  <2> QED
    BY <2>1, <2>3, <2>4
<1>13. list = <<>> /\ h = 0 /\ p = 0 => Old(1, "host") = Unset /\ Old(1, "password") = Unset
  <2> SUFFICES ASSUME list = <<>>, h = 0, p = 0
               PROVE  Old(1, "host") = Unset /\ Old(1, "password") = Unset
    OBVIOUS
  <2>1. ~(1 <= Len(list))
    BY <1>6
  <2> QED
    BY <2>1 DEF FieldAt
<1> HIDE DEF host, password, list, file, h, p, Old, New, old, size
<1>14. applySMTPEnvOverrides(k + 1, found[k + 1], old) =
          IF host = "absent" /\ password = "absent" THEN old
          ELSE LET first == IF old = <<>> THEN NewItem ELSE old[1]
                   item == [host |-> ApplyScalar(k + 1, host, first.host),
                            password |-> ApplyScalar(k + 1, password, first.password)] IN
               IF old = <<>> THEN <<item>> ELSE [old EXCEPT ![1] = item]
  BY DEF applySMTPEnvOverrides, host, password
<1>15. CASE host = "absent" /\ password = "absent"
  <2>1. SizeAt(chosen, found, k + 1) = size
    BY <1>7, <1>8, <1>15
  <2>2. \A n : New(n, "host") = Old(n, "host") /\ New(n, "password") = Old(n, "password")
    BY <1>9, <1>15
  <2> QED
    BY <1>10, <1>11, <1>14, <1>15, <2>1, <2>2 DEF old
<1>16. CASE host = "usable" \/ password = "usable"
  <2>1. CASE size = 0
    <3>1. list = <<>> /\ h = 0 /\ p = 0 /\ SizeAt(chosen, found, k + 1) = 1
      BY <1>6, <1>7, <1>8, <1>16, <2>1
    <3>2. /\ New(1, "host") = ApplyScalar(k + 1, host, Unset)
          /\ New(1, "password") = ApplyScalar(k + 1, password, Unset)
      BY <1>4, <1>9, <1>13, <3>1 DEF ApplyScalar
    <3>3. ServersAt(chosen, found, k + 1) = [n \in 1..1 |->
              [host |-> ApplyScalar(k + 1, host, Unset),
               password |-> ApplyScalar(k + 1, password, Unset)]]
      BY <1>11, <3>1, <3>2
    <3>4. applySMTPEnvOverrides(k + 1, found[k + 1], old) =
              <<[host |-> ApplyScalar(k + 1, host, Unset),
                 password |-> ApplyScalar(k + 1, password, Unset)]>>
      BY <1>12, <1>14, <1>16, <2>1 DEF NewItem
    <3> QED
      BY <3>3, <3>4 DEF old
  <2>2. CASE size # 0
    <3>1. SizeAt(chosen, found, k + 1) = size /\ size \in Nat
      BY <1>6, <1>7, <1>8, <2>2
    <3>2. 1 \in 1..size
      BY <3>1, <2>2
    <3>3. old[1] = [host |-> Old(1, "host"), password |-> Old(1, "password")]
      BY <1>10, <3>2
    <3>4. /\ New(1, "host") = ApplyScalar(k + 1, host, old[1].host)
          /\ New(1, "password") = ApplyScalar(k + 1, password, old[1].password)
      BY <1>4, <1>9, <3>3 DEF ApplyScalar
    <3>5. applySMTPEnvOverrides(k + 1, found[k + 1], old) =
              [old EXCEPT ![1] = [host |-> New(1, "host"), password |-> New(1, "password")]]
      BY <1>12, <1>14, <1>16, <2>2, <3>4
    <3>6. \A n \in 1..size : n # 1 =>
              old[n] = [host |-> New(n, "host"), password |-> New(n, "password")]
      BY <1>9, <1>10
    <3>7. [old EXCEPT ![1] = [host |-> New(1, "host"), password |-> New(1, "password")]]
          = [n \in 1..size |-> [host |-> New(n, "host"), password |-> New(n, "password")]]
      BY <1>10, <3>2, <3>6
    <3> QED
      BY <1>11, <3>1, <3>5, <3>7 DEF old
  <2> QED
    BY <2>1, <2>2
<1> QED
  BY <1>4, <1>15, <1>16

\* Nothing is promised before the first provider.
LEMMA NothingPromised ==
  ASSUME NEW chosen, NEW found, Loadable(chosen, found)
  PROVE  /\ PromisedAt(chosen, found, 0) = EmptyConfig
         /\ PlacesOK(chosen, found, 0)
         /\ FileAt(chosen, found, 0) = 0
<1>1. \A i \in DOMAIN chosen : ~(i <= 0)
  BY SourceFacts
<1>2. MentionAt(chosen, found, 0) = 0 /\ FileAt(chosen, found, 0) = 0
  BY <1>1, LastOfNone DEF MentionAt, FileAt
<1>3. \A field \in {"host", "password"} : LaterAt(chosen, found, 0, field) = 0
  BY <1>1, LastOfNone DEF LaterAt
<1>4. ListAt(chosen, found, 0) = <<>> /\ SizeAt(chosen, found, 0) = 0
  BY <1>2, <1>3, EmptySeq DEF ListAt, SizeAt
<1>5. ServersAt(chosen, found, 0) = <<>>
  BY <1>4 DEF ServersAt
<1>6. DatabaseAt(chosen, found, 0) = Unset
  BY <1>2 DEF DatabaseAt
<1> QED
  BY <1>2, <1>3, <1>5, <1>6 DEF PromisedAt, PlacesOK, EmptyConfig

\* Where the list comes from is a file.
FileOK(chosen, found, k) ==
    FileAt(chosen, found, k) # 0 => chosen[FileAt(chosen, found, k)] # "environment"

\* One more provider does what is promised of it.
LEMMA NextPromised ==
  ASSUME NEW chosen, NEW found, Loadable(chosen, found),
         NEW k \in Nat, k + 1 <= Len(chosen),
         PlacesOK(chosen, found, k), FileOK(chosen, found, k)
  PROVE  /\ PromisedAt(chosen, found, k + 1)
            = AppliedAt(chosen, found, k + 1, PromisedAt(chosen, found, k))
         /\ PlacesOK(chosen, found, k + 1) /\ FileOK(chosen, found, k + 1)
<1>1. k <= Len(chosen)
  BY SourceFacts
<1>2. ListAt(chosen, found, k) \in Seq(WrittenItem)
  BY <1>1, ListFacts DEF FileOK
<1>3. PlacesOK(chosen, found, k + 1)
  BY NextPlaces
<1>4. FileOK(chosen, found, k + 1)
  BY NextFile DEF FileOK
<1>5. /\ PromisedAt(chosen, found, k).database = DatabaseAt(chosen, found, k)
      /\ PromisedAt(chosen, found, k).smtp = ServersAt(chosen, found, k)
  BY DEF PromisedAt
<1>6. CASE chosen[k + 1] = "environment"
  <2>1. DatabaseAt(chosen, found, k + 1)
        = ApplyScalar(k + 1, NonEmpty(found[k + 1].database), DatabaseAt(chosen, found, k))
    BY <1>6, NextDatabase
  <2>2. ServersAt(chosen, found, k + 1)
        = applySMTPEnvOverrides(k + 1, found[k + 1], ServersAt(chosen, found, k))
    BY <1>2, <1>6, ServersAfterEnvironment
  <2>3. AppliedAt(chosen, found, k + 1, PromisedAt(chosen, found, k))
        = [database |-> ApplyScalar(k + 1, NonEmpty(found[k + 1].database),
                                    DatabaseAt(chosen, found, k)),
           smtp |-> applySMTPEnvOverrides(k + 1, found[k + 1], ServersAt(chosen, found, k))]
    BY <1>5, <1>6 DEF AppliedAt, ApplyEnvironment
  <2> QED
    BY <1>3, <1>4, <2>1, <2>2, <2>3 DEF PromisedAt
<1>7. CASE chosen[k + 1] # "environment"
  <2>1. DatabaseAt(chosen, found, k + 1)
        = ApplyScalar(k + 1, found[k + 1].database, DatabaseAt(chosen, found, k))
    BY <1>7, NextDatabase
  <2>2. ServersAt(chosen, found, k + 1)
        = IF ~found[k + 1].listed THEN ServersAt(chosen, found, k)
          ELSE [n \in DOMAIN found[k + 1].smtp |-> ApplyItem(k + 1, found[k + 1].smtp[n])]
    BY <1>7, ServersAfterList, ServersAfterNoList
  <2>3. AppliedAt(chosen, found, k + 1, PromisedAt(chosen, found, k))
        = [database |-> ApplyScalar(k + 1, found[k + 1].database, DatabaseAt(chosen, found, k)),
           smtp |-> IF ~found[k + 1].listed THEN ServersAt(chosen, found, k)
                    ELSE [n \in DOMAIN found[k + 1].smtp |-> ApplyItem(k + 1, found[k + 1].smtp[n])]]
    BY <1>5, <1>7 DEF AppliedAt, applyYAMLConfig
  <2> QED
    BY <1>3, <1>4, <2>1, <2>2, <2>3 DEF PromisedAt
<1> QED
  BY <1>3, <1>4, <1>6, <1>7

\* After every provider, what is promised so far stands.
LEMMA PromisesKept ==
  ASSUME NEW chosen, NEW found, Loadable(chosen, found)
  PROVE  \A k \in 0..Len(chosen) : PlacesOK(chosen, found, k) /\ FileOK(chosen, found, k)
<1> DEFINE P == {k \in Nat : k <= Len(chosen) =>
                                 PlacesOK(chosen, found, k) /\ FileOK(chosen, found, k)}
<1>1. 0 \in P
  BY NothingPromised DEF FileOK
<1>2. ASSUME NEW k \in Nat, k \in P PROVE k + 1 \in P
  <2> SUFFICES ASSUME k + 1 <= Len(chosen)
               PROVE  PlacesOK(chosen, found, k + 1) /\ FileOK(chosen, found, k + 1)
    OBVIOUS
  <2>1. k <= Len(chosen)
    BY SourceFacts
  <2> QED
    BY <1>2, <2>1, NextPromised
<1> HIDE DEF P
<1>3. \A k \in Nat : k \in P
  BY <1>1, <1>2, Induction
<1> QED
  BY <1>3, SourceFacts DEF P

\* Applying the providers one by one gives what is promised of them all: the
\* promises are a solution of the recursion in Applied, and the only one.
LEMMA AppliedIsPromised ==
  ASSUME NEW chosen, NEW found, Loadable(chosen, found)
  PROVE  Applied(chosen, found) = PromisedAt(chosen, found, Len(chosen))
<1> DEFINE Is(f) == f = [i \in 0..Len(chosen) |->
                            IF i = 0 THEN EmptyConfig
                            ELSE IF chosen[i] = "environment"
                                   THEN ApplyEnvironment(i, found[i], f[i - 1])
                                   ELSE applyYAMLConfig(i, found[i], f[i - 1])]
           after == CHOOSE f : Is(f)
           promised == [i \in 0..Len(chosen) |-> PromisedAt(chosen, found, i)]
<1>1. Len(chosen) \in Nat
  BY SourceFacts
<1>2. Is(promised)
  <2> SUFFICES ASSUME NEW i \in 0..Len(chosen)
               PROVE  PromisedAt(chosen, found, i)
                      = IF i = 0 THEN EmptyConfig ELSE AppliedAt(chosen, found, i, promised[i - 1])
    BY DEF AppliedAt
  <2>1. CASE i = 0
    BY <2>1, NothingPromised
  <2>2. CASE i # 0
    <3>1. i - 1 \in Nat /\ i - 1 \in 0..Len(chosen) /\ (i - 1) + 1 = i
      BY <1>1, <2>2
    <3>2. PromisedAt(chosen, found, (i - 1) + 1)
          = AppliedAt(chosen, found, (i - 1) + 1, PromisedAt(chosen, found, i - 1))
      BY <1>1, <3>1, PromisesKept, NextPromised
    <3> QED
      BY <2>2, <3>1, <3>2
  <2> QED
    BY <2>1, <2>2
<1> HIDE DEF Is
<1>3. Is(after)
  BY <1>2
<1>4. Applied(chosen, found) = after[Len(chosen)]
  BY DEF Applied, Is
<1> HIDE DEF after
<1>5. \A i \in 0..Len(chosen) :
          after[i] = IF i = 0 THEN EmptyConfig ELSE AppliedAt(chosen, found, i, after[i - 1])
  BY <1>3 DEF Is, AppliedAt
<1>6. \A i \in 0..Len(chosen) :
          promised[i] = IF i = 0 THEN EmptyConfig ELSE AppliedAt(chosen, found, i, promised[i - 1])
  <2> HIDE DEF promised
  <2> QED
    BY <1>2 DEF Is, AppliedAt
<1> DEFINE P == {k \in Nat : k <= Len(chosen) => after[k] = promised[k]}
<1> HIDE DEF promised
<1>7. 0 \in P
  BY <1>1, <1>5, <1>6
<1>8. ASSUME NEW k \in Nat, k \in P PROVE k + 1 \in P
  <2> SUFFICES ASSUME k + 1 <= Len(chosen) PROVE after[k + 1] = promised[k + 1]
    OBVIOUS
  <2>1. /\ k + 1 \in 0..Len(chosen) /\ k + 1 # 0 /\ (k + 1) - 1 = k
        /\ after[k] = promised[k]
    BY <1>1, <1>8
  <2> QED
    BY <1>5, <1>6, <2>1
<1> HIDE DEF P
<1>9. \A k \in Nat : k \in P
  BY <1>7, <1>8, Induction
<1>10. after[Len(chosen)] = promised[Len(chosen)]
  BY <1>1, <1>9 DEF P
<1> QED
  BY <1>1, <1>4, <1>10 DEF promised

\* The promise about all the providers is the one about as many as there are.
LEMMA PromisedIsAll ==
  ASSUME NEW chosen, NEW found, Loadable(chosen, found)
  PROVE  Promised(chosen, found) = PromisedAt(chosen, found, Len(chosen))
<1> DEFINE size == Len(chosen)
<1>1. \A i \in DOMAIN chosen : i <= size
  BY SourceFacts
<1>2. LastMention(chosen, found, "database") = DatabaseAt(chosen, found, size)
  <2>1. LastOf({i \in DOMAIN chosen : Mentions(chosen[i], found[i]["database"])})
        = MentionAt(chosen, found, size)
    BY <1>1 DEF MentionAt
  <2> QED
    BY <2>1 DEF LastMention, DatabaseAt
<1>3. LastOf({i \in DOMAIN chosen : chosen[i] # "environment" /\ found[i].listed})
      = FileAt(chosen, found, size)
  BY <1>1 DEF FileAt
<1>4. \A field : LastOf({i \in DOMAIN chosen : /\ i > FileAt(chosen, found, size)
                                              /\ chosen[i] = "environment"
                                              /\ found[i][field] = "usable"})
                 = LaterAt(chosen, found, size, field)
  BY <1>1 DEF LaterAt
<1> DEFINE file == LastOf({i \in DOMAIN chosen : chosen[i] # "environment" /\ found[i].listed})
           list == IF file = 0 THEN <<>> ELSE found[file].smtp
           Later(field) == LastOf({i \in DOMAIN chosen :
                               i > file /\ chosen[i] = "environment" /\ found[i][field] = "usable"})
           Field(n, field) ==
               IF n = 1 /\ Later(field) # 0 THEN Later(field)
               ELSE IF n <= Len(list) /\ list[n][field] = "usable" THEN file ELSE Unset
           servers == IF list = <<>> /\ (Later("host") # 0 \/ Later("password") # 0)
                        THEN 1 ELSE Len(list)
<1>5. PromisedServers(chosen, found)
      = [n \in 1..servers |-> [host |-> Field(n, "host"), password |-> Field(n, "password")]]
  BY DEF PromisedServers
<1>6. file = FileAt(chosen, found, size)
  BY <1>3
<1>7. \A field : Later(field) = LaterAt(chosen, found, size, field)
  BY <1>4, <1>6
<1> HIDE DEF file, Later, size
<1>8. list = ListAt(chosen, found, size)
  BY <1>6 DEF ListAt
<1>9. servers = SizeAt(chosen, found, size)
  BY <1>7, <1>8 DEF SizeAt
<1>10. \A n, field : Field(n, field) = FieldAt(chosen, found, size, n, field)
  BY <1>6, <1>7, <1>8 DEF FieldAt
<1> HIDE DEF list, Field, servers
<1>11. PromisedServers(chosen, found) = ServersAt(chosen, found, size)
  BY <1>5, <1>9, <1>10 DEF ServersAt
<1> QED
  BY <1>2, <1>11 DEF Promised, PromisedAt, size

\* A configuration that loads is the one that was promised.
LEMMA LoadedAsPromised ==
  ASSUME NEW chosen \in Selections, NEW found \in AllSources(chosen), ~LoadError(chosen, found)
  PROVE  Applied(chosen, found) = Promised(chosen, found)
<1>1. Loadable(chosen, found)
  BY DEF Loadable, LoadError
<1> QED
  BY <1>1, AppliedIsPromised, PromisedIsAll

\* main goes on from a loaded configuration only with the backends it names.
LEMMA StepKeepsConfigured == RunsAsConfigured /\ [Next]_vars => RunsAsConfigured'
<1> SUFFICES ASSUME RunsAsConfigured, [Next]_vars PROVE RunsAsConfigured'
  OBVIOUS
<1>1. CASE UNCHANGED <<main, settings>>
  BY <1>1 DEF RunsAsConfigured, settings
<1>2. ASSUME NEW steps, StartupFails(steps) PROVE RunsAsConfigured'
  BY <1>2 DEF StartupFails, RunsAsConfigured
<1>3. CASE LoadConfig
  <2>1. CASE \E steps : StartupFails(steps)
    BY <1>2, <2>1
  <2>2. CASE ~\E steps : StartupFails(steps)
    <3>1. PICK chosen \in Selections : \E found \in AllSources(chosen) :
              /\ ~LoadError(chosen, found)
              /\ selection' = chosen /\ sources' = found /\ config' = Applied(chosen, found)
              /\ StartupGoesOn("configured")
      BY <1>3, <2>2 DEF LoadConfig
    <3>2. PICK found \in AllSources(chosen) :
              /\ ~LoadError(chosen, found)
              /\ selection' = chosen /\ sources' = found /\ config' = Applied(chosen, found)
              /\ StartupGoesOn("configured")
      BY <3>1
    <3>3. Applied(chosen, found) = Promised(chosen, found)
      BY <3>2, LoadedAsPromised
    <3>4. main' = "configured" /\ config' = Promised(selection', sources')
      BY <3>2, <3>3 DEF StartupGoesOn
    <3> QED
      BY <3>4 DEF RunsAsConfigured
  <2> QED
    BY <2>1, <2>2
<1>4. CASE BuildNotifier
  <2>1. CASE StartupFails({"notifier"})
    BY <1>2, <2>1
  <2>2. CASE ~StartupFails({"notifier"})
    BY <1>4, <2>2 DEF BuildNotifier, buildNotifier, StartupGoesOn, RunsAsConfigured
  <2> QED
    BY <2>1, <2>2
<1>5. CASE ConfigUnreadable \/ OpenStoreFails \/ NewRunnerFails
  BY <1>2, <1>5 DEF ConfigUnreadable, OpenStoreFails, NewRunnerFails
<1>6. CASE OpenStore \/ Launch \/ CloseStore
  BY <1>6 DEF OpenStore, StartupGoesOn, Launch, CloseStore, RunsAsConfigured
<1> QED
  BY <1>1, <1>3, <1>4, <1>5, <1>6
  DEF Next, vars, Signal, Collect, ShutdownRequested, ListenFails, Listen, ServeFails,
      BeginShutdown, ShutdownCompletes, ShutdownTimesOut, Return, Accept, HandlerReturns,
      WorkerReturns, StartClaim, ClaimNothing, ClaimRow, NotifyEnds, RecordEnds, TimerFires,
      WorkerGoes

\* The process runs as its providers say: every setting has the value of the
\* last provider that supplies it, and every backend is built, for any
\* selection of providers and whatever they say (load.go 16-17, main.go 175-209).
THEOREM RunsAsConfiguredHolds == Spec => []RunsAsConfigured
<1>1. Init => RunsAsConfigured
  BY DEF Init, RunsAsConfigured
<1> QED
  BY <1>1, StepKeepsConfigured, PTL DEF Spec

-----------------------------------------------------------------------------
(* The fan-out. *)

\* The backends the loop has already called.
Called == {Notifiers[i] : i \in 1 .. next - 1}

\* The shape of the state, and that a backend is recorded only once called.
FTyped ==
    /\ attempt \in Nat
    /\ next \in 1 .. Len(Notifiers) + 1
    /\ left \in 0 .. AttemptTimeout
    /\ slow \subseteq Called /\ IsFiniteSet(slow)
    /\ accepted \subseteq Called
    /\ unavailable \subseteq Called
    /\ failures \subseteq Called

\* No call is lost: each has been accepted or has left its error behind.
CallsAccounted == Called \subseteq accepted \cup failures

\* While the backends that took their time all end within m ...
Within(m) == \A b \in slow : OwnLimit[b] <= m

\* ... each of them has used up at most m of the deadline, ...
TimeAccounted ==
    \A m \in Range(OwnLimit) :
        Within(m) => left + Cardinality(slow) * m >= AttemptTimeout

\* ... and no call met the deadline unless they used all of it.
Served ==
    \A m \in Range(OwnLimit) :
        Within(m) /\ Cardinality(slow) * m < AttemptTimeout
            => Called \subseteq accepted \cup unavailable

FInv == FTyped /\ CallsAccounted /\ TimeAccounted /\ Served

-----------------------------------------------------------------------------
\* Limits are positive, so products with them are natural numbers.
LEMMA LimitsAreNat == \A m \in Range(OwnLimit) : m \in Nat \ {0}
  BY FanoutAssumption DEF Range

\* The list of backends and its indices.
LEMMA NotifiersFacts ==
    /\ Len(Notifiers) \in Nat
    /\ DOMAIN Notifiers = 1 .. Len(Notifiers)
    /\ \A i \in 1 .. Len(Notifiers) : Notifiers[i] \in Range(Notifiers)
    /\ \A i, j \in 1 .. Len(Notifiers) : Notifiers[i] = Notifiers[j] => i = j
  BY FanoutAssumption DEF Range, IsInjective

\* At the start of an attempt nothing has been called and no time is gone.
LEMMA InitFInv == FanoutInit => FInv
  <1> SUFFICES ASSUME FanoutInit PROVE FInv
    OBVIOUS
  <1>1. Called = {} /\ slow = {} /\ Cardinality(slow) = 0
    BY FS_EmptySet DEF FanoutInit, Called
  <1>2. FTyped
    BY <1>1, FS_EmptySet, NotifiersFacts, FanoutAssumption DEF FanoutInit, FTyped
  <1>3. TimeAccounted
    BY <1>1, LimitsAreNat, FanoutAssumption DEF FanoutInit, TimeAccounted
  <1> QED
    BY <1>1, <1>2, <1>3 DEF FInv, CallsAccounted, Served

\* A call moves exactly one backend, never called before, into Called.
LEMMA TakesCalls ==
    ASSUME FInv, NEW b, NEW spent, Takes(b, spent)
    PROVE  /\ next' \in 1 .. Len(Notifiers) + 1
           /\ Called' = Called \cup {b}
           /\ b \notin Called
           /\ b \in Range(Notifiers)
  <1>1. next \in 1 .. Len(Notifiers) /\ b = Notifiers[next] /\ next' = next + 1
    BY NotifiersFacts DEF Takes, FInv, FTyped
  <1>2. Called' = Called \cup {b}
    BY <1>1, NotifiersFacts DEF Called
  <1> QED
    BY <1>1, <1>2, NotifiersFacts DEF Called

\* One more slow backend: the count grows by one.
LEMMA OneMoreSlow ==
    ASSUME FInv, NEW b, b \notin Called
    PROVE  /\ IsFiniteSet(slow \cup {b})
           /\ Cardinality(slow) \in Nat
           /\ Cardinality(slow \cup {b}) = Cardinality(slow) + 1
  BY FS_AddElement, FS_CardinalityType DEF FInv, FTyped

\* The arithmetic of a call that takes time.
LEMMA OneMoreShare ==
    ASSUME NEW k \in Nat, NEW m \in Nat
    PROVE  (k + 1) * m = k * m + m /\ k * m \in Nat
  OBVIOUS

\* A cost within the share m is paid for by one more slow backend, and when
\* k + 1 shares fit under a deadline, k do.
LEMMA SharePays ==
    ASSUME NEW kept \in Nat, NEW m \in Nat, NEW time \in Nat, NEW spent \in 0 .. time,
           NEW deadline \in Nat, spent <= m
    PROVE  /\ time + kept >= deadline => (time - spent) + (kept + m) >= deadline
           /\ kept + m < deadline => kept < deadline
  OBVIOUS

\* Whatever comes of a call, its time is accounted for, and if the slow ones
\* left time for others they had done so before it.
LEMMA TakesTime ==
    ASSUME FInv, NEW b, NEW spent \in 0 .. left, spent <= OwnLimit[b], Takes(b, spent)
    PROVE  /\ left' \in 0 .. AttemptTimeout /\ attempt' = attempt
           /\ slow' \subseteq Called \cup {b} /\ IsFiniteSet(slow')
           /\ Cardinality(slow') \in Nat
           /\ TimeAccounted'
           /\ \A m \in Range(OwnLimit) :
                  Within(m)' /\ Cardinality(slow') * m < AttemptTimeout
                      => Within(m) /\ Cardinality(slow) * m < AttemptTimeout
  <1>1. b \notin Called /\ b \in Range(Notifiers)
    BY TakesCalls
  <1>2. /\ left \in Nat /\ left <= AttemptTimeout /\ left' = left - spent
        /\ AttemptTimeout \in Nat /\ OwnLimit[b] \in Nat /\ attempt' = attempt
    BY <1>1, FanoutAssumption DEF FInv, FTyped, Takes
  <1>3. CASE spent = 0
    <2>1. slow' = slow /\ left' = left
      BY <1>2, <1>3 DEF Takes
    <2> QED
      BY <1>2, <2>1, FS_CardinalityType DEF FInv, FTyped, TimeAccounted, Within
  <1>4. CASE spent > 0
    <2>1. slow' = slow \cup {b}
      BY <1>4 DEF Takes
    <2>2. /\ IsFiniteSet(slow')
          /\ Cardinality(slow) \in Nat
          /\ Cardinality(slow') = Cardinality(slow) + 1
      BY <1>1, <2>1, OneMoreSlow
    <2>3. ASSUME NEW m \in Range(OwnLimit), Within(m)'
          PROVE  /\ Within(m)
                 /\ left' + Cardinality(slow') * m >= AttemptTimeout
                 /\ Cardinality(slow') * m < AttemptTimeout => Cardinality(slow) * m < AttemptTimeout
      <3>1. m \in Nat
        BY LimitsAreNat
      <3>2. Within(m) /\ OwnLimit[b] <= m
        BY <2>1, <2>3 DEF Within
      <3>3. /\ Cardinality(slow') * m = Cardinality(slow) * m + m
            /\ Cardinality(slow) * m \in Nat
        BY <2>2, <3>1, OneMoreShare
      <3>4. left + Cardinality(slow) * m >= AttemptTimeout
        BY <3>2 DEF FInv, TimeAccounted
      <3>5. spent <= m
        BY <1>2, <3>1, <3>2
      <3>6. /\ (left - spent) + (Cardinality(slow) * m + m) >= AttemptTimeout
            /\ Cardinality(slow) * m + m < AttemptTimeout => Cardinality(slow) * m < AttemptTimeout
        BY <1>2, <3>1, <3>3, <3>4, <3>5, SharePays
      <3> QED
        BY <1>2, <3>2, <3>3, <3>6
    <2>4. TimeAccounted'
      BY <2>3 DEF TimeAccounted, Within
    <2>5. slow' \subseteq Called \cup {b} /\ left' \in 0 .. AttemptTimeout
      BY <1>2, <2>1 DEF FInv, FTyped
    <2> QED
      BY <1>2, <2>2, <2>3, <2>4, <2>5
  <1> QED
    BY <1>2, <1>3, <1>4

\* The backend answered, or gave up within its own limit.
LEMMA OutcomeFInv ==
    ASSUME FInv, NEW b, NEW spent \in 0 .. left, spent <= OwnLimit[b], Takes(b, spent),
           \/ accepted' = accepted \cup {b} /\ UNCHANGED <<unavailable, failures>>
           \/ /\ unavailable' = unavailable \cup {b} /\ failures' = failures \cup {b}
              /\ UNCHANGED accepted
    PROVE  FInv'
  <1>1. next' \in 1 .. Len(Notifiers) + 1 /\ Called' = Called \cup {b}
    BY TakesCalls
  <1>2. FTyped' /\ TimeAccounted'
    BY <1>1, TakesTime DEF FInv, FTyped
  <1>3. CallsAccounted'
    BY <1>1 DEF FInv, CallsAccounted
  <1>4. Served'
    <2> SUFFICES ASSUME NEW m \in Range(OwnLimit), Within(m)',
                        Cardinality(slow') * m < AttemptTimeout
                 PROVE  Called' \subseteq accepted' \cup unavailable'
      BY DEF Served, Within
    <2>1. Within(m) /\ Cardinality(slow) * m < AttemptTimeout
      BY TakesTime
    <2>2. Called \subseteq accepted \cup unavailable
      BY <2>1 DEF FInv, Served
    <2> QED
      BY <1>1, <2>2
  <1> QED
    BY <1>2, <1>3, <1>4 DEF FInv

\* The deadline ended the call: the slow ones, this one included, used all of it.
LEMMA DeadlineFInv ==
    ASSUME FInv, NEW b, left <= OwnLimit[b], CallFails(b, left), UNCHANGED unavailable
    PROVE  FInv'
  <1>1. left \in 0 .. left /\ Takes(b, left) /\ left' = left - left /\ left \in Nat
    BY DEF FInv, FTyped, CallFails, Takes
  <1>2. next' \in 1 .. Len(Notifiers) + 1 /\ Called' = Called \cup {b}
    BY <1>1, TakesCalls
  <1>3. FTyped' /\ TimeAccounted' /\ Cardinality(slow') \in Nat
    BY <1>1, <1>2, TakesTime DEF FInv, FTyped, CallFails
  <1>4. CallsAccounted'
    BY <1>2 DEF FInv, CallsAccounted, CallFails
  <1>5. Served'
    <2> SUFFICES ASSUME NEW m \in Range(OwnLimit), Within(m)',
                        Cardinality(slow') * m < AttemptTimeout
                 PROVE  FALSE
      BY DEF Served, Within
    <2>1. left' + Cardinality(slow') * m >= AttemptTimeout
      BY <1>3 DEF TimeAccounted, Within
    <2>2. Cardinality(slow') * m \in Nat
      BY <1>3, LimitsAreNat, OneMoreShare
    <2> QED
      BY <1>1, <2>1, <2>2, FanoutAssumption
  <1> QED
    BY <1>3, <1>4, <1>5 DEF FInv

\* The next attempt starts like the first one.
LEMMA RetryFInv == FInv /\ Retry => FInv'
  <1> SUFFICES ASSUME FInv, Retry PROVE FInv'
    OBVIOUS
  <1>1. /\ next' = 1 /\ left' = AttemptTimeout /\ attempt' \in Nat /\ slow' = {}
        /\ accepted' = {} /\ unavailable' = {} /\ failures' = {}
    BY DEF FInv, FTyped, Retry, StartAttempt
  <1>2. Called' = {} /\ Cardinality(slow') = 0 /\ IsFiniteSet(slow')
    BY <1>1, FS_EmptySet DEF Called
  <1>3. FTyped'
    BY <1>1, <1>2, NotifiersFacts, FanoutAssumption DEF FTyped
  <1>4. TimeAccounted'
    BY <1>1, <1>2, LimitsAreNat, FanoutAssumption DEF TimeAccounted
  <1> QED
    BY <1>1, <1>2, <1>3, <1>4 DEF FInv, CallsAccounted, Served

\* FInv holds throughout: every call of fanoutNotifier.Notify is accounted
\* for, in its outcome and in the time it took from the attempt's deadline.
THEOREM FanoutInvariant == FanoutSpec => []FInv
  <1>1. FanoutInit => FInv
    BY InitFInv
  <1>2. FInv /\ [FanoutNext]_fanoutVars => FInv'
    <2> SUFFICES ASSUME FInv, [FanoutNext]_fanoutVars PROVE FInv'
      OBVIOUS
    <2>1. left \in Nat /\ \A b \in Range(Notifiers) : OwnLimit[b] \in Nat
      BY FanoutAssumption DEF FInv, FTyped
    <2>2. ASSUME NEW b \in Range(Notifiers), NEW spent \in AnswerTimes(b)
          PROVE  spent \in 0 .. left /\ spent <= OwnLimit[b]
      BY <2>1 DEF AnswerTimes, Lesser, CallLimit
    <2>3. ASSUME NEW b \in Range(Notifiers), Accepts(b) PROVE FInv'
      <3>1. PICK spent \in AnswerTimes(b) : Takes(b, spent)
        BY <2>3 DEF Accepts
      <3> QED
        BY <2>2, <2>3, <3>1, OutcomeFInv DEF Accepts
    <2>4. ASSUME NEW b \in Range(Notifiers), Refuses(b) PROVE FInv'
      <3>1. PICK spent \in AnswerTimes(b) : CallFails(b, spent)
        BY <2>4 DEF Refuses
      <3> QED
        BY <2>2, <2>4, <3>1, OutcomeFInv DEF Refuses, CallFails
    <2>5. ASSUME NEW b \in Range(Notifiers), Hangs(b) PROVE FInv'
      <3>1. CallLimit(b) \in 0 .. left /\ CallLimit(b) <= OwnLimit[b]
        BY <2>1, <2>5 DEF Hangs, CallLimit
      <3> QED
        BY <2>5, <3>1, OutcomeFInv DEF Hangs, CallFails
    <2>6. ASSUME NEW b \in Range(Notifiers), CutOff(b) \/ Expired(b) PROVE FInv'
      <3>1. left <= OwnLimit[b] /\ CallFails(b, left) /\ UNCHANGED unavailable
        BY <2>1, <2>6 DEF CutOff, Expired, CallLimit
      <3> QED
        BY <3>1, DeadlineFInv
    <2>7. CASE Retry
      BY <2>7, RetryFInv
    <2>8. CASE UNCHANGED fanoutVars
      BY <2>8 DEF fanoutVars, FInv, FTyped, CallsAccounted, TimeAccounted, Served, Within, Called
    <2> QED
      BY <2>3, <2>4, <2>5, <2>6, <2>7, <2>8 DEF FanoutNext
  <1> QED
    BY <1>1, <1>2, PTL DEF FanoutSpec

\* After the loop every configured backend has been called.
LEMMA ReturnedCalledAll == FInv /\ Returned => Called = Range(Notifiers)
  <1> SUFFICES ASSUME FInv, Returned PROVE Called = Range(Notifiers)
    OBVIOUS
  <1>1. next - 1 = Len(Notifiers)
    BY NotifiersFacts DEF FInv, FTyped, Returned
  <1> QED
    BY <1>1, NotifiersFacts DEF Called, Range

\* A nil error from Notify means that every configured backend took the
\* notification, however many there are and whatever the attempts before did.
THEOREM NilMeansEveryBackendHolds == FanoutSpec => []NilMeansEveryBackend
  <1>1. FInv => NilMeansEveryBackend
    BY ReturnedCalledAll
    DEF FInv, FTyped, CallsAccounted, NilMeansEveryBackend, NotifyError
  <1> QED
    BY <1>1, FanoutInvariant, PTL

\* Calls that take time, successful or not, k of them within m each and k * m
\* less than the attempt's deadline, keep no other backend from being served.
THEOREM BoundedStopsNoOtherHolds == FanoutSpec => []BoundedStopsNoOther
  <1>1. FInv => BoundedStopsNoOther
    BY ReturnedCalledAll DEF FInv, Served, Within, BoundedStopsNoOther
  <1> QED
    BY <1>1, FanoutInvariant, PTL

-----------------------------------------------------------------------------
(* Migrations.  The invariant says what each process may rely on between    *)
(* its steps.  Nobody takes a version off the history, so "at least what I  *)
(* read" stays true; "exactly what I read" needs the lock (SQL) or is       *)
(* checked again (MongoDB).                                                 *)

PCs == {"down", "start", "inspect", "apply", "commit", "record", "open"}

ProcState == [pc : PCs, version : Nat, done : SUBSET Nat, found : Nat]

MTyped ==
    /\ backend \in {"sqlite", "postgres", "mongodb"}
    /\ schema \in [Versions -> Nat]
    /\ history \subseteq Versions
    /\ Newest \in Nat
    /\ lock \in Processes \cup {NULL}
    /\ proc \in [Processes -> ProcState]

\* A process that has read a history it supports.
Accepted(p) == proc[p].version <= Newest /\ proc[p].found <= Known[p]

\* SQLite: the write lock is held from the statements to the commit, and only
\* while it is held is the pc version known to be missing.
SqliteInv(p) ==
    /\ proc[p].pc \in {"down", "start", "apply", "commit", "open"}
    /\ proc[p].pc \in {"apply", "commit"} => Accepted(p)
    /\ proc[p].pc = "commit" => /\ lock = p
                                /\ proc[p].version < Known[p]
                                /\ proc[p].version + 1 \notin history

\* PostgreSQL: one process at a time looks at the history and extends it.
PostgresInv(p) ==
    /\ proc[p].pc \in {"down", "start", "inspect", "apply", "open"}
    /\ proc[p].pc \in {"inspect", "apply"} => lock = p
    /\ proc[p].pc # "apply" => proc[p].done = {}
    /\ proc[p].pc = "apply" => /\ proc[p].found <= Known[p]
                               /\ Newest <= proc[p].version
                               /\ proc[p].version <= Known[p]
                               /\ proc[p].done = (Newest + 1)..proc[p].version

\* MongoDB: what a process has created stays there.
MongoInv(p) ==
    /\ proc[p].pc \in {"down", "start", "inspect", "record", "open"}
    /\ proc[p].pc = "start" => /\ proc[p].version <= Known[p]
                               /\ \A i \in 1..proc[p].version : schema[i] = 1
    /\ proc[p].pc \in {"inspect", "record"} => \A i \in 1..Known[p] : schema[i] = 1
    /\ proc[p].pc = "record" => Accepted(p)

OpenInv(p) == proc[p].pc = "open" => Known[p] <= Newest /\ proc[p].found <= Known[p]

ProcInv(p) ==
    /\ OpenInv(p)
    /\ backend = "sqlite" => SqliteInv(p)
    /\ backend = "postgres" => PostgresInv(p)
    /\ backend = "mongodb" => MongoInv(p)

MInv ==
    /\ MTyped
    /\ HistoryIsTrue
    /\ \A p \in Processes : ProcInv(p)

-----------------------------------------------------------------------------
(* The history is always 1..Newest. *)

\* The largest of no versions or of the versions up to n.
LEMMA MaxUpTo ==
  ASSUME NEW n \in Nat
  PROVE  Max((1..n) \cup {0}) = n
<1> DEFINE S == (1..n) \cup {0}
           Largest(x) == \A y \in S : x >= y
<1>1. n \in S /\ Largest(n)
  OBVIOUS
<1>2. \A x \in S : Largest(x) => x = n
  BY <1>1
<1>3. Max(S) = CHOOSE x \in S : Largest(x)
  BY DEF Max
<1> HIDE DEF S, Largest
<1>4. (CHOOSE x \in S : Largest(x)) \in S /\ Largest(CHOOSE x \in S : Largest(x))
  BY <1>1
<1>5. Max(S) = n
  BY <1>2, <1>3, <1>4
<1> QED
  BY <1>5 DEF S

\* The history read as a number.
LEMMA HistoryUpTo ==
  ASSUME MInv
  PROVE  history = 1..Newest /\ Newest \in Nat
  BY DEF MInv, MTyped, HistoryIsTrue, Contiguous, Newest

\* A history that grows without a gap.
LEMMA HistoryExtended ==
  ASSUME NEW n \in Nat, history' = 1..n
  PROVE  Newest' = n /\ Contiguous(history)'
<1>1. Max(history' \cup {0}) = n
  BY MaxUpTo
<1> QED
  BY <1>1 DEF Newest, Contiguous

\* Every version of a binary is one of Versions.
LEMMA KnownVersions ==
  ASSUME NEW p \in Processes
  PROVE  Known[p] \in Nat \ {0} /\ \A i \in 1..Known[p] : i \in Versions /\ i \in Nat
  BY MigrationAssumption DEF Versions

-----------------------------------------------------------------------------
(* What a step of one process leaves to the others. *)

Leaves(p) ==
    /\ backend' = backend
    /\ Newest' \in Nat /\ Newest <= Newest'
    /\ \A q \in Processes \ {p} : proc'[q] = proc[q] /\ (lock = q => lock' = q)
    /\ backend # "mongodb" /\ history' # history => lock = p
    /\ backend = "mongodb" => \A i \in Versions : schema[i] = 1 => schema'[i] = 1

\* What the others rely on survives.
LEMMA OthersKeep ==
  ASSUME MInv, NEW p \in Processes, Leaves(p), NEW q \in Processes, q # p
  PROVE  ProcInv(q)'
<1>1. /\ proc'[q] = proc[q] /\ backend' = backend
      /\ Newest \in Nat /\ Newest' \in Nat /\ Newest <= Newest'
      /\ lock = q => lock' = q
      /\ proc[q] \in ProcState
      /\ Known[q] \in Nat
  BY HistoryUpTo, KnownVersions DEF Leaves, MInv, MTyped
<1>2. /\ proc[q].version \in Nat /\ proc[q].found \in Nat
  BY <1>1 DEF ProcState
<1>3. ProcInv(q)
  BY DEF MInv
<1>4. OpenInv(q)'
  BY <1>1, <1>2, <1>3 DEF ProcInv, OpenInv
<1>5. ASSUME backend = "sqlite" PROVE SqliteInv(q)'
  <2>1. lock = q => history' = history
    BY <1>5, MigrationAssumption DEF Leaves
  <2> QED
    BY <1>1, <1>2, <1>3, <1>5, <2>1 DEF ProcInv, SqliteInv, Accepted
<1>6. ASSUME backend = "postgres" PROVE PostgresInv(q)'
  <2>1. lock = q => Newest' = Newest
    BY <1>6 DEF Leaves, Newest
  <2> QED
    BY <1>1, <1>2, <1>3, <1>6, <2>1 DEF ProcInv, PostgresInv
<1>7. ASSUME backend = "mongodb" PROVE MongoInv(q)'
  <2>1. MongoInv(q)
    BY <1>3, <1>7 DEF ProcInv
  <2>2. \A i \in 1..Known[q] : schema[i] = 1 => schema'[i] = 1
    BY <1>7, KnownVersions DEF Leaves
  <2>3. proc[q].pc = "start" => \A i \in 1..proc[q].version : schema'[i] = 1
    BY <1>1, <1>2, <2>1, <2>2 DEF MongoInv
  <2>4. proc[q].pc \in {"inspect", "record"} => \A i \in 1..Known[q] : schema'[i] = 1
    BY <2>1, <2>2 DEF MongoInv
  <2>5. proc[q].pc = "record" => Accepted(q)'
    BY <1>1, <1>2, <2>1 DEF MongoInv, Accepted
  <2> QED
    BY <1>1, <2>1, <2>3, <2>4, <2>5 DEF MongoInv
<1> QED
  BY <1>1, <1>4, <1>5, <1>6, <1>7 DEF ProcInv

\* A step that writes neither the schema nor the history.
LEMMA QuietStep ==
  ASSUME MInv, NEW p \in Processes, NEW state \in ProcState, Set(p, state),
         UNCHANGED <<backend, schema, history>>,
         lock' \in Processes \cup {NULL},
         \A q \in Processes \ {p} : lock = q => lock' = q,
         ProcInv(p)'
  PROVE  MInv'
<1>1. /\ proc' \in [Processes -> ProcState]
      /\ \A q \in Processes \ {p} : proc'[q] = proc[q]
  BY DEF Set, MInv, MTyped
<1>2. Newest' = Newest
  BY DEF Newest
<1>3. Leaves(p)
  BY <1>1, <1>2, HistoryUpTo DEF Leaves, MInv, MTyped
<1>4. \A q \in Processes : ProcInv(q)'
  BY <1>3, OthersKeep
<1>5. MTyped'
  BY <1>1, <1>2 DEF MInv, MTyped
<1>6. HistoryIsTrue'
  BY DEF MInv, HistoryIsTrue, Contiguous
<1> QED
  BY <1>4, <1>5, <1>6 DEF MInv

\* A process that is down or has just started relies on nothing.
LEMMA FreshProcess ==
  ASSUME MInv, NEW p \in Processes
  PROVE  /\ Down \in ProcState /\ Down.pc = "down" /\ Down.done = {}
         /\ Starting \in ProcState /\ Starting.pc = "start"
         /\ Starting.version = 0 /\ Starting.done = {}
  BY HistoryUpTo DEF Down, Starting, ProcState, PCs

\* Open returns an error, or the process dies, before it has changed anything.
LEMMA StopKeeps ==
  ASSUME MInv, NEW p \in Processes, Stop(p)
  PROVE  MInv'
<1>1. Set(p, Down) /\ Release(p) /\ UNCHANGED <<backend, schema, history>>
  BY DEF Stop
<1>2. proc'[p] = Down
  BY <1>1 DEF Set, MInv, MTyped
<1>3. ProcInv(p)'
  BY <1>2, FreshProcess DEF ProcInv, OpenInv, SqliteInv, PostgresInv, MongoInv
<1>4. /\ lock' \in Processes \cup {NULL}
      /\ \A q \in Processes \ {p} : lock = q => lock' = q
  BY <1>1 DEF Release, MInv, MTyped
<1> QED
  BY <1>1, <1>3, <1>4, FreshProcess, QuietStep

\* A process that reads a history it supports, or gives up.  What it needs to
\* go on is left to the caller.
LEMMA InspectKeeps ==
  ASSUME MInv, NEW p \in Processes, NEW pc \in PCs, Inspect(p, pc),
         /\ proc'[p].pc = pc /\ proc'[p].version = Newest /\ proc'[p].found = Newest
         /\ proc'[p].done = proc[p].done /\ Newest <= Known[p]
         /\ UNCHANGED <<backend, schema, history, lock>>
         => ProcInv(p)'
  PROVE  MInv'
<1> DEFINE state == [proc[p] EXCEPT !.pc = pc, !.version = Newest, !.found = Newest]
<1>1. CASE Stop(p)
  BY <1>1, StopKeeps
<1>2. CASE Supported(p) /\ Set(p, state) /\ UNCHANGED <<backend, schema, history, lock, faults>>
  <2>1. proc[p] \in ProcState
    BY DEF MInv, MTyped
  <2>2. /\ state \in ProcState /\ state.pc = pc /\ state.version = Newest
        /\ state.found = Newest /\ state.done = proc[p].done
    BY <2>1, HistoryUpTo DEF ProcState
  <2> HIDE DEF state
  <2>3. proc'[p] = state
    BY <1>2 DEF Set, MInv, MTyped
  <2>4. ProcInv(p)'
    BY <1>2, <2>2, <2>3 DEF Supported
  <2> QED
    BY <1>2, <2>2, <2>4, QuietStep DEF MInv, MTyped
<1> QED
  BY <1>1, <1>2 DEF Inspect

\* A step that only moves the process on.  What it may rely on then is left
\* to the caller.
LEMMA GoKeeps ==
  ASSUME MInv, NEW p \in Processes, NEW pc \in PCs, Go(p, pc),
         UNCHANGED <<backend, schema, history>>,
         lock' \in Processes \cup {NULL},
         \A q \in Processes \ {p} : lock = q => lock' = q,
         /\ proc'[p].pc = pc /\ proc'[p].version = proc[p].version
         /\ proc'[p].found = proc[p].found /\ proc'[p].done = proc[p].done
         => ProcInv(p)'
  PROVE  MInv'
<1> DEFINE state == [proc[p] EXCEPT !.pc = pc]
<1>1. proc[p] \in ProcState
  BY DEF MInv, MTyped
<1>2. /\ state \in ProcState /\ state.pc = pc /\ state.version = proc[p].version
      /\ state.found = proc[p].found /\ state.done = proc[p].done
  BY <1>1 DEF ProcState
<1>3. Set(p, state)
  BY DEF Go
<1> HIDE DEF state
<1>4. proc'[p] = state
  BY <1>3 DEF Set, MInv, MTyped
<1> QED
  BY <1>2, <1>3, <1>4, QuietStep

-----------------------------------------------------------------------------
(* SQLite *)

\* The history is extended only under the write lock, by the version that is
\* missing.
LEMMA SqliteKeeps ==
  ASSUME MInv, NEW p \in Processes,
         SqliteInspect(p) \/ SqliteExecute(p) \/ SqliteCommit(p) \/ SqliteOpen(p)
  PROVE  MInv'
<1> DEFINE i == proc[p].version + 1
<1>1. /\ backend = "sqlite" /\ SqliteInv(p) /\ proc[p] \in ProcState
      /\ Known[p] \in Nat /\ proc \in [Processes -> ProcState]
  BY KnownVersions DEF MInv, ProcInv, MTyped, SqliteInspect, SqliteExecute, SqliteCommit, SqliteOpen, On
<1>2. proc[p].version \in Nat /\ proc[p].found \in Nat /\ i \in Nat \ {0}
  BY <1>1 DEF ProcState
<1>3. history = 1..Newest /\ Newest \in Nat
  BY HistoryUpTo
<1>4. CASE SqliteInspect(p)
  <2>1. Inspect(p, "apply")
    BY <1>4 DEF SqliteInspect
  <2>2. ASSUME proc'[p].pc = "apply", proc'[p].version = Newest, proc'[p].found = Newest,
               Newest <= Known[p], UNCHANGED <<backend, schema, history, lock>>
        PROVE  ProcInv(p)'
    <3>1. Newest' = Newest
      BY <2>2 DEF Newest
    <3> QED
      BY <1>1, <1>3, <2>2, <3>1 DEF ProcInv, OpenInv, SqliteInv, Accepted
  <2> QED
    BY <2>1, <2>2, InspectKeeps DEF PCs
<1>5. CASE SqliteExecute(p)
  <2>1. CASE Stop(p)
    BY <2>1, StopKeeps
  <2>2. CASE ~Stop(p)
    <3>1. /\ schema[i] = 0 /\ proc[p].version < Known[p] /\ proc[p].pc = "apply"
          /\ lock = NULL /\ lock' = p /\ Go(p, "commit") /\ UNCHANGED <<backend, schema, history>>
      BY <1>5, <2>2 DEF SqliteExecute, On
    <3>2. i \notin history
      BY <1>1, <3>1 DEF MInv, HistoryIsTrue, MTyped
    <3>3. Newest' = Newest
      BY <3>1 DEF Newest
    <3>4. ASSUME proc'[p].pc = "commit", proc'[p].version = proc[p].version,
                 proc'[p].found = proc[p].found
          PROVE  ProcInv(p)'
      BY <1>1, <3>1, <3>2, <3>3, <3>4 DEF ProcInv, OpenInv, SqliteInv, Accepted
    <3> QED
      BY <3>1, <3>4, GoKeeps, MigrationAssumption DEF PCs
  <2> QED
    BY <2>1, <2>2
<1>6. CASE SqliteCommit(p)
  <2> DEFINE state == [proc[p] EXCEPT !.pc = "apply", !.version = i]
  <2>1. /\ proc[p].pc = "commit" /\ schema' = [schema EXCEPT ![i] = @ + 1]
        /\ history' = history \cup {i} /\ Set(p, state) /\ Release(p)
        /\ backend' = backend
    BY <1>6 DEF SqliteCommit, On
  <2>2. /\ lock = p /\ proc[p].version < Known[p] /\ i \notin history
        /\ proc[p].version <= Newest /\ proc[p].found <= Known[p]
    BY <1>1, <2>1 DEF SqliteInv, Accepted
  <2>3. proc[p].version = Newest /\ i \in Versions
    BY <1>1, <1>2, <1>3, <2>2, KnownVersions
  <2>4. history' = 1..i
    BY <1>2, <1>3, <2>1, <2>3
  <2>5. Newest' = i /\ Contiguous(history)'
    BY <1>2, <2>4, HistoryExtended
  <2>6. /\ state \in ProcState /\ state.pc = "apply" /\ state.version = i
        /\ state.found = proc[p].found
    BY <1>1, <1>2 DEF ProcState, PCs
  <2> HIDE DEF state
  <2>7. /\ proc' \in [Processes -> ProcState] /\ proc'[p] = state
        /\ \A q \in Processes \ {p} : proc'[q] = proc[q]
    BY <1>1, <2>1, <2>6 DEF Set
  <2>8. Leaves(p)
    BY <1>1, <1>2, <1>3, <2>1, <2>2, <2>3, <2>5, <2>7 DEF Leaves, Release
  <2>9. ProcInv(p)'
    BY <1>1, <1>2, <2>1, <2>2, <2>5, <2>6, <2>7 DEF ProcInv, OpenInv, SqliteInv, Accepted
  <2>10. MTyped'
    <3>1. schema[i] \in Nat /\ schema' \in [Versions -> Nat]
      BY <2>1, <2>3 DEF MInv, MTyped
    <3> QED
      BY <1>2, <2>1, <2>3, <2>5, <2>7, <3>1, MigrationAssumption DEF MInv, MTyped, Release
  <2>11. HistoryIsTrue'
    <3>1. \A k \in Versions : schema[k] = IF k \in history THEN 1 ELSE 0
      BY <1>1 DEF MInv, HistoryIsTrue
    <3>2. \A k \in Versions : schema'[k] = IF k = i THEN schema[k] + 1 ELSE schema[k]
      BY <2>1, <2>3 DEF MInv, MTyped
    <3>3. \A k \in Versions : schema'[k] = IF k \in history' THEN 1 ELSE 0
      BY <2>1, <2>2, <2>3, <3>1, <3>2
    <3> QED
      BY <1>1, <2>1, <2>5, <3>3 DEF HistoryIsTrue
  <2> QED
    BY <2>8, <2>9, <2>10, <2>11, OthersKeep DEF MInv
<1>7. CASE SqliteOpen(p)
  <2>1. /\ proc[p].pc = "apply" /\ proc[p].version >= Known[p] /\ Go(p, "open")
        /\ UNCHANGED <<backend, schema, history, lock>>
    BY <1>7 DEF SqliteOpen, On, Finish
  <2>2. Newest' = Newest
    BY <2>1 DEF Newest
  <2>3. ASSUME proc'[p].pc = "open", proc'[p].found = proc[p].found PROVE ProcInv(p)'
    BY <1>1, <1>2, <1>3, <2>1, <2>2, <2>3 DEF ProcInv, OpenInv, SqliteInv, Accepted
  <2> QED
    BY <2>1, <2>3, GoKeeps DEF PCs, MInv, MTyped
<1> QED
  BY <1>4, <1>5, <1>6, <1>7

-----------------------------------------------------------------------------
(* PostgreSQL *)

\* What is applied and recorded by the commit is what follows the history.
LEMMA PostgresKeeps ==
  ASSUME MInv, NEW p \in Processes,
         PostgresLock(p) \/ PostgresInspect(p) \/ PostgresApply(p) \/ PostgresCommit(p)
  PROVE  MInv'
<1> DEFINE i == proc[p].version + 1
<1>1. /\ backend = "postgres" /\ PostgresInv(p) /\ proc[p] \in ProcState
      /\ Known[p] \in Nat /\ proc \in [Processes -> ProcState]
  BY KnownVersions DEF MInv, ProcInv, MTyped, PostgresLock, PostgresInspect, PostgresApply,
                       PostgresCommit, On
<1>2. /\ proc[p].version \in Nat /\ proc[p].found \in Nat /\ i \in Nat \ {0}
      /\ proc[p].done \subseteq Nat
  BY <1>1 DEF ProcState
<1>3. history = 1..Newest /\ Newest \in Nat
  BY HistoryUpTo
<1>4. CASE PostgresLock(p)
  <2>1. /\ proc[p].pc = "start" /\ lock = NULL /\ lock' = p /\ Go(p, "inspect")
        /\ UNCHANGED <<backend, schema, history>>
    BY <1>4 DEF PostgresLock, On
  <2>2. ASSUME proc'[p].pc = "inspect", proc'[p].done = proc[p].done PROVE ProcInv(p)'
    BY <1>1, <2>1, <2>2 DEF ProcInv, OpenInv, PostgresInv
  <2> QED
    BY <2>1, <2>2, GoKeeps, MigrationAssumption DEF PCs
<1>5. CASE PostgresInspect(p)
  <2>1. Inspect(p, "apply") /\ proc[p].done = {} /\ lock = p
    BY <1>1, <1>5 DEF PostgresInspect, PostgresInv, On
  <2>2. ASSUME proc'[p].pc = "apply", proc'[p].version = Newest, proc'[p].found = Newest,
               proc'[p].done = {}, Newest <= Known[p],
               UNCHANGED <<backend, schema, history, lock>>
        PROVE  ProcInv(p)'
    <3>1. Newest' = Newest /\ (Newest + 1)..Newest = {}
      BY <1>3, <2>2 DEF Newest
    <3> QED
      BY <1>1, <1>3, <2>1, <2>2, <3>1 DEF ProcInv, OpenInv, PostgresInv
  <2> QED
    BY <2>1, <2>2, InspectKeeps DEF PCs
<1>6. CASE PostgresApply(p)
  <2>1. CASE Stop(p)
    BY <2>1, StopKeeps
  <2>2. CASE ~Stop(p)
    <3> DEFINE done == proc[p].done \cup {i}
               state == [proc[p] EXCEPT !.version = i, !.done = done]
    <3>1. /\ proc[p].pc = "apply" /\ i <= Known[p] /\ Set(p, state)
          /\ UNCHANGED <<backend, schema, history, lock>>
      BY <1>6, <2>2 DEF PostgresApply, On
    <3>2. /\ lock = p /\ Newest <= proc[p].version /\ proc[p].found <= Known[p]
          /\ proc[p].done = (Newest + 1)..proc[p].version
      BY <1>1, <3>1 DEF PostgresInv
    <3>3. done = (Newest + 1)..i /\ done \in SUBSET Nat
      BY <1>2, <1>3, <3>2
    <3> HIDE DEF done
    <3>4. /\ state \in ProcState /\ state.pc = "apply" /\ state.version = i
          /\ state.found = proc[p].found /\ state.done = done
      BY <1>1, <1>2, <3>1, <3>3 DEF ProcState, PCs
    <3> HIDE DEF state
    <3>5. proc'[p] = state /\ Newest' = Newest
      BY <1>1, <3>1 DEF Set, Newest
    <3>6. ProcInv(p)'
      BY <1>1, <1>2, <1>3, <3>1, <3>2, <3>3, <3>4, <3>5 DEF ProcInv, OpenInv, PostgresInv
    <3> QED
      BY <3>1, <3>4, <3>6, QuietStep DEF MInv, MTyped
  <2> QED
    BY <2>1, <2>2
<1>7. CASE PostgresCommit(p)
  <2> DEFINE done == proc[p].done
             state == [proc[p] EXCEPT !.pc = "open", !.done = {}]
  <2>1. /\ proc[p].pc = "apply" /\ proc[p].version >= Known[p]
        /\ schema' = [k \in Versions |-> schema[k] + IF k \in done THEN 1 ELSE 0]
        /\ history' = history \cup done
        /\ Set(p, state) \/ Set(p, Down)
        /\ Release(p) /\ backend' = backend
    BY <1>7 DEF PostgresCommit, On
  <2>2. /\ lock = p /\ Newest <= proc[p].version /\ proc[p].version <= Known[p]
        /\ proc[p].found <= Known[p]
        /\ done = (Newest + 1)..proc[p].version
    BY <1>1, <2>1 DEF PostgresInv
  <2>3. history' = 1..Known[p] /\ \A k \in done : k \notin history
    BY <1>1, <1>2, <1>3, <2>1, <2>2
  <2>4. Newest' = Known[p] /\ Contiguous(history)'
    BY <1>1, <2>3, HistoryExtended
  <2>5. history' \subseteq Versions
    BY <2>3, KnownVersions
  <2>6. /\ state \in ProcState /\ state.pc = "open" /\ state.found = proc[p].found
        /\ state.done = {}
    BY <1>1, <1>2 DEF ProcState, PCs
  <2> HIDE DEF state
  <2>7. /\ proc' \in [Processes -> ProcState] /\ proc'[p] \in {state, Down}
        /\ \A q \in Processes \ {p} : proc'[q] = proc[q]
    BY <1>1, <2>1, <2>6, FreshProcess DEF Set
  <2>8. Leaves(p)
    BY <1>1, <1>2, <1>3, <2>1, <2>2, <2>4, <2>7 DEF Leaves, Release
  <2>9. ProcInv(p)'
    <3>1. proc'[p].pc \in {"open", "down"} /\ proc'[p].done = {}
          /\ (proc'[p].pc = "open" => proc'[p].found = proc[p].found)
      BY <2>6, <2>7, FreshProcess
    <3> QED
      BY <1>1, <2>1, <2>2, <2>4, <3>1 DEF ProcInv, OpenInv, PostgresInv
  <2> HIDE DEF done
  <2>10. \A k \in Versions : schema[k] = IF k \in history THEN 1 ELSE 0
    BY <1>1 DEF MInv, HistoryIsTrue
  <2>11. /\ schema' \in [Versions -> Nat]
         /\ \A k \in Versions : schema'[k] = IF k \in history' THEN 1 ELSE 0
    BY <2>1, <2>3, <2>10
  <2>12. MTyped'
    BY <1>1, <2>1, <2>4, <2>5, <2>7, <2>11 DEF MInv, MTyped, Release
  <2>13. HistoryIsTrue'
    BY <1>1, <2>1, <2>4, <2>11 DEF HistoryIsTrue
  <2> QED
    BY <2>8, <2>9, <2>12, <2>13, OthersKeep DEF MInv
<1> QED
  BY <1>4, <1>5, <1>6, <1>7

-----------------------------------------------------------------------------
(* MongoDB *)

\* Objects come before their record, and a record is written only when the
\* process has just seen all the versions before it.
LEMMA MongoKeeps ==
  ASSUME MInv, NEW p \in Processes,
         MongoEnsure(p) \/ MongoInspect(p) \/ MongoRecord(p) \/ MongoOpen(p)
  PROVE  MInv'
<1> DEFINE i == proc[p].version + 1
<1>1. /\ backend = "mongodb" /\ MongoInv(p) /\ proc[p] \in ProcState
      /\ Known[p] \in Nat /\ proc \in [Processes -> ProcState]
  BY KnownVersions DEF MInv, ProcInv, MTyped, MongoEnsure, MongoInspect, MongoRecord, MongoOpen, On
<1>2. /\ proc[p].version \in Nat /\ proc[p].found \in Nat /\ i \in Nat \ {0}
  BY <1>1 DEF ProcState
<1>3. history = 1..Newest /\ Newest \in Nat
  BY HistoryUpTo
<1>4. ASSUME Inspect(p, "record"), \A k \in 1..Known[p] : schema[k] = 1 PROVE MInv'
  <2>1. ASSUME proc'[p].pc = "record", proc'[p].version = Newest, proc'[p].found = Newest,
               Newest <= Known[p], UNCHANGED <<backend, schema, history, lock>>
        PROVE  ProcInv(p)'
    <3>1. Newest' = Newest
      BY <2>1 DEF Newest
    <3> QED
      BY <1>1, <1>3, <1>4, <2>1, <3>1 DEF ProcInv, OpenInv, MongoInv, Accepted
  <2> QED
    BY <1>4, <2>1, InspectKeeps DEF PCs
<1>5. CASE MongoInspect(p)
  BY <1>1, <1>4, <1>5 DEF MongoInspect, MongoInv, On
<1>6. CASE MongoEnsure(p) /\ i <= Known[p]
  <2> DEFINE state == [proc[p] EXCEPT !.version = i]
  <2>1. /\ proc[p].pc = "start" /\ schema' = [schema EXCEPT ![i] = 1]
        /\ Set(p, state) /\ UNCHANGED <<backend, history, lock>>
    BY <1>1, <1>2, <1>6 DEF MongoEnsure, On
  <2>2. i \in Versions /\ schema \in [Versions -> Nat]
    BY <1>1, <1>2, <1>6, KnownVersions DEF MInv, MTyped
  <2>3. /\ state \in ProcState /\ state.pc = "start" /\ state.version = i
    BY <1>1, <1>2, <2>1 DEF ProcState
  <2> HIDE DEF state
  <2>4. /\ proc' \in [Processes -> ProcState] /\ proc'[p] = state
        /\ \A q \in Processes \ {p} : proc'[q] = proc[q]
    BY <1>1, <2>1, <2>3 DEF Set
  <2>5. Newest' = Newest
    BY <2>1 DEF Newest
  <2>6. Leaves(p)
    BY <1>3, <2>1, <2>2, <2>4, <2>5 DEF Leaves
  <2>7. \A k \in 1..i : schema'[k] = 1
    <3>1. \A k \in 1..proc[p].version : schema[k] = 1 /\ k \in Versions
      BY <1>1, <1>2, <1>6, <2>1, KnownVersions DEF MongoInv
    <3> QED
      BY <1>2, <2>1, <2>2, <3>1
  <2>8. ProcInv(p)'
    BY <1>1, <1>6, <2>1, <2>3, <2>4, <2>7 DEF ProcInv, OpenInv, MongoInv
  <2>9. MTyped'
    BY <1>1, <2>1, <2>2, <2>4, <2>5 DEF MInv, MTyped
  <2>10. HistoryIsTrue'
    BY <1>1, <2>1, <2>2 DEF MInv, HistoryIsTrue, Contiguous
  <2> QED
    BY <2>6, <2>8, <2>9, <2>10, OthersKeep DEF MInv
<1>7. CASE MongoEnsure(p) /\ i > Known[p]
  <2>1. /\ proc[p].pc = "start" /\ Go(p, "inspect") /\ UNCHANGED <<backend, schema, history, lock>>
    BY <1>1, <1>2, <1>7 DEF MongoEnsure, On
  <2>2. \A k \in 1..Known[p] : schema[k] = 1
    BY <1>1, <1>2, <1>7, <2>1 DEF MongoInv
  <2>3. ASSUME proc'[p].pc = "inspect" PROVE ProcInv(p)'
    BY <1>1, <2>1, <2>2, <2>3 DEF ProcInv, OpenInv, MongoInv
  <2> QED
    BY <2>1, <2>3, GoKeeps DEF PCs, MInv, MTyped
<1>8. CASE MongoRecord(p) /\ i \in history
  BY <1>1, <1>4, <1>8 DEF MongoRecord, MongoInv, On
<1>9. CASE MongoRecord(p) /\ i \notin history
  <2> DEFINE seen == Max(history \cup {i})
             state == [proc[p] EXCEPT !.version = i, !.found = seen]
  <2>1. /\ proc[p].pc = "record" /\ i <= Known[p] /\ history' = history \cup {i}
        /\ Set(p, state) /\ UNCHANGED <<backend, schema, lock>>
    BY <1>9 DEF MongoRecord, On
  <2>2. /\ proc[p].version <= Newest /\ \A k \in 1..Known[p] : schema[k] = 1
    BY <1>1, <2>1 DEF MongoInv, Accepted
  <2>3. proc[p].version = Newest /\ i \in Versions
    BY <1>1, <1>2, <1>3, <1>9, <2>1, <2>2, KnownVersions
  <2>4. history' = 1..i
    BY <1>2, <1>3, <2>1, <2>3
  <2>5. Newest' = i /\ Contiguous(history)'
    BY <1>2, <2>4, HistoryExtended
  <2>6. seen = i
    <3>2. \A x \in history \cup {i} : i >= x
      BY <1>2, <2>1, <2>4
    <3>3. \A x \in history \cup {i} : x >= i => x = i
      BY <1>2, <2>1, <2>4
    <3> DEFINE Largest(x) == \A y \in history \cup {i} : x >= y
    <3>4. seen = CHOOSE x \in history \cup {i} : Largest(x)
      BY DEF Max
    <3>5. Largest(i) /\ \A x \in history \cup {i} : Largest(x) => x = i
      BY <3>2, <3>3
    <3> HIDE DEF Largest
    <3> QED
      BY <3>4, <3>5
  <2>7. /\ state \in ProcState /\ state.pc = "record" /\ state.version = i
        /\ state.found = i
    BY <1>1, <1>2, <2>1, <2>6 DEF ProcState
  <2> HIDE DEF state, seen
  <2>8. /\ proc' \in [Processes -> ProcState] /\ proc'[p] = state
        /\ \A q \in Processes \ {p} : proc'[q] = proc[q]
    BY <1>1, <2>1, <2>7 DEF Set
  <2>9. Leaves(p)
    BY <1>1, <1>2, <1>3, <2>1, <2>3, <2>5, <2>8 DEF Leaves
  <2>10. ProcInv(p)'
    BY <1>1, <1>2, <2>1, <2>2, <2>5, <2>7, <2>8 DEF ProcInv, OpenInv, MongoInv, Accepted
  <2>11. MTyped'
    BY <1>1, <1>2, <2>1, <2>3, <2>5, <2>8 DEF MInv, MTyped
  <2>12. HistoryIsTrue'
    <3>1. schema[i] = 1
      BY <1>2, <2>1, <2>2
    <3> QED
      BY <1>1, <2>1, <2>5, <3>1 DEF MInv, HistoryIsTrue
  <2> QED
    BY <2>9, <2>10, <2>11, <2>12, OthersKeep DEF MInv
<1>10. CASE MongoOpen(p)
  <2>1. /\ proc[p].pc = "record" /\ proc[p].version >= Known[p] /\ Go(p, "open")
        /\ UNCHANGED <<backend, schema, history, lock>>
    BY <1>10 DEF MongoOpen, On, Finish
  <2>2. Newest' = Newest
    BY <2>1 DEF Newest
  <2>3. ASSUME proc'[p].pc = "open", proc'[p].found = proc[p].found PROVE ProcInv(p)'
    BY <1>1, <1>2, <1>3, <2>1, <2>2, <2>3 DEF ProcInv, OpenInv, MongoInv, Accepted
  <2> QED
    BY <2>1, <2>3, GoKeeps DEF PCs, MInv, MTyped
<1> QED
  BY <1>1, <1>2, <1>5, <1>6, <1>7, <1>8, <1>9, <1>10

-----------------------------------------------------------------------------

\* MInv holds in every reachable state of every backend.
THEOREM MigrationsInvariant == MigrationSpec => []MInv
<1>1. MigrationInit => MInv
  <2> SUFFICES ASSUME MigrationInit PROVE MInv
    OBVIOUS
  <2>1. history = 1..0
    BY DEF MigrationInit
  <2>2. Newest = 0 /\ Contiguous(history)
    BY <2>1, MaxUpTo DEF Newest, Contiguous
  <2>3. Down \in ProcState /\ Down.pc = "down" /\ Down.done = {}
    BY DEF Down, ProcState, PCs
  <2>4. MTyped
    BY <2>2, <2>3 DEF MigrationInit, MTyped
  <2>5. HistoryIsTrue
    BY <2>2 DEF MigrationInit, HistoryIsTrue
  <2>6. \A p \in Processes : ProcInv(p)
    BY <2>3 DEF MigrationInit, ProcInv, OpenInv, SqliteInv, PostgresInv, MongoInv
  <2> QED
    BY <2>4, <2>5, <2>6 DEF MInv
<1>2. MInv /\ [MigrationNext]_migrationVars => MInv'
  <2> SUFFICES ASSUME MInv, [MigrationNext]_migrationVars PROVE MInv'
    OBVIOUS
  <2>1. CASE UNCHANGED migrationVars
    <3>1. Newest' = Newest
      BY <2>1 DEF migrationVars, Newest
    <3> QED
      BY <2>1, <3>1 DEF migrationVars, MInv, MTyped, HistoryIsTrue, ProcInv, OpenInv, SqliteInv,
                        PostgresInv, MongoInv, Accepted
  <2>2. ASSUME NEW p \in Processes, Start(p) PROVE MInv'
    <3>1. Set(p, Starting) /\ UNCHANGED <<backend, schema, history, lock>>
      BY <2>2 DEF Start
    <3>2. proc'[p] = Starting
      BY <3>1 DEF Set, MInv, MTyped
    <3>3. Known[p] \in Nat
      BY KnownVersions
    <3>4. ProcInv(p)'
      BY <3>2, <3>3, FreshProcess DEF ProcInv, OpenInv, SqliteInv, PostgresInv, MongoInv
    <3> QED
      BY <3>1, <3>4, FreshProcess, QuietStep DEF MInv, MTyped
  <2>3. ASSUME NEW p \in Processes, PostgresLock(p) \/ Work(p) PROVE MInv'
    BY <2>3, SqliteKeeps, PostgresKeeps, MongoKeeps DEF Work
  <2>4. ASSUME NEW p \in Processes, Fault(p) PROVE MInv'
    BY <2>4, StopKeeps DEF Fault
  <2> QED
    BY <2>1, <2>2, <2>3, <2>4 DEF MigrationNext
<1> QED
  BY <1>1, <1>2, PTL DEF MigrationSpec

\* The history is true after every crash and every race, on every backend.
THEOREM HistoryIsTrueHolds == MigrationSpec => []HistoryIsTrue
<1>1. MInv => HistoryIsTrue
  BY DEF MInv
<1> QED
  BY <1>1, MigrationsInvariant, PTL

\* A process that opens the store finds everything its binary needs, and has
\* never worked on a database that is newer than its binary.
THEOREM OpenMeansSupportedHolds == MigrationSpec => []OpenMeansSupported
<1>1. MInv => OpenMeansSupported
  <2> SUFFICES ASSUME MInv, NEW p \in Processes, proc[p].pc = "open"
               PROVE  /\ \A i \in 1..Known[p] : schema[i] > 0 /\ i \in history
                      /\ proc[p].found <= Known[p]
    BY DEF OpenMeansSupported
  <2>1. Known[p] <= Newest /\ proc[p].found <= Known[p]
    BY DEF MInv, ProcInv, OpenInv
  <2>2. \A i \in 1..Known[p] : i \in history
    BY <2>1, HistoryUpTo, KnownVersions
  <2>3. \A i \in 1..Known[p] : schema[i] = 1
    BY <2>2, KnownVersions DEF MInv, HistoryIsTrue, MTyped
  <2> QED
    BY <2>1, <2>2, <2>3
<1> QED
  BY <1>1, MigrationsInvariant, PTL
=============================================================================

--------------------------- MODULE ServicesProofs -----------------------------
(* What the worker and the provider settings keep, for every value of the          *)
(* constants: the provider cache is no staler than its TTL, saved settings build,   *)
(* each process owns one queue, and what every variable of MCServices is.           *)
(*                                                                                  *)
(* The provider cache: an entry is dated by the beginning of the call that loaded   *)
(* it, and the call read the table later than that; so whatever superseded the      *)
(* version it read is younger than the call, and stays younger than the entry as    *)
(* both grow old.                                                                   *)
EXTENDS MCServices, PipelineAttemptsProofs, DocumentProofs

(* The job queue and the worker process (worker.ts, queue.ts). *)

\* What the two counts rest on: a queue has been made only where there is a promise of
\* it, which only a restart forgets, and the latch is shut once the queue was stopped.
\* Who has passed queue.stop() has waited for it, or has found the latch shut by the
\* other of main()'s catch and shutdown(), which is then at its own call or past it.
QueuesIInv ==
    /\ LifecyclesTypeOK
    /\ bosses \in {0, 1}
    /\ queuePromise = "none" => bosses = 0 /\ ~queueSingleton
    /\ stops \in {0, 1}
    /\ ~stopped => stops = 0
    /\ stopped => boot \in {"stopping", "cleaned"} \/ shutdown \in {"stopping", "end", "exit"}
    /\ boot = "cleaned" => settled \/ shutdown # "none"
    /\ shutdown \in {"end", "exit"} => settled \/ boot \in {"stopping", "cleaned"} \/ boot = "failed"
    /\ exit = "0" => shutdown = "exit"
    /\ exit = "1" => boot \in {"unmade", "cleaned"}

\* It holds before the first request and the first signal.
LEMMA LifecyclesInitIInv == LifecyclesInit => QueuesIInv
<1>. SUFFICES ASSUME LifecyclesInit PROVE QueuesIInv
  OBVIOUS
<1>1. upload \in [UploadRequest -> {"none", "checked", "waiting", "lost",
                             "201", "400", "413", "415", "500"}]
  BY DEF LifecyclesInit
<1>2. boot \in Boot /\ shutdown \in Shutdown /\ signals \in 0..MaxSignals
  BY SignalsAssumption DEF LifecyclesInit, Boot, Shutdown
<1>3. /\ database \in BOOLEAN /\ queueSingleton \in BOOLEAN
      /\ stopped = FALSE /\ settled = FALSE /\ attached = FALSE
  BY Zenon DEF LifecyclesInit
<1>5. boot = "begin" /\ shutdown = "none" /\ exit = "running"
  BY DEF LifecyclesInit
<1>4. /\ queuePromise \in {"none", "pending", "kept", "broken"}
      /\ exit \in {"running", "killed", "0", "1"}
      /\ bosses \in Nat /\ stops \in 0..2
      /\ bosses \in {0, 1} /\ stops \in {0, 1}
      /\ bosses = 0 /\ ~queueSingleton
      /\ stops = 0
  BY DEF LifecyclesInit
<1>. QED
  BY <1>1, <1>2, <1>3, <1>4, <1>5 DEF QueuesIInv, LifecyclesTypeOK

\* The web server's requests; the worker plays no part in them.
LEMMA WebStepIInv ==
    ASSUME QueuesIInv,
           \/ DatabaseFlips \/ RestartWeb \/ QueueSettles
           \/ \E u \in UploadRequest : Post(u) \/ GetQueue(u) \/ Answer(u)
    PROVE  QueuesIInv'
<1>1. CASE DatabaseFlips
  BY <1>1 DEF QueuesIInv, LifecyclesTypeOK, DatabaseFlips, webVars, workerVars
<1>2. CASE RestartWeb
  BY <1>2 DEF QueuesIInv, LifecyclesTypeOK, RestartWeb, workerVars
<1>3. CASE QueueSettles
  BY <1>3 DEF QueuesIInv, LifecyclesTypeOK, QueueSettles, workerVars
<1>4. ASSUME NEW u \in UploadRequest, Post(u)
      PROVE  QueuesIInv'
  BY <1>4 DEF QueuesIInv, LifecyclesTypeOK, Post, workerVars
<1>5. ASSUME NEW u \in UploadRequest, GetQueue(u)
      PROVE  QueuesIInv'
  BY <1>5 DEF QueuesIInv, LifecyclesTypeOK, GetQueue, workerVars
<1>6. ASSUME NEW u \in UploadRequest, Answer(u)
      PROVE  QueuesIInv'
  BY <1>6 DEF QueuesIInv, LifecyclesTypeOK, Answer, workerVars
<1>. QED
  BY <1>1, <1>2, <1>3, <1>4, <1>5, <1>6

\* The worker: only CleanUp and ShutdownStep stop its queue, both by way of the latch.
LEMMA WorkerStepIInv ==
    ASSUME QueuesIInv,
           Signal \/ BootStep \/ BootThrows \/ StopSettles \/ CleanUp \/ FailBoot \/ ShutdownStep
    PROVE  QueuesIInv'
<1>. USE SignalsAssumption DEF QueuesIInv, LifecyclesTypeOK
<1>1. CASE Signal
  BY <1>1 DEF Signal, webVars, Shutdown
<1>2. CASE BootStep
  <2>1. boot' \in Boot /\ boot' \in {"queue", "listening", "handled", "ready"}
    BY <1>2 DEF BootStep, NextBoot, Boot
  <2>2. boot \notin {"stopping", "cleaned", "failed", "unmade"}
    BY <1>2 DEF BootStep, NextBoot
  <2>. QED
    BY <1>2, <2>1, <2>2 DEF BootStep, webVars
<1>3. CASE BootThrows
  <2>1. boot \in {"begin", "queue", "handled"} /\ boot' \in {"unmade", "failed"}
    BY <1>3 DEF BootThrows
  <2>2. boot' \in Boot
    BY <2>1 DEF Boot
  <2>. QED
    BY <1>3, <2>1, <2>2 DEF BootThrows, webVars
<1>6. CASE FailBoot
  BY <1>6 DEF FailBoot, webVars
<1>7. CASE StopSettles
  BY <1>7 DEF StopSettles, webVars
<1>4. CASE CleanUp
  <2>1. CASE boot = "failed"
    <3>1. /\ boot' = IF stopped THEN "cleaned" ELSE "stopping"
          /\ stopped' = TRUE /\ stops' = IF stopped THEN stops ELSE stops + 1
          /\ UNCHANGED <<database, webVars, attached, signals, shutdown, settled, exit>>
          /\ exit = "running"
      BY <1>4, <2>1 DEF CleanUp, Stop
    <3>2. boot' \in {"stopping", "cleaned"} /\ boot' \in Boot
      BY <3>1 DEF Boot
    <3>. QED
      BY <2>1, <3>1, <3>2 DEF webVars
  <2>2. CASE boot = "stopping"
    BY <1>4, <2>2 DEF CleanUp, webVars, Boot
  <2>. QED
    BY <1>4, <2>1, <2>2 DEF CleanUp
<1>5. CASE ShutdownStep
  <2>1. /\ UNCHANGED <<database, queueSingleton, queuePromise, bosses, upload, boot,
                       attached, signals, settled>>
        /\ exit = "running"
    BY <1>5 DEF ShutdownStep, ShutdownThrough, webVars
  <2>2. shutdown' \in Shutdown /\ exit' \in {"running", "0"}
    BY <1>5 DEF ShutdownStep, ShutdownThrough, Shutdown
  <2>3. CASE shutdown = "stop"
    <3>1. /\ stopped' = TRUE /\ stops' = IF stopped THEN stops ELSE stops + 1
          /\ shutdown' = IF stopped THEN "end" ELSE "stopping"
          /\ exit' = exit
      BY <1>5, <2>3 DEF ShutdownStep, ShutdownThrough, Stop
    <3>. QED
      BY <2>1, <2>2, <2>3, <3>1
  <2>4. CASE shutdown # "stop"
    <3>1. UNCHANGED <<stopped, stops>>
      BY <1>5, <2>4 DEF ShutdownStep, ShutdownThrough
    <3>2. \/ shutdown = "unlisten" /\ shutdown' = "stop" /\ exit' = exit
          \/ shutdown = "stopping" /\ settled /\ shutdown' = "end" /\ exit' = exit
          \/ shutdown = "end" /\ shutdown' = "exit" /\ exit' = "0"
      BY <1>5, <2>4 DEF ShutdownStep, ShutdownThrough
    <3>. QED
      BY <2>1, <2>2, <3>1, <3>2
  <2>. QED
    BY <2>3, <2>4
<1>. QED
  BY <1>1, <1>2, <1>3, <1>4, <1>5, <1>6, <1>7

\* Every step of either process keeps it.
LEMMA LifecyclesNextIInv == QueuesIInv /\ [LifecyclesNext]_lifecycleVars => QueuesIInv'
<1>1. ASSUME QueuesIInv, UNCHANGED lifecycleVars
      PROVE  QueuesIInv'
  BY <1>1 DEF QueuesIInv, LifecyclesTypeOK, lifecycleVars, webVars, workerVars
<1>. QED
  BY <1>1, WebStepIInv, WorkerStepIInv DEF LifecyclesNext

\* So it always holds.
LEMMA LifecyclesAlways == LifecyclesSpec => []QueuesIInv
  BY LifecyclesInitIInv, LifecyclesNextIInv, PTL DEF LifecyclesSpec

\* What the variables of the two processes are.
THEOREM LifecyclesTypes == LifecyclesSpec => []LifecyclesTypeOK
<1>1. QueuesIInv => LifecyclesTypeOK
  BY DEF QueuesIInv
<1>. QED
  BY <1>1, LifecyclesAlways, PTL

\* The web server makes one pg-boss instance, however uploads, failures and restarts
\* overlap (getQueue of api/sources/route.ts).
THEOREM QueueAlwaysOne == LifecyclesSpec => []OneQueue
<1>1. QueuesIInv => OneQueue
  BY DEF QueuesIInv, OneQueue
<1>. QED
  BY <1>1, LifecyclesAlways, PTL

\* The worker stops its instance once, and before it ends of itself, however signals
\* and failures of the start-up overlap; only where both its ways to end run at once may
\* it end before the stop has come back (worker.ts, stop of queue.ts).
THEOREM QueueAlwaysStopped == LifecyclesSpec => []QueueIsStopped
<1>1. ASSUME QueuesIInv PROVE QueueIsStopped
  <2>1. stops <= 1
    BY <1>1 DEF QueuesIInv
  <2>2. ASSUME exit \in {"0", "1"}, boot # "unmade", ~BothStop PROVE settled
    <3>1. CASE exit = "0"
      BY <1>1, <2>2, <3>1 DEF QueuesIInv, BothStop
    <3>2. CASE exit = "1"
      BY <1>1, <2>2, <3>2 DEF QueuesIInv, BothStop
    <3>. QED
      BY <2>2, <3>1, <3>2
  <2>. QED
    BY <2>1, <2>2 DEF QueueIsStopped
<1>. QED
  BY <1>1, LifecyclesAlways, PTL

-------------------------------------------------------------------------------
(* The provider cache (providers/runtime.ts). *)

\* What superseded a cached version is no older than the entry.
CacheOlder ==
    cache.version # -1 /\ cache.version < setting =>
        replaced[cache.version] <= cache.age

\* What superseded a version under way to a caller is no older than the call.
LoadOlder ==
    \A c \in Loader :
        load[c] = "fill" /\ got[c] < setting => replaced[got[c]] <= age[c]

\* The inductive invariant.
CacheIInv == CacheTypeOK /\ CacheOlder /\ LoadOlder

-------------------------------------------------------------------------------
\* Growing old preserves the order of two ages.
LEMMA OlderMonotone ==
    ASSUME NEW a \in 0..Ttl, NEW b \in 0..Ttl
    PROVE  /\ Older(a) \in 0..Ttl
           /\ a <= b => Older(a) <= Older(b)
BY TtlAssumption DEF Older

\* With an empty cache and nobody loading the invariant holds.
LEMMA CacheInitIInv == CacheInit => CacheIInv
BY TtlAssumption, MaxVersionAssumption
DEF CacheInit, CacheIInv, CacheTypeOK, CacheOlder, LoadOlder, Version, Empty

\* A save makes the version it supersedes the youngest of the superseded.
LEMMA SaveIInv == CacheIInv /\ Save => CacheIInv'
<1>. SUFFICES ASSUME CacheIInv, Save PROVE CacheIInv'
  OBVIOUS
<1>. USE TtlAssumption, MaxVersionAssumption
<1>0. setting \in Nat /\ setting + 1 \in Version /\ setting' = setting + 1
  BY DEF CacheIInv, CacheTypeOK, Save, Version
<1>1. CacheTypeOK'
  BY <1>0 DEF CacheIInv, CacheTypeOK, Save, locals
<1>2. \A v \in Version : v < setting' => replaced'[v] = IF v = setting THEN 0 ELSE replaced[v]
  BY <1>0 DEF CacheIInv, CacheTypeOK, Save, Version
<1>3. CacheOlder'
  BY <1>0, <1>2 DEF CacheIInv, CacheTypeOK, CacheOlder, Save, Version
<1>4. LoadOlder'
  BY <1>0, <1>2 DEF CacheIInv, CacheTypeOK, LoadOlder, Save, locals, Version
<1>. QED
  BY <1>1, <1>3, <1>4 DEF CacheIInv

\* As time passes all ages grow alike.
LEMMA TickIInv == CacheIInv /\ Tick => CacheIInv'
<1>. SUFFICES ASSUME CacheIInv, Tick PROVE CacheIInv'
  OBVIOUS
<1>. USE TtlAssumption, MaxVersionAssumption
<1>0. /\ cache.version \in Version \cup {-1}
      /\ cache.age \in 0..Ttl
      /\ cache' = [version |-> cache.version, age |-> Older(cache.age)]
  BY DEF CacheIInv, CacheTypeOK, Tick
<1>1. CacheTypeOK'
  <2>1. replaced' \in [Version -> 0..Ttl] /\ age' \in [Loader -> 0..Ttl]
    BY OlderMonotone DEF CacheIInv, CacheTypeOK, Tick
  <2>2. cache' \in [version: Version \cup {-1}, age: 0..Ttl]
    BY <1>0, OlderMonotone
  <2>. QED
    BY <2>1, <2>2 DEF CacheIInv, CacheTypeOK, Tick
<1>2. CacheOlder'
  <2>. SUFFICES ASSUME cache.version # -1, cache.version < setting
                PROVE  Older(replaced[cache.version]) <= Older(cache.age)
    BY <1>0 DEF CacheOlder, Tick
  <2>1. replaced[cache.version] <= cache.age
    BY DEF CacheIInv, CacheOlder
  <2>2. replaced[cache.version] \in 0..Ttl
    BY <1>0 DEF CacheIInv, CacheTypeOK
  <2>. QED
    BY <1>0, <2>1, <2>2, OlderMonotone
<1>3. LoadOlder'
  <2>. SUFFICES ASSUME NEW c \in Loader, load[c] = "fill", got[c] < setting
                PROVE  Older(replaced[got[c]]) <= Older(age[c])
    BY DEF LoadOlder, Tick, CacheIInv, CacheTypeOK
  <2>1. replaced[got[c]] <= age[c]
    BY DEF CacheIInv, LoadOlder
  <2>2. replaced[got[c]] \in 0..Ttl /\ age[c] \in 0..Ttl
    BY DEF CacheIInv, CacheTypeOK
  <2>. QED
    BY <2>1, <2>2, OlderMonotone
<1>. QED
  BY <1>1, <1>2, <1>3 DEF CacheIInv

\* Notifications change the cache at most to the empty one.
LEMMA NotificationsIInv ==
    ASSUME CacheIInv, NEW v \in Version, Notify(v) \/ LoseNotify(v) \/ Hear(v)
    PROVE  CacheIInv'
<1>. USE TtlAssumption, MaxVersionAssumption
<1>1. CacheTypeOK'
  BY DEF CacheIInv, CacheTypeOK, Notify, LoseNotify, Hear, locals, Empty
<1>2. CacheOlder'
  BY DEF CacheIInv, CacheOlder, Notify, LoseNotify, Hear, Empty
<1>3. LoadOlder'
  BY DEF CacheIInv, LoadOlder, Notify, LoseNotify, Hear, locals
<1>. QED
  BY <1>1, <1>2, <1>3 DEF CacheIInv

\* A caller reads the present version, and hands its date on to the entry.
LEMMA CacheLoaderIInv ==
    ASSUME CacheIInv, NEW c \in Loader, Call(c) \/ LoadFails(c)
    PROVE  CacheIInv'
<1>. USE TtlAssumption, MaxVersionAssumption
<1>1. CASE Miss(c)
  <2>1. CacheTypeOK'
    BY <1>1 DEF CacheIInv, CacheTypeOK, Miss, Goto, db
  <2>2. CacheOlder'
    BY <1>1 DEF CacheIInv, CacheOlder, Miss, db
  <2>3. LoadOlder'
    BY <1>1 DEF CacheIInv, CacheTypeOK, LoadOlder, Miss, Goto, db
  <2>. QED
    BY <2>1, <2>2, <2>3 DEF CacheIInv
<1>2. CASE Select(c)
  <2>1. CacheTypeOK'
    BY <1>2 DEF CacheIInv, CacheTypeOK, Select, Goto, db
  <2>2. CacheOlder'
    BY <1>2 DEF CacheIInv, CacheOlder, Select, db
  <2>3. LoadOlder'
    BY <1>2 DEF CacheIInv, CacheTypeOK, LoadOlder, Select, Goto, db, Version
  <2>. QED
    BY <2>1, <2>2, <2>3 DEF CacheIInv
<1>3. CASE Fill(c)
  <2>1. CacheTypeOK'
    BY <1>3 DEF CacheIInv, CacheTypeOK, Fill, LoadOver, Goto, db, Version
  <2>2. CacheOlder'
    BY <1>3 DEF CacheIInv, CacheTypeOK, LoadOlder, CacheOlder, Fill, db
  <2>3. LoadOlder'
    BY <1>3 DEF CacheIInv, CacheTypeOK, LoadOlder, Fill, LoadOver, Goto, db
  <2>. QED
    BY <2>1, <2>2, <2>3 DEF CacheIInv
<1>4. CASE LoadFails(c)
  <2>1. CacheTypeOK'
    BY <1>4 DEF CacheIInv, CacheTypeOK, LoadFails, LoadOver, Goto, db, Version
  <2>2. CacheOlder'
    BY <1>4 DEF CacheIInv, CacheOlder, LoadFails, db
  <2>3. LoadOlder'
    BY <1>4 DEF CacheIInv, CacheTypeOK, LoadOlder, LoadFails, LoadOver, Goto, db
  <2>. QED
    BY <2>1, <2>2, <2>3 DEF CacheIInv
<1>. QED
  BY <1>1, <1>2, <1>3, <1>4 DEF Call

\* The invariant is inductive.
LEMMA CacheNextIInv == CacheIInv /\ [CacheNext]_cacheVars => CacheIInv'
<1>. SUFFICES ASSUME CacheIInv, [CacheNext]_cacheVars PROVE CacheIInv'
  OBVIOUS
<1>1. CASE CacheNext
  BY <1>1, SaveIInv, TickIInv, NotificationsIInv, CacheLoaderIInv DEF CacheNext
<1>2. CASE UNCHANGED cacheVars
  BY <1>2 DEF CacheIInv, CacheTypeOK, CacheOlder, LoadOlder, cacheVars
<1>. QED
  BY <1>1, <1>2

\* The invariant holds in every reachable state.
THEOREM CacheAlways == CacheSpec => []CacheIInv
  BY CacheInitIInv, CacheNextIInv, PTL DEF CacheSpec

\* A hit of getProviders or getProviderConfig serves settings that are current
\* or were superseded less than CACHE_TTL_MS ago.
THEOREM StalenessIsBounded == CacheSpec => []BoundedStaleness
<1>1. CacheIInv => BoundedStaleness
  <2>. SUFFICES ASSUME CacheIInv, Valid, cache.version < setting
                PROVE  replaced[cache.version] < Ttl
    BY DEF BoundedStaleness
  <2>1. replaced[cache.version] <= cache.age
    BY DEF CacheIInv, CacheOlder, Valid
  <2>2. replaced[cache.version] \in Int /\ cache.age \in Int /\ cache.age < Ttl
    BY TtlAssumption DEF CacheIInv, CacheTypeOK, Valid
  <2>. QED
    BY <2>1, <2>2, TtlAssumption
<1>. QED
  BY <1>1, CacheAlways, PTL

-------------------------------------------------------------------------------
(* Provider settings. *)

\* A row of an embedding, or a form whose probe was answered.
Fits(provider, base, model) ==
    \/ provider = "fake"
    \/ /\ provider = "openai-compatible" /\ base # Blank /\ model # Blank
       /\ DimensionOf(model) = EMBEDDING_DIM

\* What is saved of an embedding fits.
RowFits ==
    saved["embedding"] # NoRow =>
        Fits(saved["embedding"].provider, saved["embedding"].base, saved["embedding"].model)

\* A save under way: of a form, probed before it is written, with the key it had read
\* unless another save has come between.
SoundSave(s, table) ==
    /\ DOMAIN s = {"phase", "form", "cipher", "overtaken"}
    /\ s.phase \in {"probe", "write"} /\ s.form \in Form /\ s.overtaken \in BOOLEAN
    /\ s.form.kind = "embedding" /\ s.phase = "write" =>
          Fits(s.form.provider, s.form.base, s.form.model)
    /\ s.form.key = Blank /\ ~s.overtaken =>
          s.cipher = IF table[s.form.kind] = NoRow THEN Blank ELSE table[s.form.kind].cipher

\* The inductive invariant.
SettingsIInv ==
    /\ env \in {e \in Environment : Accepted(e)} /\ secret \in Secret
    /\ DOMAIN saved = Kind
    /\ \A k \in Kind : saved[k].provider = Blank <=> saved[k] = NoRow
    /\ RowFits
    /\ DOMAIN save = Admin
    /\ \A x \in Admin : save[x] = NoSave \/ SoundSave(save[x], saved)
    /\ saves \in 0..MaxSaves /\ deploys \in 0..MaxDeploys

\* A save under way is one.
LEMMA SaveIsNotNone ==
    ASSUME NEW s, NEW table, SoundSave(s, table)
    PROVE  s # NoSave /\ s.phase # "none"
  BY DEF SoundSave, NoSave

\* It holds with the rows of a new database.
LEMMA SettingsInitIInv == SettingsInit => SettingsIInv
<1>. SUFFICES ASSUME SettingsInit PROVE SettingsIInv
  OBVIOUS
<1>1. "embedding" \in Kind /\ \A k \in Kind : saved[k] = NoRow /\ NoRow.provider = Blank
  BY DEF SettingsInit, Kind, NoRow
<1>. QED
  BY <1>1, BoundsAssumption DEF SettingsInit, SettingsIInv, RowFits

\* A step of one admin's save that writes no row.
LEMMA ContinueIInv ==
    ASSUME SettingsIInv, NEW x \in Admin, NEW s, s = NoSave \/ SoundSave(s, saved),
           Continue(x, s), UNCHANGED <<env, secret, saved, deploys>>, saves' \in 0..MaxSaves
    PROVE  SettingsIInv'
<1>1. DOMAIN save' = Admin /\ \A y \in Admin : save'[y] = IF y = x THEN s ELSE save[y]
  BY DEF Continue, SettingsIInv
<1>. QED
  BY <1>1 DEF SettingsIInv, RowFits

\* saveSettings begins: the form is checked and the old row is read.
LEMMA StartSaveIInv ==
    ASSUME SettingsIInv, NEW x \in Admin, StartSave(x)
    PROVE  SettingsIInv'
<1>1. PICK f \in Form :
        /\ f.key = Blank => Readable(saved[f.kind])
        /\ Continue(x, [phase |-> IF f.kind = "embedding" THEN "probe" ELSE "write",
                        form |-> f, cipher |-> KeyFor(f), overtaken |-> FALSE])
  BY DEF StartSave
<1>. DEFINE s == [phase |-> IF f.kind = "embedding" THEN "probe" ELSE "write",
                  form |-> f, cipher |-> KeyFor(f), overtaken |-> FALSE]
<1>2. SoundSave(s, saved)
  BY DEF SoundSave, KeyFor
<1>3. saves' \in 0..MaxSaves
  BY BoundsAssumption DEF StartSave, SettingsIInv
<1>. HIDE DEF s
<1>. QED
  BY <1>1, <1>2, <1>3, ContinueIInv DEF StartSave, s

\* The probe answers, with vectors that fit or not, or fails.
LEMMA ProbeIInv ==
    ASSUME SettingsIInv, NEW x \in Admin, Probe(x)
    PROVE  SettingsIInv'
<1>. DEFINE s == [save[x] EXCEPT !.phase = "write"]
<1>1. SoundSave(save[x], saved)
  BY DEF SettingsIInv, Probe, NoSave
<1>2. Fits(save[x].form.provider, save[x].form.base, save[x].form.model)
  BY DEF Probe, Reported, Fits
<1>3. SoundSave(s, saved)
  BY <1>1, <1>2 DEF SoundSave
<1>4. saves' \in 0..MaxSaves
  BY DEF Probe, SettingsIInv
<1>. HIDE DEF s
<1>. QED
  BY <1>3, <1>4, ContinueIInv DEF Probe, s

\* The writer's row is its form's; the other saves of the kind are overtaken.
LEMMA WriteIInv ==
    ASSUME SettingsIInv, NEW x \in Admin, Write(x)
    PROVE  SettingsIInv'
<1>. DEFINE k == save[x].form.kind
            row == RowOf(save[x])
<1>1. SoundSave(save[x], saved) /\ save[x].phase = "write"
  BY DEF SettingsIInv, Write, NoSave
<1>2. k \in Kind /\ save[x].form.provider # Blank
  BY <1>1, FormAssumption DEF SoundSave
<1>3. row.provider = save[x].form.provider /\ row # NoRow
  BY <1>2 DEF RowOf, NoRow
<1>4. DOMAIN saved' = Kind /\ \A j \in Kind : saved'[j] = IF j = k THEN row ELSE saved[j]
  BY <1>2 DEF Write, SettingsIInv
<1>5. \A j \in Kind : saved'[j].provider = Blank <=> saved'[j] = NoRow
  BY <1>2, <1>3, <1>4 DEF SettingsIInv
<1>6. RowFits'
  <2>1. CASE k = "embedding"
    <3>1. /\ row.base = save[x].form.base /\ row.model = save[x].form.model
          /\ Fits(save[x].form.provider, save[x].form.base, save[x].form.model)
      BY <2>1, <1>1 DEF RowOf, SoundSave
    <3>2. saved'["embedding"] = row
      BY <2>1, <1>2, <1>4
    <3>. QED
      BY <3>1, <3>2, <1>3 DEF RowFits
  <2>2. CASE k # "embedding"
    <3>1. saved'["embedding"] = saved["embedding"]
      BY <2>2, <1>4 DEF Kind
    <3>. QED
      BY <3>1 DEF RowFits, SettingsIInv
  <2>. QED
    BY <2>1, <2>2
<1>7. ASSUME NEW y \in Admin
      PROVE  save'[y] = NoSave \/ SoundSave(save'[y], saved')
  <2>1. CASE y = x
    BY <2>1 DEF Write
  <2>2. CASE y # x /\ save[y] = NoSave
    BY <2>2 DEF Write
  <2>3. CASE y # x /\ save[y] # NoSave /\ save[y].form.kind = k
    <3>. DEFINE s == [save[y] EXCEPT !.overtaken = TRUE]
    <3>1. save'[y] = s
      BY <2>3 DEF Write
    <3>2. SoundSave(save[y], saved)
      BY <2>3 DEF SettingsIInv
    <3>3. /\ DOMAIN s = {"phase", "form", "cipher", "overtaken"} /\ s.phase = save[y].phase
          /\ s.form = save[y].form /\ s.cipher = save[y].cipher /\ s.overtaken = TRUE
      BY <3>2 DEF SoundSave
    <3>. HIDE DEF s
    <3>4. SoundSave(s, saved')
      BY <3>2, <3>3 DEF SoundSave
    <3>. QED
      BY <3>1, <3>4
  <2>4. CASE y # x /\ save[y] # NoSave /\ save[y].form.kind # k
    <3>1. save'[y] = save[y]
      BY <2>4 DEF Write
    <3>2. SoundSave(save[y], saved)
      BY <2>4 DEF SettingsIInv
    <3>3. save[y].form.kind \in Kind
      BY <3>2, FormAssumption DEF SoundSave
    <3>4. saved'[save[y].form.kind] = saved[save[y].form.kind]
      BY <3>3, <2>4, <1>4
    <3>5. SoundSave(save[y], saved')
      BY <3>2, <3>4 DEF SoundSave
    <3>. QED
      BY <3>1, <3>5
  <2>. QED
    BY <2>1, <2>2, <2>3, <2>4
<1>8. DOMAIN save' = Admin
  BY DEF Write
<1>9. UNCHANGED <<env, secret, saves, deploys>>
  BY DEF Write
<1>. QED
  BY <1>4, <1>5, <1>6, <1>7, <1>8, <1>9 DEF SettingsIInv

\* Every step keeps it.
LEMMA SettingsNextIInv == SettingsIInv /\ [SettingsNext]_settingsVars => SettingsIInv'
<1>. SUFFICES ASSUME SettingsIInv, [SettingsNext]_settingsVars PROVE SettingsIInv'
  OBVIOUS
<1>1. CASE Redeploy
  <2>1. /\ env' \in {e \in Environment : Accepted(e)} /\ secret' \in Secret
        /\ save' = [x \in Admin |-> NoSave] /\ saved' = saved /\ saves' = saves
        /\ deploys' \in 0..MaxDeploys
    BY <1>1, BoundsAssumption DEF Redeploy, SettingsIInv
  <2>2. RowFits'
    BY <2>1 DEF SettingsIInv, RowFits
  <2>. QED
    BY <2>1, <2>2 DEF SettingsIInv
<1>2. ASSUME NEW x \in Admin, GiveUp(x)
      PROVE  SettingsIInv'
  <2>1. saves' \in 0..MaxSaves
    BY <1>2 DEF GiveUp, SettingsIInv
  <2>. QED
    BY <1>2, <2>1, ContinueIInv DEF GiveUp
<1>3. CASE UNCHANGED settingsVars
  BY <1>3 DEF settingsVars, SettingsIInv, RowFits
<1>. QED
  BY <1>1, <1>2, <1>3, StartSaveIInv, ProbeIInv, WriteIInv DEF SettingsNext

\* So it always holds.
LEMMA SettingsAlways == SettingsSpec => []SettingsIInv
  BY SettingsInitIInv, SettingsNextIInv, PTL DEF SettingsSpec

\* Rows that are saved build.
LEMMA SavedFits == SettingsIInv => SavedEmbeddingFits
<1>. SUFFICES ASSUME SettingsIInv, saved["embedding"] # NoRow
              PROVE  /\ Builds(Config, "embedding")
                     /\ Config["embedding"].provider = "openai-compatible" =>
                           DimensionOf(Config["embedding"].model) = EMBEDDING_DIM
  BY DEF SavedEmbeddingFits
<1>. DEFINE row == saved["embedding"]
            parts == Config["embedding"]
<1>1. Fits(row.provider, row.base, row.model)
  BY DEF SettingsIInv, RowFits
<1>2. parts = MergedModel(env["embedding"], Decrypted(row))
  BY DEF Config, Kind
<1>3. /\ parts.provider = row.provider
      /\ parts.base = Override(env["embedding"].base, row.base)
      /\ parts.model = Override(env["embedding"].model, row.model)
  BY <1>2 DEF MergedModel, Decrypted
<1>. HIDE DEF parts
<1>4. \A field : Filled(Config, "embedding", field) = parts[field]
  BY DEF Filled, parts
<1>5. Filled(Config, "embedding", "provider") = row.provider
      /\ Filled(Config, "embedding", "base") = Override(env["embedding"].base, row.base)
      /\ Filled(Config, "embedding", "model") = Override(env["embedding"].model, row.model)
  BY <1>3, <1>4
<1>6. row.provider \in Wired["embedding"]
  BY <1>1 DEF Fits, Wired
<1>7. Builds(Config, "embedding")
  <2>1. row.provider # "docling" /\ row.provider # "mistral"
    BY <1>1 DEF Fits
  <2>. QED
    BY <1>1, <1>5, <1>6, <2>1 DEF Builds, Fits, Override
<1>8. row.provider = "openai-compatible" => DimensionOf(parts.model) = EMBEDDING_DIM
  BY <1>1, <1>3 DEF Fits, Override
<1>. QED
  BY <1>3, <1>7, <1>8 DEF parts

\* So does an environment that is accepted, where nothing is saved.
LEMMA EnvironmentBuilds == SettingsIInv => EnvironmentSuffices
<1>. SUFFICES ASSUME SettingsIInv, NEW k \in Kind, saved[k] = NoRow,
                     k = "chat" => saved["llm"] = NoRow,
                     Filled(env, k, "provider") \in Wired[k]
              PROVE  Builds(Config, k)
  BY DEF EnvironmentSuffices
<1>1. Accepted(env)
  BY DEF SettingsIInv
<1>2. Config[k] = env[k] /\ (k = "chat" => Config["llm"] = env["llm"])
  BY DEF Config, Kind
<1>3. \A field : Filled(Config, k, field) = Filled(env, k, field)
  BY <1>2 DEF Filled
<1>. DEFINE provider == Filled(env, k, "provider")
<1>4. provider \in Wired[k]
  OBVIOUS
<1>5. provider = "openai-compatible" => Filled(env, k, "base") # Blank /\ Filled(env, k, "model") # Blank
  <2>1. CASE k = "ocr"
    BY <2>1, <1>4 DEF Wired
  <2>2. CASE k = "llm" \/ k = "embedding"
    <3>1. provider = env[k].provider
      BY <2>2 DEF Filled
    <3>. QED
      BY <3>1, <2>2, <1>1 DEF Accepted
  <2>3. CASE k = "chat"
    <3>1. CASE env["chat"].provider = "openai-compatible"
      BY <3>1, <2>3, <1>1 DEF Accepted
    <3>2. CASE env["chat"].provider # "openai-compatible"
      <4>. HIDE DEF provider
      <4>1. provider = "openai-compatible" => env["llm"].provider = "openai-compatible"
        BY <3>2, <2>3 DEF Filled, provider
      <4>2. env["llm"].provider = "openai-compatible" => env["llm"].base # Blank /\ env["llm"].model # Blank
        BY <1>1 DEF Accepted, Filled
      <4>3. \A field : \/ Filled(env, "chat", field) = env["chat"][field] /\ env["chat"][field] # Blank
                       \/ Filled(env, "chat", field) = env["llm"][field]
        BY DEF Filled
      <4>4. env["llm"].base # Blank /\ env["llm"].model # Blank
            => Filled(env, "chat", "base") # Blank /\ Filled(env, "chat", "model") # Blank
        BY <4>3
      <4>. QED
        BY <2>3, <4>1, <4>2, <4>4
    <3>. QED
      BY <3>1, <3>2
  <2>. QED
    BY <2>1, <2>2, <2>3 DEF Kind
<1>6. k # "ocr" => provider # "docling" /\ provider # "mistral"
  BY <1>4 DEF Wired, Kind
<1>7. k = "ocr" => provider = env["ocr"].provider /\ Config["ocr"] = env["ocr"]
  BY <1>2 DEF Filled
<1>8. /\ provider = "docling" => Config["ocr"].docling # Blank
      /\ provider = "mistral" => Config["ocr"].key # Blank
  BY <1>1, <1>6, <1>7 DEF Accepted
<1>. QED
  BY <1>3, <1>4, <1>5, <1>8 DEF Builds

\* Whatever environments are deployed over whatever rows, and however saves overlap: an
\* embedding that was saved is built, its vectors fit the column, and a kind no row
\* overrides is built from any environment loadEnv accepts (getProviderConfig,
\* saveSettings).
THEOREM ConfigAlwaysBuilds == SettingsSpec => []ConfigBuilds
<1>1. SettingsIInv => ConfigBuilds
  BY SavedFits, EnvironmentBuilds DEF ConfigBuilds
<1>. QED
  BY <1>1, SettingsAlways, PTL

\* The invariant gives the types.
LEMMA SettingsAreTyped == SettingsIInv => SettingsTypeOK
  BY DEF SettingsIInv, SettingsTypeOK, SoundSave

\* What the variables of the settings are.
THEOREM SettingsTypes == SettingsSpec => []SettingsTypeOK
<1>1. SettingsIInv => SettingsTypeOK
  BY SettingsAreTyped
<1>. QED
  BY <1>1, SettingsAlways, PTL

\* saveSettings: a form with a blank key keeps the key of its row, unless another save
\* of the kind came between.
THEOREM BlankKeyAlwaysKept == SettingsSpec => BlankKeyIsKept
<1>1. SettingsIInv /\ [SettingsNext]_settingsVars =>
       [\A k \in Kind : \A x \in Admin :
            /\ saved[k] # NoRow /\ saved'[k] # saved[k]
            /\ save[x] # NoSave /\ save'[x] = NoSave
            /\ save[x].form.kind = k /\ save[x].form.key = Blank
            => save[x].overtaken \/ saved'[k].cipher = saved[k].cipher]_settingsVars
  <2>. SUFFICES ASSUME SettingsIInv, SettingsNext, NEW k \in Kind, NEW x \in Admin,
                       saved[k] # NoRow, saved'[k] # saved[k],
                       save[x] # NoSave, save'[x] = NoSave,
                       save[x].form.kind = k, save[x].form.key = Blank, ~save[x].overtaken
                PROVE  saved'[k].cipher = saved[k].cipher
    OBVIOUS
  <2>1. PICK y \in Admin : Write(y)
    BY DEF SettingsNext, Redeploy, StartSave, Probe, GiveUp
  <2>2. SoundSave(save[x], saved)
    BY DEF SettingsIInv
  <2>3. y = x
    <3>. SUFFICES ASSUME y # x PROVE FALSE
      OBVIOUS
    <3>1. save'[x] = save[x] \/ save'[x] = [save[x] EXCEPT !.overtaken = TRUE]
      BY <2>1 DEF Write
    <3>2. save'[x].phase = save[x].phase
      BY <3>1, <2>2 DEF SoundSave
    <3>. QED
      BY <3>2, <2>2 DEF SoundSave, NoSave
  <2>4. saved'[k] = RowOf(save[x])
    BY <2>1, <2>3 DEF Write, SettingsIInv
  <2>5. saved'[k].cipher = save[x].cipher
    BY <2>4 DEF RowOf
  <2>. QED
    BY <2>2, <2>5 DEF SoundSave
<1>. QED
  BY <1>1, SettingsAlways, PTL DEF SettingsSpec, BlankKeyIsKept

-------------------------------------------------------------------------------
(* Uploads and their event streams. *)

\* What the route of an upload is.
RouteType == [pc: {"none", "subscribe", "assign", "watch", "failed"},
              closed: BOOLEAN, beating: BOOLEAN, listens: BOOLEAN,
              connected: BOOLEAN, ending: {"no", "unlisten", "end", "ended"}]

\* Types hold before anything is uploaded.
LEMMA StreamInitTypes == StreamInit => StreamTypeOK
<1>. SUFFICES ASSUME StreamInit PROVE StreamTypeOK
  OBVIOUS
<1>1. <<>> \in Seq(Event) /\ 0 \in 0..5 /\ 0 \in 0..Retries+1
  BY RetriesAssumption
<1>. QED
  BY <1>1 DEF StreamInit, StreamTypeOK, NoRoute

\* What is written to the listening connection is an event.
LEMMA EmitTypes ==
    ASSUME StreamTypeOK, NEW u \in Upload, NEW event \in Event, Emit(u, event)
    PROVE  notes' \in [Upload -> Seq(Event)]
  BY DEF StreamTypeOK, Emit

\* A handler goes on, reports or throws.
LEMMA WorkerTypes ==
    ASSUME StreamTypeOK, NEW u \in Upload, WorkerPhase(u) \/ WorkerProgress(u) \/ WorkerThrows(u)
    PROVE  StreamTypeOK'
<1>1. worker[u].stage \in 0..5 /\ worker[u].throws \in 0..Retries+1 /\ Retries \in Nat
  BY RetriesAssumption DEF StreamTypeOK
<1>2. CASE WorkerPhase(u)
  <2>1. Phases[worker[u].stage + 1] \in Event /\ worker[u].stage + 1 \in 0..5
    BY <1>1, <1>2 DEF WorkerPhase, Phases, Event
  <2>2. notes' \in [Upload -> Seq(Event)]
    BY <1>2, <2>1, EmitTypes DEF WorkerPhase
  <2>. QED
    BY <1>2, <2>1, <2>2 DEF WorkerPhase, StreamTypeOK
<1>3. CASE WorkerProgress(u)
  <2>1. notes' \in [Upload -> Seq(Event)]
    BY <1>3, EmitTypes DEF WorkerProgress, Event
  <2>. QED
    BY <1>3, <2>1 DEF WorkerProgress, StreamTypeOK
<1>4. CASE WorkerThrows(u)
  <2>1. notes' \in [Upload -> Seq(Event)]
    BY <1>4, EmitTypes DEF WorkerThrows, Event
  <2>. DEFINE w == [stage |-> IF worker[u].throws = Retries THEN 5 ELSE worker[u].stage - 1,
                    throws |-> worker[u].throws + 1]
  <2>2. w \in [stage: 0..5, throws: 0..Retries+1] /\ worker' = [worker EXCEPT ![u] = w]
    BY <1>1, <1>4 DEF WorkerThrows
  <2>. HIDE DEF w
  <2>3. worker' \in [Upload -> [stage: 0..5, throws: 0..Retries+1]]
    BY <2>2 DEF StreamTypeOK
  <2>. QED
    BY <1>4, <2>1, <2>3 DEF WorkerThrows, StreamTypeOK
<1>. QED
  BY <1>2, <1>3, <1>4

\* One step of the GET that serves a source's stream.
LEMMA RouteTypes ==
    ASSUME StreamTypeOK, NEW u \in Upload, NEW r \in RouteType, Route(u, r)
    PROVE  route' \in [Upload -> RouteType]
  BY DEF StreamTypeOK, Route, RouteType

\* A route that closes is a route.
LEMMA ClosingType ==
    ASSUME NEW r \in RouteType
    PROVE  Closing(r) \in RouteType
  BY DEF Closing, RouteType

\* The route subscribes, and hears that its reader is gone.
LEMMA ServeTypes ==
    ASSUME StreamTypeOK, NEW u \in Upload, ServeStream(u) \/ HearAbort(u)
    PROVE  StreamTypeOK'
<1>0. route[u] \in RouteType
  BY DEF StreamTypeOK, RouteType
<1>1. CASE Open(u)
  <2>1. [NoRoute EXCEPT !.pc = "subscribe", !.beating = TRUE, !.connected = TRUE] \in RouteType
    BY DEF NoRoute, RouteType
  <2>. QED
    BY <1>1, <2>1, RouteTypes DEF Open, StreamTypeOK, RouteType
<1>2. CASE Accept(u)
  <2>1. [route[u] EXCEPT !.pc = "assign", !.listens = TRUE] \in RouteType
    BY <1>0 DEF RouteType
  <2>. QED
    BY <1>2, <2>1, RouteTypes DEF Accept, StreamTypeOK, RouteType
<1>3. CASE Refuse(u)
  <2>1. [route[u] EXCEPT !.pc = "failed", !.connected = FALSE] \in RouteType
    BY <1>0 DEF RouteType
  <2>. QED
    BY <1>3, <2>1, RouteTypes DEF Refuse, StreamTypeOK, RouteType
<1>4. CASE Watch(u)
  <2>1. [route[u] EXCEPT !.pc = "watch"] \in RouteType
    BY <1>0 DEF RouteType
  <2>. QED
    BY <1>4, <2>1, RouteTypes DEF Watch, StreamTypeOK, RouteType
<1>5. CASE HearAbort(u)
  <2>1. Closing(route[u]) \in RouteType
    BY <1>0, ClosingType
  <2>. QED
    BY <1>5, <2>1, RouteTypes DEF HearAbort, StreamTypeOK, RouteType
<1>. QED
  BY <1>1, <1>2, <1>3, <1>4, <1>5 DEF ServeStream

\* It lets its subscription go.
LEMMA CloseTypes ==
    ASSUME StreamTypeOK, NEW u \in Upload, CloseStep(u)
    PROVE  StreamTypeOK'
<1>0. route[u] \in RouteType /\ <<>> \in Seq(Event)
  BY DEF StreamTypeOK, RouteType
<1>1. CASE \E done \in BOOLEAN :
              Route(u, [route[u] EXCEPT !.listens = route[u].listens /\ ~done, !.ending = "end"])
           /\ UNCHANGED notes
  <2>1. PICK done \in BOOLEAN :
              Route(u, [route[u] EXCEPT !.listens = route[u].listens /\ ~done, !.ending = "end"])
    BY <1>1
  <2>2. [route[u] EXCEPT !.listens = route[u].listens /\ ~done, !.ending = "end"] \in RouteType
    BY <1>0 DEF RouteType
  <2>. QED
    BY <1>1, <2>1, <2>2, RouteTypes DEF CloseStep, StreamTypeOK, RouteType
<1>2. CASE /\ Route(u, [route[u] EXCEPT !.listens = FALSE, !.connected = FALSE, !.ending = "ended"])
           /\ notes' = [notes EXCEPT ![u] = <<>>]
  <2>1. [route[u] EXCEPT !.listens = FALSE, !.connected = FALSE, !.ending = "ended"] \in RouteType
    BY <1>0 DEF RouteType
  <2>2. notes' \in [Upload -> Seq(Event)]
    BY <1>0, <1>2 DEF StreamTypeOK
  <2>. QED
    BY <1>2, <2>1, <2>2, RouteTypes DEF CloseStep, StreamTypeOK, RouteType
<1>. QED
  BY <1>1, <1>2 DEF CloseStep

\* It forwards an event, or ends.
LEMMA ForwardTypes ==
    ASSUME StreamTypeOK, NEW u \in Upload, Forward(u)
    PROVE  StreamTypeOK'
<1>0. route[u] \in RouteType /\ notes[u] \in Seq(Event) /\ notes[u] # <<>>
  BY DEF StreamTypeOK, RouteType, Forward
<1>1. Tail(notes[u]) \in Seq(Event) /\ Head(notes[u]) \in Event
  BY <1>0
<1>2. notes' \in [Upload -> Seq(Event)]
  BY <1>1 DEF Forward, StreamTypeOK
<1>3. chunks' \in [Upload -> Seq(Event)]
  <2>1. chunks[u] \in Seq(Event) /\ chunks \in [Upload -> Seq(Event)]
    BY DEF StreamTypeOK
  <2>2. Append(chunks[u], Head(notes[u])) \in Seq(Event)
    BY <1>1, <2>1
  <2>3. chunks' = chunks \/ chunks' = [chunks EXCEPT ![u] = Append(chunks[u], Head(notes[u]))]
    BY DEF Forward
  <2>. QED
    BY <2>1, <2>2, <2>3
<1>4. route' \in [Upload -> RouteType]
  <2>1. Closing(route[u]) \in RouteType
    BY <1>0, ClosingType
  <2>. QED
    BY <2>1, RouteTypes DEF Forward, StreamTypeOK, RouteType
<1>. QED
  BY <1>2, <1>3, <1>4 DEF Forward, StreamTypeOK, RouteType

\* The reader subscribes, reads, reconnects and leaves.
LEMMA FormTypes ==
    ASSUME StreamTypeOK,
           Leave \/ \E u \in Upload : Subscribe(u) \/ OnMessage(u) \/ OnError(u)
    PROVE  StreamTypeOK'
<1>1. CASE Leave
  BY <1>1 DEF Leave, StreamTypeOK
<1>2. ASSUME NEW u \in Upload, Subscribe(u) \/ OnError(u)
      PROVE  StreamTypeOK'
  BY <1>2 DEF Subscribe, OnError, StreamTypeOK
<1>3. ASSUME NEW u \in Upload, OnMessage(u)
      PROVE  StreamTypeOK'
  <2>1. Tail(chunks[u]) \in Seq(Event) /\ Head(chunks[u]) \in Event
    BY <1>3 DEF OnMessage, StreamTypeOK
  <2>2. Showing(Head(chunks[u])) \in (Event \ {"progress", "error"}) \cup {"none", "failed", "lost"}
    BY <2>1 DEF Showing, Event, StreamTypeOK
  <2>. QED
    BY <1>3, <2>1, <2>2 DEF OnMessage, StreamTypeOK
<1>. QED
  BY <1>1, <1>2, <1>3

\* Every step keeps the types.
LEMMA StreamNextTypes == StreamTypeOK /\ [StreamNext]_streamVars => StreamTypeOK'
<1>1. ASSUME StreamTypeOK, UNCHANGED streamVars
      PROVE  StreamTypeOK'
  BY <1>1 DEF streamVars, StreamTypeOK
<1>. QED
  BY <1>1, WorkerTypes, ServeTypes, CloseTypes, ForwardTypes, FormTypes DEF StreamNext

\* What events, streams and their readers are, whatever is lost or comes late.
THEOREM StreamTypes == StreamSpec => []StreamTypeOK
  BY StreamInitTypes, StreamNextTypes, PTL DEF StreamSpec

-------------------------------------------------------------------------------
(* The parts side by side. *)

\* The inductive invariants of all parts.
ServicesIInv ==
    /\ IInv /\ CacheIInv /\ StreamTypeOK /\ QueuesIInv
    /\ PlanIInv /\ ParsersIInv /\ SettingsIInv

\* Each part begins as it does alone.
LEMMA ServicesInitIInv == ServicesInit => ServicesIInv
  BY InitIInv, CacheInitIInv, StreamInitTypes, LifecyclesInitIInv, PlanInitIInv,
     ParsersInitIInv, SettingsInitIInv DEF ServicesInit, ServicesIInv

\* A step is one of a single part, or none of it.
LEMMA ServicesNextIInv == ServicesIInv /\ [ServicesNext]_allVars => ServicesIInv'
<1>. SUFFICES ASSUME ServicesIInv, [ServicesNext]_allVars PROVE ServicesIInv'
  OBVIOUS
<1>1. /\ [Next]_vars /\ [CacheNext]_cacheVars /\ [StreamNext]_streamVars
      /\ [LifecyclesNext]_lifecycleVars /\ [PlanNext]_planVars /\ [ParsersNext]_parserVars
      /\ [SettingsNext]_settingsVars
  BY DEF ServicesNext, allVars
<1>. QED
  BY <1>1, NextIInv, CacheNextIInv, StreamNextTypes, LifecyclesNextIInv, PlanNextIInv,
     ParsersNextIInv, SettingsNextIInv DEF ServicesIInv

\* What the variables of the services are: attempts, the cache, streams, processes,
\* extractions, parsers and settings (TypesOK is what the run checks).
THEOREM ServicesTypes == ServicesSpec => []TypesOK
<1>1. ServicesIInv => TypesOK
  <2>1. IInv => TypeOK
    BY DEF IInv
  <2>2. CacheIInv => CacheTypeOK
    BY DEF CacheIInv
  <2>3. QueuesIInv => LifecyclesTypeOK
    BY DEF QueuesIInv
  <2>4. PlanIInv => PlanTypeOK
    BY PlanInvariants
  <2>5. ParsersIInv => ParsersTypeOK
    BY DEF ParsersIInv
  <2>6. SettingsIInv => SettingsTypeOK
    BY SettingsAreTyped
  <2>. QED
    BY <2>1, <2>2, <2>3, <2>4, <2>5, <2>6 DEF ServicesIInv, TypesOK
<1>. QED
  BY <1>1, ServicesInitIInv, ServicesNextIInv, PTL DEF ServicesSpec
===============================================================================

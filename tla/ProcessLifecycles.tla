--------------------------- MODULE ProcessLifecycles ---------------------------
(* How the two long-lived processes come to have a job queue and part with it.

   The web server makes its queue on the first upload and keeps the promise of it:
   uploads that come meanwhile wait for the same one.  The worker makes its own at
   start-up, and stops it when it is told to end or when a step of its start-up fails,
   the one perhaps while it does the other. *)
EXTENDS Naturals, FiniteSets

CONSTANTS
    UploadRequest,         \* uploads to the web server
    MaxSignals      \* bound: SIGTERM, SIGINT, end of stdin

ASSUME SignalsAssumption == MaxSignals \in Nat

VARIABLES
    database,       \* TRUE: the queue's database can be reached
    queueSingleton, \* TRUE: the web server has its queue
    queuePromise,   \* "none", "pending", "kept" or "broken"
    bosses,         \* ghost: how many queues the web server has started to make
    upload,         \* for each upload: "none", "checked", "waiting", "lost", or its status
    boot,           \* how far the worker's main() has come, or "failed", "cleaned"
    attached,       \* TRUE: the signal handlers are
    signals,        \* counts signals
    shutdown,       \* how far shutdown() has come
    stopped,        \* the latch of the worker's queue
    stops,          \* ghost: calls of boss.stop
    settled,        \* the call of boss.stop has come back
    exit            \* "running", "killed", or the code the worker ended with

webVars == <<queueSingleton, queuePromise, bosses, upload>>
workerVars == <<boot, attached, signals, shutdown, stopped, stops, settled, exit>>
lifecycleVars == <<database, webVars, workerVars>>

Boot == {"begin", "queue", "listening", "handled", "ready",
         "unmade", "failed", "stopping", "cleaned"}
Shutdown == {"none", "unlisten", "stop", "stopping", "end", "exit"}

LifecyclesTypeOK ==
    /\ database \in BOOLEAN
    /\ queueSingleton \in BOOLEAN
    /\ queuePromise \in {"none", "pending", "kept", "broken"}
    /\ bosses \in Nat
    /\ upload \in [UploadRequest -> {"none", "checked", "waiting", "lost",
                             "201", "400", "413", "415", "500"}]
    /\ boot \in Boot
    /\ attached \in BOOLEAN
    /\ signals \in 0..MaxSignals
    /\ shutdown \in Shutdown
    /\ stopped \in BOOLEAN
    /\ stops \in 0..2
    /\ settled \in BOOLEAN
    /\ exit \in {"running", "killed", "0", "1"}

LifecyclesInit ==
    /\ database \in BOOLEAN
    /\ queueSingleton = FALSE
    /\ queuePromise = "none"
    /\ bosses = 0
    /\ upload = [u \in UploadRequest |-> "none"]
    /\ boot = "begin"
    /\ attached = FALSE
    /\ signals = 0
    /\ shutdown = "none"
    /\ stopped = FALSE
    /\ stops = 0
    /\ settled = FALSE
    /\ exit = "running"

DatabaseFlips ==
    /\ database' = ~database
    /\ UNCHANGED <<webVars, workerVars>>
-------------------------------------------------------------------------------
(* POST /api/sources *)

\* The checks that need nothing: a form, a file within the cap, a PDF.
Post(u) ==
    /\ upload[u] = "none"
    /\ \E a \in {"checked", "400", "413", "415"} : upload' = [upload EXCEPT ![u] = a]
    /\ UNCHANGED <<database, queueSingleton, queuePromise, bosses, workerVars>>

\* Faulty variant: only a queue that is ready is shared.
GetQueueUnpromised(u) ==
    /\ upload[u] = "checked"
    /\ upload' = [upload EXCEPT ![u] = "waiting"]
    /\ IF queueSingleton THEN UNCHANGED <<queuePromise, bosses>>
       ELSE queuePromise' = "pending" /\ bosses' = bosses + 1
    /\ UNCHANGED <<database, queueSingleton, workerVars>>

\* getQueue: the queue, or the promise there is, or a new one.
GetQueue(u) ==
    /\ upload[u] = "checked"
    /\ upload' = [upload EXCEPT ![u] = "waiting"]
    /\ IF queueSingleton \/ queuePromise # "none" THEN UNCHANGED <<queuePromise, bosses>>
       ELSE queuePromise' = "pending" /\ bosses' = bosses + 1
    /\ UNCHANGED <<database, queueSingleton, workerVars>>

\* createQueue starts pg-boss, which takes the database.
QueueSettles ==
    /\ queuePromise = "pending"
    /\ queueSingleton' = database
    /\ queuePromise' = IF database THEN "kept" ELSE "broken"
    /\ UNCHANGED <<database, bosses, upload, workerVars>>

\* The rest, uploadSource, takes the database, too, and may fail in other ways.
Answer(u) ==
    /\ upload[u] = "waiting"
    /\ queuePromise \in {"kept", "broken"}
    /\ \E a \in IF queueSingleton /\ database THEN {"201", "500"} ELSE {"500"} :
          upload' = [upload EXCEPT ![u] = a]
    /\ UNCHANGED <<database, queueSingleton, queuePromise, bosses, workerVars>>

\* Only this forgets a promise that broke.
RestartWeb ==
    /\ queueSingleton' = FALSE
    /\ queuePromise' = "none"
    /\ bosses' = 0
    /\ upload' = [u \in UploadRequest |->
                    IF upload[u] \in {"checked", "waiting"} THEN "lost" ELSE upload[u]]
    /\ UNCHANGED <<database, workerVars>>
-------------------------------------------------------------------------------
(* worker.ts *)

NextBoot == [begin |-> "queue", queue |-> "listening", listening |-> "handled",
             handled |-> "ready"]

\* createQueue, the LISTEN on the settings, the signal handlers, registerHandlers.
BootStep ==
    /\ exit = "running"
    /\ boot \in DOMAIN NextBoot
    /\ boot # "listening" => database
    /\ boot' = NextBoot[boot]
    /\ attached' = (attached \/ boot = "listening")
    /\ UNCHANGED <<database, webVars, signals, shutdown, stopped, stops, settled, exit>>

\* A step that needs the database, or a queue that is stopped meanwhile, throws; if it
\* was the first one there is no queue to stop.
BootThrows ==
    /\ exit = "running"
    /\ boot \in {"begin", "queue", "handled"}
    /\ ~database \/ stopped
    /\ boot' = IF boot = "begin" THEN "unmade" ELSE "failed"
    /\ UNCHANGED <<database, webVars, attached, signals, shutdown, stopped, stops, settled, exit>>

\* queue.stop: the first caller calls boss.stop and waits for it, a later one for nothing.
Stop ==
    /\ stopped' = TRUE
    /\ stops' = IF stopped THEN stops ELSE stops + 1

\* boss.stop comes back, having stopped the instance or failed to, which is swallowed.
StopSettles ==
    /\ exit = "running"
    /\ stops > 0 /\ ~settled
    /\ settled' = TRUE
    /\ UNCHANGED <<database, webVars, boot, attached, signals, shutdown, stopped, stops, exit>>

\* The catch of main(): the queue is stopped, if it was made ...
CleanUp ==
    /\ exit = "running"
    /\ \/ /\ boot = "failed"
          /\ boot' = IF stopped THEN "cleaned" ELSE "stopping"
          /\ Stop
       \/ /\ boot = "stopping" /\ settled
          /\ boot' = "cleaned"
          /\ UNCHANGED <<stopped, stops>>
    /\ UNCHANGED <<database, webVars, attached, signals, shutdown, settled, exit>>

\* ... and the process ends.
FailBoot ==
    /\ exit = "running"
    /\ boot \in {"unmade", "cleaned"}
    /\ exit' = "1"
    /\ UNCHANGED <<database, webVars, boot, attached, signals, shutdown, stopped, stops, settled>>

\* Before its handlers are attached a signal ends the process as it does any other;
\* then it starts shutdown(), once.
Signal ==
    /\ exit = "running"
    /\ signals < MaxSignals
    /\ signals' = signals + 1
    /\ IF attached
       THEN /\ shutdown' = IF shutdown = "none" THEN "unlisten" ELSE shutdown
            /\ UNCHANGED exit
       ELSE exit' = "killed" /\ UNCHANGED shutdown
    /\ UNCHANGED <<database, webVars, boot, attached, stopped, stops, settled>>

\* Where shutdown() goes on from each of its awaits; stopAt: what follows the call of stop.
ShutdownThrough(stopAt) ==
    /\ exit = "running"
    /\ \/ /\ shutdown = "unlisten"
          /\ shutdown' = "stop"
          /\ UNCHANGED <<stopped, stops, exit>>
       \/ /\ shutdown = "stop"
          /\ shutdown' = stopAt
          /\ Stop
          /\ UNCHANGED exit
       \/ /\ shutdown = "stopping" /\ settled
          /\ shutdown' = "end"
          /\ UNCHANGED <<stopped, stops, exit>>
       \/ /\ shutdown = "end"
          /\ shutdown' = "exit"
          /\ exit' = "0"
          /\ UNCHANGED <<stopped, stops>>
    /\ UNCHANGED <<database, webVars, boot, attached, signals, settled>>

\* Faulty variant: boss.stop is called and not awaited.
ShutdownUnawaited == ShutdownThrough("end")

ShutdownStep == ShutdownThrough(IF stopped THEN "end" ELSE "stopping")

LifecyclesNext ==
    \/ DatabaseFlips \/ RestartWeb
    \/ \E u \in UploadRequest : Post(u) \/ GetQueue(u) \/ Answer(u)
    \/ QueueSettles
    \/ Signal \/ BootStep \/ BootThrows \/ StopSettles \/ CleanUp \/ FailBoot \/ ShutdownStep

LifecyclesSpec == LifecyclesInit /\ [][LifecyclesNext]_lifecycleVars
-------------------------------------------------------------------------------
\* However uploads overlap before the first queue is there, the web server makes one
\* queue: "creating one per request would be wasteful", and pg-boss holds its own pool.
OneQueue == bosses <= 1

\* shutdown() runs while the start-up fails, so that both stop the queue.
BothStop == shutdown # "none" /\ boot \in {"failed", "stopping", "cleaned"}

\* The worker parts with its pg-boss instance once and in time.  "pg-boss rejects a second
\* stop() call": there is none, however signals and a failing start-up overlap.  And when
\* the process ends of itself, the instance it started has been stopped -- unless both its
\* ways to end ran at once, where the later call of stop() is not made to wait.
QueueIsStopped ==
    /\ stops <= 1
    /\ exit \in {"0", "1"} /\ boot # "unmade" /\ ~BothStop => settled
===============================================================================

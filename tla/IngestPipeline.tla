---------------------------- MODULE IngestPipeline ----------------------------
(***************************************************************************)
(* The ingest pipeline: an upload creates a source and a source.parse job; *)
(* the parse handler hands over to source.extract and that one to          *)
(* source.embed (upload-source.ts, handlers/parse.ts, extract.ts,          *)
(* embed.ts).  Postgres keeps the source row, its pages, its               *)
(* recommendations and the attempt history; pg-boss keeps the jobs.        *)
(*                                                                         *)
(* Every await of a handler ends an action: between two actions of a run   *)
(* any other run, the upload or a fault may happen.  A transaction that    *)
(* deletes and inserts under READ COMMITTED is two actions: its delete     *)
(* sees the rows committed when the delete begins, its inserts become      *)
(* visible at commit.                                                      *)
(*                                                                         *)
(* pg-boss is modelled from how queue.ts uses it: a job is delivered, and  *)
(* delivered again when its handler throws, when its worker has died, or   *)
(* when the handler outlives the job's expiry although it still runs, up   *)
(* to RetryLimit redeliveries; one worker process takes one job of a queue *)
(* at a time.  Row locks are left out: they would only forbid some orders  *)
(* of two commits.                                                         *)
(*                                                                         *)
(* Left out: the events the handlers emit, what the documents say, and     *)
(* the taxonomies the extraction writes.                                   *)
(***************************************************************************)
EXTENDS Integers, Sequences, FiniteSets

CONSTANTS
    Source,
    ParseResults,       \* the sets of page numbers a parse may find
    ExtractResults,     \* the sets of recommendation slugs an extraction may find
    RetryLimit,         \* redeliveries pg-boss grants a job
    BatchSize,          \* BATCH_SIZE of embed.ts
    FaultPlans          \* bound: the sequences of faults that may happen

FaultKind == {"throw", "bookkeeping", "lostAck", "crash", "expire", "upload"}

ASSUME RetryLimitAssumption == RetryLimit \in Nat
ASSUME BatchSizeAssumption == BatchSize \in Nat \ {0}
ASSUME FaultPlansAssumption ==
    /\ FaultPlans \subseteq Seq(FaultKind)
    /\ <<>> \in FaultPlans

VARIABLES
    upload,     \* how far uploadSource has come for each source
    stored,     \* sources whose file bytes are in storage
    filed,      \* sources with a source_files row of role original
    status,     \* sources.status
    canonical,  \* the run whose markdown is in sources.canonicalMarkdown
    pages,      \* source_pages rows of each source
    meta,       \* the run whose source metadata is in the source row
    tags,       \* the run whose tags the source has, in one of its taxonomies
    recs,       \* recommendations rows of each source
    vec,        \* the page and recommendation rows whose embedding is set
    attempts,   \* attempts[s][g]: statuses of the attempts of stage g, in order
    job,        \* pg-boss jobs, in the order they were enqueued
    run,        \* deliveries of jobs to handlers, in order, with their locals
    faults,     \* the faults that have happened, in order
    expired     \* whether a job has expired under a handler at work

vars == <<upload, stored, filed, status, canonical, pages, meta, tags, recs, vec,
          attempts, job, run, faults, expired>>
files == <<upload, stored, filed>>
content == <<canonical, pages, meta, tags, recs, vec>>

Stage == {"parse", "extract", "embed"}
Successor == [parse |-> "extract", extract |-> "embed"]
SourceStatus == {"pending", "parsing", "extracting", "embedding", "ready", "failed"}

Job == DOMAIN job
Run == DOMAIN run
None == 0               \* no run yet; runs and jobs are numbered from 1

Page == UNION ParseResults
Slug == UNION ExtractResults
PageRow == [by: Run, no: Page]
RecRow == [by: Run, slug: Slug, from: SUBSET Run]
IsRec(row) == "slug" \in DOMAIN row

InTry == {"begin", "read", "readPages", "describe", "tag", "clear", "write",
          "advance", "selectRecs", "selectPages", "embed", "succeed", "handoff"}
Live == InTry \cup {"start", "catch", "markFailed", "rethrow", "return"}
PC == Live \cup {"done", "dead"}

Src(r) == job[run[r].job].source
StageOf(r) == job[run[r].job].stage
At(r, g, place) == run[r].pc = place /\ StageOf(r) = g

\* Run r goes on to a place of its handler.
Goto(r, place) == run' = [run EXCEPT ![r].pc = place]

\* A fault happens if one of the plans goes on with it.
Fault(kind) == Append(faults, kind) \in FaultPlans /\ faults' = Append(faults, kind)

\* Faulty variant: the status the plan's wording asks for, which the enum lacks.
PhaseAfterAsPlanned == [parse |-> "parsed", extract |-> "embedding", embed |-> "ready"]

\* The status a stage leaves its source in: the phase the source enters.
PhaseAfter == [parse |-> "extracting", extract |-> "embedding", embed |-> "ready"]

TypeOK ==
    /\ upload \in [Source -> {"new", "row", "blob", "file", "sent", "lost"}]
    /\ stored \subseteq Source
    /\ filed \subseteq Source
    /\ status \in [Source -> SourceStatus \cup {"absent"}]
    /\ canonical \in [Source -> Run \cup {None}]
    /\ pages \in [Source -> SUBSET PageRow]
    /\ meta \in [Source -> Run \cup {None}]
    /\ tags \in [Source -> Run \cup {None}]
    /\ recs \in [Source -> SUBSET RecRow]
    /\ vec \subseteq PageRow \cup RecRow
    /\ attempts \in [Source -> [Stage -> Seq({"running", "succeeded", "failed"})]]
    /\ job \in Seq([state: {"queued", "active", "completed", "failed"},
                    stage: Stage, source: Source, tries: Nat,
                    run: Run \cup {None}, by: Run \cup {None}])
    /\ run \in Seq([pc: PC, job: Job, attempt: Nat, read: SUBSET Run,
                    seen: SUBSET (PageRow \cup RecRow),
                    todo: SUBSET (PageRow \cup RecRow)])
    /\ faults \in FaultPlans
    /\ expired \in BOOLEAN

Init ==
    /\ upload = [s \in Source |-> "new"]
    /\ stored = {}
    /\ filed = {}
    /\ status = [s \in Source |-> "absent"]
    /\ canonical = [s \in Source |-> None]
    /\ pages = [s \in Source |-> {}]
    /\ meta = [s \in Source |-> None]
    /\ tags = [s \in Source |-> None]
    /\ recs = [s \in Source |-> {}]
    /\ vec = {}
    /\ attempts = [s \in Source |-> [g \in Stage |-> <<>>]]
    /\ job = <<>>
    /\ run = <<>>
    /\ faults = <<>>
    /\ expired = FALSE

-------------------------------------------------------------------------------
(* Upload *)

\* The job a caller enqueues; by is the run that enqueues it.
Enqueue(g, s, by) ==
    job' = Append(job, [state |-> "queued", stage |-> g, source |-> s, tries |-> 0,
                        run |-> None, by |-> by])

CreateSource(s) ==
    /\ upload[s] = "new"
    /\ upload' = [upload EXCEPT ![s] = "row"]
    /\ status' = [status EXCEPT ![s] = "pending"]
    /\ UNCHANGED <<stored, filed, content, attempts, job, run, faults, expired>>

StoreFile(s) ==
    /\ upload[s] = "row"
    /\ upload' = [upload EXCEPT ![s] = "blob"]
    /\ stored' = stored \cup {s}
    /\ UNCHANGED <<filed, status, content, attempts, job, run, faults, expired>>

CreateSourceFile(s) ==
    /\ upload[s] = "blob"
    /\ upload' = [upload EXCEPT ![s] = "file"]
    /\ filed' = filed \cup {s}
    /\ UNCHANGED <<stored, status, content, attempts, job, run, faults, expired>>

\* Faulty variant: the job is sent as soon as the source row exists.
EnqueueParseEagerly(s) ==
    /\ upload[s] \in {"row", "file"}
    /\ upload' = [upload EXCEPT ![s] = "sent"]
    /\ Enqueue("parse", s, None)
    /\ UNCHANGED <<stored, filed, status, content, attempts, run, faults, expired>>

EnqueueParse(s) ==
    /\ upload[s] = "file"
    /\ upload' = [upload EXCEPT ![s] = "sent"]
    /\ Enqueue("parse", s, None)
    /\ UNCHANGED <<stored, filed, status, content, attempts, run, faults, expired>>

\* One of the steps throws, or the web process dies: nothing is undone.
LoseUpload(s) ==
    /\ upload[s] \in {"row", "blob", "file"}
    /\ Fault("upload")
    /\ upload' = [upload EXCEPT ![s] = "lost"]
    /\ UNCHANGED <<stored, filed, status, content, attempts, job, run, expired>>

-------------------------------------------------------------------------------
(* pg-boss and the worker process *)

\* The run the job was last delivered to is still the one pg-boss waits for.
Awaited(r) == job[run[r].job].state = "active" /\ job[run[r].job].run = r

\* The worker polls a queue again once its last job of the queue is settled.
Polling(g) == \A r \in Run : run[r].pc \in Live /\ StageOf(r) = g => ~Awaited(r)

Deliver(j) ==
    /\ job[j].state = "queued"
    /\ Polling(job[j].stage)
    /\ job' = [job EXCEPT ![j].state = "active", ![j].tries = @ + 1,
                          ![j].run = Len(run) + 1]
    /\ run' = Append(run, [pc |-> "start", job |-> j, attempt |-> 0, read |-> {},
                           seen |-> {}, todo |-> {}])
    /\ UNCHANGED <<files, status, content, attempts, faults, expired>>

\* Faulty variant: one redelivery fewer than granted.
RedeliverOneFewer(j) ==
    [job EXCEPT ![j].state = IF job[j].tries < RetryLimit THEN "queued" ELSE "failed"]

\* A failed delivery: the job goes back to its queue or has used its retries.
Redeliver(j) ==
    [job EXCEPT ![j].state = IF job[j].tries <= RetryLimit THEN "queued" ELSE "failed"]

\* What a run settles is ignored once pg-boss no longer waits for it.
Settle(r, outcome) ==
    job' = IF ~Awaited(r) THEN job
           ELSE IF outcome = "completed" THEN [job EXCEPT ![run[r].job].state = "completed"]
           ELSE Redeliver(run[r].job)

\* The run is over: it keeps its job and attempt number, its locals are gone.
Ended(r, place) == [run[r] EXCEPT !.pc = place, !.seen = {}, !.read = {}, !.todo = {}]

Return(r) ==
    /\ run[r].pc = "return"
    /\ Settle(r, "completed")
    /\ run' = [run EXCEPT ![r] = Ended(r, "done")]
    /\ UNCHANGED <<files, status, content, attempts, faults, expired>>

\* Faulty variant: the error is swallowed with the bookkeeping's errors.
RethrowSwallowed(r) ==
    /\ run[r].pc = "rethrow"
    /\ Settle(r, "completed")
    /\ run' = [run EXCEPT ![r] = Ended(r, "done")]
    /\ UNCHANGED <<files, status, content, attempts, faults, expired>>

\* The job fails, for pg-boss to decide about a retry.
Rethrow(r) ==
    /\ run[r].pc = "rethrow"
    /\ Settle(r, "failed")
    /\ run' = [run EXCEPT ![r] = Ended(r, "done")]
    /\ UNCHANGED <<files, status, content, attempts, faults, expired>>

\* The worker process dies with every handler in it.
CrashWorker ==
    /\ \E r \in Run : run[r].pc \in Live
    /\ Fault("crash")
    /\ run' = [r \in Run |->
                 IF run[r].pc \in Live THEN Ended(r, "dead") ELSE run[r]]
    /\ UNCHANGED <<files, status, content, attempts, job, expired>>

\* pg-boss notices that a delivery was never settled.
ReapJob(j) ==
    /\ job[j].state = "active"
    /\ run[job[j].run].pc = "dead"
    /\ job' = Redeliver(j)
    /\ UNCHANGED <<files, status, content, attempts, run, faults, expired>>

\* The job expires under a handler that is still at work, and goes on working.
ExpireJob(j) ==
    /\ job[j].state = "active"
    /\ run[job[j].run].pc \in Live
    /\ Fault("expire")
    /\ expired' = TRUE
    /\ job' = Redeliver(j)
    /\ UNCHANGED <<files, status, content, attempts, run>>

-------------------------------------------------------------------------------
(* What the three handlers have in common *)

\* The place in the handler where its try block begins.
FirstPlace == [parse |-> "begin", extract |-> "read", embed |-> "selectRecs"]

\* The providers are resolved and the attempt opened: one indivisible allocation (PipelineAttempts).
StartAttempt(r) ==
    LET s == Src(r)
        g == StageOf(r) IN
    /\ run[r].pc = "start"
    /\ attempts' = [attempts EXCEPT ![s][g] = Append(@, "running")]
    /\ run' = [run EXCEPT ![r].pc = FirstPlace[g],
                          ![r].attempt = Len(attempts[s][g]) + 1]
    /\ UNCHANGED <<files, status, content, job, faults, expired>>

\* Both stand before the try: a throw fails the job and marks nothing.
StartThrows(r) ==
    /\ run[r].pc = "start"
    /\ Fault("throw")
    /\ Goto(r, "rethrow")
    /\ UNCHANGED <<files, status, content, attempts, job, expired>>

SetAttempt(r, outcome) ==
    attempts' = [attempts EXCEPT ![Src(r)][StageOf(r)][run[r].attempt] = outcome]

SucceedAttempt(r) ==
    /\ run[r].pc = "succeed"
    /\ SetAttempt(r, "succeeded")
    /\ Goto(r, IF StageOf(r) = "embed" THEN "return" ELSE "handoff")
    /\ UNCHANGED <<files, status, content, job, faults, expired>>

\* Faulty variant: a source gets one job of each stage and no second one.
HandOffOnce(r) ==
    /\ run[r].pc = "handoff"
    /\ IF \E j \in Job : job[j].source = Src(r) /\ job[j].stage = Successor[StageOf(r)]
       THEN UNCHANGED job
       ELSE Enqueue(Successor[StageOf(r)], Src(r), r)
    /\ Goto(r, "return")
    /\ UNCHANGED <<files, status, content, attempts, faults, expired>>

\* ctx.queue.enqueue of the next stage, the last statement of the try.
HandOff(r) ==
    /\ run[r].pc = "handoff"
    /\ Enqueue(Successor[StageOf(r)], Src(r), r)
    /\ Goto(r, "return")
    /\ UNCHANGED <<files, status, content, attempts, faults, expired>>

\* The job is inserted and the answer is lost: enqueue throws.
HandOffUnacknowledged(r) ==
    /\ run[r].pc = "handoff"
    /\ Fault("lostAck")
    /\ Enqueue(Successor[StageOf(r)], Src(r), r)
    /\ Goto(r, "catch")
    /\ UNCHANGED <<files, status, content, attempts, expired>>

\* Any statement of the try throws: a provider, the storage, the database.
Throw(r) ==
    /\ run[r].pc \in InTry
    /\ Fault("throw")
    /\ Goto(r, "catch")
    /\ UNCHANGED <<files, status, content, attempts, job, expired>>

\* catch: the attempt is marked failed; if that write fails it is swallowed.
RecordFailure(r) ==
    /\ run[r].pc = "catch"
    /\ Goto(r, "markFailed")
    /\ \/ SetAttempt(r, "failed") /\ UNCHANGED faults
       \/ Fault("bookkeeping") /\ UNCHANGED attempts
    /\ UNCHANGED <<files, status, content, job, expired>>

\* then the source, likewise, and the error is thrown on to pg-boss.
MarkFailed(r) ==
    /\ run[r].pc = "markFailed"
    /\ Goto(r, "rethrow")
    /\ \/ status' = [status EXCEPT ![Src(r)] = "failed"] /\ UNCHANGED faults
       \/ Fault("bookkeeping") /\ UNCHANGED status
    /\ UNCHANGED <<files, content, attempts, job, expired>>

-------------------------------------------------------------------------------
(* source.parse *)

ParseBegin(r) ==
    /\ At(r, "parse", "begin")
    /\ status' = [status EXCEPT ![Src(r)] = "parsing"]
    /\ Goto(r, "clear")
    /\ UNCHANGED <<files, content, attempts, job, faults, expired>>

\* Faulty variant: rows of an earlier parse are left alone.
ParseClearNothing(r) ==
    /\ At(r, "parse", "clear")
    /\ Goto(r, IF Src(r) \in filed \cap stored THEN "write" ELSE "catch")
    /\ UNCHANGED <<files, status, content, attempts, job, faults, expired>>

\* The file is found, fetched and converted; the transaction then deletes the
\* page rows it can see.  Without a file row or a blob the handler throws.
ParseClear(r) ==
    /\ At(r, "parse", "clear")
    /\ run' = [run EXCEPT
                 ![r].pc = IF Src(r) \in filed \cap stored THEN "write" ELSE "catch",
                 ![r].seen = pages[Src(r)]]
    /\ UNCHANGED <<files, status, content, attempts, job, faults, expired>>

\* The transaction commits: deletes, inserts, markdown and status at once.
ParseCommit(r) ==
    LET s == Src(r) IN
    /\ At(r, "parse", "write")
    /\ \E found \in ParseResults :
         pages' = [pages EXCEPT ![s] = (@ \ run[r].seen) \cup [by: {r}, no: found]]
    /\ vec' = vec \ run[r].seen
    /\ canonical' = [canonical EXCEPT ![s] = r]
    /\ status' = [status EXCEPT ![s] = PhaseAfter["parse"]]
    /\ Goto(r, "succeed")
    /\ UNCHANGED <<files, meta, tags, recs, attempts, job, faults, expired>>

-------------------------------------------------------------------------------
(* source.extract *)

\* The source row is read, with its markdown ...
ExtractRead(r) ==
    /\ At(r, "extract", "read")
    /\ run' = [run EXCEPT ![r].pc = "readPages", ![r].read = {canonical[Src(r)]}]
    /\ UNCHANGED <<files, status, content, attempts, job, faults, expired>>

\* ... and then its pages, for the model calls that follow.
ExtractReadPages(r) ==
    /\ At(r, "extract", "readPages")
    /\ run' = [run EXCEPT ![r].pc = "describe",
                          ![r].read = @ \cup {p.by : p \in pages[Src(r)]}]
    /\ UNCHANGED <<files, status, content, attempts, job, faults, expired>>

\* The model calls have answered; the source's metadata is overwritten ...
ExtractDescribe(r) ==
    /\ At(r, "extract", "describe")
    /\ meta' = [meta EXCEPT ![Src(r)] = r]
    /\ Goto(r, "tag")
    /\ UNCHANGED <<files, status, canonical, pages, tags, recs, vec, attempts, job, faults, expired>>

\* ... and then its tags, each taxonomy by itself.
ExtractTag(r) ==
    /\ At(r, "extract", "tag")
    /\ tags' = [tags EXCEPT ![Src(r)] = r]
    /\ Goto(r, "clear")
    /\ UNCHANGED <<files, status, canonical, pages, meta, recs, vec, attempts, job, faults, expired>>

\* The transaction deletes the recommendations it can see.
ExtractClear(r) ==
    /\ At(r, "extract", "clear")
    /\ run' = [run EXCEPT ![r].pc = "write", ![r].seen = recs[Src(r)]]
    /\ UNCHANGED <<files, status, content, attempts, job, faults, expired>>

\* The transaction commits, unless a slug it inserts is still in the table:
\* the unique index makes the insert throw.
ExtractCommit(r) ==
    LET s == Src(r)
        kept == recs[s] \ run[r].seen IN
    /\ At(r, "extract", "write")
    /\ \E found \in ExtractResults :
         IF \E row \in kept : row.slug \in found
         THEN Goto(r, "catch") /\ UNCHANGED <<recs, vec>>
         ELSE /\ recs' = [recs EXCEPT ![s] =
                            kept \cup [by: {r}, slug: found, from: {run[r].read}]]
              /\ vec' = vec \ run[r].seen
              /\ Goto(r, "advance")
    /\ UNCHANGED <<files, status, canonical, pages, meta, tags, attempts, job, faults, expired>>

ExtractAdvance(r) ==
    /\ At(r, "extract", "advance")
    /\ status' = [status EXCEPT ![Src(r)] = PhaseAfter["extract"]]
    /\ Goto(r, "succeed")
    /\ UNCHANGED <<files, content, attempts, job, faults, expired>>

-------------------------------------------------------------------------------
(* source.embed *)

EmbedSelectRecs(r) ==
    /\ At(r, "embed", "selectRecs")
    /\ run' = [run EXCEPT ![r].pc = "selectPages", ![r].todo = recs[Src(r)] \ vec]
    /\ UNCHANGED <<files, status, content, attempts, job, faults, expired>>

EmbedSelectPages(r) ==
    /\ At(r, "embed", "selectPages")
    /\ run' = [run EXCEPT ![r].pc = "embed", ![r].todo = @ \cup (pages[Src(r)] \ vec)]
    /\ UNCHANGED <<files, status, content, attempts, job, faults, expired>>

\* One batch: recommendations first, in no particular order.  The UPDATE by id
\* reaches the rows of the batch that are still in the tables.
EmbedBatch(r) ==
    LET s == Src(r)
        todoRecs == {row \in run[r].todo : IsRec(row)}
        next == IF todoRecs # {} THEN todoRecs ELSE run[r].todo
        size == IF Cardinality(next) < BatchSize THEN Cardinality(next) ELSE BatchSize IN
    /\ At(r, "embed", "embed")
    /\ next # {}
    /\ \E batch \in {b \in SUBSET next : Cardinality(b) = size} :
         /\ vec' = vec \cup (batch \cap (recs[s] \cup pages[s]))
         /\ run' = [run EXCEPT ![r].todo = @ \ batch]
    /\ UNCHANGED <<files, status, canonical, pages, meta, tags, recs, attempts, job, faults, expired>>

\* Faulty variant: the batches are not awaited.
EmbedReadyEarly(r) ==
    /\ At(r, "embed", "embed")
    /\ status' = [status EXCEPT ![Src(r)] = PhaseAfter["embed"]]
    /\ Goto(r, "succeed")
    /\ UNCHANGED <<files, content, attempts, job, faults, expired>>

EmbedReady(r) ==
    /\ At(r, "embed", "embed")
    /\ run[r].todo = {}
    /\ status' = [status EXCEPT ![Src(r)] = PhaseAfter["embed"]]
    /\ Goto(r, "succeed")
    /\ UNCHANGED <<files, content, attempts, job, faults, expired>>

-------------------------------------------------------------------------------
UploadStep(s) == CreateSource(s) \/ StoreFile(s) \/ CreateSourceFile(s) \/ EnqueueParse(s)

ParseStep(r) == ParseBegin(r) \/ ParseClear(r) \/ ParseCommit(r)

ExtractStep(r) ==
    ExtractRead(r) \/ ExtractReadPages(r) \/ ExtractDescribe(r) \/ ExtractTag(r)
    \/ ExtractClear(r) \/ ExtractCommit(r) \/ ExtractAdvance(r)

EmbedStep(r) ==
    EmbedSelectRecs(r) \/ EmbedSelectPages(r) \/ EmbedBatch(r) \/ EmbedReady(r)

\* A handler that is not hit by a fault.
HandlerStep(r) ==
    StartAttempt(r) \/ ParseStep(r) \/ ExtractStep(r) \/ EmbedStep(r)
    \/ SucceedAttempt(r) \/ HandOff(r)
    \/ RecordFailure(r) \/ MarkFailed(r) \/ Rethrow(r) \/ Return(r)

HandlerFault(r) == StartThrows(r) \/ Throw(r) \/ HandOffUnacknowledged(r)

Next ==
    \/ \E s \in Source : UploadStep(s) \/ LoseUpload(s)
    \/ \E j \in Job : Deliver(j) \/ ReapJob(j) \/ ExpireJob(j)
    \/ \E r \in Run : HandlerStep(r) \/ HandlerFault(r)
    \/ CrashWorker

Spec == Init /\ [][Next]_vars

\* A live worker polls every queue, the handlers it runs for a queue go on, and
\* pg-boss's maintenance reaps what a dead worker left.  Nothing obliges a fault
\* to happen, and no order is assumed among the jobs of a queue.
FairSpec ==
    /\ Spec
    /\ \A s \in Source : WF_vars(UploadStep(s))
    /\ \A g \in Stage :
         /\ WF_vars(\E j \in Job : job[j].stage = g /\ Deliver(j))
         /\ WF_vars(\E r \in Run : StageOf(r) = g /\ HandlerStep(r))
    /\ WF_vars(\E j \in Job : ReapJob(j))
-------------------------------------------------------------------------------
JobsOf(s) == {j \in Job : job[j].source = s}

\* Nothing will happen to source s any more: no job of it waits or is at work,
\* and no handler of it is still running.
Quiescent(s) ==
    /\ upload[s] = "sent"
    /\ \A j \in JobsOf(s) : job[j].state \in {"completed", "failed"}
    /\ \A r \in Run : Src(r) = s => run[r].pc \notin Live

Embedded(s) == pages[s] \cup recs[s] \subseteq vec

\* A job pg-boss counts as completed did all its work, whatever faults hit its
\* deliveries: the delivery it waited for closed its attempt "succeeded" and
\* enqueued the next stage.  No completed stage leaves the pipeline dangling.
CompletedHandsOff ==
    \A j \in Job :
        job[j].state = "completed" =>
            LET r == job[j].run
                s == job[j].source
                g == job[j].stage IN
            /\ run[r].attempt \in DOMAIN attempts[s][g]
            /\ attempts[s][g][run[r].attempt] = "succeeded"
            /\ g # "embed" =>
                 \E k \in JobsOf(s) : job[k].stage = Successor[g] /\ job[k].by = r

\* A stage finds its inputs: a parse job exists only for a source whose file is
\* stored and recorded, an extract job only after a parse has committed, an
\* embed job only after an extraction has described the source.
JobsHaveInputs ==
    \A j \in Job :
        LET s == job[j].source IN
        /\ s \in filed \cap stored
        /\ job[j].stage # "parse" => canonical[s] # None
        /\ job[j].stage = "embed" => meta[s] # None /\ tags[s] # None

\* "Clearing existing page rows first keeps re-parses idempotent (no duplicate
\* page rows per source)": a source has one row for a page number.
NoDuplicatePages ==
    \A s \in Source : \A p, q \in pages[s] : p.no = q.no => p = q

\* As long as no job expires more is true: the pages of a source all stem from the
\* very parse whose markdown the source row holds, however often parses are retried.
CanonicalMatchesPages ==
    ~expired => \A s \in Source : \A p \in pages[s] : p.by = canonical[s]

\* When the last handler of a source is through, no job has expired under its
\* handler and none has used up its retries, the source is whole: ready, every
\* row embedded, pages of one parse, recommendations of one extraction that read
\* just that parse, metadata and tags of the same extraction -- although stages
\* of one source may have overlapped after a lost acknowledgement or a crash.
QuiescentConsistent ==
    ~expired => \A s \in Source :
        Quiescent(s) /\ (\A j \in JobsOf(s) : job[j].state # "failed") =>
            /\ status[s] = "ready"
            /\ Embedded(s)
            /\ meta[s] = tags[s]
            /\ \A row \in recs[s] : row.by = meta[s] /\ row.from = {canonical[s]}

\* The job has used up its retries and nobody was left to say so: the worker died under
\* its last delivery, or that one threw before the try whose catch sets the status.
Unmarked(j) ==
    LET r == job[j].run IN
    /\ job[j].state = "failed"
    /\ job[j].tries > RetryLimit
    /\ run[r].pc = "dead" \/ run[r].attempt = 0

\* Every source submitted ends up "ready" or "failed" for good, after a crash or a lost
\* acknowledgement and after faults that use up the retries (two throws, a throw and a
\* crash), but for one whose last delivery ended where no handler marks it: that one stays
\* in the phase it was in.  Where the write of the status is itself lost, or a second fault
\* follows a crash, nothing is claimed: the run's plans have neither.
EventuallySettled ==
    \A s \in Source :
        upload[s] = "sent" ~>
            [](status[s] \in {"ready", "failed"} \/ \E j \in JobsOf(s) : Unmarked(j))

\* The last stage a source has reached: 1 to 3 while a job of the stage is the
\* last one enqueued for it, 4 once an embed job has completed.
StageReached(s) ==
    LET has(g) == \E j \in JobsOf(s) : job[j].stage = g IN
    IF \E j \in JobsOf(s) : job[j].stage = "embed" /\ job[j].state = "completed" THEN 4
    ELSE IF has("embed") THEN 3 ELSE IF has("extract") THEN 2
    ELSE IF has("parse") THEN 1 ELSE 0

Staged == INSTANCE StagedIngest WITH
            stage <- [s \in Source |-> StageReached(s)],
            markdown <- canonical, parsed <- pages,
            described <- [s \in Source |-> <<meta[s], tags[s]>>],
            extracted <- recs, indexed <- vec,
            ready <- {s \in Source : status[s] = "ready"}

\* "A failed extraction should not require re-running OCR; a failed embedding
\* job should not re-run extraction": as long as handlers fail by throwing, the
\* pipeline is a line of three stages, each freezing its output when it is done, and
\* a source that is "ready" (search and the public pages look at nothing else) has
\* every row of it embedded and keeps them.
ImplementsStages == Staged!Spec
===============================================================================

-------------------------- MODULE IngestPipelineProofs --------------------------
(***************************************************************************)
(* Proofs about the ingest pipeline: any number of sources, any documents  *)
(* and extractions, any number of retries and any faults in any order.     *)
(***************************************************************************)
EXTENDS IngestPipeline, TLAPS

JobRec == [state: {"queued", "active", "completed", "failed"}, stage: Stage, source: Source,
           tries: Nat, run: Run \cup {None}, by: Run \cup {None}]

Row == PageRow \cup RecRow

RunRec == [pc: PC, job: Job, attempt: Nat, read: SUBSET Run, seen: SUBSET Row, todo: SUBSET Row]

\* TypeOK in three parts.
JobTypes == job \in Seq(JobRec)
RunTypes == run \in Seq(RunRec)

DataTypes ==
    /\ upload \in [Source -> {"new", "row", "blob", "file", "sent", "lost"}]
    /\ stored \subseteq Source
    /\ filed \subseteq Source
    /\ status \in [Source -> SourceStatus \cup {"absent"}]
    /\ canonical \in [Source -> Run \cup {None}]
    /\ pages \in [Source -> SUBSET PageRow]
    /\ meta \in [Source -> Run \cup {None}]
    /\ tags \in [Source -> Run \cup {None}]
    /\ recs \in [Source -> SUBSET RecRow]
    /\ vec \subseteq Row
    /\ attempts \in [Source -> [Stage -> Seq({"running", "succeeded", "failed"})]]
    /\ faults \in FaultPlans
    /\ expired \in BOOLEAN

Types == JobTypes /\ RunTypes /\ DataTypes

LEMMA TypesAreTypeOK == Types <=> TypeOK
  BY DEF Types, TypeOK, JobTypes, RunTypes, DataTypes, JobRec, RunRec, Row

\* The places of the handler of a stage.
PlacesOf(g) ==
    {"start", "succeed", "catch", "markFailed", "rethrow", "return", "done", "dead"}
    \cup (CASE g = "parse" -> {"begin", "clear", "write", "handoff"}
            [] g = "extract" -> {"read", "readPages", "describe", "tag", "clear", "write",
                                 "advance", "handoff"}
            [] g = "embed" -> {"selectRecs", "selectPages", "embed"})

Places == \A r \in Run : run[r].pc \in PlacesOf(StageOf(r))

\* What a handler has written, it leaves behind.
Progress(r) ==
    LET s == Src(r)
        place == run[r].pc IN
    /\ StageOf(r) = "parse" /\ place \in {"succeed", "handoff"} => canonical[s] # None
    /\ StageOf(r) = "extract" /\ place \in {"tag", "clear", "write", "advance", "succeed", "handoff"}
            => meta[s] # None
    /\ StageOf(r) = "extract" /\ place \in {"clear", "write", "advance", "succeed", "handoff"}
            => tags[s] # None

Uploaded ==
    \A s \in Source : /\ upload[s] \in {"blob", "file"} => s \in stored
                      /\ upload[s] = "file" => s \in filed

Inputs == JobsHaveInputs /\ Uploaded /\ \A r \in Run : Progress(r)

-------------------------------------------------------------------------------
\* What a run is.
LEMMA RunFields ==
    ASSUME Types, NEW r \in Run
    PROVE  /\ run[r] \in RunRec
           /\ run[r].job \in Job /\ run[r].pc \in PC /\ run[r].attempt \in Nat
           /\ run[r].read \subseteq Run /\ run[r].seen \subseteq Row /\ run[r].todo \subseteq Row
           /\ job[run[r].job] \in JobRec
           /\ Src(r) \in Source /\ StageOf(r) \in Stage
           /\ r \in Nat \ {0}
<1>1. run[r] \in RunRec /\ r \in Nat \ {0}
  BY DEF Types, RunTypes, Run
<1>2. run[r].job \in Job /\ run[r].pc \in PC /\ run[r].attempt \in Nat
      /\ run[r].read \subseteq Run /\ run[r].seen \subseteq Row /\ run[r].todo \subseteq Row
  BY <1>1 DEF RunRec
<1>3. job[run[r].job] \in JobRec
  BY <1>2 DEF Types, JobTypes, Job
<1>. QED
  BY <1>1, <1>2, <1>3 DEF Src, StageOf, JobRec

\* What a job is.
LEMMA JobFields ==
    ASSUME Types, NEW j \in Job
    PROVE  /\ job[j] \in JobRec
           /\ job[j].source \in Source /\ job[j].stage \in Stage /\ job[j].tries \in Nat
           /\ job[j].run \in Run \cup {None} /\ job[j].by \in Run \cup {None}
<1>1. job[j] \in JobRec
  BY DEF Types, JobTypes, Job
<1>. QED
  BY <1>1 DEF JobRec

\* A run goes on in its handler: the other runs, the jobs, the files and the attempts
\* stay as they are.  It does not get through with its work by that.
Tried == InTry \cup {"catch", "markFailed", "return"}

Moves(r) ==
    /\ run[r].pc \in Live
    /\ UNCHANGED <<upload, stored, filed, attempts, job, expired>>
    /\ run' = [run EXCEPT ![r] = run'[r]]
    /\ run'[r] \in RunRec
    /\ run'[r].job = run[r].job /\ run'[r].attempt = run[r].attempt
    /\ run'[r].pc \in PlacesOf(StageOf(r)) \cap (Live \ {"handoff", "return"})
    /\ run'[r].pc \in Tried => run[r].pc \in Tried

LEMMA MoveIsLocal ==
    ASSUME Types, NEW r \in Run, Moves(r)
    PROVE  /\ Run' = Run /\ Job' = Job
           /\ \A q \in Run : q # r => run'[q] = run[q]
           /\ \A q \in Run : Src(q)' = Src(q) /\ StageOf(q)' = StageOf(q)
           /\ PageRow' = PageRow /\ RecRow' = RecRow /\ Row' = Row
           /\ RunRec' = RunRec /\ JobRec' = JobRec
           /\ JobTypes' /\ RunTypes'
<1>1. run' \in Seq(RunRec) /\ DOMAIN run' = DOMAIN run
  BY DEF Types, RunTypes, Run, Moves
<1>2. Run' = Run /\ Job' = Job
  BY <1>1 DEF Run, Job, Moves
<1>3. \A q \in Run : q # r => run'[q] = run[q]
  BY <1>1 DEF Run, Moves, Types, RunTypes
<1>4. \A q \in Run : Src(q)' = Src(q) /\ StageOf(q)' = StageOf(q)
  BY <1>2, <1>3 DEF Src, StageOf, Moves
<1>5. PageRow' = PageRow /\ RecRow' = RecRow /\ Row' = Row
  BY <1>2 DEF PageRow, RecRow, Row
<1>6. RunRec' = RunRec /\ JobRec' = JobRec
  BY <1>2, <1>5 DEF RunRec, JobRec
<1>7. JobTypes' /\ RunTypes'
  BY <1>1, <1>6 DEF JobTypes, RunTypes, Types, Moves
<1>. QED
  BY <1>2, <1>3, <1>4, <1>5, <1>6, <1>7

\* What a stage has produced is produced for good.
Kept ==
    \A s \in Source : /\ canonical[s] # None => canonical'[s] # None
                      /\ meta[s] # None => meta'[s] # None
                      /\ tags[s] # None => tags'[s] # None

Goes(r) == Moves(r) /\ DataTypes' /\ Kept /\ Progress(r)'

\* A run that moves to another place, keeps what it saw in its locals, and writes
\* nothing but a status.
LEMMA LookGoes ==
    ASSUME Types, Places, Inputs, NEW r \in Run, NEW place \in Live \ {"handoff", "return"},
           run[r].pc \in Live, place \in PlacesOf(StageOf(r)),
           place \in Tried => run[r].pc \in Tried,
           run' = [run EXCEPT ![r] = run'[r]],
           run'[r] \in RunRec, run'[r].pc = place,
           run'[r].job = run[r].job, run'[r].attempt = run[r].attempt,
           UNCHANGED <<files, content, attempts, job, expired>>,
           faults' \in FaultPlans,
           status' = status \/ \E g \in SourceStatus : status' = [status EXCEPT ![Src(r)] = g],
           StageOf(r) = "parse" /\ place = "succeed" => canonical[Src(r)] # None,
           StageOf(r) = "extract" /\ place \in {"tag", "clear", "write", "advance", "succeed"}
               => meta[Src(r)] # None,
           StageOf(r) = "extract" /\ place \in {"clear", "write", "advance", "succeed"}
               => tags[Src(r)] # None
    PROVE  Goes(r)
<1>1. Moves(r)
  BY DEF Moves, files
<1>2. Run' = Run /\ PageRow' = PageRow /\ RecRow' = RecRow /\ Row' = Row
      /\ Src(r)' = Src(r) /\ StageOf(r)' = StageOf(r)
  BY <1>1, MoveIsLocal
<1>3. DataTypes'
  <2>1. status' \in [Source -> SourceStatus \cup {"absent"}]
    BY DEF Types, DataTypes
  <2>. QED
    BY <1>2, <2>1 DEF Types, DataTypes, content, files
<1>4. Kept
  BY DEF Kept, content
<1>5. Progress(r)'
  BY <1>2 DEF Progress, content
<1>. QED
  BY <1>1, <1>3, <1>4, <1>5 DEF Goes

LEMMA GotoGoes ==
    ASSUME Types, Places, Inputs, NEW r \in Run, NEW place \in Live \ {"handoff", "return"},
           run[r].pc \in Live, Goto(r, place), place \in PlacesOf(StageOf(r)),
           place \in Tried => run[r].pc \in Tried,
           UNCHANGED <<files, content, attempts, job, expired>>,
           faults' \in FaultPlans,
           status' = status \/ \E g \in SourceStatus : status' = [status EXCEPT ![Src(r)] = g],
           StageOf(r) = "parse" /\ place = "succeed" => canonical[Src(r)] # None,
           StageOf(r) = "extract" /\ place \in {"tag", "clear", "write", "advance", "succeed"}
               => meta[Src(r)] # None,
           StageOf(r) = "extract" /\ place \in {"clear", "write", "advance", "succeed"}
               => tags[Src(r)] # None
    PROVE  Goes(r)
<1>1. /\ run[r] \in RunRec
      /\ run'[r] = [run[r] EXCEPT !.pc = place]
      /\ run' = [run EXCEPT ![r] = run'[r]]
  BY RunFields DEF Goto, Types, RunTypes, Run
<1>2. run'[r] \in RunRec /\ run'[r].pc = place
      /\ run'[r].job = run[r].job /\ run'[r].attempt = run[r].attempt
  BY <1>1 DEF RunRec, PC
<1>. QED
  BY <1>1, <1>2, LookGoes

LEMMA StandsIn ==
    ASSUME Types, Places, NEW r \in Run
    PROVE  run[r].pc \in PlacesOf(StageOf(r))
  BY DEF Places

\* What a stage finds: a file, markdown, metadata and tags.
LEMMA InputsOf ==
    ASSUME Types, Inputs, NEW r \in Run
    PROVE  /\ Src(r) \in filed \cap stored
           /\ StageOf(r) # "parse" => canonical[Src(r)] # None
           /\ StageOf(r) = "embed" => meta[Src(r)] # None /\ tags[Src(r)] # None
           /\ Progress(r)
  BY RunFields DEF Inputs, JobsHaveInputs, Src, StageOf

LEMMA ParseGoes ==
    ASSUME Types, Places, Inputs, NEW r \in Run, ParseStep(r)
    PROVE  Goes(r)
<1>1. Src(r) \in Source /\ run[r] \in RunRec
  BY RunFields
<1>2. CASE ParseBegin(r)
  BY <1>1, <1>2, GotoGoes DEF ParseBegin, At, Types, DataTypes, PlacesOf, Live, InTry, Tried, SourceStatus
<1>3. CASE ParseClear(r)
  <2>1. PICK place \in {"write", "catch"} :
            run' = [run EXCEPT ![r].pc = place, ![r].seen = pages[Src(r)]]
    BY <1>3 DEF ParseClear
  <2>2. pages[Src(r)] \subseteq Row
    BY <1>1 DEF Types, DataTypes, Row
  <2>3. /\ run'[r] = [run[r] EXCEPT !.pc = place, !.seen = pages[Src(r)]]
        /\ run' = [run EXCEPT ![r] = run'[r]]
    BY <2>1, RunFields DEF Types, RunTypes, Run
  <2>4. run'[r] \in RunRec /\ run'[r].pc = place
        /\ run'[r].job = run[r].job /\ run'[r].attempt = run[r].attempt
    BY <1>1, <2>2, <2>3 DEF RunRec, PC, Live, InTry
  <2>5. /\ StageOf(r) = "parse" /\ run[r].pc = "clear"
        /\ UNCHANGED <<files, status, content, attempts, job, faults, expired>>
    BY <1>3 DEF ParseClear, At
  <2>6. faults' \in FaultPlans
    BY <2>5 DEF Types, DataTypes
  <2>7. place \in (Live \ {"handoff", "return"}) \cap PlacesOf("parse") /\ run[r].pc \in Live \cap Tried
    BY <2>5 DEF PlacesOf, Live, InTry, Tried
  <2>. QED
    BY <2>3, <2>4, <2>5, <2>6, <2>7, LookGoes
<1>4. CASE ParseCommit(r)
  <2>1. /\ run'[r] = [run[r] EXCEPT !.pc = "succeed"]
        /\ run' = [run EXCEPT ![r] = run'[r]]
        /\ run[r].pc = "write" /\ StageOf(r) = "parse"
    BY <1>4, RunFields DEF ParseCommit, At, Goto, Types, RunTypes, Run
  <2>2. run'[r] \in RunRec /\ run'[r].pc = "succeed"
        /\ run'[r].job = run[r].job /\ run'[r].attempt = run[r].attempt
    BY <1>1, <2>1 DEF RunRec, PC, Live, InTry
  <2>3. Moves(r)
    BY <1>4, <2>1, <2>2 DEF ParseCommit, Moves, files, PlacesOf, Live, InTry, Tried
  <2>4. Run' = Run /\ PageRow' = PageRow /\ RecRow' = RecRow /\ Row' = Row
        /\ Src(r)' = Src(r) /\ StageOf(r)' = StageOf(r) /\ r # None
    BY <2>3, MoveIsLocal, RunFields DEF None
  <2>5. pages' \in [Source -> SUBSET PageRow] /\ canonical' \in [Source -> Run \cup {None}]
    <3>1. PICK found \in ParseResults :
            pages' = [pages EXCEPT ![Src(r)] =
                        (pages[Src(r)] \ run[r].seen) \cup [by: {r}, no: found]]
      BY <1>4 DEF ParseCommit
    <3>2. [by: {r}, no: found] \subseteq PageRow
      BY <3>1 DEF PageRow, Page
    <3>. QED
      BY <1>1, <1>4, <3>1, <3>2 DEF ParseCommit, Types, DataTypes
  <2>6. status' \in [Source -> SourceStatus \cup {"absent"}]
    BY <1>1, <1>4 DEF ParseCommit, Types, DataTypes, PhaseAfter, SourceStatus
  <2>7. DataTypes'
    BY <1>4, <2>4, <2>5, <2>6 DEF ParseCommit, Types, DataTypes, files
  <2>8. canonical'[Src(r)] = r /\ UNCHANGED <<meta, tags>>
        /\ \A s \in Source : s # Src(r) => canonical'[s] = canonical[s]
    BY <1>1, <1>4 DEF ParseCommit, Types, DataTypes
  <2>9. Kept
    BY <2>4, <2>8 DEF Kept
  <2>10. Progress(r)'
    BY <1>1, <2>1, <2>2, <2>4, <2>8 DEF Progress
  <2>. QED
    BY <2>3, <2>7, <2>9, <2>10 DEF Goes
<1>. QED
  BY <1>2, <1>3, <1>4 DEF ParseStep

LEMMA ExtractGoes ==
    ASSUME Types, Places, Inputs, NEW r \in Run, ExtractStep(r)
    PROVE  Goes(r)
<1>. DEFINE s == Src(r)
<1>1. /\ s \in Source /\ run[r] \in RunRec /\ StageOf(r) = "extract" /\ r \in Run /\ r # None
      /\ faults \in FaultPlans
      /\ run[r].pc \in Live \cap Tried \cap PlacesOf("extract")
  BY RunFields DEF ExtractStep, ExtractRead, ExtractReadPages, ExtractDescribe, ExtractTag,
     ExtractClear, ExtractCommit, ExtractAdvance, At, Live, InTry, Tried, PlacesOf, Types, DataTypes,
     None
<1>2. canonical[s] # None /\ Progress(r)
  BY <1>1, InputsOf
<1>. HIDE DEF s
<1>3. CASE ExtractRead(r)
  <2>1. PICK new : /\ new = {canonical[s]}
                   /\ run' = [run EXCEPT ![r].pc = "readPages", ![r].read = new]
    BY <1>3 DEF ExtractRead, s
  <2>2. /\ run'[r] = [run[r] EXCEPT !.pc = "readPages", !.read = new]
        /\ run' = [run EXCEPT ![r] = run'[r]]
    BY <2>1 DEF Types, RunTypes, Run
  <2>3. new \subseteq Run
    BY <1>1, <1>2, <2>1 DEF Types, DataTypes
  <2>4. run'[r] \in RunRec /\ run'[r].pc = "readPages"
        /\ run'[r].job = run[r].job /\ run'[r].attempt = run[r].attempt
    BY <1>1, <2>2, <2>3 DEF RunRec, PC, Live, InTry
  <2>5. "readPages" \in (Live \ {"handoff", "return"}) \cap PlacesOf("extract")
    BY DEF PlacesOf, Live, InTry
  <2>. QED
    BY <1>1, <1>3, <2>2, <2>4, <2>5, LookGoes DEF ExtractRead
<1>4. CASE ExtractReadPages(r)
  <2>1. PICK new : /\ new = run[r].read \cup {p.by : p \in pages[s]}
                   /\ run' = [run EXCEPT ![r].pc = "describe", ![r].read = new]
    BY <1>4 DEF ExtractReadPages, s, Types, RunTypes, Run
  <2>2. /\ run'[r] = [run[r] EXCEPT !.pc = "describe", !.read = new]
        /\ run' = [run EXCEPT ![r] = run'[r]]
    BY <2>1 DEF Types, RunTypes, Run
  <2>3. new \subseteq Run
    <3>1. \A p \in pages[s] : p.by \in Run
      BY <1>1 DEF Types, DataTypes, PageRow
    <3>2. run[r].read \subseteq Run
      BY <1>1 DEF RunRec
    <3>. QED
      BY <2>1, <3>1, <3>2
  <2>4. run'[r] \in RunRec /\ run'[r].pc = "describe"
        /\ run'[r].job = run[r].job /\ run'[r].attempt = run[r].attempt
    BY <1>1, <2>2, <2>3 DEF RunRec, PC, Live, InTry
  <2>5. "describe" \in (Live \ {"handoff", "return"}) \cap PlacesOf("extract")
    BY DEF PlacesOf, Live, InTry
  <2>. QED
    BY <1>1, <1>4, <2>2, <2>4, <2>5, LookGoes DEF ExtractReadPages
<1>5. CASE ExtractClear(r)
  <2>1. run' = [run EXCEPT ![r].pc = "write", ![r].seen = recs[s]]
    BY <1>5 DEF ExtractClear, s
  <2>2. /\ run'[r] = [run[r] EXCEPT !.pc = "write", !.seen = recs[s]]
        /\ run' = [run EXCEPT ![r] = run'[r]]
    BY <2>1 DEF Types, RunTypes, Run
  <2>3. recs[s] \subseteq Row
    BY <1>1 DEF Types, DataTypes, Row
  <2>4. run'[r] \in RunRec /\ run'[r].pc = "write"
        /\ run'[r].job = run[r].job /\ run'[r].attempt = run[r].attempt
    BY <1>1, <2>2, <2>3 DEF RunRec, PC, Live, InTry
  <2>5. "write" \in (Live \ {"handoff", "return"}) \cap PlacesOf("extract")
    BY DEF PlacesOf, Live, InTry
  <2>6. meta[s] # None /\ tags[s] # None
    BY <1>1, <1>2, <1>5 DEF ExtractClear, At, Progress, s
  <2>. QED
    BY <1>1, <1>5, <2>2, <2>4, <2>5, <2>6, LookGoes DEF ExtractClear, s
<1>6. CASE ExtractAdvance(r)
  <2>1. "succeed" \in (Live \ {"handoff", "return"}) \cap PlacesOf("extract")
    BY DEF PlacesOf, Live, InTry
  <2>2. meta[s] # None /\ tags[s] # None
    BY <1>1, <1>2, <1>6 DEF ExtractAdvance, At, Progress, s
  <2>3. PhaseAfter["extract"] \in SourceStatus
    BY DEF PhaseAfter, SourceStatus
  <2>. QED
    BY <1>1, <1>6, <2>1, <2>2, <2>3, GotoGoes DEF ExtractAdvance, s
<1>7. CASE ExtractDescribe(r) \/ ExtractTag(r) \/ ExtractCommit(r)
  <2>1. PICK place \in {"tag", "clear", "catch", "advance"} :
            /\ Goto(r, place)
            /\ place = "clear" => ExtractTag(r)
            /\ place = "advance" => ExtractCommit(r)
            /\ place = "tag" => ExtractDescribe(r)
    BY <1>7 DEF ExtractDescribe, ExtractTag, ExtractCommit, Goto
  <2>2. /\ run'[r] = [run[r] EXCEPT !.pc = place]
        /\ run' = [run EXCEPT ![r] = run'[r]]
    BY <2>1 DEF Goto, Types, RunTypes, Run
  <2>3. run'[r] \in RunRec /\ run'[r].pc = place
        /\ run'[r].job = run[r].job /\ run'[r].attempt = run[r].attempt
        /\ place \in (Live \ {"handoff", "return"}) \cap PlacesOf("extract")
    BY <1>1, <2>2 DEF RunRec, PC, Live, InTry, PlacesOf
  <2>4. Moves(r)
    BY <1>1, <1>7, <2>2, <2>3 DEF ExtractDescribe, ExtractTag, ExtractCommit, Moves, files
  <2>5. Run' = Run /\ PageRow' = PageRow /\ RecRow' = RecRow /\ Row' = Row
        /\ Src(r)' = Src(r) /\ StageOf(r)' = StageOf(r)
    BY <2>4, MoveIsLocal
  <2>6. /\ canonical' = canonical /\ pages' = pages
        /\ meta' \in {meta, [meta EXCEPT ![s] = r]}
        /\ tags' \in {tags, [tags EXCEPT ![s] = r]}
        /\ recs' \in [Source -> SUBSET RecRow]
        /\ vec' \subseteq vec
    <3>1. CASE ExtractCommit(r)
      <4>1. PICK found \in ExtractResults :
              recs' \in {recs, [recs EXCEPT ![s] = (recs[s] \ run[r].seen)
                                  \cup [by: {r}, slug: found, from: {run[r].read}]]}
        BY <3>1 DEF ExtractCommit, s
      <4>2. [by: {r}, slug: found, from: {run[r].read}] \subseteq RecRow
        BY <1>1, <4>1 DEF RecRow, Slug, RunRec
      <4>3. recs' \in [Source -> SUBSET RecRow]
        BY ZenonT(40), <1>1, <4>1, <4>2 DEF Types, DataTypes
      <4>. QED
        BY <3>1, <4>3 DEF ExtractCommit
    <3>. QED
      BY <1>7, <3>1 DEF ExtractDescribe, ExtractTag, Types, DataTypes, s
  <2>7. DataTypes'
    <3>1. meta' \in [Source -> Run \cup {None}] /\ tags' \in [Source -> Run \cup {None}]
      BY ZenonT(40), <1>1, <2>6 DEF Types, DataTypes
    <3>. QED
      BY <1>7, <2>5, <2>6, <3>1
         DEF ExtractDescribe, ExtractTag, ExtractCommit, Types, DataTypes, files
  <2>8. Kept
    BY <1>1, <2>6 DEF Kept, Types, DataTypes
  <2>9. /\ place \in {"tag", "clear", "advance"} => meta'[s] # None
        /\ place \in {"clear", "advance"} => tags'[s] # None
    BY <1>1, <1>2, <2>1, <2>6 DEF ExtractDescribe, ExtractTag, ExtractCommit, Progress, At,
       Types, DataTypes, s
  <2>10. Progress(r)'
    BY <1>1, <2>3, <2>5, <2>9 DEF Progress, s
  <2>. QED
    BY <2>4, <2>7, <2>8, <2>10 DEF Goes
<1>. QED
  BY <1>3, <1>4, <1>5, <1>6, <1>7 DEF ExtractStep

LEMMA EmbedGoes ==
    ASSUME Types, Places, Inputs, NEW r \in Run, EmbedStep(r)
    PROVE  Goes(r)
<1>. DEFINE s == Src(r)
<1>1. /\ s \in Source /\ run[r] \in RunRec /\ StageOf(r) = "embed" /\ faults \in FaultPlans
      /\ run[r].pc \in Live \cap Tried \cap PlacesOf("embed")
      /\ {"selectPages", "embed", "succeed"} \subseteq (Live \ {"handoff", "return"}) \cap PlacesOf("embed")
  BY RunFields DEF EmbedStep, EmbedSelectRecs, EmbedSelectPages, EmbedBatch, EmbedReady,
     At, Live, InTry, Tried, PlacesOf, Types, DataTypes
<1>2. pages[s] \subseteq Row /\ recs[s] \subseteq Row /\ run[r].todo \subseteq Row
  BY <1>1 DEF Types, DataTypes, Row, RunRec
<1>. HIDE DEF s
<1>3. ASSUME NEW place \in {"selectPages", "embed"}, NEW new, new \subseteq Row,
             run' = [run EXCEPT ![r].pc = place, ![r].todo = new]
      PROVE  /\ run' = [run EXCEPT ![r] = run'[r]]
             /\ run'[r] \in RunRec /\ run'[r].pc = place
             /\ run'[r].job = run[r].job /\ run'[r].attempt = run[r].attempt
  <2>1. /\ run'[r] = [run[r] EXCEPT !.pc = place, !.todo = new]
        /\ run' = [run EXCEPT ![r] = run'[r]]
    BY <1>3 DEF Types, RunTypes, Run
  <2>2. place \in PC /\ new \in SUBSET Row
    BY <1>3 DEF PC, Live, InTry
  <2>. QED
    BY <1>1, <2>1, <2>2 DEF RunRec
<1>4. CASE EmbedSelectRecs(r)
  <2>1. PICK new : new = recs[s] \ vec
                   /\ run' = [run EXCEPT ![r].pc = "selectPages", ![r].todo = new]
    BY <1>4 DEF EmbedSelectRecs, s
  <2>2. new \subseteq Row
    BY <1>2, <2>1
  <2>. QED
    BY <1>1, <1>3, <1>4, <2>1, <2>2, LookGoes DEF EmbedSelectRecs
<1>5. CASE EmbedSelectPages(r)
  <2>1. PICK new : new = run[r].todo \cup (pages[s] \ vec)
                   /\ run' = [run EXCEPT ![r].pc = "embed", ![r].todo = new]
    BY <1>5 DEF EmbedSelectPages, s, Types, RunTypes, Run
  <2>2. new \subseteq Row
    BY <1>2, <2>1
  <2>. QED
    BY ZenonT(40), <1>1, <1>3, <1>5, <2>1, <2>2, LookGoes DEF EmbedSelectPages
<1>6. CASE EmbedReady(r)
  BY <1>1, <1>6, GotoGoes DEF EmbedReady, PhaseAfter, SourceStatus
<1>7. CASE EmbedBatch(r)
  <2>1. PICK batch, new :
            /\ vec' = vec \cup (batch \cap (recs[s] \cup pages[s]))
            /\ new = run[r].todo \ batch
            /\ run' = [run EXCEPT ![r].todo = new]
    BY <1>7 DEF EmbedBatch, s, Types, RunTypes, Run
  <2>2. /\ run'[r] = [run[r] EXCEPT !.todo = new]
        /\ run' = [run EXCEPT ![r] = run'[r]]
    BY <2>1 DEF Types, RunTypes, Run
  <2>3. new \subseteq Row /\ run[r].pc = "embed"
    BY <1>2, <1>7, <2>1 DEF EmbedBatch, At
  <2>4. run'[r] \in RunRec /\ run'[r].pc = "embed"
        /\ run'[r].job = run[r].job /\ run'[r].attempt = run[r].attempt
    BY <1>1, <2>2, <2>3 DEF RunRec
  <2>5. Moves(r)
    BY <1>1, <1>7, <2>2, <2>4 DEF EmbedBatch, Moves, files
  <2>6. Run' = Run /\ PageRow' = PageRow /\ RecRow' = RecRow /\ Row' = Row
        /\ Src(r)' = Src(r) /\ StageOf(r)' = StageOf(r)
    BY <2>5, MoveIsLocal
  <2>7. vec' \subseteq Row
    BY <1>2, <2>1 DEF Types, DataTypes
  <2>8. DataTypes'
    BY <1>7, <2>6, <2>7 DEF EmbedBatch, Types, DataTypes, files
  <2>9. Kept /\ Progress(r)'
    BY <1>1, <1>7, <2>6 DEF EmbedBatch, Kept, Progress
  <2>. QED
    BY <2>5, <2>8, <2>9 DEF Goes
<1>. QED
  BY <1>4, <1>5, <1>6, <1>7 DEF EmbedStep

\* The other steps that leave attempts and jobs alone.
FailureGoes(r) ==
    \/ StartThrows(r) \/ Throw(r) \/ MarkFailed(r)
    \/ RecordFailure(r) /\ UNCHANGED attempts

LEMMA FailuresGo ==
    ASSUME Types, Places, Inputs, NEW r \in Run, FailureGoes(r)
    PROVE  Goes(r)
<1>1. Src(r) \in Source /\ StageOf(r) \in Stage /\ faults \in FaultPlans
  BY RunFields DEF Types, DataTypes
<1>2. PICK place \in {"rethrow", "catch", "markFailed"} :
          /\ Goto(r, place)
          /\ run[r].pc \in Live
          /\ place \in Tried => run[r].pc \in Tried
  BY DEF FailureGoes, StartThrows, Throw, MarkFailed, RecordFailure, Live, InTry, Tried
<1>3. place \in (Live \ {"handoff", "return"}) \cap PlacesOf(StageOf(r))
  BY DEF Live, PlacesOf
<1>4. /\ UNCHANGED <<files, content, attempts, job, expired>>
      /\ faults' \in FaultPlans
      /\ status' = status \/ \E g \in SourceStatus : status' = [status EXCEPT ![Src(r)] = g]
  BY <1>1 DEF FailureGoes, StartThrows, Throw, MarkFailed, RecordFailure, Fault, SourceStatus
<1>. QED
  BY <1>1, <1>2, <1>3, <1>4, GotoGoes

-------------------------------------------------------------------------------
\* The attempt a run has opened is its own.
Owns ==
    /\ \A r \in Run : run[r].attempt <= Len(attempts[Src(r)][StageOf(r)])
    /\ \A r \in Run : run[r].pc \in Tried => run[r].attempt # 0
    /\ \A q, r \in Run : q # r /\ run[q].attempt = run[r].attempt
                           /\ Src(q) = Src(r) /\ StageOf(q) = StageOf(r)
                         => run[r].attempt = 0

Succeeded(r) ==
    LET history == attempts[Src(r)][StageOf(r)] IN
    run[r].attempt \in DOMAIN history /\ history[run[r].attempt] = "succeeded"

HandedOff(r) ==
    StageOf(r) # "embed" =>
        \E k \in Job : /\ job[k].source = Src(r) /\ job[k].stage = Successor[StageOf(r)]
                       /\ job[k].by = r

\* A handler near its end has done what it is to do.
Closed ==
    \A r \in Run : /\ run[r].pc \in {"handoff", "return"} => Succeeded(r)
                   /\ run[r].pc = "return" => HandedOff(r)

\* A job's delivery, and what a completed job's delivery has done.
Delivered ==
    \A j \in Job :
        /\ job[j].state \in {"active", "completed"} => job[j].run \in Run /\ run[job[j].run].job = j
        /\ job[j].state = "completed" =>
             /\ run[job[j].run].pc = "done"
             /\ Succeeded(job[j].run) /\ HandedOff(job[j].run)

IInv == Types /\ Places /\ Inputs /\ Owns /\ Closed /\ Delivered

LEMMA GoingKeepsIInv ==
    ASSUME IInv, NEW r \in Run, Goes(r)
    PROVE  IInv'
<1>. USE DEF IInv, Goes
<1>1. /\ Run' = Run /\ Job' = Job
      /\ \A q \in Run : q # r => run'[q] = run[q]
      /\ \A q \in Run : Src(q)' = Src(q) /\ StageOf(q)' = StageOf(q)
      /\ JobTypes' /\ RunTypes'
  BY MoveIsLocal
<1>2. /\ UNCHANGED <<upload, stored, filed, attempts, job, expired>>
      /\ \A q \in Run : run'[q].job = run[q].job /\ run'[q].attempt = run[q].attempt
      /\ \A q \in Run : run'[q].pc \in Tried => run[q].pc \in Tried
      /\ \A q \in Run : run'[q].pc \in {"handoff", "return"} => run[q].pc = run'[q].pc
      /\ \A q \in Run : run[q].pc = "done" => run'[q].pc = "done"
      /\ run'[r].pc \in PlacesOf(StageOf(r))
  BY <1>1 DEF Moves, Live, InTry
<1>3. Types'
  BY <1>1 DEF Types
<1>4. Places'
  BY <1>1, <1>2 DEF Places
<1>5. Inputs'
  <2>1. JobsHaveInputs'
    <3>1. \A j \in Job : job[j].source \in Source
      BY JobFields
    <3>2. \A s \in Source : /\ canonical[s] # None => canonical'[s] # None
                            /\ meta[s] # None => meta'[s] # None
                            /\ tags[s] # None => tags'[s] # None
      BY DEF Kept
    <3>. QED
      BY <1>1, <1>2, <3>1, <3>2 DEF Inputs, JobsHaveInputs
  <2>2. Uploaded'
    BY <1>2 DEF Inputs, Uploaded
  <2>3. \A q \in Run : Progress(q)'
    <3>1. SUFFICES ASSUME NEW q \in Run \ {r} PROVE Progress(q)'
      OBVIOUS
    <3>2. Progress(q) /\ Src(q) \in Source
      BY RunFields DEF Inputs
    <3>. QED
      BY <1>1, <3>1, <3>2 DEF Progress, Kept
  <2>. QED
    BY <1>1, <2>1, <2>2, <2>3 DEF Inputs
<1>6. Owns'
  BY <1>1, <1>2 DEF Owns
<1>7. \A q \in Run : Succeeded(q)' = Succeeded(q) /\ HandedOff(q)' = HandedOff(q)
  BY <1>1, <1>2 DEF Succeeded, HandedOff
<1>8. Closed'
  BY <1>1, <1>2, <1>7 DEF Closed
<1>9. Delivered'
  BY <1>1, <1>2, <1>7 DEF Delivered
<1>. QED
  BY <1>3, <1>4, <1>5, <1>6, <1>8, <1>9

\* An upload goes on, without a job yet.
LEMMA UploadKeepsIInv ==
    ASSUME IInv, NEW s \in Source, CreateSource(s) \/ StoreFile(s) \/ CreateSourceFile(s) \/ LoseUpload(s)
    PROVE  IInv'
<1>. USE DEF IInv
<1>1. /\ UNCHANGED <<content, attempts, job, run, expired>>
      /\ stored \subseteq stored' /\ filed \subseteq filed'
      /\ stored' \subseteq Source /\ filed' \subseteq Source
  BY DEF CreateSource, StoreFile, CreateSourceFile, LoseUpload, files, content, Types, DataTypes
<1>2. /\ Run' = Run /\ Job' = Job /\ PageRow' = PageRow /\ RecRow' = RecRow /\ Row' = Row
      /\ RunRec' = RunRec /\ JobRec' = JobRec
      /\ \A q \in Run : Src(q)' = Src(q) /\ StageOf(q)' = StageOf(q)
  BY <1>1 DEF Run, Job, PageRow, RecRow, Row, RunRec, JobRec, Src, StageOf
<1>3. /\ upload' \in [Source -> {"new", "row", "blob", "file", "sent", "lost"}]
      /\ status' \in [Source -> SourceStatus \cup {"absent"}]
      /\ faults' \in FaultPlans
  BY DEF CreateSource, StoreFile, CreateSourceFile, LoseUpload, Fault, SourceStatus, Types, DataTypes
<1>4. DataTypes'
  BY <1>1, <1>2, <1>3 DEF Types, DataTypes, content
<1>5. Types'
  BY <1>1, <1>2, <1>4 DEF Types, JobTypes, RunTypes
<1>6. Uploaded'
  BY <1>1 DEF CreateSource, StoreFile, CreateSourceFile, LoseUpload, Inputs, Uploaded, Types, DataTypes,
     files
<1>7. Inputs'
  BY <1>1, <1>2, <1>6 DEF Inputs, JobsHaveInputs, Progress, content
<1>8. Places' /\ Owns' /\ Closed' /\ Delivered'
  BY <1>1, <1>2 DEF Places, Owns, Closed, Delivered, Succeeded, HandedOff
<1>. QED
  BY <1>5, <1>7, <1>8

\* A job is enqueued, by an upload or by the end of a handler.
LEMMA EnqueueKeepsIInv ==
    ASSUME IInv, NEW g \in Stage, NEW s \in Source, NEW by \in Run \cup {None}, Enqueue(g, s, by),
           s \in filed \cap stored,
           g # "parse" => canonical[s] # None,
           g = "embed" => meta[s] # None /\ tags[s] # None,
           UNCHANGED <<stored, filed, status, content, attempts, expired>>,
           upload' \in [Source -> {"new", "row", "blob", "file", "sent", "lost"}], Uploaded',
           faults' \in FaultPlans,
           run' \in Seq(RunRec), Run' = Run,
           \A q \in Run : /\ run'[q].job = run[q].job /\ run'[q].attempt = run[q].attempt
                          /\ \/ run'[q].pc = run[q].pc
                             \/ run[q].pc = "handoff" /\ run'[q].pc = "catch"
                             \/ /\ run[q].pc = "handoff" /\ run'[q].pc = "return"
                                /\ by = q /\ s = Src(q) /\ g = Successor[StageOf(q)]
    PROVE  IInv'
<1>. USE DEF IInv
<1>. DEFINE n == Len(job) + 1
            j == [state |-> "queued", stage |-> g, source |-> s, tries |-> 0, run |-> None, by |-> by]
<1>1. j \in JobRec /\ job' = Append(job, j)
  BY DEF JobRec, Enqueue
<1>. HIDE DEF j
<1>2. /\ job' \in Seq(JobRec)
      /\ Job' = Job \cup {n} /\ n \notin Job
      /\ job'[n] = j
      /\ \A k \in Job : job'[k] = job[k]
  BY <1>1 DEF Types, JobTypes, Job
<1>. HIDE DEF n
<1>3. /\ PageRow' = PageRow /\ RecRow' = RecRow /\ Row' = Row /\ JobRec' = JobRec
      /\ RunRec \subseteq RunRec'
  BY <1>2 DEF PageRow, RecRow, Row, JobRec, RunRec
<1>4. \A q \in Run : /\ Src(q)' = Src(q) /\ StageOf(q)' = StageOf(q)
                     /\ Src(q) \in Source /\ StageOf(q) \in Stage
  BY <1>2, RunFields DEF Src, StageOf
<1>5. Types'
  BY <1>2, <1>3 DEF Types, JobTypes, RunTypes, DataTypes, content
<1>6. Places'
  BY <1>4 DEF Places, PlacesOf, Stage
<1>7. Inputs'
  <2>1. JobsHaveInputs'
    <3>1. \A k \in Job' : \/ k \in Job /\ job'[k] = job[k]
                          \/ job'[k].source = s /\ job'[k].stage = g
      BY <1>2 DEF j
    <3>. QED
      BY <3>1 DEF Inputs, JobsHaveInputs, content
  <2>2. \A q \in Run : Progress(q)'
    BY <1>4 DEF Inputs, Progress, content
  <2>. QED
    BY <2>1, <2>2 DEF Inputs
<1>8. Owns'
  BY <1>4 DEF Owns, Tried, InTry
<1>9. \A q \in Run : Succeeded(q)' = Succeeded(q) /\ (HandedOff(q) => HandedOff(q)')
  BY <1>2, <1>4 DEF Succeeded, HandedOff
<1>10. Closed'
  <2>1. ASSUME NEW q \in Run, run[q].pc = "handoff", by = q, s = Src(q), g = Successor[StageOf(q)]
        PROVE  HandedOff(q)'
    BY <1>2, <1>4, <2>1 DEF HandedOff, j
  <2>. QED
    BY <1>9, <2>1 DEF Closed
<1>11. Delivered'
  <2>1. \A k \in Job' : \/ k \in Job /\ job'[k] = job[k]
                        \/ job'[k].state = "queued"
    BY <1>2 DEF j
  <2>. QED
    BY <1>9, <2>1 DEF Delivered
<1>. QED
  BY <1>5, <1>6, <1>7, <1>8, <1>10, <1>11

LEMMA UploadEnqueues ==
    ASSUME IInv, NEW s \in Source, EnqueueParse(s)
    PROVE  IInv'
<1>. USE DEF IInv
<1>1. s \in filed \cap stored
  BY DEF EnqueueParse, Inputs, Uploaded
<1>2. upload' \in [Source -> {"new", "row", "blob", "file", "sent", "lost"}] /\ Uploaded'
  BY DEF EnqueueParse, Inputs, Uploaded, Types, DataTypes
<1>3. run' \in Seq(RunRec) /\ Run' = Run /\ faults' \in FaultPlans /\ None \in Run \cup {None}
  BY DEF EnqueueParse, Types, RunTypes, DataTypes, Run
<1>. QED
  BY <1>1, <1>2, <1>3, EnqueueKeepsIInv DEF EnqueueParse, Stage

LEMMA HandingOffKeepsIInv ==
    ASSUME IInv, NEW r \in Run, HandOff(r) \/ HandOffUnacknowledged(r)
    PROVE  IInv'
<1>. USE DEF IInv
<1>1. PICK place \in {"return", "catch"} : Goto(r, place)
  BY DEF HandOff, HandOffUnacknowledged
<1>2. /\ run[r].pc = "handoff"
      /\ Enqueue(Successor[StageOf(r)], Src(r), r)
      /\ UNCHANGED <<files, status, content, attempts, expired>>
      /\ faults' \in FaultPlans
  BY DEF HandOff, HandOffUnacknowledged, Fault, Types, DataTypes
<1>3. /\ StageOf(r) \in {"parse", "extract"} /\ Src(r) \in Source
      /\ Successor["parse"] = "extract" /\ Successor["extract"] = "embed"
  BY <1>2, RunFields, StandsIn DEF PlacesOf, Stage, Successor
<1>4. run[r] \in RunRec /\ place \in PC
  BY RunFields DEF PC, Live, InTry
<1>5. run' \in Seq(RunRec) /\ Run' = Run
      /\ \A q \in Run : run'[q] = IF q = r THEN [run[q] EXCEPT !.pc = place] ELSE run[q]
  <2>1. [run[r] EXCEPT !.pc = place] \in RunRec
    BY <1>4 DEF RunRec
  <2>2. run' = [run EXCEPT ![r] = [run[r] EXCEPT !.pc = place]]
    BY <1>1 DEF Goto
  <2>. QED
    BY <2>1, <2>2 DEF Types, RunTypes, Run
<1>6. \A q \in Run : /\ run'[q].job = run[q].job /\ run'[q].attempt = run[q].attempt
                     /\ q # r => run'[q].pc = run[q].pc
                     /\ q = r => run'[q].pc = place
  BY <1>4, <1>5 DEF RunRec
<1>7. upload' \in [Source -> {"new", "row", "blob", "file", "sent", "lost"}] /\ Uploaded'
  BY <1>2 DEF files, Inputs, Uploaded, Types, DataTypes
<1>8. /\ Src(r) \in filed \cap stored /\ canonical[Src(r)] # None
      /\ StageOf(r) = "extract" => meta[Src(r)] # None /\ tags[Src(r)] # None
  BY <1>2, <1>3, InputsOf DEF Progress
<1>. QED
  BY <1>2, <1>3, <1>5, <1>6, <1>7, <1>8, EnqueueKeepsIInv DEF files, Stage

\* A run opens or closes its attempt.
LEMMA AttemptKeepsIInv ==
    ASSUME IInv, NEW r \in Run, NEW x \in RunRec, run' = [run EXCEPT ![r] = x],
           UNCHANGED <<files, status, content, job, expired>>, faults' \in FaultPlans,
           run[r].pc \in Live, x.job = run[r].job, x.pc \in PlacesOf(StageOf(r)),
           x.pc \in {"handoff", "return"} => Succeeded(r)',
           x.pc = "return" => StageOf(r) = "embed",
           \/ x.pc \in {"begin", "read", "selectRecs", "markFailed", "return"}
           \/ x.pc = "handoff" /\ run[r].pc = "succeed",
           attempts' \in [Source -> [Stage -> Seq({"running", "succeeded", "failed"})]],
           Owns',
           \A q \in Run \ {r} : Succeeded(q) => Succeeded(q)'
    PROVE  IInv'
<1>. USE DEF IInv
<1>1. run' \in Seq(RunRec) /\ Run' = Run /\ Job' = Job
      /\ \A q \in Run : run'[q] = IF q = r THEN x ELSE run[q]
  BY DEF Types, RunTypes, Run, Job
<1>2. /\ PageRow' = PageRow /\ RecRow' = RecRow /\ Row' = Row
      /\ JobRec' = JobRec /\ RunRec' = RunRec
      /\ \A q \in Run : Src(q)' = Src(q) /\ StageOf(q)' = StageOf(q)
  BY <1>1 DEF PageRow, RecRow, Row, JobRec, RunRec, Src, StageOf
<1>3. Types'
  BY <1>1, <1>2 DEF Types, JobTypes, RunTypes, DataTypes, files, content
<1>4. Places'
  BY <1>1, <1>2 DEF Places
<1>5. Inputs'
  <2>1. JobsHaveInputs' /\ Uploaded'
    BY <1>1 DEF Inputs, JobsHaveInputs, Uploaded, files, content
  <2>2. \A q \in Run : Progress(q)'
    BY <1>1, <1>2 DEF Inputs, Progress, content
  <2>. QED
    BY <1>1, <2>1, <2>2 DEF Inputs
<1>6. \A q \in Run : HandedOff(q)' = HandedOff(q)
  BY <1>1, <1>2 DEF HandedOff
<1>7. Closed'
  <2>1. x.pc = "return" => HandedOff(r)
    BY DEF HandedOff
  <2>. QED
    BY <1>1, <1>2, <1>6, <2>1 DEF Closed
<1>8. Delivered'
  <2>1. \A q \in Run : run'[q].job = run[q].job
    BY <1>1
  <2>2. \A q \in Run : run[q].pc = "done" => q # r
    BY DEF Live, InTry
  <2>. QED
    BY <1>1, <1>6, <2>1, <2>2 DEF Delivered
<1>. QED
  BY <1>3, <1>4, <1>5, <1>7, <1>8

LEMMA StartKeepsIInv ==
    ASSUME IInv, NEW r \in Run, StartAttempt(r)
    PROVE  IInv'
<1>. USE DEF IInv
<1>. DEFINE s == Src(r)
            g == StageOf(r)
            n == Len(attempts[s][g]) + 1
            x == [run[r] EXCEPT !.pc = FirstPlace[g], !.attempt = n]
<1>1. /\ s \in Source /\ g \in Stage /\ run[r] \in RunRec
      /\ run[r].pc = "start"
      /\ attempts' = [attempts EXCEPT ![s][g] = Append(@, "running")]
      /\ run' = [run EXCEPT ![r].pc = FirstPlace[g], ![r].attempt = n]
      /\ UNCHANGED <<files, status, content, job, faults, expired>>
  BY RunFields DEF StartAttempt
<1>2. attempts[s][g] \in Seq({"running", "succeeded", "failed"}) /\ n \in Nat \ {0}
  BY <1>1 DEF Types, DataTypes
<1>. HIDE DEF n, s, g
<1>3. FirstPlace[g] \in PC \cap PlacesOf(g) \cap {"begin", "read", "selectRecs"}
  BY <1>1 DEF FirstPlace, PC, Live, InTry, PlacesOf, Stage
<1>4. /\ x \in RunRec /\ x.job = run[r].job /\ x.pc = FirstPlace[g] /\ x.attempt = n
      /\ run' = [run EXCEPT ![r] = x]
  BY <1>1, <1>2, <1>3 DEF RunRec, Types, RunTypes, Run
<1>. HIDE DEF x
<1>5. /\ Run' = Run
      /\ \A q \in Run : run'[q] = IF q = r THEN x ELSE run[q]
      /\ \A q \in Run : Src(q)' = Src(q) /\ StageOf(q)' = StageOf(q)
                        /\ Src(q) \in Source /\ StageOf(q) \in Stage
  BY <1>1, <1>4, RunFields DEF Types, RunTypes, Run, Src, StageOf
<1>6. /\ attempts' \in [Source -> [Stage -> Seq({"running", "succeeded", "failed"})]]
      /\ attempts'[s][g] = Append(attempts[s][g], "running")
      /\ \A t \in Source, h \in Stage : t # s \/ h # g => attempts'[t][h] = attempts[t][h]
  BY <1>1, <1>2 DEF Types, DataTypes
<1>7. Len(attempts'[s][g]) = n
      /\ \A i \in DOMAIN attempts[s][g] : i \in DOMAIN attempts'[s][g]
                                          /\ attempts'[s][g][i] = attempts[s][g][i]
  BY <1>2, <1>6 DEF n
<1>8. \A q \in Run \ {r} : Succeeded(q) => Succeeded(q)'
  <2>1. SUFFICES ASSUME NEW q \in Run \ {r}, Succeeded(q) PROVE Succeeded(q)'
    OBVIOUS
  <2>2. run'[q] = run[q] /\ Src(q)' = Src(q) /\ StageOf(q)' = StageOf(q)
    BY <1>5
  <2>3. CASE Src(q) = s /\ StageOf(q) = g
    BY <1>7, <2>1, <2>2, <2>3 DEF Succeeded
  <2>4. CASE ~(Src(q) = s /\ StageOf(q) = g)
    BY <1>5, <1>6, <2>1, <2>2, <2>4 DEF Succeeded
  <2>. QED
    BY <2>3, <2>4
<1>9. Owns'
  <2>1. \A q \in Run \ {r} : /\ run[q].attempt <= Len(attempts[Src(q)][StageOf(q)])
                             /\ run[q].attempt \in Nat
                             /\ Len(attempts[Src(q)][StageOf(q)]) \in Nat
    BY <1>5, RunFields DEF Owns, Types, DataTypes
  <2>2. \A q \in Run \ {r} : Src(q) = s /\ StageOf(q) = g => run[q].attempt < n
    BY <2>1, <1>2 DEF n
  <2>3. \A q \in Run \ {r} : run[q].attempt <= Len(attempts'[Src(q)][StageOf(q)])
    <3>1. SUFFICES ASSUME NEW q \in Run \ {r}
                   PROVE  run[q].attempt <= Len(attempts'[Src(q)][StageOf(q)])
      OBVIOUS
    <3>2. CASE Src(q) = s /\ StageOf(q) = g
      BY <1>2, <1>7, <2>1, <2>2, <3>2
    <3>3. CASE ~(Src(q) = s /\ StageOf(q) = g)
      BY <1>5, <1>6, <2>1, <3>3
    <3>. QED
      BY <3>2, <3>3
  <2>4. \A q \in Run : run'[q].attempt <= Len(attempts'[Src(q)][StageOf(q)])
    BY <1>2, <1>4, <1>5, <1>7, <2>3 DEF s, g
  <2>5. \A q \in Run : run'[q].pc \in Tried => run'[q].attempt # 0
    BY <1>2, <1>4, <1>5 DEF Owns
  <2>6. ASSUME NEW p \in Run, NEW q \in Run, p # q, run'[p].attempt = run'[q].attempt,
               Src(p) = Src(q), StageOf(p) = StageOf(q)
        PROVE  run'[q].attempt = 0
    <3>1. p # r /\ q # r
      BY <1>2, <1>4, <1>5, <2>1, <2>2, <2>6 DEF s, g
    <3>. QED
      BY <1>5, <2>6, <3>1 DEF Owns
  <2>. QED
    BY <1>5, <2>4, <2>5, <2>6 DEF Owns
<1>10. /\ run[r].pc \in Live /\ x.pc \notin {"handoff", "return"}
       /\ x.pc \in {"begin", "read", "selectRecs"} /\ x.pc \in PlacesOf(StageOf(r))
       /\ UNCHANGED <<files, status, content, job, expired>> /\ faults' \in FaultPlans
  BY <1>1, <1>3, <1>4 DEF Live, Types, DataTypes, g
<1>. QED
  BY <1>4, <1>6, <1>8, <1>9, <1>10, AttemptKeepsIInv

LEMMA ClosingKeepsIInv ==
    ASSUME IInv, NEW r \in Run, SucceedAttempt(r) \/ (RecordFailure(r) /\ SetAttempt(r, "failed"))
    PROVE  IInv'
<1>. USE DEF IInv
<1>. DEFINE s == Src(r)
            g == StageOf(r)
            n == run[r].attempt
<1>1. PICK outcome \in {"succeeded", "failed"}, place \in {"handoff", "return", "markFailed"} :
        /\ run[r].pc \in Live \cap Tried
        /\ SetAttempt(r, outcome)
        /\ Goto(r, place)
        /\ outcome = "failed" => place = "markFailed"
        /\ place = "handoff" => g # "embed" /\ run[r].pc = "succeed"
        /\ place = "return" => g = "embed"
        /\ UNCHANGED <<files, status, content, job, expired>> /\ faults' \in FaultPlans
        /\ place # "markFailed" => outcome = "succeeded"
  <2>1. CASE SucceedAttempt(r)
    BY <2>1 DEF SucceedAttempt, Live, InTry, Tried, Types, DataTypes
  <2>2. CASE RecordFailure(r) /\ SetAttempt(r, "failed")
    BY <2>2 DEF RecordFailure, Live, InTry, Tried, Types, DataTypes, Fault
  <2>. QED
    BY <2>1, <2>2
<1>2. /\ s \in Source /\ g \in Stage /\ run[r] \in RunRec
      /\ n \in DOMAIN attempts[s][g]
      /\ attempts[s][g] \in Seq({"running", "succeeded", "failed"})
  <2>1. s \in Source /\ g \in Stage /\ run[r] \in RunRec /\ n \in Nat
    BY RunFields
  <2>2. n <= Len(attempts[s][g]) /\ n # 0
    BY <1>1 DEF Owns
  <2>. QED
    BY <2>1, <2>2 DEF Types, DataTypes
<1>. DEFINE x == [run[r] EXCEPT !.pc = place]
<1>3. attempts' = [attempts EXCEPT ![s][g][n] = outcome]
  BY <1>1 DEF SetAttempt
<1>. HIDE DEF s, g, n
<1>4. place \in PC \cap PlacesOf(g)
  BY <1>1, <1>2 DEF PC, Live, InTry, PlacesOf, Stage
<1>5. /\ x \in RunRec /\ x.job = run[r].job /\ x.pc = place /\ x.attempt = run[r].attempt
      /\ run' = [run EXCEPT ![r] = x]
  BY <1>1, <1>2, <1>4 DEF RunRec, Goto, Types, RunTypes, Run
<1>. HIDE DEF x
<1>6. /\ Run' = Run
      /\ \A q \in Run : run'[q] = IF q = r THEN x ELSE run[q]
      /\ \A q \in Run : Src(q)' = Src(q) /\ StageOf(q)' = StageOf(q)
                        /\ Src(q) \in Source /\ StageOf(q) \in Stage
  BY <1>1, <1>5, RunFields DEF Types, RunTypes, Run, Src, StageOf
<1>7. /\ attempts' \in [Source -> [Stage -> Seq({"running", "succeeded", "failed"})]]
      /\ \A t \in Source, h \in Stage : t # s \/ h # g => attempts'[t][h] = attempts[t][h]
      /\ attempts'[s][g] = [attempts[s][g] EXCEPT ![n] = outcome]
  <2>1. [attempts[s][g] EXCEPT ![n] = outcome] \in Seq({"running", "succeeded", "failed"})
    BY <1>2
  <2>. QED
    BY <1>2, <1>3, <2>1 DEF Types, DataTypes
<1>8. /\ DOMAIN attempts'[s][g] = DOMAIN attempts[s][g] /\ Len(attempts'[s][g]) = Len(attempts[s][g])
      /\ attempts'[s][g][n] = outcome
      /\ \A i \in DOMAIN attempts[s][g] : i # n => attempts'[s][g][i] = attempts[s][g][i]
  BY <1>2, <1>7
<1>9. \A q \in Run \ {r} : Succeeded(q) => Succeeded(q)'
  <2>1. ASSUME NEW q \in Run \ {r}, Succeeded(q), Src(q) = s, StageOf(q) = g
        PROVE  run[q].attempt # n
    BY <1>1, <2>1 DEF Succeeded, Owns, s, g, n
  <2>. QED
    <3>1. SUFFICES ASSUME NEW q \in Run \ {r}, Succeeded(q) PROVE Succeeded(q)'
      OBVIOUS
    <3>2. run'[q] = run[q] /\ Src(q)' = Src(q) /\ StageOf(q)' = StageOf(q)
      BY <1>6
    <3>3. CASE Src(q) = s /\ StageOf(q) = g
      BY <1>8, <2>1, <3>1, <3>2, <3>3 DEF Succeeded
    <3>4. CASE ~(Src(q) = s /\ StageOf(q) = g)
      BY <1>6, <1>7, <3>1, <3>2, <3>4 DEF Succeeded
    <3>. QED
      BY <3>3, <3>4
<1>10. place \in {"handoff", "return"} => Succeeded(r)'
  BY <1>1, <1>2, <1>5, <1>6, <1>8 DEF Succeeded, s, g, n
<1>11. Owns'
  <2>1. \A q \in Run : run'[q].attempt = run[q].attempt /\ (run'[q].pc \in Tried => run[q].pc \in Tried)
    BY <1>1, <1>5, <1>6
  <2>2. \A q \in Run : Len(attempts'[Src(q)][StageOf(q)]) = Len(attempts[Src(q)][StageOf(q)])
    BY ZenonT(40), <1>6, <1>7, <1>8
  <2>. QED
    BY <1>6, <2>1, <2>2 DEF Owns
<1>12. /\ run[r].pc \in Live /\ x.pc \in PlacesOf(StageOf(r))
       /\ x.pc \in {"handoff", "return"} => Succeeded(r)'
       /\ x.pc = "return" => StageOf(r) = "embed"
       /\ \/ x.pc \in {"markFailed", "return"}
          \/ x.pc = "handoff" /\ run[r].pc = "succeed"
       /\ UNCHANGED <<files, status, content, job, expired>> /\ faults' \in FaultPlans
  BY <1>1, <1>4, <1>5, <1>10 DEF g
<1>. QED
  BY <1>5, <1>7, <1>9, <1>11, <1>12, AttemptKeepsIInv

\* Runs end and jobs are settled or redelivered.
LEMMA SettlingKeepsIInv ==
    ASSUME IInv, job' \in Seq(JobRec), Job' = Job, run' \in Seq(RunRec), Run' = Run,
           \A k \in Job : /\ job'[k].source = job[k].source /\ job'[k].stage = job[k].stage
                          /\ job'[k].by = job[k].by /\ job'[k].run = job[k].run
                          /\ \/ job'[k].state \in {job[k].state, "queued", "failed"}
                             \/ /\ job[k].state = "active" /\ run[job[k].run].pc = "return"
                                /\ run'[job[k].run].pc = "done",
           \A q \in Run : /\ run'[q].job = run[q].job /\ run'[q].attempt = run[q].attempt
                          /\ run'[q].pc \in {run[q].pc, "done", "dead"}
                          /\ run[q].pc = "done" => run'[q].pc = "done",
           UNCHANGED <<files, status, content, attempts>>, expired' \in BOOLEAN,
           faults' \in FaultPlans
    PROVE  IInv'
<1>. USE DEF IInv
<1>1. /\ PageRow' = PageRow /\ RecRow' = RecRow /\ Row' = Row
      /\ JobRec' = JobRec /\ RunRec' = RunRec
  BY DEF PageRow, RecRow, Row, JobRec, RunRec
<1>2. \A q \in Run : /\ Src(q)' = Src(q) /\ StageOf(q)' = StageOf(q)
                     /\ run[q].job \in Job /\ StageOf(q) \in Stage
  BY RunFields DEF Src, StageOf
<1>3. Types'
  BY <1>1 DEF Types, JobTypes, RunTypes, DataTypes, files, content
<1>4. Places'
  BY <1>2 DEF Places, PlacesOf, Stage
<1>5. Inputs'
  <2>1. JobsHaveInputs' /\ Uploaded'
    BY DEF Inputs, JobsHaveInputs, Uploaded, files, content
  <2>2. \A q \in Run : Progress(q)'
    BY <1>2 DEF Inputs, Progress, content
  <2>. QED
    BY <2>1, <2>2 DEF Inputs
<1>6. Owns'
  BY <1>2 DEF Owns, Tried, InTry
<1>7. \A q \in Run : Succeeded(q)' = Succeeded(q) /\ HandedOff(q)' = HandedOff(q)
  BY <1>2 DEF Succeeded, HandedOff
<1>8. Closed'
  BY <1>7 DEF Closed
<1>9. Delivered'
  BY <1>7 DEF Delivered, Closed
<1>. QED
  BY <1>3, <1>4, <1>5, <1>6, <1>8, <1>9

\* A job after a failed delivery.
LEMMA RedeliverJob ==
    ASSUME Types, NEW j \in Job, job' = Redeliver(j)
    PROVE  /\ job' \in Seq(JobRec) /\ Job' = Job
           /\ \A k \in Job : /\ job'[k].source = job[k].source /\ job'[k].stage = job[k].stage
                             /\ job'[k].by = job[k].by /\ job'[k].run = job[k].run
                             /\ job'[k].state \in {job[k].state, "queued", "failed"}
<1>1. PICK new \in {"queued", "failed"} : job' = [job EXCEPT ![j] = [job[j] EXCEPT !.state = new]]
  BY DEF Redeliver
<1>2. /\ [job[j] EXCEPT !.state = new] \in JobRec
      /\ job[j] \in JobRec
  BY JobFields DEF JobRec
<1>3. /\ job' \in Seq(JobRec) /\ Job' = Job
      /\ \A k \in Job : job'[k] = IF k = j THEN [job[j] EXCEPT !.state = new] ELSE job[k]
  BY <1>1, <1>2 DEF Types, JobTypes, Job
<1>. QED
  BY <1>2, <1>3 DEF JobRec

LEMMA LosingKeepsIInv ==
    ASSUME IInv, NEW j \in Job, ReapJob(j) \/ ExpireJob(j)
    PROVE  IInv'
<1>1. /\ job' = Redeliver(j) /\ UNCHANGED <<files, status, content, attempts, run>>
      /\ expired' \in BOOLEAN /\ faults' \in FaultPlans
  BY DEF ReapJob, ExpireJob, Fault, IInv, Types, DataTypes
<1>2. run' \in Seq(RunRec) /\ Run' = Run
  BY <1>1 DEF IInv, Types, RunTypes, Run
<1>3. Types
  BY DEF IInv
<1>. QED
  BY <1>1, <1>2, <1>3, RedeliverJob, SettlingKeepsIInv

LEMMA EndedRun ==
    ASSUME Types, NEW r \in Run, NEW place \in {"done", "dead"}
    PROVE  /\ Ended(r, place) \in RunRec
           /\ Ended(r, place).job = run[r].job /\ Ended(r, place).attempt = run[r].attempt
           /\ Ended(r, place).pc = place
<1>1. run[r] \in RunRec /\ place \in PC
  BY RunFields DEF PC
<1>. QED
  BY <1>1 DEF RunRec, Ended

LEMMA EndingKeepsIInv ==
    ASSUME IInv, NEW r \in Run, Return(r) \/ Rethrow(r)
    PROVE  IInv'
<1>. DEFINE k == run[r].job
<1>1. /\ run' = [run EXCEPT ![r] = Ended(r, "done")] /\ run[r].pc \in {"return", "rethrow"}
      /\ UNCHANGED <<files, status, content, attempts, faults, expired>>
      /\ \/ job' = job \/ job' = Redeliver(k)
         \/ /\ Awaited(r) /\ run[r].pc = "return"
            /\ job' = [job EXCEPT ![k].state = "completed"]
  BY DEF Return, Rethrow, Settle
<1>2. /\ Types /\ k \in Job /\ job[k] \in JobRec
      /\ expired' \in BOOLEAN /\ faults' \in FaultPlans
  BY <1>1, RunFields DEF IInv, Types, DataTypes
<1>3. /\ run' \in Seq(RunRec) /\ Run' = Run
      /\ \A q \in Run : run'[q] = IF q = r THEN Ended(r, "done") ELSE run[q]
  <2>1. Ended(r, "done") \in RunRec
    BY <1>2, EndedRun
  <2>. QED
    BY <1>1, <1>2, <2>1 DEF Types, RunTypes, Run
<1>4. \A q \in Run : /\ run'[q].job = run[q].job /\ run'[q].attempt = run[q].attempt
                     /\ run'[q].pc = IF q = r THEN "done" ELSE run[q].pc
  BY <1>2, <1>3, EndedRun
<1>5. CASE job' = job
  <2>1. job' \in Seq(JobRec) /\ Job' = Job
    BY <1>2, <1>5 DEF Types, JobTypes, Job
  <2>. QED
    BY <1>1, <1>2, <1>3, <1>4, <1>5, <2>1, SettlingKeepsIInv
<1>6. CASE job' = Redeliver(k)
  BY <1>1, <1>2, <1>3, <1>4, <1>6, RedeliverJob, SettlingKeepsIInv
<1>7. CASE /\ Awaited(r) /\ run[r].pc = "return"
           /\ job' = [job EXCEPT ![k].state = "completed"]
  <2>1. /\ job' \in Seq(JobRec) /\ Job' = Job
        /\ \A i \in Job : job'[i] = IF i = k THEN [job[k] EXCEPT !.state = "completed"] ELSE job[i]
    <3>1. [job[k] EXCEPT !.state = "completed"] \in JobRec
      BY <1>2 DEF JobRec
    <3>. QED
      BY <1>2, <1>7, <3>1 DEF Types, JobTypes, Job
  <2>2. \A i \in Job : /\ job'[i].source = job[i].source /\ job'[i].stage = job[i].stage
                       /\ job'[i].by = job[i].by /\ job'[i].run = job[i].run
                       /\ i # k => job'[i].state = job[i].state
    BY <1>2, <2>1 DEF JobRec
  <2>3. job[k].state = "active" /\ job[k].run = r
    BY <1>7 DEF Awaited
  <2>. QED
    BY <1>1, <1>2, <1>3, <1>4, <1>7, <2>1, <2>2, <2>3, SettlingKeepsIInv
<1>. QED
  BY <1>1, <1>5, <1>6, <1>7

LEMMA CrashKeepsIInv ==
    ASSUME IInv, CrashWorker
    PROVE  IInv'
<1>1. /\ run' = [q \in Run |-> IF run[q].pc \in Live THEN Ended(q, "dead") ELSE run[q]]
      /\ UNCHANGED <<files, status, content, attempts, job, expired>>
      /\ Types /\ expired' \in BOOLEAN /\ faults' \in FaultPlans
  BY DEF CrashWorker, Fault, IInv, Types, DataTypes
<1>2. /\ run' \in Seq(RunRec) /\ Run' = Run
      /\ \A q \in Run : run'[q] = IF run[q].pc \in Live THEN Ended(q, "dead") ELSE run[q]
  <2>1. \A q \in Run : Ended(q, "dead") \in RunRec /\ run[q] \in RunRec
    BY <1>1, EndedRun, RunFields
  <2>2. Run = 1..Len(run) /\ Len(run) \in Nat
    BY <1>1 DEF Types, RunTypes, Run
  <2>. QED
    BY <1>1, <2>1, <2>2 DEF Run
<1>3. job' \in Seq(JobRec) /\ Job' = Job
  BY <1>1 DEF Types, JobTypes, Job
<1>4. \A q \in Run : /\ run'[q].job = run[q].job /\ run'[q].attempt = run[q].attempt
                     /\ run'[q].pc \in {run[q].pc, "dead"}
                     /\ run[q].pc = "done" => run'[q].pc = "done"
  BY <1>1, <1>2, EndedRun DEF Live, InTry
<1>. QED
  BY <1>1, <1>2, <1>3, <1>4, SettlingKeepsIInv

LEMMA DeliveryKeepsIInv ==
    ASSUME IInv, NEW j \in Job, Deliver(j)
    PROVE  IInv'
<1>. USE DEF IInv
<1>0. PICK n : n = Len(run) + 1
  OBVIOUS
<1>. DEFINE y == [job[j] EXCEPT !.state = "active", !.tries = job[j].tries + 1, !.run = n]
            x == [pc |-> "start", job |-> j, attempt |-> 0, read |-> {}, seen |-> {}, todo |-> {}]
<1>1. /\ job' = [job EXCEPT ![j] = y] /\ run' = Append(run, x)
      /\ job[j].state = "queued"
      /\ UNCHANGED <<files, status, content, attempts, faults, expired>>
  BY <1>0 DEF Deliver, Job, Types, JobTypes
<1>2. x \in RunRec
  BY DEF RunRec, PC, Live
<1>3. /\ run' \in Seq(RunRec) /\ Run' = Run \cup {n} /\ n \notin Run
      /\ run'[n] = x /\ \A q \in Run : run'[q] = run[q]
  BY <1>0, <1>1, <1>2 DEF Types, RunTypes, Run
<1>4. job[j] \in JobRec /\ JobRec \subseteq JobRec'
  BY <1>3, JobFields DEF JobRec
<1>5. /\ y \in JobRec'
      /\ y.source = job[j].source /\ y.stage = job[j].stage /\ y.by = job[j].by
      /\ y.state = "active" /\ y.run = n
  <2>1. /\ job[j].stage \in Stage /\ job[j].source \in Source /\ job[j].tries + 1 \in Nat
        /\ job[j].by \in Run' \cup {None}
    BY <1>3, JobFields
  <2>2. PICK i : i = job[j].tries + 1
    OBVIOUS
  <2>3. y = [job[j] EXCEPT !.state = "active", !.tries = i, !.run = n]
    BY <2>2
  <2>4. i \in Nat /\ n \in Run' /\ job[j] \in JobRec'
    BY <1>3, <1>4, <2>1, <2>2
  <2>. HIDE DEF y
  <2>. QED
    BY <2>3, <2>4 DEF JobRec
<1>. HIDE DEF x, y
<1>6. /\ job' \in Seq(JobRec') /\ Job' = Job
      /\ \A k \in Job : job'[k] = IF k = j THEN y ELSE job[k]
  <2>1. job \in Seq(JobRec')
    BY <1>4 DEF Types, JobTypes
  <2>. QED
    BY <1>1, <1>5, <2>1 DEF Job
<1>7. /\ \A k \in Job : /\ job'[k].source = job[k].source /\ job'[k].stage = job[k].stage
                        /\ job'[k].by = job[k].by
      /\ x.pc = "start" /\ x.job = j /\ x.attempt = 0
  BY <1>5, <1>6 DEF x
<1>8. \A q \in Run : /\ Src(q)' = Src(q) /\ StageOf(q)' = StageOf(q)
                     /\ run[q].job \in Job /\ StageOf(q) \in Stage /\ Src(q) \in Source
  BY <1>3, <1>7, RunFields DEF Src, StageOf
<1>9. StageOf(n)' \in Stage /\ Src(n)' \in Source
  BY <1>3, <1>7, JobFields DEF Src, StageOf
<1>10. /\ PageRow \subseteq PageRow' /\ RecRow \subseteq RecRow' /\ Row \subseteq Row'
       /\ RunRec \subseteq RunRec'
  <2>1. Run \subseteq Run'
    BY <1>3
  <2>2. PageRow \subseteq PageRow'
    BY <2>1 DEF PageRow
  <2>3. RecRow \subseteq RecRow'
    BY <2>1 DEF RecRow
  <2>4. Row \subseteq Row'
    BY <2>2, <2>3 DEF Row
  <2>5. RunRec \subseteq RunRec'
    BY <1>6, <2>1, <2>4 DEF RunRec
  <2>. QED
    BY <2>2, <2>3, <2>4, <2>5
<1>11. Types'
  <2>1. /\ canonical' \in [Source -> Run' \cup {None}] /\ meta' \in [Source -> Run' \cup {None}]
        /\ tags' \in [Source -> Run' \cup {None}]
    BY <1>1, <1>3 DEF Types, DataTypes, content
  <2>2. /\ pages' \in [Source -> SUBSET PageRow'] /\ recs' \in [Source -> SUBSET RecRow']
        /\ vec' \subseteq Row'
    BY <1>1, <1>10 DEF Types, DataTypes, content
  <2>3. DataTypes'
    BY <1>1, <2>1, <2>2 DEF Types, DataTypes, files
  <2>4. JobTypes' /\ RunTypes'
    BY <1>3, <1>6, <1>10 DEF JobTypes, RunTypes
  <2>. QED
    BY <2>3, <2>4 DEF Types
<1>12. Places'
  BY <1>3, <1>7, <1>8 DEF Places, PlacesOf
<1>13. Inputs'
  <2>1. JobsHaveInputs' /\ Uploaded'
    BY <1>1, <1>6, <1>7 DEF Inputs, JobsHaveInputs, Uploaded, files, content
  <2>2. \A q \in Run : Progress(q)'
    BY <1>1, <1>3, <1>8 DEF Inputs, Progress, content
  <2>3. Progress(n)'
    BY <1>3, <1>7 DEF Progress
  <2>. QED
    BY <1>3, <2>1, <2>2, <2>3 DEF Inputs
<1>14. Owns'
  <2>1. Len(attempts[Src(n)'][StageOf(n)']) >= 0
    BY <1>9 DEF Types, DataTypes
  <2>2. \A q \in Run' : run'[q].attempt <= Len(attempts[Src(q)'][StageOf(q)'])
    BY <1>3, <1>7, <1>8, <2>1 DEF Owns
  <2>3. \A q \in Run' : run'[q].pc \in Tried => run'[q].attempt # 0
    BY <1>3, <1>7 DEF Owns, Tried, InTry
  <2>4. \A p, q \in Run' : p # q /\ run'[p].attempt = run'[q].attempt
                             /\ Src(p)' = Src(q)' /\ StageOf(p)' = StageOf(q)' => run'[q].attempt = 0
    BY <1>3, <1>7, <1>8 DEF Owns
  <2>. QED
    BY <1>1, <2>2, <2>3, <2>4 DEF Owns
<1>15. \A q \in Run : Succeeded(q)' = Succeeded(q) /\ (HandedOff(q) => HandedOff(q)')
  <2>1. \A q \in Run : Succeeded(q)' = Succeeded(q)
    BY <1>1, <1>3, <1>8 DEF Succeeded
  <2>2. \A q \in Run : HandedOff(q) => HandedOff(q)'
    BY <1>6, <1>7, <1>8 DEF HandedOff
  <2>. QED
    BY <2>1, <2>2
<1>16. Closed'
  BY <1>3, <1>7, <1>15 DEF Closed
<1>17. Delivered'
  <2>1. \A k \in Job : \/ k = j /\ job'[k].state = "active" /\ job'[k].run = n
                       \/ k # j /\ job'[k] = job[k]
    BY <1>5, <1>6
  <2>2. \A q \in Run : run'[q] = run[q]
    BY <1>3
  <2>. QED
    BY <1>3, <1>6, <1>7, <1>15, <2>1, <2>2 DEF Delivered
<1>. QED
  BY <1>11, <1>12, <1>13, <1>14, <1>16, <1>17

-------------------------------------------------------------------------------
LEMMA InitIInv == Init => IInv
<1>1. SUFFICES ASSUME Init PROVE IInv
  OBVIOUS
<1>2. Run = {} /\ Job = {} /\ run \in Seq(RunRec) /\ job \in Seq(JobRec)
  BY <1>1 DEF Init, Run, Job
<1>3. DataTypes
  <2>1. attempts \in [Source -> [Stage -> Seq({"running", "succeeded", "failed"})]]
    BY <1>1 DEF Init
  <2>2. faults \in FaultPlans
    BY <1>1, FaultPlansAssumption DEF Init
  <2>. QED
    BY <1>1, <2>1, <2>2 DEF Init, DataTypes, None, SourceStatus
<1>4. Types
  BY <1>2, <1>3 DEF Types, JobTypes, RunTypes
<1>5. Inputs
  BY <1>1, <1>2 DEF Init, Inputs, JobsHaveInputs, Uploaded
<1>. QED
  BY <1>2, <1>4, <1>5 DEF IInv, Places, Owns, Closed, Delivered

\* What may happen, by what it does to runs and jobs.
Happens ==
    \/ \E s \in Source : CreateSource(s) \/ StoreFile(s) \/ CreateSourceFile(s) \/ LoseUpload(s)
    \/ \E s \in Source : EnqueueParse(s)
    \/ \E j \in Job : Deliver(j)
    \/ \E j \in Job : ReapJob(j) \/ ExpireJob(j)
    \/ \E r \in Run : ParseStep(r) \/ ExtractStep(r) \/ EmbedStep(r) \/ FailureGoes(r)
    \/ \E r \in Run : StartAttempt(r)
    \/ \E r \in Run : SucceedAttempt(r) \/ (RecordFailure(r) /\ SetAttempt(r, "failed"))
    \/ \E r \in Run : HandOff(r) \/ HandOffUnacknowledged(r)
    \/ \E r \in Run : Return(r) \/ Rethrow(r)
    \/ CrashWorker

LEMMA NextCases == Next => Happens
<1>1. \A r \in Run : RecordFailure(r) =>
          (RecordFailure(r) /\ UNCHANGED attempts) \/ (RecordFailure(r) /\ SetAttempt(r, "failed"))
  BY DEF RecordFailure
<1>. QED
  BY <1>1 DEF Next, Happens, UploadStep, HandlerStep, HandlerFault, FailureGoes

LEMMA NextIInv == IInv /\ [Next]_vars => IInv'
<1>1. SUFFICES ASSUME IInv, [Next]_vars PROVE IInv'
  OBVIOUS
<1>2. CASE Happens
  <2>1. ASSUME NEW r \in Run, ParseStep(r) \/ ExtractStep(r) \/ EmbedStep(r) \/ FailureGoes(r)
        PROVE  Goes(r)
    BY <1>1, <2>1, ParseGoes, ExtractGoes, EmbedGoes, FailuresGo DEF IInv
  <2>. QED
    BY <1>1, <1>2, <2>1, GoingKeepsIInv, UploadKeepsIInv, UploadEnqueues, DeliveryKeepsIInv,
       LosingKeepsIInv, StartKeepsIInv, ClosingKeepsIInv, HandingOffKeepsIInv, EndingKeepsIInv,
       CrashKeepsIInv DEF Happens
<1>3. CASE UNCHANGED vars
  <2>1. /\ UNCHANGED <<upload, stored, filed, status, canonical, pages, meta, tags, recs, vec>>
        /\ UNCHANGED <<attempts, job, run, faults, expired>>
    BY <1>3 DEF vars
  <2>2. Run' = Run /\ Job' = Job
    BY <2>1 DEF Run, Job
  <2>3. /\ PageRow' = PageRow /\ RecRow' = RecRow /\ Row' = Row /\ JobRec' = JobRec /\ RunRec' = RunRec
        /\ \A r \in Run : Src(r)' = Src(r) /\ StageOf(r)' = StageOf(r)
    BY <2>1, <2>2 DEF PageRow, RecRow, Row, JobRec, RunRec, Src, StageOf
  <2>4. Types'
    BY <1>1, <2>1, <2>2, <2>3 DEF IInv, Types, JobTypes, RunTypes, DataTypes
  <2>5. Inputs'
    BY <1>1, <2>1, <2>2, <2>3 DEF IInv, Inputs, Uploaded, JobsHaveInputs, Progress
  <2>6. Places' /\ Owns'
    BY <1>1, <2>1, <2>2, <2>3 DEF IInv, Places, Owns
  <2>7. Closed' /\ Delivered'
    BY <1>1, <2>1, <2>2, <2>3 DEF IInv, Closed, Delivered, Succeeded, HandedOff
  <2>. QED
    BY <2>4, <2>5, <2>6, <2>7 DEF IInv
<1>. QED
  BY <1>1, <1>2, <1>3, NextCases

LEMMA IInvHolds == Spec => []IInv
  BY InitIInv, NextIInv, PTL DEF Spec

\* The pipeline's state has the types of its tables, queues and locals: what a row, a
\* recommendation or a job names as its delivery is one, and what embedding marks is a row.
THEOREM TypeCorrect == Spec => []TypeOK
<1>1. IInv => TypeOK
  BY TypesAreTypeOK DEF IInv
<1>. QED
  BY <1>1, IInvHolds, PTL

\* Each stage finds its inputs, whatever throws, crashes, expires or is delivered again:
\* a handler that hands over has written them, and nothing ever takes them away.
THEOREM JobsAlwaysHaveInputs == Spec => []JobsHaveInputs
<1>1. IInv => JobsHaveInputs
  BY DEF IInv, Inputs
<1>. QED
  BY <1>1, IInvHolds, PTL

\* A completed job has closed its attempt "succeeded" and enqueued the next stage: its
\* attempt is its own, so that nobody overwrites it later, for any number of redeliveries.
THEOREM CompletedAlwaysHandsOff == Spec => []CompletedHandsOff
<1>1. IInv => CompletedHandsOff
  <2>1. SUFFICES ASSUME IInv, NEW j \in Job, job[j].state = "completed"
                 PROVE  /\ Succeeded(job[j].run)
                        /\ HandedOff(job[j].run)
                        /\ Src(job[j].run) = job[j].source /\ StageOf(job[j].run) = job[j].stage
    BY DEF CompletedHandsOff, Succeeded, HandedOff, JobsOf
  <2>. QED
    BY <2>1 DEF IInv, Delivered, Src, StageOf
<1>. QED
  BY <1>1, IInvHolds, PTL

-------------------------------------------------------------------------------
\* As long as no job expires, pg-boss waits for every handler at work, and a stage
\* has one of them.
OneHandler ==
    ~expired =>
        /\ \A r \in Run : run[r].pc \in Live => Awaited(r)
        /\ \A q, r \in Run : run[q].pc \in Live /\ run[r].pc \in Live /\ StageOf(q) = StageOf(r) => q = r

\* What a parse found when its transaction began is still there when it commits.
OneParse ==
    ~expired =>
        /\ \A r \in Run : At(r, "parse", "write") => run[r].seen = pages[Src(r)]
        /\ \A s \in Source : \A p \in pages[s] : p.by = canonical[s]

\* Handlers go on or end, and settle no job but their own.
LEMMA OneHandlerStays ==
    ASSUME OneHandler, expired' = expired, Run' = Run,
           \A q \in Run : run'[q].job = run[q].job /\ StageOf(q)' = StageOf(q),
           \A q \in Run : run'[q].pc \in Live /\ Awaited(q) =>
               /\ run[q].pc \in Live
               /\ job'[run[q].job].state = job[run[q].job].state
               /\ job'[run[q].job].run = job[run[q].job].run,
           \A q \in Run : run'[q].pc \in Live => run[q].pc \in Live
    PROVE  OneHandler'
  BY DEF OneHandler, Awaited

\* Nobody but a parse touches what a parse has seen and written.
LEMMA OneParseStays ==
    ASSUME OneParse, expired' = expired, UNCHANGED <<pages, canonical>>,
           \A q \in Run' : run'[q].pc = "write" /\ StageOf(q)' = "parse" =>
               /\ q \in Run /\ run[q].pc = "write" /\ StageOf(q) = "parse"
               /\ run'[q].seen = run[q].seen /\ Src(q)' = Src(q)
    PROVE  OneParse'
  BY DEF OneParse, At

\* One run's place or attempt changes, and jobs stay or are added.
LEMMA StepFields ==
    ASSUME Types, NEW r \in Run, run' = [run EXCEPT ![r] = run'[r]], run'[r].job = run[r].job,
           \/ job' = job
           \/ \E g \in Stage, s \in Source : Enqueue(g, s, r)
    PROVE  /\ Run' = Run
           /\ \A q \in Run : run'[q].job = run[q].job /\ (q # r => run'[q] = run[q])
           /\ \A q \in Run : job'[run[q].job] = job[run[q].job]
           /\ \A q \in Run : Src(q)' = Src(q) /\ StageOf(q)' = StageOf(q)
<1>1. /\ Run' = Run
      /\ \A q \in Run : run'[q].job = run[q].job /\ (q # r => run'[q] = run[q])
  BY DEF Types, RunTypes, Run
<1>2. \A k \in Job : job'[k] = job[k]
  <2>1. ASSUME NEW x, job' = Append(job, x), NEW k \in Job PROVE job'[k] = job[k]
    BY <2>1 DEF Types, JobTypes, Job
  <2>. QED
    BY <2>1 DEF Enqueue
<1>3. \A q \in Run : job'[run[q].job] = job[run[q].job]
  BY <1>2, RunFields
<1>. QED
  BY <1>1, <1>3 DEF Src, StageOf

LEMMA ParsingKeepsAlone ==
    ASSUME IInv, OneHandler, OneParse, NEW r \in Run, ParseClear(r) \/ ParseCommit(r)
    PROVE  OneHandler' /\ OneParse'
<1>. DEFINE s == Src(r)
<1>1. Moves(r) /\ s \in Source
  BY ParseGoes, RunFields DEF IInv, Goes, ParseStep
<1>2. /\ Run' = Run
      /\ \A q \in Run : q # r => run'[q] = run[q]
      /\ \A q \in Run : Src(q)' = Src(q) /\ StageOf(q)' = StageOf(q)
      /\ run[r].pc \in Live /\ run'[r].job = run[r].job /\ job' = job /\ expired' = expired
  BY <1>1, MoveIsLocal DEF IInv, Moves
<1>3. OneHandler'
  BY <1>2, OneHandlerStays
<1>4. CASE ParseClear(r)
  <2>1. UNCHANGED <<pages, canonical>> /\ (run'[r].pc = "write" => run'[r].seen = pages[s])
    BY ZenonT(40), <1>4, RunFields DEF ParseClear, content, IInv, Types, RunTypes, Run, RunRec
  <2>. QED
    BY <1>2, <1>3, <2>1 DEF OneParse, At
<1>5. CASE ParseCommit(r)
  <2>1. SUFFICES ASSUME ~expired PROVE OneParse'
    BY <1>2, <1>3 DEF OneParse
  <2>2. /\ At(r, "parse", "write") /\ run'[r].pc = "succeed"
        /\ run[r].seen = pages[s]
    BY <1>5, <2>1, RunFields DEF ParseCommit, Goto, At, OneParse, IInv, Types, RunTypes, Run, RunRec
  <2>3. PICK found \in ParseResults :
            pages' = [pages EXCEPT ![s] = (pages[s] \ run[r].seen) \cup [by: {r}, no: found]]
    BY <1>5 DEF ParseCommit
  <2>4. /\ pages'[s] = [by: {r}, no: found] /\ canonical'[s] = r
        /\ \A t \in Source : t # s => pages'[t] = pages[t] /\ canonical'[t] = canonical[t]
    BY <1>1, <1>5, <2>2, <2>3 DEF ParseCommit, IInv, Types, DataTypes
  <2>5. \A q \in Run : ~(run'[q].pc = "write" /\ StageOf(q) = "parse")
    <3>1. ASSUME NEW q \in Run, run'[q].pc = "write", StageOf(q) = "parse" PROVE FALSE
      <4>1. q # r /\ run[q].pc = "write" /\ StageOf(r) = "parse" /\ run[r].pc = "write"
        BY <1>2, <2>2, <3>1 DEF At
      <4>. QED
        BY <2>1, <3>1, <4>1 DEF OneHandler, Live, InTry
    <3>. QED
      BY <3>1
  <2>6. \A t \in Source : \A p \in pages'[t] : p.by = canonical'[t]
    <3>1. \A p \in pages'[s] : p.by = canonical'[s]
      BY <2>4
    <3>2. \A t \in Source : \A p \in pages[t] : p.by = canonical[t]
      BY <2>1 DEF OneParse
    <3>. QED
      BY <2>4, <3>1, <3>2
  <2>. QED
    BY <1>2, <2>5, <2>6 DEF OneParse, At
<1>. QED
  BY <1>4, <1>5

\* A handler's other steps.
LEMMA HandlingKeepsAlone ==
    ASSUME IInv, OneHandler, OneParse, NEW r \in Run,
           \/ ParseBegin(r) \/ ExtractStep(r) \/ EmbedStep(r) \/ FailureGoes(r)
           \/ StartAttempt(r) \/ SucceedAttempt(r) \/ RecordFailure(r)
           \/ HandOff(r) \/ HandOffUnacknowledged(r)
    PROVE  OneHandler' /\ OneParse'
<1>0. Types /\ run[r] \in RunRec /\ StageOf(r) \in Stage /\ Src(r) \in Source
  BY RunFields DEF IInv
<1>1. CASE ParseBegin(r) \/ ExtractStep(r) \/ EmbedStep(r) \/ FailureGoes(r)
  <2>1. Goes(r)
    BY <1>1, ParseGoes, ExtractGoes, EmbedGoes, FailuresGo DEF IInv, ParseStep
  <2>2. /\ run' = [run EXCEPT ![r] = run'[r]] /\ run'[r].job = run[r].job /\ job' = job
        /\ run[r].pc \in Live /\ expired' = expired
    BY <2>1 DEF Goes, Moves
  <2>3. UNCHANGED <<pages, canonical>>
    BY <1>1 DEF ParseBegin, ExtractStep, ExtractRead, ExtractReadPages, ExtractDescribe, ExtractTag,
       ExtractClear, ExtractCommit, ExtractAdvance, EmbedStep, EmbedSelectRecs, EmbedSelectPages,
       EmbedBatch, EmbedReady, FailureGoes, StartThrows, Throw, RecordFailure, MarkFailed, content
  <2>4. run'[r].pc = "write" => StageOf(r) # "parse"
    <3>1. CASE ParseBegin(r) \/ FailureGoes(r)
      <4>1. PICK place \in {"clear", "rethrow", "catch", "markFailed"} : Goto(r, place)
        BY <3>1 DEF ParseBegin, FailureGoes, StartThrows, Throw, MarkFailed, RecordFailure
      <4>2. run'[r] = [run[r] EXCEPT !.pc = place]
        BY <1>0, <4>1 DEF Goto, Types, RunTypes, Run
      <4>. QED
        BY <1>0, <4>2 DEF RunRec
    <3>2. CASE ExtractStep(r) \/ EmbedStep(r)
      BY <3>2 DEF ExtractStep, ExtractRead, ExtractReadPages, ExtractDescribe, ExtractTag,
         ExtractClear, ExtractCommit, ExtractAdvance, EmbedStep, EmbedSelectRecs, EmbedSelectPages,
         EmbedBatch, EmbedReady, At
    <3>. QED
      BY <1>1, <3>1, <3>2
  <2>5. /\ Run' = Run
        /\ \A q \in Run : run'[q].job = run[q].job /\ (q # r => run'[q] = run[q])
        /\ \A q \in Run : Src(q)' = Src(q) /\ StageOf(q)' = StageOf(q)
    BY <1>0, <2>2, StepFields
  <2>. QED
    BY <2>2, <2>3, <2>4, <2>5, OneHandlerStays, OneParseStays
<1>2. CASE StartAttempt(r) \/ SucceedAttempt(r) \/ RecordFailure(r) \/ HandOff(r) \/ HandOffUnacknowledged(r)
  <2>1. PICK place \in {"begin", "read", "selectRecs", "handoff", "return", "markFailed", "catch"},
             n \in Nat : run' = [run EXCEPT ![r] = [run[r] EXCEPT !.pc = place, !.attempt = n]]
    <3>1. CASE StartAttempt(r)
      <4>1. FirstPlace[StageOf(r)] \in {"begin", "read", "selectRecs"}
        BY <1>0 DEF FirstPlace, Stage
      <4>2. Len(attempts[Src(r)][StageOf(r)]) + 1 \in Nat
        BY <1>0 DEF Types, DataTypes
      <4>3. PICK place, n :
                /\ place = FirstPlace[StageOf(r)] /\ n = Len(attempts[Src(r)][StageOf(r)]) + 1
                /\ run' = [run EXCEPT ![r].pc = place, ![r].attempt = n]
        BY <3>1 DEF StartAttempt
      <4>4. run' = [run EXCEPT ![r] = [run[r] EXCEPT !.pc = place, !.attempt = n]]
        BY <1>0, <4>3 DEF Types, RunTypes, Run
      <4>. QED
        BY <4>1, <4>2, <4>3, <4>4
    <3>2. CASE SucceedAttempt(r) \/ RecordFailure(r) \/ HandOff(r) \/ HandOffUnacknowledged(r)
      <4>1. PICK place \in {"handoff", "return", "markFailed", "catch"} : Goto(r, place)
        BY <3>2 DEF SucceedAttempt, RecordFailure, HandOff, HandOffUnacknowledged
      <4>2. run' = [run EXCEPT ![r] = [run[r] EXCEPT !.pc = place]]
        BY <4>1 DEF Goto
      <4>3. [run[r] EXCEPT !.pc = place] = [run[r] EXCEPT !.pc = place, !.attempt = run[r].attempt]
        BY <1>0 DEF RunRec
      <4>. QED
        BY <1>0, <4>2, <4>3 DEF RunRec
    <3>. QED
      BY <1>2, <3>1, <3>2
  <2>2. /\ run'[r] = [run[r] EXCEPT !.pc = place, !.attempt = n]
        /\ run' = [run EXCEPT ![r] = run'[r]]
    BY <1>0, <2>1 DEF Types, RunTypes, Run
  <2>3. run'[r].pc # "write" /\ run'[r].job = run[r].job
    BY <1>0, <2>2 DEF RunRec
  <2>4. /\ \/ job' = job
           \/ run[r].pc = "handoff" /\ Enqueue(Successor[StageOf(r)], Src(r), r)
        /\ run[r].pc \in Live /\ UNCHANGED <<pages, canonical, expired>>
    BY <1>2 DEF StartAttempt, SucceedAttempt, RecordFailure, HandOff, HandOffUnacknowledged,
       content, Live, InTry
  <2>5. /\ Run' = Run
        /\ \A q \in Run : run'[q].job = run[q].job /\ (q # r => run'[q] = run[q])
        /\ \A q \in Run : job'[run[q].job] = job[run[q].job]
        /\ \A q \in Run : Src(q)' = Src(q) /\ StageOf(q)' = StageOf(q)
    <3>1. run[r].pc = "handoff" => Successor[StageOf(r)] \in Stage
      BY <1>0, StandsIn DEF IInv, PlacesOf, Successor, Stage
    <3>. QED
      BY <1>0, <2>2, <2>3, <2>4, <3>1, StepFields
  <2>. QED
    BY <2>3, <2>4, <2>5, OneHandlerStays, OneParseStays
<1>. QED
  BY <1>1, <1>2

\* Deliveries and their ends.
LEMMA QueueKeepsAlone ==
    ASSUME IInv, OneHandler, OneParse,
           \/ \E j \in Job : Deliver(j) \/ ReapJob(j) \/ ExpireJob(j)
           \/ \E r \in Run : Return(r) \/ Rethrow(r)
           \/ CrashWorker
    PROVE  OneHandler' /\ OneParse'
<1>1. Types
  BY DEF IInv
<1>2. CASE \E j \in Job : Deliver(j)
  <2>1. PICK j \in Job : Deliver(j)
    BY <1>2
  <2>2. PICK n, x : /\ n = Len(run) + 1 /\ run' = Append(run, x)
                    /\ x = [pc |-> "start", job |-> j, attempt |-> 0, read |-> {}, seen |-> {}, todo |-> {}]
    BY <2>1 DEF Deliver
  <2>3. /\ Run' = Run \cup {n} /\ n \notin Run /\ run'[n] = x /\ x.pc = "start" /\ x.job = j
        /\ \A q \in Run : run'[q] = run[q]
    BY <1>1, <2>2 DEF Types, RunTypes, Run
  <2>4. /\ Job' = Job
        /\ \A k \in Job : /\ k # j => job'[k] = job[k]
                          /\ job'[k].stage = job[k].stage /\ job'[k].source = job[k].source
        /\ job'[j].state = "active" /\ job'[j].run = n
        /\ job[j].state = "queued" /\ Polling(job[j].stage)
        /\ UNCHANGED <<pages, canonical, expired>>
    BY <1>1, <2>1, <2>2, JobFields DEF Deliver, Types, JobTypes, Job, JobRec, content
  <2>5. /\ \A q \in Run : Src(q)' = Src(q) /\ StageOf(q)' = StageOf(q) /\ run[q].job \in Job
        /\ StageOf(n)' = job[j].stage
    BY <1>1, <2>3, <2>4, RunFields DEF Src, StageOf
  <2>6. OneParse'
    BY <2>3, <2>4, <2>5, OneParseStays
  <2>7. ASSUME ~expired
        PROVE  /\ \A q \in Run : run[q].pc \in Live => StageOf(q) # job[j].stage
               /\ \A q \in Run : run[q].pc \in Live => Awaited(q) /\ run[q].job # j
    BY <2>4, <2>7 DEF OneHandler, Polling, Awaited
  <2>8. ASSUME ~expired PROVE \A q \in Run' : run'[q].pc \in Live => Awaited(q)'
    BY <2>3, <2>4, <2>5, <2>7, <2>8 DEF Awaited
  <2>9. ASSUME ~expired, NEW q \in Run', NEW r \in Run', run'[q].pc \in Live, run'[r].pc \in Live,
               StageOf(q)' = StageOf(r)'
        PROVE  q = r
    BY <2>3, <2>5, <2>7, <2>9 DEF OneHandler
  <2>. QED
    BY <2>4, <2>6, <2>8, <2>9 DEF OneHandler
<1>3. CASE \E j \in Job : ReapJob(j) \/ ExpireJob(j)
  <2>1. PICK j \in Job : ReapJob(j) \/ ExpireJob(j)
    BY <1>3
  <2>2. CASE ExpireJob(j)
    BY <2>2 DEF ExpireJob, OneHandler, OneParse
  <2>3. CASE ReapJob(j)
    <3>1. /\ Run' = Run /\ run' = run /\ expired' = expired /\ UNCHANGED <<pages, canonical>>
          /\ run[job[j].run].pc = "dead" /\ job' = Redeliver(j)
      BY <2>3 DEF ReapJob, Run, content
    <3>2. /\ \A k \in Job : k # j => job'[k] = job[k]
          /\ \A k \in Job : job'[k].source = job[k].source /\ job'[k].stage = job[k].stage
                            /\ job'[k].run = job[k].run
      BY <1>1, <3>1, RedeliverJob DEF Redeliver, Types, JobTypes, Job
    <3>3. \A q \in Run : /\ Src(q)' = Src(q) /\ StageOf(q)' = StageOf(q) /\ run[q].job \in Job
      BY <1>1, <3>1, <3>2, RunFields DEF Src, StageOf
    <3>4. \A q \in Run : run[q].pc \in Live /\ Awaited(q) => run[q].job # j
      BY <3>1 DEF Awaited, Live, InTry
    <3>. QED
      BY <3>1, <3>2, <3>3, <3>4, OneHandlerStays, OneParseStays
  <2>. QED
    BY <2>1, <2>2, <2>3
<1>4. CASE \E r \in Run : Return(r) \/ Rethrow(r)
  <2>1. PICK r \in Run : Return(r) \/ Rethrow(r)
    BY <1>4
  <2>2. /\ run' = [run EXCEPT ![r] = Ended(r, "done")] /\ expired' = expired
        /\ UNCHANGED <<pages, canonical>>
        /\ Settle(r, "completed") \/ Settle(r, "failed")
    BY <2>1 DEF Return, Rethrow, content
  <2>3. /\ Run' = Run /\ run'[r].pc = "done"
        /\ \A q \in Run : run'[q].job = run[q].job /\ (q # r => run'[q] = run[q])
    BY <1>1, <2>2, EndedRun DEF Types, RunTypes, Run
  <2>4. \A k \in Job : /\ k # run[r].job \/ ~Awaited(r) => job'[k] = job[k]
                       /\ job'[k].stage = job[k].stage /\ job'[k].source = job[k].source
    <3>1. CASE ~Awaited(r)
      BY <2>2, <3>1 DEF Settle
    <3>2. CASE Awaited(r)
      <4>1. PICK new \in {"queued", "failed", "completed"} :
                job' = [job EXCEPT ![run[r].job].state = new]
        BY <2>2, <3>2 DEF Settle, Redeliver
      <4>2. job[run[r].job] \in JobRec
        BY <1>1, RunFields
      <4>. QED
        BY <1>1, <3>2, <4>1, <4>2 DEF JobRec, Types, JobTypes, Job
    <3>. QED
      BY <3>1, <3>2
  <2>5. \A q \in Run : Src(q)' = Src(q) /\ StageOf(q)' = StageOf(q) /\ run[q].job \in Job
    BY <1>1, <2>3, <2>4, RunFields DEF Src, StageOf
  <2>6. \A q \in Run : run'[q].pc \in Live /\ Awaited(q) =>
            run[q].pc \in Live /\ job'[run[q].job] = job[run[q].job]
    <3>1. SUFFICES ASSUME NEW q \in Run, run'[q].pc \in Live, Awaited(q)
                   PROVE  run[q].pc \in Live /\ job'[run[q].job] = job[run[q].job]
      OBVIOUS
    <3>2. q # r /\ run'[q] = run[q]
      BY <2>3, <3>1 DEF Live, InTry
    <3>3. run[q].job # run[r].job \/ ~Awaited(r)
      BY <3>1, <3>2 DEF Awaited
    <3>. QED
      BY <2>4, <2>5, <3>1, <3>2, <3>3
  <2>7. \A q \in Run : run'[q].pc \in Live \cup {"write"} => q # r
    BY <2>3 DEF Live, InTry
  <2>8. OneHandler'
    BY <2>2, <2>3, <2>5, <2>6, <2>7, OneHandlerStays
  <2>. QED
    BY <2>2, <2>3, <2>5, <2>7, <2>8, OneParseStays
<1>5. CASE CrashWorker
  <2>1. /\ run' = [q \in Run |-> IF run[q].pc \in Live THEN Ended(q, "dead") ELSE run[q]]
        /\ job' = job /\ expired' = expired /\ UNCHANGED <<pages, canonical>>
    BY <1>5 DEF CrashWorker, content
  <2>2. Run' = Run /\ \A q \in Run : run'[q] = IF run[q].pc \in Live THEN Ended(q, "dead") ELSE run[q]
    BY <2>1 DEF Run
  <2>3. \A q \in Run : run'[q].pc \notin Live
    BY <1>1, <2>2, EndedRun DEF Live, InTry
  <2>4. OneHandler'
    BY <2>2, <2>3 DEF OneHandler
  <2>5. \A q \in Run : run'[q].pc # "write"
    BY <2>3 DEF Live, InTry
  <2>. QED
    BY <2>1, <2>2, <2>4, <2>5, OneParseStays
<1>. QED
  BY <1>2, <1>3, <1>4, <1>5

LEMMA AloneHolds == Spec => [](OneHandler /\ OneParse)
<1>1. Init => OneHandler /\ OneParse
  BY DEF Init, OneHandler, OneParse, Run
<1>2. IInv /\ OneHandler /\ OneParse /\ [Next]_vars => OneHandler' /\ OneParse'
  <2>1. SUFFICES ASSUME IInv, OneHandler, OneParse, [Next]_vars PROVE OneHandler' /\ OneParse'
    OBVIOUS
  <2>2. ASSUME NEW s \in Source, UploadStep(s) \/ LoseUpload(s) PROVE OneHandler' /\ OneParse'
    <3>1. /\ run' = run /\ expired' = expired /\ UNCHANGED <<pages, canonical>>
          /\ job' = job \/ Enqueue("parse", s, None)
      BY <2>2 DEF UploadStep, CreateSource, StoreFile, CreateSourceFile, EnqueueParse, LoseUpload, content
    <3>2. \A k \in Job : job'[k] = job[k]
      BY <2>1, <3>1 DEF Enqueue, IInv, Types, JobTypes, Job
    <3>3. /\ Run' = Run
          /\ \A q \in Run : run[q].job \in Job /\ Src(q)' = Src(q) /\ StageOf(q)' = StageOf(q)
      BY <2>1, <3>1, <3>2, RunFields DEF IInv, Run, Src, StageOf
    <3>. QED
      BY <2>1, <3>1, <3>2, <3>3, OneHandlerStays, OneParseStays
  <2>3. CASE UNCHANGED vars
    <3>1. /\ run' = run /\ job' = job /\ pages' = pages /\ canonical' = canonical /\ expired' = expired
      BY <2>3 DEF vars
    <3>. QED
      BY <2>1, <3>1 DEF OneHandler, OneParse, At, Awaited, Run, Src, StageOf
  <2>. QED
    BY <2>1, <2>2, <2>3, NextCases, ParsingKeepsAlone, HandlingKeepsAlone, QueueKeepsAlone
       DEF Happens, UploadStep, ParseStep
<1>. QED
  BY <1>1, <1>2, IInvHolds, PTL DEF Spec

\* As long as no job expires, the page rows of a source all stem from the parse whose
\* markdown it shows, however many retries, crashes and lost acknowledgements there are.
THEOREM PagesAlwaysMatchMarkdown == Spec => []CanonicalMatchesPages
<1>1. OneParse => CanonicalMatchesPages
  BY DEF OneParse, CanonicalMatchesPages
<1>. QED
  BY <1>1, AloneHolds, PTL

-------------------------------------------------------------------------------
(* What is owed: as long as a source is not whole, some unsettled job of it *)
(* is bound to set it right, or a job has used up its retries.              *)

Unsettled(j) == job[j].state \in {"queued", "active"}

\* Where the delivery of job j stands, if it has been delivered.
Stands(j, places) == job[j].state = "active" /\ run[job[j].run].pc \in places

\* The job is to enqueue the next stage.
Ahead(j) == Unsettled(j) /\ job[j].stage # "embed" /\ ~Stands(j, {"return"})

\* It leads to a last status, to a vector for a row, to an extraction of the present text.
OwesStatus(j) ==
    Ahead(j) \/ (Unsettled(j) /\ job[j].stage = "embed" /\ ~Stands(j, {"succeed", "return"}))

OwesRow(j, row) ==
    \/ Ahead(j)
    \/ /\ Unsettled(j) /\ job[j].stage = "embed"
       /\ \/ ~Stands(j, {"selectPages", "embed", "succeed", "return"})
          \/ Stands(j, {"selectPages", "embed"}) /\ row \in run[job[j].run].todo
          \/ Stands(j, {"selectPages"}) /\ row \in pages[job[j].source]

Reading == {"readPages", "describe", "tag", "clear", "write"}

OwesExtract(j) ==
    \/ Ahead(j) /\ job[j].stage = "parse"
    \/ /\ Unsettled(j) /\ job[j].stage = "extract"
       /\ \/ ~Stands(j, Reading \cup {"advance", "succeed", "handoff", "return"})
          \/ Stands(j, Reading) /\ run[job[j].run].read = {canonical[job[j].source]}

\* An extraction to come, of a text that is to come or there already.
Renews(j) ==
    (Ahead(j) /\ job[j].stage = "parse") \/ (job[j].state = "queued" /\ job[j].stage = "extract")

Coherent(s) ==
    /\ meta[s] = tags[s]
    /\ \A row \in recs[s] : row.by = meta[s] /\ row.from = {canonical[s]}

StatusDue(s) == status[s] = "ready" \/ \E j \in JobsOf(s) : OwesStatus(j)
RowsDue(s) == \A row \in pages[s] \cup recs[s] : row \in vec \/ \E j \in JobsOf(s) : OwesRow(j, row)
ExtractDue(s) == Coherent(s) \/ \E j \in JobsOf(s) : OwesExtract(j)
Whole(s) == StatusDue(s) /\ RowsDue(s) /\ ExtractDue(s)

Failed(s) == \E j \in JobsOf(s) : job[j].state = "failed"

\* A job has been sent for a source, and no row is of another source.
Submitted == \A s \in Source : JobsOf(s) # {} <=> upload[s] = "sent"
RowsAreOwn == \A s \in Source : \A row \in pages[s] \cup recs[s] : Src(row.by) = s

\* An extraction at work has written what it has come past, and has seen what is there.
Extracting(r) == run[r].pc \in Live /\ StageOf(r) = "extract"

Written ==
    ~expired => \A r \in Run : Extracting(r) =>
        /\ run[r].pc \in {"tag", "clear", "write", "advance"} => meta[Src(r)] = r
        /\ run[r].pc \in {"clear", "write", "advance"} => tags[Src(r)] = r
        /\ run[r].pc = "write" => run[r].seen = recs[Src(r)]

\* If the text it reads has been replaced, another extraction is to come.
Renewed ==
    ~expired => \A r \in Run :
        Extracting(r) /\ run[r].pc \in Reading /\ run[r].read # {canonical[Src(r)]} =>
            Failed(Src(r)) \/ \E j \in JobsOf(Src(r)) : Renews(j)

Debts == ~expired => \A s \in Source : JobsOf(s) # {} => Failed(s) \/ Whole(s)

Book == ~expired => Submitted /\ RowsAreOwn /\ Written /\ Renewed /\ Debts

LEMMA BookIsConsistent ==
    ASSUME Book
    PROVE  QuiescentConsistent
<1>1. SUFFICES ASSUME ~expired, NEW s \in Source, Quiescent(s), \A j \in JobsOf(s) : job[j].state # "failed"
               PROVE  /\ status[s] = "ready" /\ Embedded(s) /\ meta[s] = tags[s]
                      /\ \A row \in recs[s] : row.by = meta[s] /\ row.from = {canonical[s]}
  BY DEF QuiescentConsistent
<1>2. JobsOf(s) # {} /\ ~Failed(s)
  BY <1>1 DEF Book, Submitted, Quiescent, Failed
<1>3. Whole(s)
  BY <1>1, <1>2 DEF Book, Debts
<1>4. \A j \in JobsOf(s) : ~Unsettled(j)
  BY <1>1 DEF Quiescent, Unsettled
<1>. QED
  BY <1>3, <1>4 DEF Whole, StatusDue, RowsDue, ExtractDue, Coherent, Embedded, OwesStatus, OwesRow,
     OwesExtract, Ahead

\* A step of a handler, the end of a delivery left out.
Acts(r) ==
    \/ ParseStep(r) \/ ExtractStep(r) \/ EmbedStep(r) \/ FailureGoes(r)
    \/ StartAttempt(r) \/ SucceedAttempt(r) \/ RecordFailure(r)
    \/ HandOff(r) \/ HandOffUnacknowledged(r)

\* It concerns its own run, job and source.
LEMMA ActsLocally ==
    ASSUME IInv, NEW r \in Run, Acts(r)
    PROVE  /\ run[r].pc \in Live /\ expired' = expired /\ UNCHANGED <<upload, stored, filed>>
           /\ Run' = Run /\ run'[r].job = run[r].job
           /\ \A q \in Run : q # r => run'[q] = run[q]
           /\ Job \subseteq Job' /\ \A k \in Job : job'[k] = job[k]
           /\ \A q \in Run : Src(q)' = Src(q) /\ StageOf(q)' = StageOf(q)
           /\ \A t \in Source : t # Src(r) =>
                /\ status'[t] = status[t] /\ canonical'[t] = canonical[t] /\ pages'[t] = pages[t]
                /\ meta'[t] = meta[t] /\ tags'[t] = tags[t] /\ recs'[t] = recs[t]
           /\ job' = job \/ (HandOff(r) \/ HandOffUnacknowledged(r))
<1>0. Types /\ run[r] \in RunRec /\ StageOf(r) \in Stage /\ Src(r) \in Source
  BY RunFields DEF IInv
<1>1. /\ run[r].pc \in Live /\ expired' = expired /\ UNCHANGED <<upload, stored, filed>>
      /\ run' = [run EXCEPT ![r] = run'[r]] /\ run'[r].job = run[r].job
      /\ \/ job' = job
         \/ /\ run[r].pc = "handoff" /\ Enqueue(Successor[StageOf(r)], Src(r), r)
            /\ HandOff(r) \/ HandOffUnacknowledged(r)
  <2>1. CASE ParseStep(r) \/ ExtractStep(r) \/ EmbedStep(r) \/ FailureGoes(r)
    <3>1. Goes(r)
      BY <2>1, ParseGoes, ExtractGoes, EmbedGoes, FailuresGo DEF IInv
    <3>. QED
      BY <3>1 DEF Goes, Moves
  <2>2. CASE StartAttempt(r)
    <3>1. PICK place, n : run' = [run EXCEPT ![r].pc = place, ![r].attempt = n]
      BY <2>2 DEF StartAttempt
    <3>2. /\ run'[r] = [run[r] EXCEPT !.pc = place, !.attempt = n]
          /\ run' = [run EXCEPT ![r] = run'[r]]
      BY <1>0, <3>1 DEF Types, RunTypes, Run
    <3>3. run'[r].job = run[r].job
      BY <1>0, <3>2 DEF RunRec
    <3>. QED
      BY <2>2, <3>2, <3>3 DEF StartAttempt, files, Live
  <2>3. CASE SucceedAttempt(r) \/ RecordFailure(r) \/ HandOff(r) \/ HandOffUnacknowledged(r)
    <3>1. PICK place : Goto(r, place)
      BY <2>3 DEF SucceedAttempt, RecordFailure, HandOff, HandOffUnacknowledged
    <3>2. /\ run'[r] = [run[r] EXCEPT !.pc = place]
          /\ run' = [run EXCEPT ![r] = run'[r]]
      BY <1>0, <3>1 DEF Goto, Types, RunTypes, Run
    <3>3. run'[r].job = run[r].job
      BY <1>0, <3>2 DEF RunRec
    <3>. QED
      BY <2>3, <3>2, <3>3 DEF SucceedAttempt, RecordFailure, HandOff, HandOffUnacknowledged, files,
         Live, InTry
  <2>. QED
    BY <2>1, <2>2, <2>3 DEF Acts
<1>2. \/ job' = job
      \/ \E g \in Stage, s \in Source : Enqueue(g, s, r)
  <2>1. run[r].pc = "handoff" => Successor[StageOf(r)] \in Stage
    BY <1>0, StandsIn DEF IInv, PlacesOf, Successor, Stage
  <2>. QED
    BY <1>0, <1>1, <2>1
<1>3. /\ Run' = Run /\ \A q \in Run : q # r => run'[q] = run[q]
      /\ \A q \in Run : Src(q)' = Src(q) /\ StageOf(q)' = StageOf(q)
  BY <1>0, <1>1, <1>2, StepFields
<1>4. Job \subseteq Job' /\ \A k \in Job : job'[k] = job[k]
  <2>1. ASSUME NEW x, job' = Append(job, x) PROVE Job \subseteq Job' /\ \A k \in Job : job'[k] = job[k]
    BY <1>0, <2>1 DEF Types, JobTypes, Job
  <2>. QED
    BY <1>2, <2>1 DEF Enqueue, Job
<1>5. \A t \in Source : t # Src(r) =>
        /\ status'[t] = status[t] /\ canonical'[t] = canonical[t] /\ pages'[t] = pages[t]
        /\ meta'[t] = meta[t] /\ tags'[t] = tags[t] /\ recs'[t] = recs[t]
  <2>1. CASE ParseStep(r)
    BY <1>0, <2>1 DEF ParseStep, ParseBegin, ParseClear, ParseCommit, content, Types, DataTypes
  <2>2. CASE ExtractStep(r)
    BY <1>0, <2>2 DEF ExtractStep, ExtractRead, ExtractReadPages, ExtractDescribe, ExtractTag,
       ExtractClear, ExtractCommit, ExtractAdvance, content, Types, DataTypes
  <2>3. CASE EmbedStep(r)
    BY <1>0, <2>3 DEF EmbedStep, EmbedSelectRecs, EmbedSelectPages, EmbedBatch, EmbedReady, content,
       Types, DataTypes
  <2>4. CASE ~(ParseStep(r) \/ ExtractStep(r) \/ EmbedStep(r))
    BY <1>0, <2>4 DEF Acts, FailureGoes, StartThrows, Throw, MarkFailed, RecordFailure, StartAttempt,
       SucceedAttempt, HandOff, HandOffUnacknowledged, content, Types, DataTypes
  <2>. QED
    BY <2>1, <2>2, <2>3, <2>4
<1>. QED
  BY <1>1, <1>3, <1>4, <1>5

\* What a job owed, it still owes.
Keeps(j) ==
    /\ j \in Job' /\ job'[j].source = job[j].source
    /\ OwesStatus(j) => OwesStatus(j)'
    /\ \A row : OwesRow(j, row) => OwesRow(j, row)'
    /\ OwesExtract(j) => OwesExtract(j)'

\* Nothing happens to a job.
Same(j) ==
    /\ j \in Job' /\ job'[j] = job[j]
    /\ job[j].state = "active" => run'[job[j].run] = run[job[j].run]
    /\ pages'[job[j].source] = pages[job[j].source]
    /\ canonical'[job[j].source] = canonical[job[j].source]

LEMMA SameKeeps ==
    ASSUME NEW j \in Job, Same(j)
    PROVE  Keeps(j) /\ (Renews(j) => Renews(j)')
<1>1. /\ j \in Job' /\ job'[j] = job[j]
      /\ job[j].state = "active" => run'[job[j].run] = run[job[j].run]
      /\ pages'[job[j].source] = pages[job[j].source]
      /\ canonical'[job[j].source] = canonical[job[j].source]
  BY DEF Same
<1>2. Unsettled(j)' = Unsettled(j)
  BY <1>1 DEF Unsettled
<1>3. Ahead(j)' = Ahead(j)
  BY <1>1, <1>2 DEF Ahead, Stands
<1>4. OwesStatus(j) => OwesStatus(j)'
  BY <1>1, <1>2, <1>3 DEF OwesStatus, Stands
<1>5. \A row : OwesRow(j, row) => OwesRow(j, row)'
  BY <1>1, <1>2, <1>3 DEF OwesRow, Stands
<1>6. OwesExtract(j) => OwesExtract(j)'
  BY <1>1, <1>2, <1>3 DEF OwesExtract, Stands
<1>7. Renews(j) => Renews(j)'
  BY <1>1, <1>3 DEF Renews
<1>. QED
  BY <1>1, <1>4, <1>5, <1>6, <1>7 DEF Keeps

\* A source that keeps its rows and its debtors keeps its account.
LEMMA SourceStays ==
    ASSUME NEW t \in Source, Failed(t) \/ Whole(t), Failed(t) => Failed(t)',
           Failed(t)' \/ \A j \in JobsOf(t) : Keeps(j),
           status'[t] = status[t] \/ status'[t] = "ready",
           canonical'[t] = canonical[t], pages'[t] = pages[t],
           meta'[t] = meta[t], tags'[t] = tags[t], recs'[t] = recs[t],
           \A row \in pages[t] \cup recs[t] : row \in vec => row \in vec'
    PROVE  Failed(t)' \/ Whole(t)'
<1>1. SUFFICES ASSUME Whole(t), \A j \in JobsOf(t) : Keeps(j) PROVE Whole(t)'
  OBVIOUS
<1>2. \A j \in JobsOf(t) : j \in JobsOf(t)'
  BY <1>1 DEF JobsOf, Keeps
<1>3. StatusDue(t)'
  BY <1>1, <1>2 DEF Whole, StatusDue, Keeps
<1>4. RowsDue(t)'
  <2>1. SUFFICES ASSUME NEW row \in pages[t] \cup recs[t], row \notin vec
                 PROVE  \E j \in JobsOf(t)' : OwesRow(j, row)'
    BY DEF RowsDue
  <2>2. PICK j \in JobsOf(t) : OwesRow(j, row)
    BY <1>1, <2>1 DEF Whole, RowsDue
  <2>. QED
    BY <1>1, <1>2, <2>2 DEF Keeps
<1>5. ExtractDue(t)'
  <2>1. CASE Coherent(t)
    BY <2>1 DEF ExtractDue, Coherent
  <2>2. CASE \E j \in JobsOf(t) : OwesExtract(j)
    BY <1>1, <1>2, <2>2 DEF ExtractDue, Keeps
  <2>. QED
    BY <1>1, <2>1, <2>2 DEF Whole, ExtractDue
<1>. QED
  BY <1>3, <1>4, <1>5 DEF Whole

\* Nobody touches what an extraction at work has written.
LEMMA WrittenStays ==
    ASSUME Written, ~expired,
           \A q \in Run' : Extracting(q)' /\ run'[q].pc \in {"tag", "clear", "write", "advance"} =>
               /\ q \in Run /\ run'[q] = run[q] /\ StageOf(q) = "extract" /\ Src(q)' = Src(q)
               /\ meta'[Src(q)] = meta[Src(q)] /\ tags'[Src(q)] = tags[Src(q)]
               /\ recs'[Src(q)] = recs[Src(q)]
    PROVE  Written'
<1>1. SUFFICES ASSUME NEW q \in Run', Extracting(q)',
                      run'[q].pc \in {"tag", "clear", "write", "advance"}
               PROVE  /\ meta'[Src(q)'] = q
                      /\ run'[q].pc \in {"clear", "write", "advance"} => tags'[Src(q)'] = q
                      /\ run'[q].pc = "write" => run'[q].seen = recs'[Src(q)']
  BY DEF Written
<1>. QED
  BY <1>1 DEF Written, Extracting, Live, InTry

\* The text an extraction reads stays, and so does who is to renew what it makes.
LEMMA RenewedStays ==
    ASSUME Renewed, ~expired,
           \A q \in Run' : Extracting(q)' /\ run'[q].pc \in Reading =>
               /\ q \in Run /\ Extracting(q) /\ run[q].pc \in Reading
               /\ run'[q].read = run[q].read /\ Src(q)' = Src(q)
               /\ canonical'[Src(q)] = canonical[Src(q)]
               /\ Failed(Src(q)) => Failed(Src(q))'
               /\ \/ Failed(Src(q))'
                  \/ \A j \in JobsOf(Src(q)) : j \in JobsOf(Src(q))' /\ (Renews(j) => Renews(j)')
    PROVE  Renewed'
<1>1. SUFFICES ASSUME NEW q \in Run', Extracting(q)', run'[q].pc \in Reading,
                      run'[q].read # {canonical'[Src(q)']}, ~Failed(Src(q))'
               PROVE  \E j \in JobsOf(Src(q))' : Renews(j)'
  BY DEF Renewed
<1>2. PICK j \in JobsOf(Src(q)) : Renews(j)
  BY <1>1 DEF Renewed
<1>. QED
  BY <1>1, <1>2

\* pg-boss and the worker: no table but its own changes.
LEMMA RestStays ==
    ASSUME IInv, Book, ~expired, UNCHANGED <<upload, status, content>>,
           Run \subseteq Run', Job' = Job,
           \A j \in Job : /\ job'[j].source = job[j].source
                          /\ job[j].state = "failed" => job'[j].state = "failed",
           \A q \in Run : Src(q)' = Src(q),
           \A s \in Source : Failed(s)' \/ \A j \in JobsOf(s) : Keeps(j),
           \A q \in Run' : run'[q].pc \in Reading \cup {"advance"} =>
               q \in Run /\ run'[q] = run[q] /\ StageOf(q)' = StageOf(q),
           \A q \in Run : Extracting(q) /\ run[q].pc \in Reading /\ run'[q] = run[q] =>
               \/ Failed(Src(q))'
               \/ \A j \in JobsOf(Src(q)) : Renews(j) => Renews(j)'
    PROVE  Book'
<1>1. \A s \in Source : JobsOf(s)' = JobsOf(s) /\ (Failed(s) => Failed(s)')
  BY DEF JobsOf, Failed
<1>2. \A s \in Source : \A row \in pages[s] \cup recs[s] : row.by \in Run
  <2>1. DataTypes
    BY DEF IInv, Types
  <2>. QED
    BY <2>1 DEF DataTypes, PageRow, RecRow
<1>3. Submitted' /\ RowsAreOwn'
  BY <1>1, <1>2 DEF Book, Submitted, RowsAreOwn, content
<1>4. Debts'
  <2>1. ASSUME NEW s \in Source, JobsOf(s) # {} PROVE Failed(s)' \/ Whole(s)'
    <3>1. Failed(s) \/ Whole(s)
      BY <2>1 DEF Book, Debts
    <3>. QED
      BY <1>1, <3>1, SourceStays DEF content
  <2>. QED
    BY <1>1, <2>1 DEF Debts
<1>5. \A q \in Run' : run'[q].pc \in Reading \cup {"advance"} /\ Extracting(q)' => q \in Run /\ Extracting(q)
  BY DEF Extracting, Reading, Live, InTry
<1>6. Written'
  <2>1. Written
    BY DEF Book
  <2>2. \A q \in Run' : Extracting(q)' /\ run'[q].pc \in {"tag", "clear", "write", "advance"} =>
          /\ q \in Run /\ run'[q] = run[q] /\ StageOf(q) = "extract" /\ Src(q)' = Src(q)
          /\ meta'[Src(q)] = meta[Src(q)] /\ tags'[Src(q)] = tags[Src(q)]
          /\ recs'[Src(q)] = recs[Src(q)]
    BY <1>5 DEF Reading, Extracting, content
  <2>. QED
    BY <2>1, <2>2, WrittenStays
<1>7. Renewed'
  <2>1. Renewed
    BY DEF Book
  <2>2. \A q \in Run : Src(q) \in Source
    BY RunFields DEF IInv
  <2>3. \A q \in Run' : Extracting(q)' /\ run'[q].pc \in Reading =>
          /\ q \in Run /\ Extracting(q) /\ run[q].pc \in Reading
          /\ run'[q].read = run[q].read /\ Src(q)' = Src(q)
          /\ canonical'[Src(q)] = canonical[Src(q)]
          /\ Failed(Src(q)) => Failed(Src(q))'
          /\ \/ Failed(Src(q))'
             \/ \A j \in JobsOf(Src(q)) : j \in JobsOf(Src(q))' /\ (Renews(j) => Renews(j)')
    BY <1>1, <1>5, <2>2 DEF content
  <2>. QED
    BY <2>1, <2>3, RenewedStays
<1>. QED
  BY <1>3, <1>4, <1>6, <1>7 DEF Book

\* A job that is still before anything it is to do owes all of it.
Late == Reading \cup {"advance", "succeed", "handoff", "return", "selectPages", "embed"}
Idle(j) == Unsettled(j) /\ ~Stands(j, Late)

LEMMA IdleOwes ==
    ASSUME NEW j, Idle(j)'
    PROVE  /\ OwesStatus(j)' /\ \A row : OwesRow(j, row)'
           /\ job'[j].stage \in {"parse", "extract"} => OwesExtract(j)'
<1>1. /\ Unsettled(j)'
      /\ \A places \in SUBSET Late : ~(Stands(j, places)')
  BY DEF Idle, Stands
<1>2. /\ ~(Stands(j, {"return"})') /\ ~(Stands(j, {"succeed", "return"})')
      /\ ~(Stands(j, {"selectPages", "embed", "succeed", "return"})')
      /\ ~(Stands(j, Reading \cup {"advance", "succeed", "handoff", "return"})')
  BY <1>1 DEF Late
<1>3. job'[j].stage # "embed" => Ahead(j)'
  BY <1>1, <1>2 DEF Ahead
<1>. QED
  BY <1>1, <1>2, <1>3 DEF OwesStatus, OwesRow, OwesExtract

LEMMA IdleKeeps ==
    ASSUME NEW j \in Job, j \in Job', job'[j].source = job[j].source, job'[j].stage = job[j].stage,
           Idle(j)'
    PROVE  Keeps(j)
<1>1. OwesExtract(j) => job[j].stage \in {"parse", "extract"}
  BY DEF OwesExtract
<1>. QED
  BY <1>1, IdleOwes DEF Keeps

\* A delivery: its job is active and has a new run.
LEMMA DeliverStep ==
    ASSUME Types, NEW j \in Job, Deliver(j)
    PROVE  /\ \E n : /\ Run' = Run \cup {n} /\ n \notin Run /\ run'[n].pc = "start"
                     /\ job'[j].state = "active" /\ job'[j].run = n
           /\ \A q \in Run : run'[q] = run[q]
           /\ Job' = Job
           /\ \A k \in Job : /\ k # j => job'[k] = job[k]
                             /\ job'[k].stage = job[k].stage /\ job'[k].source = job[k].source
           /\ job[j].state = "queued" /\ Polling(job[j].stage)
           /\ UNCHANGED <<upload, status, content, expired>>
<1>1. PICK n, x : /\ n = Len(run) + 1 /\ run' = Append(run, x)
                  /\ x = [pc |-> "start", job |-> j, attempt |-> 0, read |-> {}, seen |-> {}, todo |-> {}]
  BY DEF Deliver
<1>2. /\ Run' = Run \cup {n} /\ n \notin Run /\ run'[n].pc = "start"
      /\ \A q \in Run : run'[q] = run[q]
  BY <1>1 DEF Types, RunTypes, Run
<1>3. /\ Job' = Job
      /\ \A k \in Job : /\ k # j => job'[k] = job[k]
                        /\ job'[k].stage = job[k].stage /\ job'[k].source = job[k].source
      /\ job'[j].state = "active" /\ job'[j].run = n
      /\ job[j].state = "queued" /\ Polling(job[j].stage)
      /\ UNCHANGED <<upload, status, content, expired>>
  BY <1>1, JobFields DEF Deliver, Types, JobTypes, Job, JobRec, files
<1>. QED
  BY <1>2, <1>3

LEMMA DeliverKeepsBook ==
    ASSUME IInv, OneHandler, Book, ~expired, NEW j \in Job, Deliver(j)
    PROVE  Book'
<1>1. Types
  BY DEF IInv
<1>2. PICK n : /\ Run' = Run \cup {n} /\ n \notin Run /\ run'[n].pc = "start"
               /\ job'[j].state = "active" /\ job'[j].run = n
  BY <1>1, DeliverStep
<1>3. /\ Run' = Run \cup {n} /\ n \notin Run /\ run'[n].pc = "start"
      /\ \A q \in Run : run'[q] = run[q]
  BY <1>1, <1>2, DeliverStep
<1>4. /\ Job' = Job
      /\ \A k \in Job : /\ k # j => job'[k] = job[k]
                        /\ job'[k].stage = job[k].stage /\ job'[k].source = job[k].source
      /\ job'[j].state = "active" /\ job'[j].run = n
      /\ job[j].state = "queued" /\ Polling(job[j].stage)
      /\ UNCHANGED <<upload, status, content, expired>>
  BY <1>1, <1>2, DeliverStep
<1>5. \A q \in Run : Src(q)' = Src(q) /\ StageOf(q)' = StageOf(q)
  BY <1>1, <1>3, <1>4, RunFields DEF Src, StageOf
<1>6. \A k \in Job : k # j => Same(k)
  BY <1>3, <1>4 DEF Same, IInv, Delivered, content
<1>7. Keeps(j)
  <2>1. Idle(j)'
    BY <1>3, <1>4 DEF Idle, Unsettled, Stands, Late, Reading
  <2>. QED
    BY <1>4, <2>1, IdleKeeps
<1>8. \A k \in Job : Keeps(k)
  BY <1>6, <1>7, SameKeeps
<1>9. ASSUME NEW q \in Run, Extracting(q), NEW k \in Job, Renews(k)
      PROVE  Renews(k)'
  <2>1. job[j].stage # "extract"
    BY <1>4, <1>9 DEF Extracting, OneHandler, Polling
  <2>2. CASE k = j
    BY <1>3, <1>4, <1>9, <2>1, <2>2 DEF Renews, Ahead, Unsettled, Stands
  <2>. QED
    BY <1>6, <1>9, <2>2, SameKeeps
<1>10. \A q \in Run' : run'[q].pc \in Reading \cup {"advance"} =>
           q \in Run /\ run'[q] = run[q] /\ StageOf(q)' = StageOf(q)
  BY <1>3, <1>5 DEF Reading
<1>. QED
  BY <1>3, <1>4, <1>5, <1>8, <1>9, <1>10, RestStays DEF JobsOf

\* A delivery that failed has its job queued again, with all it is to do, or failed.
LEMMA RedeliveryKeeps ==
    ASSUME Types, NEW j \in Job, NEW new \in {"queued", "failed"},
           job' = [job EXCEPT ![j].state = new],
           job[j].state = "active", ~Stands(j, {"return"})
    PROVE  /\ Job' = Job
           /\ \A k \in Job : /\ k # j => job'[k] = job[k]
                             /\ job'[k].source = job[k].source /\ job'[k].stage = job[k].stage
           /\ Failed(job[j].source)' \/ (Keeps(j) /\ (Renews(j) => Renews(j)'))
<1>1. /\ Job' = Job
      /\ \A k \in Job : /\ k # j => job'[k] = job[k]
                        /\ job'[k].source = job[k].source /\ job'[k].stage = job[k].stage
      /\ job'[j].state = new
  BY JobFields DEF Types, JobTypes, Job, JobRec
<1>2. CASE new = "failed"
  BY <1>1, <1>2 DEF Failed, JobsOf
<1>3. CASE new = "queued"
  <2>1. Idle(j)'
    BY <1>1, <1>3 DEF Idle, Unsettled, Stands
  <2>2. Renews(j) => Renews(j)'
    BY <1>1, <1>3 DEF Renews, Ahead, Unsettled, Stands
  <2>. QED
    BY <1>1, <2>1, <2>2, IdleKeeps
<1>. QED
  BY <1>1, <1>2, <1>3

LEMMA ReapKeepsBook ==
    ASSUME IInv, Book, ~expired, NEW j \in Job, ReapJob(j)
    PROVE  Book'
<1>1. Types
  BY DEF IInv
<1>2. /\ UNCHANGED <<upload, status, content>> /\ run' = run /\ Run' = Run
      /\ job[j].state = "active" /\ run[job[j].run].pc = "dead" /\ job' = Redeliver(j)
  BY DEF ReapJob, files, Run
<1>3. PICK new \in {"queued", "failed"} : job' = [job EXCEPT ![j].state = new]
  BY <1>2 DEF Redeliver
<1>4. /\ Job' = Job
      /\ \A k \in Job : /\ k # j => job'[k] = job[k]
                        /\ job'[k].source = job[k].source /\ job'[k].stage = job[k].stage
      /\ Failed(job[j].source)' \/ (Keeps(j) /\ (Renews(j) => Renews(j)'))
  BY <1>1, <1>2, <1>3, RedeliveryKeeps DEF Stands
<1>5. \A q \in Run : Src(q)' = Src(q) /\ StageOf(q)' = StageOf(q)
  BY <1>1, <1>2, <1>4, RunFields DEF Src, StageOf
<1>6. \A k \in Job : k # j => Keeps(k) /\ (Renews(k) => Renews(k)')
  BY <1>2, <1>4, SameKeeps DEF Same, content
<1>. QED
  BY <1>2, <1>4, <1>5, <1>6, RestStays DEF JobsOf

\* The end of a delivery: its run is over, its job settled and nothing else changed.
LEMMA EndingStep ==
    ASSUME IInv, OneHandler, ~expired, NEW r \in Run, Return(r) \/ Rethrow(r), NEW k \in Job, k = run[r].job
    PROVE  /\ UNCHANGED <<upload, status, content, expired>>
           /\ job[k].state = "active" /\ job[k].run = r
           /\ Run' = Run /\ run'[r].pc = "done" /\ run'[r].job = k
           /\ \A q \in Run : q # r => run'[q] = run[q]
           /\ Job' = Job
           /\ \A j \in Job : /\ j # k => job'[j] = job[j]
                             /\ job'[j].source = job[j].source /\ job'[j].stage = job[j].stage
           /\ \/ run[r].pc = "return" /\ job'[k].state = "completed"
              \/ /\ run[r].pc = "rethrow"
                 /\ \E new \in {"queued", "failed"} :
                      job'[k].state = new /\ job' = [job EXCEPT ![k].state = new]
<1>0. Types
  BY DEF IInv
<1>1. /\ UNCHANGED <<upload, status, content, expired>> /\ run' = [run EXCEPT ![r] = Ended(r, "done")]
      /\ run[r].pc \in {"return", "rethrow"}
      /\ run[r].pc = "return" => Settle(r, "completed")
      /\ run[r].pc = "rethrow" => Settle(r, "failed")
  BY DEF Return, Rethrow, files
<1>2. job[k].state = "active" /\ job[k].run = r /\ Awaited(r)
  BY <1>1 DEF OneHandler, Awaited, Live
<1>3. /\ Run' = Run /\ run'[r].pc = "done" /\ run'[r].job = k
      /\ \A q \in Run : q # r => run'[q] = run[q]
  BY <1>0, <1>1, EndedRun DEF Types, RunTypes, Run
<1>4. PICK new \in {"completed", "queued", "failed"} :
        /\ job' = [job EXCEPT ![k].state = new]
        /\ new = "completed" <=> run[r].pc = "return"
  BY <1>1, <1>2 DEF Settle, Redeliver
<1>5. /\ Job' = Job /\ job'[k].state = new
      /\ \A j \in Job : /\ j # k => job'[j] = job[j]
                        /\ job'[j].source = job[j].source /\ job'[j].stage = job[j].stage
  BY <1>0, <1>4, JobFields DEF Types, JobTypes, Job, JobRec
<1>. QED
  BY <1>1, <1>2, <1>3, <1>4, <1>5

LEMMA EndingKeepsBook ==
    ASSUME IInv, OneHandler, Book, ~expired, NEW r \in Run, Return(r) \/ Rethrow(r)
    PROVE  Book'
<1>0. Types
  BY DEF IInv
<1>1. PICK k \in Job : run[r].job = k
  BY <1>0, RunFields
<1>2. UNCHANGED <<upload, status, content>>
  BY <1>1, EndingStep
<1>3. job[k].state = "active" /\ job[k].run = r
  BY <1>1, EndingStep
<1>4. /\ Run' = Run /\ run'[r].pc = "done" /\ run'[r].job = k
      /\ \A q \in Run : q # r => run'[q] = run[q]
  BY <1>1, EndingStep
<1>5. /\ Job' = Job
      /\ \A j \in Job : /\ j # k => job'[j] = job[j]
                        /\ job'[j].source = job[j].source /\ job'[j].stage = job[j].stage
      /\ Failed(job[k].source)' \/ (Keeps(k) /\ (Renews(k) => Renews(k)'))
  <2>1. CASE run[r].pc = "return"
    <3>1. Stands(k, {"return"}) /\ ~Ahead(k)
      BY <1>3, <2>1 DEF Stands, Ahead
    <3>2. ~OwesStatus(k) /\ ~OwesExtract(k) /\ ~Renews(k) /\ \A row : ~OwesRow(k, row)
      BY <1>3, <2>1, <3>1 DEF OwesStatus, OwesExtract, OwesRow, Renews, Stands, Reading
    <3>. QED
      BY <1>1, <3>2, EndingStep DEF Keeps
  <2>2. CASE run[r].pc = "rethrow"
    <3>1. PICK new \in {"queued", "failed"} : job' = [job EXCEPT ![k].state = new]
      BY <1>1, <2>2, EndingStep
    <3>2. ~Stands(k, {"return"})
      BY <1>3, <2>2 DEF Stands
    <3>. QED
      BY <1>0, <1>1, <1>3, <3>1, <3>2, RedeliveryKeeps
  <2>. QED
    BY <1>1, <2>1, <2>2, EndingStep
<1>6. \A q \in Run : Src(q)' = Src(q) /\ StageOf(q)' = StageOf(q)
  BY <1>0, <1>1, <1>4, <1>5, RunFields DEF Src, StageOf
<1>7. \A j \in Job : j # k => Keeps(j) /\ (Renews(j) => Renews(j)')
  <2>1. \A j \in Job : j # k /\ job[j].state = "active" => job[j].run \in Run /\ job[j].run # r
    BY <1>1 DEF IInv, Delivered
  <2>. QED
    BY <1>2, <1>4, <1>5, <2>1, SameKeeps DEF Same, content
<1>8. \A q \in Run' : run'[q].pc \in Reading \cup {"advance"} => q \in Run /\ run'[q] = run[q]
  BY <1>4 DEF Reading
<1>. QED
  BY <1>0, <1>1, <1>2, <1>3, <1>4, <1>5, <1>6, <1>7, <1>8, RestStays DEF JobsOf

LEMMA CrashKeepsBook ==
    ASSUME IInv, Book, ~expired, CrashWorker
    PROVE  Book'
<1>1. Types
  BY DEF IInv
<1>2. /\ UNCHANGED <<upload, status, content, job>> /\ Run' = Run /\ Job' = Job
      /\ \A q \in Run : run'[q] = IF run[q].pc \in Live THEN Ended(q, "dead") ELSE run[q]
  BY DEF CrashWorker, files, Run, Job
<1>3. \A q \in Run : /\ run'[q].job = run[q].job /\ run'[q].pc \notin Live
                     /\ run'[q] = run[q] \/ run'[q].pc = "dead"
  BY <1>1, <1>2, EndedRun DEF Live, InTry
<1>4. \A q \in Run : Src(q)' = Src(q) /\ StageOf(q)' = StageOf(q)
  BY <1>2, <1>3 DEF Src, StageOf
<1>5. ASSUME NEW j \in Job
      PROVE  Keeps(j) /\ (Renews(j) => Renews(j)')
  <2>1. CASE job[j].state = "active" /\ run'[job[j].run].pc = "dead"
    <3>1. Idle(j)'
      BY <1>2, <2>1 DEF Idle, Unsettled, Stands, Late, Reading
    <3>2. Renews(j) => Renews(j)'
      BY <1>2, <2>1 DEF Renews, Ahead, Unsettled, Stands
    <3>. QED
      BY <1>2, <3>1, <3>2, IdleKeeps
  <2>2. CASE job[j].state = "active" => run'[job[j].run] = run[job[j].run]
    BY <1>2, <2>2, SameKeeps DEF Same, content
  <2>3. job[j].state = "active" => job[j].run \in Run
    BY DEF IInv, Delivered
  <2>. QED
    BY <1>3, <2>1, <2>2, <2>3
<1>6. \A q \in Run' : run'[q].pc \notin Reading \cup {"advance"}
  BY <1>2, <1>3 DEF Reading, Live, InTry
<1>. QED
  BY <1>2, <1>4, <1>5, <1>6, RestStays DEF JobsOf

LEMMA UploadKeepsBook ==
    ASSUME IInv, Book, ~expired, NEW s \in Source,
           CreateSource(s) \/ StoreFile(s) \/ CreateSourceFile(s) \/ LoseUpload(s)
    PROVE  Book'
<1>1. /\ UNCHANGED <<content, job, run, expired>> /\ Run' = Run /\ Job' = Job
      /\ \A t \in Source : t # s => status'[t] = status[t] /\ upload'[t] = upload[t]
      /\ upload[s] # "sent" /\ upload'[s] # "sent"
  BY DEF CreateSource, StoreFile, CreateSourceFile, LoseUpload, Run, Job, IInv, Types, DataTypes
<1>2. \A t \in Source : JobsOf(t)' = JobsOf(t) /\ Failed(t)' = Failed(t)
  BY <1>1 DEF JobsOf, Failed
<1>3. JobsOf(s) = {}
  BY <1>1 DEF Book, Submitted
<1>4. \A q \in Run : Src(q)' = Src(q) /\ StageOf(q)' = StageOf(q) /\ Extracting(q)' = Extracting(q)
  BY <1>1 DEF Src, StageOf, Extracting
<1>5. \A j \in Job : Keeps(j) /\ (Renews(j) => Renews(j)')
  BY <1>1, SameKeeps DEF Same, content
<1>6. \A t \in Source : \A row \in pages[t] \cup recs[t] : row.by \in Run
  BY DEF IInv, Types, DataTypes, PageRow, RecRow
<1>7. Submitted' /\ RowsAreOwn'
  BY <1>1, <1>2, <1>3, <1>4, <1>6 DEF Book, Submitted, RowsAreOwn, content
<1>8. Written' /\ Renewed'
  <2>1. Written /\ Renewed
    BY DEF Book
  <2>2. Written'
    BY <1>1, <1>4, <2>1, WrittenStays DEF content, Extracting
  <2>3. \A q \in Run : \A j \in JobsOf(Src(q)) : j \in JobsOf(Src(q))' /\ (Renews(j) => Renews(j)')
    BY <1>1, <1>4, <1>5 DEF JobsOf
  <2>4. \A q \in Run : Failed(Src(q)) => Failed(Src(q))'
    BY <1>1, <1>4 DEF Failed, JobsOf
  <2>5. Renewed'
    BY <1>1, <1>4, <2>1, <2>3, <2>4, RenewedStays DEF content
  <2>. QED
    BY <2>2, <2>5
<1>9. Debts'
  <2>1. SUFFICES ASSUME NEW t \in Source, JobsOf(t)' # {} PROVE Failed(t)' \/ Whole(t)'
    BY DEF Debts
  <2>2. t # s /\ (Failed(t) \/ Whole(t))
    BY <1>2, <1>3, <2>1 DEF Book, Debts
  <2>. QED
    BY <1>1, <1>2, <1>5, <2>2, SourceStays DEF content, JobsOf
<1>. QED
  BY <1>7, <1>8, <1>9 DEF Book

\* A job that is added owes all it is to do, and the others what they did.
LEMMA AddedOwes ==
    ASSUME Types, NEW g \in Stage, NEW s \in Source, NEW by, Enqueue(g, s, by),
           NEW n, n = Len(job) + 1
    PROVE  /\ Job' = Job \cup {n} /\ n \notin Job
           /\ \A j \in Job : job'[j] = job[j]
           /\ job'[n].source = s /\ job'[n].stage = g /\ job'[n].state = "queued"
           /\ OwesStatus(n)' /\ \A row : OwesRow(n, row)'
           /\ g # "embed" => OwesExtract(n)' /\ Renews(n)'
<1>1. PICK x : /\ job' = Append(job, x)
               /\ x = [state |-> "queued", stage |-> g, source |-> s, tries |-> 0,
                       run |-> None, by |-> by]
  BY DEF Enqueue
<1>2. /\ Job' = Job \cup {n} /\ n \notin Job /\ job'[n] = x
      /\ \A j \in Job : job'[j] = job[j]
  BY <1>1 DEF Types, JobTypes, Job
<1>3. job'[n].state = "queued" /\ job'[n].stage = g /\ job'[n].source = s
  BY <1>1, <1>2
<1>4. Idle(n)'
  BY <1>3 DEF Idle, Unsettled, Stands
<1>5. OwesStatus(n)' /\ (\A row : OwesRow(n, row)') /\ (g # "embed" => OwesExtract(n)')
  BY <1>3, <1>4, IdleOwes DEF Stage
<1>6. g # "embed" => Renews(n)'
  BY <1>3 DEF Renews, Ahead, Unsettled, Stands, Stage
<1>. QED
  BY <1>2, <1>3, <1>5, <1>6

LEMMA SendingKeepsBook ==
    ASSUME IInv, Book, ~expired, NEW s \in Source, EnqueueParse(s)
    PROVE  Book'
<1>0. PICK n : n = Len(job) + 1
  OBVIOUS
<1>1. Types /\ "parse" \in Stage
  BY DEF IInv, Stage
<1>2. /\ UNCHANGED <<status, content, run, expired>> /\ Run' = Run /\ Enqueue("parse", s, None)
      /\ upload[s] = "file" /\ upload'[s] = "sent"
      /\ \A t \in Source : t # s => upload'[t] = upload[t]
  BY DEF EnqueueParse, Run, IInv, Types, DataTypes
<1>3. /\ Job' = Job \cup {n} /\ n \notin Job /\ \A j \in Job : job'[j] = job[j]
      /\ job'[n].source = s /\ job'[n].state = "queued"
      /\ OwesStatus(n)' /\ OwesExtract(n)' /\ \A row : OwesRow(n, row)'
  BY <1>0, <1>1, <1>2, AddedOwes
<1>4. JobsOf(s) = {} /\ n \in JobsOf(s)' /\ \A t \in Source : t # s => JobsOf(t)' = JobsOf(t)
  BY <1>2, <1>3 DEF Book, Submitted, JobsOf
<1>5. \A j \in Job : Keeps(j) /\ (Renews(j) => Renews(j)')
  BY <1>2, <1>3, SameKeeps DEF Same, content
<1>6. \A q \in Run : /\ run[q].job \in Job /\ Src(q) \in Source
                     /\ Src(q)' = Src(q) /\ StageOf(q)' = StageOf(q)
                     /\ Extracting(q)' = Extracting(q)
  BY <1>1, <1>2, <1>3, RunFields DEF Src, StageOf, Extracting
<1>7. \A t \in Source : \A row \in pages[t] \cup recs[t] : row.by \in Run
  BY DEF IInv, Types, DataTypes, PageRow, RecRow
<1>8. Submitted' /\ RowsAreOwn'
  BY <1>2, <1>4, <1>6, <1>7 DEF Book, Submitted, RowsAreOwn, content
<1>9. Written' /\ Renewed'
  <2>1. Written /\ Renewed
    BY DEF Book
  <2>2. Written'
    BY <1>2, <1>6, <2>1, WrittenStays DEF content, Extracting
  <2>3. \A q \in Run : \A j \in JobsOf(Src(q)) : j \in JobsOf(Src(q))' /\ (Renews(j) => Renews(j)')
    BY <1>3, <1>5, <1>6 DEF JobsOf
  <2>4. \A q \in Run : Failed(Src(q)) => Failed(Src(q))'
    BY <1>3, <1>6 DEF Failed, JobsOf
  <2>5. Renewed'
    BY <1>2, <1>6, <2>1, <2>3, <2>4, RenewedStays DEF content
  <2>. QED
    BY <2>2, <2>5
<1>10. Debts'
  <2>1. SUFFICES ASSUME NEW t \in Source, JobsOf(t)' # {} PROVE Failed(t)' \/ Whole(t)'
    BY DEF Debts
  <2>2. CASE t = s
    BY <1>3, <1>4, <2>2 DEF Whole, StatusDue, RowsDue, ExtractDue
  <2>3. CASE t # s
    <3>1. Failed(t) \/ Whole(t)
      BY <1>4, <2>1, <2>3 DEF Book, Debts
    <3>2. Failed(t) => Failed(t)'
      BY <1>3 DEF Failed, JobsOf
    <3>. QED
      BY <1>2, <1>5, <3>1, <3>2, SourceStays DEF content, JobsOf
  <2>. QED
    BY <2>2, <2>3
<1>. QED
  BY <1>8, <1>9, <1>10 DEF Book

-------------------------------------------------------------------------------
(* A handler's step and the source it is at work on. *)

\* The job whose delivery takes the step.
LEMMA OwnJob ==
    ASSUME IInv, OneHandler, ~expired, NEW r \in Run, run[r].pc \in Live
    PROVE  /\ run[r].job \in JobsOf(Src(r))
           /\ job[run[r].job].state = "active" /\ job[run[r].job].run = r
           /\ \A j \in Job : j # run[r].job /\ job[j].state = "active" =>
                job[j].run \in Run /\ job[j].run # r
<1>1. run[r].job \in Job
  BY RunFields DEF IInv
<1>. QED
  BY <1>1 DEF OneHandler, Awaited, IInv, Delivered, JobsOf, Src

\* What it inserts is its own; what it deletes or replaces is the source's.
LEMMA ActsWrite ==
    ASSUME IInv, OneParse, Book, ~expired, NEW r \in Run, Acts(r)
    PROVE  /\ \A row \in pages'[Src(r)] \cup recs'[Src(r)] : row \in pages[Src(r)] \cup recs[Src(r)] \/ row.by = r
           /\ \A row : row \in vec /\ row \notin pages[Src(r)] \cup recs[Src(r)] => row \in vec'
           /\ pages' = pages \/ ParseCommit(r)
           /\ canonical' = canonical \/ ParseCommit(r)
           /\ (meta' = meta /\ tags' = tags /\ recs' = recs) \/ ExtractStep(r)
<1>. DEFINE s == Src(r)
<1>1. s \in Source /\ pages \in [Source -> SUBSET PageRow] /\ recs \in [Source -> SUBSET RecRow]
  BY RunFields DEF IInv, Types, DataTypes
<1>2. CASE ParseCommit(r)
  <2>1. run[r].seen = pages[s]
    BY <1>2 DEF ParseCommit, OneParse
  <2>2. PICK found \in ParseResults :
            pages' = [pages EXCEPT ![s] = (@ \ run[r].seen) \cup [by: {r}, no: found]]
    BY <1>2 DEF ParseCommit
  <2>3. pages'[s] = (pages[s] \ run[r].seen) \cup [by: {r}, no: found]
    BY <1>1, <2>2
  <2>4. meta' = meta /\ tags' = tags /\ recs' = recs /\ vec' = vec \ run[r].seen
    BY <1>2 DEF ParseCommit
  <2>. QED
    BY <1>2, <2>1, <2>3, <2>4
<1>3. CASE ExtractCommit(r)
  <2>1. run[r].seen = recs[s] /\ pages' = pages /\ canonical' = canonical
    BY <1>3 DEF ExtractCommit, Book, Written, Extracting, Live, InTry, At
  <2>2. \/ recs' = recs /\ vec' = vec
        \/ \E found \in ExtractResults :
             /\ recs' = [recs EXCEPT ![s] = (recs[s] \ run[r].seen) \cup
                                              [by: {r}, slug: found, from: {run[r].read}]]
             /\ vec' = vec \ run[r].seen
    BY <1>3 DEF ExtractCommit
  <2>3. CASE recs' = recs /\ vec' = vec
    BY <1>3, <2>1, <2>3 DEF ExtractStep
  <2>4. ASSUME NEW found \in ExtractResults,
               recs' = [recs EXCEPT ![s] = (recs[s] \ run[r].seen) \cup
                                             [by: {r}, slug: found, from: {run[r].read}]],
               vec' = vec \ run[r].seen
        PROVE  /\ \A row \in recs'[s] : row \in recs[s] \/ row.by = r
               /\ \A row : row \in vec /\ row \notin recs[s] => row \in vec'
    <3>1. recs'[s] = (recs[s] \ run[r].seen) \cup [by: {r}, slug: found, from: {run[r].read}]
      BY <1>1, <2>4
    <3>. QED
      BY <2>1, <2>4, <3>1
  <2>. QED
    BY <1>3, <2>1, <2>2, <2>3, <2>4 DEF ExtractStep
<1>4. CASE EmbedBatch(r)
  BY <1>4 DEF EmbedBatch
<1>5. CASE ExtractStep(r) /\ ~ExtractCommit(r)
  BY <1>5 DEF ExtractStep, ExtractRead, ExtractReadPages, ExtractDescribe, ExtractTag,
     ExtractClear, ExtractAdvance, content
<1>6. CASE ~ParseCommit(r) /\ ~ExtractStep(r) /\ ~EmbedBatch(r)
  <2>1. UNCHANGED content
    BY <1>6 DEF Acts, ParseStep, EmbedStep, ParseBegin, ParseClear, EmbedSelectRecs, EmbedSelectPages,
       EmbedReady, FailureGoes, StartThrows, Throw, MarkFailed, RecordFailure, StartAttempt,
       SucceedAttempt, HandOff, HandOffUnacknowledged
  <2>. QED
    BY <2>1 DEF content
<1>. QED
  BY <1>2, <1>3, <1>4, <1>5, <1>6

\* The other jobs go on owing what they owed, unless their text is replaced.
LEMMA OthersKeep ==
    ASSUME IInv, OneHandler, OneParse, Book, ~expired, NEW r \in Run, Acts(r),
           NEW j \in Job, j # run[r].job, job[j].source # Src(r) \/ ~ParseCommit(r)
    PROVE  Keeps(j) /\ (Renews(j) => Renews(j)')
<1>1. /\ j \in Job' /\ job'[j] = job[j]
      /\ \A q \in Run : q # r => run'[q] = run[q]
      /\ run[r].pc \in Live /\ job[j].source \in Source
      /\ job[j].source # Src(r) => /\ pages'[job[j].source] = pages[job[j].source]
                                   /\ canonical'[job[j].source] = canonical[job[j].source]
  BY ActsLocally, JobFields DEF IInv
<1>2. job[j].state = "active" => job[j].run \in Run /\ job[j].run # r
  BY <1>1, OwnJob
<1>3. ~ParseCommit(r) => pages' = pages /\ canonical' = canonical
  BY ActsWrite
<1>. QED
  BY <1>1, <1>2, <1>3, SameKeeps DEF Same

\* A source the handler has nothing to do with stays as it is.
LEMMA ElsewhereStays ==
    ASSUME IInv, OneHandler, OneParse, Book, ~expired, NEW r \in Run, Acts(r),
           NEW t \in Source, t # Src(r)
    PROVE  /\ JobsOf(t)' = JobsOf(t)
           /\ JobsOf(t) # {} => Failed(t)' \/ Whole(t)'
<1>1. /\ Job \subseteq Job' /\ \A k \in Job : job'[k] = job[k]
      /\ status'[t] = status[t] /\ canonical'[t] = canonical[t] /\ pages'[t] = pages[t]
      /\ meta'[t] = meta[t] /\ tags'[t] = tags[t] /\ recs'[t] = recs[t]
      /\ job' = job \/ HandOff(r) \/ HandOffUnacknowledged(r)
      /\ run[r].pc \in Live
  BY ActsLocally
<1>2. JobsOf(t)' = JobsOf(t)
  <2>1. CASE job' = job
    BY <2>1 DEF JobsOf, Job
  <2>2. CASE HandOff(r) \/ HandOffUnacknowledged(r)
    <3>1. Successor[StageOf(r)] \in Stage /\ Src(r) \in Source /\ Enqueue(Successor[StageOf(r)], Src(r), r)
      BY <2>2, StandsIn, RunFields DEF HandOff, HandOffUnacknowledged, IInv, PlacesOf, Successor, Stage
    <3>2. PICK n : n = Len(job) + 1
      OBVIOUS
    <3>3. Job' = Job \cup {n} /\ job'[n].source = Src(r)
      BY <3>1, <3>2, AddedOwes DEF IInv
    <3>. QED
      BY <1>1, <3>3 DEF JobsOf
  <2>. QED
    BY <1>1, <2>1, <2>2
<1>3. \A j \in JobsOf(t) : Keeps(j)
  <2>1. run[r].job \notin JobsOf(t)
    BY DEF JobsOf, Src
  <2>. QED
    BY <2>1, OthersKeep DEF JobsOf
<1>4. \A row \in pages[t] \cup recs[t] : row \in vec => row \in vec'
  <2>1. \A row \in pages[t] \cup recs[t] : Src(row.by) = t
    BY DEF Book, RowsAreOwn
  <2>2. Src(r) \in Source
    BY RunFields DEF IInv
  <2>3. \A row \in pages[t] \cup recs[t] : row \notin pages[Src(r)] \cup recs[Src(r)]
    BY <2>1, <2>2 DEF Book, RowsAreOwn
  <2>. QED
    BY <2>3, ActsWrite
<1>5. Failed(t) => Failed(t)'
  BY <1>1, <1>2 DEF Failed, JobsOf
<1>6. JobsOf(t) # {} => Failed(t) \/ Whole(t)
  BY DEF Book, Debts
<1>. QED
  BY <1>1, <1>2, <1>3, <1>4, <1>5, <1>6, SourceStays

\* Where the handler stands after the step, its job stands.
LEMMA OwnStands ==
    ASSUME IInv, OneHandler, ~expired, NEW r \in Run, Acts(r), NEW k, k = run[r].job
    PROVE  /\ k \in JobsOf(Src(r))' /\ job'[k] = job[k] /\ job[k].state = "active" /\ job[k].run = r
           /\ job[k].stage = StageOf(r) /\ job[k].source = Src(r)
           /\ Unsettled(k)'
           /\ \A places : Stands(k, places)' <=> run'[r].pc \in places
           /\ \A j \in JobsOf(Src(r)) : j \in JobsOf(Src(r))' /\ job'[j] = job[j]
           /\ Failed(Src(r)) => Failed(Src(r))'
<1>1. /\ run[r].pc \in Live /\ Job \subseteq Job' /\ \A j \in Job : job'[j] = job[j]
  BY ActsLocally
<1>2. /\ k \in JobsOf(Src(r)) /\ job[k].state = "active" /\ job[k].run = r
  BY <1>1, OwnJob
<1>3. \A j \in JobsOf(Src(r)) : j \in JobsOf(Src(r))' /\ job'[j] = job[j]
  <2>1. Src(r)' = Src(r)
    BY ActsLocally
  <2>. QED
    BY <1>1, <2>1 DEF JobsOf
<1>4. Failed(Src(r)) => Failed(Src(r))'
  BY <1>3 DEF Failed
<1>5. job[k].stage = StageOf(r) /\ job[k].source = Src(r)
  BY DEF StageOf, Src
<1>. QED
  BY <1>2, <1>3, <1>4, <1>5 DEF Unsettled, Stands

\* Until it has handed off, a parse or extraction owes what comes after it.
LEMMA AheadOwes ==
    ASSUME IInv, OneHandler, ~expired, NEW r \in Run, Acts(r), NEW s \in Source, s = Src(r),
           StageOf(r) # "embed", run'[r].pc # "return"
    PROVE  /\ StatusDue(s)' /\ RowsDue(s)'
           /\ StageOf(r) = "parse" => ExtractDue(s)' /\ \E j \in JobsOf(s)' : Renews(j)'
<1>1. PICK k : k = run[r].job
  OBVIOUS
<1>2. Src(r)' = s
  BY ActsLocally
<1>3. k \in JobsOf(s)' /\ job'[k].stage = StageOf(r) /\ Ahead(k)'
  BY <1>1, <1>2, OwnStands DEF Ahead
<1>4. OwesStatus(k)' /\ \A row : OwesRow(k, row)'
  BY <1>3 DEF OwesStatus, OwesRow
<1>5. StageOf(r) = "parse" => OwesExtract(k)' /\ Renews(k)'
  BY <1>3 DEF OwesExtract, Renews
<1>. QED
  BY <1>3, <1>4, <1>5 DEF StatusDue, RowsDue, ExtractDue

\* When it has, the job it enqueued does.
LEMMA HandedOffOwes ==
    ASSUME IInv, OneHandler, ~expired, NEW r \in Run, HandOff(r), NEW s \in Source, s = Src(r)
    PROVE  /\ StatusDue(s)' /\ RowsDue(s)'
           /\ StageOf(r) = "parse" => ExtractDue(s)' /\ \E j \in JobsOf(s)' : Renews(j)'
<1>1. Successor[StageOf(r)] \in Stage /\ Enqueue(Successor[StageOf(r)], s, r)
  BY StandsIn, RunFields DEF HandOff, IInv, PlacesOf, Successor, Stage
<1>2. PICK n : n = Len(job) + 1
  OBVIOUS
<1>3. /\ n \in Job' /\ job'[n].source = s
      /\ OwesStatus(n)' /\ \A row : OwesRow(n, row)'
      /\ Successor[StageOf(r)] # "embed" => OwesExtract(n)' /\ Renews(n)'
  BY <1>1, <1>2, AddedOwes DEF IInv
<1>4. n \in JobsOf(s)'
  BY <1>3 DEF JobsOf
<1>5. StageOf(r) = "parse" => Successor[StageOf(r)] # "embed"
  BY DEF Successor
<1>. QED
  BY <1>3, <1>4, <1>5 DEF StatusDue, RowsDue, ExtractDue

\* An extraction that reads a text since replaced knows who is to extract the new one.
LEMMA LateText ==
    ASSUME IInv, OneHandler, OneParse, Book, ~expired, NEW r \in Run, Acts(r), NEW s \in Source, s = Src(r),
           Extracting(r), run[r].pc \in Reading, run[r].read # {canonical[s]}
    PROVE  Failed(s)' \/ \E j \in JobsOf(s)' : Renews(j)' /\ OwesExtract(j)'
<1>1. PICK k : k = run[r].job
  OBVIOUS
<1>2. /\ job[k].state = "active" /\ job[k].stage = "extract"
      /\ \A j \in JobsOf(s) : j \in JobsOf(s)' /\ (Failed(s) => Failed(s)')
  <2>1. Src(r)' = s
    BY ActsLocally
  <2>. QED
    BY <1>1, <2>1, OwnStands DEF Extracting
<1>3. JobsOf(s) # {}
  BY <1>1, OwnJob DEF Extracting
<1>4. ~Renews(k)
  BY <1>2 DEF Renews
<1>5. Failed(s) \/ \E j \in JobsOf(s) : Renews(j)
  BY DEF Book, Renewed
<1>6. ~ParseCommit(r)
  BY DEF ParseCommit, At, Extracting
<1>7. ASSUME NEW j \in JobsOf(s), Renews(j)
      PROVE  j \in JobsOf(s)' /\ Renews(j)' /\ OwesExtract(j)'
  <2>1. j # k /\ j \in Job
    BY <1>4, <1>7 DEF JobsOf
  <2>2. Renews(j)'
    BY <1>1, <1>6, <1>7, <2>1, OthersKeep
  <2>3. Renews(j)' => OwesExtract(j)'
    BY DEF Renews, OwesExtract, Unsettled, Stands
  <2>. QED
    BY <1>2, <1>7, <2>2, <2>3
<1>. QED
  BY <1>2, <1>3, <1>5, <1>7

\* The steps of an extraction: what it reads, what it has written, what it leaves alone.
LEMMA ExtractMoves ==
    ASSUME IInv, OneParse, Book, ~expired, NEW r \in Run, Acts(r), NEW s \in Source, s = Src(r), Extracting(r)
    PROVE  /\ UNCHANGED <<canonical, pages>>
           /\ run'[r].pc \in Reading =>
                \/ run'[r].read = {canonical[s]}
                \/ run[r].pc \in Reading /\ run[r].read # {canonical[s]}
           /\ run'[r].pc \in {"tag", "clear", "write", "advance"} => meta'[s] = r
           /\ run'[r].pc \in {"clear", "write", "advance"} => tags'[s] = r
           /\ run'[r].pc = "write" => run'[r].seen = recs'[s]
           /\ run'[r].pc = "advance" =>
                /\ run[r].pc = "write"
                /\ \A row \in recs'[s] : row.by = r /\ row.from = run[r].read
           /\ run'[r].pc \in {"succeed", "handoff", "return"} =>
                /\ run[r].pc \in {"advance", "succeed", "handoff"} /\ UNCHANGED content
<1>1. /\ run[r] \in RunRec /\ run \in Seq(RunRec) /\ StageOf(r) = "extract"
      /\ meta \in [Source -> Run \cup {None}] /\ tags \in [Source -> Run \cup {None}]
      /\ recs \in [Source -> SUBSET RecRow]
  BY RunFields DEF IInv, Types, RunTypes, DataTypes, Extracting
<1>2. /\ run[r].pc \in {"tag", "clear", "write", "advance"} => meta[s] = r
      /\ run[r].pc \in {"clear", "write", "advance"} => tags[s] = r
      /\ run[r].pc = "write" => run[r].seen = recs[s]
  BY DEF Book, Written
<1>3. CASE ExtractRead(r)
  <2>1. run'[r] = [run[r] EXCEPT !.pc = "readPages", !.read = {canonical[s]}] /\ UNCHANGED content
    BY <1>1, <1>3 DEF ExtractRead, Run
  <2>. QED
    BY <1>1, <2>1 DEF RunRec, content
<1>4. CASE ExtractReadPages(r)
  <2>1. run[r].pc = "readPages" /\ UNCHANGED content
    BY <1>4 DEF ExtractReadPages, At
  <2>2. run'[r] = [run[r] EXCEPT !.pc = "describe", !.read = run[r].read \cup {p.by : p \in pages[s]}]
    BY <1>1, <1>4 DEF ExtractReadPages, Run
  <2>3. run'[r].pc = "describe" /\ run'[r].read = run[r].read \cup {p.by : p \in pages[s]}
    BY <1>1, <2>2 DEF RunRec
  <2>4. \A p \in pages[s] : p.by = canonical[s]
    BY DEF OneParse
  <2>5. run[r].read = {canonical[s]} => run'[r].read = {canonical[s]}
    BY <2>3, <2>4
  <2>. QED
    BY <2>1, <2>3, <2>5 DEF content, Reading
<1>5. CASE ExtractDescribe(r)
  <2>1. run[r].pc = "describe" /\ run'[r] = [run[r] EXCEPT !.pc = "tag"] /\ meta'[s] = r
        /\ UNCHANGED <<canonical, pages>>
    BY <1>1, <1>5 DEF ExtractDescribe, Goto, Run, At
  <2>. QED
    BY <1>1, <2>1 DEF RunRec, Reading
<1>6. CASE ExtractTag(r)
  <2>1. run[r].pc = "tag" /\ run'[r] = [run[r] EXCEPT !.pc = "clear"] /\ tags'[s] = r /\ meta' = meta
        /\ UNCHANGED <<canonical, pages>>
    BY <1>1, <1>6 DEF ExtractTag, Goto, Run, At
  <2>. QED
    BY <1>1, <1>2, <2>1 DEF RunRec, Reading
<1>7. CASE ExtractClear(r)
  <2>1. run[r].pc = "clear" /\ run'[r] = [run[r] EXCEPT !.pc = "write", !.seen = recs[s]]
        /\ UNCHANGED content
    BY <1>1, <1>7 DEF ExtractClear, Run, At
  <2>. QED
    BY <1>1, <1>2, <2>1 DEF RunRec, Reading, content
<1>8. CASE ExtractCommit(r)
  <2>1. run[r].pc = "write" /\ UNCHANGED <<canonical, pages, meta, tags>>
    BY <1>8 DEF ExtractCommit, At
  <2>2. PICK found \in ExtractResults :
          \/ Goto(r, "catch")
          \/ /\ recs' = [recs EXCEPT ![s] = (recs[s] \ run[r].seen) \cup
                                              [by: {r}, slug: found, from: {run[r].read}]]
             /\ Goto(r, "advance")
    BY <1>8 DEF ExtractCommit
  <2>3. CASE Goto(r, "catch")
    <3>1. run'[r].pc = "catch"
      BY <1>1, <2>3 DEF Goto, Run, RunRec
    <3>. QED
      BY <2>1, <3>1 DEF Reading
  <2>4. CASE recs' = [recs EXCEPT ![s] = (recs[s] \ run[r].seen) \cup
                                           [by: {r}, slug: found, from: {run[r].read}]]
             /\ Goto(r, "advance")
    <3>1. run'[r].pc = "advance"
      BY <1>1, <2>4 DEF Goto, Run, RunRec
    <3>2. recs'[s] = [by: {r}, slug: found, from: {run[r].read}]
      BY <1>1, <1>2, <2>1, <2>4
    <3>3. \A row \in recs'[s] : row.by = r /\ row.from = run[r].read
      BY <3>2
    <3>. QED
      BY <1>2, <2>1, <3>1, <3>3 DEF Reading
  <2>. QED
    BY <2>2, <2>3, <2>4
<1>9. CASE ExtractAdvance(r)
  <2>1. run[r].pc = "advance" /\ run'[r] = [run[r] EXCEPT !.pc = "succeed"] /\ UNCHANGED content
    BY <1>1, <1>9 DEF ExtractAdvance, Goto, Run, At
  <2>. QED
    BY <1>1, <2>1 DEF RunRec, Reading, content
<1>10. CASE ~ExtractStep(r)
  <2>1. ~ParseStep(r) /\ ~EmbedStep(r)
    BY <1>1 DEF ParseStep, ParseBegin, ParseClear, ParseCommit, EmbedStep, EmbedSelectRecs,
       EmbedSelectPages, EmbedBatch, EmbedReady, At
  <2>2. CASE StartAttempt(r)
    <3>1. /\ \E n : run' = [run EXCEPT ![r].pc = FirstPlace["extract"], ![r].attempt = n]
          /\ UNCHANGED content
      BY <1>1, <2>2 DEF StartAttempt
    <3>2. run'[r].pc = "read"
      BY <1>1, <3>1 DEF FirstPlace, Run, RunRec
    <3>. QED
      BY <3>1, <3>2 DEF content, Reading
  <2>3. CASE FailureGoes(r) \/ RecordFailure(r) \/ HandOffUnacknowledged(r)
    <3>1. PICK place \in {"rethrow", "catch", "markFailed"} : Goto(r, place) /\ UNCHANGED content
      BY <2>3 DEF FailureGoes, StartThrows, Throw, MarkFailed, RecordFailure, HandOffUnacknowledged
    <3>2. run'[r].pc = place
      BY <1>1, <3>1 DEF Goto, Run, RunRec
    <3>. QED
      BY <3>1, <3>2 DEF content, Reading
  <2>4. CASE SucceedAttempt(r)
    <3>1. run[r].pc = "succeed" /\ Goto(r, "handoff") /\ UNCHANGED content
      BY <1>1, <2>4 DEF SucceedAttempt
    <3>2. run'[r].pc = "handoff"
      BY <1>1, <3>1 DEF Goto, Run, RunRec
    <3>. QED
      BY <3>1, <3>2 DEF content, Reading
  <2>5. CASE HandOff(r)
    <3>1. run[r].pc = "handoff" /\ Goto(r, "return") /\ UNCHANGED content
      BY <2>5 DEF HandOff
    <3>2. run'[r].pc = "return"
      BY <1>1, <3>1 DEF Goto, Run, RunRec
    <3>. QED
      BY <3>1, <3>2 DEF content, Reading
  <2>. QED
    BY <1>10, <2>1, <2>2, <2>3, <2>4, <2>5 DEF Acts
<1>. QED
  BY <1>3, <1>4, <1>5, <1>6, <1>7, <1>8, <1>9, <1>10 DEF ExtractStep

\* A step of an extraction leaves its source with an extraction of the present text, or
\* with one to come.
LEMMA ExtractOwes ==
    ASSUME IInv, OneHandler, OneParse, Book, ~expired, NEW r \in Run, Acts(r), NEW s \in Source, s = Src(r),
           StageOf(r) = "extract", Whole(s)
    PROVE  Failed(s)' \/ ExtractDue(s)'
<1>1. PICK k : k = run[r].job
  OBVIOUS
<1>2. Extracting(r) /\ Src(r)' = s
  BY ActsLocally DEF Extracting
<1>3. /\ k \in JobsOf(s)' /\ job'[k] = job[k] /\ job[k].state = "active" /\ job[k].run = r
      /\ job[k].stage = "extract" /\ job[k].source = s /\ Unsettled(k)'
      /\ \A places : Stands(k, places)' <=> run'[r].pc \in places
      /\ \A j \in JobsOf(s) : j \in JobsOf(s)'
  BY <1>1, <1>2, OwnStands
<1>4. canonical' = canonical /\ pages' = pages
  BY <1>2, ExtractMoves
<1>5. CASE run'[r].pc \notin Reading \cup {"advance", "succeed", "handoff", "return"}
  BY <1>3, <1>5 DEF ExtractDue, OwesExtract
<1>6. CASE run'[r].pc \in Reading
  <2>1. CASE run'[r].read = {canonical[s]}
    <3>1. Stands(k, Reading)' /\ run'[job'[k].run].read = {canonical'[job'[k].source]}
      BY <1>3, <1>4, <1>6, <2>1
    <3>. QED
      BY <1>3, <3>1 DEF ExtractDue, OwesExtract
  <2>2. CASE run[r].pc \in Reading /\ run[r].read # {canonical[s]}
    BY <1>2, <2>2, LateText DEF ExtractDue
  <2>. QED
    BY <1>2, <1>6, <2>1, <2>2, ExtractMoves
<1>7. CASE run'[r].pc = "advance"
  <2>1. /\ run[r].pc = "write" /\ meta'[s] = r /\ tags'[s] = r
        /\ \A row \in recs'[s] : row.by = r /\ row.from = run[r].read
    BY <1>2, <1>7, ExtractMoves
  <2>2. CASE run[r].read = {canonical[s]}
    BY <1>4, <2>1, <2>2 DEF ExtractDue, Coherent
  <2>3. CASE run[r].read # {canonical[s]}
    BY <1>2, <2>1, <2>3, LateText DEF ExtractDue, Reading
  <2>. QED
    BY <2>2, <2>3
<1>8. CASE run'[r].pc \in {"succeed", "handoff", "return"}
  <2>1. run[r].pc \in {"advance", "succeed", "handoff"} /\ UNCHANGED content
    BY <1>2, <1>8, ExtractMoves
  <2>2. ~OwesExtract(k)
    BY <1>3, <2>1 DEF OwesExtract, Ahead, Stands, Reading
  <2>3. CASE Coherent(s)
    BY <2>1, <2>3 DEF ExtractDue, Coherent, content
  <2>4. ASSUME NEW j \in JobsOf(s), OwesExtract(j) PROVE OwesExtract(j)'
    <3>1. ~ParseCommit(r)
      BY DEF ParseCommit, At
    <3>2. j \in Job /\ j # k
      BY <2>2, <2>4 DEF JobsOf
    <3>. QED
      BY <1>1, <2>4, <3>1, <3>2, OthersKeep DEF Keeps
  <2>. QED
    BY <1>3, <2>3, <2>4 DEF Whole, ExtractDue
<1>. QED
  BY <1>5, <1>6, <1>7, <1>8

\* The steps of an embedding that go past its first query.
LEMMA EmbedMoves ==
    ASSUME IInv, NEW r \in Run, Acts(r), StageOf(r) = "embed", NEW s \in Source, s = Src(r)
    PROVE  \/ run'[r].pc \notin {"selectPages", "embed", "succeed", "return"}
           \/ run'[r].pc = "selectPages" /\ run'[r].todo = recs[s] \ vec /\ vec' = vec
           \/ /\ run[r].pc = "selectPages" /\ run'[r].pc = "embed"
              /\ run'[r].todo = run[r].todo \cup (pages[s] \ vec) /\ vec' = vec
           \/ /\ run[r].pc = "embed" /\ run'[r].pc = "embed"
              /\ \E batch : /\ vec' = vec \cup (batch \cap (recs[s] \cup pages[s]))
                            /\ run'[r].todo = run[r].todo \ batch
           \/ /\ run[r].pc = "embed" /\ run[r].todo = {} /\ run'[r].pc = "succeed"
              /\ status'[s] = "ready" /\ vec' = vec
           \/ run[r].pc = "succeed" /\ run'[r].pc = "return" /\ status' = status /\ vec' = vec
<1>1. /\ run[r] \in RunRec /\ run \in Seq(RunRec) /\ run[r].pc \in PlacesOf("embed")
      /\ status \in [Source -> SourceStatus \cup {"absent"}]
  BY RunFields, StandsIn DEF IInv, Types, RunTypes, DataTypes
<1>2. CASE EmbedSelectRecs(r)
  <2>1. run'[r] = [run[r] EXCEPT !.pc = "selectPages", !.todo = recs[s] \ vec] /\ vec' = vec
    BY <1>1, <1>2 DEF EmbedSelectRecs, Run, content
  <2>. QED
    BY <1>1, <2>1 DEF RunRec
<1>3. CASE EmbedSelectPages(r)
  <2>1. /\ run'[r] = [run[r] EXCEPT !.pc = "embed", !.todo = run[r].todo \cup (pages[s] \ vec)]
        /\ run[r].pc = "selectPages" /\ vec' = vec
    BY <1>1, <1>3 DEF EmbedSelectPages, Run, content, At
  <2>. QED
    BY <1>1, <2>1 DEF RunRec
<1>4. CASE EmbedBatch(r)
  <2>1. PICK batch : /\ vec' = vec \cup (batch \cap (recs[s] \cup pages[s]))
                     /\ run' = [run EXCEPT ![r].todo = @ \ batch]
    BY <1>4 DEF EmbedBatch
  <2>2. run[r].pc = "embed" /\ run'[r] = [run[r] EXCEPT !.todo = run[r].todo \ batch]
    BY <1>1, <1>4, <2>1 DEF EmbedBatch, Run, At
  <2>3. run'[r].pc = "embed" /\ run'[r].todo = run[r].todo \ batch
    BY <1>1, <2>2 DEF RunRec
  <2>. QED
    BY <2>1, <2>2, <2>3
<1>5. CASE EmbedReady(r)
  <2>1. /\ run[r].pc = "embed" /\ run[r].todo = {} /\ run'[r] = [run[r] EXCEPT !.pc = "succeed"]
        /\ status'[s] = "ready" /\ vec' = vec
    BY <1>1, <1>5 DEF EmbedReady, Goto, Run, At, PhaseAfter, content
  <2>. QED
    BY <1>1, <2>1 DEF RunRec
<1>6. CASE SucceedAttempt(r)
  <2>1. /\ run[r].pc = "succeed" /\ run'[r] = [run[r] EXCEPT !.pc = "return"]
        /\ status' = status /\ vec' = vec
    BY <1>1, <1>6 DEF SucceedAttempt, Goto, Run, content
  <2>. QED
    BY <1>1, <2>1 DEF RunRec
<1>7. CASE StartAttempt(r)
  <2>1. \E n : run' = [run EXCEPT ![r].pc = FirstPlace["embed"], ![r].attempt = n]
    BY <1>7 DEF StartAttempt
  <2>2. run'[r].pc = "selectRecs"
    BY <1>1, <2>1 DEF FirstPlace, Run, RunRec
  <2>. QED
    BY <2>2
<1>8. CASE FailureGoes(r) \/ RecordFailure(r)
  <2>1. PICK place \in {"rethrow", "catch", "markFailed"} : Goto(r, place)
    BY <1>8 DEF FailureGoes, StartThrows, Throw, MarkFailed, RecordFailure
  <2>2. run'[r].pc = place
    BY <1>1, <2>1 DEF Goto, Run, RunRec
  <2>. QED
    BY <2>2
<1>9. ~ParseStep(r) /\ ~ExtractStep(r) /\ ~HandOff(r) /\ ~HandOffUnacknowledged(r)
  BY <1>1 DEF ParseStep, ParseBegin, ParseClear, ParseCommit, ExtractStep, ExtractRead, ExtractReadPages,
     ExtractDescribe, ExtractTag, ExtractClear, ExtractCommit, ExtractAdvance, At, HandOff,
     HandOffUnacknowledged, PlacesOf
<1>. QED
  BY <1>2, <1>3, <1>4, <1>5, <1>6, <1>7, <1>8, <1>9 DEF Acts, EmbedStep

\* A step of an embedding leaves its source whole, or with who is to make it so.
LEMMA EmbedOwes ==
    ASSUME IInv, OneHandler, OneParse, Book, ~expired, NEW r \in Run, Acts(r), NEW s \in Source, s = Src(r),
           StageOf(r) = "embed", Whole(s)
    PROVE  Whole(s)'
<1>1. PICK k : k = run[r].job
  OBVIOUS
<1>2. /\ k \in JobsOf(s)' /\ job'[k] = job[k] /\ job[k].state = "active" /\ job[k].run = r
      /\ job[k].stage = "embed" /\ job[k].source = s /\ Unsettled(k)'
      /\ \A places : Stands(k, places)' <=> run'[r].pc \in places
      /\ \A j \in JobsOf(s) : j \in JobsOf(s)'
  <2>1. Src(r)' = s
    BY ActsLocally
  <2>. QED
    BY <1>1, <2>1, OwnStands
<1>3. ~ParseCommit(r) /\ ~ExtractStep(r)
  BY DEF ParseCommit, ExtractStep, ExtractRead, ExtractReadPages, ExtractDescribe, ExtractTag, ExtractClear,
     ExtractCommit, ExtractAdvance, At
<1>4. pages' = pages /\ recs' = recs /\ canonical' = canonical /\ meta' = meta /\ tags' = tags
  BY <1>3, ActsWrite
<1>5. \A j \in JobsOf(s) : j # k => Keeps(j)
  BY <1>1, <1>3, OthersKeep DEF JobsOf
<1>6. ExtractDue(s)'
  <2>1. ~OwesExtract(k)
    BY <1>2 DEF OwesExtract
  <2>2. CASE Coherent(s)
    BY <1>4, <2>2 DEF ExtractDue, Coherent
  <2>3. CASE \E j \in JobsOf(s) : OwesExtract(j)
    BY <1>2, <1>5, <2>1, <2>3 DEF ExtractDue, Keeps
  <2>. QED
    BY <2>2, <2>3 DEF Whole, ExtractDue
<1>7. StatusDue(s)'
  <2>1. CASE run'[r].pc \notin {"succeed", "return"}
    BY <1>2, <2>1 DEF StatusDue, OwesStatus
  <2>2. CASE run[r].pc = "succeed" /\ status' = status
    <3>1. ~OwesStatus(k)
      BY <1>2, <2>2 DEF OwesStatus, Ahead, Stands
    <3>. QED
      BY <1>2, <1>5, <2>2, <3>1 DEF StatusDue, Whole, Keeps
  <2>. QED
    BY <2>1, <2>2, EmbedMoves DEF StatusDue
<1>8. RowsDue(s)'
  <2>1. SUFFICES ASSUME NEW row \in pages[s] \cup recs[s]
                 PROVE  row \in vec' \/ OwesRow(k, row)' \/ \E j \in JobsOf(s)' : OwesRow(j, row)'
    BY <1>2, <1>4 DEF RowsDue
  <2>2. row \in vec \/ OwesRow(k, row) \/ \E j \in JobsOf(s)' : OwesRow(j, row)'
    BY <1>2, <1>5 DEF Whole, RowsDue, Keeps
  <2>3. run'[r].pc \notin {"selectPages", "embed", "succeed", "return"} => OwesRow(k, row)'
    BY <1>2 DEF OwesRow
  <2>4. /\ run'[r].pc \in {"selectPages", "embed"} /\ row \in run'[r].todo => OwesRow(k, row)'
        /\ run'[r].pc = "selectPages" /\ row \in pages[s] => OwesRow(k, row)'
    BY <1>2, <1>4 DEF OwesRow
  <2>5. /\ OwesRow(k, row) /\ run[r].pc = "selectPages" => row \in run[r].todo \cup pages[s]
        /\ OwesRow(k, row) /\ run[r].pc = "embed" => row \in run[r].todo
        /\ run[r].pc = "succeed" => ~OwesRow(k, row)
    BY <1>2 DEF OwesRow, Ahead, Stands
  <2>. QED
    BY <2>2, <2>3, <2>4, <2>5, EmbedMoves
<1>. QED
  BY <1>6, <1>7, <1>8 DEF Whole

\* A parse or an extraction gets to its end by handing off.
LEMMA ReturnsByHandOff ==
    ASSUME IInv, NEW r \in Run, Acts(r), StageOf(r) # "embed", run'[r].pc = "return"
    PROVE  HandOff(r)
<1>1. run[r] \in RunRec /\ run \in Seq(RunRec) /\ StageOf(r) \in Stage
  BY RunFields DEF IInv, Types, RunTypes
<1>2. CASE ParseStep(r) \/ ExtractStep(r) \/ EmbedStep(r) \/ FailureGoes(r)
  <2>1. Goes(r)
    BY <1>2, ParseGoes, ExtractGoes, EmbedGoes, FailuresGo DEF IInv
  <2>. QED
    BY <2>1 DEF Goes, Moves
<1>3. CASE StartAttempt(r)
  <2>1. PICK g \in Stage : \E n : run' = [run EXCEPT ![r].pc = FirstPlace[g], ![r].attempt = n]
    BY <1>1, <1>3 DEF StartAttempt
  <2>2. run'[r].pc = FirstPlace[g]
    BY <1>1, <2>1 DEF Run, RunRec
  <2>. QED
    BY <2>2 DEF FirstPlace, Stage
<1>4. CASE SucceedAttempt(r) \/ RecordFailure(r) \/ HandOffUnacknowledged(r)
  <2>1. PICK place \in {"handoff", "markFailed", "catch"} : Goto(r, place)
    BY <1>4 DEF SucceedAttempt, RecordFailure, HandOffUnacknowledged
  <2>2. run'[r].pc = place
    BY <1>1, <2>1 DEF Goto, Run, RunRec
  <2>. QED
    BY <2>2
<1>. QED
  BY <1>2, <1>3, <1>4 DEF Acts

\* A parse or an extraction owes, or what it has enqueued does.
LEMMA LeadsOn ==
    ASSUME IInv, OneHandler, ~expired, NEW r \in Run, Acts(r), NEW s \in Source, s = Src(r),
           StageOf(r) # "embed"
    PROVE  /\ StatusDue(s)' /\ RowsDue(s)'
           /\ StageOf(r) = "parse" => ExtractDue(s)' /\ \E j \in JobsOf(s)' : Renews(j)'
  BY AheadOwes, HandedOffOwes, ReturnsByHandOff

LEMMA ActsKeepRows ==
    ASSUME IInv, OneHandler, OneParse, Book, ~expired, NEW r \in Run, Acts(r)
    PROVE  Submitted' /\ RowsAreOwn'
<1>1. PICK s \in Source : s = Src(r)
  BY RunFields DEF IInv
<1>2. /\ upload' = upload /\ Src(r)' = s /\ run[r].pc \in Live
      /\ \A q \in Run : Src(q)' = Src(q)
      /\ \A t \in Source : t # s => pages'[t] = pages[t] /\ recs'[t] = recs[t]
  BY <1>1, ActsLocally
<1>3. Submitted'
  <2>1. JobsOf(s) # {} /\ JobsOf(s)' # {}
    BY <1>1, <1>2, OwnJob, OwnStands
  <2>2. \A t \in Source : t # s => JobsOf(t)' = JobsOf(t)
    BY <1>1, ElsewhereStays
  <2>. QED
    BY <1>2, <2>1, <2>2 DEF Book, Submitted
<1>4. RowsAreOwn'
  <2>1. \A t \in Source : \A row \in pages[t] \cup recs[t] : row.by \in Run /\ Src(row.by) = t
    <3>1. DataTypes
      BY DEF IInv, Types
    <3>. QED
      BY <3>1 DEF DataTypes, PageRow, RecRow, Book, RowsAreOwn
  <2>2. \A row \in pages'[s] \cup recs'[s] : row \in pages[s] \cup recs[s] \/ row.by = r
    BY <1>1, ActsWrite
  <2>. QED
    BY <1>1, <1>2, <2>1, <2>2 DEF RowsAreOwn
<1>. QED
  BY <1>3, <1>4

LEMMA ActsKeepWritten ==
    ASSUME IInv, OneHandler, OneParse, Book, ~expired, NEW r \in Run, Acts(r)
    PROVE  Written'
<1>1. /\ Run' = Run /\ run[r].pc \in Live /\ \A q \in Run : q # r => run'[q] = run[q]
      /\ \A q \in Run : Src(q)' = Src(q) /\ StageOf(q)' = StageOf(q)
  BY ActsLocally
<1>2. SUFFICES ASSUME NEW q \in Run, Extracting(q)'
               PROVE  /\ run'[q].pc \in {"tag", "clear", "write", "advance"} => meta'[Src(q)] = q
                      /\ run'[q].pc \in {"clear", "write", "advance"} => tags'[Src(q)] = q
                      /\ run'[q].pc = "write" => run'[q].seen = recs'[Src(q)]
  BY <1>1 DEF Written
<1>3. StageOf(q) = "extract" /\ Src(q) \in Source
  BY <1>1, <1>2, RunFields DEF Extracting, IInv
<1>4. CASE q = r
  BY <1>1, <1>3, <1>4, ExtractMoves DEF Extracting
<1>5. CASE q # r
  <2>1. run'[q] = run[q] /\ Extracting(q)
    BY <1>1, <1>2, <1>3, <1>5 DEF Extracting
  <2>2. StageOf(r) # "extract"
    BY <1>1, <1>3, <1>5, <2>1 DEF OneHandler, Extracting
  <2>3. ~ExtractStep(r)
    BY <2>2 DEF ExtractStep, ExtractRead, ExtractReadPages, ExtractDescribe, ExtractTag, ExtractClear,
       ExtractCommit, ExtractAdvance, At
  <2>4. meta' = meta /\ tags' = tags /\ recs' = recs
    BY <2>3, ActsWrite
  <2>. QED
    BY <2>1, <2>4 DEF Book, Written
<1>. QED
  BY <1>4, <1>5

LEMMA ActsKeepRenewed ==
    ASSUME IInv, OneHandler, OneParse, Book, ~expired, NEW r \in Run, Acts(r)
    PROVE  Renewed'
<1>0. PICK s \in Source : s = Src(r)
  BY RunFields DEF IInv
<1>1. /\ Run' = Run /\ run[r].pc \in Live /\ \A q \in Run : q # r => run'[q] = run[q]
      /\ \A q \in Run : Src(q)' = Src(q) /\ StageOf(q)' = StageOf(q)
      /\ \A t \in Source : t # s => canonical'[t] = canonical[t]
      /\ Job \subseteq Job' /\ \A j \in Job : job'[j] = job[j]
  BY <1>0, ActsLocally
<1>2. SUFFICES ASSUME NEW q \in Run, Extracting(q)', run'[q].pc \in Reading,
                      NEW t \in Source, t = Src(q), run'[q].read # {canonical'[t]}
               PROVE  Failed(t)' \/ \E j \in JobsOf(t)' : Renews(j)'
  <2>1. \A q \in Run : Src(q) \in Source
    BY RunFields DEF IInv
  <2>. QED
    BY <1>1, <2>1 DEF Renewed
<1>3. StageOf(q) = "extract"
  BY <1>1, <1>2 DEF Extracting
<1>4. CASE q = r
  <2>1. Extracting(r) /\ t = s
    BY <1>0, <1>1, <1>2, <1>3, <1>4 DEF Extracting
  <2>2. run[r].pc \in Reading /\ run[r].read # {canonical[s]}
    BY <1>0, <1>2, <1>4, <2>1, ExtractMoves
  <2>. QED
    BY <1>0, <2>1, <2>2, LateText
<1>5. CASE q # r /\ t = s /\ StageOf(r) = "parse"
  BY <1>0, <1>5, LeadsOn
<1>6. CASE q # r /\ ~(t = s /\ StageOf(r) = "parse")
  <2>1. run'[q] = run[q] /\ Extracting(q)
    BY <1>1, <1>2, <1>3, <1>6 DEF Extracting
  <2>2. t # s \/ ~ParseCommit(r)
    BY <1>6 DEF ParseCommit, At
  <2>3. canonical'[t] = canonical[t]
    BY <1>1, <2>2, ActsWrite
  <2>4. Failed(t) \/ \E j \in JobsOf(t) : Renews(j)
    BY <1>2, <2>1, <2>3 DEF Book, Renewed
  <2>5. \A j \in JobsOf(t) : j \in JobsOf(t)'
    BY <1>1 DEF JobsOf
  <2>6. Failed(t) => Failed(t)'
    BY <1>1, <2>5 DEF Failed, JobsOf
  <2>7. ASSUME NEW j \in JobsOf(t), Renews(j) PROVE Renews(j)'
    <3>1. j \in Job /\ job[j].source = t
      BY DEF JobsOf
    <3>2. j # run[r].job
      <4>1. run[r].job = j => t = s /\ StageOf(r) = job[j].stage /\ job[j].state = "active"
        BY <1>0, <1>1, <3>1, OwnJob DEF Src, StageOf
      <4>. QED
        BY <1>6, <2>7, <4>1 DEF Renews
    <3>. QED
      BY <1>0, <2>2, <2>7, <3>1, <3>2, OthersKeep
  <2>. QED
    BY <2>4, <2>5, <2>6, <2>7
<1>. QED
  BY <1>4, <1>5, <1>6

LEMMA ActsKeepDebts ==
    ASSUME IInv, OneHandler, OneParse, Book, ~expired, NEW r \in Run, Acts(r)
    PROVE  Debts'
<1>1. SUFFICES ASSUME NEW t \in Source, JobsOf(t)' # {} PROVE Failed(t)' \/ Whole(t)'
  BY DEF Debts
<1>2. CASE t # Src(r)
  BY <1>1, <1>2, ElsewhereStays
<1>3. CASE t = Src(r)
  <2>1. JobsOf(t) # {}
    BY <1>3, ActsLocally, OwnJob
  <2>2. CASE Failed(t)
    <3>1. Src(r)' = t
      BY <1>3, ActsLocally
    <3>. QED
      BY <1>3, <2>2, <3>1, OwnStands
  <2>3. CASE Whole(t)
    <3>1. CASE StageOf(r) = "embed"
      BY <1>3, <2>3, <3>1, EmbedOwes
    <3>2. CASE StageOf(r) = "parse"
      BY <1>3, <3>2, LeadsOn DEF Whole
    <3>3. CASE StageOf(r) = "extract"
      <4>1. StatusDue(t)' /\ RowsDue(t)'
        BY <1>3, <3>3, LeadsOn
      <4>2. Failed(t)' \/ ExtractDue(t)'
        BY <1>3, <2>3, <3>3, ExtractOwes
      <4>. QED
        BY <4>1, <4>2 DEF Whole
    <3>4. StageOf(r) \in Stage
      BY RunFields DEF IInv
    <3>. QED
      BY <3>1, <3>2, <3>3, <3>4 DEF Stage
  <2>. QED
    BY <2>1, <2>2, <2>3 DEF Book, Debts
<1>. QED
  BY <1>2, <1>3

LEMMA NextKeepsBook ==
    ASSUME IInv, OneHandler, OneParse, Book, [Next]_vars
    PROVE  Book'
<1>1. SUFFICES ASSUME ~expired, ~expired' PROVE Book'
  <2>1. expired => expired'
    BY ZenonT(40) DEF Next, vars, UploadStep, CreateSource, StoreFile, CreateSourceFile, EnqueueParse, LoseUpload,
       Deliver, ReapJob, ExpireJob, HandlerStep, HandlerFault, StartAttempt, ParseStep, ParseBegin,
       ParseClear, ParseCommit, ExtractStep, ExtractRead, ExtractReadPages, ExtractDescribe, ExtractTag,
       ExtractClear, ExtractCommit, ExtractAdvance, EmbedStep, EmbedSelectRecs, EmbedSelectPages,
       EmbedBatch, EmbedReady, SucceedAttempt, HandOff, RecordFailure, MarkFailed, Rethrow, Return,
       StartThrows, Throw, HandOffUnacknowledged, CrashWorker
  <2>. QED
    BY <2>1 DEF Book
<1>2. ASSUME NEW r \in Run, Acts(r) PROVE Book'
  <2>1. Submitted' /\ RowsAreOwn' /\ Written' /\ Renewed' /\ Debts'
    BY <1>1, <1>2, ActsKeepRows, ActsKeepWritten, ActsKeepRenewed, ActsKeepDebts
  <2>. QED
    BY <2>1 DEF Book
<1>3. CASE Happens
  <2>1. ASSUME NEW s \in Source, CreateSource(s) \/ StoreFile(s) \/ CreateSourceFile(s) \/ LoseUpload(s)
        PROVE  Book'
    BY <1>1, <2>1, UploadKeepsBook
  <2>2. ASSUME NEW s \in Source, EnqueueParse(s) PROVE Book'
    BY <1>1, <2>2, SendingKeepsBook
  <2>3. ASSUME NEW j \in Job, Deliver(j) PROVE Book'
    BY <1>1, <2>3, DeliverKeepsBook
  <2>4. ASSUME NEW j \in Job, ReapJob(j) PROVE Book'
    BY <1>1, <2>4, ReapKeepsBook
  <2>5. \A j \in Job : ~ExpireJob(j)
    BY <1>1 DEF ExpireJob
  <2>6. ASSUME NEW r \in Run, Return(r) \/ Rethrow(r) PROVE Book'
    BY <1>1, <2>6, EndingKeepsBook
  <2>7. CrashWorker => Book'
    BY <1>1, CrashKeepsBook
  <2>. QED
    BY <1>2, <1>3, <2>1, <2>2, <2>3, <2>4, <2>5, <2>6, <2>7 DEF Happens, Acts
<1>4. CASE UNCHANGED vars
  <2>1. UNCHANGED <<upload, status, canonical, pages, meta, tags, recs, vec, job, run, expired>>
    BY <1>4 DEF vars
  <2>. QED
    BY <2>1 DEF Book, Submitted, RowsAreOwn, Written, Renewed, Debts, JobsOf, Job, Run, Src, StageOf,
       Failed, Whole, StatusDue, RowsDue, ExtractDue, Coherent, OwesStatus, OwesRow, OwesExtract, Ahead,
       Unsettled, Stands, Renews, Extracting
<1>. QED
  BY <1>3, <1>4, NextCases

LEMMA BookHolds == Spec => []Book
<1>1. Init => Book
  <2>1. ASSUME Init PROVE Book
    <3>1. Run = {} /\ Job = {}
      BY <2>1 DEF Init, Run, Job
    <3>2. \A s \in Source : JobsOf(s) = {} /\ pages[s] = {} /\ recs[s] = {} /\ upload[s] = "new"
      BY <2>1, <3>1 DEF Init, JobsOf
    <3>. QED
      BY <3>1, <3>2 DEF Book, Submitted, RowsAreOwn, Written, Renewed, Debts
  <2>. QED
    BY <2>1
<1>2. IInv /\ OneHandler /\ OneParse /\ Book /\ [Next]_vars => Book'
  BY NextKeepsBook
<1>. QED
  BY <1>1, <1>2, IInvHolds, AloneHolds, PTL DEF Spec

\* A source with nothing left to happen to it is ready, embedded and of one piece, unless a
\* job has expired or one of its jobs has used up its retries: whatever has been thrown,
\* lost or crashed, a source that is not yet so has an unsettled job bound to make it so.
THEOREM QuietSourcesAreWhole == Spec => []QuiescentConsistent
<1>1. Book => QuiescentConsistent
  BY BookIsConsistent
<1>. QED
  BY <1>1, BookHolds, PTL

-------------------------------------------------------------------------------
(* The stages in line: what holds when handlers fail by throwing and no     *)
(* delivery is cut off, doubled or unanswered.                              *)

OnlyThrows ==
    \A plan \in FaultPlans : \A i \in DOMAIN plan : plan[i] \in {"throw", "bookkeeping", "upload"}

HasJob(s, g) == \E j \in JobsOf(s) : job[j].stage = g
HasHandedOff(j) == job[j].state = "completed" \/ Stands(j, {"return"})

\* A source has one job of a stage, and the next stage's from its handing off on.
OneEach == \A i, j \in Job : job[i].source = job[j].source /\ job[i].stage = job[j].stage => i = j

InTurn ==
    \A j \in Job :
        LET s == job[j].source
            g == job[j].stage IN
        /\ g # "embed" => (HasJob(s, Successor[g]) <=> HasHandedOff(j))
        /\ g = "extract" => HasJob(s, "parse")
        /\ g = "embed" => HasJob(s, "extract")

NoneDead == \A r \in Run : run[r].pc # "dead"

\* A source is shown by its embedding, which ends with its being shown.
Shows(j) == job[j].stage = "embed" /\ (job[j].state = "completed" \/ Stands(j, {"succeed", "return"}))

ShownAtEnd ==
    /\ \A s \in Source : status[s] = "ready" => HasJob(s, "embed")
    /\ \A j \in Job : Shows(j) => status[job[j].source] = "ready"

Line == ~expired /\ OneEach /\ InTurn /\ NoneDead /\ ShownAtEnd

LEMMA NoOtherFault ==
    ASSUME OnlyThrows, Types, NEW kind \in {"lostAck", "crash", "expire"}
    PROVE  ~Fault(kind)
<1>1. faults \in Seq(FaultKind)
  BY FaultPlansAssumption DEF Types, DataTypes
<1>2. SUFFICES ASSUME Fault(kind) PROVE FALSE
  OBVIOUS
<1>3. PICK n : n = Len(faults) + 1
  OBVIOUS
<1>4. n \in DOMAIN Append(faults, kind) /\ Append(faults, kind)[n] = kind
  BY <1>1, <1>3
<1>. QED
  BY <1>2, <1>4 DEF Fault, OnlyThrows

\* The stage of a handler before its handing off is the one its source has reached.
LEMMA AtItsStage ==
    ASSUME IInv, OneHandler, Line, NEW r \in Run, run[r].pc \in Live, run[r].pc # "return",
           NEW s \in Source, s = Src(r)
    PROVE  /\ \A j \in JobsOf(s) : job[j].stage = StageOf(r) => j = run[r].job
           /\ HasJob(s, StageOf(r))
           /\ StageOf(r) = "parse" => ~HasJob(s, "extract") /\ ~HasJob(s, "embed")
           /\ StageOf(r) = "extract" => ~HasJob(s, "embed")
           /\ StageOf(r) = "embed" => \A j \in JobsOf(s) : job[j].stage = "embed" => job[j].state # "completed"
<1>1. PICK k \in Job : k = run[r].job
  BY RunFields DEF IInv
<1>2. k \in JobsOf(s) /\ job[k].state = "active" /\ job[k].run = r /\ job[k].stage = StageOf(r)
  BY <1>1, OwnJob DEF Line, StageOf
<1>3. ~HasHandedOff(k) /\ job[k].source = s
  BY <1>2 DEF HasHandedOff, Stands, JobsOf
<1>4. \A j \in JobsOf(s) : job[j].stage = StageOf(r) => j = k
  BY <1>2, <1>3 DEF Line, OneEach, JobsOf
<1>5. StageOf(r) = "parse" => ~HasJob(s, "extract")
  BY <1>2, <1>3 DEF Line, InTurn, Successor
<1>6. StageOf(r) = "extract" => ~HasJob(s, "embed")
  BY <1>2, <1>3 DEF Line, InTurn, Successor
<1>7. HasJob(s, "embed") => HasJob(s, "extract")
  BY DEF Line, InTurn, HasJob, JobsOf
<1>. QED
  BY <1>1, <1>2, <1>4, <1>5, <1>6, <1>7 DEF HasJob

\* Jobs and what they have handed off stay as they are.
LEMMA LineStays ==
    ASSUME Line, Job' = Job, ~expired',
           \A j \in Job : job'[j].source = job[j].source /\ job'[j].stage = job[j].stage,
           \A j \in Job : job[j].stage # "embed" => (HasHandedOff(j)' <=> HasHandedOff(j)),
           NoneDead', \A j \in Job : Shows(j)' => status'[job[j].source] = "ready",
           \A s \in Source : status'[s] = "ready" => status[s] = "ready" \/ HasJob(s, "embed")
    PROVE  Line'
<1>1. \A s : JobsOf(s)' = JobsOf(s)
  BY DEF JobsOf
<1>2. \A s, g : HasJob(s, g)' <=> HasJob(s, g)
  BY <1>1 DEF HasJob, JobsOf
<1>3. OneEach'
  BY DEF Line, OneEach
<1>4. InTurn'
  BY <1>2 DEF Line, InTurn
<1>5. ShownAtEnd'
  BY <1>2 DEF Line, ShownAtEnd
<1>. QED
  BY <1>3, <1>4, <1>5 DEF Line

\* A step leaves its handler at work, and no handler acts past its handing off.
LEMMA ActsLive ==
    ASSUME IInv, NEW r \in Run, Acts(r)
    PROVE  run[r].pc # "return" /\ run'[r].pc \in Live
<1>1. run[r] \in RunRec /\ run \in Seq(RunRec) /\ StageOf(r) \in Stage
  BY RunFields DEF IInv, Types, RunTypes
<1>2. run[r].pc # "return"
  BY DEF Acts, ParseStep, ParseBegin, ParseClear, ParseCommit, ExtractStep, ExtractRead, ExtractReadPages,
     ExtractDescribe, ExtractTag, ExtractClear, ExtractCommit, ExtractAdvance, EmbedStep, EmbedSelectRecs,
     EmbedSelectPages, EmbedBatch, EmbedReady, At, FailureGoes, StartThrows, Throw, InTry, MarkFailed,
     RecordFailure, StartAttempt, SucceedAttempt, HandOff, HandOffUnacknowledged
<1>3. CASE ParseStep(r) \/ ExtractStep(r) \/ EmbedStep(r) \/ FailureGoes(r)
  <2>1. Goes(r)
    BY <1>3, ParseGoes, ExtractGoes, EmbedGoes, FailuresGo DEF IInv
  <2>. QED
    BY <1>2, <2>1 DEF Goes, Moves
<1>4. CASE StartAttempt(r)
  <2>1. PICK g \in Stage : \E n : run' = [run EXCEPT ![r].pc = FirstPlace[g], ![r].attempt = n]
    BY <1>1, <1>4 DEF StartAttempt
  <2>2. run'[r].pc = FirstPlace[g]
    BY <1>1, <2>1 DEF Run, RunRec
  <2>. QED
    BY <1>2, <2>2 DEF FirstPlace, Stage, Live, InTry
<1>5. CASE SucceedAttempt(r) \/ RecordFailure(r) \/ HandOff(r) \/ HandOffUnacknowledged(r)
  <2>1. PICK place \in {"handoff", "return", "markFailed", "catch"} : Goto(r, place)
    BY <1>5 DEF SucceedAttempt, RecordFailure, HandOff, HandOffUnacknowledged
  <2>2. run'[r].pc = place
    BY <1>1, <2>1 DEF Goto, Run, RunRec
  <2>. QED
    BY <1>2, <2>2 DEF Live, InTry
<1>. QED
  BY <1>3, <1>4, <1>5 DEF Acts

\* Only an embedding says that a source is ready.
LEMMA SaysReady ==
    ASSUME IInv, NEW r \in Run, Acts(r), StageOf(r) # "embed", NEW s \in Source, s = Src(r)
    PROVE  status'[s] = status[s] \/ status'[s] # "ready"
<1>1. status \in [Source -> SourceStatus \cup {"absent"}]
  BY DEF IInv, Types, DataTypes
<1>2. CASE ParseStep(r)
  BY <1>1, <1>2 DEF ParseStep, ParseBegin, ParseClear, ParseCommit, PhaseAfter
<1>3. CASE ExtractStep(r)
  BY <1>1, <1>3 DEF ExtractStep, ExtractRead, ExtractReadPages, ExtractDescribe, ExtractTag, ExtractClear,
     ExtractCommit, ExtractAdvance, PhaseAfter
<1>4. ~EmbedStep(r)
  BY DEF EmbedStep, EmbedSelectRecs, EmbedSelectPages, EmbedBatch, EmbedReady, At
<1>5. CASE FailureGoes(r) \/ StartAttempt(r) \/ SucceedAttempt(r) \/ RecordFailure(r)
             \/ HandOff(r) \/ HandOffUnacknowledged(r)
  BY <1>1, <1>5 DEF FailureGoes, StartThrows, Throw, MarkFailed, StartAttempt, SucceedAttempt, RecordFailure,
     HandOff, HandOffUnacknowledged
<1>. QED
  BY <1>2, <1>3, <1>4, <1>5 DEF Acts

LEMMA ActsKeepLine ==
    ASSUME IInv, OneHandler, Line, NEW r \in Run, Acts(r), ~HandOff(r), ~HandOffUnacknowledged(r)
    PROVE  Line'
<1>0. PICK s \in Source : s = Src(r)
  BY RunFields DEF IInv
<1>1. PICK k \in Job : k = run[r].job
  BY RunFields DEF IInv
<1>2. /\ run[r].pc \in Live /\ expired' = expired /\ Run' = Run /\ job' = job /\ Job' = Job
      /\ \A q \in Run : q # r => run'[q] = run[q]
      /\ \A t \in Source : t # s => status'[t] = status[t]
  BY <1>0, ActsLocally DEF Job
<1>3. /\ job[k].state = "active" /\ job[k].run = r /\ job[k].stage = StageOf(r) /\ job[k].source = s
      /\ k \in JobsOf(s)
      /\ \A j \in Job : j # k /\ job[j].state = "active" => job[j].run \in Run /\ job[j].run # r
  BY <1>0, <1>1, <1>2, OwnJob DEF Line, StageOf, Src
<1>4. run[r].pc # "return" /\ run'[r].pc \in Live
  BY ActsLive
<1>5. NoneDead'
  BY <1>2, <1>4 DEF Line, NoneDead, Live, InTry
<1>6. \A j \in Job : j # k => (HasHandedOff(j)' <=> HasHandedOff(j)) /\ (Shows(j)' <=> Shows(j))
  BY <1>2, <1>3 DEF HasHandedOff, Shows, Stands
<1>7. job[k].stage # "embed" => (HasHandedOff(k)' <=> HasHandedOff(k))
  <2>1. job[k].stage # "embed" => run'[r].pc # "return"
    BY <1>3, ReturnsByHandOff
  <2>. QED
    BY <1>2, <1>3, <1>4, <2>1 DEF HasHandedOff, Stands
<1>8. \A t \in Source : status'[t] = "ready" => status[t] = "ready" \/ HasJob(t, "embed")
  <2>1. StageOf(r) = "embed" => HasJob(s, "embed")
    BY <1>3 DEF HasJob
  <2>. QED
    BY <1>0, <1>2, <2>1, SaysReady
<1>9. ASSUME NEW j \in Job, Shows(j)' PROVE status'[job[j].source] = "ready"
  <2>1. job[j].stage = "embed" /\ job[j].source \in Source
    BY <1>2, <1>9, JobFields DEF Shows, IInv
  <2>2. CASE j = k
    <3>1. run'[r].pc \in {"succeed", "return"}
      BY <1>2, <1>3, <1>9, <2>2 DEF Shows, Stands
    <3>2. CASE status'[s] = "ready"
      BY <1>3, <2>2, <3>2
    <3>3. CASE run[r].pc = "succeed" /\ status' = status
      <4>1. Shows(k)
        BY <1>3, <2>1, <2>2, <3>3 DEF Shows, Stands
      <4>. QED
        BY <1>3, <2>2, <3>3, <4>1 DEF Line, ShownAtEnd
    <3>. QED
      BY <1>0, <1>3, <2>1, <2>2, <3>1, <3>2, <3>3, EmbedMoves
  <2>3. CASE j # k /\ job[j].source # s
    BY <1>2, <1>6, <1>9, <2>1, <2>3 DEF Line, ShownAtEnd
  <2>4. CASE j # k /\ job[j].source = s
    <3>1. j \in JobsOf(s) /\ HasJob(s, "embed")
      BY <2>1, <2>4 DEF JobsOf, HasJob
    <3>2. StageOf(r) \in Stage
      BY RunFields DEF IInv
    <3>. QED
      BY <1>0, <1>1, <1>2, <1>4, <2>1, <2>4, <3>1, <3>2, AtItsStage DEF Stage
  <2>. QED
    BY <2>2, <2>3, <2>4
<1>. QED
  BY <1>2, <1>5, <1>6, <1>7, <1>8, <1>9, LineStays DEF Line

\* A job is enqueued: the one before it in its source has handed off by that.
LEMMA LineGrows ==
    ASSUME Line, ~expired', NEW s \in Source, NEW g \in Stage, NEW n,
           Job' = Job \cup {n}, n \notin Job, \A j \in Job : job'[j] = job[j],
           job'[n].source = s, job'[n].stage = g, job'[n].state = "queued",
           ~HasJob(s, g), g # "embed" => ~HasJob(s, Successor[g]),
           g = "extract" => HasJob(s, "parse"), g = "embed" => HasJob(s, "extract"),
           \A j \in Job : job[j].stage # "embed" =>
               IF job[j].source = s /\ Successor[job[j].stage] = g
               THEN HasHandedOff(j)' ELSE HasHandedOff(j)' <=> HasHandedOff(j),
           NoneDead', status' = status, \A j \in Job : Shows(j)' => Shows(j)
    PROVE  Line'
<1>1. \A t : JobsOf(t)' = IF t = s THEN JobsOf(t) \cup {n} ELSE JobsOf(t)
  BY DEF JobsOf
<1>2. \A t, h : HasJob(t, h)' <=> HasJob(t, h) \/ (t = s /\ h = g)
  BY <1>1 DEF HasJob, JobsOf
<1>3. OneEach'
  <2>1. \A j \in Job : job[j].source = s => job[j].stage # g
    BY DEF HasJob, JobsOf
  <2>. QED
    BY <2>1 DEF Line, OneEach
<1>4. InTurn'
  <2>1. SUFFICES ASSUME NEW j \in Job', NEW t, t = job'[j].source, NEW h, h = job'[j].stage
                 PROVE  /\ h # "embed" => (HasJob(t, Successor[h])' <=> HasHandedOff(j)')
                        /\ h = "extract" => HasJob(t, "parse")'
                        /\ h = "embed" => HasJob(t, "extract")'
    BY DEF InTurn
  <2>2. CASE j = n
    <3>1. ~HasHandedOff(n)'
      BY DEF HasHandedOff, Stands
    <3>2. g # "embed" => Successor[g] # g
      BY DEF Successor, Stage
    <3>3. t = s /\ h = g
      BY <2>1, <2>2
    <3>4. HasHandedOff(j)' <=> HasHandedOff(n)'
      BY <2>2
    <3>. QED
      BY <1>2, <3>1, <3>2, <3>3, <3>4
  <2>3. CASE j \in Job
    <3>1. t = job[j].source /\ h = job[j].stage
      BY <2>1, <2>3
    <3>2. /\ h # "embed" => (HasJob(t, Successor[h]) <=> HasHandedOff(j))
          /\ h = "extract" => HasJob(t, "parse")
          /\ h = "embed" => HasJob(t, "extract")
      BY <2>3, <3>1 DEF Line, InTurn
    <3>3. h # "embed" => IF t = s /\ Successor[h] = g
                         THEN HasHandedOff(j)' ELSE HasHandedOff(j)' <=> HasHandedOff(j)
      BY <2>3, <3>1
    <3>. QED
      BY <1>2, <3>2, <3>3
  <2>. QED
    BY <2>2, <2>3
<1>5. ShownAtEnd'
  <2>1. ~Shows(n)'
    BY DEF Shows, Stands
  <2>. QED
    BY <1>2, <2>1 DEF Line, ShownAtEnd
<1>. QED
  BY <1>3, <1>4, <1>5 DEF Line

LEMMA SendingKeepsLine ==
    ASSUME IInv, Book, Line, NEW s \in Source, EnqueueParse(s)
    PROVE  Line'
<1>0. PICK n : n = Len(job) + 1
  OBVIOUS
<1>1. /\ UNCHANGED <<status, run, expired>> /\ Run' = Run /\ Enqueue("parse", s, None)
      /\ upload[s] = "file" /\ Types /\ "parse" \in Stage
  BY DEF EnqueueParse, Run, IInv, Stage
<1>2. /\ Job' = Job \cup {n} /\ n \notin Job /\ \A j \in Job : job'[j] = job[j]
      /\ job'[n].source = s /\ job'[n].stage = "parse" /\ job'[n].state = "queued"
  BY <1>0, <1>1, AddedOwes
<1>3. \A g : ~HasJob(s, g)
  BY <1>1 DEF HasJob, Book, Submitted, Line
<1>4. \A j \in Job : job[j].source # s
  BY <1>1 DEF Book, Submitted, Line, JobsOf
<1>5. \A j \in Job : (HasHandedOff(j)' <=> HasHandedOff(j)) /\ (Shows(j)' <=> Shows(j))
  BY <1>1, <1>2 DEF HasHandedOff, Shows, Stands
<1>6. NoneDead'
  BY <1>1 DEF Line, NoneDead
<1>. QED
  BY <1>1, <1>2, <1>3, <1>4, <1>5, <1>6, LineGrows DEF Line

LEMMA HandingOffKeepsLine ==
    ASSUME IInv, OneHandler, Line, NEW r \in Run, HandOff(r)
    PROVE  Line'
<1>0. PICK n : n = Len(job) + 1
  OBVIOUS
<1>1. PICK s \in Source : s = Src(r)
  BY RunFields DEF IInv
<1>2. PICK k \in Job : k = run[r].job
  BY RunFields DEF IInv
<1>3. PICK g \in Stage : g = Successor[StageOf(r)] /\ StageOf(r) \in {"parse", "extract"}
  BY StandsIn, RunFields DEF HandOff, IInv, PlacesOf, Successor, Stage
<1>4. /\ Enqueue(g, s, r) /\ run[r].pc = "handoff" /\ run[r].pc \in Live /\ Types
  BY <1>1, <1>3 DEF HandOff, Live, InTry, IInv
<1>5. /\ Job' = Job \cup {n} /\ n \notin Job /\ \A j \in Job : job'[j] = job[j]
      /\ job'[n].source = s /\ job'[n].stage = g /\ job'[n].state = "queued"
  BY <1>0, <1>4, AddedOwes
<1>6. /\ status' = status /\ expired' = expired /\ Run' = Run /\ run'[r].pc = "return"
      /\ \A q \in Run : q # r => run'[q] = run[q]
  <2>1. run'[r].pc = "return"
    BY <1>4, RunFields DEF HandOff, Goto, Types, RunTypes, Run, RunRec
  <2>2. Acts(r)
    BY DEF Acts
  <2>. QED
    BY <2>1, <2>2, ActsLocally DEF HandOff
<1>7. /\ job[k].state = "active" /\ job[k].run = r /\ job[k].stage = StageOf(r) /\ job[k].source = s
      /\ \A j \in Job : j # k /\ job[j].state = "active" => job[j].run \in Run /\ job[j].run # r
  BY <1>1, <1>2, <1>4, OwnJob DEF Line, StageOf, Src
<1>8. /\ ~HasJob(s, g) /\ (g # "embed" => ~HasJob(s, Successor[g])) /\ HasJob(s, StageOf(r))
      /\ \A j \in JobsOf(s) : job[j].stage = StageOf(r) => j = k
  BY <1>1, <1>2, <1>3, <1>4, AtItsStage DEF Successor
<1>9. /\ \A j \in Job : j # k => (HasHandedOff(j)' <=> HasHandedOff(j)) /\ (Shows(j)' <=> Shows(j))
      /\ HasHandedOff(k)' /\ ~Shows(k)'
  BY <1>3, <1>5, <1>6, <1>7 DEF HasHandedOff, Shows, Stands
<1>10. \A j \in Job : job[j].stage # "embed" =>
               IF job[j].source = s /\ Successor[job[j].stage] = g
               THEN HasHandedOff(j)' ELSE HasHandedOff(j)' <=> HasHandedOff(j)
  <2>1. \A j \in Job : job[j].stage \in Stage
    BY <1>4, JobFields
  <2>2. \A j \in Job : job[j].stage # "embed" /\ job[j].source = s /\ Successor[job[j].stage] = g => j = k
    BY <1>3, <1>8, <2>1 DEF JobsOf, Successor, Stage
  <2>. QED
    BY <1>3, <1>7, <1>9, <2>2
<1>11. NoneDead'
  BY <1>6 DEF Line, NoneDead
<1>12. (g = "extract" => HasJob(s, "parse")) /\ (g = "embed" => HasJob(s, "extract"))
  BY <1>3, <1>8 DEF Successor
<1>. QED
  BY <1>5, <1>6, <1>8, <1>9, <1>10, <1>11, <1>12, LineGrows DEF Line

LEMMA DeliverKeepsLine ==
    ASSUME IInv, Line, NEW j \in Job, Deliver(j)
    PROVE  Line'
<1>1. PICK n : /\ Run' = Run \cup {n} /\ n \notin Run /\ run'[n].pc = "start"
               /\ job'[j].state = "active" /\ job'[j].run = n
  BY DeliverStep DEF IInv
<1>2. /\ \A q \in Run : run'[q] = run[q]
      /\ Job' = Job
      /\ \A k \in Job : /\ k # j => job'[k] = job[k]
                        /\ job'[k].stage = job[k].stage /\ job'[k].source = job[k].source
      /\ job[j].state = "queued" /\ status' = status /\ expired' = expired
  BY DeliverStep DEF IInv
<1>3. \A k \in Job : (HasHandedOff(k)' <=> HasHandedOff(k)) /\ (Shows(k)' <=> Shows(k))
  BY <1>1, <1>2 DEF HasHandedOff, Shows, Stands, IInv, Delivered
<1>4. NoneDead'
  BY <1>1, <1>2 DEF Line, NoneDead
<1>. QED
  BY <1>2, <1>3, <1>4, LineStays DEF Line, ShownAtEnd

LEMMA EndingKeepsLine ==
    ASSUME IInv, OneHandler, Line, NEW r \in Run, Return(r) \/ Rethrow(r)
    PROVE  Line'
<1>1. PICK k \in Job : k = run[r].job
  BY RunFields DEF IInv
<1>2. /\ job[k].state = "active" /\ job[k].run = r /\ status' = status /\ expired' = expired
      /\ Run' = Run /\ run'[r].pc = "done" /\ Job' = Job
      /\ \A q \in Run : q # r => run'[q] = run[q]
      /\ \A j \in Job : /\ j # k => job'[j] = job[j]
                        /\ job'[j].source = job[j].source /\ job'[j].stage = job[j].stage
      /\ \/ run[r].pc = "return" /\ job'[k].state = "completed"
         \/ run[r].pc = "rethrow" /\ job'[k].state \in {"queued", "failed"}
  BY <1>1, EndingStep DEF Line
<1>3. \A j \in Job : j # k /\ job[j].state = "active" => job[j].run \in Run /\ job[j].run # r
  BY <1>1 DEF IInv, Delivered
<1>4. \A j \in Job : j # k => (HasHandedOff(j)' <=> HasHandedOff(j)) /\ (Shows(j)' <=> Shows(j))
  BY <1>2, <1>3 DEF HasHandedOff, Shows, Stands
<1>5. (HasHandedOff(k)' <=> HasHandedOff(k)) /\ (Shows(k)' <=> Shows(k))
  BY <1>2 DEF HasHandedOff, Shows, Stands
<1>6. NoneDead'
  BY <1>2 DEF Line, NoneDead
<1>. QED
  BY <1>2, <1>4, <1>5, <1>6, LineStays DEF Line, ShownAtEnd

LEMMA UploadKeepsLine ==
    ASSUME IInv, Line, NEW s \in Source,
           CreateSource(s) \/ StoreFile(s) \/ CreateSourceFile(s) \/ LoseUpload(s), Book
    PROVE  Line'
<1>1. /\ UNCHANGED <<job, run, expired>> /\ Run' = Run /\ Job' = Job /\ upload[s] # "sent"
      /\ \A t \in Source : t # s => status'[t] = status[t]
      /\ status'[s] = status[s] \/ status'[s] = "pending"
  BY DEF CreateSource, StoreFile, CreateSourceFile, LoseUpload, Run, Job, IInv, Types, DataTypes
<1>2. \A j \in Job : job[j].source # s /\ job[j].source \in Source
  BY <1>1, JobFields DEF Book, Submitted, Line, JobsOf, IInv
<1>3. \A j \in Job : (HasHandedOff(j)' <=> HasHandedOff(j)) /\ (Shows(j)' <=> Shows(j))
  BY <1>1 DEF HasHandedOff, Shows, Stands
<1>4. NoneDead'
  BY <1>1 DEF Line, NoneDead
<1>. QED
  BY <1>1, <1>2, <1>3, <1>4, LineStays DEF Line, ShownAtEnd

\* The three kinds of fault that cut off, double or leave unanswered do not happen, and
\* so nothing is reaped.
LEMMA OnlyOrderly ==
    ASSUME OnlyThrows, IInv, Line
    PROVE  /\ ~CrashWorker /\ \A r \in Run : ~HandOffUnacknowledged(r)
           /\ \A j \in Job : ~ReapJob(j) /\ ~ExpireJob(j)
<1>1. ~Fault("lostAck") /\ ~Fault("crash") /\ ~Fault("expire")
  BY NoOtherFault DEF IInv
<1>2. \A j \in Job : ~ReapJob(j)
  BY DEF ReapJob, Line, NoneDead, IInv, Delivered
<1>. QED
  BY <1>1, <1>2 DEF CrashWorker, HandOffUnacknowledged, ExpireJob

LEMMA NextKeepsLine ==
    ASSUME OnlyThrows, IInv, OneHandler, Book, Line, [Next]_vars
    PROVE  Line'
<1>1. CASE Happens
  <2>1. ASSUME NEW r \in Run, Acts(r) PROVE Line'
    BY <2>1, ActsKeepLine, HandingOffKeepsLine, OnlyOrderly
  <2>2. ASSUME NEW r \in Run, Return(r) \/ Rethrow(r) PROVE Line'
    BY <2>2, EndingKeepsLine
  <2>3. ASSUME NEW j \in Job, Deliver(j) PROVE Line'
    BY <2>3, DeliverKeepsLine
  <2>4. ASSUME NEW s \in Source, EnqueueParse(s) PROVE Line'
    BY <2>4, SendingKeepsLine
  <2>5. ASSUME NEW s \in Source, CreateSource(s) \/ StoreFile(s) \/ CreateSourceFile(s) \/ LoseUpload(s)
        PROVE  Line'
    BY <2>5, UploadKeepsLine
  <2>. QED
    BY <1>1, <2>1, <2>2, <2>3, <2>4, <2>5, OnlyOrderly DEF Happens, Acts
<1>2. CASE UNCHANGED vars
  <2>1. UNCHANGED <<status, job, run, expired>>
    BY <1>2 DEF vars
  <2>. QED
    BY <2>1 DEF Line, OneEach, InTurn, NoneDead, ShownAtEnd, Shows, HasHandedOff, HasJob, JobsOf, Job, Run,
       Stands
<1>. QED
  BY <1>1, <1>2, NextCases

LEMMA LineHolds ==
    ASSUME OnlyThrows
    PROVE  Spec => []Line
<1>1. Init => Line
  <2>1. ASSUME Init PROVE Line
    <3>1. Run = {} /\ Job = {} /\ ~expired /\ \A s \in Source : status[s] # "ready"
      BY <2>1 DEF Init, Run, Job
    <3>. QED
      BY <3>1 DEF Line, OneEach, InTurn, NoneDead, ShownAtEnd
  <2>. QED
    BY <2>1
<1>2. IInv /\ OneHandler /\ Book /\ Line /\ [Next]_vars => Line'
  BY NextKeepsLine
<1>. QED
  BY <1>1, <1>2, IInvHolds, AloneHolds, BookHolds, PTL DEF Spec

-------------------------------------------------------------------------------
(* Every step of the line is a step of StagedIngest, or none of its steps.  *)

\* The stage a source has reached, by its jobs.
LEMMA ReachedIs ==
    ASSUME NEW s
    PROVE  /\ JobsOf(s) = {} => StageReached(s) = 0
           /\ HasJob(s, "parse") /\ ~HasJob(s, "extract") /\ ~HasJob(s, "embed") => StageReached(s) = 1
           /\ HasJob(s, "extract") /\ ~HasJob(s, "embed") => StageReached(s) = 2
           /\ HasJob(s, "embed") /\ (\A j \in JobsOf(s) : job[j].stage = "embed" => job[j].state # "completed")
                => StageReached(s) = 3
           /\ (\E j \in JobsOf(s) : job[j].stage = "embed" /\ job[j].state = "completed") => StageReached(s) = 4
  BY DEF StageReached, HasJob

LEMMA ReachedWillBe ==
    ASSUME NEW s
    PROVE  /\ HasJob(s, "parse")' /\ ~HasJob(s, "extract")' /\ ~HasJob(s, "embed")' => StageReached(s)' = 1
           /\ HasJob(s, "extract")' /\ ~HasJob(s, "embed")' => StageReached(s)' = 2
           /\ HasJob(s, "embed")'
              /\ (\A j \in JobsOf(s)' : job'[j].stage = "embed" => job'[j].state # "completed")
                => StageReached(s)' = 3
           /\ (\E j \in JobsOf(s)' : job'[j].stage = "embed" /\ job'[j].state = "completed")
                => StageReached(s)' = 4
  BY DEF StageReached, HasJob

\* It stays where it is as long as the source's jobs do, and no embedding completes.
LEMMA ReachedStays ==
    ASSUME NEW s, JobsOf(s)' = JobsOf(s),
           \A j \in JobsOf(s) : /\ job'[j].stage = job[j].stage
                                /\ job[j].stage = "embed" =>
                                     (job'[j].state = "completed" <=> job[j].state = "completed")
    PROVE  StageReached(s)' = StageReached(s)
  BY DEF StageReached

\* Steps the stages do not show.
LEMMA NotShown ==
    ASSUME \A s \in Source : StageReached(s)' = StageReached(s), UNCHANGED content,
           \A s \in Source : status'[s] = "ready" <=> status[s] = "ready"
    PROVE  UNCHANGED Staged!vars
  BY DEF Staged!vars, content

\* The jobs of a source before the one at work have handed off.
LEMMA NoneBehind ==
    ASSUME IInv, OneHandler, Line, NEW r \in Run, run[r].pc \in Live, run[r].pc # "return",
           NEW s \in Source, s = Src(r)
    PROVE  /\ \A j \in JobsOf(s) : j # run[r].job => job[j].stage # StageOf(r) /\ HasHandedOff(j)
                                                     /\ job[j].stage # "embed"
           /\ ~Failed(s)
<1>1. PICK k \in Job : k = run[r].job
  BY RunFields DEF IInv
<1>2. k \in JobsOf(s) /\ job[k].state = "active" /\ job[k].stage = StageOf(r) /\ StageOf(r) \in Stage
  BY <1>1, OwnJob, RunFields DEF Line, StageOf, IInv
<1>3. HasJob(s, "embed") => HasJob(s, "extract")
  BY DEF Line, InTurn, HasJob, JobsOf
<1>4. ASSUME NEW j \in JobsOf(s), j # k
      PROVE  job[j].stage # StageOf(r) /\ HasHandedOff(j) /\ job[j].stage # "embed"
  <2>1. /\ job[j].stage # StageOf(r)
        /\ StageOf(r) = "parse" => ~HasJob(s, "extract") /\ ~HasJob(s, "embed")
        /\ StageOf(r) = "extract" => ~HasJob(s, "embed")
        /\ HasJob(s, StageOf(r))
    BY <1>1, <1>4, AtItsStage
  <2>2. j \in Job /\ job[j].source = s /\ job[j].stage \in Stage /\ HasJob(s, job[j].stage)
    BY JobFields DEF JobsOf, HasJob, IInv
  <2>3. job[j].stage # "embed" => HasJob(s, Successor[job[j].stage])
    BY <1>2, <1>3, <2>1, <2>2 DEF Stage, Successor
  <2>4. job[j].stage # "embed"
    BY <1>2, <2>1, <2>2 DEF Stage
  <2>. QED
    BY <2>1, <2>2, <2>3, <2>4 DEF Line, InTurn
<1>5. \A j \in JobsOf(s) : job[j].state # "failed"
  BY <1>2, <1>4 DEF HasHandedOff, Stands
<1>. QED
  BY <1>1, <1>4, <1>5 DEF Failed

\* What a handler's step leaves alone, short of handing off.
LEMMA ActsReach ==
    ASSUME IInv, OneHandler, OneParse, Book, Line, NEW r \in Run, Acts(r), ~HandOff(r), ~HandOffUnacknowledged(r),
           NEW s \in Source, s = Src(r)
    PROVE  /\ \A t \in Source : StageReached(t)' = StageReached(t)
           /\ run[r].pc \in Live /\ run[r].pc # "return"
           /\ StageOf(r) # "embed" => \A t \in Source : status'[t] = "ready" <=> status[t] = "ready"
           /\ \A t \in Source : t # s =>
                /\ status'[t] = status[t] /\ canonical'[t] = canonical[t] /\ pages'[t] = pages[t]
                /\ meta'[t] = meta[t] /\ tags'[t] = tags[t] /\ recs'[t] = recs[t]
<1>1. /\ run[r].pc \in Live /\ job' = job /\ Job' = Job
      /\ \A t \in Source : t # s =>
           /\ status'[t] = status[t] /\ canonical'[t] = canonical[t] /\ pages'[t] = pages[t]
           /\ meta'[t] = meta[t] /\ tags'[t] = tags[t] /\ recs'[t] = recs[t]
  BY ActsLocally DEF Job
<1>2. \A t \in Source : StageReached(t)' = StageReached(t)
  <2>1. \A t \in Source : JobsOf(t)' = JobsOf(t)
    BY <1>1 DEF JobsOf
  <2>. QED
    BY <1>1, <2>1, ReachedStays
<1>3. run[r].pc # "return"
  BY ActsLive
<1>4. StageOf(r) # "embed" => status[s] # "ready" /\ status'[s] # "ready"
  <2>1. StageOf(r) \in Stage
    BY RunFields DEF IInv
  <2>2. StageOf(r) # "embed" => ~HasJob(s, "embed")
    BY <1>1, <1>3, <2>1, AtItsStage DEF Stage
  <2>. QED
    BY <2>2, SaysReady DEF Line, ShownAtEnd
<1>. QED
  BY <1>1, <1>2, <1>3, <1>4

LEMMA ParseShown ==
    ASSUME IInv, OneHandler, OneParse, Book, Line, NEW r \in Run, Acts(r), ~HandOff(r), ~HandOffUnacknowledged(r),
           NEW s \in Source, s = Src(r), StageOf(r) = "parse"
    PROVE  Staged!Parse(s) \/ UNCHANGED Staged!vars
<1>1. /\ \A t \in Source : StageReached(t)' = StageReached(t)
      /\ \A t \in Source : status'[t] = "ready" <=> status[t] = "ready"
      /\ \A t \in Source : t # s => canonical'[t] = canonical[t] /\ pages'[t] = pages[t]
      /\ StageReached(s) = 1
  BY ActsReach, AtItsStage, ReachedIs
<1>2. CASE ParseCommit(r)
  <2>1. /\ vec' = vec \ pages[s] /\ UNCHANGED <<meta, tags, recs>>
    BY <1>2 DEF ParseCommit, OneParse, Line
  <2>. QED
    BY <1>1, <2>1 DEF Staged!Parse, Staged!OnlyFor
<1>3. CASE ~ParseCommit(r)
  <2>1. ~ExtractStep(r) /\ ~EmbedStep(r)
    BY DEF ExtractStep, ExtractRead, ExtractReadPages, ExtractDescribe, ExtractTag, ExtractClear,
       ExtractCommit, ExtractAdvance, EmbedStep, EmbedSelectRecs, EmbedSelectPages, EmbedBatch, EmbedReady, At
  <2>2. UNCHANGED content
    BY <1>3, <2>1 DEF Acts, ParseStep, ParseBegin, ParseClear, FailureGoes, StartThrows, Throw, MarkFailed,
       StartAttempt, SucceedAttempt, RecordFailure, HandOff, HandOffUnacknowledged
  <2>. QED
    BY <1>1, <2>2, NotShown
<1>. QED
  BY <1>2, <1>3

LEMMA ExtractShown ==
    ASSUME IInv, OneHandler, OneParse, Book, Line, NEW r \in Run, Acts(r), ~HandOff(r), ~HandOffUnacknowledged(r),
           NEW s \in Source, s = Src(r), StageOf(r) = "extract"
    PROVE  Staged!Extract(s)
<1>1. /\ \A t \in Source : StageReached(t)' = StageReached(t)
      /\ \A t \in Source : status'[t] = "ready" <=> status[t] = "ready"
      /\ \A t \in Source : t # s => meta'[t] = meta[t] /\ tags'[t] = tags[t] /\ recs'[t] = recs[t]
      /\ StageReached(s) = 2
  BY ActsReach, AtItsStage, ReachedIs
<1>2. /\ canonical' = canonical /\ pages' = pages
  BY ActsWrite DEF ParseCommit, At, Line
<1>3. vec' \in {vec, vec \ recs[s]}
  <2>1. CASE ExtractCommit(r)
    <3>1. run[r].seen = recs[s]
      BY <2>1 DEF ExtractCommit, At, Line, Book, Written, Extracting, Live, InTry
    <3>. QED
      BY <2>1, <3>1 DEF ExtractCommit
  <2>2. CASE ~ExtractCommit(r)
    BY <2>2 DEF Acts, ParseStep, ParseBegin, ParseClear, ParseCommit, EmbedStep, EmbedSelectRecs,
       EmbedSelectPages, EmbedBatch, EmbedReady, At, ExtractStep, ExtractRead, ExtractReadPages,
       ExtractDescribe, ExtractTag, ExtractClear, ExtractAdvance, content, FailureGoes, StartThrows, Throw,
       MarkFailed, StartAttempt, SucceedAttempt, RecordFailure, HandOff, HandOffUnacknowledged
  <2>. QED
    BY <2>1, <2>2
<1>. QED
  BY <1>1, <1>2, <1>3 DEF Staged!Extract, Staged!OnlyFor

\* When an embedding has nothing more to do, its source is embedded.
LEMMA NothingLeft ==
    ASSUME IInv, OneHandler, Book, Line, NEW r \in Run, EmbedReady(r), NEW s \in Source, s = Src(r)
    PROVE  Embedded(s)
<1>1. PICK k \in Job : k = run[r].job
  BY RunFields DEF IInv
<1>2. StageOf(r) = "embed" /\ run[r].pc = "embed" /\ run[r].todo = {} /\ run[r].pc \in Live
  BY DEF EmbedReady, At, Live, InTry
<1>3. /\ k \in JobsOf(s) /\ job[k].state = "active" /\ job[k].run = r /\ job[k].stage = "embed"
  BY <1>1, <1>2, OwnJob DEF Line, StageOf
<1>4. ~Failed(s) /\ \A j \in JobsOf(s) : j # k => HasHandedOff(j) /\ job[j].stage # "embed"
  BY <1>1, <1>2, NoneBehind
<1>5. RowsDue(s)
  BY <1>3, <1>4 DEF Line, Book, Debts, Whole
<1>6. \A row : ~OwesRow(k, row)
  BY <1>2, <1>3 DEF OwesRow, Ahead, Stands
<1>7. \A j \in JobsOf(s) : j # k => \A row : ~OwesRow(j, row)
  BY <1>4 DEF OwesRow, Ahead, HasHandedOff, Unsettled
<1>. QED
  BY <1>5, <1>6, <1>7 DEF RowsDue, Embedded

LEMMA EmbedShown ==
    ASSUME IInv, OneHandler, OneParse, Book, Line, NEW r \in Run, Acts(r), ~HandOff(r), ~HandOffUnacknowledged(r),
           NEW s \in Source, s = Src(r), StageOf(r) = "embed"
    PROVE  Staged!Embed(s) \/ Staged!Show(s)
<1>1. /\ \A t \in Source : StageReached(t)' = StageReached(t)
      /\ \A t \in Source : t # s => status'[t] = status[t]
      /\ StageReached(s) = 3
  BY ActsReach, AtItsStage, ReachedIs
<1>2. ~ParseStep(r) /\ ~ExtractStep(r)
  BY DEF ParseStep, ParseBegin, ParseClear, ParseCommit, ExtractStep, ExtractRead, ExtractReadPages,
     ExtractDescribe, ExtractTag, ExtractClear, ExtractCommit, ExtractAdvance, At
<1>3. UNCHANGED <<canonical, pages, meta, tags, recs>>
  BY <1>2, ActsWrite DEF ParseStep, Line
<1>4. CASE EmbedReady(r)
  <2>1. status'[s] = "ready" /\ vec' = vec
    BY <1>4 DEF EmbedReady, PhaseAfter, content, IInv, Types, DataTypes
  <2>2. pages[s] \cup recs[s] \subseteq vec
    BY <1>4, NothingLeft DEF Embedded
  <2>. QED
    BY <1>1, <1>3, <2>1, <2>2 DEF Staged!Show
<1>5. CASE ~EmbedReady(r)
  <2>1. /\ vec \subseteq vec' /\ vec' \subseteq vec \cup pages[s] \cup recs[s]
        /\ status'[s] = status[s] \/ status'[s] = "failed"
    BY <1>2, <1>5 DEF Acts, EmbedStep, EmbedSelectRecs, EmbedSelectPages, EmbedBatch, content, FailureGoes,
       StartThrows, Throw, MarkFailed, StartAttempt, SucceedAttempt, RecordFailure, HandOff,
       HandOffUnacknowledged, IInv, Types, DataTypes
  <2>. QED
    BY <1>1, <1>3, <2>1 DEF Staged!Embed
<1>. QED
  BY <1>4, <1>5

\* One source goes on by a stage, and the others stay.
LEMMA OneAdvances ==
    ASSUME NEW s \in Source, NEW f, NEW g, f = [t \in Source |-> f[t]], g = [t \in Source |-> g[t]],
           \A t \in Source : t # s => g[t] = f[t], g[s] = f[s] + 1
    PROVE  g = [f EXCEPT ![s] = @ + 1]
  OBVIOUS

LEMMA ReachedAdvances ==
    ASSUME NEW s \in Source, \A t \in Source : t # s => StageReached(t)' = StageReached(t),
           StageReached(s)' = StageReached(s) + 1
    PROVE  [t \in Source |-> StageReached(t)]' =
             [[t \in Source |-> StageReached(t)] EXCEPT ![s] = @ + 1]
<1>1. PICK f : f = [t \in Source |-> StageReached(t)]
  OBVIOUS
<1>2. PICK g : g = [t \in Source |-> StageReached(t)']
  OBVIOUS
<1>3. \A t \in Source : f[t] = StageReached(t) /\ g[t] = StageReached(t)'
  BY <1>1, <1>2
<1>4. f = [t \in Source |-> f[t]] /\ g = [t \in Source |-> g[t]]
  BY <1>1, <1>2
<1>5. g = [f EXCEPT ![s] = @ + 1]
  BY <1>3, <1>4, OneAdvances
<1>. QED
  BY <1>1, <1>2, <1>5

\* A parse or an extraction hands off with its output complete, which ends its stage.
LEMMA HandOffShown ==
    ASSUME IInv, OneHandler, Book, Line, NEW r \in Run, HandOff(r), NEW s \in Source, s = Src(r)
    PROVE  Staged!Advance(s)
<1>0. PICK n : n = Len(job) + 1
  OBVIOUS
<1>1. PICK k \in Job : k = run[r].job
  BY RunFields DEF IInv
<1>2. PICK g \in Stage : g = Successor[StageOf(r)] /\ StageOf(r) \in {"parse", "extract"}
  BY StandsIn, RunFields DEF HandOff, IInv, PlacesOf, Successor, Stage
<1>3. /\ Enqueue(g, s, r) /\ run[r].pc = "handoff" /\ run[r].pc \in Live /\ Types
      /\ UNCHANGED <<status, content>>
  BY <1>2 DEF HandOff, Live, InTry, IInv
<1>4. /\ Job' = Job \cup {n} /\ n \notin Job /\ \A j \in Job : job'[j] = job[j]
      /\ job'[n].source = s /\ job'[n].stage = g /\ job'[n].state = "queued"
  BY <1>0, <1>3, AddedOwes
<1>5. \A t \in Source : JobsOf(t)' = IF t = s THEN JobsOf(t) \cup {n} ELSE JobsOf(t)
  BY <1>4 DEF JobsOf
<1>6. \A t \in Source : t # s => StageReached(t)' = StageReached(t)
  <2>1. \A t \in Source : \A j \in JobsOf(t) : job'[j] = job[j]
    BY <1>4 DEF JobsOf
  <2>. QED
    BY <1>5, <2>1, ReachedStays
<1>7. \A h : HasJob(s, h)' <=> HasJob(s, h) \/ h = g
  BY <1>4, <1>5 DEF HasJob, JobsOf
<1>8. /\ HasJob(s, StageOf(r))
      /\ StageOf(r) = "parse" => ~HasJob(s, "extract") /\ ~HasJob(s, "embed")
      /\ StageOf(r) = "extract" => ~HasJob(s, "embed")
      /\ ~Failed(s)
      /\ \A j \in JobsOf(s) : j # k => job[j].stage # StageOf(r) /\ HasHandedOff(j) /\ job[j].stage # "embed"
  BY <1>1, <1>3, AtItsStage, NoneBehind
<1>9. /\ StageOf(r) = "parse" => StageReached(s) = 1 /\ StageReached(s)' = 2
      /\ StageOf(r) = "extract" => StageReached(s) = 2 /\ StageReached(s)' = 3
  <2>1. StageOf(r) = "extract" => \A j \in JobsOf(s)' : job'[j].stage = "embed" => job'[j].state # "completed"
    BY <1>4, <1>5, <1>8 DEF HasJob, JobsOf
  <2>. QED
    BY <1>2, <1>7, <1>8, <2>1, ReachedIs, ReachedWillBe DEF Successor
<1>10. StageOf(r) = "parse" => canonical[s] # None
  BY <1>3 DEF IInv, Inputs, Progress
<1>11. StageOf(r) = "extract" => meta[s] = tags[s] /\ meta[s] # None
  <2>1. SUFFICES ASSUME StageOf(r) = "extract" PROVE meta[s] = tags[s] /\ meta[s] # None
    OBVIOUS
  <2>2. job[k].state = "active" /\ job[k].run = r /\ job[k].stage = "extract" /\ k \in JobsOf(s)
    BY <1>1, <1>3, <2>1, OwnJob DEF Line, StageOf
  <2>3. ExtractDue(s)
    BY <1>8, <2>2 DEF Line, Book, Debts, Whole
  <2>4. ~OwesExtract(k)
    BY <1>3, <2>2 DEF OwesExtract, Ahead, Stands, Reading
  <2>5. \A j \in JobsOf(s) : j # k => ~OwesExtract(j)
    BY <1>8, <2>1 DEF OwesExtract, Ahead, HasHandedOff, Unsettled
  <2>6. meta[s] # None
    BY <1>3, <2>1 DEF IInv, Inputs, Progress
  <2>. QED
    BY <2>3, <2>4, <2>5, <2>6 DEF ExtractDue, Coherent
<1>12. [t \in Source |-> StageReached(t)]' =
         [[t \in Source |-> StageReached(t)] EXCEPT ![s] = @ + 1]
  BY <1>2, <1>6, <1>9, ReachedAdvances
<1>. QED
  BY <1>2, <1>3, <1>9, <1>10, <1>11, <1>12 DEF Staged!Advance, content

\* The upload's job begins the first stage.
LEMMA SendingShown ==
    ASSUME IInv, Book, Line, NEW s \in Source, EnqueueParse(s)
    PROVE  Staged!Advance(s)
<1>0. PICK n : n = Len(job) + 1
  OBVIOUS
<1>1. /\ UNCHANGED <<status, content>> /\ Enqueue("parse", s, None) /\ upload[s] = "file"
      /\ Types /\ "parse" \in Stage
  BY DEF EnqueueParse, IInv, Stage
<1>2. /\ Job' = Job \cup {n} /\ n \notin Job /\ \A j \in Job : job'[j] = job[j]
      /\ job'[n].source = s /\ job'[n].stage = "parse" /\ job'[n].state = "queued"
  BY <1>0, <1>1, AddedOwes
<1>3. JobsOf(s) = {}
  BY <1>1 DEF Book, Submitted, Line
<1>4. \A t \in Source : JobsOf(t)' = IF t = s THEN {n} ELSE JobsOf(t)
  BY <1>2, <1>3 DEF JobsOf
<1>5. \A t \in Source : t # s => StageReached(t)' = StageReached(t)
  <2>1. \A t \in Source : \A j \in JobsOf(t) : job'[j] = job[j]
    BY <1>2 DEF JobsOf
  <2>. QED
    BY <1>4, <2>1, ReachedStays
<1>6. HasJob(s, "parse")' /\ ~HasJob(s, "extract")' /\ ~HasJob(s, "embed")'
  BY <1>2, <1>4 DEF HasJob
<1>7. StageReached(s) = 0 /\ StageReached(s)' = 1
  BY <1>3, <1>6, ReachedIs, ReachedWillBe
<1>8. [t \in Source |-> StageReached(t)]' =
         [[t \in Source |-> StageReached(t)] EXCEPT ![s] = @ + 1]
  BY <1>5, <1>7, ReachedAdvances
<1>. QED
  BY <1>1, <1>7, <1>8 DEF Staged!Advance, content

\* An embedding that returns ends the last stage; no other end of a delivery is shown.
LEMMA EndingShown ==
    ASSUME IInv, OneHandler, Line, NEW r \in Run, Return(r) \/ Rethrow(r)
    PROVE  (\E s \in Source : Staged!Advance(s)) \/ UNCHANGED Staged!vars
<1>1. PICK k \in Job : k = run[r].job
  BY RunFields DEF IInv
<1>2. /\ job[k].state = "active" /\ job[k].run = r /\ UNCHANGED <<status, content>> /\ Job' = Job
      /\ \A j \in Job : /\ j # k => job'[j] = job[j]
                        /\ job'[j].source = job[j].source /\ job'[j].stage = job[j].stage
      /\ \/ run[r].pc = "return" /\ job'[k].state = "completed"
         \/ run[r].pc = "rethrow" /\ job'[k].state \in {"queued", "failed"}
  BY <1>1, EndingStep DEF Line
<1>3. \A t : JobsOf(t)' = JobsOf(t)
  BY <1>2 DEF JobsOf
<1>4. PICK s \in Source : s = job[k].source
  BY JobFields DEF IInv
<1>5. CASE job[k].stage # "embed" \/ run[r].pc = "rethrow"
  <2>1. \A t \in Source : StageReached(t)' = StageReached(t)
    <3>1. \A j \in Job : job[j].stage = "embed" => (job'[j].state = "completed" <=> job[j].state = "completed")
      BY <1>2, <1>5
    <3>2. \A t \in Source : \A j \in JobsOf(t) : j \in Job
      BY DEF JobsOf
    <3>. QED
      BY <1>2, <1>3, <3>1, <3>2, ReachedStays
  <2>. QED
    BY <1>2, <2>1, NotShown
<1>6. CASE job[k].stage = "embed" /\ run[r].pc = "return" /\ job'[k].state = "completed"
  <2>1. \A t \in Source : t # s => StageReached(t)' = StageReached(t)
    <3>1. \A t \in Source : t # s => \A j \in JobsOf(t) : job'[j] = job[j]
      BY <1>2, <1>4 DEF JobsOf
    <3>. QED
      BY <1>3, <3>1, ReachedStays
  <2>2. k \in JobsOf(s) /\ HasJob(s, "embed")
    BY <1>4, <1>6 DEF JobsOf, HasJob
  <2>3. \A j \in JobsOf(s) : job[j].stage = "embed" => j = k
    BY <1>4, <1>6 DEF Line, OneEach, JobsOf
  <2>4. StageReached(s) = 3
    BY <1>2, <2>2, <2>3, ReachedIs
  <2>5. StageReached(s)' = 4
    BY <1>2, <1>3, <1>6, <2>2, ReachedWillBe
  <2>6. status[s] = "ready"
    BY <1>2, <1>4, <1>6 DEF Line, ShownAtEnd, Shows, Stands
  <2>7. [t \in Source |-> StageReached(t)]' =
           [[t \in Source |-> StageReached(t)] EXCEPT ![s] = @ + 1]
    BY <2>1, <2>4, <2>5, ReachedAdvances
  <2>8. Staged!Advance(s)
    BY <1>2, <2>4, <2>6, <2>7 DEF Staged!Advance, content
  <2>. QED
    BY <2>8
<1>. QED
  BY <1>2, <1>5, <1>6

LEMMA NextShown ==
    ASSUME OnlyThrows, IInv, OneHandler, OneParse, Book, Line, [Next]_vars
    PROVE  [Staged!Next]_(Staged!vars)
<1>1. CASE Happens
  <2>1. ASSUME NEW r \in Run, Acts(r) PROVE Staged!Next \/ UNCHANGED Staged!vars
    <3>1. PICK s \in Source : s = Src(r) /\ StageOf(r) \in Stage
      BY RunFields DEF IInv
    <3>2. CASE HandOff(r)
      BY <3>1, <3>2, HandOffShown DEF Staged!Next
    <3>3. CASE ~HandOff(r)
      BY <2>1, <3>1, <3>3, OnlyOrderly, ParseShown, ExtractShown, EmbedShown DEF Staged!Next, Stage
    <3>. QED
      BY <3>2, <3>3
  <2>2. ASSUME NEW r \in Run, Return(r) \/ Rethrow(r) PROVE Staged!Next \/ UNCHANGED Staged!vars
    BY <2>2, EndingShown DEF Staged!Next
  <2>3. ASSUME NEW s \in Source, EnqueueParse(s) PROVE Staged!Next
    BY <2>3, SendingShown DEF Staged!Next
  <2>4. ASSUME NEW j \in Job, Deliver(j) PROVE UNCHANGED Staged!vars
    <3>1. /\ Job' = Job /\ UNCHANGED <<status, content>>
          /\ \A k \in Job : /\ job'[k].stage = job[k].stage /\ job'[k].source = job[k].source
                            /\ job'[k].state = "completed" <=> job[k].state = "completed"
      BY <2>4, DeliverStep DEF IInv
    <3>2. \A t \in Source : JobsOf(t)' = JobsOf(t) /\ JobsOf(t) \subseteq Job
      BY <3>1 DEF JobsOf
    <3>3. \A t \in Source : StageReached(t)' = StageReached(t)
      BY <3>1, <3>2, ReachedStays
    <3>. QED
      BY <3>1, <3>3, NotShown
  <2>5. ASSUME NEW s \in Source, CreateSource(s) \/ StoreFile(s) \/ CreateSourceFile(s) \/ LoseUpload(s)
        PROVE  UNCHANGED Staged!vars
    <3>1. /\ UNCHANGED <<job, content>> /\ upload[s] # "sent" /\ Job' = Job
          /\ \A t \in Source : t # s => status'[t] = status[t]
          /\ status'[s] = status[s] \/ status'[s] = "pending"
      BY <2>5 DEF CreateSource, StoreFile, CreateSourceFile, LoseUpload, IInv, Types, DataTypes, Job
    <3>2. status[s] # "ready"
      BY <3>1 DEF Line, ShownAtEnd, HasJob, Book, Submitted
    <3>3. \A t \in Source : StageReached(t)' = StageReached(t)
      BY <3>1, ReachedStays DEF JobsOf
    <3>. QED
      BY <3>1, <3>2, <3>3, NotShown
  <2>. QED
    BY <1>1, <2>1, <2>2, <2>3, <2>4, <2>5, OnlyOrderly DEF Happens, Acts
<1>2. CASE UNCHANGED vars
  <2>1. UNCHANGED <<status, content, job>> /\ Job' = Job
    BY <1>2 DEF vars, content, Job
  <2>2. \A t \in Source : StageReached(t)' = StageReached(t)
    BY <2>1, ReachedStays DEF JobsOf
  <2>. QED
    BY <2>1, <2>2, NotShown
<1>. QED
  BY <1>1, <1>2, NextCases

\* As long as handlers fail by throwing (and by failing to note that they did), the
\* pipeline is the line of stages: no retry does again the work of a stage before its own,
\* and a source is shown as ready when all of it is embedded.
THEOREM PipelineImplementsStages ==
    ASSUME OnlyThrows
    PROVE  Spec => ImplementsStages
<1>1. Init => Staged!Init
  <2>1. ASSUME Init PROVE Staged!Init
    <3>1. \A s \in Source : StageReached(s) = 0
      BY <2>1, ReachedIs DEF Init, JobsOf, Job
    <3>. QED
      BY <2>1, <3>1 DEF Init, Staged!Init
  <2>. QED
    BY <2>1
<1>2. IInv /\ OneHandler /\ OneParse /\ Book /\ Line /\ [Next]_vars => [Staged!Next]_(Staged!vars)
  BY NextShown
<1>3. Spec => []Line
  BY LineHolds
<1>. QED
  BY <1>1, <1>2, <1>3, IInvHolds, AloneHolds, BookHolds, PTL DEF Spec, ImplementsStages, Staged!Spec
===============================================================================

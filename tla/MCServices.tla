------------------------------ MODULE MCServices ------------------------------
(* The components of the worker and of the provider settings, checked side by *)
(* side: a behaviour is one of a single part, the other parts keep the state  *)
(* they begin in.                                                             *)
EXTENDS PipelineAttempts, ProviderCache, UploadProgress, ProcessLifecycles,
        ExtractionPlan, DocumentParsers, ProviderSettings

CONSTANTS k1, l1        \* attempts: a key, the lock all keys hash to

VARIABLE part

Part == {"attempts", "cache", "upload", "lifecycles", "plan", "parsers", "settings"}

\* Attempts: three handlers on two keys that hash to the same lock.
CollidingLocks == [k \in Key |-> l1]

\* Cache: few saves and a short TTL make loads, saves and expiry overlap early.
TwoSaves == 2

\* Plan: pages that fit together, fit alone or exceed a prompt, and outlines without pages.
SomeDocuments == {<<3, 3, 3, 3>>, <<3, 30>>, <<18, 1>>, <<19>>, <<7, 7, 3>>}
SomeOutlines == {<<"text", "recommendations", "text", "stop">>, <<"recommendations", "recommendations">>}

\* Plan: answers name pages the wrong way round, or one there is not, and spell slugs in two ways.
SomeAnchors == {<<3, 2>>, <<9, 1>>}
Spelling == [x \in {"s", "S", "t", " "} |-> CASE x = "S" -> "s" [] x = " " -> "" [] OTHER -> x]
SomeClasses ==
    {[priority |-> "s", themes |-> <<"s", "t">>], [priority |-> "S", themes |-> <<"s", "S">>],
     [priority |-> "t", themes |-> <<"t", " ">>]}

\* Parsers: every document of up to five pages, read two at a time.
ShortDocuments == UNION {[1..n -> PageKind] : n \in 1..5}

\* Settings: m2 is a model of other dimensions; environments with and without keys.
AModel(p, base, m, typed) == [provider |-> p, base |-> base, model |-> m, key |-> typed]
AnOcr(p, docling, base, typed) == [provider |-> p, docling |-> docling, base |-> base, key |-> typed]
Fake == AModel("fake", Blank, Blank, Blank)
Environments ==
    {[llm |-> Fake, chat |-> AModel(Blank, Blank, Blank, Blank), embedding |-> Fake,
      ocr |-> AnOcr("fake", Blank, Blank, Blank)],
     [llm |-> AModel("openai-compatible", "b1", "m2", "k1"),
      chat |-> AModel("openai-compatible", Blank, "m1", Blank),
      embedding |-> AModel("openai-compatible", "b1", "m1", "k1"),
      ocr |-> AnOcr("docling", "b1", Blank, Blank)],
     [llm |-> AModel("openai-compatible", "b1", "m2", Blank),
      chat |-> AModel(Blank, Blank, Blank, Blank), embedding |-> Fake,
      ocr |-> AnOcr("mistral", Blank, Blank, Blank)],
     [llm |-> AModel("anthropic", Blank, Blank, Blank),
      chat |-> AModel("openai-compatible", "b1", "m1", Blank), embedding |-> Fake,
      ocr |-> AnOcr("mistral", Blank, "b1", "k1")]}
AForm(k, p, base, m, typed) == [kind |-> k, provider |-> p, base |-> base, model |-> m, key |-> typed]
Submitted ==
    {AForm("embedding", "openai-compatible", "b1", "m1", Blank),
     AForm("embedding", "openai-compatible", "b1", "m2", "k1"),
     AForm("embedding", "openai-compatible", "b2", Blank, "k2"),
     AForm("embedding", "fake", Blank, Blank, "k1"),
     AForm("llm", "openai-compatible", Blank, "m1", Blank),
     AForm("llm", "openai-compatible", "b2", Blank, "k2"),
     AForm("chat", "openai-compatible", "b2", "m1", Blank),
     AForm("ocr", "mistral", Blank, Blank, Blank),
     AForm("ocr", "docling", "b2", Blank, "k1")}
Width(m) == IF m = "m2" THEN 1024 ELSE 768
-------------------------------------------------------------------------------
\* The initial choices of a part that takes no steps do not matter.
Kept(p, fixed) == part = p \/ fixed

ServicesInit ==
    /\ part \in Part
    /\ Init /\ Kept("attempts", key = [x \in Caller |-> k1])
    /\ CacheInit /\ StreamInit
    /\ LifecyclesInit /\ Kept("lifecycles", database)
    /\ PlanInit /\ Kept("plan", doc = [pages |-> <<19>>, lines |-> <<>>])
    /\ ParsersInit /\ Kept("parsers", parser = "docling" /\ pdf = <<"blank">>)
    /\ SettingsInit /\ Kept("settings", env.llm = Fake /\ secret = "s1")

ServicesNext ==
    /\ UNCHANGED part
    /\ \/ part = "attempts" /\ Next
       \/ part # "attempts" /\ UNCHANGED vars
    /\ \/ part = "cache" /\ CacheNext
       \/ part # "cache" /\ UNCHANGED cacheVars
    /\ \/ part = "upload" /\ StreamNext
       \/ part # "upload" /\ UNCHANGED streamVars
    /\ \/ part = "lifecycles" /\ LifecyclesNext
       \/ part # "lifecycles" /\ UNCHANGED lifecycleVars
    /\ \/ part = "plan" /\ PlanNext
       \/ part # "plan" /\ UNCHANGED planVars
    /\ \/ part = "parsers" /\ ParsersNext
       \/ part # "parsers" /\ UNCHANGED parserVars
    /\ \/ part = "settings" /\ SettingsNext
       \/ part # "settings" /\ UNCHANGED settingsVars

allVars == <<part, vars, cacheVars, streamVars, lifecycleVars, planVars, parserVars, settingsVars>>

\* The fairness of each part's own specification, for behaviours of that part.
ServicesSpec ==
    /\ ServicesInit /\ [][ServicesNext]_allVars
    /\ \A x \in Caller : WF_vars(part = "attempts" /\ Step(x))
    /\ WF_cacheVars(part = "cache" /\ Tick)
    /\ \A x \in Loader : WF_cacheVars(part = "cache" /\ (Select(x) \/ Fill(x) \/ LoadFails(x)))
    /\ \A u \in Upload :
        /\ WF_streamVars(part = "upload" /\ (WorkerPhase(u) \/ WorkerThrows(u)))
        /\ WF_streamVars(part = "upload" /\ ServeStream(u))
        /\ WF_streamVars(part = "upload" /\ CloseStep(u))
        /\ WF_streamVars(part = "upload" /\ Forward(u))
        /\ WF_streamVars(part = "upload" /\ HearAbort(u))
        /\ WF_streamVars(part = "upload" /\ OnMessage(u))

TypesOK ==
    /\ TypeOK /\ CacheTypeOK /\ StreamTypeOK /\ LifecyclesTypeOK
    /\ PlanTypeOK /\ ParsersTypeOK /\ SettingsTypeOK
===============================================================================

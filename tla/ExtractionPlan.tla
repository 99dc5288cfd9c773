---------------------------- MODULE ExtractionPlan ----------------------------
(***************************************************************************)
(* How one run of extractHandler (src/lib/jobs/handlers/extract.ts) gets  *)
(* from a document to rows: the windows the pages are read through        *)
(* (src/lib/services/extraction-windows.ts), the candidates found in them *)
(* and their page anchors, the batches they are classified in             *)
(* (extraction-enrichment.ts) and the taxonomy slugs that are resolved    *)
(* for all of them at once.  Documents without pages are shown to the     *)
(* model by sections (extraction-sections.ts).                            *)
(*                                                                         *)
(* The model is external: it may find anything in a window, with any page *)
(* numbers, and classify anything anyhow.  Candidates are merged and      *)
(* enrichments joined as they come in, which no one but the handler sees. *)
(***************************************************************************)
EXTENDS Integers, Sequences, FiniteSets, FiniteSetsExt, Functions, Filters

CONSTANTS
    Documents,      \* documents: lengths of their pages, in characters
    Outlines,       \* documents without pages: what their lines are
    MaxPages, MaxChars, OverlapPages, LongPageOverlap,  \* options of the windows
    Marker,         \* length of a page marker
    Text,           \* texts of recommendations, normalised
    Anchors,        \* pairs of page numbers the model may give, 0 for null
    BatchSize,      \* ENRICHMENT_BATCH_SIZE
    Classes,        \* classifications: a priority and thematic areas, raw slugs
    Normal,         \* Normal[raw]: the slug normaliseSlug makes of it
    MaxFound        \* bound: recommendations the model finds in a document

ASSUME WindowAssumption ==
    /\ MaxPages \in Nat \ {0} /\ Marker \in Nat /\ MaxChars \in Nat /\ MaxChars > Marker
    /\ OverlapPages \in 0..MaxPages-1
    /\ LongPageOverlap \in 0..MaxChars-Marker-1
    /\ BatchSize \in Nat \ {0} /\ MaxFound \in Nat

ASSUME TextAssumption ==
    /\ Documents \subseteq Seq(Nat) /\ Anchors \subseteq Nat \X Nat
    /\ Classes \subseteq [priority: DOMAIN Normal \cup {""}, themes: Seq(DOMAIN Normal)]

VARIABLES
    doc,        \* the document: lengths of its usable pages, or its lines
    stage,         \* what the handler is at
    metadata,   \* Pass 1: pending or done
    cursor,     \* next page to be put into a window, or next window to be asked about
    windows,    \* each a sequence of fragments of pages
    reports,    \* what was reported of each text: set of <<window, anchors>>
    candidates, \* text and anchors, in order of discovery
    enriched,   \* by candidate that has one: the enrichment that won and its batch
    batch,      \* batches classified
    recs,       \* what is inserted
    tries       \* attempts of the call to the model under way, by pass, that have failed

planVars == <<doc, stage, metadata, cursor, windows, reports, candidates, enriched, batch, recs,
              tries>>

Pages == doc.pages
Lines == doc.lines
Null == 0
NoSlug == ""
Separator == 2
Pass == {"metadata", "recommendations"}
MaxFailures == 2
Unclassified == [priority |-> NoSlug, themes |-> <<>>]

PlanTypeOK ==
    /\ stage \in {"window", "find", "classify", "insert", "done", "failed"}
    /\ metadata \in {"pending", "done"}
    /\ \A i \in 1..Len(windows), j \in 1..MaxPages : j <= Len(windows[i]) =>
          windows[i][j] \in [page: Nat, from: Nat, to: Nat]
    /\ \A i \in 1..Len(candidates) : candidates[i] \in [text: Text, start: Nat, end: Nat]
    /\ DOMAIN enriched \subseteq 1..Len(candidates)
    /\ batch \in Nat
    /\ tries \in [Pass -> 0..MaxFailures]
    /\ \A i \in 1..Len(recs) : recs[i].priority \in {Normal[s] : s \in DOMAIN Normal} \cup {NoSlug}

PlanInit ==
    /\ doc \in [pages: Documents, lines: {<<>>}] \cup [pages: {<<>>}, lines: Outlines]
    /\ stage = IF Pages # <<>> THEN "window" ELSE "find"
    /\ metadata = "pending"
    /\ cursor = 1
    /\ windows = <<>> /\ reports = [t \in Text |-> {}]
    /\ candidates = <<>> /\ enriched = <<>> /\ batch = 0 /\ recs = <<>>
    /\ tries = [p \in Pass |-> 0]
-------------------------------------------------------------------------------
(* Windows *)

Block(i) == Marker + Pages[i]
Whole(i) == [page |-> i, from |-> 0, to |-> Pages[i]]

\* The characters of a prompt that joins blocks of these lengths.
Joining(lengths) ==
    LET upTo[n \in 1..Len(lengths)] ==
          IF n = 1 THEN lengths[1] ELSE upTo[n-1] + Separator + lengths[n]
    IN upTo[Len(lengths)]

\* The characters pages i..j take in one prompt.
Chars(i, j) == Joining([n \in 1..(j - i + 1) |-> Block(i + n - 1)])

\* A page that exceeds a prompt: overlapping fragments of its text, to its end.
Fragments(i) ==
    LET budget == MaxChars - Marker
        step == budget - LongPageOverlap
        count == 1 + (IF Pages[i] > budget THEN (Pages[i] - budget + step - 1) \div step ELSE 0)
    IN [n \in 1..count |->
          <<[page |-> i, from |-> (n-1) * step,
             to |-> IF (n-1) * step + budget < Pages[i] THEN (n-1) * step + budget ELSE Pages[i]]>>]

\* The window that begins with page i has room for page k.
HasRoom(i, k) == k - i < MaxPages /\ Chars(i, k) <= MaxChars

\* The last page of the window that begins with page i.
LastOf(i) == CHOOSE j \in i..Len(Pages) :
    /\ \A k \in i+1..j : HasRoom(i, k)
    /\ j = Len(Pages) \/ ~HasRoom(i, j + 1)

\* Faulty variant: the next window begins after the last one.
AfterApart(i, j) == j + 1

\* The page the next window begins with, if there is one.
After(i, j) ==
    IF j = Len(Pages) THEN j + 1
    ELSE IF j + 1 - OverlapPages > i THEN j + 1 - OverlapPages ELSE i + 1

\* One turn of buildExtractionWindows.
AddWindow ==
    /\ stage = "window" /\ cursor <= Len(Pages)
    /\ IF Block(cursor) > MaxChars
       THEN /\ windows' = windows \o Fragments(cursor)
            /\ cursor' = cursor + 1
       ELSE LET last == LastOf(cursor) IN
            /\ windows' = Append(windows, [n \in 1..(last - cursor + 1) |-> Whole(cursor + n - 1)])
            /\ cursor' = After(cursor, last)
    /\ UNCHANGED <<doc, stage, metadata, reports, candidates, enriched, batch, recs, tries>>

WindowsBuilt ==
    /\ stage = "window" /\ cursor > Len(Pages)
    /\ stage' = "find" /\ cursor' = 1
    /\ UNCHANGED <<doc, metadata, windows, reports, candidates, enriched, batch, recs, tries>>
-------------------------------------------------------------------------------
(* Calls to the model: generateStructured of src/lib/providers/llm/openai-compat.ts *)

\* How many batches the candidates are classified in.
Batches == (Len(candidates) + BatchSize - 1) \div BatchSize

\* What was reported of the window.
FoundIn(w) == {t \in Text : \E r \in reports[t] : r[1] = w}

\* A call of this pass is under way and nothing of its answer has been used.
Asked(p) ==
    IF p = "metadata" THEN metadata = "pending" /\ stage \in {"find", "classify", "insert"}
    ELSE \/ stage = "find" /\ IF Pages = <<>> THEN candidates = <<>>
                             ELSE cursor <= Len(windows) /\ FoundIn(cursor) = {}
         \/ /\ stage = "classify" /\ batch < Batches
            /\ \A i \in DOMAIN enriched : enriched[i].batch # batch + 1

Answered(p) == tries' = [tries EXCEPT ![p] = 0]

\* generateObject throws, or the text generated instead is no JSON or does not fit the
\* schema: it is asked for again, with a deadline of its own.  An array where an object
\* with one array is expected does not fit either: topLevelArrayField looks for a shape()
\* the schemas of the installed library do not have, and recognises none.
AttemptFails(p) ==
    /\ Asked(p) /\ tries[p] < MaxFailures
    /\ tries' = [tries EXCEPT ![p] = @ + 1]
    /\ UNCHANGED <<doc, stage, metadata, cursor, windows, reports, candidates, enriched,
                   batch, recs>>

\* The last attempt is of no use either, or generateText throws, which no attempt follows:
\* the call throws and the handler fails.  A call of the other pass goes on, but nothing
\* waits for it any more.
ModelThrows(p) ==
    /\ Asked(p) /\ tries[p] > 0
    /\ stage' = "failed"
    /\ UNCHANGED <<doc, metadata, cursor, windows, reports, candidates, enriched, batch,
                   recs, tries>>
-------------------------------------------------------------------------------
(* Candidates *)

PagesOf(w) == {w[i].page : i \in 1..Len(w)}

\* applyWindowProvenance: pages outside of the window are dropped; one that is missing is
\* taken from the other or, for a window of one page, is that page.
Anchored(w, start, end) ==
    LET s == IF start \in PagesOf(w) THEN start ELSE Null
        e == IF end \in PagesOf(w) THEN end ELSE Null
        only == IF Cardinality(PagesOf(w)) = 1 THEN Min(PagesOf(w)) ELSE Null
        from == IF s # Null THEN s ELSE IF only # Null THEN only ELSE e
        to == IF e # Null THEN e ELSE IF only # Null THEN only ELSE s
    IN IF from > to THEN <<to, from>> ELSE <<from, to>>

\* pageMin and pageMax of two spans of which either may be null.
Spanning(a, b) ==
    IF a[1] = Null THEN b ELSE IF b[1] = Null THEN a
    ELSE <<Min({a[1], b[1]}), Max({a[2], b[2]})>>

\* dedupeRecommendations: the same text again only widens the anchors.
Merged(list, text, span) ==
    IF \E i \in 1..Len(list) : list[i].text = text
    THEN [i \in 1..Len(list) |->
            IF list[i].text # text THEN list[i]
            ELSE LET s == Spanning(<<list[i].start, list[i].end>>, span)
                 IN [text |-> text, start |-> s[1], end |-> s[2]]]
    ELSE Append(list, [text |-> text, start |-> span[1], end |-> span[2]])

\* The answer about the window has one more recommendation.
FindInWindow ==
    /\ stage = "find" /\ Pages # <<>> /\ cursor <= Len(windows)
    /\ Cardinality(UNION {{t} \X reports[t] : t \in Text}) < MaxFound
    /\ \E text \in Text, a \in Anchors :
          LET span == Anchored(windows[cursor], a[1], a[2]) IN
          /\ candidates' = Merged(candidates, text, span)
          /\ reports' = [reports EXCEPT ![text] = @ \cup {<<cursor, span>>}]
    /\ UNCHANGED <<doc, stage, metadata, cursor, windows, enriched, batch, recs, tries>>

\* On to the next window, whatever was found.
NextWindow ==
    /\ stage = "find" /\ Pages # <<>> /\ cursor <= Len(windows)
    /\ cursor' = cursor + 1
    /\ Answered("recommendations")
    /\ UNCHANGED <<doc, stage, metadata, windows, reports, candidates, enriched, batch, recs>>

\* All windows asked about; what they said is not looked at again.
FindingDone ==
    /\ stage = "find" /\ Pages # <<>> /\ cursor > Len(windows)
    /\ stage' = IF candidates = <<>> THEN "insert" ELSE "classify"
    /\ windows' = <<>> /\ reports' = [t \in Text |-> {}] /\ cursor' = 1
    /\ UNCHANGED <<doc, metadata, candidates, enriched, batch, recs, tries>>

\* detectRecommendationSections: the lines from a recommendation heading to the next
\* heading that ends or begins a section, or everything if there is none.
Shown ==
    LET heads == {i \in 1..Len(Lines) : Lines[i] = "recommendations"}
        ends(i) == {j \in i+1..Len(Lines) : Lines[j] # "text"} \cup {Len(Lines) + 1}
    IN IF heads = {} THEN 1..Len(Lines) ELSE UNION {i..Min(ends(i))-1 : i \in heads}

\* The candidate of this index is classified.
Classified(index, class, b) ==
    [i \in DOMAIN enriched \cup {index} |->
        IF i = index THEN [class |-> class, batch |-> b] ELSE enriched[i]]

\* The legacy pass: the answer has one more recommendation, and its classification and
\* page with it.  Nothing is merged, and no page looked up.
FindInSections ==
    /\ stage = "find" /\ Pages = <<>> /\ Shown # {}
    /\ Len(candidates) < MaxFound
    /\ \E text \in Text, a \in Anchors, class \in Classes :
          /\ candidates' = Append(candidates, [text |-> text, start |-> a[1], end |-> a[2]])
          /\ enriched' = Classified(Len(candidates) + 1, class, 1)
    /\ UNCHANGED <<doc, stage, metadata, cursor, windows, reports, batch, recs, tries>>

SectionsRead ==
    /\ stage = "find" /\ Pages = <<>>
    /\ stage' = "insert"
    /\ Answered("recommendations")
    /\ UNCHANGED <<doc, metadata, cursor, windows, reports, candidates, enriched, batch, recs>>
-------------------------------------------------------------------------------
(* Classification *)

\* mergeCandidateEnrichments: an index no candidate has is ignored, the first
\* enrichment for an index wins.
Joined(index, class, b) ==
    IF index \in 1..Len(candidates) \ DOMAIN enriched THEN Classified(index, class, b) ELSE enriched

InBatch(i, b) == (b - 1) * BatchSize < i /\ i <= b * BatchSize

\* The answer to a batch has one more enrichment.
Classify ==
    /\ stage = "classify" /\ batch < Batches
    /\ \E index \in 1..Len(candidates)+1, class \in Classes :
          enriched' = Joined(index, class, batch + 1)
    /\ UNCHANGED <<doc, stage, metadata, cursor, windows, reports, candidates, batch, recs,
                   tries>>

\* On to the next batch, whatever was omitted.
NextBatch ==
    /\ stage = "classify"
    /\ IF batch < Batches THEN batch' = batch + 1 /\ UNCHANGED stage
       ELSE stage' = "insert" /\ UNCHANGED batch
    /\ Answered("recommendations")
    /\ UNCHANGED <<doc, metadata, cursor, windows, reports, candidates, enriched, recs>>

\* The other pass, before the recommendations or, hosted, alongside.
ReadMetadata ==
    /\ metadata = "pending" /\ stage \in {"find", "classify", "insert"}
    /\ metadata' = "done"
    /\ Answered("metadata")
    /\ UNCHANGED <<doc, stage, cursor, windows, reports, candidates, enriched, batch, recs>>
-------------------------------------------------------------------------------
(* Rows *)

ClassOf(i) == IF i \in DOMAIN enriched THEN enriched[i].class ELSE Unclassified

\* Distinct elements of a sequence, in order of first occurrence: Array.from(new Set(s)).
Distinct(s) == Filtered(s, {i \in 1..Len(s) : \A j \in 1..i-1 : s[j] # s[i]})

\* The slugs of a sequence that are not blank.
NonBlank(s) == Filtered(s, {i \in 1..Len(s) : s[i] # NoSlug})

\* The raw priorities of all candidates.
Raw == NonBlank([j \in 1..Len(candidates) |-> ClassOf(j).priority])

\* resolveOrCreateAxis: an id, here the slug itself, for each distinct normal form.
ResolvedIds(raw) == NonBlank(Distinct([i \in 1..Len(raw) |-> Normal[raw[i]]]))

PriorityIn(raw, slug) ==
    LET i == CHOOSE j \in 1..Len(raw) : raw[j] = slug
    IN IF i <= Len(ResolvedIds(raw)) THEN ResolvedIds(raw)[i] ELSE NoSlug

\* Faulty variant: the slugs of the recommendations are not made unique first.
PriorityRepeated(i) ==
    LET slug == ClassOf(i).priority
    IN IF slug = NoSlug THEN NoSlug ELSE PriorityIn(Raw, slug)

\* The priority timescales: the raw slugs are made unique, resolved together, and paired
\* with the ids by position.
Priority(i) ==
    LET slug == ClassOf(i).priority
    IN IF slug = NoSlug THEN NoSlug ELSE PriorityIn(Distinct(Raw), slug)

\* batchResolveTaxonomy: normalised before they are made unique, but not within one
\* recommendation.
Themes(i) ==
    LET raw == ClassOf(i).themes
    IN NonBlank([j \in 1..Len(raw) |-> Normal[raw[j]]])

\* The transaction: every candidate becomes a row, in its order.  A recommendation with
\* one tag twice violates the key of its join table.
Insert ==
    /\ stage = "insert" /\ metadata = "done"
    /\ IF \A i \in 1..Len(candidates) : IsInjective(Themes(i))
       THEN /\ recs' = [i \in 1..Len(candidates) |->
                          [text |-> candidates[i].text, page |-> candidates[i].start,
                           priority |-> Priority(i), themes |-> Themes(i)]]
            /\ stage' = "done"
       ELSE /\ stage' = "failed"
            /\ UNCHANGED recs
    /\ UNCHANGED <<doc, metadata, cursor, windows, reports, candidates, enriched, batch,
                   tries>>

PlanNext ==
    \/ AddWindow \/ WindowsBuilt \/ FindInWindow \/ NextWindow \/ FindingDone
    \/ FindInSections \/ SectionsRead
    \/ Classify \/ NextBatch \/ ReadMetadata \/ Insert
    \/ \E p \in Pass : AttemptFails(p) \/ ModelThrows(p)

PlanSpec == PlanInit /\ [][PlanNext]_planVars
-------------------------------------------------------------------------------
\* Character c of page i is in a window.
Covered(i, c) == \E w \in 1..Len(windows), n \in 1..MaxPages :
    /\ n <= Len(windows[w]) /\ windows[w][n].page = i
    /\ windows[w][n].from <= c /\ c + 1 <= windows[w][n].to

\* Pages i and i+1 are in a window together, if they fit and windows overlap.
Neighbours(i) ==
    Chars(i, i + 1) <= MaxChars /\ OverlapPages > 0 =>
        \E w \in 1..Len(windows) : {i, i + 1} \subseteq PagesOf(windows[w])

WithinLimits(w) ==
    /\ Len(w) <= MaxPages
    /\ Joining([n \in 1..Len(w) |-> Marker + w[n].to - w[n].from]) <= MaxChars

\* "Rather than silently truncating their tail", and "a recommendation that crosses a
\* page boundary can still be captured in one call": every character of every page is in
\* a window, neighbours that fit into a window together are in one together, and no
\* window exceeds its limits.
WindowsCoverDocument ==
    stage = "find" /\ Pages # <<>> =>
        /\ \A i \in 1..Len(Pages) : \A c \in 0..Pages[i]-1 : Covered(i, c)
        /\ \A i \in 1..Len(Pages)-1 : Neighbours(i)
        /\ \A w \in 1..Len(windows) : WithinLimits(windows[w])

\* "Make provenance observable rather than asking a model to infer page numbers": the
\* anchors of a candidate are both null or in order, and both are pages of windows the
\* candidate was found in, however often it was found and whatever the model said.
AnchorsAreSound ==
    stage = "find" /\ Pages # <<>> => \A i \in 1..Len(candidates) :
        LET found == candidates[i]
            pages == UNION {PagesOf(windows[r[1]]) : r \in reports[found.text]}
        IN \/ found.start = Null /\ found.end = Null
           \/ found.start <= found.end /\ {found.start, found.end} \subseteq pages

\* Where a recommendation is said to stand can be checked against the document.
ProvenanceIsSound == WindowsCoverDocument /\ AnchorsAreSound

\* "Candidate text must never be dropped or rewritten because enrichment was
\* imperfect": what was found is inserted, in the order of discovery, each text once where
\* windows are merged, and has the priority it was given -- unless of the raw slugs given
\* one is blank or two are spellings of one, which shifts the ids.
RowsAreTheCandidates ==
    stage = "done" =>
        /\ Len(recs) = Len(candidates)
        /\ \A i \in 1..Len(recs) : recs[i].text = candidates[i].text
        /\ Pages # <<>> => \A i, j \in 1..Len(recs) : recs[i].text = recs[j].text => i = j
        /\ LET given == {ClassOf(i).priority : i \in 1..Len(recs)} \ {NoSlug} IN
           (\A s, t \in given : Normal[s] # NoSlug /\ (Normal[s] = Normal[t] => s = t)) =>
                \A i \in 1..Len(recs) :
                    ClassOf(i).priority # NoSlug => recs[i].priority = Normal[ClassOf(i).priority]

\* "Models occasionally omit an item, duplicate an index, or return an index outside the
\* requested batch (...) invalid indexes are ignored": nothing is classified by the
\* answer to another batch.
ClassifiedInOwnBatch ==
    stage = "done" /\ Pages # <<>> =>
        \A i \in DOMAIN enriched : InBatch(i, enriched[i].batch)
===============================================================================

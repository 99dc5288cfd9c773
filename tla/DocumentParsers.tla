---------------------------- MODULE DocumentParsers ----------------------------
(* The adapters that turn a PDF into numbered pages: docling, asked for a few pages at
   a time until there are no more, its answers joined and split again; tesseract-pdf,
   which reads the text layer and has OCR read the pages that have none; and mistral, a
   file uploaded and then read.  Each call may fail, which fails the document.

   A text is a sequence of tokens: i, something on page i; NL, a line break; MARK, the
   marker docling puts between pages; RULE, a line of three dashes in the text. *)
EXTENDS Integers, Sequences, FiniteSets, SequencesExt, FiniteSetsExt

CONSTANTS
    Document,           \* documents: sequences of pages
    PAGE_CHUNK_SIZE

PageKind == {"text", "ruled", "scan", "blank"}

ASSUME DocumentAssumption == \A d \in Document : d \in Seq(PageKind) /\ d # <<>>
ASSUME ChunkAssumption == PAGE_CHUNK_SIZE \in Nat /\ PAGE_CHUNK_SIZE > 1

NL == 0
MARK == -1
RULE == -2

VARIABLES
    parser,     \* which adapter
    pdf,        \* the document
    phase,      \* what it does next
    start,      \* docling: the first page to ask for
    bodies,     \* docling: the texts it answered with
    cutAt,      \* docling: the page from which on it was not asked again, having failed; or 0
    layer,      \* tesseract-pdf: the pages of the text layer
    result      \* the pages, in the order they are numbered in: their texts

parserVars == <<parser, pdf, phase, start, bodies, cutAt, layer, result>>

Parser == {"docling", "tesseract-pdf", "mistral"}

ParsersTypeOK ==
    /\ parser \in Parser
    /\ pdf \in Document
    /\ phase \in {"convert", "join", "read", "ocr", "reread", "upload", "recognise",
                  "done", "thrown"}
    /\ start \in Nat
    /\ bodies \in Seq(Seq(-2..Len(pdf)))
    /\ cutAt \in Nat
    /\ layer \in Seq(Seq(-2..Len(pdf)))
    /\ result \in Seq(Seq(-2..Len(pdf)))

ParsersInit ==
    /\ parser \in Parser
    /\ pdf \in Document
    /\ phase = CASE parser = "docling" -> "convert"
                 [] parser = "tesseract-pdf" -> "read"
                 [] parser = "mistral" -> "upload"
    /\ start = 1
    /\ bodies = <<>>
    /\ cutAt = 0
    /\ layer = <<>>
    /\ result = <<>>
-------------------------------------------------------------------------------
(* Texts. *)

\* What is on page i, once scanned images are read too.
OnPage(i) ==
    CASE pdf[i] = "blank" -> <<>>
      [] pdf[i] = "ruled" -> <<i, NL, RULE, NL, i>>
      [] OTHER -> <<i>>

\* What of it is text already.
InLayer(i) == IF pdf[i] = "scan" THEN <<>> ELSE OnPage(i)

Trim(text) ==
    LET solid == {i \in DOMAIN text : text[i] # NL}
    IN  IF solid = {} THEN <<>> ELSE SubSeq(text, Min(solid), Max(solid))

JoinedPages(texts) ==
    LET joined[k \in 0..Len(texts)] ==
          IF k = 0 THEN <<>>
          ELSE IF k = 1 THEN texts[1]
          ELSE joined[k-1] \o <<NL, MARK, NL>> \o texts[k]
    IN  joined[Len(texts)]

\* A page break begins at i: a line with nothing but the separator of the text.
BreakAt(text, i) ==
    /\ i + 2 <= Len(text)
    /\ text[i] = NL /\ text[i + 2] = NL
    /\ text[i + 1] = IF Contains(text, MARK) THEN MARK ELSE RULE

\* splitMarkdownIntoPages: the text is read from its start; where a break begins the
\* page before it ends, and what a break has used is gone for the next one.
SplitIntoPages(text) ==
    LET split[i \in 0..Len(text)] ==
          IF i = 0 THEN [pages |-> <<>>, from |-> 1]
          ELSE LET seen == split[i-1] IN
               IF seen.from <= i /\ BreakAt(text, i)
               THEN [pages |-> Append(seen.pages, Trim(SubSeq(text, seen.from, i - 1))),
                     from |-> i + 3]
               ELSE seen
        all == split[Len(text)]
    IN  Append(all.pages, Trim(SubSeq(text, all.from, Len(text))))

Count(text, token) == Cardinality({i \in DOMAIN text : text[i] = token})
-------------------------------------------------------------------------------
Throws ==
    /\ phase' = "thrown"
    /\ UNCHANGED <<start, bodies, cutAt, layer, result>>

\* The server or the command is missing, slow, or answers with an error.
CallFails ==
    /\ phase \notin {"join", "done", "thrown"}
    /\ Throws
    /\ UNCHANGED <<parser, pdf>>

\* Docling answers that it failed.  That is how it answers past the end, too, so after
\* the first call it ends the loop, and the pages that are left are not asked for.
ChunkFails ==
    /\ phase = "convert" /\ start > 1 /\ start <= Len(pdf)
    /\ phase' = "join"
    /\ cutAt' = start
    /\ UNCHANGED <<parser, pdf, start, bodies, layer, result>>

\* Docling's answer for the pages asked for, as the adapter takes it to be: a marker
\* between any two of them.  It does no OCR.
Converted(first) ==
    LET last == Min({first + PAGE_CHUNK_SIZE - 1, Len(pdf)})
    IN  Trim(JoinedPages([k \in 1..(last - first + 1) |-> InLayer(first + k - 1)]))

\* Faulty variant: as many pages as were asked for are taken for the last ones, too.
AtOrUnderSize(md) == Count(md, MARK) + 1 <= PAGE_CHUNK_SIZE

FewerPages(md) == Count(md, MARK) + 1 < PAGE_CHUNK_SIZE

\* One turn of the loop: past the end there is nothing, which at the start is an error;
\* an answer without text ends the loop, and so does one of fewer pages.
Convert ==
    /\ phase = "convert"
    /\ IF start > Len(pdf)
       THEN phase' = "join" /\ UNCHANGED <<start, bodies>>
       ELSE LET md == Converted(start) IN
            IF md = <<>> THEN phase' = "join" /\ UNCHANGED <<start, bodies>>
            ELSE /\ bodies' = Append(bodies, md)
                 /\ IF FewerPages(md) THEN phase' = "join" /\ UNCHANGED start
                    ELSE phase' = phase /\ start' = start + PAGE_CHUNK_SIZE
    /\ UNCHANGED <<parser, pdf, cutAt, layer, result>>

Join ==
    /\ phase = "join"
    /\ result' = SplitIntoPages(JoinedPages(bodies))
    /\ phase' = "done"
    /\ UNCHANGED <<parser, pdf, start, bodies, cutAt, layer>>
-------------------------------------------------------------------------------
\* pagesFromPdftotext: a page break ends every page, so an empty rest is dropped.
PagesFromPdftotext(texts) ==
    LET split == Append(texts, <<>>)
    IN  IF Len(split) > 1 /\ Last(split) = <<>> THEN Front(split) ELSE split

Usable(text) == text # <<>>

\* The text layer is enough if every page has usable text in it.
ReadLayer ==
    /\ phase = "read"
    /\ layer' = PagesFromPdftotext([i \in DOMAIN pdf |-> InLayer(i)])
    /\ IF \A i \in DOMAIN layer' : Usable(layer'[i])
       THEN phase' = "done" /\ result' = layer'
       ELSE phase' = "ocr" /\ UNCHANGED result
    /\ UNCHANGED <<parser, pdf, start, bodies, cutAt>>

Ocr ==
    /\ phase = "ocr"
    /\ phase' = "reread"
    /\ UNCHANGED <<parser, pdf, start, bodies, cutAt, layer, result>>

\* OCR was made of the pages without usable text.  A document that still has none fails.
Reread ==
    LET pages == PagesFromPdftotext(
                    [i \in DOMAIN pdf |-> IF Usable(layer[i]) THEN InLayer(i) ELSE OnPage(i)])
    IN  /\ phase = "reread"
        /\ IF \E i \in DOMAIN pages : pages[i] # <<>>
           THEN phase' = "done" /\ result' = pages /\ UNCHANGED <<start, bodies, cutAt, layer>>
           ELSE Throws
        /\ UNCHANGED <<parser, pdf>>
-------------------------------------------------------------------------------
UploadFile ==
    /\ phase = "upload"
    /\ phase' = "recognise"
    /\ UNCHANGED <<parser, pdf, start, bodies, cutAt, layer, result>>

\* The pages come with an index from 0, or none, which comes to the same here.
Recognise ==
    /\ phase = "recognise"
    /\ result' = [i \in DOMAIN pdf |-> OnPage(i)]
    /\ phase' = "done"
    /\ UNCHANGED <<parser, pdf, start, bodies, cutAt, layer>>

ParsersNext ==
    \/ CallFails \/ ChunkFails
    \/ Convert \/ Join
    \/ ReadLayer \/ Ocr \/ Reread
    \/ UploadFile \/ Recognise

ParsersSpec == ParsersInit /\ [][ParsersNext]_parserVars
-------------------------------------------------------------------------------
ChunkOf(i) == (i - 1) \div PAGE_CHUNK_SIZE
Sees(i) == IF parser = "docling" THEN InLayer(i) ELSE OnPage(i)

\* Joining and splitting again keeps the page breaks up to page i: no call up to there
\* has an empty page first or last, and the only page has no rule in it.
BreaksKept(i) ==
    parser = "docling" =>
        /\ \A c \in 0..ChunkOf(i) :
            /\ InLayer(c * PAGE_CHUNK_SIZE + 1) # <<>>
            /\ InLayer(Min({(c + 1) * PAGE_CHUNK_SIZE, Len(pdf)})) # <<>>
        /\ Len(pdf) = 1 => pdf[1] # "ruled"

\* Docling was asked for page i, or no call failed.
PageAsked(i) == cutAt # 0 => i < cutAt

\* A document that was parsed has every page of the file that the parser can read and was
\* given, as a whole and under its own number, and no pages besides, whatever chunks it was
\* read in and whatever pages OCR was made of: recommendations are cited by these numbers.
\* Two things are left out.  Where BreaksKept is false docling's page numbers are off, or
\* pages are lost.  And where docling says of a later chunk that it failed, the document is
\* short of the pages from there on and counts as parsed.
PagesAreTrue ==
    phase = "done" =>
        /\ BreaksKept(Len(pdf)) => Len(result) <= Len(pdf)
        /\ \A i \in DOMAIN pdf :
            Sees(i) # <<>> /\ BreaksKept(i) /\ PageAsked(i)
                => i \in DOMAIN result /\ result[i] = Sees(i)
===============================================================================

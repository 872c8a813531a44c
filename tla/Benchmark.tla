----------------------------- MODULE Benchmark ------------------------------
(***************************************************************************)
(* The benchmark (spike/benchmark.py): one thread reads and scores letter  *)
(* by letter, another samples the connections of the pipeline's processes  *)
(* until it is stopped; the report joins what both have seen.              *)
(***************************************************************************)
EXTENDS TestSet

CONSTANTS
    Directories,  \* the letters of the test set that may be in the directory
    Dates,        \* dates they may carry
    TruthFiles,   \* sets of keys a truth file may have; {} for no file
    Keywords,     \* keyword lists the model may answer with
    Conns,        \* connections processes of the pipeline may open
    Engines,      \* OCR engines: "apple_vision", "paddleocr"
    NoReport

Keys == {"language", "doc_type", "sender_name", "document_date", "reference", "full_text"}
Fields == {"category", "language", "sender_name", "document_date", "reference",
           "keywords_curated"}

ASSUME BenchmarkAssumption ==
    /\ \A S \in Directories : S \subseteq Nat /\ S # {} /\ IsFiniteSet(S)
    /\ Dates \subseteq [year : Nat, month : Nat, day : Nat]
    /\ \A d \in Dates : IsDate(d.year, d.month, d.day)
    /\ TruthFiles \subseteq SUBSET Keys
    /\ Keywords \subseteq Seq(KeywordText)
    /\ Engines \subseteq {"apple_vision", "paddleocr"}

VARIABLES
    bench,       \* the main thread: where it is
    engines,     \* available_engines()
    images,      \* image_paths
    row,         \* the letter being read: [letter, truth, answer, scores]
    results,     \* what the report is made of, letter by letter
    report,      \* summary, or NoReport
    monitor,     \* the monitor's thread
    stop,        \* its stop event
    egress,      \* connections it has recorded
    open,        \* connections open now
    lasting,     \* history: connections open ever since the monitor was started
    joined       \* history: the monitor had ended when the report was made

mainVars == <<bench, engines, images, row, results, report, joined>>
monitorVars == <<monitor, stop, egress, open, lasting>>
benchVars == <<mainVars, monitorVars>>

NoAnswer == [document_date |-> <<>>]
NoRow == [letter |-> [id |-> -1], truth |-> {}, answer |-> NoAnswer, scores |-> <<>>]

-----------------------------------------------------------------------------
(* Answers of the model *)

\* Copied from the page: the reference and the name in any spelling; date and
\* town by themselves, or with what is printed around them.  Street and city
\* are lines of their own on the page (templates.py:222-223); the comma between
\* them is the model's.
Faithful(letter) ==
    {[category |-> letter.domain, language |-> letter.truth.language,
      sender_name |-> Spelt(letter.page.sender.word, form),
      document_date |-> IF whole THEN letter.page.dateline ELSE <<letter.page.date>>,
      reference |-> Spelt(letter.page.reference.word, form),
      sender_place |-> IF whole THEN <<letter.page.street, letter.page.city>>
                       ELSE <<letter.page.city>>,
      keywords |-> k] :
        form \in {"Capital", "UPPER"}, whole \in BOOLEAN, k \in Keywords}

\* Nothing was read.
Blank ==
    [category |-> "other", language |-> "other", sender_name |-> Spelt("", ""),
     document_date |-> <<>>, reference |-> Spelt("", ""), sender_place |-> <<>>, keywords |-> <<>>]

\* The model is given the text of the first engine, or none.
Answers(letter) == {Blank} \cup (IF engines = {} THEN {} ELSE Faithful(letter))

-----------------------------------------------------------------------------
(* Scoring *)

\* _TRUTH_CATEGORY
TruthCategory(type) ==
    CASE type = "invoice" -> "commercial"
      [] type = "government_tax" -> "government"
      [] type = "subscription" -> "telecom"
      [] OTHER -> type

\* The keys score_fields reads without asking whether they are there.
NeededKeys == Keys \ {"full_text"}

ScoreFields(answer, truth) ==
    [category |-> answer.category = TruthCategory(truth.doc_type),
     language |-> answer.language = truth.language,
     sender_name |-> Lower(answer.sender_name) = truth.sender_name,
     document_date |-> NormalizeDate(answer.document_date) = truth.document_date,
     reference |-> Lower(answer.reference) = truth.reference,
     keywords_curated |-> Len(CurateKeywords(answer.keywords, 8)) \in 3 .. 8]

-----------------------------------------------------------------------------
(* The main thread *)

\* (broken) the monitor waits two seconds before each sample.
WaitsFirst == "wait"
FirstOfMonitor == "sample"

\* The images are listed; there is at least one.
\* available_engines: an engine that cannot be made is recorded and left out.
\* Only then the monitor is started; its first look at the stop event is
\* seconds before the first letter is through.
BenchStart ==
    /\ bench = "start"
    /\ images' \in Directories
    /\ engines' \in SUBSET Engines
    /\ bench' = "letter"
    /\ monitor' = FirstOfMonitor
    /\ lasting' = open
    /\ UNCHANGED <<row, results, report, joined, stop, egress, open>>

\* Leaving the with block, by its end or by an exception.
BenchLeave(pc) == stop' = TRUE /\ bench' = pc

Left == {i \in images : i > row.letter.id}

\* Preprocess and OCR of the next image, by every engine; its accuracy is
\* computed when there is a truth, from full_text.
BenchOcr ==
    /\ bench = "letter"
    /\ \E i \in Left, keys \in TruthFiles :
        /\ \A j \in Left : i <= j
        /\ \E letter \in Compose(i, Dates) :
            row' = [letter |-> letter, truth |-> keys, answer |-> NoAnswer, scores |-> <<>>]
        /\ \/ /\ keys = {} \/ engines = {} \/ "full_text" \in keys
              /\ bench' = "extract"
              /\ UNCHANGED stop
           \/ BenchLeave("raising")
    /\ UNCHANGED <<engines, images, results, report, joined, monitor, egress, open, lasting>>

\* The row is appended: which engines were scored, whether the model answered,
\* and the scores.
Append1(answered, scores) ==
    results' = Append(results,
        [id |-> row.letter.id, tier |-> row.letter.tier, ocr |-> IF row.truth = {} THEN {} ELSE engines,
         failed |-> ~answered, scores |-> scores])

\* The extraction raises: a data point.
BenchExtractFails ==
    /\ bench = "extract"
    /\ bench' = "letter"
    /\ Append1(FALSE, <<>>)
    /\ UNCHANGED <<engines, images, row, report, joined, monitorVars>>

BenchExtract ==
    /\ bench = "extract"
    /\ \E answer \in Answers(row.letter) : row' = [row EXCEPT !.answer = answer]
    /\ bench' = "score"
    /\ UNCHANGED <<engines, images, results, report, joined, monitorVars>>

\* Without a truth nothing is scored; a missing key is a KeyError, which
\* nothing catches.
BenchScore ==
    /\ bench = "score"
    /\ \/ /\ row.truth = {}
          /\ Append1(TRUE, <<>>)
          /\ bench' = "letter"
          /\ UNCHANGED <<row, stop>>
       \/ /\ row.truth # {} /\ NeededKeys \subseteq row.truth
          /\ row' = [row EXCEPT !.scores = ScoreFields(row.answer, row.letter.truth)]
          /\ Append1(TRUE, row'.scores)
          /\ bench' = "letter"
          /\ UNCHANGED stop
       \/ /\ row.truth # {} /\ ~(NeededKeys \subseteq row.truth)
          /\ BenchLeave("raising")
          /\ UNCHANGED <<row, results>>
    /\ UNCHANGED <<engines, images, report, joined, monitor, egress, open, lasting>>

\* No image is left.
BenchDone ==
    /\ bench = "letter"
    /\ Left = {}
    /\ BenchLeave("join")
    /\ UNCHANGED <<engines, images, row, results, report, joined, monitor, egress, open, lasting>>

\* join(timeout=5): a sample may take longer.
Joined == monitor \in {"ended", "dead", "sample"}

BenchJoin ==
    /\ bench \in {"join", "raising"}
    /\ Joined
    /\ bench' = IF bench = "join" THEN "summarize" ELSE "aborted"
    /\ joined' = (monitor = "ended")
    /\ UNCHANGED <<engines, images, row, results, report, monitorVars>>

\* (broken) the time of every letter is taken.
TimedAll(r) == TRUE
Timed(r) == ~r.failed

Ids(rows) == {r.id : r \in rows}
\* Each list of numbers the report takes a mean of is given by the letters it
\* is made of.
Summary ==
    LET rows == Range(results)
        scored == {r \in rows : r.scores # <<>>}
    IN
    [letters |-> Len(results),
     engine_errors |-> Engines \ engines,
     ocr |-> [e \in Engines |->
                [t \in {"clean", "good", "poor"} |->
                    Ids({r \in rows : r.tier = t /\ e \in r.ocr})]],
     scored |-> [f \in Fields |-> Ids(scored)],
     right |-> [f \in Fields |-> Ids({r \in scored : r.scores[f]})],
     timed |-> Ids({r \in rows : Timed(r)}),
     failures |-> Ids({r \in rows : r.failed}),
     egress |-> egress]

BenchSummarize ==
    /\ bench = "summarize"
    /\ report' = Summary
    /\ bench' = "reported"
    /\ UNCHANGED <<engines, images, row, results, joined, monitorVars>>

BenchStep ==
    \/ BenchStart \/ BenchOcr \/ BenchExtractFails \/ BenchExtract \/ BenchScore
    \/ BenchDone \/ BenchJoin \/ BenchSummarize

-----------------------------------------------------------------------------
(* The monitor's thread and what it watches *)

MonitorCheck ==
    /\ monitor = "check"
    /\ monitor' = IF stop THEN "ended" ELSE "sample"
    /\ UNCHANGED <<mainVars, stop, egress, open, lasting>>

\* ps and lsof; a tool that is not installed ends the thread.
MonitorSample ==
    /\ monitor = "sample"
    /\ \/ monitor' = "wait" /\ egress' = egress \cup open
       \/ monitor' = "dead" /\ UNCHANGED egress
    /\ UNCHANGED <<mainVars, stop, open, lasting>>

\* wait(2.0): stopped, or time for the next sample.
MonitorWait ==
    /\ monitor = "wait"
    /\ monitor' = "check"
    /\ UNCHANGED <<mainVars, stop, egress, open, lasting>>

Connect(c) ==
    /\ bench \notin {"off", "reported", "aborted"}
    /\ c \notin open
    /\ open' = open \cup {c}
    /\ UNCHANGED <<mainVars, monitor, stop, egress, lasting>>
Disconnect(c) ==
    /\ bench \notin {"off", "reported", "aborted"}
    /\ c \in open
    /\ open' = open \ {c}
    /\ lasting' = lasting \ {c}
    /\ UNCHANGED <<mainVars, monitor, stop, egress>>

-----------------------------------------------------------------------------
BenchRest(pc) ==
    /\ bench = pc
    /\ engines = {} /\ images = {} /\ row = NoRow /\ results = <<>> /\ report = NoReport
    /\ monitor = "off" /\ stop = FALSE /\ egress = {} /\ lasting = {} /\ joined = FALSE
BenchInit == BenchRest("start") /\ open \in SUBSET Conns
BenchNext ==
    \/ BenchStep
    \/ MonitorCheck \/ MonitorSample \/ MonitorWait
    \/ \E c \in Conns : Connect(c) \/ Disconnect(c)
BenchSpec == BenchInit /\ [][BenchNext]_benchVars

-----------------------------------------------------------------------------
(* Properties *)

\* The different keywords of an answer that pass the filters.
Passing(raw) == {Lower(raw[i].text) : i \in {j \in 1 .. Len(raw) : Kept(raw[j])}}

\* Page, truth, normalisers and scores agree: an answer copied from the page,
\* in any of the forms the page prints, scores on every field, and what the
\* archive would file of it is the letter's date and town.  Its keywords score
\* if three different ones pass the filters, however often each is repeated.
\* British Gas is left out: its truth says telecom, the prompt's rule says
\* utility (entities.py:176, benchmark.py:109, extract.py:60).
ReadBack ==
    LET answer == row.answer
        letter == row.letter
        filed == Filed(answer)
    IN (bench = "letter" /\ row.scores # <<>> /\ answer # Blank) =>
        /\ \A f \in Fields \ {"category", "keywords_curated"} : row.scores[f]
        /\ row.scores["keywords_curated"] <=> Cardinality(Passing(answer.keywords)) >= 3
        /\ row.scores["category"] <=> letter.domain # "utility"
        /\ filed.valid
        /\ filed.document_date = letter.truth.document_date
        /\ [i \in DOMAIN filed.correspondent_place |-> filed.correspondent_place[i].text] = letter.town

\* Curation (validate.py:42-73) repeats no keyword, loses one that passes its
\* filters only to eight others, and changes nothing in what is curated.
Curated ==
    LET raw == row.answer.keywords
        kept == CurateKeywords(raw, 8)
    IN bench = "score" =>
        /\ \A i, j \in DOMAIN kept : Lower(kept[i].text) = Lower(kept[j].text) => i = j
        /\ \A word \in Passing(raw) :
              (\E j \in DOMAIN kept : Lower(kept[j].text) = word) \/ Len(kept) = 8
        /\ CurateKeywords(kept, 8) = kept

\* A year does not cost a term its place (validate.py:52-58, "aren't killed by
\* their year part"): a keyword that is kept is kept with a year before or after
\* it as well, unless the year makes it read as an IBAN or a postcode
\* ("2024 EK voetbal").
YearsDoNotCount ==
    bench = "score" =>
        \A k \in Range(row.answer.keywords) : Kept(k) =>
            \A runs \in {<<YearRun, Chars("space", 1)>> \o k.runs,
                         k.runs \o <<Chars("space", 1), YearRun>>} :
                Kept([k EXCEPT !.runs = runs]) \/ Ibanish(runs) \/ Postcodeish(runs)

\* The report accounts for every image (benchmark.py:207-255): each is timed or listed as a failure
\* and never both, each engine is measured or reported unavailable, and every
\* field is averaged over letters that were read by every engine in it.
ReportAccounts ==
    report # NoReport =>
        /\ report.timed \cup report.failures = images /\ report.letters = Cardinality(images)
        /\ report.timed \cap report.failures = {}
        /\ \A e \in Engines :
              e \in report.engine_errors =>
                  \A t \in {"clean", "good", "poor"} : report.ocr[e][t] = {}
        /\ \A f \in Fields :
              report.right[f] \subseteq report.scored[f] /\ report.scored[f] \subseteq report.timed
        /\ \A e \in Engines \ report.engine_errors, f \in Fields :
              report.scored[f] \subseteq UNION {report.ocr[e][t] : t \in {"clean", "good", "poor"}}

\* The egress check (benchmark.py:31-35, 266): a connection that was open all
\* the time the pipeline was watched is in the report, if the monitor ended by
\* itself before the report was made: neither a slow last sample nor a missing
\* tool cut it short.
EgressSeen == (report # NoReport /\ joined) => lasting \subseteq report.egress
=============================================================================

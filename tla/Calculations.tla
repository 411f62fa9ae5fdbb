----------------------------- MODULE Calculations -----------------------------
(***************************************************************************)
(* The parts of the system that keep no state, asked one question each: a  *)
(* behaviour is one call of one of them on one of the inputs below, and    *)
(* its answer.  The extraction takes the recorded model with it, the       *)
(* records pipeline its readers, the evaluation both arms.                 *)
(***************************************************************************)
EXTENDS Advisor, ConfidencePolicy, Passages, Records, Evaluation

CONSTANTS
  Profiles, Registries,        \* what the advisor is asked about
  Policies,                    \* the adjudication policies
  Texts, MaxWindow,            \* the documents chunked
  Readings, Responses,         \* documents with their chunks; model responses
  Configs, Rows, MaxRows,      \* the pipelines, and the rows of their sources
  Facts, FactConfigs,          \* typed cells one after the other
  Tables, KeyColumn,           \* the states of a structured source
  GoldSets, Outputs, Arms      \* the evaluations

\* A registry has one graph of a name, and declarations are finite.
ASSUME AdviceAssumption ==
  /\ \A profile \in Profiles : IsFiniteSet(profile.terms)
  /\ \A registry \in Registries :
       /\ IsFiniteSet(registry)
       /\ \A g \in registry : g.name \in Seq(Nat) /\ IsFiniteSet(g.terms)
       /\ \A g, h \in registry : g.name = h.name => g = h

\* Documents are sequences of characters.
ASSUME TextsAssumption ==
  MaxWindow \in Nat /\ \A text \in Texts : text \in Seq(ToSet(text))

\* Chunks are spans of their document; a response that can be parsed is a
\* sequence whose quotes are texts.  Absent is not a span.
ASSUME ExtractAssumption ==
  /\ \A reading \in Readings :
       LET text == reading.document.text  spans == reading.spans IN
       /\ text \in Seq(ToSet(text)) /\ spans \in Seq(ToSet(spans))
       /\ \A i \in DOMAIN spans : \E start \in 0..Len(text) : \E end \in start..Len(text) :
            spans[i] = Span(start, end)
  /\ \A response \in Responses \ {Malformed} :
       /\ response \in Seq(ToSet(response))
       /\ \A i \in DOMAIN response :
            response[i] # Malformed =>
              LET quote == response[i].quote IN
              quote \in {Absent, Malformed} \/ quote \in Seq(ToSet(quote))
  /\ Absent \notin [start: Nat, end: Nat]

\* Builders are of the three kinds, and come in an order; the fields of a
\* schema have one of the five types and are looked for in an order.
ASSUME IngestAssumption ==
  /\ MaxRows \in Nat
  /\ \A config \in Configs \cup FactConfigs :
       /\ config.schema \in Seq(ToSet(config.schema))
       /\ \A i \in DOMAIN config.schema :
            LET field == config.schema[i] IN
            /\ field.type \in {"str", "int", "float", "bool", "datetime"}
            /\ field.sources \in Seq(ToSet(field.sources))
       /\ config.builders \in Seq(ToSet(config.builders))
       /\ \A b \in DOMAIN config.builders :
            LET builder == config.builders[b] IN
            /\ builder.kind \in {"entity", "attribute", "relation"}
            /\ builder.kind = "attribute" => builder.attributes \in Seq(ToSet(builder.attributes))

\* A typed value with the text that writes it: a number written as text is
\* that number, with no blanks around it, and 0 and 1 are boolean words.
Writes(raw) ==
  LET m == Means[raw.text] IN
  /\ raw = Raw(raw.type, raw.text) /\ raw.type \in {"str", "int", "float", "bool"}
  /\ Raw("str", raw.text) # Null
  /\ raw.type # "str" => m.strip # ""
  /\ raw.type \in {"int", "float"} =>
       m.strip = raw.text /\ (m.int # Null => m.int = m.float \div 10)
  /\ raw.type = "int" /\ raw.text \in {"0", "1"} => m.bool = (raw.text = "1")

\* A row is a list of cells.
ASSUME FactsAssumption ==
  /\ Null \notin Facts
  /\ \A row \in Facts :
       /\ row \in Seq(ToSet(row))
       /\ \A i \in DOMAIN row : row[i].raw = Null \/ Writes(row[i].raw)

\* A table has finitely many rows, each with one number in the key column;
\* that no other row of the table has it is up to whoever names the key
\* column, the code takes it for granted.
ASSUME TablesAssumption ==
  \A table \in Tables :
    /\ IsFiniteSet(table)
    /\ \A row \in table :
         /\ row \in Seq(ToSet(row))
         /\ Cardinality({ i \in DOMAIN row : row[i].header = KeyColumn }) = 1
         /\ KeyOf(row, KeyColumn) \in Int
    /\ \A r, s \in table : KeyOf(r, KeyColumn) = KeyOf(s, KeyColumn) => r = s

\* Policies pass the validator of the thresholds.
ASSUME PoliciesAssumption == Policies \subseteq Policy

\* Gold items and candidates come in lists, candidates are of the three
\* categories; cost and latency are numbers where they were measured (an arm
\* without a CostLatency measured neither).
ASSUME EvaluationAssumption ==
  /\ \A gold \in GoldSets : gold.items \in Seq(ToSet(gold.items))
  /\ \A output \in Outputs \cup Arms :
       /\ output = [ candidates |-> output.candidates, evidence |-> output.evidence,
                     attempted |-> output.attempted, abstained |-> output.abstained,
                     failed |-> output.failed, cost |-> output.cost ]
       /\ output.candidates \in Seq(ToSet(output.candidates))
       /\ \A j \in DOMAIN output.candidates : output.candidates[j].fact.kind \in Categories
       /\ output.cost.usd \in Int \cup {Unmeasured}
       /\ output.cost.seconds \in Int \cup {Unmeasured}

VARIABLE call  \* what was called, given what, and the answer

Nothing == [op |-> "none"]

Init == call = Nothing

Idle == call = Nothing

Call(op, given, answer) == call' = [op |-> op, given |-> given, answer |-> answer]

-----------------------------------------------------------------------------

Advise ==
  /\ Idle
  /\ \E profile \in Profiles, registry \in Registries :
       Call("advise", [profile |-> profile, registry |-> registry], Recommend(profile, registry))

Adjudicate ==
  /\ Idle
  /\ \E p \in Policies, s \in CandidateScores, disposition \in IdentityDisposition :
       Call("adjudicate", [policy |-> p, scores |-> s, disposition |-> disposition],
            Route(p, s, disposition))

Segment ==
  /\ Idle
  /\ \E text \in Texts, window \in 1..MaxWindow : \E overlap \in 0..(window - 1) :
       Call("segment", [text |-> text, window |-> window, overlap |-> overlap],
            [ whole |-> WholeDocument(text), paragraphs |-> Paragraphs(text),
              windows |-> FixedWindows(text, window, overlap) ])

\* A recording of the model answering every chunk of a document is replayed.
Extract ==
  /\ Idle
  /\ \E reading \in Readings :
       LET chunks == Chunks(reading.document, reading.spans) IN
       \E told \in [ DOMAIN chunks -> Responses ] :
         LET recording == Recording([ k \in DOMAIN chunks |->
                                        [prompt |-> chunks[k].text, response |-> told[k]] ])
             heard == [ k \in DOMAIN chunks |-> Replay(recording, chunks[k].text) ]
         IN Call("extract", [document |-> reading.document, chunks |-> chunks, heard |-> heard],
                 [ k \in DOMAIN chunks |->
                     ExtractResult(heard[k], 0, chunks[k], "extractor") ])

Ingest ==
  /\ Idle
  /\ \E config \in Configs, n \in 0..MaxRows, fails \in BOOLEAN :
       \E rows \in [ 1..n -> Rows ] :
         LET sources == [ i \in 1..n |-> JsonRecord(i, rows[i]) ]
         IN Call("ingest", [config |-> config, sources |-> sources, fails |-> fails],
                 Collect(config, sources, fails))

\* The row as the cells of a CSV file.
AsText(row) ==
  [ i \in DOMAIN row |->
      [ header |-> row[i].header,
        raw |-> IF row[i].raw = Null THEN Null ELSE Raw("str", row[i].raw.text) ] ]

\* The same row written as JSON and as CSV.
ReadBoth ==
  /\ Idle
  /\ \E config \in FactConfigs, row \in Facts, surplus \in BOOLEAN :
       Call("read_both", [config |-> config, row |-> row],
            [ json |-> Collect(config, << JsonRecord(1, row) >>, FALSE),
              csv |-> Collect(config, << CsvRecord(1, AsText(row), surplus) >>, FALSE) ])

\* The records of a snapshot, with the evidence each cites.
ReadSnapshot(table) ==
  LET rows == OpenSnapshot(table, KeyColumn)
      fragment(i) == StructuredRecord(i, rows[i], <<KeyColumn>>).fragment
  IN { [ cells |-> rows[i], fragment |-> fragment(i),
         evidence |-> SourceEvidenceId(fragment(i), rows) ] : i \in DOMAIN rows }

\* A structured source is synchronized, changes, and is synchronized again.
Sync ==
  /\ Idle
  /\ \E before, after \in Tables :
       Call("sync", [before |-> before, after |-> after],
            [before |-> ReadSnapshot(before), after |-> ReadSnapshot(after)])

Grade ==
  /\ Idle
  /\ \E gold \in GoldSets, output \in Outputs, ontology \in {Unmeasured} \cup
           { [ kind \in Categories |-> IF kind = "entity" THEN {"known"} ELSE {} ] } :
       /\ GoldSetValid(gold)
       /\ ArmOutputValid(output)
       /\ Call("grade", [gold |-> gold, output |-> output, ontology |-> ontology],
               EvaluateExtraction(output, gold, ontology))

Compare ==
  /\ Idle
  /\ \E gold \in GoldSets, baseline, enhanced \in Arms, field \in {"recall", "precision"},
        minItems \in 1..2 :
       /\ GoldSetValid(gold)
       /\ Call("compare", [ gold |-> gold, baseline |-> baseline, enhanced |-> enhanced,
                            field |-> field, minItems |-> minItems ],
               CompareArms(baseline, enhanced, gold, "entity", field, minItems))

Next ==
  Advise \/ Adjudicate \/ Segment \/ Extract \/ Ingest \/ ReadBoth \/ Sync
    \/ Grade \/ Compare

Spec == Init /\ [][Next]_call

-----------------------------------------------------------------------------
(* Advice *)

\* Data may only be put into the very same physical graph if that graph is
\* marked for what the data is: minors' data into a graph of minors' data,
\* computed data into a computed one, and no two tenancy classes that are
\* known to differ; two factors at least must speak for it.  What is
\* recommended depends on the best graph alone: the others in the registry
\* change nothing.  (kgis/registry/advisor.py)
AdviceIsGuarded ==
  call.op = "advise" =>
    LET profile == call.given.profile  answer == call.answer
        target == { g \in call.given.registry : g.name = answer.target }
    IN /\ answer.outcome = "EXTEND_SAME_PHYSICAL" =>
            /\ Cardinality(answer.scored) >= 2
            /\ \A g \in target :
                 /\ profile.minors = TRUE => g.minors = TRUE
                 /\ profile.computed = TRUE => g.computed = TRUE
                 /\ g.tenancy = profile.tenancy \/ Unknown \in {g.tenancy, profile.tenancy}
       /\ ToContract(answer).action = "extend" => Cardinality(target) = 1
       /\ target # {} => Recommend(profile, target) = answer

-----------------------------------------------------------------------------
(* Adjudication *)

\* Scores one step worse on one axis.
StepsWorse(s) ==
  { [s EXCEPT !.extraction = @ - 1], [s EXCEPT !.reliability = @ - 1],
    [s EXCEPT !.risk = @ + 1],
    [s EXCEPT !.identity = IF @ = Unstated THEN @ ELSE @ - 1] } \cap CandidateScores

\* Worse scores never reach a more permissive route, whatever the policy, and
\* a candidate whose identity is unresolved is never routed more permissively
\* than the same candidate resolved or new.  No candidate above the policy's
\* automatic risk is applied without anyone looking at it.
\* (kg_contracts/policy.py)
RoutingIsMonotone ==
  call.op = "adjudicate" =>
    LET p == call.given.policy  s == call.given.scores  d == call.given.disposition IN
    /\ \A t \in StepsWorse(s) :
         RouteSeverity(Route(p, t, d)) >= RouteSeverity(call.answer)
    /\ RouteSeverity(Route(p, s, "UNRESOLVED")) >= RouteSeverity(call.answer)
    /\ call.answer = "AUTO" => s.risk <= p.autoRisk

-----------------------------------------------------------------------------
(* Passages *)

Within(inner, outer) == outer.start <= inner.start /\ inner.end <= outer.end

SolidOffsets(text) == { i \in 0..(Len(text) - 1) : text[i + 1] \notin Blanks }

\* Each window adds to the one before, and every stretch of it that is no
\* longer than overlap + 1 is in one of them.
WindowsCover(windows, text, overlap) ==
  /\ \A v, w \in DOMAIN windows :
       v # w => ~Within(windows[v], windows[w]) /\ (v < w => windows[v].start < windows[w].start)
  /\ \A a \in 0..Len(text), n \in 1..(overlap + 1) :
       a + n <= Len(text) => \E w \in DOMAIN windows : Within(Span(a, a + n), windows[w])

ParagraphsCover(paragraphs, text) ==
  /\ \A i \in SolidOffsets(text) :
       Cardinality({ p \in DOMAIN paragraphs : Within(Span(i, i + 1), paragraphs[p]) }) = 1
  /\ \A p \in DOMAIN paragraphs :
       /\ {paragraphs[p].start, paragraphs[p].end - 1} \subseteq SolidOffsets(text)
       /\ Occurrences(Slice(text, paragraphs[p].start, paragraphs[p].end),
                      <<Newline, Newline>>) = {}

\* The windows of a document hold every stretch of it that is no longer than
\* overlap + 1 characters wholly in one of them, in order, and none within
\* another; the paragraphs hold every character that is not blank exactly
\* once, begin and end on one, and never hold a blank line.
\* (kgis/extraction/documents.py)
ChunksCoverDocument ==
  call.op = "segment" =>
    /\ WindowsCover(call.answer.windows, call.given.text, call.given.overlap)
    /\ ParagraphsCover(call.answer.paragraphs, call.given.text)

AnchoredIn(given, answer) ==
  LET cited(k) == IF answer[k] = Malformed THEN <<>> ELSE answer[k].candidates
      cites(k, i) == cited(k)[i].span # Absent
  IN \A k \in DOMAIN answer :
       LET chunk == given.chunks[k] IN
       /\ \A i \in DOMAIN cited(k) :
            LET quote == given.heard[k][i].quote  span == cited(k)[i].span IN
            /\ cites(k, i) => /\ Within(span, chunk.span)
                              /\ Slice(given.document.text, span.start, span.end) = quote
            /\ ~cites(k, i) /\ quote \notin {Absent, Malformed, <<>>} =>
                 Occurrences(chunk.text, quote) = {}
       /\ \A j \in DOMAIN cited(k) : \A i \in 1..(j - 1) :
            cites(k, j) /\ cited(k)[i].refs = cited(k)[j].refs =>
              /\ cited(k)[i].quote = cited(k)[j].quote
              /\ \A at \in Occurrences(chunk.text, cited(k)[j].quote) :
                   \E c \in 1..(j - 1) :
                     cites(k, c) /\ cited(k)[c].span.start = chunk.span.start + at
       /\ \A other \in DOMAIN answer \ {k} :
            \A i \in DOMAIN cited(k), c \in DOMAIN cited(other) :
              cites(k, i) => cited(k)[i].refs # cited(other)[c].refs

\* Every quote a candidate cites is, at the document offsets recorded, the
\* exact text of the document, within the chunk the model read; an entry
\* loses its quote only if the chunk does not hold it.  Two citations with
\* one evidence id are the same quote of one chunk, and only if every
\* occurrence of it there was already claimed by an earlier item.
\* (kgis/extraction/parse.py, provenance.py)
QuotesAreAnchored ==
  call.op = "extract" => AnchoredIn(call.given, call.answer)

-----------------------------------------------------------------------------
(* Records *)

\* Nothing a source held is lost without a trace: a row is valid or counted
\* invalid, and of an invalid one nothing is built; what a valid row built
\* is planned, suppressed or rejected.  A suppressed candidate repeats the
\* key of one that is planned, a term the ontology does not declare is
\* named by a rejection or by the coverage unless its candidate is
\* suppressed, and a run that reports success planned or
\* suppressed all that its rows built.  (kgis/pipeline.py)
RecordsAreAccounted ==
  call.op = "ingest" =>
    LET config == call.given.config  report == call.answer
        normal(i) == Normalize(call.given.sources[i], config.schema)
        sound == { i \in DOMAIN call.given.sources :
                     /\ RecordValid(normal(i), config.builders)
                     /\ Build(config.builders, normal(i)) # Null }
        built == UNION { ToSet(Build(config.builders, normal(i))) : i \in sound }
        told == ToSet(report.planned) \cup ToSet(report.suppressed) \cup ToSet(report.rejected)
    IN /\ report.valid = Cardinality(sound) /\ report.valid + report.invalid = report.read
       /\ built = told
       /\ report.built = Len(report.planned) + Len(report.suppressed) + Len(report.rejected)
       /\ Cardinality(Keys(report.planned)) = Len(report.planned)
       /\ Keys(report.suppressed) \subseteq Keys(report.planned)
       /\ \A c \in told : ~Declares(config.ontology, c) =>
            \/ c \in ToSet(report.rejected) \cup ToSet(report.suppressed)
            \/ c.term \in Coverage(config, report).unknown
       /\ Succeeded(report) =>
            \A c \in told : c.key \in Keys(report.planned) /\ ~call.given.fails

\* One of the two formats refuses the row, or both give the same candidates.
SameInBothFormats(answer) ==
  \/ 1 \in {answer.csv.invalid, answer.json.invalid}
  \/ answer.csv.planned = answer.json.planned

KeepsCoordinates(given, answer) ==
  /\ \A r \in answer.before, s \in answer.after :
       /\ r.cells = s.cells => r.fragment = s.fragment
       /\ r.evidence = s.evidence => r.cells = s.cells /\ given.before = given.after
  /\ \A r, s \in answer.before : r.fragment = s.fragment => r = s

\* A row has one identity whatever format it is written in and whatever
\* surrounds it: CSV and JSON give the same candidates, with the same keys,
\* or one of them refuses the row; and a row of a structured source keeps
\* its coordinates when other rows come and go, shares them with no other,
\* and cites evidence of the very read it comes from.
\* (kgis/normalize.py, kgis/structured)
IdentityIsStable ==
  /\ call.op = "read_both" => SameInBothFormats(call.answer)
  /\ call.op = "sync" => KeepsCoordinates(call.given, call.answer)

-----------------------------------------------------------------------------
(* Evaluation *)

\* Grading an output again with one of its candidates repeated at its end.
PaddingNeverHelps(given, was) ==
  \A j \in DOMAIN given.output.candidates :
    LET again == given.output.candidates[j]
        padded == [given.output EXCEPT !.candidates = Append(@, again)]
        is == EvaluateExtraction(padded, given.gold, given.ontology)
    IN /\ is.hallucinations = was.hallucinations + 1
       /\ is.prf[again.fact.kind].recall = was.prf[again.fact.kind].recall
       /\ RateAtMost(is.prf[again.fact.kind].precision, was.prf[again.fact.kind].precision)
       /\ is.unverified >= is.unsupported

Ungrounded(output) ==
  { j \in DOMAIN output.candidates :
      \A r \in output.candidates[j].refs :
        \/ r.relationship \notin Groundings
        \/ r.evidence \notin DOMAIN output.evidence
        \/ ~output.evidence[r.evidence].present }

WinIsEarned(given) ==
  LET baseline == given.baseline  enhanced == given.enhanced
      found(output) == Match(given.gold, output, "entity").goldHits
      metrics(output) == EvaluateExtraction(output, given.gold, Unmeasured)
  IN /\ \E i \in DOMAIN found(enhanced) : found(enhanced)[i] = 1 /\ found(baseline)[i] = 0
     /\ Cardinality(DOMAIN found(enhanced)) >= given.minItems
     /\ metrics(enhanced).hallucinations <= metrics(baseline).hallucinations
     /\ Cardinality(Ungrounded(enhanced)) <= Cardinality(Ungrounded(baseline))
     /\ \A m \in {"usd", "seconds"} :
          Unmeasured \in {baseline.cost[m], enhanced.cost[m]}
            \/ enhanced.cost[m] <= baseline.cost[m]

\* Emitting a fact again never helps an arm: precision does not rise, recall
\* stays, and a false positive is added.  A win is earned: the enhanced arm
\* found a gold item the baseline missed, without more false positives, more
\* ungrounded claims or a cost or latency measured to be higher, on enough items.
\* (kg_eval/matching.py, metrics.py, ablation.py)
ScoresAreEarned ==
  /\ call.op = "grade" => PaddingNeverHelps(call.given, call.answer)
  /\ call.op = "compare" /\ "IMPROVEMENT" \in call.answer => WinIsEarned(call.given)
=============================================================================

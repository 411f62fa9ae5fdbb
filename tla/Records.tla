------------------------------- MODULE Records -------------------------------
(***************************************************************************)
(* The records pipeline up to submission: a row of CSV, JSON or a          *)
(* structured snapshot (kgis/sources, kgis/structured) is normalized       *)
(* (normalize.py), validated (validate.py), built into candidates          *)
(* (builders.py) and admitted to the run (pipeline.py).                    *)
(*                                                                         *)
(* A row is a sequence of cells [header, raw].  A raw value is Null or a   *)
(* type with the text that writes it; Means tells, of every text, what     *)
(* str.strip, int, float (in tenths, like instants), the boolean words and *)
(* fromisoformat read in it, Null where they refuse it.  A composed key is *)
(* the sequence of its segments: a text that holds a slash is several.     *)
(* Fields that make a key are read as "str"; a builder's type stands for   *)
(* its entity type, lower-cased, with its namespace.                       *)
(***************************************************************************)
EXTENDS Integers, FiniteSets, SequencesExt

CONSTANTS
  Null,   \* None
  Fold,   \* the trimmed, case-folded form of a header
  Means   \* what each text reads as

\* Where a cell's header names a field: the name first, then the aliases.
Field(name, type, required, aliases) ==
  [name |-> name, type |-> type, required |-> required,
   sources |-> <<name>> \o aliases, default |-> Null, emptyAsNull |-> TRUE]

Raw(type, text) == [type |-> type, text |-> text]

Issue(code, field) == [code |-> code, field |-> field]

\* Every other code is an error.
Warnings == {"assumed_utc", "short_row", "unnamed_columns"}

-----------------------------------------------------------------------------
(* Readers *)

\* csv.DictReader writes a row as text, None for a cell that is missing;
\* surplus: the row is longer than the header.
CsvRecord(index, cells, surplus) ==
  [ fragment |-> index, cells |-> cells,
    issues |-> (IF surplus THEN << Issue("unnamed_columns", Null) >> ELSE <<>>) \o
               (IF \E i \in DOMAIN cells : cells[i].raw = Null
                  THEN << Issue("short_row", Null) >> ELSE <<>>) ]

\* A JSON element that is not an object is a record with an error.
JsonRecord(index, element) ==
  IF element = Null
    THEN [fragment |-> index, cells |-> <<>>, issues |-> << Issue("not_an_object", Null) >>]
    ELSE [fragment |-> index, cells |-> element, issues |-> <<>>]

\* Mutant: a row of a snapshot is known by its position.
StructuredRecord_ByIndex(index, cells, keyFields) ==
  [fragment |-> <<index>>, cells |-> cells, issues |-> <<>>]

\* A row of a snapshot is known by what its key columns are written as, by its
\* position without.
StructuredRecord(index, cells, keyFields) ==
  [ fragment |-> IF keyFields = <<>>
                   THEN <<index>>
                   ELSE [ k \in DOMAIN keyFields |->
                            <<keyFields[k],
                              { cells[i].raw.text : i \in { j \in DOMAIN cells :
                                                 cells[j].header = keyFields[k] } }>> ],
    cells |-> cells, issues |-> <<>> ]

\* The number in the key column of a row.
KeyOf(row, key) == Means[(CHOOSE c \in ToSet(row) : c.header = key).raw.text].int

\* open_snapshot(): SELECT ... ORDER BY the key column.
OpenSnapshot(table, key) ==
  CHOOSE rows \in [ 1..Cardinality(table) -> table ] :
    /\ ToSet(rows) = table
    /\ \A i, j \in DOMAIN rows : i < j => KeyOf(rows[i], key) <= KeyOf(rows[j], key)

\* The version of a snapshot is a digest of its rows in order; the id of a
\* row's evidence is one of its coordinates and that version.
SourceEvidenceId(fragment, version) == <<fragment, version>>

-----------------------------------------------------------------------------
(* Normalizing *)

\* The value a column holds, of the last one where headers fold alike.
Lookup(cells, field) ==
  LET under(key) == { i \in DOMAIN cells : Fold[cells[i].header] = Fold[key] }
      answering == { k \in DOMAIN field.sources : under(field.sources[k]) # {} }
  IN IF answering = {} THEN Null
     ELSE cells[Max(under(field.sources[Min(answering)]))].raw

IsAbsent(raw, field) ==
  raw = Null \/ (field.emptyAsNull /\ raw.type = "str" /\ Means[raw.text].strip = "")

Value(type, x) == [type |-> type, value |-> x]

CoerceInt(raw) ==
  LET m == Means[raw.text] IN
  CASE raw.type \in {"int", "float"} ->
         IF m.float % 10 = 0 THEN Value("int", m.float \div 10) ELSE Null
    [] raw.type = "str" -> IF m.int # Null THEN Value("int", m.int) ELSE Null
    [] OTHER -> Null

\* A boolean has no unambiguous string form.
CoerceStr(raw) ==
  CASE raw.type = "str" -> Value("str", Means[raw.text].strip)
    [] raw.type \in {"int", "float"} -> Value("str", raw.text)
    [] OTHER -> Null

CoerceFloat(raw) ==
  IF raw.type \in {"int", "float", "str"} /\ Means[raw.text].float # Null
    THEN Value("float", Means[raw.text].float) ELSE Null

CoerceBool(raw) ==
  LET m == Means[raw.text] IN
  CASE raw.type \in {"bool", "str"} -> IF m.bool # Null THEN Value("bool", m.bool) ELSE Null
    [] raw.type = "int" -> IF raw.text \in {"0", "1"} THEN Value("bool", raw.text = "1")
                                                      ELSE Null
    [] OTHER -> Null

CoerceDatetime(raw) ==
  IF raw.type = "str" /\ Means[raw.text].time # Null
    THEN Value("datetime", Means[raw.text].time.instant) ELSE Null

Coerce(raw, type) ==
  CASE type = "str" -> CoerceStr(raw)
    [] type = "int" -> CoerceInt(raw)
    [] type = "float" -> CoerceFloat(raw)
    [] type = "bool" -> CoerceBool(raw)
    [] type = "datetime" -> CoerceDatetime(raw)

\* A value or its default, and the issue reading it raises.
ReadField(record, field) ==
  LET raw == Lookup(record.cells, field)
      coerced == Coerce(raw, field.type)
  IN IF IsAbsent(raw, field)
       THEN [value |-> field.default,
             issues |-> IF field.required THEN << Issue("missing_required", field.name) >>
                                          ELSE <<>>]
       ELSE [value |-> coerced,
             issues |-> CASE coerced = Null -> << Issue("coercion_failed", field.name) >>
                          [] coerced # Null /\ field.type = "datetime"
                               /\ Means[raw.text].time.naive -> << Issue("assumed_utc", field.name) >>
                          [] OTHER -> <<>>]

\* SchemaNormalizer.normalize(); schema is a sequence of fields.
Normalize(record, schema) ==
  [ fragment |-> record.fragment,
    values |-> [ name \in { schema[i].name : i \in DOMAIN schema } |->
                   LET i == CHOOSE i \in DOMAIN schema : schema[i].name = name
                   IN ReadField(record, schema[i]).value ],
    extras |-> { record.cells[i].header : i \in { j \in DOMAIN record.cells :
                   \A f \in DOMAIN schema : \A s \in DOMAIN schema[f].sources :
                     Fold[schema[f].sources[s]] # Fold[record.cells[j].header] } },
    issues |-> record.issues \o
               FlattenSeq([ i \in DOMAIN schema |-> ReadField(record, schema[i]).issues ]) ]

-----------------------------------------------------------------------------
(* Building; a builder is a kind with the fields it reads *)

Get(record, name) == IF name \in DOMAIN record.values THEN record.values[name] ELSE Null

\* A non-empty string, or Null.
Text(record, name) ==
  LET v == Get(record, name) IN IF v = Null \/ v.value = "" THEN Null ELSE v.value

\* The time ValidPeriod takes a value for: an instant as it is, a number as a
\* timestamp, a text as what it writes of these; Null for anything else.
ValidTime(v) ==
  LET utc(at) == [instant |-> at, naive |-> FALSE] IN
  CASE v.type = "datetime" -> utc(v.value)
    [] v.type = "int" -> utc(10 * v.value)
    [] v.type = "float" -> utc(v.value)
    [] v.type = "str" /\ Means[v.value].time # Null -> Means[v.value].time
    [] v.type = "str" /\ Means[v.value].time = Null /\ Means[v.value].float # Null ->
         utc(Means[v.value].float)
    [] OTHER -> Null

Timeless(v) == v # Null /\ ValidTime(v) = Null

\* Valid time may be open at either end, and does not run backwards.
RefusedPeriod(from, to) ==
  \/ Timeless(from) \/ Timeless(to)
  \/ from # Null /\ to # Null /\ ValidTime(from).instant > ValidTime(to).instant

\* Only its start is part of a key.
PeriodSuffix(from) == IF from = Null THEN <<>> ELSE << <<"@", ValidTime(from)>> >>

\* The fields a record may not lack.
RequiredFields(builder) ==
  { builder.key } \cup (IF builder.kind = "relation" THEN {builder.object} ELSE {})

EntityKey(type, record, field) == <<type>> \o Means[Text(record, field)].segments

\* Null stands for the RecordDataError or ValidationError build() raises.
BuildEntity(builder, record) ==
  IF Text(record, builder.key) = Null
    THEN Null
    ELSE << [ kind |-> "entity", term |-> builder.type,
              key |-> EntityKey(builder.type, record, builder.key), value |-> Null ] >>

BuildAttributes(builder, record) ==
  LET from == Get(record, builder.from)  to == Get(record, builder.to)
      built(name) == [ kind |-> "attribute", term |-> name,
                       key |-> EntityKey(builder.type, record, builder.key)
                                 \o << name >> \o PeriodSuffix(from),
                       value |-> Get(record, name) ]
  IN IF Text(record, builder.key) = Null \/ RefusedPeriod(from, to)
       THEN Null
       ELSE FlattenSeq([ i \in DOMAIN builder.attributes |->
                           LET name == builder.attributes[i] IN
                           IF Get(record, name) = Null THEN <<>> ELSE << built(name) >> ])

BuildRelation(builder, record) ==
  LET from == Get(record, builder.from)  to == Get(record, builder.to)
  IN IF \/ Null \in { Text(record, builder.key), Text(record, builder.object) }
        \/ RefusedPeriod(from, to)
       THEN Null
       ELSE << [ kind |-> "relation", term |-> builder.term,
                 key |-> EntityKey(builder.type, record, builder.key) \o << builder.term >>
                           \o EntityKey(builder.objectType, record, builder.object)
                           \o PeriodSuffix(from),
                 value |-> Null ] >>

BuildOne(builder, record) ==
  CASE builder.kind = "entity" -> BuildEntity(builder, record)
    [] builder.kind = "attribute" -> BuildAttributes(builder, record)
    [] builder.kind = "relation" -> BuildRelation(builder, record)

\* One builder that raises drops the whole row.
Composite(built) ==
  IF \E b \in DOMAIN built : built[b] = Null THEN Null ELSE FlattenSeq(built)

Build(builders, record) ==
  Composite([ b \in DOMAIN builders |-> BuildOne(builders[b], record) ])

-----------------------------------------------------------------------------
(* Validating *)

\* The positions of the issues that are errors.
RecordErrors(record) ==
  { i \in DOMAIN record.issues : record.issues[i].code \notin Warnings }

\* IssueValidator, then RequiredValuesValidator for what the builders need.
RecordValid(record, builders) ==
  /\ RecordErrors(record) = {}
  /\ \A b \in DOMAIN builders : \A f \in RequiredFields(builders[b]) : Get(record, f) # Null

\* An empty vocabulary constrains nothing, and so does no ontology.
Declares(ontology, candidate) ==
  \/ ontology = Null
  \/ ontology[candidate.kind] = {}
  \/ candidate.term \in ontology[candidate.kind]

CandidateValid(config, candidate) == config.strict => Declares(config.ontology, candidate)

-----------------------------------------------------------------------------
(* The run *)

EmptyReport ==
  [ read |-> 0, valid |-> 0, invalid |-> 0, built |-> 0, suppressed |-> <<>>,
    rejected |-> <<>>, planned |-> <<>>, warned |-> 0, incomplete |-> FALSE ]

Keys(candidates) == { candidates[i].key : i \in DOMAIN candidates }

\* Mutant: a candidate reserves its key before it is validated.
Admit_KeyFirst(config, report, candidate) ==
  IF candidate.key \in Keys(report.planned) \cup Keys(report.rejected)
    THEN [report EXCEPT !.built = @ + 1, !.suppressed = Append(@, candidate)]
    ELSE IF CandidateValid(config, candidate)
      THEN [report EXCEPT !.built = @ + 1, !.planned = Append(@, candidate)]
      ELSE [report EXCEPT !.built = @ + 1, !.rejected = Append(@, candidate)]

\* A repeat of an admitted candidate is suppressed before anything else; one
\* the guard rejects does not claim its key.
Admit(config, report, candidate) ==
  LET counted == [report EXCEPT !.built = @ + 1] IN
  IF candidate.key \in Keys(report.planned)
    THEN [counted EXCEPT !.suppressed = Append(@, candidate)]
    ELSE IF CandidateValid(config, candidate)
      THEN [counted EXCEPT !.planned = Append(@, candidate)]
      ELSE [counted EXCEPT !.rejected = Append(@, candidate)]

\* The candidates of a record, one after the other.
AdmitAll(config, report, candidates) ==
  LET upTo[n \in 0..Len(candidates)] ==
        IF n = 0 THEN report ELSE Admit(config, upTo[n - 1], candidates[n])
  IN upTo[Len(candidates)]

\* A normalized record through validate, build and admit.
TakeNormalized(config, report, record) ==
  LET valid == RecordValid(record, config.builders)
      built == IF valid THEN Build(config.builders, record) ELSE Null
      seen == [report EXCEPT !.read = @ + 1,
                 !.warned = @ + Len(record.issues) - Cardinality(RecordErrors(record))]
  IN IF built = Null
       THEN [seen EXCEPT !.invalid = @ + 1]
       ELSE AdmitAll(config, [seen EXCEPT !.valid = @ + 1], built)

\* One record through all stages.
TakeRecord(config, report, source) ==
  TakeNormalized(config, report, Normalize(source, config.schema))

\* _collect(): the records the source yields, which may fail after the last.
Collect(config, sources, fails) ==
  LET upTo[n \in 0..Len(sources)] ==
        IF n = 0 THEN EmptyReport ELSE TakeRecord(config, upTo[n - 1], sources[n])
  IN [upTo[Len(sources)] EXCEPT !.incomplete = fails]

\* The coverage of the planned candidates against the ontology.
Coverage(config, report) ==
  LET declared == IF config.ontology = Null THEN {}
                  ELSE UNION { config.ontology[k] : k \in {"entity", "relation", "attribute"} }
      used == { report.planned[i].term : i \in DOMAIN report.planned }
  IN [ covered |-> IF declared = {} THEN Null
                   ELSE <<Cardinality(declared \cap used), Cardinality(declared)>>,
       unknown |-> { report.planned[i].term : i \in { j \in DOMAIN report.planned :
                       ~Declares(config.ontology, report.planned[j]) } },
       unused |-> IF config.ontology = Null THEN {}
                  ELSE UNION { {k} \X config.ontology[k] : k \in {"entity", "relation"} }
                       \ { <<c.kind, c.term>> : c \in ToSet(report.planned) } ]

Succeeded(report) ==
  ~report.incomplete /\ report.invalid = 0 /\ report.rejected = <<>>
=============================================================================

---------------------------- MODULE MCCalculations ----------------------------
(* The inputs of Calculations for TLC. *)
EXTENDS Calculations

None == {Unknown}

MCProfiles ==
  [ authority: {"a"} \cup None, terms: {{}, {"t"}}, tenancy: {"a"} \cup None,
    minors: BOOLEAN \cup None, lifecycle: {"a"}, retention: None,
    computed: BOOLEAN \cup None ]

Graph(name) ==
  [ name: {name}, authority: {"a", "b"} \cup None, terms: {{"t"}, {"t", "u"}},
    tenancy: {"a", "b"} \cup None, minors: {TRUE} \cup None, lifecycle: {"a", "b"},
    retention: None, computed: BOOLEAN \cup None ]

Rivals == { g \in Graph(<<2, 1>>) : g.lifecycle = "a" /\ g.computed = Unknown }

MCRegistries ==
  {{}} \cup { {g} : g \in Graph(<<2>>) }
       \cup { {g, r} : g \in { h \in Graph(<<2>>) : h.tenancy = "a" /\ h.minors = TRUE },
                       r \in { h \in Rivals : h.authority = "a" } }

MCPolicies ==
  { p \in Policy : p.autoReliability = 1 /\ p.autoIdentity = 1 }

MCTexts == UNION { [ 1..n -> {"a", " ", "n"} ] : n \in 0..6 }

Reading(text, spans) == [document |-> [id |-> "d", text |-> text], spans |-> spans]

MCReadings ==
  LET aaa == <<"a", "a", "a">>  abab == <<"a", "b", "a", "b">> IN
  { Reading(aaa, WholeDocument(aaa)), Reading(aaa, FixedWindows(aaa, 2, 1)),
    Reading(abab, WholeDocument(abab)), Reading(abab, FixedWindows(abab, 3, 1)) }

Entry == [ confidence: {Absent},
           quote: {Absent, <<"a">>, <<"a", "a">>, <<"a", "b">>, <<>>} ]

MCResponses ==
  {Malformed} \cup UNION { [ 1..n -> Entry ] : n \in 0..2 }
    \cup { << [confidence |-> 1, quote |-> Malformed], [confidence |-> c, quote |-> <<"a">>] >> :
             c \in {1, Malformed} }
    \cup { [ i \in 1..3 |-> [confidence |-> Absent, quote |-> q] ] : q \in {<<"a">>, <<"a", "a">>} }

-----------------------------------------------------------------------------

Reads(strip, int, float, bool, time) ==
  [strip |-> strip, int |-> int, float |-> float, bool |-> bool, time |-> time,
   segments |-> <<strip>>]

Instant(at, naive) == [instant |-> at, naive |-> naive]

MCMeans ==
  [ t \in {"", "0", "1", " 1", "1.0", "1.5", "2", "true", "x", "day1", "day2", "1/h"} |->
      CASE t = "" -> Reads("", Null, Null, Null, Null)
        [] t = "0" -> Reads("0", 0, 0, FALSE, Null)
        [] t \in {"1", " 1"} -> Reads("1", 1, 10, TRUE, Null)
        [] t = "1.0" -> Reads(t, Null, 10, Null, Null)
        [] t = "1.5" -> Reads(t, Null, 15, Null, Null)
        [] t = "2" -> Reads(t, 2, 20, Null, Null)
        [] t = "true" -> Reads(t, Null, Null, TRUE, Null)
        [] t = "x" -> Reads(t, Null, Null, Null, Null)
        [] t = "day1" -> Reads(t, Null, Null, Null, Instant(1, TRUE))
        [] t = "day2" -> Reads(t, Null, Null, Null, Instant(2, FALSE))
        [] t = "1/h" -> [Reads(t, Null, Null, Null, Null) EXCEPT !.segments = <<"1", "h">>] ]

MCFold == [ h \in {"id", " ID", "key", "h", "team", "from", "to", "more"} |->
              IF h = " ID" THEN "id" ELSE h ]

Cell(header, raw) == [header |-> header, raw |-> raw]

Str(text) == Raw("str", text)

Row(id, h, team, from, to) ==
  << Cell("id", id), Cell("h", h), Cell("team", team), Cell("from", from), Cell("to", to) >>

MCRows ==
  { Null,
    Row(Str("1"), Str("2"), Str("x"), Null, Null), Row(Str("1"), Str("x"), Str("x"), Null, Null),
    Row(Str(""), Str("2"), Str("x"), Null, Null), Row(Str("1/h"), Null, Str("x"), Null, Null),
    Row(Str("2"), Raw("int", "1"), Str(""), Null, Null),
    Row(Str("1"), Str("2"), Str("x"), Str("day2"), Str("day1")),
    Row(Str("1"), Str("2"), Str("x"), Str("day1"), Str("day2")),
    << Cell("key", Str("2")), Cell("id", Str("x")), Cell(" ID", Str("1")), Cell("more", Null) >> }

Entity == [kind |-> "entity", type |-> "player", key |-> "id"]

Attributes(names) ==
  [kind |-> "attribute", type |-> "player", key |-> "id", attributes |-> names,
   from |-> "from", to |-> "to"]

Relation ==
  [kind |-> "relation", type |-> "player", key |-> "id", term |-> "plays",
   objectType |-> "team", object |-> "team", from |-> "from", to |-> "to"]

Config(schema, builders, ontology, strict) ==
  [schema |-> schema, builders |-> builders, ontology |-> ontology, strict |-> strict]

MCConfigs ==
  LET schema == << Field("id", "str", TRUE, <<"key">>), Field("h", "int", FALSE, <<>>),
                   Field("team", "str", FALSE, <<>>), Field("from", "datetime", FALSE, <<>>),
                   Field("to", "datetime", FALSE, <<>>) >>
      vocabulary == [ k \in {"entity", "attribute", "relation"} |->
                        IF k = "attribute" THEN {"w"} ELSE
                        IF k = "entity" THEN {"player"} ELSE {} ]
  IN { Config(schema, b, o[1], o[2]) :
         b \in { <<Entity>>, <<Entity, Attributes(<<"h">>)>>, <<Relation, Entity>>,
                 <<Entity, [Attributes(<<"h">>) EXCEPT !.to = "team"]>> },
         o \in { <<Null, TRUE>>, <<vocabulary, TRUE>>, <<vocabulary, FALSE>> } }

Raws ==
  {Null} \cup { Str(t) : t \in DOMAIN MCMeans } \cup { Raw("int", t) : t \in {"0", "1", "2"} }
    \cup { Raw("float", t) : t \in {"1.0", "1.5"} } \cup {Raw("bool", "true")}

MCFacts ==
  { << Cell("id", id), Cell("h", h) >> :
      id \in Raws \ { Str(t) : t \in {"0", "2", "1.5", "day1", "day2"} }, h \in Raws }

MCFactConfigs ==
  { Config(<< Field("id", "str", TRUE, <<>>), Field("h", type, FALSE, <<>>) >>,
           << Entity, [Attributes(<<"h">>) EXCEPT !.from = "h", !.to = "to"] >>, Null, TRUE) :
      type \in {"str", "int", "float", "bool", "datetime"} }

MCTables ==
  { t \in SUBSET { << Cell("id", Str(id)), Cell("h", Str(h)) >> :
                     id \in {"1", "2"}, h \in {"1", "2"} } :
      \A r, s \in t : r[1] = s[1] => r = s }

-----------------------------------------------------------------------------

F(kind, key, term) == [kind |-> kind, key |-> key, term |-> term]
F1 == F("entity", 1, "known")
F2 == F("entity", 2, "odd")
R1 == F("relation", 1, "known")

MCGoldSets ==
  LET span(quote, chars) == [locator |-> "l", quote |-> quote, chars |-> chars]
      g1 == [fact |-> F1, span |-> span("q", Unmeasured)]
      g2 == [fact |-> F2, span |-> span(Unmeasured, Span(1, 3))]
      g3 == [fact |-> R1, span |-> Unmeasured]
  IN { [items |-> s, attempted |-> Unmeasured] :
         s \in { <<>>, <<g1>>, <<g1, g2>>, <<g2, g3>>, <<g1, g1>> } }
     \cup { [items |-> <<g1>>, attempted |-> 2] }

Ref(evidence, relationship) == [evidence |-> evidence, relationship |-> relationship]

Evidence ==
  [ e \in {"e1", "e2"} |->
      [ present |-> e = "e1", locator |-> "l", quotes |-> {"q"},
        chars |-> IF e = "e1" THEN Span(0, 2) ELSE Unmeasured ] ]

Cited(facts, cites) == UNION { [ 1..n -> [fact: facts, refs: cites] ] : n \in 0..2 }

Output(candidates, counts, cost) ==
  [candidates |-> candidates, evidence |-> Evidence, attempted |-> counts[1],
   abstained |-> counts[2], failed |-> counts[3], cost |-> cost]

\* CostLatency: what an arm cost and how long it took, where measured.
Cost(usd, seconds) == [usd |-> usd, seconds |-> seconds]

Uncosted == Cost(Unmeasured, Unmeasured)

MCOutputs ==
  { Output(c, n, Uncosted) :
      c \in Cited({F1, F2, R1},
                  { {}, {Ref("e1", "SUPPORTS")}, {Ref("e2", "DERIVED_FROM")},
                    {Ref("e3", "SUPPORTS"), Ref("e1", "CONTEXTUALIZES")} }),
      n \in { <<Unmeasured, 1, 0>>, <<2, 1, 1>>, <<2, 2, 1>> } }

MCArms ==
  { Output(c, <<Unmeasured, 0, 0>>, cost) :
      c \in Cited({F1, F2}, { {}, {Ref("e1", "DERIVED_FROM")} }),
      cost \in { Uncosted, Cost(1, 1), Cost(1, 2), Cost(2, 1), Cost(1, Unmeasured) } }
=============================================================================

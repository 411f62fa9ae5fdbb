------------------------------ MODULE Passages ------------------------------
(***************************************************************************)
(* From a document to the quotes its candidates cite: the chunkers         *)
(* (kgis/extraction/documents.py), the parser of a model's response        *)
(* (parse.py), the extractor that finalizes each item (extractor.py), the  *)
(* evidence ids (provenance.py) and the recorded model (client.py).        *)
(*                                                                         *)
(* A text is a sequence of characters; offsets count from 0 and an end is  *)
(* exclusive, as in the code.  A hash is the tuple it is a digest of.      *)
(***************************************************************************)
EXTENDS Integers, FiniteSets, SequencesExt

CONSTANTS
  Newline,   \* the character whose double ends a paragraph
  Blanks,    \* the characters str.strip() removes
  Absent,    \* a value that is not there: no quote, no confidence, no span
  Malformed  \* a value of a type the parser does not take

ASSUME NewlineAssumption == Newline \in Blanks

Slice(text, start, end) == SubSeq(text, start + 1, end)

Occurrences(text, quote) ==
  { i \in 0..(Len(text) - Len(quote)) : Slice(text, i, i + Len(quote)) = quote }

\* What str.find returns: an offset, or -1 where there is none.
First(offsets) == IF offsets = {} THEN -1 ELSE Min(offsets)

-----------------------------------------------------------------------------
(* Chunking: every chunker yields the spans of its chunks *)

Span(start, end) == [start |-> start, end |-> end]

Chunks(document, spans) ==
  [ i \in DOMAIN spans |->
      [ doc |-> document.id, index |-> i - 1, span |-> spans[i],
        text |-> Slice(document.text, spans[i].start, spans[i].end) ] ]

WholeDocument(text) == << Span(0, Len(text)) >>

\* The offsets of the segment that str.strip() leaves.
Solid(text, start, end) == { i \in start..(end - 1) : text[i + 1] \notin Blanks }

Paragraphs(text) ==
  LET from[cursor \in 0..(Len(text) + 2)] ==
        LET boundary == First({ i \in Occurrences(text, <<Newline, Newline>>) : i >= cursor })
            end == IF boundary = -1 THEN Len(text) ELSE boundary
            solid == Solid(text, cursor, end)
        IN IF cursor >= Len(text)
             THEN <<>>
             ELSE (IF solid = {} THEN <<>> ELSE << Span(Min(solid), Max(solid) + 1) >>)
                    \o (IF boundary = -1 THEN <<>> ELSE from[boundary + 2])
  IN from[0]

\* Mutant: the next window starts where this one ends.
FixedWindows_NoOverlap(text, window, overlap) ==
  [ i \in 1..((Len(text) + window - 1) \div window) |->
      Span((i - 1) * window, Min({i * window, Len(text)})) ]

FixedWindows(text, window, overlap) ==
  LET from[start \in 0..(Len(text) + window)] ==
        LET end == Min({start + window, Len(text)}) IN
        << Span(start, end) >>
          \o (IF end >= Len(text) THEN <<>> ELSE from[start + window - overlap])
  IN IF text = <<>> THEN <<>> ELSE from[0]

-----------------------------------------------------------------------------
(* Parsing a response: a sequence of entries, or Malformed *)

\* An entry is Malformed (not an object) or a record whose confidence and
\* quote may be Absent or Malformed.
Entries(Confidences, Quotes) ==
  {Malformed} \cup [ confidence: Confidences \cup {Absent, Malformed},
                     quote: Quotes \cup {Absent, Malformed} ]

\* Mutant: the scan for an unused occurrence skips the length of the match.
NextUnusedOffset_Skipping(text, quote, used) ==
  LET disjoint == { i \in Occurrences(text, quote) :
                      \A j \in Occurrences(text, quote) :
                        j < i => j + Len(quote) <= i }
  IN IF disjoint \ used # {} THEN Min(disjoint \ used)
                             ELSE First(Occurrences(text, quote))

\* The next occurrence nothing claimed, overlapping ones included, else the
\* first.
NextUnusedOffset(text, quote, used) ==
  LET all == Occurrences(text, quote)
  IN IF all \ used # {} THEN Min(all \ used) ELSE First(all)

\* A quote that is not an exact substring of the chunk is dropped with a
\* warning; one that is claims its offset.
PopQuote(entry, chunk, used) ==
  LET dropped == [span |-> Absent, claimed |-> {}, warned |-> entry.quote # Absent]
  IN IF entry.quote \in {Absent, Malformed, <<>>}
       THEN dropped
       ELSE LET local == NextUnusedOffset(chunk.text, entry.quote, used)
                start == chunk.span.start + local
            IN IF local < 0
                 THEN dropped
                 ELSE [span |-> Span(start, start + Len(entry.quote)),
                       claimed |-> {local}, warned |-> FALSE]

\* One malformed entry raises for the whole response.
Raises(response) ==
  \/ response = Malformed
  \/ \E i \in DOMAIN response :
       response[i] = Malformed \/ response[i].confidence = Malformed

\* parse(): the items of a response that does not raise, in order.
Parse(response, chunk) ==
  LET upTo[n \in 0..Len(response)] ==
        IF n = 0
          THEN [items |-> <<>>, used |-> {}]
          ELSE LET popped == PopQuote(response[n], chunk, upTo[n - 1].used)
                   item == [ confidence |-> response[n].confidence,
                             span |-> popped.span, warned |-> popped.warned,
                             quote |-> IF popped.span = Absent THEN Absent
                                                               ELSE response[n].quote ]
               IN [items |-> Append(upTo[n - 1].items, item),
                   used |-> upTo[n - 1].used \cup popped.claimed]
  IN upTo[Len(response)].items

-----------------------------------------------------------------------------
(* Finalizing, and the ids of the evidence cited *)

\* config: the extractor's identity with its model and prompt versions.
ChunkEvidenceId(chunk, config) == <<chunk.doc, chunk.index, chunk.span, config>>

QuoteEvidenceId(chunk, config, span) == <<chunk.doc, chunk.index, chunk.span, span, config>>

\* The candidate built from an item: the model's confidence replaces the
\* builder's score, a verified quote is cited besides the chunk.
Finalize(item, score, chunk, config) ==
  [ score |-> IF item.confidence = Absent THEN score ELSE item.confidence,
    passage |-> chunk.text, span |-> item.span, quote |-> item.quote,
    refs |-> IF item.span = Absent THEN <<>>
                                   ELSE << QuoteEvidenceId(chunk, config, item.span) >> ]

\* One chunk through prompt, parse and build; Malformed where parse raises.
ExtractResult(response, score, chunk, config) ==
  IF Raises(response)
    THEN Malformed
    ELSE LET items == Parse(response, chunk) IN
         [ candidates |-> [ i \in DOMAIN items |-> Finalize(items[i], score, chunk, config) ],
           warnings |-> Cardinality({ i \in DOMAIN items : items[i].warned }) ]

-----------------------------------------------------------------------------
(* A recorded model *)

\* RecordingCompletionClient keeps, for each prompt, its last response.
Recording(calls) ==
  [ prompt \in { calls[i].prompt : i \in DOMAIN calls } |->
      calls[Max({ i \in DOMAIN calls : calls[i].prompt = prompt })].response ]

\* ReplayCompletionClient: a prompt without a response raises.
Replay(recording, prompt) ==
  IF prompt \in DOMAIN recording THEN recording[prompt] ELSE Absent
=============================================================================

--------------------------- MODULE EvidenceRegistry ---------------------------
(***************************************************************************)
(* The tables of SqliteEvidenceRegistry (src/src/kgis/evidence/store.py)   *)
(* and what its statements do to them.  evid gives every evidence id its   *)
(* row, refs is the set of <<candidate, evidence id>> citations            *)
(* (relationships abstracted).  Whoever runs the statements, in which      *)
(* transactions, is in module Erasure.                                     *)
(***************************************************************************)
EXTENDS Sequences

CONSTANTS Candidates, Evidence

\* What a collected item carries: PRESENT with inline passage text (content
\* or span quote), PRESENT by hash alone, or ABSENT / ERROR.
Forms == {"text", "hash", "unavailable"}

EvidenceRow == Forms \cup {"missing", "redacted"}

Citations == Candidates \X Evidence

\* One item of a put() or put_many().
Item == [id: Evidence, form: Forms]

\* Mutant: the marker is not looked at.
RowIsRedacted_Ignored(evid, e) == FALSE

RowIsRedacted(evid, e) == evid[e] = "redacted"

\* INSERT OR REPLACE: the whole row, its redaction marker included.
Stored(evid, item) == [evid EXCEPT ![item.id] = item.form]

WithRefs(refs, x, cited) == refs \cup ({x} \X cited)

CitedBy(refs, x) == { e \in Evidence : <<x, e>> \in refs }

WithoutSubject(refs, x) == { r \in refs : r[1] # x }

\* Of the given items, those no subject references any more.
Orphans(refs, items) == { e \in items : ~\E x \in Candidates : <<x, e>> \in refs }

\* Only a PRESENT row that still has inline text is redacted.
Redactable(evid, items) == { e \in items : evid[e] = "text" }

Redacted(evid, items) ==
  [e \in Evidence |-> IF e \in Redactable(evid, items) THEN "redacted" ELSE evid[e]]
=============================================================================

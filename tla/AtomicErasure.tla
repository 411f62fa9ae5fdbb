---------------------------- MODULE AtomicErasure ----------------------------
(***************************************************************************)
(* What erasing a candidate promises, as one step: its citations go, every *)
(* evidence item nobody cites any more loses its text for good, and the    *)
(* candidate is erased, with a record of every item that lost its text.    *)
(* Evidence some other candidate cites is untouched.                       *)
(***************************************************************************)

CONSTANTS Candidates, Evidence, Forms

VARIABLES erased, refs, evid, audit

Init ==
  /\ erased = {}
  /\ refs = {}
  /\ evid = [e \in Evidence |-> "missing"]
  /\ audit = {}

Cite ==
  /\ refs' \in SUBSET (Candidates \X Evidence)
  /\ refs \subseteq refs'
  /\ UNCHANGED <<erased, evid, audit>>

\* Evidence is stored, and stored anew, until it is redacted.
Store ==
  /\ evid' \in [Evidence -> Forms \cup {"missing", "redacted"}]
  /\ \A e \in Evidence :
       evid'[e] # evid[e] => evid[e] # "redacted" /\ evid'[e] \in Forms
  /\ UNCHANGED <<erased, refs, audit>>

Erase(x) ==
  LET left == { r \in refs : r[1] # x }
      losing == { e \in Evidence : /\ <<x, e>> \in refs /\ evid[e] = "text"
                                   /\ ~\E r \in left : r[2] = e }
  IN /\ erased' = erased \cup {x}
     /\ refs' = left
     /\ evid' = [e \in Evidence |-> IF e \in losing THEN "redacted" ELSE evid[e]]
     /\ audit' = audit \cup ({x} \X losing)

Next == Cite \/ Store \/ \E x \in Candidates : Erase(x)

Spec == Init /\ [][Next]_<<erased, refs, evid, audit>>
=============================================================================

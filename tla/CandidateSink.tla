---------------------------- MODULE CandidateSink ----------------------------
(***************************************************************************)
(* What the candidate ledger promises, without connections, transactions,  *)
(* lookups or tables: every candidate id lives one life, absent, live,     *)
(* revoked, erased, and never goes back in it, and at any moment a dedup   *)
(* key has at most one live candidate.  A step is whatever one commit may  *)
(* publish: a batch, a governance call, or both when a commit carries      *)
(* more than one call's writes.                                            *)
(***************************************************************************)
EXTENDS Naturals

CONSTANTS Candidates, Keys, KeyOf

VARIABLE life

Stages == {"absent", "live", "revoked", "erased"}

Age == [absent |-> 0, live |-> 1, revoked |-> 2, erased |-> 3]

OneLivePerKey(lives) ==
  \A x, y \in Candidates :
    lives[x] = "live" /\ lives[y] = "live" /\ KeyOf[x] = KeyOf[y] => x = y

Init == life = [x \in Candidates |-> "absent"]

Publish ==
  \E lives \in [Candidates -> Stages] :
    /\ \A x \in Candidates : Age[life[x]] <= Age[lives[x]]
    /\ OneLivePerKey(lives)
    /\ life' = lives

Next == Publish

Spec == Init /\ [][Next]_life
=============================================================================

------------------------------ MODULE MCErasure ------------------------------
(* Instances of Erasure for TLC. *)
EXTENDS Erasure

CONSTANTS p1, p2, x1, x2, e1, e2

\* A put() of one item with text, a put_many() of two items, and a text-free
\* one.
MCPuts ==
  { [items |-> <<[id |-> e1, form |-> "text"]>>, many |-> FALSE],
    [items |-> <<[id |-> e1, form |-> "hash"], [id |-> e2, form |-> "text"]>>,
     many |-> TRUE] }

MCPutsText ==
  { [items |-> <<[id |-> e1, form |-> "text"]>>, many |-> FALSE] }

=============================================================================

------------------------------- MODULE Lists -------------------------------
(***************************************************************************)
(* Filtering a list, as the loops and iterators of the source do, in terms *)
(* of the places that are kept.  It is what SelectSeq computes; stated     *)
(* without recursion, facts about it can be proved for lists of any length.*)
(***************************************************************************)
EXTENDS Naturals, Sequences, SequencesExt

\* The n-th of a set of places, in their order.
Before(at, i) == Cardinality({k \in at : k <= i})
Nth(at, n)    == CHOOSE i \in at : Before(at, i) = n

\* The elements of seq that are in S, in their order.
Kept(seq, S) ==
  LET at == {i \in DOMAIN seq : seq[i] \in S}
  IN  [n \in 1..Cardinality(at) |-> seq[Nth(at, n)]]
=============================================================================

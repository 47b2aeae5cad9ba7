------------------------------ MODULE Sorting ------------------------------
(* What sort.Slice makes of the elements of a finite set: the sequence of  *)
(* all of them in which each comes before the ones it is less than.  There *)
(* is one, and only one, when Less is a strict order on the set.           *)
EXTENDS Naturals, Sequences, FiniteSets

InOrder(S, Less(_, _)) ==
    CHOOSE s \in [1..Cardinality(S) -> S] :
      \A i, j \in 1..Cardinality(S) : i < j => Less(s[i], s[j])
=============================================================================

------------------------------ MODULE MCSearch ------------------------------
(* Pages of one hit over three documents, two contents that match.  Among  *)
(* three candidates the contents exchange their ranks, so that writing the *)
(* third document reorders the first two; it may also only go between      *)
(* them, or an update may take a document out of the hits.  Two live       *)
(* buffered documents or a flush seal the buffer, once.                    *)
EXTENDS Search

MCDocIds == 1..3
MCVersions == 1..2
MCBodies == 0..2
MCMatched == {1, 2}
MCScore == [n \in 0..3 |-> [b \in Bodies |-> IF n < 3 THEN b ELSE 3 - b]]
MCBefore(a, b) == a < b
=============================================================================

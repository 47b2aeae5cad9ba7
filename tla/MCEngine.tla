------------------------------ MODULE MCEngine ------------------------------
(* Engine on two documents and a buffer of two, so that an upsert seals    *)
(* the buffer and deletes alone can fill it to the limit; two segments, so *)
(* that a lookup has an older and a newer one to choose between.           *)
EXTENDS Engine, TLC

MCVersions == 0..2
Symmetry == Permutations(DocIds) \cup Permutations(Bodies)
=============================================================================

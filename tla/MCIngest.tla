------------------------------ MODULE MCIngest ------------------------------
(* Two handlers that race for one document with two versions: both can be  *)
(* between log and index at once, in either order, and a third request     *)
(* meets the outcome.                                                      *)
EXTENDS Ingest

MCVersions == 1..2
=============================================================================

------------------------------- MODULE MCWAL -------------------------------
(* WAL with one ordinary operation, one whose line is too long for the     *)
(* scanner and one whose line does not validate, in a file of three lines: *)
(* enough for a torn tail, the line glued to it, and a line after that,    *)
(* with one more sequence number than lines for an append that fails.      *)
EXTENDS WAL
=============================================================================

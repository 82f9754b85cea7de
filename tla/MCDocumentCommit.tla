-------------------------- MODULE MCDocumentCommit --------------------------
(***************************************************************************)
(* Instances of DocumentCommit for TLC: two servers that share the         *)
(* directory, enough for one to find what the other left.                  *)
(***************************************************************************)
EXTENDS DocumentCommit

CONSTANTS s1, s2
=============================================================================

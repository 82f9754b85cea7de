--------------------------- MODULE MCSessionStream ---------------------------
(***************************************************************************)
(* Instances of SessionStream for TLC. A buffer of two events is full,     *)
(* overflows and is overwritten within a few events. Two clients attach at  *)
(* different times.                                                        *)
(***************************************************************************)
EXTENDS SessionStream

CONSTANTS c1, c2
=============================================================================

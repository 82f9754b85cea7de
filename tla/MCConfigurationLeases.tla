----------------------- MODULE MCConfigurationLeases -----------------------
(***************************************************************************)
(* Instances of ConfigurationLeases for TLC.                               *)
(***************************************************************************)
EXTENDS ConfigurationLeases

CONSTANTS e1, e2, d1, d2, m1, m2
=============================================================================

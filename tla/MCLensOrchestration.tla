------------------------ MODULE MCLensOrchestration ------------------------
(***************************************************************************)
(* An instance of LensOrchestration for TLC: two budget dimensions with    *)
(* different limits, usages below, at and above them, and three lenses of  *)
(* which two run at a time and the last has too large a prompt.            *)
(***************************************************************************)
EXTENDS LensOrchestration, TLC

CONSTANTS i1, i2, i3

TwoDimensions == {"tokens", "wallTime"}
UnequalLimit == "tokens" :> 2 @@ "wallTime" :> 1
SmallUsages == [TwoDimensions -> 0..2]
=============================================================================

--------------------------- MODULE MCProjectTrust ---------------------------
(***************************************************************************)
(* An instance of ProjectTrust for TLC: on one server a removal and a      *)
(* grant of p1 and a change of p2, on another one a downgrade of p1, which *)
(* has no record at first.                                                 *)
(***************************************************************************)
EXTENDS ProjectTrust, TLC

CONSTANTS s1, s2, p1, p2, remove1, grant1, deny2, deny1

MCServerOf == remove1 :> s1 @@ grant1 :> s1 @@ deny2 :> s1 @@ deny1 :> s2
MCProjectOf == remove1 :> p1 @@ grant1 :> p1 @@ deny2 :> p2 @@ deny1 :> p1
MCWantOf == remove1 :> "none" @@ grant1 :> "granted" @@ deny2 :> "denied" @@ deny1 :> "denied"
MCOriginalOf == p1 :> "none" @@ p2 :> "denied"
=============================================================================

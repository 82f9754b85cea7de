------------------------- MODULE MCReviewSessions -------------------------
(***************************************************************************)
(* Two scenarios of ReviewSessions for TLC. r1, r2 and r3 belong to one    *)
(* project: r1 and r2 ask for the same review, r3 for one with another     *)
(* diff. r4 belongs to a project of its own and fails to read its diff.    *)
(*                                                                         *)
(* Contending: r1, r2 and r3, while their project may be revoked.          *)
(* Crowding: r1, r3 and r4, one review more than the map holds.            *)
(*                                                                         *)
(* A run starts where the other requests have been refused and the projects *)
(* that are not revoked in it have been before.                            *)
(***************************************************************************)
EXTENDS ReviewSessions, TLC

CONSTANTS r1, r2, r3, r4, p1, p2, f1, f2, f3

MCProjectOf == r1 :> p1 @@ r2 :> p1 @@ r3 :> p1 @@ r4 :> p2
MCInputOf == r1 :> "i1" @@ r2 :> "i1" @@ r3 :> "i2" @@ r4 :> NoInput
MCGitStateOf == r1 :> "g1" @@ r2 :> "g1" @@ r3 :> Unverifiable @@ r4 :> "g2"
MCFingerprintOf == r1 :> f1 @@ r2 :> f1 @@ r3 :> f2 @@ r4 :> f3
MCScopeOf == [r \in {r1, r2, r3, r4} |-> "all"]

AfterRefusing(refused, revoked) ==
    /\ pc = [r \in Reviews |-> IF r \in refused THEN "done" ELSE "idle"]
    /\ generation = [p \in Projects |-> IF p \in revoked THEN MaxGeneration ELSE 0]
    /\ leases = {} /\ activeSessions = {} /\ completed = {} /\ aborted = {} /\ saved = {}
    /\ persistenceState = [r \in Reviews |-> "pending"]
    /\ startedAt = [r \in Reviews |-> 0] /\ clock = 0
    /\ captured = [r \in Reviews |-> 0]
    /\ maintenance = TRUE
    /\ terminals = [r \in Reviews |-> <<>>]

Contending == AfterRefusing({r4}, {p2})
Crowding == AfterRefusing({r2}, {p1, p2})

MCSpec == (Contending \/ Crowding) /\ [][Next]_vars /\ Fairness
=============================================================================

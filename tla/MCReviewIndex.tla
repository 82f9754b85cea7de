---------------------------- MODULE MCReviewIndex ----------------------------
(***************************************************************************)
(* Instances of ReviewIndex for TLC. r1 and r2 are stored reviews of a     *)
(* project that moves, r3 is being saved at the destination.               *)
(*                                                                         *)
(* Stopping: r1 and r2 move, so that a pass can stop between them. Meeting: *)
(* r1 moves while r3 is saved. The review that takes no part failed to be  *)
(* saved before and left no file.                                          *)
(***************************************************************************)
EXTENDS ReviewIndex

CONSTANTS r1, r2, r3, l1, pA, pB

MoveHome == [r \in Reviews |-> IF r = r3 THEN pB ELSE pA]

Lacking(r) ==
    LET present == Stored \ {r} IN
    /\ file = [s \in Reviews |-> IF s \in present THEN Home[s] ELSE Nowhere]
    /\ cursor \in SUBSET Paths
    /\ index = [p \in Paths |->
                    IF p \in cursor THEN [ids |-> {s \in present : Home[s] = p}, bare |-> {}]
                    ELSE NoIndex]
    /\ pc = [a \in Actors |-> CASE a = r -> "failed" [] a \in present -> "saved"
                                [] OTHER -> "idle"]
    /\ reconcile = {} /\ lock = [p \in Paths |-> Free]
    /\ seen = [l \in Listers |-> Nothing] /\ pass = NoPass
    /\ faults = 0 /\ abandoned = {} /\ unmerged = {}

Stopping == Lacking(r3)
Meeting == Lacking(r2)

(* The save of r3 could neither add it to the certified index of its project
   nor invalidate that, and has set the marker. *)
Marked ==
    /\ file = Home
    /\ cursor = Paths
    /\ index = [p \in Paths |-> [ids |-> {s \in Stored : Home[s] = p}, bare |-> {}]]
    /\ reconcile = {Home[r3]}
    /\ lock = [p \in Paths |-> Free]
    /\ pc = [a \in Actors |-> IF a \in Reviews THEN "saved" ELSE "idle"]
    /\ seen = [l \in Listers |-> Nothing] /\ pass = NoPass
    /\ faults = 0 /\ abandoned = {} /\ unmerged = {}

MarkedSpec == Marked /\ [][Next]_vars

MCSpec == (Stopping \/ Meeting \/ Marked) /\ [][Next]_vars /\ Fairness
=============================================================================

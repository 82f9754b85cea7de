---------------------------- MODULE ReviewOutcomes ----------------------------
(***************************************************************************)
(* What the review sessions promise: each review has one outcome, told     *)
(* once. It may be disowned until its commit point, and only a shutdown    *)
(* calls it off after that. What is told agrees with the disk: a complete  *)
(* review is there, one that was disowned never will be, and once a review *)
(* has been told to have failed nothing is saved of it any more. Only a    *)
(* shutdown does not wait for a save that is past the commit point.        *)
(***************************************************************************)
CONSTANT Reviews

VARIABLES
    stage,   \* how far a review has come, whether or not it has ended since
    told,    \* what its clients were told of its end
    saved    \* the reviews on the disk

vars == <<stage, told, saved>>

(* The ends that disown a review. *)
Disownments == {"CANCELLED", "SESSION_STALE", "SESSION_EVICTED", "SESSION_TIMEOUT"}

Verdicts == Disownments \union {"complete", "error", "SERVER_SHUTDOWN"}

Init ==
    /\ stage = [r \in Reviews |-> "absent"]
    /\ told = [r \in Reviews |-> <<>>]
    /\ saved = {}

InProgress(r) == stage[r] # "absent" /\ told[r] = <<>>

Allowed(r, verdict) ==
    /\ verdict \in Disownments => stage[r] = "pending"
    /\ verdict = "complete" => r \in saved

(* Some reviews in progress end, each with an outcome of its own. *)
Tell ==
    /\ told' \in [Reviews -> {<<>>} \union {<<v>> : v \in Verdicts}]
    /\ \A r \in Reviews : told'[r] # told[r] =>
        /\ InProgress(r)
        /\ \E v \in Verdicts : Allowed(r, v) /\ told'[r] = <<v>>

Begin(r) == stage[r] = "absent" /\ stage' = [stage EXCEPT ![r] = "pending"]

(* The point of no return. *)
Commit(r) ==
    /\ stage[r] = "pending"
    /\ told[r] = <<>>
    /\ stage' = [stage EXCEPT ![r] = "committing"]

Save(r) ==
    /\ stage[r] = "committing"
    /\ told[r] \in {<<>>, <<"SERVER_SHUTDOWN">>}
    /\ saved' = saved \union {r}

Next ==
    \/ Tell /\ UNCHANGED <<stage, saved>>
    \/ \E r \in Reviews :
        \/ Begin(r) /\ Tell /\ UNCHANGED saved
        \/ Commit(r) /\ UNCHANGED <<told, saved>>
        \/ Save(r) /\ Tell /\ UNCHANGED stage

Spec == Init /\ [][Next]_vars
=============================================================================

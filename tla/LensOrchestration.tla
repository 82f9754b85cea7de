-------------------------- MODULE LensOrchestration --------------------------
(***************************************************************************)
(* The lenses of one review, run against the review's budget.              *)
(*                                                                         *)
(*   cli/server/src/features/review/engine/orchestrate.ts  the lenses      *)
(*   cli/server/src/shared/lib/ai/client/generate.ts       one dispatch    *)
(*   cli/server/src/features/review/pipeline.ts            what is reported *)
(*                                                                         *)
(* Admission reserves the whole review in a ledger of its own              *)
(* (BudgetLedger); every dispatch commits what it used against that one    *)
(* reservation. The engine runs one callback at a time: the actions are    *)
(* what happens between two awaits. What a lens finds is left out.         *)
(*                                                                         *)
(* In phase "other" the ledger serves a client that calls it in any order.  *)
(***************************************************************************)
EXTENDS BudgetLedger

CONSTANTS
    LensCount,      \* getLenses(selection.lenses), in the order of their launch
    Concurrency,    \* of the lenses
    Oversized       \* the lenses whose prompt exceeds maxInputTokens

Lenses == 1..LensCount

ASSUME LensAssumption ==
    /\ LensCount \in Nat \ {0}
    /\ Concurrency \in Nat \ {0}
    /\ Oversized \subseteq Lenses
    /\ Reservations # {}

VARIABLES
    phase,          \* of the review
    stage,          \* how far each lens has come
    result,         \* what came of the dispatch of each lens
    outcomes,       \* the outcomes in terminalExecutions
    userAborted,    \* the signal of the review has fired
    refusal,        \* structuredOutputError: what proved the tuple incapable
    budgetStopped,  \* budgetAbort has fired
    report          \* what executeReview returns

lensVars == <<phase, stage, result, outcomes, userAborted, refusal, budgetStopped, report>>
allVars == <<vars, lensVars>>

(* The id of the reservation that admission holds for the review. *)
Envelope == CHOOSE i \in Reservations : TRUE

(* What an adapter answers; the budget it may find exhausted is that of its
   retries. *)
Answers == {"completed", "unparsed", "schema-failed", "failed", "budget-exhausted"}

(* An error, and one that is shaped like an abort: an AbortError, or an error
   with the message "Aborted". *)
Throws == {"threw", "threw-abort"}

Results == Answers \union Throws \union {"none"}
Codes == {"success", "CANCELLED", "BUDGET_EXHAUSTED", "INTERNAL_ERROR", "OTHER_ERROR"}
NoReport == [outcome |-> "none", kept |-> {}, status |-> [l \in Lenses |-> "success"]]

LensTypeOK ==
    /\ phase \in {"other", "admitting", "refused", "admitted", "running", "resolved", "reported", "released"}
    /\ stage \in [Lenses -> {"queued", "dispatched", "settled", "judged", "ended"}]
    /\ result \in [Lenses -> Results]
    /\ outcomes \subseteq {"completed", "schema-failed", "failed", "budget-exhausted"}
    /\ userAborted \in BOOLEAN
    /\ refusal \in {"none", "unparsed", "schema-failed"}
    /\ budgetStopped \in BOOLEAN
    /\ report \in [outcome : {"none", "completed", "schema-failed", "failed",
                              "budget-exhausted", "cancelled"},
                   kept : SUBSET Lenses, status : [Lenses -> Codes]]

LensInit ==
    /\ Init
    /\ phase \in {"admitting", "other"}
    /\ stage = [l \in Lenses |-> "queued"]
    /\ result = [l \in Lenses |-> "none"]
    /\ outcomes = {}
    /\ userAborted = FALSE
    /\ refusal = "none"
    /\ budgetStopped = FALSE
    /\ report = NoReport

-----------------------------------------------------------------------------
(* Admission, and the abort signal of the session                           *)

Admit(estimate) ==
    /\ phase = "admitting"
    /\ \/ Reserve(Envelope, estimate) /\ phase' = "admitted"
       \/ RefuseReservation(estimate) /\ phase' = "refused"
    /\ UNCHANGED <<stage, result, outcomes, userAborted, refusal, budgetStopped, report>>

UserAbort ==
    /\ phase \in {"admitted", "running"}
    /\ ~userAborted
    /\ userAborted' = TRUE
    /\ UNCHANGED <<vars, phase, stage, result, outcomes, refusal, budgetStopped, report>>

(* The two signals of orchestrateReview. *)
Aborted == userAborted \/ refusal # "none"

(* Mutant of Stopped: an exhausted budget stops nothing. *)
StoppedByAbort == Aborted

Stopped == Aborted \/ budgetStopped

-----------------------------------------------------------------------------
(* runWithConcurrency                                                       *)

Active == {l \in Lenses : stage[l] \in {"dispatched", "settled", "judged"}}
Queued == {l \in Lenses : stage[l] = "queued"}

(* The lenses launchNext launches when only those of `running` are active. *)
Launchable(running) ==
    IF Stopped THEN {}
    ELSE {l \in Queued :
            Cardinality({k \in Queued : k <= l}) <= Concurrency - Cardinality(running)}

Start ==
    /\ phase = "admitted"
    /\ ~userAborted
    /\ phase' = "running"
    /\ stage' = [l \in Lenses |-> IF l \in Launchable({}) THEN "dispatched" ELSE stage[l]]
    /\ UNCHANGED <<vars, result, outcomes, userAborted, refusal, budgetStopped, report>>

(* Mutant of Return: an abort leaves the promise of the review pending. *)
ReturnForgotten(l) ==
    /\ stage[l] = "judged"
    /\ LET launched == Launchable(Active \ {l})
       IN  /\ stage' = [k \in Lenses |-> IF k = l THEN "ended"
                                         ELSE IF k \in launched THEN "dispatched" ELSE stage[k]]
           /\ phase' = IF Active = {l} /\ launched = {} /\ ~Stopped THEN "resolved" ELSE phase
    /\ UNCHANGED <<vars, result, outcomes, userAborted, refusal, budgetStopped, report>>

(* The worker of a lens is through: launchNext goes on or resolves. *)
Return(l) ==
    /\ stage[l] = "judged"
    /\ LET launched == Launchable(Active \ {l})
       IN  /\ stage' = [k \in Lenses |-> IF k = l THEN "ended"
                                         ELSE IF k \in launched THEN "dispatched" ELSE stage[k]]
           /\ phase' = IF Active = {l} /\ launched = {} THEN "resolved" ELSE phase
    /\ UNCHANGED <<vars, result, outcomes, userAborted, refusal, budgetStopped, report>>

-----------------------------------------------------------------------------
(* executeReviewGeneration and the bridge that records its execution        *)

Settled(l, value, outcome) ==
    /\ stage' = [stage EXCEPT ![l] = "settled"]
    /\ result' = [result EXCEPT ![l] = value]
    /\ outcomes' = outcomes \union {outcome}
    /\ UNCHANGED <<phase, userAborted, refusal, budgetStopped, report>>

(* The prompt is too large, or no client can be made: nothing is dispatched. *)
RefuseDispatch(l) ==
    /\ stage[l] = "dispatched"
    /\ IF l \in Oversized THEN Settled(l, "budget-exhausted", "budget-exhausted")
       ELSE Settled(l, "failed", "failed")
    /\ UNCHANGED vars

(* Usage the ledger refuses to settle takes the findings with it. *)
Outcome(value) == IF answer' = "exhausted" THEN "budget-exhausted" ELSE value

(* The adapter answers or throws, and what it used is committed. The bridge
   rejects a completed answer that does not parse. *)
Answer(l, value, usage) ==
    /\ stage[l] = "dispatched"
    /\ l \notin Oversized
    /\ CommitAttemptUsage(Envelope, usage)
    /\ Settled(l, Outcome(value),
               IF Outcome(value) = "unparsed" THEN "completed" ELSE Outcome(value))

(* runLensAnalysis throws before the adapter answered, or while it turns the
   decoded findings into issues; an error result it only hands on. *)
Throw(l, how) ==
    /\ stage[l] = "dispatched" \/ (stage[l] = "settled" /\ result[l] = "completed")
    /\ stage' = [stage EXCEPT ![l] = "judged"]
    /\ result' = [result EXCEPT ![l] = how]
    /\ UNCHANGED <<vars, phase, outcomes, userAborted, refusal, budgetStopped, report>>

-----------------------------------------------------------------------------
(* The worker of orchestrateReview                                          *)

AnySucceeded == \E l \in Lenses : stage[l] \in {"judged", "ended"} /\ result[l] = "completed"

Judge(l) ==
    /\ stage[l] = "settled"
    /\ stage' = [stage EXCEPT ![l] = "judged"]
    /\ refusal' = IF result[l] \in {"unparsed", "schema-failed"} /\ ~AnySucceeded /\ refusal = "none"
                  THEN result[l] ELSE refusal
    /\ budgetStopped' = (budgetStopped \/ result[l] = "budget-exhausted")
    /\ UNCHANGED <<vars, phase, result, outcomes, userAborted, report>>

-----------------------------------------------------------------------------
(* The end of orchestrateReview, and of executeReview                       *)

Successes == {l \in Lenses : result[l] = "completed"}

(* Mutant of Blame: a lens that threw an abort of its own is taken for one that
   was never dispatched, which rejects with the same message. *)
BlameAnybody(l) ==
    CASE result[l] = "completed" -> "success"
      [] result[l] \in {"none", "threw-abort"} ->
            IF budgetStopped /\ ~Aborted THEN "BUDGET_EXHAUSTED" ELSE "CANCELLED"
      [] result[l] = "threw" -> IF Aborted THEN "CANCELLED" ELSE "INTERNAL_ERROR"
      [] OTHER -> "OTHER_ERROR"

(* The code of a lens in lensStats: isAbortRejection accepts what looks like an
   abort, and anything once a signal has fired. *)
Blame(l) ==
    CASE result[l] = "completed" -> "success"
      [] result[l] = "none" -> IF budgetStopped /\ ~Aborted THEN "BUDGET_EXHAUSTED" ELSE "CANCELLED"
      [] result[l] = "threw-abort" -> "CANCELLED"
      [] result[l] = "threw" -> IF Aborted THEN "CANCELLED" ELSE "INTERNAL_ERROR"
      [] OTHER -> "OTHER_ERROR"

(* Mutant of ReviewOutcome: a completed lens makes the review complete. *)
ReviewOutcomeBySuccess ==
    IF Successes # {} THEN "completed"
    ELSE IF "budget-exhausted" \in outcomes THEN "budget-exhausted"
    ELSE IF refusal # "none" THEN "schema-failed"
    ELSE "failed"

(* Mutant of ReviewOutcome: a structured-output failure always decides. *)
ReviewOutcomeByRefusal ==
    IF "budget-exhausted" \in outcomes THEN "budget-exhausted"
    ELSE IF refusal # "none" THEN "schema-failed"
    ELSE IF Successes # {} THEN "completed"
    ELSE "failed"

(* The outcome of the receipt: a refused settlement, else what the lenses
   returned, else the failure that decided. *)
ReviewOutcome ==
    IF "budget-exhausted" \in outcomes THEN "budget-exhausted"
    ELSE IF Successes # {} THEN "completed"
    ELSE IF refusal # "none" \/ "schema-failed" \in outcomes THEN "schema-failed"
    ELSE "failed"

Report ==
    /\ phase = "resolved"
    /\ report' = [outcome |-> ReviewOutcome, kept |-> Successes,
                  status |-> [l \in Lenses |-> Blame(l)]]
    /\ phase' = "reported"
    /\ UNCHANGED <<vars, stage, result, outcomes, userAborted, refusal, budgetStopped>>

(* The signal has fired before the lenses were started. *)
ReportCancelled ==
    /\ phase = "admitted"
    /\ userAborted
    /\ report' = [NoReport EXCEPT !.outcome = "cancelled"]
    /\ phase' = "reported"
    /\ UNCHANGED <<vars, stage, result, outcomes, userAborted, refusal, budgetStopped>>

(* The session gives back its authorization when its work is over. *)
Release ==
    /\ phase = "reported"
    /\ ReleaseReservation(Envelope)
    /\ phase' = "released"
    /\ UNCHANGED <<stage, result, outcomes, userAborted, refusal, budgetStopped, report>>

-----------------------------------------------------------------------------
LensStep(l) ==
    \/ RefuseDispatch(l)
    \/ \E value \in Answers, usage \in Usages : Answer(l, value, usage)
    \/ \E how \in Throws : Throw(l, how)
    \/ Judge(l)
    \/ Return(l)

ReviewStep ==
    \/ \E estimate \in Usages : Admit(estimate)
    \/ UserAbort \/ Start
    \/ \E l \in Lenses : LensStep(l)
    \/ Report \/ ReportCancelled \/ Release

LensNext ==
    \/ ReviewStep
    \/ phase = "other" /\ Next /\ UNCHANGED lensVars

LensSpec == LensInit /\ [][LensNext]_allVars

(* Adapters answer, by their deadline at the latest, and the engine goes on
   with every callback. *)
FairLensSpec ==
    /\ LensSpec
    /\ WF_allVars(Start \/ Report \/ ReportCancelled \/ Release)
    /\ \A l \in Lenses : WF_allVars(LensStep(l))

-----------------------------------------------------------------------------
(* Once the budget is spent nothing more is dispatched, but for the few
   callbacks between the commit that passed the limit and the worker that
   hears of it. *)
SpendingStops ==
    [][\A l \in Lenses :
        stage[l] = "queued" /\ stage'[l] = "dispatched" /\ exhausted =>
            \E k \in Lenses : stage[k] = "settled" /\ result[k] = "budget-exhausted"]_allVars

(* A review that overspent says so, whatever its lenses returned, whoever
   cancelled it and in whatever order they ended. *)
OverspendIsTold ==
    report.outcome \notin {"none", "cancelled"} /\ exhausted => report.outcome = "budget-exhausted"

(* The review fails for lack of structured output only if no lens produced
   any: findings that were decoded, even after the failure that stopped the
   others, are reported (orchestrate.ts). *)
FindingsSurvive ==
    /\ Successes # {} /\ report.outcome # "none"
        => report.outcome \in {"completed", "budget-exhausted"} /\ report.kept = Successes
    /\ report.outcome = "completed" => report.kept # {}

(* Every lens is blamed for what became of it: the budget only for one that was
   never dispatched although nobody aborted (orchestrate.test.ts: "not for one
   that threw"), an abort only if a signal fired or the lens itself threw one. In
   particular a lens that the spent budget kept from running is not cancelled. *)
BlameIsDue ==
    report.outcome \notin {"none", "cancelled"} =>
        \A l \in Lenses :
            /\ report.status[l] = "BUDGET_EXHAUSTED" =>
                stage[l] = "queued" /\ ~Aborted
                /\ \E k \in Lenses : result[k] = "budget-exhausted"
            /\ report.status[l] = "CANCELLED" => Aborted \/ result[l] = "threw-abort"
            /\ report.status[l] = "success" <=> l \in report.kept

(* An admitted review is reported and gives its reservation back, whichever of
   its lenses fail, throw or are never launched and whenever it is aborted. *)
ReviewEnds == phase = "admitted" ~> phase = "released"
=============================================================================

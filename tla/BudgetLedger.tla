---------------------------- MODULE BudgetLedger ----------------------------
(***************************************************************************)
(* The ledger that holds a review to the limits it was admitted with       *)
(* (cli/server/src/shared/lib/ai/budget/ledger.ts, class BudgetLedger).    *)
(*                                                                         *)
(* Admission reserves the whole review once; the lenses of the review then *)
(* commit what each of their dispatches used against that one open         *)
(* reservation, in any order, while the review may end and release it.     *)
(* The command-line drivers reserve and settle one attempt. The module     *)
(* allows any sequence of calls, so it covers both.                        *)
(*                                                                         *)
(* A usage is a number for each dimension (tokens, bytes, time, dollars);  *)
(* dollars are counted in a unit for which the arithmetic is exact.        *)
(***************************************************************************)
EXTENDS Integers, FiniteSetsExt

CONSTANTS
    Dimensions,      \* the dimensions of AttemptEstimate
    Limit,           \* the admitted limit of each dimension
    MaxConcurrency,
    MaxRetries,
    Usages,          \* the usages callers estimate and report
    Reservations,    \* the ids of the reservations
    MaxAttempts      \* bound: attempts settled

ASSUME BudgetLedgerAssumption ==
    /\ Limit \in [Dimensions -> Nat]
    /\ Usages \subseteq [Dimensions -> Nat]
    /\ IsFiniteSet(Reservations)
    /\ MaxConcurrency \in Nat \ {0}
    /\ MaxRetries \in Nat
    /\ MaxAttempts \in Nat

VARIABLES
    committed,       \* usage of the attempts that ended
    reserved,        \* what the open reservations still hold
    reservations,    \* the open reservations, with what remains of each
    used,            \* the ids given out, which nextReservationId never repeats
    settledAttempts,
    exhausted,       \* exhaustedLimit is set
    cancelled,
    answer           \* what the last call that can fail returned

vars == <<committed, reserved, reservations, used, settledAttempts, exhausted,
          cancelled, answer>>

Open == DOMAIN reservations

TypeOK ==
    /\ committed \in [Dimensions -> Nat]
    /\ reserved \in [Dimensions -> Int]
    /\ Open \subseteq used
    /\ reservations \in [Open -> [Dimensions -> Nat]]
    /\ used \subseteq Reservations
    /\ settledAttempts \in Nat
    /\ exhausted \in BOOLEAN
    /\ cancelled \in BOOLEAN
    /\ answer \in {"ok", "exhausted", "cancelled"}

Zero == [d \in Dimensions |-> 0]

Init ==
    /\ committed = Zero
    /\ reserved = Zero
    /\ reservations = [i \in {} |-> Zero]
    /\ used = {}
    /\ settledAttempts = 0
    /\ exhausted = FALSE
    /\ cancelled = FALSE
    /\ answer = "ok"

-----------------------------------------------------------------------------
(* addUsage and subtractUsage *)
Plus(u, v) == [d \in Dimensions |-> u[d] + v[d]]
Minus(u, v) == [d \in Dimensions |-> u[d] - v[d]]

(* Mutant of drawDown: all that the reservation still holds is given back with
   its first use. *)
drawDownEverything(remaining, settled) == remaining

(* The part of an open reservation that settled usage consumes. *)
drawDown(remaining, settled) ==
    [d \in Dimensions |->
        IF remaining[d] <= settled[d] THEN remaining[d] ELSE settled[d]]

(* Mutant of Exceeds: what is reserved does not count. *)
ExceedsCommitted(held, delta) == \E d \in Dimensions : committed[d] + delta[d] > Limit[d]

(* checkUsageBudget, once the reservations hold `held`. *)
Exceeds(held, delta) ==
    \E d \in Dimensions : committed[d] + held[d] + delta[d] > Limit[d]

AtConcurrencyLimit == Cardinality(Open) >= MaxConcurrency
AtRetryLimit == settledAttempts + Cardinality(Open) >= MaxRetries + 1

Without(i) == [j \in Open \ {i} |-> reservations[j]]

-----------------------------------------------------------------------------
(* reserveAttempt *)
Reserve(i, estimate) ==
    /\ i \notin used
    /\ ~cancelled /\ ~exhausted
    /\ ~AtConcurrencyLimit /\ ~AtRetryLimit
    /\ ~Exceeds(reserved, estimate)
    /\ reservations' = [j \in Open \union {i} |->
                            IF j = i THEN estimate ELSE reservations[j]]
    /\ reserved' = Plus(reserved, estimate)
    /\ used' = used \union {i}
    /\ answer' = "ok"
    /\ UNCHANGED <<committed, settledAttempts, exhausted, cancelled>>

(* A concurrency refusal is temporary; every other one exhausts the ledger. *)
RefuseReservation(estimate) ==
    /\ \/ cancelled \/ exhausted
       \/ AtConcurrencyLimit \/ AtRetryLimit
       \/ Exceeds(reserved, estimate)
    /\ answer' = IF cancelled THEN "cancelled" ELSE "exhausted"
    /\ exhausted' = (exhausted \/ (~cancelled /\ ~AtConcurrencyLimit))
    /\ UNCHANGED <<committed, reserved, reservations, used, settledAttempts, cancelled>>

(* releaseReservation; releasing again changes nothing. *)
ReleaseReservation(i) ==
    /\ i \in Open
    /\ reserved' = Minus(reserved, reservations[i])
    /\ reservations' = Without(i)
    /\ UNCHANGED <<committed, used, settledAttempts, exhausted, cancelled, answer>>

(* The common end of the two ways usage is settled. *)
Account(held, settled) ==
    /\ reserved' = held
    /\ committed' = Plus(committed, settled)
    /\ settledAttempts' = settledAttempts + 1
    /\ answer' = IF Exceeds(held, settled) THEN "exhausted" ELSE "ok"
    /\ exhausted' = (exhausted \/ Exceeds(held, settled))
    /\ UNCHANGED <<used, cancelled>>

(* commitAttemptUsage draws the usage from the reservation and keeps it open. *)
CommitAttemptUsage(i, settled) ==
    /\ i \in Open
    /\ settledAttempts < MaxAttempts
    /\ LET consumed == drawDown(reservations[i], settled)
       IN  /\ reservations' = [reservations EXCEPT ![i] = Minus(@, consumed)]
           /\ Account(Minus(reserved, consumed), settled)

(* Mutant of SettleAttempt: the usage is given back, not the reservation. *)
SettleAttemptByUsage(i, settled) ==
    /\ i \in Open
    /\ settledAttempts < MaxAttempts
    /\ reservations' = Without(i)
    /\ Account(Minus(reserved, settled), settled)

(* settleAttempt gives the reservation back. *)
SettleAttempt(i, settled) ==
    /\ i \in Open
    /\ settledAttempts < MaxAttempts
    /\ reservations' = Without(i)
    /\ Account(Minus(reserved, reservations[i]), settled)

(* Usage reported for a reservation that is gone is not committed. *)
ReportLate(i) ==
    /\ i \in used \ Open
    /\ answer' = "ok"
    /\ UNCHANGED <<committed, reserved, reservations, used, settledAttempts,
                   exhausted, cancelled>>

(* What the open reservations still hold. *)
Held == [d \in Dimensions |-> MapThenSumSet(LAMBDA i : reservations[i][d], Open)]

(* cancel subtracts and drops every open reservation. *)
Cancel ==
    /\ cancelled' = TRUE
    /\ reserved' = Minus(reserved, Held)
    /\ reservations' = [i \in {} |-> Zero]
    /\ UNCHANGED <<committed, used, settledAttempts, exhausted, answer>>

Next ==
    \/ \E i \in Reservations :
        \/ \E u \in Usages :
            \/ Reserve(i, u)
            \/ CommitAttemptUsage(i, u)
            \/ SettleAttempt(i, u)
        \/ ReleaseReservation(i)
        \/ ReportLate(i)
    \/ \E u \in Usages : RefuseReservation(u)
    \/ Cancel

Spec == Init /\ [][Next]_vars

-----------------------------------------------------------------------------
(* What is spent and what is promised together stay within every limit, until
   the ledger says that it is exhausted or the review is cancelled. *)
WithinLimitsUntilExhausted ==
    ~exhausted /\ ~cancelled =>
        \A d \in Dimensions : committed[d] + reserved[d] <= Limit[d]

(* However commits, settlements, releases and cancellation interleave, the
   running total is the sum of what the open reservations still hold: nothing
   is credited twice and nothing stays reserved for nobody. *)
ReservedIsHeld == reserved = Held

(* Once usage has passed a limit, every later dispatch that is committed
   against a reservation still open is told so: drawing the envelope down
   further never makes room again. *)
ExhaustionSticks ==
    [][/\ \E d \in Dimensions : committed[d] + reserved[d] > Limit[d]
       /\ settledAttempts' # settledAttempts
       /\ DOMAIN reservations' = Open
       => answer' = "exhausted"]_vars
=============================================================================

--------------------------- MODULE ReviewSessions ---------------------------
(***************************************************************************)
(* The in-memory review sessions of the server: the map of active          *)
(* sessions, its capacity, cancellation, idle timeout, supersession,       *)
(* shutdown, and the commit point of the detached runner that saves a      *)
(* review.                                                                 *)
(*                                                                         *)
(*   cli/server/src/features/review/stream/store.ts    the session map     *)
(*   cli/server/src/features/review/service.ts         activation, runner  *)
(*   cli/server/src/features/review/pipeline.ts        finalizeReview      *)
(*   cli/server/src/features/review/router/sessions.ts POST and DELETE     *)
(*   cli/server/src/shared/lib/session-registry.ts     revocation          *)
(*                                                                         *)
(* One action is one turn of the event loop: code between two awaits that  *)
(* reach the disk, git, a provider, a timer or a new request. An await on  *)
(* emit resolves in the same turn, so "emit the terminal event, then mark  *)
(* complete" is one action. A POST and the review it may start share one   *)
(* identifier, because the handler draws a fresh UUID for each request.    *)
(***************************************************************************)
EXTENDS Naturals, Sequences, FiniteSets

CONSTANTS
    Reviews,      \* the review-creation requests, and the reviews they start
    Projects,     \* a project path together with a review mode
    ProjectOf,    \* the project of each request
    InputOf,      \* reviewInputHash of each request, NoInput if git diff failed
    ScopeOf,      \* scopeKey of each request
    FingerprintOf, \* the execution tuple each request is admitted for
    GitStateOf,   \* head commit, status hash and config key, or Unverifiable
    NoInput,
    Unverifiable,
    MaxSessions,  \* MAX_SESSIONS
    MaxGeneration \* bound: revocations of one project

ASSUME ReviewSessionsAssumption ==
    /\ IsFiniteSet(Reviews)
    /\ ProjectOf \in [Reviews -> Projects]
    /\ DOMAIN InputOf = Reviews
    /\ DOMAIN ScopeOf = Reviews
    /\ DOMAIN GitStateOf = Reviews
    /\ DOMAIN FingerprintOf = Reviews
    /\ MaxSessions \in Nat \ {0}
    /\ MaxGeneration \in Nat
    \* reviewInputHash hashes the review config key, which holds the fingerprint.
    /\ \A r, s \in Reviews :
        InputOf[r] = InputOf[s] /\ InputOf[r] # NoInput
            => FingerprintOf[r] = FingerprintOf[s]

VARIABLES
    pc,               \* where the request, then its detached runner, stands
    leases,           \* requests whose execution lease has not been released
    activeSessions,   \* the keys of the activeSessions map
    completed,        \* isComplete
    persistenceState, \* pending, committing or committed
    aborted,          \* controller.signal.aborted
    startedAt,        \* creation order; a Map iterates in it, so ties agree
    clock,
    generation,       \* projectGenerations
    captured,         \* the generation a request read before it awaited git
    maintenance,      \* cleanupInterval is set
    terminals,        \* history: the terminal events of each session
    saved             \* the reviews on the disk

vars == <<pc, leases, activeSessions, completed, persistenceState, aborted,
          startedAt, clock, generation, captured, maintenance, terminals, saved>>

Codes == {"complete", "error", "CANCELLED", "SESSION_STALE",
          "SESSION_EVICTED", "SESSION_TIMEOUT", "SERVER_SHUTDOWN"}

TypeOK ==
    /\ pc \in [Reviews ->
            {"idle", "admitted", "running", "saving", "durable", "done"}]
    /\ leases \subseteq Reviews
    /\ activeSessions \subseteq Reviews
    /\ completed \subseteq Reviews
    /\ persistenceState \in [Reviews -> {"pending", "committing", "committed"}]
    /\ aborted \subseteq Reviews
    /\ startedAt \in [Reviews -> Nat]
    /\ clock \in Nat
    /\ generation \in [Projects -> Nat]
    /\ captured \in [Reviews -> Nat]
    /\ maintenance \in BOOLEAN
    /\ terminals \in [Reviews -> Seq(Codes)]
    /\ saved \subseteq Reviews

Init ==
    /\ pc = [r \in Reviews |-> "idle"]
    /\ leases = {}
    /\ activeSessions = {}
    /\ completed = {}
    /\ persistenceState = [r \in Reviews |-> "pending"]
    /\ aborted = {}
    /\ startedAt = [r \in Reviews |-> 0]
    /\ clock = 0
    /\ generation = [p \in Projects |-> 0]
    /\ captured = [r \in Reviews |-> 0]
    /\ maintenance = TRUE
    /\ terminals = [r \in Reviews |-> <<>>]
    /\ saved = {}

-----------------------------------------------------------------------------
(* Helper state formulas                                                    *)

Live == activeSessions \ completed

LivePending == {r \in Live : persistenceState[r] = "pending"}

(* canEvictSession, for the sessions that are complete once `done` is. *)
Evictable(done) ==
    {r \in activeSessions : r \in done \/ persistenceState[r] = "pending"}

(* Mutant of EvictedBefore: the oldest session goes first, live or not. *)
EvictedBeforeByAge(done, a, b) == startedAt[a] < startedAt[b]

(* Eviction order: replay-cache entries before live reviews, oldest first. *)
EvictedBefore(done, a, b) ==
    \/ a \in done /\ b \notin done
    \/ (a \in done <=> b \in done) /\ startedAt[a] < startedAt[b]

(* The sessions removed by evicting n times, or until none can be evicted. *)
Evicted(done, n) ==
    {r \in Evictable(done) :
        Cardinality({q \in Evictable(done) : EvictedBefore(done, q, r)}) < n}

(* What terminateSession appends to the event buffers of the sessions S.   *)
Told(history, S, code) ==
    [r \in Reviews |-> IF r \in S THEN Append(history[r], code) ELSE history[r]]

(* Mutant of Superseded: the branch for a request with an input hash is gone. *)
SupersededByGitState(r) ==
    {s \in LivePending :
        /\ ProjectOf[s] = ProjectOf[r]
        /\ InputOf[r] = NoInput
        /\ GitStateOf[r] # Unverifiable
        /\ GitStateOf[s] # Unverifiable
        /\ GitStateOf[s] # GitStateOf[r]}

(* cancelStaleSessionsForProjectMode: the sessions a new request obsoletes. *)
Superseded(r) ==
    {s \in LivePending :
        /\ ProjectOf[s] = ProjectOf[r]
        /\ IF InputOf[r] # NoInput
           THEN InputOf[s] # InputOf[r]
           ELSE /\ GitStateOf[r] # Unverifiable
                /\ GitStateOf[s] # Unverifiable
                /\ GitStateOf[s] # GitStateOf[r]}

(* getActiveSessionForProject, as createReviewSession calls it. *)
SameReview(r, s) ==
    /\ ProjectOf[s] = ProjectOf[r]
    /\ InputOf[s] = InputOf[r]
    /\ ScopeOf[s] = ScopeOf[r]

Existing(r) == {s \in Live : InputOf[r] # NoInput /\ SameReview(r, s)}

-----------------------------------------------------------------------------
(* The POST handler                                                         *)

(* Mutant of Admit: several leases are granted for one execution tuple. *)
AdmitSameTuple(r) ==
    /\ pc[r] = "idle"
    /\ pc' = [pc EXCEPT ![r] = "admitted"]
    /\ leases' = leases \union {r}
    /\ captured' = [captured EXCEPT ![r] = generation[ProjectOf[r]]]
    /\ UNCHANGED <<activeSessions, completed, persistenceState, aborted, startedAt,
                   clock, generation, maintenance, terminals, saved>>

(* authorizeReviewExecution grants the lease, never two for one execution
   tuple (ConfigurationLeases has the details), and the handler reads the
   project generation in the same turn; createReviewSession then awaits git. *)
Admit(r) ==
    /\ pc[r] = "idle"
    /\ \A q \in leases : FingerprintOf[q] # FingerprintOf[r]
    /\ pc' = [pc EXCEPT ![r] = "admitted"]
    /\ leases' = leases \union {r}
    /\ captured' = [captured EXCEPT ![r] = generation[ProjectOf[r]]]
    /\ UNCHANGED <<activeSessions, completed, persistenceState, aborted, startedAt,
                   clock, generation, maintenance, terminals, saved>>

(* The handler ends without a session: settings or git failed, or the project
   was revoked meanwhile. Its `finally` releases the lease no session adopted. *)
Refuse(r) ==
    /\ pc[r] = "admitted"
    /\ pc' = [pc EXCEPT ![r] = "done"]
    /\ leases' = leases \ {r}
    /\ UNCHANGED <<activeSessions, completed, persistenceState, aborted, startedAt,
                   clock, generation, captured, maintenance, terminals, saved>>

(* Mutant of Activate: the generation is not compared after the await. *)
ActivateUnfenced(r) ==
    /\ pc[r] = "admitted"
    /\ Existing(r) = {}
    /\ LET stale   == Superseded(r)
           done    == completed \union stale
           victims == IF Cardinality(activeSessions) >= MaxSessions
                      THEN Evicted(done, 1) ELSE {}
       IN  /\ activeSessions' = (activeSessions \ victims) \union {r}
           /\ completed' = done \union victims
           /\ aborted' = aborted \union stale \union (victims \ done)
           /\ terminals' = Told(Told(terminals, stale, "SESSION_STALE"),
                                victims \ done, "SESSION_EVICTED")
    /\ pc' = [pc EXCEPT ![r] = "running"]
    /\ startedAt' = [startedAt EXCEPT ![r] = clock + 1]
    /\ clock' = clock + 1
    /\ maintenance' = TRUE
    /\ UNCHANGED <<leases, persistenceState, generation, captured, saved>>

(* activate: supersede, make room, create and hand over to the runner, all in
   one turn. NoLiveDuplicate shows that its first early return, which answers
   with an existing session, is never taken: the lease was refused before. *)
Activate(r) ==
    /\ pc[r] = "admitted"
    /\ captured[r] = generation[ProjectOf[r]]
    /\ Existing(r) = {}
    /\ LET stale   == Superseded(r)
           done    == completed \union stale
           victims == IF Cardinality(activeSessions) >= MaxSessions
                      THEN Evicted(done, 1) ELSE {}
       IN  /\ activeSessions' = (activeSessions \ victims) \union {r}
           /\ completed' = done \union victims
           /\ aborted' = aborted \union stale \union (victims \ done)
           /\ terminals' = Told(Told(terminals, stale, "SESSION_STALE"),
                                victims \ done, "SESSION_EVICTED")
    /\ pc' = [pc EXCEPT ![r] = "running"]
    /\ startedAt' = [startedAt EXCEPT ![r] = clock + 1]
    /\ clock' = clock + 1
    /\ maintenance' = TRUE
    /\ UNCHANGED <<leases, persistenceState, generation, captured, saved>>

-----------------------------------------------------------------------------
(* The detached runner                                                      *)

(* A handler found the signal aborted: the session was ended by whoever
   aborted it, so the runner only returns its lease. *)
RunnerStops(r) ==
    /\ pc[r] \in {"running", "saving", "durable"}
    /\ r \in aborted
    /\ pc' = [pc EXCEPT ![r] = "done"]
    /\ leases' = leases \ {r}
    /\ UNCHANGED <<activeSessions, completed, persistenceState, aborted, startedAt,
                   clock, generation, captured, maintenance, terminals, saved>>

(* Mutants of Finish: the lease is not released, the session is not marked
   complete. *)
FinishKeepingLease(r, code) ==
    /\ completed' = completed \union {r}
    /\ terminals' = Told(terminals, {r}, code)
    /\ pc' = [pc EXCEPT ![r] = "done"]
    /\ UNCHANGED <<activeSessions, aborted, leases>>

FinishUnmarked(r, code) ==
    /\ terminals' = Told(terminals, {r}, code)
    /\ pc' = [pc EXCEPT ![r] = "done"]
    /\ leases' = leases \ {r}
    /\ UNCHANGED <<activeSessions, completed, aborted>>

(* emit(terminal event), markComplete with its trimSessionsToLimit, and the
   runner's `finally`. *)
Finish(r, code) ==
    LET done    == completed \union {r}
        victims == IF Cardinality(activeSessions) > MaxSessions
                   THEN Evicted(done, Cardinality(activeSessions) - MaxSessions)
                   ELSE {}
    IN  /\ activeSessions' = activeSessions \ victims
        /\ completed' = done \union victims
        /\ aborted' = aborted \union (victims \ done)
        /\ terminals' = Told(Told(terminals, {r}, code),
                             victims \ done, "SESSION_EVICTED")
        /\ pc' = [pc EXCEPT ![r] = "done"]
        /\ leases' = leases \ {r}

(* handleReviewFailure before the commit point. *)
RunnerFails(r) ==
    /\ pc[r] = "running"
    /\ r \notin aborted
    /\ Finish(r, "error")
    /\ UNCHANGED <<persistenceState, startedAt, clock, generation, captured,
                   maintenance, saved>>

(* finalizeReview: throwIfAborted, then markCommitting. RunnerOwnsSession
   shows that markCommitting cannot refuse an unaborted runner. *)
BeginCommit(r) ==
    /\ pc[r] = "running"
    /\ InputOf[r] # NoInput
    /\ r \notin aborted
    /\ r \in LivePending
    /\ persistenceState' = [persistenceState EXCEPT ![r] = "committing"]
    /\ pc' = [pc EXCEPT ![r] = "saving"]
    /\ UNCHANGED <<leases, activeSessions, completed, aborted, startedAt, clock,
                   generation, captured, maintenance, terminals, saved>>

(* saveReview makes the review durable, and still awaits its index. *)
SaveWritten(r) ==
    /\ pc[r] = "saving"
    /\ pc' = [pc EXCEPT ![r] = "durable"]
    /\ saved' = saved \union {r}
    /\ UNCHANGED <<leases, activeSessions, completed, persistenceState, aborted,
                   startedAt, clock, generation, captured, maintenance, terminals>>

(* The write fails; the review may be on the disk all the same. *)
SaveFails(r) ==
    /\ pc[r] = "saving"
    /\ r \notin aborted
    /\ saved' \in {saved, saved \union {r}}
    /\ Finish(r, "error")
    /\ UNCHANGED <<persistenceState, startedAt, clock, generation, captured,
                   maintenance>>

(* Mutant of Settle: the save is not awaited. *)
SettleUnsaved(r, code) ==
    /\ pc[r] \in {"saving", "durable"}
    /\ r \in activeSessions
    /\ persistenceState[r] = "committing"
    /\ persistenceState' = [persistenceState EXCEPT ![r] = "committed"]
    /\ Finish(r, code)
    /\ UNCHANGED <<startedAt, clock, generation, captured, maintenance, saved>>

(* markCommitted, then the complete event, or the error a review that did not
   complete is reported with once its receipt is durable. *)
Settle(r, code) ==
    /\ pc[r] = "durable"
    /\ r \in activeSessions
    /\ persistenceState[r] = "committing"
    /\ persistenceState' = [persistenceState EXCEPT ![r] = "committed"]
    /\ Finish(r, code)
    /\ UNCHANGED <<startedAt, clock, generation, captured, maintenance, saved>>

-----------------------------------------------------------------------------
(* Everybody else who ends a session                                        *)

(* terminateSession on the sessions S; those in `gone` leave the map too. *)
Terminate(S, code, gone) ==
    /\ completed' = completed \union S
    /\ aborted' = aborted \union S
    /\ terminals' = Told(terminals, S, code)
    /\ activeSessions' = activeSessions \ gone

(* Mutant of CancelForUser: a session past its commit point is cancelled. *)
CancelForUserCommitting(r) ==
    /\ r \in Live
    /\ Terminate({r}, "CANCELLED", {})
    /\ UNCHANGED <<pc, leases, persistenceState, startedAt, clock, generation,
                   captured, maintenance, saved>>

(* DELETE /sessions/:id answering "cancelled". *)
CancelForUser(r) ==
    /\ r \in LivePending
    /\ Terminate({r}, "CANCELLED", {})
    /\ UNCHANGED <<pc, leases, persistenceState, startedAt, clock, generation,
                   captured, maintenance, saved>>

(* The cancellation a configuration deletion reaches through the lease. *)
CancelForConfiguration(r) ==
    /\ r \in leases
    /\ r \in LivePending
    /\ Terminate({r}, "SESSION_STALE", {})
    /\ UNCHANGED <<pc, leases, persistenceState, startedAt, clock, generation,
                   captured, maintenance, saved>>

(* revokeProjectSessions: bump the generation, then cancel. *)
RevokeProject(p) ==
    /\ generation[p] < MaxGeneration
    /\ generation' = [generation EXCEPT ![p] = @ + 1]
    /\ Terminate({r \in LivePending : ProjectOf[r] = p}, "SESSION_STALE", {})
    /\ UNCHANGED <<pc, leases, persistenceState, startedAt, clock, captured,
                   maintenance, saved>>

(* cleanupStaleSessions, for any set of sessions that has been idle. *)
CleanupStale(S) ==
    /\ maintenance
    /\ S # {}
    /\ S \subseteq LivePending
    /\ Terminate(S, "SESSION_TIMEOUT", S)
    /\ UNCHANGED <<pc, leases, persistenceState, startedAt, clock, generation,
                   captured, maintenance, saved>>

(* The timer that markComplete and cancelSessionWithError set. *)
Expire(r) ==
    /\ r \in activeSessions \intersect completed
    /\ activeSessions' = activeSessions \ {r}
    /\ UNCHANGED <<pc, leases, completed, persistenceState, aborted, startedAt,
                   clock, generation, captured, maintenance, terminals, saved>>

(* Mutant of Shutdown: completed sessions are terminated again. *)
ShutdownEverything ==
    /\ maintenance \/ activeSessions # {}
    /\ maintenance' = FALSE
    /\ Terminate(activeSessions, "SERVER_SHUTDOWN", activeSessions)
    /\ UNCHANGED <<pc, leases, persistenceState, startedAt, clock, generation,
                   captured, saved>>

(* shutdownSessions ends every session, a committing one included. *)
Shutdown ==
    /\ maintenance \/ activeSessions # {}
    /\ maintenance' = FALSE
    /\ Terminate(Live, "SERVER_SHUTDOWN", activeSessions)
    /\ UNCHANGED <<pc, leases, persistenceState, startedAt, clock, generation,
                   captured, saved>>

-----------------------------------------------------------------------------

Runner(r) ==
    \/ RunnerStops(r)
    \/ RunnerFails(r)
    \/ BeginCommit(r)
    \/ SaveWritten(r)
    \/ SaveFails(r)
    \/ \E code \in {"complete", "error"} : Settle(r, code)

Next ==
    \/ \E r \in Reviews :
        \/ Admit(r)
        \/ Refuse(r)
        \/ Activate(r)
        \/ Runner(r)
        \/ CancelForUser(r)
        \/ CancelForConfiguration(r)
        \/ Expire(r)
    \/ \E p \in Projects : RevokeProject(p)
    \/ \E S \in SUBSET Reviews : CleanupStale(S)
    \/ Shutdown

Spec == Init /\ [][Next]_vars

(* A handler and a runner keep taking turns: git, the provider (bounded by
   the admitted wall time) and the disk all answer. *)
Fairness == \A r \in Reviews : WF_vars(Refuse(r) \/ Activate(r) \/ Runner(r))

FairSpec == Spec /\ Fairness
-----------------------------------------------------------------------------
(* Safety                                                                   *)

(* A review on disk is never one whose client was told that it was cancelled,
   superseded, evicted or timed out: markCommitting is the point of no return,
   and only shutdown ignores it. *)
DurableNotDisowned ==
    \A r \in saved : \A i \in DOMAIN terminals[r] :
        terminals[r][i] \in {"complete", "error", "SERVER_SHUTDOWN"}

(* Every session that ended told its client so exactly once, however many
   parties raced to end it, and no session in progress has been told. *)
OneTerminalEvent ==
    \A r \in Reviews :
        Len(terminals[r]) = (IF r \in completed THEN 1 ELSE 0)

(* A runner whose signal is not aborted still owns a live session, so
   "Review is no longer pending" and "Review commit state was lost" are never
   reported to a client that was not already told of the end. *)
RunnerOwnsSession ==
    \A r \in Reviews \ aborted :
        /\ pc[r] = "running" => r \in LivePending
        /\ pc[r] \in {"saving", "durable"} =>
            r \in Live /\ persistenceState[r] = "committing"

(* A live session still holds the lease it was admitted with, and a lease is
   held only for a handler or a runner that is going to release it. *)
LeaseHeldByLiveWork ==
    /\ Live \subseteq leases
    /\ \A r \in leases : pc[r] \in {"admitted", "running", "saving", "durable"}

(* No request passed admission while the review it asks for is live, so a
   second session for the same review never starts. *)
NoLiveDuplicate == \A r \in Reviews : pc[r] = "admitted" => Existing(r) = {}

(* A project has at most one review that may still be cancelled: the others
   were superseded or have reached their commit point. *)
OnePendingReviewPerProject ==
    \A r, s \in LivePending :
        /\ ProjectOf[r] = ProjectOf[s]
        /\ InputOf[r] # NoInput /\ InputOf[s] # NoInput
        => r = s

(* Revoking a project reaches the reviews that were still being admitted: no
   pending session was started by a request of an earlier generation. *)
RevocationFence ==
    \A r \in LivePending : captured[r] = generation[ProjectOf[r]]

(* Where a request stands decides what the maps may say about its session. *)
Consistent(r) ==
    /\ r \in leases <=> pc[r] \in {"admitted", "running", "saving", "durable"}
    /\ r \in Live => pc[r] \in {"running", "saving", "durable"}
    /\ pc[r] \in {"idle", "admitted"} => r \notin activeSessions \union completed
    /\ r \in aborted => r \in completed
    /\ r \in saved => persistenceState[r] # "pending"
    /\ pc[r] \in {"idle", "admitted", "running"} => persistenceState[r] = "pending"
    /\ pc[r] \in {"saving", "durable"} =>
        /\ persistenceState[r] # "pending"
        /\ r \in activeSessions => r \notin completed
    /\ persistenceState[r] # "pending" =>
        \A i \in DOMAIN terminals[r] :
            terminals[r][i] \in {"complete", "error", "SERVER_SHUTDOWN"}

(* A second lease for an execution tuple was refused. *)
OneLeasePerTuple ==
    \A q, r \in leases : FingerprintOf[q] = FingerprintOf[r] => q = r

(* The pending reviews of a project agree on their input. *)
PendingAgree ==
    \A r, s \in LivePending :
        /\ ProjectOf[r] = ProjectOf[s]
        /\ InputOf[r] # NoInput /\ InputOf[s] # NoInput
        => InputOf[r] = InputOf[s]

(* The inductive invariant behind the invariants above. *)
SessionInv ==
    /\ TypeOK
    /\ OneTerminalEvent
    /\ RunnerOwnsSession
    /\ RevocationFence
    /\ \A r \in Reviews : Consistent(r)
    /\ OneLeasePerTuple
    /\ PendingAgree

-----------------------------------------------------------------------------
(* Action properties                                                        *)

(* A live review is only evicted when the map holds no completed session whose
   replay entry could have made room. *)
EvictionSparesLiveWork ==
    [][\A r \in Live :
        Told(terminals, {r}, "SESSION_EVICTED")[r] = terminals'[r]
            => activeSessions' \intersect completed' = {}]_vars

-----------------------------------------------------------------------------
(* What the sessions implement                                              *)

Stage(r) ==
    IF persistenceState[r] # "pending" THEN "committing"
    ELSE IF r \in activeSessions \union completed THEN "pending"
    ELSE "absent"

Outcomes == INSTANCE ReviewOutcomes WITH
    stage <- [r \in Reviews |-> Stage(r)],
    told <- terminals

(* Whoever races to end a review, at whatever turn of its runner, it has one
   outcome, told once, that agrees with what is on the disk then and later. *)
OutcomeIsDecided == Outcomes!Spec

-----------------------------------------------------------------------------
(* Liveness                                                                 *)

(* Every lease that was granted for a review is eventually released, so that
   once the last request has been admitted a time comes when none is held. *)
LeasesReleased == leases # {} ~> leases = {}

(* Every session that starts eventually tells its client how it ended. *)
SessionsEnd == \A r \in Reviews : r \in activeSessions ~> r \in completed
=============================================================================

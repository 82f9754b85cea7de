----------------------- MODULE ReviewSessionsProofs -----------------------
(***************************************************************************)
(* Proofs about ReviewSessions, for any finite set of requests, any        *)
(* capacity and any assignment of projects, inputs and fingerprints.       *)
(*                                                                         *)
(* Every way a session ends comes down to one step, in which some live     *)
(* sessions are completed and each is told once (TerminatePreserves,       *)
(* FinishPreserves). The lemmas about Told and Evicted say what it does to *)
(* the histories and the map. The last two parts are about who is evicted, *)
(* and show that each session implements a review of ReviewOutcomes.       *)
(***************************************************************************)
EXTENDS ReviewSessions, FiniteSetTheorems, TLAPS

(* The sessions evicted by any number of evictions could be evicted. *)
LEMMA EvictedAreEvictable ==
    ASSUME NEW done, NEW n
    PROVE  /\ Evicted(done, n) \subseteq activeSessions
           /\ \A r \in Evicted(done, n) : r \in done \/ persistenceState[r] = "pending"
BY DEF Evicted, Evictable

(* Told adds the code once to the history of each session of S and leaves the
   other histories alone. *)
LEMMA ToldAppends ==
    ASSUME NEW history \in [Reviews -> Seq(Codes)], NEW S, NEW code \in Codes
    PROVE  /\ Told(history, S, code) \in [Reviews -> Seq(Codes)]
           /\ \A r \in Reviews \ S : Told(history, S, code)[r] = history[r]
           /\ \A r \in Reviews : r \in S =>
                /\ Told(history, S, code)[r] = Append(history[r], code)
                /\ Len(Told(history, S, code)[r]) = Len(history[r]) + 1
                /\ \A C : (\A i \in DOMAIN history[r] : history[r][i] \in C) /\ code \in C
                     => \A i \in DOMAIN Told(history, S, code)[r] :
                            Told(history, S, code)[r][i] \in C
<1>1. Told(history, S, code) \in [Reviews -> Seq(Codes)]
  BY DEF Told
<1>2. \A r \in Reviews \ S : Told(history, S, code)[r] = history[r]
  BY DEF Told
<1>3. ASSUME NEW r \in Reviews, r \in S
      PROVE  /\ Told(history, S, code)[r] = Append(history[r], code)
             /\ Len(Told(history, S, code)[r]) = Len(history[r]) + 1
             /\ \A C : (\A i \in DOMAIN history[r] : history[r][i] \in C) /\ code \in C
                  => \A i \in DOMAIN Told(history, S, code)[r] :
                         Told(history, S, code)[r][i] \in C
  <2>1. Told(history, S, code)[r] = Append(history[r], code)
    BY <1>3 DEF Told
  <2>2. history[r] \in Seq(Codes)
    OBVIOUS
  <2>3. Len(Append(history[r], code)) = Len(history[r]) + 1
    BY <2>2
  <2>4. ASSUME NEW C, \A i \in DOMAIN history[r] : history[r][i] \in C, code \in C,
               NEW i \in DOMAIN Append(history[r], code)
        PROVE  Append(history[r], code)[i] \in C
    BY <2>2, <2>4
  <2>. QED BY <2>1, <2>3, <2>4
<1>. QED BY <1>1, <1>2, <1>3

(* Two rounds of endings that meet in no session tell each session of either
   round exactly once. *)
LEMMA ToldTwice ==
    ASSUME terminals \in [Reviews -> Seq(Codes)],
           NEW S, NEW T, S \intersect T = {}, NEW c \in Codes, NEW d \in Codes,
           terminals' = Told(Told(terminals, S, c), T, d)
    PROVE  /\ terminals' \in [Reviews -> Seq(Codes)]
           /\ \A r \in Reviews : r \notin S /\ r \notin T =>
                terminals'[r] = terminals[r]
           /\ \A r \in Reviews : r \in S \/ r \in T =>
                Len(terminals'[r]) = Len(terminals[r]) + 1
           /\ \A r \in Reviews : r \in S =>
                terminals'[r] = Told(terminals, S, c)[r]
<1>1. Told(terminals, S, c) \in [Reviews -> Seq(Codes)]
  BY DEF Told
<1>2. terminals' \in [Reviews -> Seq(Codes)]
  BY <1>1 DEF Told
<1>3. ASSUME NEW r \in Reviews
      PROVE  /\ r \notin S /\ r \notin T => terminals'[r] = terminals[r]
             /\ r \in S => /\ terminals'[r] = Told(terminals, S, c)[r]
                           /\ terminals'[r] = Append(terminals[r], c)
             /\ r \in T => terminals'[r] = Append(terminals[r], d)
  BY DEF Told
<1>4. ASSUME NEW r \in Reviews, NEW e \in Codes
      PROVE  Len(Append(terminals[r], e)) = Len(terminals[r]) + 1
  OBVIOUS
<1>. QED BY <1>2, <1>3, <1>4

(* Ending some pending sessions - or, at shutdown, all live ones - and
   dropping ended sessions from the map preserves the invariant, as long as
   the sessions that remain pending belong to the current generation. *)
LEMMA TerminatePreserves ==
    ASSUME SessionInv,
           NEW S, S \subseteq Live, NEW c \in Codes,
           NEW gone, gone \intersect Live \subseteq S,
           S \subseteq LivePending \/ (c = "SERVER_SHUTDOWN" /\ gone = activeSessions),
           Terminate(S, c, gone),
           generation' \in [Projects -> Nat],
           \A r \in LivePending \ S : captured[r] = generation'[ProjectOf[r]],
           maintenance' \in BOOLEAN,
           UNCHANGED <<pc, leases, persistenceState, startedAt, clock, captured,
                       saved>>
    PROVE  SessionInv'
<1>. USE DEF SessionInv, Live, LivePending
<1>1. /\ terminals' \in [Reviews -> Seq(Codes)]
      /\ \A r \in Reviews \ S : terminals'[r] = terminals[r]
      /\ \A r \in Reviews : r \in S =>
            /\ terminals'[r] = Append(terminals[r], c)
            /\ Len(terminals'[r]) = Len(terminals[r]) + 1
  BY ToldAppends DEF TypeOK, Terminate
<1>2. TypeOK'
  BY <1>1 DEF TypeOK, Terminate
<1>3. ASSUME NEW r \in Reviews
      PROVE  Len(terminals'[r]) = (IF r \in completed' THEN 1 ELSE 0)
  <2>1. Len(terminals[r]) = (IF r \in completed THEN 1 ELSE 0)
    BY DEF OneTerminalEvent
  <2>2. r \in completed' <=> r \in completed \/ r \in S
    BY DEF Terminate
  <2>3. CASE r \in S
    <3>1. r \notin completed
      BY <2>3
    <3>2. Len(terminals[r]) = 0 /\ r \in completed'
      BY <2>1, <2>2, <2>3, <3>1
    <3>3. Len(terminals'[r]) = Len(terminals[r]) + 1
      BY <1>1, <2>3
    <3>. QED BY <3>2, <3>3
  <2>4. CASE r \notin S
    BY <1>1, <2>1, <2>2, <2>4
  <2>. QED BY <2>3, <2>4
<1>4. Live' = Live \ S
  BY DEF Terminate
<1>5. RunnerOwnsSession'
  BY <1>4 DEF RunnerOwnsSession, Terminate
<1>6. RevocationFence'
  BY <1>4 DEF RevocationFence, Terminate
<1>7. ASSUME NEW r \in Reviews
      PROVE  Consistent(r)'
  <2>1. Consistent(r)
    OBVIOUS
  <2>2. r \in S /\ persistenceState[r] # "pending" =>
            \A i \in DOMAIN terminals'[r] :
                terminals'[r][i] \in {"complete", "error", "SERVER_SHUTDOWN"}
    <3>. HAVE r \in S /\ persistenceState[r] # "pending"
    <3>1. c = "SERVER_SHUTDOWN"
      OBVIOUS
    <3>2. terminals[r] \in Seq(Codes) /\ terminals'[r] = Append(terminals[r], c)
      BY <1>1 DEF TypeOK
    <3>. QED BY <2>1, <3>1, <3>2 DEF Consistent
  <2>. QED BY <1>1, <1>4, <2>1, <2>2 DEF Consistent, Terminate
<1>8. OneLeasePerTuple' /\ PendingAgree'
  BY <1>4 DEF OneLeasePerTuple, PendingAgree
<1>. QED BY <1>2, <1>3, <1>5, <1>6, <1>7, <1>8 DEF OneTerminalEvent

LEMMA InitInv == Init => SessionInv
<1>. HAVE Init
<1>1. TypeOK
  BY ReviewSessionsAssumption DEF Init, TypeOK
<1>. QED
  BY <1>1 DEF Init, SessionInv, OneTerminalEvent, RunnerOwnsSession,
     RevocationFence, Consistent, OneLeasePerTuple, PendingAgree, Live, LivePending

(* The runner's last step ends its own session, whichever code it reports, and
   trims the map by pending or completed sessions only. *)
LEMMA FinishPreserves ==
    ASSUME SessionInv, NEW r \in Live, NEW code \in {"complete", "error"},
           pc[r] \in {"running", "saving", "durable"},
           Finish(r, code),
           persistenceState' \in [Reviews -> {"pending", "committing", "committed"}],
           \A q \in Reviews \ {r} : persistenceState'[q] = persistenceState[q],
           persistenceState'[r] = "pending" <=> persistenceState[r] = "pending",
           saved' = saved \/ (saved' = saved \union {r} /\ persistenceState[r] # "pending"),
           UNCHANGED <<startedAt, clock, generation, captured, maintenance>>
    PROVE  SessionInv'
<1>. DEFINE done == completed \union {r}
            victims == IF Cardinality(activeSessions) > MaxSessions
                       THEN Evicted(done, Cardinality(activeSessions) - MaxSessions)
                       ELSE {}
            T == victims \ done
<1>1. /\ TypeOK
      /\ \A q \in Reviews : Consistent(q)
      /\ r \in Reviews
  BY DEF SessionInv, TypeOK, Live
<1>2. /\ victims \subseteq activeSessions
      /\ \A q \in victims : q \in done \/ persistenceState[q] = "pending"
  BY EvictedAreEvictable
<1>3. /\ T \subseteq LivePending
      /\ T \intersect {r} = {}
  BY <1>2 DEF Live, LivePending
<1>4. /\ activeSessions' = activeSessions \ victims
      /\ completed' = done \union victims
      /\ aborted' = aborted \union T
      /\ terminals' = Told(Told(terminals, {r}, code), T, "SESSION_EVICTED")
      /\ pc' = [pc EXCEPT ![r] = "done"]
      /\ leases' = leases \ {r}
  BY DEF Finish
<1>. HIDE DEF victims
<1>5. /\ terminals' \in [Reviews -> Seq(Codes)]
      /\ \A q \in Reviews :
            /\ q \notin {r} \union T => terminals'[q] = terminals[q]
            /\ q \in {r} \union T => Len(terminals'[q]) = Len(terminals[q]) + 1
            /\ q \in {r} => terminals'[q] = Told(terminals, {r}, code)[q]
  <2>1. code \in Codes /\ "SESSION_EVICTED" \in Codes
    BY DEF Codes
  <2>2. terminals \in [Reviews -> Seq(Codes)]
    BY <1>1 DEF TypeOK
  <2>. DEFINE S == {r}
            e == "SESSION_EVICTED"
  <2>3. S \intersect T = {} /\ code \in Codes /\ e \in Codes
    BY <1>3, <2>1
  <2>4. terminals' = Told(Told(terminals, S, code), T, e)
    BY <1>4
  <2>. HIDE DEF S, T, e
  <2>5. /\ terminals' \in [Reviews -> Seq(Codes)]
        /\ \A q \in Reviews : q \notin S /\ q \notin T => terminals'[q] = terminals[q]
        /\ \A q \in Reviews : q \in S \/ q \in T =>
                Len(terminals'[q]) = Len(terminals[q]) + 1
        /\ \A q \in Reviews : q \in S => terminals'[q] = Told(terminals, S, code)[q]
    BY ONLY <2>2, <2>3, <2>4, ToldTwice, Zenon
  <2>. QED BY <2>5 DEF S
<1>6. TypeOK'
  BY <1>1, <1>2, <1>4, <1>5 DEF TypeOK
<1>7. completed' = completed \union {r} \union T
  BY <1>4
<1>8. Live' = Live \ ({r} \union T)
  BY <1>2, <1>4, <1>7 DEF Live
<1>9. ASSUME NEW q \in Reviews
      PROVE  Len(terminals'[q]) = (IF q \in completed' THEN 1 ELSE 0)
  <2>1. Len(terminals[q]) = (IF q \in completed THEN 1 ELSE 0)
    BY DEF SessionInv, OneTerminalEvent
  <2>2. CASE q \in {r} \union T
    <3>1. q \notin completed
      BY <1>3, <2>2 DEF Live, LivePending
    <3>2. Len(terminals[q]) = 0 /\ q \in completed'
      BY <1>7, <2>1, <2>2, <3>1
    <3>3. Len(terminals'[q]) = Len(terminals[q]) + 1
      BY <1>5, <2>2
    <3>. QED BY <3>2, <3>3
  <2>3. CASE q \notin {r} \union T
    BY <1>5, <1>7, <2>1, <2>3
  <2>. QED BY <2>2, <2>3
<1>10. LivePending' \subseteq LivePending
  BY <1>1, <1>8 DEF LivePending, Live, TypeOK
<1>11. ASSUME NEW q \in Reviews
       PROVE  Consistent(q)'
  <2>1. Consistent(q)
    BY <1>1
  <2>2. CASE q = r
    <3>2. r \in Live /\ r \in completed' /\ r \notin Live' /\ pc'[r] = "done"
          /\ r \notin leases'
      BY <1>1, <1>4, <1>7, <1>8 DEF TypeOK
    <3>3. persistenceState[r] # "pending" =>
            \A i \in DOMAIN terminals'[r] :
                terminals'[r][i] \in {"complete", "error", "SERVER_SHUTDOWN"}
      <4>. HAVE persistenceState[r] # "pending"
      <4>. DEFINE Final == {"complete", "error", "SERVER_SHUTDOWN"}
      <4>1. \A i \in DOMAIN terminals[r] : terminals[r][i] \in Final
        BY <2>1, <2>2 DEF Consistent
      <4>2. \A i \in DOMAIN Told(terminals, {r}, code)[r] :
                Told(terminals, {r}, code)[r][i] \in Final
        <5>. code \in Codes /\ code \in Final /\ r \in {r}
          BY DEF Codes
        <5>. terminals \in [Reviews -> Seq(Codes)]
          BY <1>1 DEF TypeOK
        <5>. HIDE DEF Final
        <5>. QED BY <1>1, <4>1, ToldAppends
      <4>. QED BY <1>1, <1>5, <4>2
    <3>. QED BY <2>1, <2>2, <3>2, <3>3 DEF Consistent
  <2>3. CASE q \in T
    BY <1>1, <1>3, <1>4, <1>7, <1>8, <2>1, <2>3
    DEF Consistent, LivePending, Live, TypeOK
  <2>4. CASE q \notin {r} \union T
    <3>1. /\ pc'[q] = pc[q] /\ persistenceState'[q] = persistenceState[q]
          /\ terminals'[q] = terminals[q]
          /\ q \in Live' => q \in Live
          /\ q \in leases' <=> q \in leases
          /\ q \in completed' <=> q \in completed
          /\ q \in activeSessions' => q \in activeSessions
          /\ q \in aborted' <=> q \in aborted
      BY <1>1, <1>4, <1>5, <1>7, <1>8, <2>4 DEF TypeOK
    <3>. QED BY <2>1, <3>1 DEF Consistent
  <2>. QED BY <2>2, <2>3, <2>4
<1>12. RunnerOwnsSession'
  <2>. SUFFICES ASSUME NEW q \in Reviews, q \notin aborted'
       PROVE /\ pc'[q] = "running" => q \in LivePending'
             /\ pc'[q] \in {"saving", "durable"} =>
                    q \in Live' /\ persistenceState'[q] = "committing"
    BY DEF RunnerOwnsSession
  <2>1. CASE q = r
    BY <1>1, <1>4, <2>1 DEF TypeOK
  <2>2. CASE q # r
    <3>1. q \notin aborted /\ q \notin T
      BY <1>4
    <3>2. /\ pc[q] = "running" => q \in LivePending
          /\ pc[q] \in {"saving", "durable"} =>
                q \in Live /\ persistenceState[q] = "committing"
      BY <3>1 DEF SessionInv, RunnerOwnsSession
    <3>3. pc'[q] = pc[q] /\ persistenceState'[q] = persistenceState[q]
      BY <1>1, <1>4, <2>2 DEF TypeOK
    <3>. QED BY <1>8, <2>2, <3>1, <3>2, <3>3 DEF LivePending
  <2>. QED BY <2>1, <2>2
<1>13. RevocationFence'
  BY <1>10 DEF SessionInv, RevocationFence
<1>14. OneLeasePerTuple' /\ PendingAgree'
  BY <1>4, <1>10 DEF SessionInv, OneLeasePerTuple, PendingAgree
<1>. QED
  BY <1>6, <1>9, <1>11, <1>12, <1>13, <1>14 DEF SessionInv, OneTerminalEvent

(* Activation ends the sessions it supersedes and at most one it evicts, and
   starts the request's own; the superseded ones are exactly the pending
   sessions of the project whose input differs. *)
LEMMA ActivatePreserves ==
    ASSUME SessionInv, NEW r \in Reviews, Activate(r)
    PROVE  SessionInv'
<1>. DEFINE S == Superseded(r)
            done == completed \union S
            victims == IF Cardinality(activeSessions) >= MaxSessions
                       THEN Evicted(done, 1) ELSE {}
            T == victims \ done
            e == "SESSION_STALE"
            f == "SESSION_EVICTED"
<1>1. /\ TypeOK
      /\ \A q \in Reviews : Consistent(q)
      /\ pc[r] = "admitted"
      /\ captured[r] = generation[ProjectOf[r]]
      /\ UNCHANGED <<leases, persistenceState, generation, captured, saved>>
      /\ pc' = [pc EXCEPT ![r] = "running"]
      /\ startedAt' = [startedAt EXCEPT ![r] = clock + 1]
      /\ clock' = clock + 1
      /\ maintenance' = TRUE
  BY DEF SessionInv, Activate
<1>2. /\ victims \subseteq activeSessions
      /\ \A q \in victims : q \in done \/ persistenceState[q] = "pending"
      /\ S \subseteq LivePending
  BY EvictedAreEvictable DEF Superseded
<1>3. /\ T \subseteq LivePending
      /\ S \intersect T = {}
      /\ e \in Codes /\ f \in Codes
  BY <1>2 DEF Live, LivePending, Codes
<1>4. /\ activeSessions' = (activeSessions \ victims) \union {r}
      /\ completed' = done \union victims
      /\ aborted' = aborted \union S \union T
      /\ terminals' = Told(Told(terminals, S, e), T, f)
  BY DEF Activate
<1>. HIDE DEF S, victims, e, f
<1>5. /\ terminals' \in [Reviews -> Seq(Codes)]
      /\ \A q \in Reviews : q \notin S /\ q \notin T => terminals'[q] = terminals[q]
      /\ \A q \in Reviews : q \in S \/ q \in T =>
              Len(terminals'[q]) = Len(terminals[q]) + 1
  <2>1. terminals \in [Reviews -> Seq(Codes)]
    BY <1>1 DEF TypeOK
  <2>. HIDE DEF T
  <2>2. /\ terminals' \in [Reviews -> Seq(Codes)]
        /\ \A q \in Reviews : q \notin S /\ q \notin T => terminals'[q] = terminals[q]
        /\ \A q \in Reviews : q \in S \/ q \in T =>
                Len(terminals'[q]) = Len(terminals[q]) + 1
        /\ \A q \in Reviews : q \in S => terminals'[q] = Told(terminals, S, e)[q]
    BY ONLY <1>3, <1>4, <2>1, ToldTwice, Zenon
  <2>. QED BY <2>2
<1>6. /\ r \notin activeSessions \union completed
      /\ r \notin S /\ r \notin T /\ r \notin aborted
      /\ r \in leases
      /\ persistenceState[r] = "pending"
  BY <1>1, <1>3, <1>2 DEF Consistent, LivePending, Live
<1>7. completed' = completed \union S \union T
  BY <1>4
<1>8. Live' = (Live \ (S \union T)) \union {r}
  BY <1>2, <1>4, <1>6, <1>7 DEF Live
<1>9. TypeOK'
  <2>1. S \subseteq activeSessions /\ T \subseteq activeSessions
    BY <1>2, <1>3 DEF LivePending, Live
  <2>2. /\ activeSessions' \subseteq Reviews /\ completed' \subseteq Reviews
        /\ aborted' \subseteq Reviews
    BY <1>1, <1>4, <1>7, <2>1 DEF TypeOK
  <2>3. /\ pc' \in [Reviews -> {"idle", "admitted", "running", "saving", "durable", "done"}]
        /\ startedAt' \in [Reviews -> Nat] /\ clock' \in Nat
    BY <1>1 DEF TypeOK
  <2>. QED BY <1>1, <1>5, <2>2, <2>3 DEF TypeOK
<1>10. ASSUME NEW q \in Reviews
       PROVE  Len(terminals'[q]) = (IF q \in completed' THEN 1 ELSE 0)
  <2>1. Len(terminals[q]) = (IF q \in completed THEN 1 ELSE 0)
    BY DEF SessionInv, OneTerminalEvent
  <2>2. CASE q \in S \/ q \in T
    <3>1. q \notin completed
      BY <1>2, <1>3, <2>2 DEF Live, LivePending
    <3>2. Len(terminals[q]) = 0 /\ q \in completed'
      BY <1>7, <2>1, <2>2, <3>1
    <3>3. Len(terminals'[q]) = Len(terminals[q]) + 1
      BY <1>5, <2>2
    <3>. QED BY <3>2, <3>3
  <2>3. CASE q \notin S /\ q \notin T
    BY <1>5, <1>7, <2>1, <2>3
  <2>. QED BY <2>2, <2>3
<1>11. /\ \A q \in Reviews : pc'[q] = IF q = r THEN "running" ELSE pc[q]
       /\ persistenceState' = persistenceState
  BY <1>1 DEF TypeOK
<1>12. LivePending' = (LivePending \ (S \union T)) \union {r}
  BY <1>6, <1>8, <1>11 DEF LivePending
<1>13. ASSUME NEW q \in Reviews
       PROVE  Consistent(q)'
  <2>1. Consistent(q)
    BY <1>1
  <2>2. CASE q = r
    <3>1. pc'[q] = "running" /\ q \in leases' /\ q \notin aborted' /\ q \notin saved'
      BY <1>1, <1>4, <1>6, <1>11, <2>1, <2>2 DEF Consistent
    <3>. QED BY <1>6, <1>11, <2>2, <3>1 DEF Consistent
  <2>3. CASE q # r /\ (q \in S \/ q \in T)
    <3>1. /\ q \in Live /\ persistenceState[q] = "pending"
          /\ q \in completed' /\ q \notin Live'
      BY <1>2, <1>3, <1>7, <1>8, <2>3 DEF LivePending
    <3>. QED BY <1>1, <1>11, <2>1, <2>3, <3>1 DEF Consistent
  <2>4. CASE q # r /\ q \notin S /\ q \notin T
    <3>1. /\ pc'[q] = pc[q] /\ persistenceState'[q] = persistenceState[q]
          /\ terminals'[q] = terminals[q]
          /\ q \in Live' => q \in Live
          /\ q \in leases' <=> q \in leases
          /\ q \in completed' <=> q \in completed
          /\ q \in activeSessions' => q \in activeSessions
          /\ q \in aborted' <=> q \in aborted
          /\ q \in saved' <=> q \in saved
      BY <1>1, <1>4, <1>5, <1>7, <1>8, <1>11, <2>4
    <3>. QED BY <2>1, <3>1 DEF Consistent
  <2>. QED BY <2>2, <2>3, <2>4
<1>14. RunnerOwnsSession'
  <2>. SUFFICES ASSUME NEW q \in Reviews, q \notin aborted'
       PROVE /\ pc'[q] = "running" => q \in LivePending'
             /\ pc'[q] \in {"saving", "durable"} =>
                    q \in Live' /\ persistenceState'[q] = "committing"
    BY DEF RunnerOwnsSession
  <2>1. CASE q = r
    BY <1>11, <1>12, <2>1
  <2>2. CASE q # r
    <3>1. q \notin aborted /\ q \notin S /\ q \notin T
      BY <1>4
    <3>2. /\ pc[q] = "running" => q \in LivePending
          /\ pc[q] \in {"saving", "durable"} =>
                q \in Live /\ persistenceState[q] = "committing"
      BY <3>1 DEF SessionInv, RunnerOwnsSession
    <3>. QED BY <1>8, <1>11, <1>12, <2>2, <3>1, <3>2
  <2>. QED BY <2>1, <2>2
<1>15. RevocationFence'
  BY <1>1, <1>12 DEF SessionInv, RevocationFence
<1>16. OneLeasePerTuple'
  BY <1>1 DEF SessionInv, OneLeasePerTuple
<1>17. PendingAgree'
  <2>. SUFFICES ASSUME NEW q \in LivePending', NEW s \in LivePending',
                       ProjectOf[q] = ProjectOf[s],
                       InputOf[q] # NoInput, InputOf[s] # NoInput
       PROVE InputOf[q] = InputOf[s]
    BY DEF PendingAgree
  <2>1. ASSUME NEW t \in LivePending, t \notin S, ProjectOf[t] = ProjectOf[r],
               InputOf[r] # NoInput
        PROVE  InputOf[t] = InputOf[r]
    BY <2>1 DEF S, Superseded
  <2>2. CASE q = r \/ s = r
    BY <1>12, <2>1, <2>2
  <2>3. CASE q # r /\ s # r
    BY <1>12, <2>3 DEF SessionInv, PendingAgree
  <2>. QED BY <2>2, <2>3
<1>. QED
  BY <1>9, <1>10, <1>13, <1>14, <1>15, <1>16, <1>17 DEF SessionInv, OneTerminalEvent

(* A pending session's project keeps its generation unless it is revoked, and
   a revocation ends the pending sessions of the project it revokes. *)
LEMMA OthersPreserve ==
    ASSUME SessionInv,
           \/ \E r \in Reviews : CancelForUser(r) \/ CancelForConfiguration(r)
           \/ \E p \in Projects : RevokeProject(p)
           \/ \E S \in SUBSET Reviews : CleanupStale(S)
           \/ Shutdown
    PROVE  SessionInv'
<1>1. TypeOK /\ RevocationFence
  BY DEF SessionInv
<1>2. {"CANCELLED", "SESSION_STALE", "SESSION_TIMEOUT", "SERVER_SHUTDOWN"} \subseteq Codes
  BY DEF Codes
<1>3. ASSUME NEW r \in Reviews, CancelForUser(r)
      PROVE  SessionInv'
  <2>1. /\ {r} \subseteq LivePending /\ {r} \subseteq Live
        /\ {} \intersect Live \subseteq {r}
        /\ Terminate({r}, "CANCELLED", {})
        /\ UNCHANGED <<pc, leases, persistenceState, startedAt, clock, captured, saved>>
        /\ generation' = generation /\ maintenance' = maintenance
    BY <1>3 DEF CancelForUser, LivePending
  <2>. QED BY <1>1, <1>2, <2>1, TerminatePreserves DEF TypeOK, RevocationFence
<1>4. ASSUME NEW r \in Reviews, CancelForConfiguration(r)
      PROVE  SessionInv'
  <2>1. /\ {r} \subseteq LivePending /\ {r} \subseteq Live
        /\ {} \intersect Live \subseteq {r}
        /\ Terminate({r}, "SESSION_STALE", {})
        /\ UNCHANGED <<pc, leases, persistenceState, startedAt, clock, captured, saved>>
        /\ generation' = generation /\ maintenance' = maintenance
    BY <1>4 DEF CancelForConfiguration, LivePending
  <2>. QED BY <1>1, <1>2, <2>1, TerminatePreserves DEF TypeOK, RevocationFence
<1>5. ASSUME NEW p \in Projects, RevokeProject(p)
      PROVE  SessionInv'
  <2>. DEFINE S == {r \in LivePending : ProjectOf[r] = p}
  <2>1. /\ S \subseteq LivePending /\ S \subseteq Live
        /\ {} \intersect Live \subseteq S
        /\ Terminate(S, "SESSION_STALE", {})
        /\ UNCHANGED <<pc, leases, persistenceState, startedAt, clock, captured, saved>>
        /\ maintenance' = maintenance
    BY <1>5 DEF RevokeProject, LivePending
  <2>2. generation' \in [Projects -> Nat]
    BY <1>1, <1>5 DEF RevokeProject, TypeOK
  <2>3. \A r \in LivePending \ S : captured[r] = generation'[ProjectOf[r]]
    <3>. TAKE r \in LivePending \ S
    <3>1. r \in Reviews /\ ProjectOf[r] \in Projects /\ ProjectOf[r] # p
      BY <1>1, ReviewSessionsAssumption DEF TypeOK, LivePending, Live
    <3>2. generation'[ProjectOf[r]] = generation[ProjectOf[r]]
      BY <1>1, <1>5, <3>1 DEF RevokeProject, TypeOK
    <3>. QED BY <1>1, <3>2 DEF RevocationFence
  <2>. HIDE DEF S
  <2>. QED BY <1>1, <1>2, <2>1, <2>2, <2>3, TerminatePreserves DEF TypeOK
<1>6. ASSUME NEW S \in SUBSET Reviews, CleanupStale(S)
      PROVE  SessionInv'
  <2>1. /\ S \subseteq LivePending /\ S \subseteq Live
        /\ S \intersect Live \subseteq S
        /\ Terminate(S, "SESSION_TIMEOUT", S)
        /\ UNCHANGED <<pc, leases, persistenceState, startedAt, clock, captured, saved>>
        /\ generation' = generation /\ maintenance' = maintenance
    BY <1>6 DEF CleanupStale, LivePending
  <2>. QED BY <1>1, <1>2, <2>1, TerminatePreserves DEF TypeOK, RevocationFence
<1>7. ASSUME Shutdown
      PROVE  SessionInv'
  <2>1. /\ activeSessions \intersect Live \subseteq Live
        /\ Terminate(Live, "SERVER_SHUTDOWN", activeSessions)
        /\ UNCHANGED <<pc, leases, persistenceState, startedAt, clock, captured, saved>>
        /\ generation' = generation /\ maintenance' = FALSE
    BY <1>7 DEF Shutdown
  <2>. QED BY <1>1, <1>2, <2>1, TerminatePreserves DEF TypeOK, RevocationFence
<1>. QED BY <1>3, <1>4, <1>5, <1>6, <1>7

(* The steps of a request and its runner that end no session. *)
LEMMA ProgressPreserves ==
    ASSUME SessionInv, NEW r \in Reviews,
           \/ Admit(r) \/ Refuse(r) \/ RunnerStops(r)
           \/ BeginCommit(r) \/ SaveWritten(r) \/ Expire(r)
    PROVE  SessionInv'
<1>. USE DEF SessionInv, Live, LivePending
<1>1. CASE Admit(r)
  <2>1. TypeOK'
    BY <1>1, ReviewSessionsAssumption DEF Admit, TypeOK
  <2>2. \A q \in Reviews : q # r => pc'[q] = pc[q] /\ captured'[q] = captured[q]
    BY <1>1 DEF Admit, TypeOK
  <2>3. pc'[r] = "admitted" /\ r \notin activeSessions
    BY <1>1 DEF Admit, TypeOK, Consistent
  <2>4. \A q \in Reviews : Consistent(q)'
    BY <1>1, <2>2, <2>3 DEF Admit, Consistent
  <2>5. RunnerOwnsSession' /\ OneTerminalEvent'
    BY <1>1, <2>2, <2>3 DEF Admit, RunnerOwnsSession, OneTerminalEvent
  <2>6. RevocationFence' /\ PendingAgree'
    BY <1>1, <2>2, <2>3 DEF Admit, RevocationFence, PendingAgree, TypeOK
  <2>7. OneLeasePerTuple'
    BY <1>1 DEF Admit, OneLeasePerTuple
  <2>. QED BY <2>1, <2>4, <2>5, <2>6, <2>7
<1>2. CASE Refuse(r) \/ RunnerStops(r)
  <2>1. /\ pc' = [pc EXCEPT ![r] = "done"] /\ leases' = leases \ {r}
        /\ UNCHANGED <<activeSessions, completed, persistenceState, aborted, startedAt,
                       clock, generation, captured, maintenance, terminals, saved>>
        /\ r \notin Live
    BY <1>2 DEF Refuse, RunnerStops, Consistent
  <2>2. TypeOK'
    BY <2>1 DEF TypeOK
  <2>3. /\ \A q \in Reviews : q # r => pc'[q] = pc[q]
        /\ pc'[r] = "done"
    BY <2>1 DEF TypeOK
  <2>4. \A q \in Reviews : Consistent(q)'
    BY <2>1, <2>3 DEF Consistent
  <2>5. RunnerOwnsSession' /\ OneTerminalEvent' /\ RevocationFence' /\ PendingAgree'
    BY <2>1, <2>3
    DEF RunnerOwnsSession, OneTerminalEvent, RevocationFence, PendingAgree
  <2>6. OneLeasePerTuple'
    BY <2>1 DEF OneLeasePerTuple
  <2>. QED BY <2>2, <2>4, <2>5, <2>6
<1>3. CASE BeginCommit(r)
  <2>1. TypeOK'
    BY <1>3 DEF BeginCommit, TypeOK
  <2>2. /\ \A q \in Reviews : q # r =>
              pc'[q] = pc[q] /\ persistenceState'[q] = persistenceState[q]
        /\ pc'[r] = "saving" /\ persistenceState'[r] = "committing"
    BY <1>3 DEF BeginCommit, TypeOK
  <2>3. terminals[r] = <<>>
    <3>1. Len(terminals[r]) = 0
      BY <1>3 DEF BeginCommit, OneTerminalEvent
    <3>. QED BY <3>1 DEF TypeOK
  <2>4. \A q \in Reviews : Consistent(q)'
    BY <1>3, <2>2, <2>3 DEF BeginCommit, Consistent
  <2>5. RunnerOwnsSession' /\ OneTerminalEvent'
    BY <1>3, <2>2 DEF BeginCommit, RunnerOwnsSession, OneTerminalEvent
  <2>6. RevocationFence' /\ PendingAgree' /\ OneLeasePerTuple'
    BY <1>3, <2>2
    DEF BeginCommit, RevocationFence, PendingAgree, OneLeasePerTuple, TypeOK
  <2>. QED BY <2>1, <2>4, <2>5, <2>6
<1>4. CASE SaveWritten(r)
  <2>1. TypeOK'
    BY <1>4 DEF SaveWritten, TypeOK
  <2>2. /\ \A q \in Reviews : q # r => pc'[q] = pc[q]
        /\ pc'[r] = "durable"
    BY <1>4 DEF SaveWritten, TypeOK
  <2>3. persistenceState[r] # "pending"
    BY <1>4 DEF SaveWritten, Consistent
  <2>4. \A q \in Reviews : Consistent(q)'
    BY <1>4, <2>2, <2>3 DEF SaveWritten, Consistent
  <2>5. RunnerOwnsSession' /\ OneTerminalEvent'
    BY <1>4, <2>2 DEF SaveWritten, RunnerOwnsSession, OneTerminalEvent
  <2>6. RevocationFence' /\ PendingAgree' /\ OneLeasePerTuple'
    BY <1>4 DEF SaveWritten, RevocationFence, PendingAgree, OneLeasePerTuple
  <2>. QED BY <2>1, <2>4, <2>5, <2>6
<1>5. CASE Expire(r)
  <2>1. /\ activeSessions' \subseteq activeSessions
        /\ Live' = Live
        /\ UNCHANGED <<pc, leases, completed, persistenceState, aborted, startedAt,
                       clock, generation, captured, maintenance, terminals, saved>>
    BY <1>5 DEF Expire
  <2>. QED
    BY <2>1 DEF TypeOK, Consistent, RunnerOwnsSession, OneTerminalEvent, RevocationFence,
       PendingAgree, OneLeasePerTuple
<1>. QED BY <1>1, <1>2, <1>3, <1>4, <1>5

(* The invariant is inductive. *)
LEMMA StepPreserves == SessionInv /\ [Next]_vars => SessionInv'
<1>. SUFFICES ASSUME SessionInv, [Next]_vars PROVE SessionInv'
  OBVIOUS
<1>1. ASSUME NEW r \in Reviews, Activate(r)
      PROVE  SessionInv'
  BY <1>1, ActivatePreserves
<1>2. ASSUME NEW r \in Reviews,
             \/ Admit(r) \/ Refuse(r) \/ RunnerStops(r)
             \/ BeginCommit(r) \/ SaveWritten(r) \/ Expire(r)
      PROVE  SessionInv'
  BY <1>2, ProgressPreserves
<1>3. ASSUME NEW r \in Reviews,
             \/ RunnerFails(r) \/ SaveFails(r)
             \/ \E code \in {"complete", "error"} : Settle(r, code)
      PROVE  SessionInv'
  <2>1. /\ TypeOK /\ Consistent(r)
        /\ r \notin aborted => /\ pc[r] = "running" => r \in LivePending
                               /\ pc[r] \in {"saving", "durable"} => r \in Live
    BY DEF SessionInv, RunnerOwnsSession
  <2>2. CASE RunnerFails(r) \/ SaveFails(r)
    <3>1. /\ r \in Live
          /\ pc[r] \in {"running", "saving", "durable"}
          /\ Finish(r, "error")
          /\ saved' = saved \/ (saved' = saved \union {r} /\ persistenceState[r] # "pending")
          /\ UNCHANGED <<persistenceState, startedAt, clock, generation, captured, maintenance>>
      BY <2>1, <2>2 DEF RunnerFails, SaveFails, LivePending, Consistent
    <3>. QED BY <2>1, <3>1, FinishPreserves DEF TypeOK
  <2>3. ASSUME NEW code \in {"complete", "error"}, Settle(r, code)
        PROVE  SessionInv'
    <3>1. /\ pc[r] = "durable" /\ r \in activeSessions
          /\ persistenceState[r] = "committing"
          /\ persistenceState' = [persistenceState EXCEPT ![r] = "committed"]
          /\ Finish(r, code)
          /\ UNCHANGED <<startedAt, clock, generation, captured, maintenance, saved>>
      BY <2>3 DEF Settle
    <3>2. r \in Live
      BY <2>1, <3>1 DEF Consistent, Live
    <3>3. /\ persistenceState' \in [Reviews -> {"pending", "committing", "committed"}]
          /\ \A q \in Reviews \ {r} : persistenceState'[q] = persistenceState[q]
          /\ persistenceState'[r] = "pending" <=> persistenceState[r] = "pending"
      BY <2>1, <3>1 DEF TypeOK
    <3>. QED BY <3>1, <3>2, <3>3, FinishPreserves
  <2>. QED BY <1>3, <2>2, <2>3
<1>4. ASSUME \/ \E r \in Reviews : CancelForUser(r) \/ CancelForConfiguration(r)
             \/ \E p \in Projects : RevokeProject(p)
             \/ \E S \in SUBSET Reviews : CleanupStale(S)
             \/ Shutdown
      PROVE  SessionInv'
  BY <1>4, OthersPreserve
<1>5. ASSUME UNCHANGED vars
      PROVE  SessionInv'
  BY <1>5 DEF vars, SessionInv, TypeOK, OneTerminalEvent, RunnerOwnsSession,
     RevocationFence, Consistent, OneLeasePerTuple, PendingAgree, Live, LivePending
<1>. QED BY <1>1, <1>2, <1>3, <1>4, <1>5 DEF Next, Runner

(* What the maps say about a session, which leases are out and what the
   pending reviews of a project agree on never falls apart (the maps and
   transitions of stream/store.ts and the runner of service.ts). *)
THEOREM SessionInvHolds == Spec => []SessionInv
BY InitInv, StepPreserves, PTL DEF Spec

(* The state of the session map keeps its shape. *)
THEOREM TypeCorrect == Spec => []TypeOK
<1>1. SessionInv => TypeOK
  BY DEF SessionInv
<1>. QED BY <1>1, SessionInvHolds, PTL

(* No review that finalizeReview made durable is disowned to its client. *)
THEOREM DurableReviewsNotDisowned == Spec => []DurableNotDisowned
<1>1. SessionInv => DurableNotDisowned
  BY DEF SessionInv, TypeOK, Consistent, DurableNotDisowned
<1>. QED BY <1>1, SessionInvHolds, PTL

(* The races to end a session tell its client exactly once (terminateSession,
   markComplete and the emits of handleReviewFailure and finalizeReview). *)
THEOREM EndedOnce == Spec => []OneTerminalEvent
<1>1. SessionInv => OneTerminalEvent
  BY DEF SessionInv
<1>. QED BY <1>1, SessionInvHolds, PTL

(* A runner that was not aborted owns its session up to its last step, so
   markCommitting and markCommitted do not refuse it. *)
THEOREM RunnersOwnSessions == Spec => []RunnerOwnsSession
<1>1. SessionInv => RunnerOwnsSession
  BY DEF SessionInv
<1>. QED BY <1>1, SessionInvHolds, PTL

(* The release handed to the runner by createReviewSession is always pending
   for a live session, and never for work that has ended. *)
THEOREM LeasesHeldByLiveWork == Spec => []LeaseHeldByLiveWork
<1>1. SessionInv => LeaseHeldByLiveWork
  BY DEF SessionInv, TypeOK, Consistent, LeaseHeldByLiveWork, Live
<1>. QED BY <1>1, SessionInvHolds, PTL

(* Admission makes the duplicate check of activate unnecessary: whoever passes
   it asks for a review that is not live. *)
THEOREM LiveReviewsAreUnique == Spec => []NoLiveDuplicate
<1>1. SessionInv => NoLiveDuplicate
  <2>. SUFFICES ASSUME SessionInv, NEW r \in Reviews, pc[r] = "admitted",
                       NEW s \in Existing(r)
       PROVE FALSE
    BY DEF NoLiveDuplicate
  <2>1. /\ s \in Reviews /\ s \in Live /\ InputOf[r] # NoInput
        /\ InputOf[s] = InputOf[r]
    BY DEF SessionInv, TypeOK, Existing, SameReview, Live
  <2>2. FingerprintOf[s] = FingerprintOf[r]
    BY <2>1, ReviewSessionsAssumption
  <2>3. /\ r \in leases /\ s \in leases
        /\ pc[s] \in {"running", "saving", "durable"}
    BY <2>1 DEF SessionInv, Consistent
  <2>4. r = s
    BY <2>2, <2>3 DEF SessionInv, OneLeasePerTuple
  <2>. QED BY <2>3, <2>4
<1>. QED BY <1>1, SessionInvHolds, PTL

(* cancelStaleSessionsForProjectMode leaves a project at most one review that
   may still be cancelled. *)
THEOREM PendingReviewsAreUnique == Spec => []OnePendingReviewPerProject
<1>1. SessionInv => OnePendingReviewPerProject
  <2>. SUFFICES ASSUME SessionInv, NEW r \in LivePending, NEW s \in LivePending,
                       ProjectOf[r] = ProjectOf[s],
                       InputOf[r] # NoInput, InputOf[s] # NoInput
       PROVE r = s
    BY DEF OnePendingReviewPerProject
  <2>1. r \in Reviews /\ s \in Reviews /\ r \in Live /\ s \in Live
    BY DEF SessionInv, TypeOK, LivePending, Live
  <2>2. InputOf[r] = InputOf[s]
    BY DEF SessionInv, PendingAgree
  <2>3. FingerprintOf[r] = FingerprintOf[s]
    BY <2>1, <2>2, ReviewSessionsAssumption
  <2>4. r \in leases /\ s \in leases
    BY <2>1 DEF SessionInv, Consistent
  <2>. QED BY <2>3, <2>4 DEF SessionInv, OneLeasePerTuple
<1>. QED BY <1>1, SessionInvHolds, PTL

(* revokeProjectSessions reaches the requests that were awaiting git: the
   generation they captured no longer activates. *)
THEOREM RevocationIsAFence == Spec => []RevocationFence
<1>1. SessionInv => RevocationFence
  BY DEF SessionInv
<1>. QED BY <1>1, SessionInvHolds, PTL
-----------------------------------------------------------------------------
(* Eviction                                                                 *)

(* As long as a session that is complete is left, no other one is evicted. *)
LEMMA CompletedAreEvictedFirst ==
    ASSUME activeSessions \subseteq Reviews, NEW done, NEW n \in Nat,
           NEW r \in Evicted(done, n) \ done
    PROVE  activeSessions \intersect done \subseteq Evicted(done, n)
<1>. DEFINE before(s) == {q \in Evictable(done) : EvictedBefore(done, q, s)}
<1>. SUFFICES ASSUME NEW s \in activeSessions \intersect done
              PROVE  s \in Evicted(done, n)
  OBVIOUS
<1>1. s \in Evictable(done) /\ EvictedBefore(done, s, r)
  BY DEF Evictable, EvictedBefore
<1>2. before(s) \subseteq before(r)
  BY DEF EvictedBefore
<1>3. IsFiniteSet(before(r)) /\ IsFiniteSet(before(s))
  <2>1. before(r) \subseteq Reviews /\ before(s) \subseteq Reviews
    BY DEF Evictable
  <2>. HIDE DEF before
  <2>. QED BY <2>1, FS_Subset, ReviewSessionsAssumption
<1>4. /\ Cardinality(before(s)) \in Nat /\ Cardinality(before(r)) \in Nat
      /\ Cardinality(before(s)) <= Cardinality(before(r))
  <2>. HIDE DEF before
  <2>. QED BY <1>2, <1>3, FS_Subset, FS_CardinalityType
<1>5. Cardinality(before(r)) < n
  BY DEF Evicted
<1>6. Cardinality(before(s)) < n
  <2>. HIDE DEF before
  <2>. QED BY <1>4, <1>5
<1>. QED BY <1>1, <1>6 DEF Evicted

(* What may be said of a session when a step tells it that it was evicted. *)
Spared ==
    \A r \in Live :
        Told(terminals, {r}, "SESSION_EVICTED")[r] = terminals'[r]
            => activeSessions' \intersect completed' = {}

(* A step that tells the sessions of S one thing, and then evicts what is told
   of no other end. *)
LEMMA EvictionSpares ==
    ASSUME SessionInv, NEW S, NEW code \in Codes \ {"SESSION_EVICTED"},
           NEW done, NEW victims,
           terminals' = Told(Told(terminals, S, code), victims \ done, "SESSION_EVICTED"),
           (\E r \in Live : r \in victims \ done) => activeSessions' \intersect completed' = {}
    PROVE  Spared
<1>. SUFFICES ASSUME NEW r \in Live,
                     Told(terminals, {r}, "SESSION_EVICTED")[r] = terminals'[r],
                     r \notin victims \ done
              PROVE  FALSE
  BY DEF Spared
<1>1. r \in Reviews /\ terminals[r] \in Seq(Codes)
  BY DEF SessionInv, TypeOK, Live
<1>2. terminals'[r] = Append(terminals[r], "SESSION_EVICTED")
  BY <1>1 DEF Told
<1>3. terminals'[r] = terminals[r] \/ terminals'[r] = Append(terminals[r], code)
  BY <1>1 DEF Told
<1>4. "SESSION_EVICTED" \in Codes
  BY DEF Codes
<1>5. ASSUME NEW s \in Seq(Codes), NEW c \in Codes, NEW d \in Codes, c # d
      PROVE  Append(s, c) # Append(s, d) /\ Append(s, c) # s
  <2>1. Append(s, c)[Len(s) + 1] = c /\ Append(s, d)[Len(s) + 1] = d
    OBVIOUS
  <2>2. Len(Append(s, c)) = Len(s) + 1 /\ Len(s) \in Nat
    OBVIOUS
  <2>. QED BY <1>5, <2>1, <2>2
<1>. QED BY <1>1, <1>2, <1>3, <1>4, <1>5

LEMMA StepSpares == SessionInv /\ [Next]_vars => [Spared]_vars
<1>. SUFFICES ASSUME SessionInv, Next PROVE Spared
  OBVIOUS
<1>. USE DEF Codes
<1>0. activeSessions \subseteq Reviews
  BY DEF SessionInv, TypeOK
<1>1. ASSUME NEW r \in Reviews, Activate(r)
      PROVE  Spared
  <2>. DEFINE stale == Superseded(r)
              done == completed \union stale
              victims == IF Cardinality(activeSessions) >= MaxSessions
                         THEN Evicted(done, 1) ELSE {}
  <2>1. /\ activeSessions' = (activeSessions \ victims) \union {r}
        /\ completed' = done \union victims
        /\ terminals' = Told(Told(terminals, stale, "SESSION_STALE"),
                             victims \ done, "SESSION_EVICTED")
    BY <1>1 DEF Activate
  <2>2. r \notin activeSessions /\ r \notin completed
    BY <1>1 DEF Activate, SessionInv, Consistent
  <2>3. victims \subseteq activeSessions /\ stale \subseteq activeSessions
    BY EvictedAreEvictable DEF Superseded, LivePending, Live
  <2>4. (\E s \in Live : s \in victims \ done) => activeSessions \intersect done \subseteq victims
    BY <1>0, CompletedAreEvictedFirst
  <2>. HIDE DEF stale, done, victims
  <2>5. r \notin done
    BY <2>2, <2>3 DEF done
  <2>6. (\E s \in Live : s \in victims \ done) => activeSessions' \intersect completed' = {}
    BY <2>1, <2>2, <2>3, <2>4, <2>5
  <2>. QED BY <2>1, <2>6, EvictionSpares
<1>2. ASSUME NEW r \in Reviews, NEW code \in {"complete", "error"}, Finish(r, code)
      PROVE  Spared
  <2>. DEFINE done == completed \union {r}
              excess == Cardinality(activeSessions) - MaxSessions
              victims == IF Cardinality(activeSessions) > MaxSessions
                         THEN Evicted(done, excess) ELSE {}
  <2>1. /\ activeSessions' = activeSessions \ victims
        /\ completed' = done \union victims
        /\ terminals' = Told(Told(terminals, {r}, code),
                             victims \ done, "SESSION_EVICTED")
    BY <1>2 DEF Finish
  <2>2. Cardinality(activeSessions) > MaxSessions => excess \in Nat
    <3>1. IsFiniteSet(activeSessions)
      BY <1>0, FS_Subset, ReviewSessionsAssumption
    <3>2. Cardinality(activeSessions) \in Nat /\ MaxSessions \in Nat
      BY <3>1, FS_CardinalityType, ReviewSessionsAssumption
    <3>. QED BY <3>2
  <2>3. (\E s \in Live : s \in victims \ done) => activeSessions \intersect done \subseteq victims
    <3>. HIDE DEF excess
    <3>. QED BY <1>0, <2>2, CompletedAreEvictedFirst
  <2>. HIDE DEF done, victims
  <2>4. (\E s \in Live : s \in victims \ done) => activeSessions' \intersect completed' = {}
    BY <2>1, <2>3
  <2>. QED BY <2>1, <2>4, EvictionSpares
<1>3. ASSUME NEW S, NEW code \in Codes \ {"SESSION_EVICTED"}, NEW gone,
             Terminate(S, code, gone)
      PROVE  Spared
  <2>1. \A r \in Reviews : Told(terminals, S, code)[r] =
            Told(Told(terminals, S, code), {}, "SESSION_EVICTED")[r]
    BY DEF Told
  <2>2. terminals' = Told(Told(terminals, S, code), {} \ {}, "SESSION_EVICTED")
    BY <1>3, <2>1 DEF Terminate, Told
  <2>. QED BY <2>2, EvictionSpares
<1>4. ASSUME UNCHANGED terminals
      PROVE  Spared
  <2>1. terminals' = Told(Told(terminals, {}, "error"), {} \ {}, "SESSION_EVICTED")
    <3>1. terminals \in [Reviews -> Seq(Codes)]
      BY DEF SessionInv, TypeOK
    <3>. QED BY <1>4, <3>1 DEF Told
  <2>. QED BY <2>1, EvictionSpares
<1>5. ASSUME NEW r \in Reviews, Runner(r) PROVE Spared
  BY <1>2, <1>4, <1>5
  DEF Runner, RunnerStops, RunnerFails, BeginCommit, SaveWritten, SaveFails, Settle
<1>6. ASSUME NEW r \in Reviews,
             Admit(r) \/ Refuse(r) \/ Expire(r)
      PROVE  Spared
  BY <1>4, <1>6 DEF Admit, Refuse, Expire
<1>7. ASSUME NEW r \in Reviews,
             CancelForUser(r) \/ CancelForConfiguration(r)
      PROVE  Spared
  BY <1>3, <1>7 DEF CancelForUser, CancelForConfiguration
<1>8. ASSUME \/ \E p \in Projects : RevokeProject(p)
             \/ \E S \in SUBSET Reviews : CleanupStale(S)
             \/ Shutdown
      PROVE  Spared
  BY <1>3, <1>8 DEF RevokeProject, CleanupStale, Shutdown
<1>. QED BY <1>1, <1>5, <1>6, <1>7, <1>8 DEF Next

(* evictOneSession makes room from the replay entries first: whoever is told
   that a live review was evicted, no completed session is left in the map. *)
THEOREM EvictionsSpareLiveWork == Spec => EvictionSparesLiveWork
<1>1. Spec => [][Spared]_vars
  BY SessionInvHolds, StepSpares, PTL DEF Spec
<1>. QED BY <1>1 DEF EvictionSparesLiveWork, Spared
-----------------------------------------------------------------------------
(* The outcomes of the reviews                                              *)

(* A runner that goes on has told nothing of its own, and what it says is saved
   is saved. *)
Undecided(r) ==
    /\ pc[r] \in {"running", "saving", "durable"} =>
        terminals[r] \notin {<<"complete">>, <<"error">>}
    /\ pc[r] = "durable" => r \in saved

OutcomeInv == SessionInv /\ \A r \in Reviews : Undecided(r)

LEMMA LiveAreUntold ==
    ASSUME SessionInv
    PROVE  /\ \A r \in Reviews : r \in Live => terminals[r] = <<>>
           /\ \A r \in Reviews : terminals[r] = <<>> => r \notin completed
<1>1. ASSUME NEW r \in Reviews, r \in Live PROVE terminals[r] = <<>>
  <2>1. Len(terminals[r]) = 0 /\ terminals[r] \in Seq(Codes)
    BY <1>1 DEF SessionInv, OneTerminalEvent, TypeOK, Live
  <2>. QED BY <2>1
<1>2. ASSUME NEW r \in Reviews, terminals[r] = <<>> PROVE r \notin completed
  <2>1. Len(terminals[r]) = 0
    BY <1>2
  <2>. QED BY <2>1 DEF SessionInv, OneTerminalEvent
<1>. QED BY <1>1, <1>2

(* Two sets of live sessions that meet in none are told one thing each. *)
LEMMA LiveAreTold ==
    ASSUME SessionInv, NEW S, S \subseteq Live, NEW c \in Codes,
           NEW T, T \subseteq Live, NEW d \in Codes, S \intersect T = {},
           terminals' = Told(Told(terminals, S, c), T, d)
    PROVE  /\ terminals' \in [Reviews -> Seq(Codes)]
           /\ \A r \in Reviews :
                terminals'[r] = IF r \in S THEN <<c>> ELSE IF r \in T THEN <<d>> ELSE terminals[r]
<1>1. terminals \in [Reviews -> Seq(Codes)]
  BY DEF SessionInv, TypeOK
<1>2. ASSUME NEW r \in Reviews
      PROVE  terminals'[r] = IF r \in S THEN <<c>> ELSE IF r \in T THEN <<d>> ELSE terminals[r]
  <2>1. r \in S \union T => terminals[r] = <<>>
    BY LiveAreUntold
  <2>2. Append(<<>>, c) = <<c>> /\ Append(<<>>, d) = <<d>>
    OBVIOUS
  <2>. QED BY <2>1, <2>2 DEF Told
<1>3. terminals' \in [Reviews -> Seq(Codes)]
  BY <1>1, ToldTwice
<1>. QED BY <1>2, <1>3

(* The same for one set. *)
LEMMA OneSetIsTold ==
    ASSUME SessionInv, NEW S, S \subseteq Live, NEW c \in Codes,
           terminals' = Told(terminals, S, c)
    PROVE  \A r \in Reviews : terminals'[r] = IF r \in S THEN <<c>> ELSE terminals[r]
<1>1. ASSUME NEW r \in Reviews, r \in S PROVE terminals'[r] = <<c>>
  <2>1. terminals[r] = <<>> /\ Append(<<>>, c) = <<c>>
    BY <1>1, LiveAreUntold
  <2>. QED BY <1>1, <2>1 DEF Told
<1>. QED BY <1>1 DEF Told

(* What a step may tell: only of a review in progress, and what its stage and
   the disk allow. *)
MayTell ==
    \A r \in Reviews : terminals'[r] # terminals[r] =>
        /\ r \in Live
        /\ \E v \in Codes :
            /\ terminals'[r] = <<v>>
            /\ v \in {"CANCELLED", "SESSION_STALE", "SESSION_EVICTED", "SESSION_TIMEOUT"} =>
                persistenceState[r] = "pending"
            /\ v = "complete" => r \in saved

LEMMA TellRefines ==
    ASSUME SessionInv, SessionInv', MayTell
    PROVE  Outcomes!Tell
<1>1. Codes = Outcomes!Verdicts
  BY DEF Codes, Outcomes!Verdicts, Outcomes!Disownments
<1>2. ASSUME NEW r \in Reviews, terminals'[r] # terminals[r]
      PROVE  /\ Outcomes!InProgress(r)
             /\ \E v \in Outcomes!Verdicts : Outcomes!Allowed(r, v) /\ terminals'[r] = <<v>>
  <2>1. r \in Live /\ terminals[r] = <<>>
    BY <1>2, LiveAreUntold DEF MayTell
  <2>2. Outcomes!InProgress(r)
    BY <2>1 DEF Outcomes!InProgress, Stage, Live
  <2>3. PICK v \in Codes :
            /\ terminals'[r] = <<v>>
            /\ v \in {"CANCELLED", "SESSION_STALE", "SESSION_EVICTED", "SESSION_TIMEOUT"} =>
                persistenceState[r] = "pending"
            /\ v = "complete" => r \in saved
    BY <1>2 DEF MayTell
  <2>4. Outcomes!Allowed(r, v)
    BY <2>1, <2>3 DEF Outcomes!Allowed, Outcomes!Disownments, Stage, Live
  <2>. QED BY <1>1, <2>2, <2>3, <2>4
<1>3. terminals' \in [Reviews -> {<<>>} \union {<<v>> : v \in Outcomes!Verdicts}]
  <2>1. terminals' \in [Reviews -> Seq(Codes)]
    BY DEF SessionInv, TypeOK
  <2>2. ASSUME NEW r \in Reviews
        PROVE  terminals'[r] \in {<<>>} \union {<<v>> : v \in Codes}
    <3>1. terminals'[r] \in Seq(Codes)
      BY <2>1
    <3>2. Len(terminals'[r]) \in {0, 1}
      BY DEF SessionInv, OneTerminalEvent
    <3>3. CASE Len(terminals'[r]) = 0
      BY <3>1, <3>3
    <3>4. CASE Len(terminals'[r]) = 1
      <4>1. terminals'[r][1] \in Codes /\ terminals'[r] = <<terminals'[r][1]>>
        BY <3>1, <3>4
      <4>. QED BY <4>1
    <3>. QED BY <3>2, <3>3, <3>4
  <2>. QED BY <1>1, <2>1, <2>2
<1>. QED BY <1>2, <1>3 DEF Outcomes!Tell

(* The runner's last step tells its own review what it may, and disowns only
   reviews that are pending. *)
LEMMA FinishTells ==
    ASSUME SessionInv, NEW r \in Live, NEW code \in {"complete", "error"},
           code = "complete" => r \in saved,
           Finish(r, code)
    PROVE  /\ MayTell
           /\ \A s \in Reviews :
                terminals'[s] \in {<<"complete">>, <<"error">>} =>
                    s = r \/ terminals'[s] = terminals[s]
           /\ pc' = [pc EXCEPT ![r] = "done"]
           /\ activeSessions' \union completed' = activeSessions \union completed
<1>. DEFINE done == completed \union {r}
            victims == IF Cardinality(activeSessions) > MaxSessions
                       THEN Evicted(done, Cardinality(activeSessions) - MaxSessions) ELSE {}
<1>1. /\ activeSessions' = activeSessions \ victims
      /\ completed' = done \union victims
      /\ terminals' = Told(Told(terminals, {r}, code), victims \ done, "SESSION_EVICTED")
      /\ pc' = [pc EXCEPT ![r] = "done"]
  BY DEF Finish
<1>2. /\ victims \subseteq activeSessions
      /\ \A s \in victims : s \in done \/ persistenceState[s] = "pending"
  BY EvictedAreEvictable
<1>3. {r} \subseteq Live /\ victims \ done \subseteq Live /\ {r} \intersect (victims \ done) = {}
  BY <1>2 DEF Live
<1>4. code \in Codes /\ "SESSION_EVICTED" \in Codes
  BY DEF Codes
<1>. HIDE DEF done, victims
<1>5. \A s \in Reviews :
        terminals'[s] = IF s \in {r} THEN <<code>>
                        ELSE IF s \in victims \ done THEN <<"SESSION_EVICTED">> ELSE terminals[s]
  <2>. DEFINE evicted == victims \ done
  <2>1. /\ {r} \subseteq Live /\ evicted \subseteq Live /\ {r} \intersect evicted = {}
        /\ terminals' = Told(Told(terminals, {r}, code), evicted, "SESSION_EVICTED")
    BY <1>1, <1>3
  <2>. HIDE DEF evicted
  <2>2. \A s \in Reviews :
          terminals'[s] = IF s \in {r} THEN <<code>>
                          ELSE IF s \in evicted THEN <<"SESSION_EVICTED">> ELSE terminals[s]
    <3>1. PICK own : own = {r}
      OBVIOUS
    <3>2. PICK told \in Codes : told = code
      BY <1>4
    <3>3. /\ own \subseteq Live /\ own \intersect evicted = {} /\ evicted \subseteq Live
          /\ terminals' = Told(Told(terminals, own, told), evicted, "SESSION_EVICTED")
      BY <2>1, <3>1, <3>2
    <3>4. \A s \in Reviews :
            terminals'[s] = IF s \in own THEN <<told>>
                            ELSE IF s \in evicted THEN <<"SESSION_EVICTED">> ELSE terminals[s]
      BY <1>4, <3>3, LiveAreTold
    <3>. QED BY <3>1, <3>2, <3>4
  <2>. QED BY <2>2 DEF evicted
<1>6. MayTell
  BY <1>2, <1>3, <1>4, <1>5 DEF MayTell
<1>7. <<"SESSION_EVICTED">> \notin {<<"complete">>, <<"error">>}
  <2>1. <<"SESSION_EVICTED">>[1] = "SESSION_EVICTED" /\ <<"complete">>[1] = "complete"
        /\ <<"error">>[1] = "error"
    OBVIOUS
  <2>. QED BY <2>1
<1>8. activeSessions' \union completed' = activeSessions \union completed
  BY <1>1, <1>2 DEF done, Live
<1>. QED BY <1>1, <1>5, <1>6, <1>7, <1>8

(* Everybody else disowns pending reviews, but for a shutdown. *)
LEMMA TerminateTells ==
    ASSUME SessionInv, NEW S, S \subseteq Live,
           NEW c \in {"CANCELLED", "SESSION_STALE", "SESSION_TIMEOUT", "SERVER_SHUTDOWN"},
           S \subseteq LivePending \/ c = "SERVER_SHUTDOWN",
           NEW gone, gone \subseteq S \/ (c = "SERVER_SHUTDOWN" /\ S = Live),
           Terminate(S, c, gone)
    PROVE  /\ MayTell
           /\ \A s \in Reviews :
                terminals'[s] \in {<<"complete">>, <<"error">>} => terminals'[s] = terminals[s]
           /\ activeSessions' \union completed' = activeSessions \union completed
<1>1. /\ completed' = completed \union S /\ activeSessions' = activeSessions \ gone
      /\ terminals' = Told(terminals, S, c)
  BY DEF Terminate
<1>2. c \in Codes
  BY DEF Codes
<1>3. \A s \in Reviews : terminals'[s] = IF s \in S THEN <<c>> ELSE terminals[s]
  BY <1>1, <1>2, OneSetIsTold
<1>4. MayTell
  BY <1>2, <1>3 DEF MayTell, LivePending
<1>5. <<c>> \notin {<<"complete">>, <<"error">>}
  <2>1. <<c>>[1] = c /\ <<"complete">>[1] = "complete" /\ <<"error">>[1] = "error"
    OBVIOUS
  <2>. QED BY <2>1
<1>6. activeSessions' \union completed' = activeSessions \union completed
  BY <1>1 DEF Live
<1>. QED BY <1>3, <1>4, <1>5, <1>6

(* So does activation, which begins a review of its own. *)
LEMMA ActivateTells ==
    ASSUME SessionInv, NEW r \in Reviews, Activate(r)
    PROVE  /\ MayTell
           /\ \A s \in Reviews :
                terminals'[s] \in {<<"complete">>, <<"error">>} => terminals'[s] = terminals[s]
           /\ activeSessions' \union completed' = activeSessions \union completed \union {r}
<1>. DEFINE stale == Superseded(r)
            done == completed \union stale
            victims == IF Cardinality(activeSessions) >= MaxSessions
                       THEN Evicted(done, 1) ELSE {}
<1>1. /\ activeSessions' = (activeSessions \ victims) \union {r}
      /\ completed' = done \union victims
      /\ terminals' = Told(Told(terminals, stale, "SESSION_STALE"),
                           victims \ done, "SESSION_EVICTED")
  BY DEF Activate
<1>2. /\ victims \subseteq activeSessions
      /\ \A s \in victims : s \in done \/ persistenceState[s] = "pending"
      /\ stale \subseteq Live
      /\ \A s \in stale : persistenceState[s] = "pending"
  BY EvictedAreEvictable DEF Superseded, LivePending
<1>3. victims \ done \subseteq Live /\ stale \intersect (victims \ done) = {}
  BY <1>2 DEF Live
<1>4. "SESSION_STALE" \in Codes /\ "SESSION_EVICTED" \in Codes
  BY DEF Codes
<1>5. activeSessions' \union completed' = activeSessions \union completed \union {r}
  BY <1>1, <1>2 DEF Live
<1>. HIDE DEF stale, done, victims
<1>6. \A s \in Reviews :
        terminals'[s] = IF s \in stale THEN <<"SESSION_STALE">>
                        ELSE IF s \in victims \ done THEN <<"SESSION_EVICTED">> ELSE terminals[s]
  <2>. DEFINE evicted == victims \ done
  <2>1. /\ evicted \subseteq Live /\ stale \intersect evicted = {}
        /\ terminals' = Told(Told(terminals, stale, "SESSION_STALE"), evicted, "SESSION_EVICTED")
    BY <1>1, <1>3
  <2>. HIDE DEF evicted
  <2>2. \A s \in Reviews :
          terminals'[s] = IF s \in stale THEN <<"SESSION_STALE">>
                          ELSE IF s \in evicted THEN <<"SESSION_EVICTED">> ELSE terminals[s]
    BY <1>2, <1>4, <2>1, LiveAreTold
  <2>. QED BY <2>2 DEF evicted
<1>7. MayTell
  BY <1>2, <1>3, <1>4, <1>6 DEF MayTell
<1>8. /\ <<"SESSION_EVICTED">> \notin {<<"complete">>, <<"error">>}
      /\ <<"SESSION_STALE">> \notin {<<"complete">>, <<"error">>}
  <2>1. /\ <<"SESSION_EVICTED">>[1] = "SESSION_EVICTED" /\ <<"complete">>[1] = "complete"
        /\ <<"error">>[1] = "error" /\ <<"SESSION_STALE">>[1] = "SESSION_STALE"
    OBVIOUS
  <2>. QED BY <2>1
<1>. QED BY <1>5, <1>6, <1>7, <1>8

(* The stages move only where a review begins or commits. *)
StagesStay ==
    /\ \A r \in Reviews : persistenceState'[r] # "pending" <=> persistenceState[r] # "pending"
    /\ activeSessions' \union completed' = activeSessions \union completed

(* A step that saves nothing, and either tells nothing or ends some reviews. *)
LEMMA EndingRefines ==
    ASSUME SessionInv, SessionInv', StagesStay, saved' = saved,
           UNCHANGED terminals \/ MayTell
    PROVE  [Outcomes!Next]_(Outcomes!vars)
<1>1. [r \in Reviews |-> Stage(r)]' = [r \in Reviews |-> Stage(r)]
  BY DEF StagesStay, Stage
<1>2. CASE UNCHANGED terminals
  BY <1>1, <1>2 DEF Outcomes!vars
<1>3. CASE MayTell
  BY <1>1, <1>3, TellRefines DEF Outcomes!Next
<1>. QED BY <1>2, <1>3


LEMMA OutcomeInit == Init => OutcomeInv /\ Outcomes!Init
<1>. HAVE Init
<1>1. SessionInv
  BY InitInv
<1>2. \A r \in Reviews : Undecided(r)
  BY DEF Init, Undecided
<1>3. Outcomes!Init
  BY DEF Init, Outcomes!Init, Stage
<1>. QED BY <1>1, <1>2, <1>3 DEF OutcomeInv

(* Every step of the sessions is one of the outcomes, or changes none. *)
Refines == OutcomeInv' /\ [Outcomes!Next]_(Outcomes!vars)

LEMMA RunnerRefines ==
    ASSUME OutcomeInv, SessionInv', NEW r \in Reviews, Runner(r)
    PROVE  Refines
<1>. USE DEF Refines
<1>0. SessionInv /\ Consistent(r) /\ Undecided(r) /\ TypeOK
  BY DEF OutcomeInv, SessionInv
<1>1. ASSUME NEW code \in {"complete", "error"}, Finish(r, code), r \in Live,
             code = "complete" => r \in saved,
             saved' = saved,
             \A s \in Reviews : persistenceState'[s] # "pending" <=> persistenceState[s] # "pending"
      PROVE  Refines
  <2>1. /\ MayTell
        /\ \A s \in Reviews :
             terminals'[s] \in {<<"complete">>, <<"error">>} =>
                 s = r \/ terminals'[s] = terminals[s]
        /\ pc' = [pc EXCEPT ![r] = "done"]
        /\ activeSessions' \union completed' = activeSessions \union completed
    BY <1>0, <1>1, FinishTells
  <2>2. [Outcomes!Next]_(Outcomes!vars)
    BY <1>0, <1>1, <2>1, EndingRefines DEF StagesStay
  <2>3. OutcomeInv'
    BY <1>0, <1>1, <2>1 DEF OutcomeInv, Undecided, TypeOK
  <2>. QED BY <2>2, <2>3
<1>2. CASE RunnerStops(r)
  <2>1. /\ UNCHANGED <<terminals, persistenceState, activeSessions, completed, saved>>
        /\ pc' = [pc EXCEPT ![r] = "done"]
    BY <1>2 DEF RunnerStops
  <2>2. [Outcomes!Next]_(Outcomes!vars)
    BY <1>0, <2>1, EndingRefines DEF StagesStay
  <2>3. OutcomeInv'
    BY <1>0, <2>1 DEF OutcomeInv, Undecided, TypeOK
  <2>. QED BY <2>2, <2>3
<1>3. CASE RunnerFails(r)
  <2>1. r \in Live
    BY <1>0, <1>3 DEF RunnerFails, SessionInv, RunnerOwnsSession, LivePending
  <2>2. Finish(r, "error") /\ UNCHANGED <<persistenceState, saved>>
    BY <1>3 DEF RunnerFails
  <2>. QED BY <1>1, <2>1, <2>2
<1>7. CASE SaveFails(r)
  <2>1. r \in Live /\ pc[r] = "saving"
    BY <1>0, <1>7 DEF SaveFails, SessionInv, RunnerOwnsSession
  <2>2. /\ Finish(r, "error") /\ UNCHANGED persistenceState
        /\ saved' \in {saved, saved \union {r}}
    BY <1>7 DEF SaveFails
  <2>3. /\ MayTell
        /\ \A s \in Reviews :
             terminals'[s] \in {<<"complete">>, <<"error">>} =>
                 s = r \/ terminals'[s] = terminals[s]
        /\ pc' = [pc EXCEPT ![r] = "done"]
        /\ activeSessions' \union completed' = activeSessions \union completed
    BY <1>0, <2>1, <2>2, FinishTells
  <2>4. OutcomeInv'
    BY <1>0, <2>2, <2>3 DEF OutcomeInv, Undecided, TypeOK
  <2>5. CASE saved' = saved
    BY <1>0, <2>2, <2>3, <2>4, <2>5, EndingRefines DEF StagesStay
  <2>6. CASE saved' = saved \union {r}
    <3>1. Outcomes!Tell
      BY <1>0, <2>3, TellRefines
    <3>2. terminals[r] = <<>> /\ Stage(r) = "committing"
      BY <1>0, <2>1, LiveAreUntold DEF Stage, Consistent
    <3>3. Outcomes!Save(r)
      BY <2>6, <3>2 DEF Outcomes!Save
    <3>4. [s \in Reviews |-> Stage(s)]' = [s \in Reviews |-> Stage(s)]
      BY <2>2, <2>3 DEF Stage
    <3>. QED BY <2>4, <3>1, <3>3, <3>4 DEF Outcomes!Next
  <2>. QED BY <2>2, <2>5, <2>6
<1>4. ASSUME NEW code \in {"complete", "error"}, Settle(r, code)
      PROVE  Refines
  <2>1. r \in Live /\ r \in saved
    BY <1>0, <1>4 DEF Settle, Consistent, Undecided, Live
  <2>2. Finish(r, code) /\ saved' = saved
    BY <1>4 DEF Settle
  <2>3. \A s \in Reviews : persistenceState'[s] # "pending" <=> persistenceState[s] # "pending"
    BY <1>0, <1>4 DEF Settle, TypeOK
  <2>. QED BY <1>1, <2>1, <2>2, <2>3
<1>5. CASE BeginCommit(r)
  <2>1. /\ r \in Live /\ persistenceState[r] = "pending" /\ terminals[r] = <<>>
        /\ pc[r] = "running"
    BY <1>0, <1>5, LiveAreUntold DEF BeginCommit, LivePending
  <2>2. /\ UNCHANGED <<terminals, activeSessions, completed, saved>>
        /\ persistenceState' = [persistenceState EXCEPT ![r] = "committing"]
        /\ pc' = [pc EXCEPT ![r] = "saving"]
    BY <1>5 DEF BeginCommit
  <2>3. Outcomes!Commit(r)
    <3>1. [s \in Reviews |-> Stage(s)]' =
            [[s \in Reviews |-> Stage(s)] EXCEPT ![r] = "committing"]
      BY <1>0, <2>2 DEF Stage, TypeOK
    <3>2. Stage(r) = "pending"
      BY <2>1 DEF Stage, Live
    <3>. QED BY <2>1, <3>1, <3>2 DEF Outcomes!Commit
  <2>4. OutcomeInv'
    BY <1>0, <2>1, <2>2 DEF OutcomeInv, Undecided, TypeOK
  <2>. QED BY <2>2, <2>3, <2>4 DEF Outcomes!Next
<1>6. CASE SaveWritten(r)
  <2>1. /\ pc[r] = "saving" /\ pc' = [pc EXCEPT ![r] = "durable"] /\ saved' = saved \union {r}
        /\ UNCHANGED <<terminals, activeSessions, completed, persistenceState>>
    BY <1>6 DEF SaveWritten
  <2>2. persistenceState[r] # "pending"
    BY <1>0, <2>1 DEF Consistent
  <2>3. terminals[r] \in {<<>>, <<"SERVER_SHUTDOWN">>}
    <3>1. terminals[r] \in Seq(Codes) /\ Len(terminals[r]) \in {0, 1}
      BY <1>0 DEF SessionInv, TypeOK, OneTerminalEvent
    <3>2. CASE Len(terminals[r]) = 0
      BY <3>1, <3>2
    <3>3. CASE Len(terminals[r]) = 1
      <4>1. terminals[r] = <<terminals[r][1]>> /\ 1 \in DOMAIN terminals[r]
        BY <3>1, <3>3
      <4>2. terminals[r][1] \in {"complete", "error", "SERVER_SHUTDOWN"}
        BY <1>0, <2>2, <4>1 DEF Consistent
      <4>3. terminals[r] \notin {<<"complete">>, <<"error">>}
        BY <1>0, <2>1 DEF Undecided
      <4>. QED BY <4>1, <4>2, <4>3
    <3>. QED BY <3>1, <3>2, <3>3
  <2>4. Outcomes!Save(r) /\ UNCHANGED [s \in Reviews |-> Stage(s)]
    BY <2>1, <2>2, <2>3 DEF Outcomes!Save, Stage
  <2>5. OutcomeInv'
    BY <1>0, <2>1 DEF OutcomeInv, Undecided, TypeOK
  <2>6. Outcomes!Tell
    BY <1>0, <2>1, TellRefines DEF MayTell
  <2>. QED BY <2>4, <2>5, <2>6 DEF Outcomes!Next
<1>. QED BY <1>2, <1>3, <1>4, <1>5, <1>6, <1>7 DEF Runner

LEMMA OthersRefine ==
    ASSUME OutcomeInv, SessionInv',
           \/ \E r \in Reviews :
                Admit(r) \/ Refuse(r) \/ Expire(r) \/ CancelForUser(r) \/ CancelForConfiguration(r)
           \/ \E p \in Projects : RevokeProject(p)
           \/ \E S \in SUBSET Reviews : CleanupStale(S)
           \/ Shutdown
           \/ UNCHANGED vars
    PROVE  Refines
<1>. USE DEF Refines
<1>0. SessionInv /\ TypeOK
  BY DEF OutcomeInv, SessionInv
<1>1. ASSUME NEW S, S \subseteq Live,
             NEW c \in {"CANCELLED", "SESSION_STALE", "SESSION_TIMEOUT", "SERVER_SHUTDOWN"},
             S \subseteq LivePending \/ c = "SERVER_SHUTDOWN",
             NEW gone, gone \subseteq S \/ (c = "SERVER_SHUTDOWN" /\ S = Live),
             Terminate(S, c, gone),
             UNCHANGED <<pc, persistenceState, saved>>
      PROVE  Refines
  <2>1. /\ MayTell
        /\ \A s \in Reviews :
             terminals'[s] \in {<<"complete">>, <<"error">>} => terminals'[s] = terminals[s]
        /\ activeSessions' \union completed' = activeSessions \union completed
    BY <1>0, <1>1, TerminateTells
  <2>2. [Outcomes!Next]_(Outcomes!vars)
    BY <1>0, <1>1, <2>1, EndingRefines DEF StagesStay
  <2>3. OutcomeInv'
    BY <1>1, <2>1 DEF OutcomeInv, Undecided
  <2>. QED BY <2>2, <2>3
<1>2. ASSUME NEW r \in Reviews, Admit(r) \/ Refuse(r) PROVE Refines
  <2>1. /\ UNCHANGED <<terminals, persistenceState, activeSessions, completed, saved>>
        /\ \A s \in Reviews : pc'[s] = pc[s] \/ pc'[s] \in {"admitted", "done"}
    BY <1>0, <1>2 DEF Admit, Refuse, TypeOK
  <2>2. [Outcomes!Next]_(Outcomes!vars)
    BY <1>0, <2>1, EndingRefines DEF StagesStay
  <2>3. OutcomeInv'
    BY <2>1 DEF OutcomeInv, Undecided
  <2>. QED BY <2>2, <2>3
<1>3. ASSUME NEW r \in Reviews, Expire(r) PROVE Refines
  <2>1. /\ UNCHANGED <<terminals, persistenceState, saved, pc>>
        /\ activeSessions' \union completed' = activeSessions \union completed
    BY <1>3 DEF Expire
  <2>2. [Outcomes!Next]_(Outcomes!vars)
    BY <1>0, <2>1, EndingRefines DEF StagesStay
  <2>3. OutcomeInv'
    BY <2>1 DEF OutcomeInv, Undecided
  <2>. QED BY <2>2, <2>3
<1>4. ASSUME NEW r \in Reviews, CancelForUser(r) \/ CancelForConfiguration(r) PROVE Refines
  <2>1. PICK c \in {"CANCELLED", "SESSION_STALE"} :
          /\ {r} \subseteq LivePending /\ Terminate({r}, c, {})
          /\ UNCHANGED <<pc, persistenceState, saved>>
    BY <1>4 DEF CancelForUser, CancelForConfiguration
  <2>2. {r} \subseteq Live
    BY <2>1 DEF LivePending
  <2>. QED BY <1>1, <2>1, <2>2
<1>5. ASSUME NEW p \in Projects, RevokeProject(p) PROVE Refines
  <2>. DEFINE S == {r \in LivePending : ProjectOf[r] = p}
  <2>1. S \subseteq LivePending /\ S \subseteq Live
    BY DEF LivePending
  <2>2. Terminate(S, "SESSION_STALE", {}) /\ UNCHANGED <<pc, persistenceState, saved>>
    BY <1>5 DEF RevokeProject
  <2>. HIDE DEF S
  <2>. QED BY <1>1, <2>1, <2>2
<1>6. ASSUME NEW S \in SUBSET Reviews, CleanupStale(S) PROVE Refines
  <2>1. S \subseteq LivePending /\ S \subseteq Live
    BY <1>6 DEF CleanupStale, LivePending
  <2>2. Terminate(S, "SESSION_TIMEOUT", S) /\ UNCHANGED <<pc, persistenceState, saved>>
    BY <1>6 DEF CleanupStale
  <2>. QED BY <1>1, <2>1, <2>2
<1>7. CASE Shutdown
  BY <1>1, <1>7 DEF Shutdown
<1>8. CASE UNCHANGED vars
  <2>1. UNCHANGED <<terminals, persistenceState, saved, pc, activeSessions, completed>>
    BY <1>8 DEF vars
  <2>2. [Outcomes!Next]_(Outcomes!vars)
    BY <1>0, <2>1, EndingRefines DEF StagesStay
  <2>3. OutcomeInv'
    BY <2>1 DEF OutcomeInv, Undecided
  <2>. QED BY <2>2, <2>3
<1>. QED BY <1>2, <1>3, <1>4, <1>5, <1>6, <1>7, <1>8

LEMMA ActivateRefines ==
    ASSUME OutcomeInv, SessionInv', NEW r \in Reviews, Activate(r)
    PROVE  Refines
<1>0. SessionInv /\ Consistent(r) /\ TypeOK
  BY DEF OutcomeInv, SessionInv
<1>1. /\ MayTell
      /\ \A s \in Reviews :
           terminals'[s] \in {<<"complete">>, <<"error">>} => terminals'[s] = terminals[s]
      /\ activeSessions' \union completed' = activeSessions \union completed \union {r}
  BY <1>0, ActivateTells
<1>2. /\ pc[r] = "admitted" /\ pc' = [pc EXCEPT ![r] = "running"]
      /\ UNCHANGED <<persistenceState, saved>>
  BY DEF Activate
<1>3. /\ r \notin activeSessions \union completed /\ persistenceState[r] = "pending"
  BY <1>0, <1>2 DEF Consistent
<1>4. Outcomes!Begin(r)
  <2>1. Stage(r) = "absent"
    BY <1>3 DEF Stage
  <2>2. [s \in Reviews |-> Stage(s)]' = [[s \in Reviews |-> Stage(s)] EXCEPT ![r] = "pending"]
    BY <1>1, <1>2, <1>3 DEF Stage
  <2>. QED BY <2>1, <2>2 DEF Outcomes!Begin
<1>5. Outcomes!Tell
  BY <1>0, <1>1, TellRefines
<1>6. terminals'[r] \notin {<<"complete">>, <<"error">>}
  <2>1. terminals'[r] = terminals[r]
    BY <1>1, <1>3 DEF MayTell, Live
  <2>2. Len(terminals[r]) = 0
    BY <1>0, <1>3 DEF SessionInv, OneTerminalEvent
  <2>3. Len(<<"complete">>) = 1 /\ Len(<<"error">>) = 1
    OBVIOUS
  <2>. QED BY <2>1, <2>2, <2>3
<1>7. OutcomeInv'
  BY <1>0, <1>1, <1>2, <1>6 DEF OutcomeInv, Undecided, TypeOK
<1>. QED BY <1>2, <1>4, <1>5, <1>7 DEF Refines, Outcomes!Next

LEMMA NextRefines == OutcomeInv /\ [Next]_vars => Refines
<1>. SUFFICES ASSUME OutcomeInv, [Next]_vars PROVE Refines
  OBVIOUS
<1>1. SessionInv'
  BY StepPreserves DEF OutcomeInv
<1>. QED BY <1>1, RunnerRefines, OthersRefine, ActivateRefines DEF Next

(* The sessions implement one outcome for each review, for any number of them,
   any capacity of the map and any order in which they are ended. *)
THEOREM EachReviewHasOneOutcome == Spec => OutcomeIsDecided
<1>1. OutcomeInv /\ [Next]_vars => OutcomeInv'
  BY NextRefines DEF Refines
<1>2. OutcomeInv /\ [Next]_vars => [Outcomes!Next]_(Outcomes!vars)
  BY NextRefines DEF Refines
<1>. QED BY <1>1, <1>2, OutcomeInit, PTL DEF Spec, OutcomeIsDecided, Outcomes!Spec
=============================================================================

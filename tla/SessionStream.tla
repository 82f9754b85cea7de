---------------------------- MODULE SessionStream ----------------------------
(***************************************************************************)
(* The event buffer of one review session and the SSE streams that replay  *)
(* it and then follow it live.                                             *)
(*                                                                         *)
(*   cli/server/src/features/review/stream/store.ts   the bounded buffer   *)
(*   cli/server/src/features/review/stream/replay.ts  one stream           *)
(*   cli/server/src/features/review/stream/resume.ts  opening a stream     *)
(*                                                                         *)
(* An event is an object, so two events with the same text are different:  *)
(* n is its identity, in the order of creation. Whoever may end a session  *)
(* and when is the subject of ReviewSessions; here it may end at any time. *)
(***************************************************************************)
EXTENDS Naturals, SequencesExt

CONSTANTS
    Clients,      \* requests to stream the session; a reconnect is another one
    Cap,          \* MAX_EVENTS_PER_SESSION
    MaxEvents     \* bound: events created before the session ends

ASSUME SessionStreamAssumption ==
    /\ Cap \in Nat \ {0}
    /\ MaxEvents \in Nat

VARIABLES
    events,            \* session.events
    created,           \* the events created so far
    capWarningEmitted,
    isComplete,
    retained,          \* the session is in activeSessions
    authorized,        \* the project is trusted as when the streams were opened
    streams,           \* the stream of each client
    emitted,           \* history: every progress event of the runner
    revokedAt          \* history: the events created before the revocation

vars == <<events, created, capWarningEmitted, isComplete, retained, authorized,
          streams, emitted, revokedAt>>

(* chunk stands for the cap notice, the only chunk the store creates. *)
Events == [n : Nat, type : {"progress", "chunk", "terminal"}]

Open == {"replaying", "live", "draining", "closing"}

(* todo is what the stream still has to write: of its snapshot, or of the chain
   of pending writes. liveQueue holds what arrived during the replay. *)
Streams == [phase : Open \union {"away", "ended", "cut"},
            todo : Seq(Events), liveQueue : Seq(Events), sent : Seq(Events)]

TypeOK ==
    /\ events \in Seq(Events)
    /\ created \in Nat
    /\ capWarningEmitted \in BOOLEAN
    /\ isComplete \in BOOLEAN
    /\ retained \in BOOLEAN
    /\ authorized \in BOOLEAN
    /\ streams \in [Clients -> Streams]
    /\ emitted \subseteq Events
    /\ revokedAt \in Nat

Away == [phase |-> "away", todo |-> <<>>, liveQueue |-> <<>>, sent |-> <<>>]

Init ==
    /\ events = <<>>
    /\ created = 0
    /\ capWarningEmitted = FALSE
    /\ isComplete = FALSE
    /\ retained = TRUE
    /\ authorized = TRUE
    /\ streams = [c \in Clients |-> Away]
    /\ emitted = {}
    /\ revokedAt = 0

-----------------------------------------------------------------------------
(* The buffer                                                               *)

New(k, type) == [n |-> created + k, type |-> type]

AtCap == Len(events) >= Cap
FirstDrop == AtCap /\ ~capWarningEmitted

(* Mutant of Stored: the terminal event is appended past the cap. *)
StoredPastCap(terminal, notice) == Append(events, terminal)

(* storeSessionEvent for the terminal event: past the cap it takes the last
   slot, or, if that holds the cap notice, the notice moves one slot down. *)
Stored(terminal, notice) ==
    IF ~AtCap THEN Append(events, terminal)
    ELSE IF Last(events).type = "chunk"
         THEN [events EXCEPT ![Len(events) - 1] = notice, ![Len(events)] = terminal]
         ELSE [events EXCEPT ![Len(events)] = terminal]

(* Mutant of Told: a live stream does not look at its authorization. *)
ToldAnyway(stream, s, allowed) ==
    CASE stream.phase = "replaying" -> [stream EXCEPT !.liveQueue = @ \o s]
      [] stream.phase = "live" -> [stream EXCEPT !.todo = @ \o s]
      [] OTHER -> stream

(* What notifySubscribers does to a stream that is told the events s. A live
   stream that has lost its authorization finishes its pending writes only. *)
Told(stream, s, allowed) ==
    CASE s = <<>> -> stream
      [] s # <<>> /\ stream.phase = "replaying" ->
            [stream EXCEPT !.liveQueue = @ \o s]
      [] s # <<>> /\ stream.phase = "live" /\ allowed ->
            [stream EXCEPT !.todo = @ \o s]
      [] s # <<>> /\ stream.phase = "live" /\ ~allowed ->
            [stream EXCEPT !.phase = "closing"]
      [] OTHER -> stream

Notify(s, allowed) == streams' = [c \in Clients |-> Told(streams[c], s, allowed)]

(* Mutant of Emit: events past the cap are dropped without the notice. *)
EmitSilently ==
    /\ ~isComplete
    /\ created < MaxEvents
    /\ LET event == New(1, "progress")
           added == IF AtCap THEN <<>> ELSE <<event>>
       IN  /\ events' = events \o added
           /\ Notify(added, authorized)
           /\ emitted' = emitted \union {event}
    /\ created' = created + 2
    /\ capWarningEmitted' = (capWarningEmitted \/ AtCap)
    /\ UNCHANGED <<isComplete, retained, authorized, revokedAt>>

(* addEvent for a progress event of the runner. The first event that is dropped
   leaves one notice past the cap. *)
Emit ==
    /\ ~isComplete
    /\ created < MaxEvents
    /\ LET event == New(1, "progress")
           added == CASE ~AtCap -> <<event>>
                      [] FirstDrop -> <<New(2, "chunk")>>
                      [] OTHER -> <<>>
       IN  /\ events' = events \o added
           /\ Notify(added, authorized)
           /\ emitted' = emitted \union {event}
    /\ created' = created + 2
    /\ capWarningEmitted' = (capWarningEmitted \/ AtCap)
    /\ UNCHANGED <<isComplete, retained, authorized, revokedAt>>

(* addEvent for the terminal event of the runner, then markComplete. *)
EndByRunner ==
    /\ ~isComplete
    /\ LET terminal == New(3, "terminal")
           notice   == New(2, "chunk")
           stored   == Stored(terminal, New(1, "chunk"))
       IN  IF FirstDrop
           THEN /\ events' = Front(stored) \o <<notice, terminal>>
                /\ Notify(<<notice, terminal>>, authorized)
           ELSE /\ events' = stored
                /\ Notify(<<terminal>>, authorized)
    /\ created' = created + 3
    /\ capWarningEmitted' = (capWarningEmitted \/ AtCap)
    /\ isComplete' = TRUE
    /\ UNCHANGED <<retained, authorized, emitted, revokedAt>>

(* terminateSession: cancelled, superseded, evicted, timed out or shut down.
   Most callers also take the session out of the map. *)
Terminate(stays, allowed) ==
    /\ ~isComplete
    /\ events' = Stored(New(3, "terminal"), New(1, "chunk"))
    /\ Notify(<<New(3, "terminal")>>, allowed)
    /\ created' = created + 3
    /\ capWarningEmitted' = (capWarningEmitted \/ AtCap)
    /\ isComplete' = TRUE
    /\ retained' = stays
    /\ UNCHANGED emitted

TerminatedByOthers ==
    /\ \E stays \in BOOLEAN : Terminate(stays, authorized)
    /\ UNCHANGED <<authorized, revokedAt>>

(* revokeProjectSessions: the streams lose their authorization first, then a
   review that has not reached its commit point is cancelled. *)
Revoke ==
    /\ authorized
    /\ authorized' = FALSE
    /\ revokedAt' = created
    /\ \/ Terminate(TRUE, FALSE)
       \/ UNCHANGED <<events, created, capWarningEmitted, isComplete, retained,
                      streams, emitted>>

(* The timer of markComplete, or eviction of a completed session. *)
Forget ==
    /\ isComplete
    /\ retained
    /\ retained' = FALSE
    /\ UNCHANGED <<events, created, capWarningEmitted, isComplete, authorized,
                   streams, emitted, revokedAt>>

-----------------------------------------------------------------------------
(* One stream                                                               *)

Changed(c, stream) ==
    /\ streams' = [streams EXCEPT ![c] = stream]
    /\ UNCHANGED <<events, created, capWarningEmitted, isComplete, retained,
                   authorized, emitted, revokedAt>>

(* resumeStreamById found the session; the early subscription and the snapshot
   are taken in the same turn. *)
Connect(c) ==
    /\ streams[c].phase = "away"
    /\ retained
    /\ authorized
    /\ Changed(c, [Away EXCEPT !.phase = "replaying", !.todo = events])

(* The next write. A replay and the final drain look at the authorization
   before each write, the chain of pending writes of a live stream does not. *)
Write(c) ==
    /\ streams[c].phase \in Open
    /\ streams[c].todo # <<>>
    /\ \/ authorized
       \/ streams[c].phase \in {"live", "closing"}
    /\ Changed(c, [streams[c] EXCEPT !.todo = Tail(@),
                                     !.sent = Append(@, Head(streams[c].todo))])

CutOff(c) ==
    /\ streams[c].phase \in {"replaying", "draining"}
    /\ streams[c].todo # <<>>
    /\ ~authorized
    /\ Changed(c, [streams[c] EXCEPT !.phase = "cut", !.todo = <<>>,
                                     !.liveQueue = <<>>])

(* Mutants of EndReplay: what follows the replay is read from the buffer again;
   what arrived during the replay of a session that ended is not drained. *)
EndReplayFromBuffer(c) ==
    /\ streams[c].phase = "replaying"
    /\ streams[c].todo = <<>>
    /\ Changed(c, [streams[c] EXCEPT !.liveQueue = <<>>, !.todo = events,
                      !.phase = IF isComplete THEN "draining" ELSE "live"])

EndReplayUndrained(c) ==
    /\ streams[c].phase = "replaying"
    /\ streams[c].todo = <<>>
    /\ Changed(c, IF isComplete
                  THEN [streams[c] EXCEPT !.phase = "draining", !.liveQueue = <<>>]
                  ELSE [streams[c] EXCEPT !.phase = "live", !.liveQueue = <<>>,
                                          !.todo = streams[c].liveQueue])

(* The loops over liveQueue: each event, but for those of the snapshot. *)
Fresh(queue, snapshot) ==
    LET kept[i \in 0..Len(queue)] ==
            IF i = 0 THEN <<>>
            ELSE IF queue[i] \in ToSet(snapshot) THEN kept[i - 1]
            ELSE Append(kept[i - 1], queue[i])
    IN  kept[Len(queue)]

(* The snapshot is written. What arrived meanwhile and was not in the snapshot
   follows: as the end of the stream if the session has ended, and otherwise
   as the first pending writes of a live stream. *)
EndReplay(c) ==
    LET stream == streams[c]
        fresh  == Fresh(stream.liveQueue, stream.sent)
        next   == [stream EXCEPT !.liveQueue = <<>>, !.todo = fresh]
        over   == isComplete \/ \E e \in ToSet(stream.sent) : e.type = "terminal"
    IN  /\ stream.phase = "replaying"
        /\ stream.todo = <<>>
        /\ Changed(c,
             IF over THEN [next EXCEPT !.phase = "draining"]
             ELSE IF authorized \/ stream.liveQueue = <<>>
             THEN [next EXCEPT !.phase = "live"]
             ELSE [next EXCEPT !.phase = "closing", !.todo = <<>>])

(* Mutant of Finish: a live stream does not resolve after the terminal event. *)
FinishDrainsOnly(c) ==
    /\ streams[c].todo = <<>>
    /\ streams[c].phase \in {"draining", "closing"}
    /\ Changed(c, [streams[c] EXCEPT !.phase =
                      IF streams[c].phase = "closing" THEN "cut" ELSE "ended"])

(* The stream resolves once its last pending write has. *)
Finish(c) ==
    LET stream == streams[c]
    IN  /\ stream.todo = <<>>
        /\ \/ stream.phase \in {"draining", "closing"}
           \/ stream.phase = "live" /\ \E e \in ToSet(stream.sent) : e.type = "terminal"
        /\ Changed(c, [stream EXCEPT !.phase =
                          IF stream.phase = "closing" THEN "cut" ELSE "ended"])

(* The client goes away, or a write fails. *)
Abort(c) ==
    /\ streams[c].phase \in Open
    /\ Changed(c, [streams[c] EXCEPT !.phase = "cut", !.todo = <<>>,
                                     !.liveQueue = <<>>])

Stream(c) == Write(c) \/ CutOff(c) \/ EndReplay(c) \/ Finish(c)

Next ==
    \/ Emit
    \/ EndByRunner
    \/ TerminatedByOthers
    \/ Revoke
    \/ Forget
    \/ \E c \in Clients :
        \/ Connect(c)
        \/ Stream(c)
        \/ Abort(c)

Spec == Init /\ [][Next]_vars

(* Writes to a client that is still there complete, and every session ends
   (ReviewSessions: SessionsEnd). *)
Fairness ==
    /\ \A c \in Clients : WF_vars(Stream(c))
    /\ WF_vars(EndByRunner \/ TerminatedByOthers)

FairSpec == Spec /\ Fairness
-----------------------------------------------------------------------------
(* Safety                                                                   *)

Increasing(s) == \A i, j \in DOMAIN s : i < j => s[i].n < s[j].n

(* The buffer holds at most one event past the cap, in the order they were
   created, and its terminal event, which it has exactly when the session is
   complete, comes last: neither the cap nor the notice ever hides it. *)
BufferSound ==
    /\ Len(events) <= Cap + 1
    /\ Increasing(events)
    /\ \A i \in DOMAIN events :
        events[i].type = "terminal" <=> isComplete /\ i = Len(events)
    /\ isComplete => events # <<>>

(* A stream never repeats or reorders an event, wherever the end of the replay
   falls among the events that arrive. *)
StreamsInOrder == \A c \in Clients : Increasing(streams[c].sent)

(* A stream that ended by itself delivered all that the buffer retained, its
   last event is the end of the session, and if the buffer says that it was
   truncated, so did the stream. *)
EndedStreamIsComplete ==
    \A c \in Clients : streams[c].phase = "ended" =>
        LET sent == ToSet(streams[c].sent)
        IN  /\ streams[c].sent # <<>>
            /\ Last(streams[c].sent).type = "terminal"
            /\ {e \in ToSet(events) : e.type # "chunk"} \subseteq sent
            /\ (\E e \in ToSet(events) : e.type = "chunk") =>
                  \E e \in sent : e.type = "chunk"

(* However the revocation of the project's trust falls among replays, drains and
   pending writes, no event that is created after it leaves the server: what a
   live stream still writes was handed to it before. *)
NothingNewAfterRevocation ==
    ~authorized => \A c \in Clients : \A e \in ToSet(streams[c].sent) : e.n <= revokedAt

Lost == emitted \ ToSet(events)
Noticed == \E e \in ToSet(events) : e.type = "chunk"

(* Beyond the one event whose slot the terminal event may take (terminateSession
   ignores firstDrop), nothing is missing from the buffer without the notice that
   says so: "the truncation is observable" (store.ts, the cap notice). *)
LossIsAnnounced == Cardinality(Lost) > 1 => Noticed

-----------------------------------------------------------------------------
(* Liveness                                                                 *)

(* Every stream that was opened is closed: with the session, or before. *)
StreamsEnd ==
    \A c \in Clients : streams[c].phase \in Open ~> streams[c].phase \in {"ended", "cut"}
=============================================================================

---------------------------- MODULE ProjectTrust ----------------------------
(***************************************************************************)
(* The trust that users grant to projects: the document the server         *)
(* processes share, the copy each of them keeps in memory, the requests    *)
(* that change it, and the reviews that run on it.                         *)
(*                                                                         *)
(*   cli/server/src/shared/lib/config/trust-store.ts        the copy       *)
(*   cli/server/src/shared/lib/config/persistence/trust.ts  the document   *)
(*   cli/server/src/features/settings/router.ts             POST, DELETE   *)
(*   cli/server/src/shared/middlewares/trust-guard.ts       who may start  *)
(*                                                                         *)
(* A record is named by the request that made it, so that two of them are  *)
(* never confused; its level is what the request asked for. One action is  *)
(* one turn of a server's event loop, except that other servers run        *)
(* between the load and the stat at the end of a mutation.                 *)
(***************************************************************************)
EXTENDS Naturals, Sequences

CONSTANTS
    Servers,      \* the server processes that share the document
    Projects,
    Requests,     \* the POST and DELETE requests for trust
    ServerOf,     \* the server each request is sent to
    ProjectOf,    \* the project it is about
    WantOf,       \* "granted", "denied", or "none" for a DELETE
    Original,     \* the records of before
    OriginalOf,   \* their levels
    Nobody,
    MaxFailures   \* bound: mutations that fail

ASSUME ProjectTrustAssumption ==
    /\ ServerOf \in [Requests -> Servers]
    /\ ProjectOf \in [Requests -> Projects]
    /\ WantOf \in [Requests -> {"granted", "denied", "none"}]
    /\ OriginalOf \in [Projects -> {"granted", "denied", "none"}]
    /\ Original \notin Requests
    /\ Nobody \notin Requests
    /\ MaxFailures \in Nat

VARIABLES
    disk,        \* trust.json
    lock,        \* who holds its transaction lock
    staged,      \* what the holder is about to write
    memory,      \* trustState of each server
    current,     \* the servers whose trustMtimeMs is that of the file
    backup,      \* of the mutation that has begun
    queue,       \* the requests that have asked for the mutex, in their order
    pc,          \* where each request stands
    existing,    \* existingTrust of each request
    reviews,     \* the projects with a review that runs on each server
    written,     \* history: the requests whose record reached the disk
    failures

vars == <<disk, lock, staged, memory, current, backup, queue, pc, existing,
          reviews, written, failures>>
document == <<disk, lock, staged, written>>

Records == Requests \union {Original}
Documents == [Projects -> Records]

Level(p, record) == IF record = Original THEN OriginalOf[p] ELSE WantOf[record]

TypeOK ==
    /\ disk \in Documents
    /\ lock \in Requests \union {Nobody}
    /\ staged \in Documents
    /\ memory \in [Servers -> Documents]
    /\ current \subseteq Servers
    /\ backup \in [Servers -> Documents]
    /\ queue \in [Servers -> Seq(Requests)]
    /\ pc \in [Requests -> {"idle", "queued", "waiting", "merged", "written", "unlocked",
                            "reloaded", "broken", "done", "failed"}]
    /\ existing \in [Requests -> Records]
    /\ reviews \in [Servers -> SUBSET Projects]
    /\ written \subseteq Requests
    /\ failures \in Nat

Unset == [p \in Projects |-> Original]

Init ==
    /\ disk = Unset
    /\ lock = Nobody
    /\ staged = Unset
    /\ memory = [i \in Servers |-> disk]
    /\ current = Servers
    /\ backup = [i \in Servers |-> Unset]
    /\ queue = [i \in Servers |-> <<>>]
    /\ pc = [r \in Requests |-> "idle"]
    /\ existing = [r \in Requests |-> Original]
    /\ reviews = [i \in Servers |-> {}]
    /\ written = {}
    /\ failures = 0

-----------------------------------------------------------------------------
(* refreshTrustState: the stat comes before the load.                       *)

Fresh(i) == IF i \in current THEN memory[i] ELSE disk

Remember(i, state) ==
    /\ memory' = [memory EXCEPT ![i] = state]
    /\ current' = current \union {i}

(* The server is not between the load and the stat of persistTrustWith. *)
Awake(i) == \A r \in Requests : ServerOf[r] = i => pc[r] # "reloaded"

(* getTrust, for whatever request. *)
GetTrust(i) ==
    /\ Awake(i)
    /\ i \notin current
    /\ Remember(i, disk)
    /\ UNCHANGED <<document, backup, queue, pc, existing, reviews, failures>>

(* isAuthorized and activate, in one turn. *)
StartReview(i, p) ==
    /\ Awake(i)
    /\ p \notin reviews[i]
    /\ Level(p, Fresh(i)[p]) = "granted"
    /\ Remember(i, Fresh(i))
    /\ reviews' = [reviews EXCEPT ![i] = @ \union {p}]
    /\ UNCHANGED <<document, backup, queue, pc, existing, failures>>

EndReview(i, p) ==
    /\ Awake(i)
    /\ p \in reviews[i]
    /\ reviews' = [reviews EXCEPT ![i] = @ \ {p}]
    /\ UNCHANGED <<document, memory, current, backup, queue, pc, existing, failures>>

-----------------------------------------------------------------------------
(* POST and DELETE /trust                                                   *)

(* The handler reads the trust of the project and asks for the mutex. *)
Ask(r) ==
    LET i == ServerOf[r] IN
    /\ pc[r] = "idle"
    /\ Awake(i)
    /\ Remember(i, Fresh(i))
    /\ existing' = [existing EXCEPT ![r] = Fresh(i)[ProjectOf[r]]]
    /\ queue' = [queue EXCEPT ![i] = Append(@, r)]
    /\ pc' = [pc EXCEPT ![r] = "queued"]
    /\ UNCHANGED <<document, backup, reviews, failures>>

(* The handler answers: the next request has the mutex. *)
Ended(r, how) ==
    LET i == ServerOf[r] IN
    /\ queue' = [queue EXCEPT ![i] = Tail(@)]
    /\ pc' = [pc EXCEPT ![r] = how]
    /\ backup' = [backup EXCEPT ![i] = Unset]
    /\ existing' = [existing EXCEPT ![r] = Original]

HasTurn(r) ==
    /\ pc[r] = "queued"
    /\ Awake(ServerOf[r])
    /\ Head(queue[ServerOf[r]]) = r

(* A removal that finds no record. *)
AnswerNotRemoved(r) ==
    LET i == ServerOf[r] IN
    /\ HasTurn(r)
    /\ WantOf[r] = "none" /\ Level(ProjectOf[r], Fresh(i)[ProjectOf[r]]) = "none"
    /\ Remember(i, Fresh(i))
    /\ Ended(r, "done")
    /\ UNCHANGED <<document, reviews, failures>>

(* Mutant of Mutate: the copy is taken of what the mutation leaves. *)
MutateBeforeBackup(r) ==
    LET i == ServerOf[r] IN
    /\ HasTurn(r)
    /\ WantOf[r] # "none" \/ Level(ProjectOf[r], Fresh(i)[ProjectOf[r]]) # "none"
    /\ Remember(i, [Fresh(i) EXCEPT ![ProjectOf[r]] = r])
    /\ backup' = [backup EXCEPT ![i] = memory'[i]]
    /\ pc' = [pc EXCEPT ![r] = "waiting"]
    /\ UNCHANGED <<document, queue, existing, reviews, failures>>

(* mutateAndPersist: the copy, and the mutation of the memory. *)
Mutate(r) ==
    LET i == ServerOf[r] IN
    /\ HasTurn(r)
    /\ WantOf[r] # "none" \/ Level(ProjectOf[r], Fresh(i)[ProjectOf[r]]) # "none"
    /\ backup' = [backup EXCEPT ![i] = Fresh(i)]
    /\ Remember(i, [Fresh(i) EXCEPT ![ProjectOf[r]] = r])
    /\ pc' = [pc EXCEPT ![r] = "waiting"]
    /\ UNCHANGED <<document, queue, existing, reviews, failures>>

(* Mutant of Merge: the memory of the server is written. *)
MergeFromMemory(r) ==
    /\ pc[r] = "waiting"
    /\ Awake(ServerOf[r])
    /\ lock = Nobody
    /\ lock' = r
    /\ staged' = memory[ServerOf[r]]
    /\ pc' = [pc EXCEPT ![r] = "merged"]
    /\ UNCHANGED <<disk, memory, current, backup, queue, existing, reviews, written,
                   failures>>

(* The lock is acquired (FileLock), and the one record is merged into what is
   on the disk then. *)
Merge(r) ==
    /\ pc[r] = "waiting"
    /\ Awake(ServerOf[r])
    /\ lock = Nobody
    /\ lock' = r
    /\ staged' = [disk EXCEPT ![ProjectOf[r]] = r]
    /\ pc' = [pc EXCEPT ![r] = "merged"]
    /\ UNCHANGED <<disk, memory, current, backup, queue, existing, reviews, written,
                   failures>>

(* The rename of writeJsonFile, after which no server has seen the time of the
   file. *)
Write(r) ==
    /\ pc[r] = "merged"
    /\ disk' = staged
    /\ current' = {}
    /\ written' = written \union {r}
    /\ pc' = [pc EXCEPT ![r] = "written"]
    /\ UNCHANGED <<lock, staged, memory, backup, queue, existing, reviews, failures>>

Unlock(r) ==
    /\ pc[r] = "written"
    /\ lock' = Nobody
    /\ staged' = Unset
    /\ pc' = [pc EXCEPT ![r] = "unlocked"]
    /\ UNCHANGED <<disk, memory, current, backup, queue, existing, reviews, written,
                   failures>>

(* writeJsonFile throws, before the rename or when it syncs the directory. *)
WriteFails(r) ==
    /\ pc[r] \in {"merged", "written"}
    /\ failures < MaxFailures
    /\ failures' = failures + 1
    /\ lock' = Nobody
    /\ staged' = Unset
    /\ pc' = [pc EXCEPT ![r] = "broken"]
    /\ UNCHANGED <<disk, memory, current, backup, queue, existing, reviews, written>>

(* The lock could not be acquired. *)
LockFails(r) ==
    /\ pc[r] = "waiting"
    /\ failures < MaxFailures
    /\ failures' = failures + 1
    /\ pc' = [pc EXCEPT ![r] = "broken"]
    /\ UNCHANGED <<document, memory, current, backup, queue, existing, reviews>>

Rollback(r) ==
    LET i == ServerOf[r] IN
    /\ pc[r] = "broken"
    /\ memory' = [memory EXCEPT ![i] = backup[i]]
    /\ Ended(r, "failed")
    /\ UNCHANGED <<document, current, reviews, failures>>

(* The end of persistTrustWith: the load comes before the stat. *)
Reload(r) ==
    /\ pc[r] = "unlocked"
    /\ memory' = [memory EXCEPT ![ServerOf[r]] = disk]
    /\ pc' = [pc EXCEPT ![r] = "reloaded"]
    /\ UNCHANGED <<document, current, backup, queue, existing, reviews, failures>>

(* Mutant of Revokes: a removal decides like a POST. *)
RevokesWhatExisted(r) ==
    WantOf[r] # "granted" /\ Level(ProjectOf[r], existing[r]) = "granted"

(* A removal revokes when there was a record, a POST when it takes away what
   the handler had read. *)
Revokes(r) ==
    \/ WantOf[r] = "none"
    \/ WantOf[r] = "denied" /\ Level(ProjectOf[r], existing[r]) = "granted"

(* The stat, and the handler in the same turn: revokeProjectSessions. *)
Answer(r) ==
    LET i == ServerOf[r] IN
    /\ pc[r] = "reloaded"
    /\ current' = current \union {i}
    /\ reviews' = [reviews EXCEPT ![i] = IF Revokes(r) THEN @ \ {ProjectOf[r]} ELSE @]
    /\ Ended(r, "done")
    /\ UNCHANGED <<document, memory, failures>>

-----------------------------------------------------------------------------
Mutation(r) ==
    \/ AnswerNotRemoved(r) \/ Mutate(r)
    \/ Write(r) \/ Unlock(r) \/ Reload(r) \/ Answer(r)
    \/ WriteFails(r) \/ LockFails(r) \/ Rollback(r)

Next ==
    \/ \E r \in Requests : Ask(r) \/ Merge(r) \/ Mutation(r)
    \/ \E i \in Servers : GetTrust(i)
    \/ \E i \in Servers, p \in Projects : StartReview(i, p) \/ EndReview(i, p)

Spec == Init /\ [][Next]_vars

-----------------------------------------------------------------------------
InMutation(r) == pc[r] \in {"waiting", "merged", "written", "unlocked", "reloaded", "broken"}

(* "a record another instance wrote during this window is never erased": a
   write changes the record it is for, and no other. *)
RecordsIndependent ==
    [][\A p \in Projects :
        disk'[p] # disk[p] =>
            /\ disk'[p] \in Requests
            /\ ProjectOf[disk'[p]] = p
            /\ pc[disk'[p]] = "merged"]_vars

(* What a server believes was on the disk once, or is what its mutation in
   progress is about to put there: a mutation that failed leaves nothing. *)
NothingUncommittedOutlives ==
    \A i \in Servers, p \in Projects :
        LET record == memory[i][p] IN
        record \notin written \union {Original} => InMutation(record) /\ ServerOf[record] = i

(* A server that has answered a change does not forget it until that record is
   changed again, whatever it rolls back or reloads meanwhile. *)
ReadsOwnWrites ==
    \A p \in Projects :
        LET r == disk[p] IN
        r \in Requests /\ pc[r] = "done" =>
            \/ Fresh(ServerOf[r])[p] = r
            \/ \E q \in Requests :
                InMutation(q) /\ ServerOf[q] = ServerOf[r] /\ ProjectOf[q] = p

(* The optimistic memory of a server, through reloads, rollbacks and the writes
   of others. (It may be older than the disk: another server's removal can be
   undone in it by a rollback, or missed between a load and its stat.) *)
MemoryIsGenuine == NothingUncommittedOutlives /\ ReadsOwnWrites

(* No review outlives the removal of the trust it runs on, on the server that
   removed it, unless that has since begun to grant the trust again. (A
   downgrade by POST promises less: it goes by what its handler read first.) *)
RemovalEndsReviews ==
    \A p \in Projects :
        LET r == disk[p] IN
        r \in Requests /\ pc[r] = "done" /\ WantOf[r] = "none" /\ p \in reviews[ServerOf[r]] =>
            \E q \in Requests :
                /\ ServerOf[q] = ServerOf[r] /\ ProjectOf[q] = p /\ WantOf[q] = "granted"
                /\ InMutation(q) \/ pc[q] = "failed"
=============================================================================

----------------------------- MODULE ReviewIndex -----------------------------
(***************************************************************************)
(* The saved reviews and the index that lists them for each project.       *)
(*                                                                         *)
(*   cli/server/src/features/review/storage/reviews.ts        save, list   *)
(*   cli/server/src/features/review/storage/project-index.ts  the index    *)
(*   cli/server/src/features/review/storage/rekey.ts          a move       *)
(*                                                                         *)
(* A review is one file, and durable once that is written. The index of a  *)
(* project is derived from the files and trusted by listings while its     *)
(* cursor marker exists; a reconciliation marker makes the next listing    *)
(* scan the files instead. When the directory of a project has moved, its  *)
(* reviews are rewritten for the new path one by one.                      *)
(*                                                                         *)
(* One action is one file operation, or what one holder of an index lock   *)
(* reads before its first write: a scan judges every review on its own, so *)
(* its reads may be taken together. The order of the entries is left out.  *)
(***************************************************************************)
EXTENDS Naturals, FiniteSets

CONSTANTS
    Reviews,    \* the reviews that are saved, and the runners that save them
    Listers,    \* the requests that list a project
    Mover,      \* rekeyProjectReviews; one runs at a time (projectMoveFlights)
    Paths,
    Home,       \* the project each review is saved for
    Stored,     \* the reviews an earlier run of the server has saved
    From, To,   \* the paths of the project whose directory has moved
    Nowhere,    \* no review file
    NoIndex,    \* no index file
    Free,       \* an index lock nobody holds
    MaxFaults   \* bound: failed operations and crashes, but for the marker that is
                \* set after two failures and fails too

ASSUME ReviewIndexAssumption ==
    /\ Home \in [Reviews -> Paths]
    /\ From \in Paths /\ To \in Paths /\ From # To
    /\ Nowhere \notin Paths
    /\ Reviews \intersect Listers = {}
    /\ Stored \subseteq Reviews
    /\ Mover \notin Reviews \union Listers
    /\ MaxFaults \in Nat

VARIABLES
    file,       \* the projectPath in each review file
    index,      \* the index file of each path
    cursor,     \* the paths with a cursor marker
    reconcile,  \* the paths with a reconciliation marker
    lock,       \* who holds each index lock, and how far its rewrite has come
    pc,
    seen,       \* what each lister looks at: the path and the entries to check
    pass,       \* the variables of the pass of rekeyProjectReviews
    faults,
    abandoned,  \* history: the reviews nobody will list any more
    unmerged    \* history: those whose reconciliation marker went before they were listed

vars == <<file, index, cursor, reconcile, lock, pc, seen, pass, faults, abandoned,
          unmerged>>

Actors == Reviews \union Listers \union {Mover}

(* An entry without metadata is bare: a listing reads the file for it. *)
Indexes == {i \in [ids : SUBSET Reviews, bare : SUBSET Reviews] : i.bare \subseteq i.ids}

Rewrites == [by : Actors, stage : {"clear", "write", "mark", "settle"},
             draft : Indexes \union {NoIndex}]

ASSUME AbsenceAssumption ==
    /\ NoIndex \notin Indexes
    /\ Free \notin Rewrites

Stages == {"idle", "adding", "invalidating", "marking", "saved", "failed", "crashed",
           "rebuilding", "reading", "pruning",
           "moving", "flagging", "publishing", "withdrawing", "excusing", "verifying",
           "clearing", "removing", "committing", "moved"}

Nothing == [path |-> From, ids |-> {}]
NoPass == [remaining |-> {}, claimed |-> {}, recovery |-> FALSE, failed |-> FALSE]

TypeOK ==
    /\ file \in [Reviews -> Paths \union {Nowhere}]
    /\ index \in [Paths -> Indexes \union {NoIndex}]
    /\ cursor \in SUBSET Paths
    /\ reconcile \in SUBSET Paths
    /\ lock \in [Paths -> Rewrites \union {Free}]
    /\ pc \in [Actors -> Stages]
    /\ seen \in [Listers -> [path : Paths, ids : SUBSET Reviews]]
    /\ pass \in [remaining : SUBSET Reviews, claimed : SUBSET Reviews,
                 recovery : BOOLEAN, failed : BOOLEAN]
    /\ faults \in Nat
    /\ abandoned \in SUBSET Reviews
    /\ unmerged \in SUBSET Reviews

(* An earlier run has left the index of each path certified, or none. *)
Init ==
    /\ file = [r \in Reviews |-> IF r \in Stored THEN Home[r] ELSE Nowhere]
    /\ cursor \in SUBSET Paths
    /\ index = [p \in Paths |->
                    IF p \in cursor THEN [ids |-> {r \in Stored : Home[r] = p}, bare |-> {}]
                    ELSE NoIndex]
    /\ reconcile = {}
    /\ lock = [p \in Paths |-> Free]
    /\ pc = [a \in Actors |-> IF a \in Stored THEN "saved" ELSE "idle"]
    /\ seen = [l \in Listers |-> Nothing]
    /\ pass = NoPass
    /\ faults = 0
    /\ abandoned = {}
    /\ unmerged = {}

-----------------------------------------------------------------------------
Owned(p) == {r \in Reviews : file[r] = p}

Certified(p) == p \in cursor /\ index[p] # NoIndex

(* needsBootstrap: the listing does not trust the index and scans the files. *)
Bootstraps(p) == p \in reconcile \/ ~Certified(p)

(* A listing of the review's project shows it. *)
Listed(r) == Bootstraps(file[r]) \/ r \in index[file[r]].ids

Bare(S) == [ids |-> S, bare |-> S]
Merged(base, S) == [ids |-> base.ids \union S, bare |-> base.bare \ S]

Without(base, S) == [ids |-> base.ids \ S, bare |-> base.bare \ S]

(* Mutant of Base: an index nobody certified is taken for an empty one. *)
BaseUnscanned(p) == IF Certified(p) THEN index[p] ELSE Bare({})

(* hasCertifiedBase, or scanForCertification. *)
Base(p) == IF Certified(p) THEN index[p] ELSE Bare(Owned(p))

(* The reviews a running save still answers for. *)
BeingSaved == {r \in Reviews : pc[r] \in {"adding", "invalidating", "marking"}}

(* A recovering pass publishes under the reconciliation marker. *)
Flagged == pass.recovery /\ ~pass.failed

(* The reviews a running pass has moved and still answers for. *)
InTransit ==
    IF \/ pc[Mover] \in {"moving", "flagging"}
       \/ pc[Mover] \in {"publishing", "withdrawing", "excusing"} /\ ~Flagged
    THEN pass.claimed ELSE {}

Abandon(S) == abandoned' = abandoned \union S /\ UNCHANGED unmerged

Drafted(p) == lock[p] # Free /\ lock[p].draft # NoIndex

(* The marker of p is removed: what the index, or what is about to replace it,
   does not name is listed no more, but for what its save will still add. *)
ClearReconcile(p) ==
    /\ reconcile' = reconcile \ {p}
    /\ unmerged' = unmerged \union
            {r \in Owned(p) \ {s \in BeingSaved : Home[s] = p} :
                /\ p \in reconcile
                /\ \/ index[p] # NoIndex /\ r \notin index[p].ids
                   \/ Drafted(p) /\ r \notin lock[p].draft.ids}
    /\ UNCHANGED abandoned

(* An actor goes on to its next stage, and forgets all when it is through. *)
Goto(a, stage) ==
    /\ pc' = [pc EXCEPT ![a] = stage]
    /\ seen' = [l \in Listers |-> IF l = a /\ stage = "idle" THEN Nothing ELSE seen[l]]
    /\ pass' = IF a = Mover /\ stage \in {"idle", "committing"} THEN NoPass ELSE pass

Stay == UNCHANGED <<pc, seen, pass>>

Fault == faults < MaxFaults /\ faults' = faults + 1

-----------------------------------------------------------------------------
(* Rewriting an index under its lock                                        *)

(* Where each rewrite is for, and where its actor goes when it has succeeded
   or failed: the callers of withProjectIndexLock. *)
PathOf(a) ==
    IF a \in Reviews THEN Home[a]
    ELSE IF a \in Listers THEN seen[a].path
    ELSE IF pc[Mover] = "removing" THEN From ELSE To

Succeeded(a) ==
    CASE pc[a] \in {"adding", "invalidating"} -> "saved"
      [] pc[a] = "publishing" /\ ~pass.failed ->
            IF pass.recovery THEN "verifying" ELSE "removing"
      [] pc[a] = "removing" -> "committing"
      [] OTHER -> "idle"

Failed(a) ==
    CASE pc[a] = "adding" -> "invalidating"
      [] pc[a] = "invalidating" -> "marking"
      [] pc[a] = "publishing" -> "withdrawing"
      [] pc[a] = "withdrawing" /\ ~Flagged -> "excusing"
      [] OTHER -> "idle"

Wanting == {"adding", "invalidating", "rebuilding", "pruning", "publishing",
            "withdrawing", "removing"}

Holds(a) == \E p \in Paths : lock[p] # Free /\ lock[p].by = a

Acquire(a, draft) ==
    /\ lock[PathOf(a)] = Free
    /\ lock' = [lock EXCEPT ![PathOf(a)] = [by |-> a, stage |-> "clear", draft |-> draft]]

(* The lock is not obtained in time, or certification cannot read a review. *)
NotBegun(a) ==
    /\ Fault
    /\ pc[a] \in Wanting
    /\ ~Holds(a)
    /\ Goto(a, Failed(a))
    /\ UNCHANGED <<file, index, cursor, reconcile, lock, abandoned, unmerged>>

At(p, stage) == lock[p] # Free /\ lock[p].stage = stage

Advance(p, stage) == lock' = [lock EXCEPT ![p].stage = stage]

Release(p) == lock' = [lock EXCEPT ![p] = Free]

ClearCursor(p) ==
    /\ At(p, "clear")
    /\ cursor' = cursor \ {p}
    /\ Advance(p, "write")
    /\ UNCHANGED <<file, index, reconcile, pc, seen, pass, faults, abandoned, unmerged>>

(* writeProjectIndex, or the unlink that ends an invalidation. *)
WriteIndex(p) ==
    /\ At(p, "write")
    /\ index' = [index EXCEPT ![p] = lock[p].draft]
    /\ IF lock[p].draft = NoIndex
       THEN Release(p) /\ Goto(lock[p].by, Succeeded(lock[p].by))
       ELSE Advance(p, "mark") /\ Stay
    /\ UNCHANGED <<file, cursor, reconcile, faults, abandoned, unmerged>>

MarkCursor(p) ==
    /\ At(p, "mark")
    /\ cursor' = cursor \union {p}
    /\ IF pc[lock[p].by] = "rebuilding"
       THEN Advance(p, "settle") /\ Stay
       ELSE Release(p) /\ Goto(lock[p].by, Succeeded(lock[p].by))
    /\ UNCHANGED <<file, index, reconcile, faults, abandoned, unmerged>>

(* clearReconcileMarker at the end of a full scan. *)
Settle(p) ==
    /\ At(p, "settle")
    /\ ClearReconcile(p)
    /\ Release(p)
    /\ Goto(lock[p].by, "idle")
    /\ UNCHANGED <<file, index, cursor, faults>>

(* An operation of the rewrite fails. A file that replaces another may be in
   place although the call failed. *)
RewriteFails(p) ==
    /\ Fault
    /\ lock[p] # Free
    /\ \/ At(p, "write") /\ index' = [index EXCEPT ![p] = lock[p].draft] /\ UNCHANGED cursor
       \/ At(p, "mark") /\ cursor' = cursor \union {p} /\ UNCHANGED index
       \/ UNCHANGED <<index, cursor>>
    /\ Release(p)
    /\ Goto(lock[p].by, Failed(lock[p].by))
    /\ UNCHANGED <<file, reconcile, abandoned, unmerged>>

-----------------------------------------------------------------------------
(* saveReview                                                               *)

WriteReview(r) ==
    /\ pc[r] = "idle"
    /\ file' = [file EXCEPT ![r] = Home[r]]
    /\ Goto(r, "adding")
    /\ UNCHANGED <<index, cursor, reconcile, lock, faults, abandoned, unmerged>>

(* The save fails, and says so; the file may be in place all the same. *)
SaveFails(r) ==
    /\ Fault
    /\ pc[r] = "idle"
    /\ \/ UNCHANGED file
       \/ file' = [file EXCEPT ![r] = Home[r]]
    /\ Goto(r, "failed")
    /\ UNCHANGED <<index, cursor, reconcile, lock, abandoned, unmerged>>

AddToProjectIndex(r) ==
    /\ pc[r] = "adding"
    /\ ~Holds(r)
    /\ Acquire(r, Merged(Base(Home[r]), {r}))
    /\ UNCHANGED <<file, index, cursor, reconcile, pc, seen, pass, faults, abandoned, unmerged>>

InvalidateProjectIndex(r) ==
    /\ pc[r] = "invalidating"
    /\ ~Holds(r)
    /\ Acquire(r, NoIndex)
    /\ UNCHANGED <<file, index, cursor, reconcile, pc, seen, pass, faults, abandoned, unmerged>>

MarkProjectReconcile(r) ==
    /\ pc[r] = "marking"
    /\ reconcile' = reconcile \union {Home[r]}
    /\ Goto(r, "saved")
    /\ UNCHANGED <<file, index, cursor, lock, faults, abandoned, unmerged>>

(* The last resort fails too; the save succeeds all the same. *)
MarkFails(r) ==
    /\ pc[r] = "marking"
    /\ Goto(r, "saved")
    /\ Abandon({r})
    /\ UNCHANGED <<file, index, cursor, reconcile, lock, faults>>

-----------------------------------------------------------------------------
(* listReviewPage                                                           *)

(* The index and both markers, read under the lock. *)
Look(l, p) ==
    /\ pc[l] = "idle"
    /\ lock[p] = Free
    /\ IF Bootstraps(p)
       THEN /\ pc' = [pc EXCEPT ![l] = "rebuilding"]
            /\ seen' = [seen EXCEPT ![l] = [path |-> p, ids |-> {}]]
       ELSE /\ index[p].bare # {}
            /\ pc' = [pc EXCEPT ![l] = "reading"]
            /\ seen' = [seen EXCEPT ![l] = [path |-> p, ids |-> index[p].bare]]
    /\ UNCHANGED <<file, index, cursor, reconcile, lock, pass, faults, abandoned, unmerged>>

(* listReviewsFromFullScan, when every review can be read. *)
Rebuild(l) ==
    /\ pc[l] = "rebuilding"
    /\ ~Holds(l)
    /\ Acquire(l, [ids |-> Owned(seen[l].path), bare |-> {}])
    /\ UNCHANGED <<file, index, cursor, reconcile, pc, seen, pass, faults, abandoned, unmerged>>

(* Some reviews cannot be read: the scan is merged into what is certified. *)
RebuildPartly(l, unread) ==
    /\ Fault
    /\ pc[l] = "rebuilding"
    /\ ~Holds(l)
    /\ unread # {}
    /\ Acquire(l, Merged(Base(seen[l].path), Owned(seen[l].path) \ unread))
    /\ UNCHANGED <<file, index, cursor, reconcile, pc, seen, pass, abandoned, unmerged>>

(* listIndexedReviewPage finds bare entries whose review is elsewhere. *)
ReadEntries(l) ==
    /\ pc[l] = "reading"
    /\ LET gone == seen[l].ids \ Owned(seen[l].path)
       IN  IF gone = {} THEN Goto(l, "idle")
           ELSE /\ seen' = [seen EXCEPT ![l].ids = gone]
                /\ pc' = [pc EXCEPT ![l] = "pruning"]
                /\ UNCHANGED pass
    /\ UNCHANGED <<file, index, cursor, reconcile, lock, faults, abandoned, unmerged>>

(* removeInvalidProjectIndexEntries; a missing index only loses its marker. *)
Prune(l) ==
    /\ pc[l] = "pruning"
    /\ ~Holds(l)
    /\ LET p == seen[l].path
       IN  IF index[p] # NoIndex /\ index[p].ids \intersect seen[l].ids = {}
           THEN lock[p] = Free /\ Goto(l, "idle") /\ UNCHANGED lock
           ELSE /\ Acquire(l, IF index[p] = NoIndex THEN NoIndex
                              ELSE Without(index[p], seen[l].ids))
                /\ Stay
    /\ UNCHANGED <<file, index, cursor, reconcile, faults, abandoned, unmerged>>

-----------------------------------------------------------------------------
(* rekeyProjectReviews                                                      *)

BeginPass ==
    /\ pc[Mover] = "idle"
    /\ pass' = [NoPass EXCEPT !.remaining =
                    IF Bootstraps(From) THEN Owned(From) ELSE index[From].ids]
    /\ pc' = [pc EXCEPT ![Mover] = "moving"]
    /\ UNCHANGED <<file, index, cursor, reconcile, lock, seen, faults, abandoned, unmerged>>

MoveReview(r) ==
    /\ pc[Mover] = "moving"
    /\ r \in pass.remaining
    /\ pass' = [pass EXCEPT
                    !.remaining = @ \ {r},
                    !.claimed = IF file[r] \in {From, To} THEN @ \union {r} ELSE @,
                    !.recovery = @ \/ file[r] = To]
    /\ file' = [file EXCEPT ![r] = IF @ = From THEN To ELSE @]
    /\ UNCHANGED <<index, cursor, reconcile, lock, pc, seen, faults, abandoned, unmerged>>

(* The review cannot be read or written; the write may have happened. *)
MoveFails(r) ==
    /\ Fault
    /\ pc[Mover] = "moving"
    /\ r \in pass.remaining
    /\ pass' = [pass EXCEPT !.remaining = {}, !.failed = TRUE]
    /\ \/ UNCHANGED <<file, abandoned, unmerged>>
       \/ file[r] = From /\ file' = [file EXCEPT ![r] = To] /\ Abandon({r})
    /\ UNCHANGED <<index, cursor, reconcile, lock, pc, seen>>

(* Mutant of Contains: any certified index will do. *)
ContainsWhatever(p, S) == Certified(p)

(* isCanonicalCursorIndexContaining *)
Contains(p, S) == Certified(p) /\ S \subseteq index[p].ids

(* From the loop to migrateProjectIndexFile, or to the return of a failed pass. *)
EndMoving ==
    /\ pc[Mover] = "moving"
    /\ pass.remaining = {}
    /\ Goto(Mover,
            IF pass.failed THEN (IF pass.claimed = {} THEN "idle" ELSE "publishing")
            ELSE IF pass.recovery
                 THEN (IF To \notin reconcile /\ Contains(To, pass.claimed)
                       THEN "removing" ELSE "flagging")
                 ELSE (IF pass.claimed = {} THEN "removing" ELSE "publishing"))
    /\ UNCHANGED <<file, index, cursor, reconcile, lock, faults, abandoned, unmerged>>

(* markProjectReconcile before a recovering pass publishes. *)
FlagDestination ==
    /\ pc[Mover] = "flagging"
    /\ reconcile' = reconcile \union {To}
    /\ Goto(Mover, "publishing")
    /\ UNCHANGED <<file, index, cursor, lock, faults, abandoned, unmerged>>

FlagFails ==
    /\ Fault
    /\ pc[Mover] = "flagging"
    /\ Goto(Mover, "idle")
    /\ Abandon(pass.claimed)
    /\ UNCHANGED <<file, index, cursor, reconcile, lock>>

(* publishRekeyedToDestination *)
Publish ==
    /\ pc[Mover] = "publishing"
    /\ ~Holds(Mover)
    /\ Acquire(Mover, Merged(Base(To), pass.claimed))
    /\ UNCHANGED <<file, index, cursor, reconcile, pc, seen, pass, faults, abandoned, unmerged>>

Withdraw ==
    /\ pc[Mover] = "withdrawing"
    /\ ~Holds(Mover)
    /\ Acquire(Mover, NoIndex)
    /\ UNCHANGED <<file, index, cursor, reconcile, pc, seen, pass, faults, abandoned, unmerged>>

(* markProjectReconcile when the destination could not be invalidated. *)
ExcuseDestination ==
    /\ pc[Mover] = "excusing"
    /\ reconcile' = reconcile \union {To}
    /\ Goto(Mover, "idle")
    /\ UNCHANGED <<file, index, cursor, lock, faults, abandoned, unmerged>>

ExcuseFails ==
    /\ pc[Mover] = "excusing"
    /\ Goto(Mover, "idle")
    /\ Abandon(pass.claimed)
    /\ UNCHANGED <<file, index, cursor, reconcile, lock, faults>>

(* A recovering pass checks that the destination names what it has claimed. *)
VerifyDestination ==
    /\ pc[Mover] = "verifying"
    /\ Goto(Mover, IF Contains(To, pass.claimed) THEN "clearing" ELSE "idle")
    /\ UNCHANGED <<file, index, cursor, reconcile, lock, faults, abandoned, unmerged>>

(* clearReconcileMarker, whoever has set the marker. *)
UnflagDestination ==
    /\ pc[Mover] = "clearing"
    /\ ClearReconcile(To)
    /\ Goto(Mover, "removing")
    /\ UNCHANGED <<file, index, cursor, lock, faults>>

UnflagFails ==
    /\ Fault
    /\ pc[Mover] = "clearing"
    /\ Goto(Mover, "idle")
    /\ UNCHANGED <<file, index, cursor, reconcile, lock, abandoned, unmerged>>

(* Mutant of RemoveSource: a source without an index counts as a failure. *)
RemovePresentSource ==
    /\ pc[Mover] = "removing"
    /\ ~Holds(Mover)
    /\ IF index[From] = NoIndex
       THEN Goto(Mover, "idle") /\ UNCHANGED lock
       ELSE Acquire(Mover, NoIndex) /\ Stay
    /\ UNCHANGED <<file, index, cursor, reconcile, faults, abandoned, unmerged>>

(* removeMigratedSourceIndex *)
RemoveSource ==
    /\ pc[Mover] = "removing"
    /\ ~Holds(Mover)
    /\ Acquire(Mover, NoIndex)
    /\ UNCHANGED <<file, index, cursor, reconcile, pc, seen, pass, faults, abandoned, unmerged>>

(* project.json names the new root: the move is not tried again. *)
CommitRoot ==
    /\ pc[Mover] = "committing"
    /\ Goto(Mover, "moved")
    /\ UNCHANGED <<file, index, cursor, reconcile, lock, faults, abandoned, unmerged>>

-----------------------------------------------------------------------------
(* The server dies and is started again: the files remain. *)
Crash ==
    /\ Fault
    /\ Abandon(BeingSaved \union InTransit)
    /\ lock' = [p \in Paths |-> Free]
    /\ pc' = [a \in Actors |->
                CASE a \in BeingSaved -> "crashed"
                  [] a \in Reviews \ BeingSaved \/ pc[a] = "moved" -> pc[a]
                  [] OTHER -> "idle"]
    /\ seen' = [l \in Listers |-> Nothing]
    /\ pass' = NoPass
    /\ UNCHANGED <<file, index, cursor, reconcile>>

SaveStep(r) == AddToProjectIndex(r) \/ InvalidateProjectIndex(r) \/ MarkProjectReconcile(r)

ListStep(l) == Rebuild(l) \/ ReadEntries(l) \/ Prune(l)

MoveStep ==
    \/ BeginPass \/ EndMoving \/ FlagDestination \/ ExcuseDestination
    \/ VerifyDestination \/ UnflagDestination \/ CommitRoot
    \/ \E r \in Reviews : MoveReview(r)

RewriteStep(p) == ClearCursor(p) \/ WriteIndex(p) \/ MarkCursor(p) \/ Settle(p)

Failure ==
    \/ \E r \in Reviews : SaveFails(r) \/ MarkFails(r) \/ MoveFails(r)
    \/ \E l \in Listers, unread \in SUBSET Reviews : RebuildPartly(l, unread)
    \/ FlagFails \/ UnflagFails \/ ExcuseFails
    \/ \E p \in Paths : RewriteFails(p)
    \/ \E a \in Actors : NotBegun(a)
    \/ Crash

Next ==
    \/ \E r \in Reviews : WriteReview(r) \/ SaveStep(r)
    \/ \E l \in Listers : ListStep(l) \/ \E p \in Paths : Look(l, p)
    \/ MoveStep \/ Publish \/ Withdraw \/ RemoveSource
    \/ \E p \in Paths : RewriteStep(p)
    \/ Failure

Spec == Init /\ [][Next]_vars

(* Promises are resumed and the lock queue is served in order; the project is
   opened again after a move that failed. Failures are never assumed. *)
Fairness ==
    /\ \A r \in Reviews : WF_vars(SaveStep(r))
    /\ \A l \in Listers : WF_vars(ListStep(l))
    /\ \A p \in Paths : WF_vars(RewriteStep(p))
    /\ WF_vars(MoveStep)
    /\ SF_vars(Publish) /\ SF_vars(Withdraw) /\ SF_vars(RemoveSource)

FairSpec == Spec /\ Fairness

-----------------------------------------------------------------------------
(* A saved review is shown by the listings of its project, whatever fails,
   unless it was abandoned, for the server died or every way of remembering it
   failed, or the reconciliation marker set for it was removed before it was
   merged: by a scan that had begun earlier, or by a pass that never scanned. *)
HiddenOnlyIfAbandoned ==
    \A r \in Reviews :
        pc[r] = "saved" /\ r \notin abandoned \union unmerged \union InTransit => Listed(r)

(* A recovering pass hides no saved review when it removes the marker of the
   destination: "the marker makes writeCursorProjectIndex rebuild the
   destination from a full scan" (rekey.ts), and a save that could not be
   indexed sets it "so the next listing merges it back in" (reviews.ts). *)
PassMergesMarked ==
    [][pc[Mover] = "clearing" /\ pc'[Mover] # "clearing"
        => \A r \in Reviews : pc[r] = "saved" /\ Listed(r) => Listed(r)']_vars

(* The index of the old path is only removed once listings of the new path
   show every review the pass has claimed, so that a pass that was interrupted
   can be repeated (rekey.ts). *)
SourceOutlivesPass ==
    [][index[From] # NoIndex /\ index'[From] = NoIndex /\ lock[From].by = Mover
        => \A r \in pass.claimed : file[r] = To /\ Listed(r)]_vars

(* Between two passes, a review that was moved and that its new project does
   not list is in the index of the old path, where the next pass finds it: "an
   interrupted move always leaves a durable retry set behind" (rekey.ts). *)
RetrySetRemains ==
    pc[Mover] = "idle" =>
        \A r \in Reviews :
            Home[r] = From /\ file[r] = To /\ ~Listed(r)
                => ~Bootstraps(From) /\ r \in index[From].ids

(* A move that is tried again until it succeeds does succeed, once operations
   stop failing and nobody lists: no pass leaves behind what no later pass can
   get past. While listings go on a recovering pass may never succeed, for it
   reads the index outside the lock while they rewrite it. *)
MoveCompletes ==
    <>[](\A l \in Listers : pc[l] = "idle") => <>(pc[Mover] = "moved")
=============================================================================

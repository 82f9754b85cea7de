-------------------------- MODULE FileLockProofs --------------------------
(***************************************************************************)
(* Proofs about FileLock, for any number of contenders.                    *)
(***************************************************************************)
EXTENDS FileLock, TLAPS

LEMMA LockInvInit == Init => LockInv
BY FileLockAssumption DEF Init, LockInv, TypeOK, Stages, NothingLeftBehind,
                          StageInv, Holds, Prompt

(* Sweeping takes away what dead or stalled contenders have staged; a staging
   directory of one's own is complete unless it was swept. *)
LEMMA PreparePreserves ==
    ASSUME LockInv, NEW c \in Contenders, Prepare(c)
    PROVE  LockInv'
<1>. USE FileLockAssumption DEF Goto, Stages
<1>1. ASSUME NEW d \in Contenders, FindStaleStaging(c, d) PROVE LockInv'
  <2>1. TypeOK'
    BY <1>1 DEF LockInv, TypeOK, FindStaleStaging, StaleStaging
  <2>2. NothingLeftBehind'
    BY <1>1 DEF LockInv, TypeOK, NothingLeftBehind, StageInv, FindStaleStaging, StaleStaging
  <2>3. ASSUME NEW x \in Contenders PROVE StageInv(x)'
    BY <1>1 DEF LockInv, TypeOK, StageInv, Holds, Prompt, FindStaleStaging, StaleStaging
  <2>. QED BY <2>1, <2>2, <2>3 DEF LockInv
<1>2. CASE SweepMarker(c)
  <2>1. TypeOK'
    BY <1>2 DEF LockInv, TypeOK, SweepMarker
  <2>2. NothingLeftBehind'
    BY <1>2 DEF LockInv, TypeOK, NothingLeftBehind, StageInv, SweepMarker
  <2>3. ASSUME NEW x \in Contenders PROVE StageInv(x)'
    BY <1>2 DEF LockInv, TypeOK, StageInv, Holds, Prompt, SweepMarker
  <2>. QED BY <2>1, <2>2, <2>3 DEF LockInv
<1>3. CASE SweepDirectory(c)
  <2>1. TypeOK'
    BY <1>3 DEF LockInv, TypeOK, SweepDirectory
  <2>2. NothingLeftBehind'
    BY <1>3 DEF LockInv, TypeOK, NothingLeftBehind, StageInv, SweepDirectory
  <2>3. ASSUME NEW x \in Contenders PROVE StageInv(x)'
    BY <1>3 DEF LockInv, TypeOK, StageInv, Holds, Prompt, SweepDirectory
  <2>. QED BY <2>1, <2>2, <2>3 DEF LockInv
<1>4. CASE MakeStaging(c)
  <2>1. TypeOK'
    BY <1>4 DEF LockInv, TypeOK, MakeStaging
  <2>2. NothingLeftBehind'
    BY <1>4 DEF LockInv, TypeOK, NothingLeftBehind, StageInv, MakeStaging
  <2>3. ASSUME NEW x \in Contenders PROVE StageInv(x)'
    BY <1>4 DEF LockInv, TypeOK, StageInv, Holds, Prompt, MakeStaging
  <2>. QED BY <2>1, <2>2, <2>3 DEF LockInv
<1>5. CASE WriteMarker(c)
  <2>1. TypeOK'
    BY <1>5 DEF LockInv, TypeOK, WriteMarker
  <2>2. NothingLeftBehind'
    BY <1>5 DEF LockInv, TypeOK, NothingLeftBehind, StageInv, WriteMarker
  <2>3. ASSUME NEW x \in Contenders PROVE StageInv(x)'
    BY <1>5 DEF LockInv, TypeOK, StageInv, Holds, Prompt, WriteMarker
  <2>. QED BY <2>1, <2>2, <2>3 DEF LockInv
<1>6. CASE SweepFails(c)
  <2>1. TypeOK'
    BY <1>6 DEF LockInv, TypeOK, SweepFails
  <2>2. NothingLeftBehind'
    BY <1>6 DEF LockInv, TypeOK, NothingLeftBehind, StageInv, SweepFails
  <2>3. ASSUME NEW x \in Contenders PROVE StageInv(x)'
    BY <1>6 DEF LockInv, TypeOK, StageInv, Holds, Prompt, SweepFails
  <2>. QED BY <2>1, <2>2, <2>3 DEF LockInv
<1>. QED BY <1>1, <1>2, <1>3, <1>4, <1>5, <1>6 DEF Prepare

(* A marker appears where there was none, and goes only by its name. *)
LEMMA AcquirePreserves ==
    ASSUME LockInv, NEW c \in Contenders, Acquire(c)
    PROVE  LockInv'
<1>. USE FileLockAssumption DEF Goto, Stages
<1>1. CASE Publish(c)
  <2>1. TypeOK'
    BY <1>1 DEF LockInv, TypeOK, Publish
  <2>2. NothingLeftBehind'
    BY <1>1 DEF LockInv, TypeOK, NothingLeftBehind, StageInv, Publish
  <2>3. ASSUME NEW x \in Contenders PROVE StageInv(x)'
    BY <1>1 DEF LockInv, TypeOK, StageInv, Holds, Prompt, Publish
  <2>. QED BY <2>1, <2>2, <2>3 DEF LockInv
<1>2. CASE PublishConflicts(c)
  <2>1. TypeOK'
    BY <1>2 DEF LockInv, TypeOK, PublishConflicts
  <2>2. NothingLeftBehind'
    BY <1>2 DEF LockInv, TypeOK, NothingLeftBehind, StageInv, PublishConflicts
  <2>3. ASSUME NEW x \in Contenders PROVE StageInv(x)'
    BY <1>2 DEF LockInv, TypeOK, StageInv, Holds, Prompt, PublishConflicts
  <2>. QED BY <2>1, <2>2, <2>3 DEF LockInv
<1>3. CASE FindStale(c)
  <2>1. TypeOK'
    BY <1>3 DEF LockInv, TypeOK, FindStale, StaleLock
  <2>2. NothingLeftBehind'
    BY <1>3 DEF LockInv, TypeOK, NothingLeftBehind, StageInv, FindStale, StaleLock
  <2>3. ASSUME NEW x \in Contenders PROVE StageInv(x)'
    BY <1>3 DEF LockInv, TypeOK, StageInv, Holds, Prompt, FindStale, StaleLock
  <2>. QED BY <2>1, <2>2, <2>3 DEF LockInv
<1>4. CASE FindHeld(c)
  <2>1. TypeOK'
    BY <1>4 DEF LockInv, TypeOK, FindHeld
  <2>2. NothingLeftBehind'
    BY <1>4 DEF LockInv, TypeOK, NothingLeftBehind, StageInv, FindHeld
  <2>3. ASSUME NEW x \in Contenders PROVE StageInv(x)'
    BY <1>4 DEF LockInv, TypeOK, StageInv, Holds, Prompt, FindHeld
  <2>. QED BY <2>1, <2>2, <2>3 DEF LockInv
<1>5. CASE RemoveMarker(c)
  <2>1. TypeOK'
    BY <1>5 DEF LockInv, TypeOK, RemoveMarker
  <2>2. NothingLeftBehind'
    BY <1>5 DEF LockInv, TypeOK, NothingLeftBehind, StageInv, RemoveMarker
  <2>3. ASSUME NEW x \in Contenders PROVE StageInv(x)'
    BY <1>5 DEF LockInv, TypeOK, StageInv, Holds, Prompt, RemoveMarker
  <2>. QED BY <2>1, <2>2, <2>3 DEF LockInv
<1>6. CASE RemoveDirectory(c)
  <2>1. TypeOK'
    BY <1>6 DEF LockInv, TypeOK, RemoveDirectory
  <2>2. NothingLeftBehind'
    BY <1>6 DEF LockInv, TypeOK, NothingLeftBehind, StageInv, RemoveDirectory
  <2>3. ASSUME NEW x \in Contenders PROVE StageInv(x)'
    BY <1>6 DEF LockInv, TypeOK, StageInv, Holds, Prompt, RemoveDirectory
  <2>. QED BY <2>1, <2>2, <2>3 DEF LockInv
<1>7. CASE Wait(c)
  <2>1. TypeOK'
    BY <1>7 DEF LockInv, TypeOK, Wait
  <2>2. NothingLeftBehind'
    BY <1>7 DEF LockInv, TypeOK, NothingLeftBehind, StageInv, Wait
  <2>3. ASSUME NEW x \in Contenders PROVE StageInv(x)'
    BY <1>7 DEF LockInv, TypeOK, StageInv, Holds, Prompt, Wait
  <2>. QED BY <2>1, <2>2, <2>3 DEF LockInv
<1>8. CASE GiveUp(c)
  <2>1. PICK from \in {"prepare", "publish", "observe", "recover", "recoverDirectory",
                        "wait"} : Fail(c, from)
    BY <1>8 DEF GiveUp
  <2>2. /\ pc[c] = from /\ pc' = [pc EXCEPT ![c] = "ended"]
        /\ UNCHANGED <<lock, observed, dead, aged, stalled, unreleased>>
    BY <2>1 DEF Fail
  <2>3. /\ \A x \in Contenders \ {c} : staging'[x] = staging[x]
        /\ staging' \in [Contenders -> {"absent", "bare", "ready", "hollow"}]
        /\ unswept \subseteq unswept' /\ unswept' \subseteq Contenders
        /\ staging'[c] # "absent" => c \in unswept'
    BY <2>1 DEF Fail, StagingStays, LockInv, TypeOK
  <2>4. TypeOK'
    BY <2>2, <2>3 DEF LockInv, TypeOK
  <2>5. NothingLeftBehind'
    BY <2>2, <2>3 DEF LockInv, TypeOK, NothingLeftBehind, StageInv
  <2>6. ASSUME NEW x \in Contenders PROVE StageInv(x)'
    BY <2>2, <2>3 DEF LockInv, TypeOK, StageInv, Holds, Prompt
  <2>. QED BY <2>4, <2>5, <2>6 DEF LockInv
<1>9. CASE Sync(c)
  <2>1. TypeOK'
    BY <1>9 DEF LockInv, TypeOK, Sync
  <2>2. NothingLeftBehind'
    BY <1>9 DEF LockInv, TypeOK, NothingLeftBehind, StageInv, Sync
  <2>3. ASSUME NEW x \in Contenders PROVE StageInv(x)'
    BY <1>9 DEF LockInv, TypeOK, StageInv, Holds, Prompt, Sync
  <2>. QED BY <2>1, <2>2, <2>3 DEF LockInv
<1>10. CASE CleanupFails(c)
  <2>1. TypeOK'
    BY <1>10 DEF LockInv, TypeOK, CleanupFails
  <2>2. NothingLeftBehind'
    BY <1>10 DEF LockInv, TypeOK, NothingLeftBehind, StageInv, CleanupFails
  <2>3. ASSUME NEW x \in Contenders PROVE StageInv(x)'
    BY <1>10 DEF LockInv, TypeOK, StageInv, Holds, Prompt, CleanupFails
  <2>. QED BY <2>1, <2>2, <2>3 DEF LockInv
<1>. QED BY <1>1, <1>2, <1>3, <1>4, <1>5, <1>6, <1>7, <1>8, <1>9, <1>10 DEF Acquire

(* An owner gives back its own marker, if it still has one. *)
LEMMA GiveBackPreserves ==
    ASSUME LockInv, NEW c \in Contenders, GiveBack(c)
    PROVE  LockInv'
<1>. USE FileLockAssumption DEF Goto, Stages
<1>1. CASE Finish(c)
  <2>1. TypeOK'
    BY <1>1 DEF LockInv, TypeOK, Finish
  <2>2. NothingLeftBehind'
    BY <1>1 DEF LockInv, TypeOK, NothingLeftBehind, StageInv, Finish
  <2>3. ASSUME NEW x \in Contenders PROVE StageInv(x)'
    BY <1>1 DEF LockInv, TypeOK, StageInv, Holds, Prompt, Finish
  <2>. QED BY <2>1, <2>2, <2>3 DEF LockInv
<1>2. CASE Release(c)
  <2>1. TypeOK'
    BY <1>2 DEF LockInv, TypeOK, Release
  <2>2. NothingLeftBehind'
    BY <1>2 DEF LockInv, TypeOK, NothingLeftBehind, StageInv, Release
  <2>3. ASSUME NEW x \in Contenders PROVE StageInv(x)'
    BY <1>2 DEF LockInv, TypeOK, StageInv, Holds, Prompt, Release
  <2>. QED BY <2>1, <2>2, <2>3 DEF LockInv
<1>3. CASE ReleaseDirectory(c)
  <2>1. TypeOK'
    BY <1>3 DEF LockInv, TypeOK, ReleaseDirectory
  <2>2. NothingLeftBehind'
    BY <1>3 DEF LockInv, TypeOK, NothingLeftBehind, StageInv, ReleaseDirectory
  <2>3. ASSUME NEW x \in Contenders PROVE StageInv(x)'
    BY <1>3 DEF LockInv, TypeOK, StageInv, Holds, Prompt, ReleaseDirectory
  <2>. QED BY <2>1, <2>2, <2>3 DEF LockInv
<1>4. CASE ReleaseFails(c)
  <2>1. TypeOK'
    BY <1>4 DEF LockInv, TypeOK, ReleaseFails
  <2>2. NothingLeftBehind'
    BY <1>4 DEF LockInv, TypeOK, NothingLeftBehind, StageInv, ReleaseFails
  <2>3. ASSUME NEW x \in Contenders PROVE StageInv(x)'
    BY <1>4 DEF LockInv, TypeOK, StageInv, Holds, Prompt, ReleaseFails
  <2>. QED BY <2>1, <2>2, <2>3 DEF LockInv
<1>. QED BY <1>1, <1>2, <1>3, <1>4 DEF GiveBack

(* The dead, the old and the stalled only become more. *)
LEMMA EnvironmentPreserves ==
    ASSUME LockInv, NEW c \in Contenders, Environment(c)
    PROVE  LockInv'
<1>. USE FileLockAssumption DEF Goto, Stages
<1>1. CASE Crash(c)
  <2>1. TypeOK'
    BY <1>1 DEF LockInv, TypeOK, Crash
  <2>2. NothingLeftBehind'
    BY <1>1 DEF LockInv, TypeOK, NothingLeftBehind, StageInv, Crash
  <2>3. ASSUME NEW x \in Contenders PROVE StageInv(x)'
    BY <1>1 DEF LockInv, TypeOK, StageInv, Holds, Prompt, Crash
  <2>. QED BY <2>1, <2>2, <2>3 DEF LockInv
<1>2. CASE Age(c)
  <2>1. TypeOK'
    BY <1>2 DEF LockInv, TypeOK, Age
  <2>2. NothingLeftBehind'
    BY <1>2 DEF LockInv, TypeOK, NothingLeftBehind, StageInv, Age
  <2>3. ASSUME NEW x \in Contenders PROVE StageInv(x)'
    BY <1>2 DEF LockInv, TypeOK, StageInv, Holds, Prompt, Age
  <2>. QED BY <2>1, <2>2, <2>3 DEF LockInv
<1>3. CASE Stall(c)
  <2>1. TypeOK'
    BY <1>3 DEF LockInv, TypeOK, Stall
  <2>2. NothingLeftBehind'
    BY <1>3 DEF LockInv, TypeOK, NothingLeftBehind, StageInv, Stall
  <2>3. ASSUME NEW x \in Contenders PROVE StageInv(x)'
    BY <1>3 DEF LockInv, TypeOK, StageInv, Holds, Prompt, Stall
  <2>. QED BY <2>1, <2>2, <2>3 DEF LockInv
<1>. QED BY <1>1, <1>2, <1>3 DEF Environment

LEMMA LockInvNext == LockInv /\ [Next]_vars => LockInv'
<1>. SUFFICES ASSUME LockInv, [Next]_vars PROVE LockInv'
  OBVIOUS
<1>1. CASE Next
  BY <1>1, PreparePreserves, AcquirePreserves, GiveBackPreserves,
     EnvironmentPreserves DEF Next
<1>2. CASE UNCHANGED vars
  BY <1>2 DEF vars, LockInv, TypeOK, NothingLeftBehind, StageInv, Holds, Prompt
<1>. QED BY <1>1, <1>2

(* At every stage of every contender: what an owner finds under its name, what a
   recovery relies on, and what is staged. *)
THEOREM LockInvHolds == Spec => []LockInv
BY LockInvInit, LockInvNext, PTL DEF Spec

THEOREM TypeCorrectness == Spec => []TypeOK
<1>1. LockInv => TypeOK
  BY DEF LockInv
<1>. QED BY <1>1, LockInvHolds, PTL

(* Transactions that stay below staleMs exclude one another, for any number of
   contenders and whoever crashes. *)
THEOREM PromptHoldersExclude == Spec => []MutualExclusion
<1>1. LockInv => MutualExclusion
  BY DEF LockInv, StageInv, MutualExclusion
<1>. QED BY <1>1, LockInvHolds, PTL

(* A contender that is through leaves nothing behind that it could remove: what
   stays is what a removal of its own has failed on. *)
THEOREM EndedLeavesNothing == Spec => []NothingLeftBehind
<1>1. LockInv => NothingLeftBehind
  BY DEF LockInv
<1>. QED BY <1>1, LockInvHolds, PTL

(* A recovery removes the marker it has judged and no other. *)
THEOREM OnlyStaleMarkersRemoved == Spec => LiveMarkerStays
<1>1. LockInv /\ [Next]_vars =>
        [\A c \in Contenders :
            lock = c /\ lock' # c => c \in dead \union aged \/ pc[c] = "release"]_vars
  <2>. SUFFICES ASSUME LockInv, Next, NEW x \in Contenders, lock = x, lock' # x
                PROVE  x \in dead \union aged \/ pc[x] = "release"
    OBVIOUS
  <2>1. PICK c \in Contenders :
            Prepare(c) \/ Acquire(c) \/ GiveBack(c) \/ Environment(c)
    BY DEF Next
  <2>2. Publish(c) \/ RemoveMarker(c) \/ RemoveDirectory(c) \/ Release(c)
            \/ ReleaseDirectory(c)
    BY <2>1 DEF Prepare, Acquire, GiveBack, Environment, FindStaleStaging, SweepMarker,
            SweepDirectory, SweepFails, MakeStaging, WriteMarker, PublishConflicts,
            FindStale, FindHeld, Wait, GiveUp, Fail, Sync, CleanupFails, Finish,
            ReleaseFails, Crash, Age, Stall
  <2>3. x # Absent /\ x # Empty
    BY FileLockAssumption
  <2>4. RemoveMarker(c) \/ Release(c)
    BY <2>2, <2>3 DEF Publish, RemoveDirectory, ReleaseDirectory
  <2>5. CASE RemoveMarker(c)
    BY <2>5 DEF RemoveMarker, Goto, LockInv, StageInv
  <2>6. CASE Release(c)
    BY <2>6 DEF Release, Goto
  <2>. QED BY <2>4, <2>5, <2>6
<1>. QED BY <1>1, LockInvHolds, PTL DEF Spec, LiveMarkerStays
=============================================================================

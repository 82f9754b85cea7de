------------------------------ MODULE FileLock ------------------------------
(***************************************************************************)
(* The lock of a document between processes, a directory on the disk.      *)
(*                                                                         *)
(*   cli/server/src/shared/lib/config/transaction/file-lock.ts             *)
(*                                                                         *)
(* A contender prepares a directory of its own that holds its marker, and  *)
(* publishes it by renaming it to the lock's path, which succeeds if there *)
(* is nothing or an empty directory. Whoever finds another's lock judges   *)
(* whether it is stale and, if so, removes that marker by its name and     *)
(* then the directory, which only goes if it is empty.                     *)
(*                                                                         *)
(* A contender is one call of withFileTransactionLock: its ownerId is      *)
(* fresh. Time is what the code compares with staleMs: the age of a marker *)
(* (createdAt) and of a prepared directory (mtime).                        *)
(***************************************************************************)
EXTENDS Naturals

CONSTANTS
    Contenders,
    Absent,       \* nothing at the lock's path, or at that of a staging directory
    Empty         \* a directory without a marker

ASSUME FileLockAssumption ==
    /\ Absent \notin Contenders
    /\ Empty \notin Contenders
    /\ Absent # Empty

VARIABLES
    lock,         \* lockPath: Absent, Empty, or whose marker is in it
    staging,      \* stagingPath of each contender
    pc,           \* where each contender stands
    observed,     \* the lock, or the staging directory, it has found stale
    dead,         \* contenders whose process is gone
    aged,         \* markers older than staleMs
    stalled,      \* unfinished staging directories older than staleMs
    unswept,      \* contenders that could not remove what they had staged
    unreleased    \* contenders that were left holding the lock by a failed removal

vars == <<lock, staging, pc, observed, dead, aged, stalled, unswept, unreleased>>

Stages == {"sweep", "sweepMarker", "sweepDirectory", "prepare", "publish", "observe",
           "recover", "recoverDirectory", "wait", "sync", "operate", "release",
           "releaseDirectory", "ended"}

TypeOK ==
    /\ lock \in Contenders \union {Absent, Empty}
    /\ staging \in [Contenders -> {"absent", "bare", "ready", "hollow"}]
    /\ pc \in [Contenders -> Stages]
    /\ observed \in [Contenders -> Contenders \union {Absent, Empty}]
    /\ dead \in SUBSET Contenders
    /\ aged \in SUBSET Contenders
    /\ stalled \in SUBSET Contenders
    /\ unswept \in SUBSET Contenders
    /\ unreleased \in SUBSET Contenders

Init ==
    /\ lock = Absent
    /\ staging = [c \in Contenders |-> "absent"]
    /\ pc = [c \in Contenders |-> "sweep"]
    /\ observed = [c \in Contenders |-> Absent]
    /\ dead = {}
    /\ aged = {}
    /\ stalled = {}
    /\ unswept = {}
    /\ unreleased = {}

-----------------------------------------------------------------------------
Goto(c, from, to) ==
    /\ c \notin dead
    /\ pc[c] = from
    /\ pc' = [pc EXCEPT ![c] = to]

(* The recursive removal of what was staged throws: all of it is left, or an
   emptied directory. *)
StagingStays(c) ==
    /\ staging[c] # "absent"
    /\ staging' \in {staging, [staging EXCEPT ![c] = "hollow"]}
    /\ unswept' = unswept \union {c}

(* The finally of acquireFileLock, and the catch of prepareFileLock, remove what
   was staged, if they can. *)
Fail(c, from) ==
    /\ Goto(c, from, "ended")
    /\ \/ staging' = [staging EXCEPT ![c] = "absent"] /\ UNCHANGED unswept
       \/ StagingStays(c)
    /\ UNCHANGED <<lock, observed, dead, aged, stalled, unreleased>>

-----------------------------------------------------------------------------
(* removeStaleStagingDirectories: what dead processes left, and what cannot be
   read and is old                                                          *)

StaleStaging(d) ==
    \/ staging[d] = "ready" /\ d \in dead
    \/ staging[d] \in {"bare", "hollow"} /\ d \in stalled

FindStaleStaging(c, d) ==
    /\ StaleStaging(d)
    /\ Goto(c, "sweep", "sweepMarker")
    /\ observed' = [observed EXCEPT ![c] = d]
    /\ UNCHANGED <<lock, staging, dead, aged, stalled, unswept, unreleased>>

(* The recursive removal empties the directory first. *)
SweepMarker(c) ==
    /\ Goto(c, "sweepMarker", "sweepDirectory")
    /\ LET d == observed[c] IN
        staging' = IF staging[d] = "absent" THEN staging
                   ELSE [staging EXCEPT ![d] = "hollow"]
    /\ UNCHANGED <<lock, observed, dead, aged, stalled, unswept, unreleased>>

SweepDirectory(c) ==
    /\ pc[c] = "sweepDirectory"
    /\ LET d == observed[c] IN
        \/ /\ staging[d] = "ready"
           /\ Goto(c, "sweepDirectory", "sweepMarker")
           /\ UNCHANGED <<staging, observed>>
        \/ /\ staging[d] # "ready"
           /\ Goto(c, "sweepDirectory", "sweep")
           /\ staging' = [staging EXCEPT ![d] = "absent"]
           /\ observed' = [observed EXCEPT ![c] = Absent]
    /\ UNCHANGED <<lock, dead, aged, stalled, unswept, unreleased>>

(* A file operation of the sweep throws, before anything is staged. *)
SweepFails(c) ==
    /\ \E from \in {"sweep", "sweepMarker", "sweepDirectory"} : Goto(c, from, "ended")
    /\ UNCHANGED <<lock, staging, observed, dead, aged, stalled, unswept, unreleased>>

-----------------------------------------------------------------------------
(* prepareFileLock                                                          *)

MakeStaging(c) ==
    /\ Goto(c, "sweep", "prepare")
    /\ staging' = [staging EXCEPT ![c] = "bare"]
    /\ UNCHANGED <<lock, observed, dead, aged, stalled, unswept, unreleased>>

(* If the directory was emptied meanwhile, the marker may be lost or be created
   after that; if it is gone, preparing fails. *)
WriteMarker(c) ==
    /\ staging[c] # "absent"
    /\ Goto(c, "prepare", "publish")
    /\ \E s \in {"ready", "hollow"} :
        /\ s = "hollow" => staging[c] = "hollow"
        /\ staging' = [staging EXCEPT ![c] = s]
    /\ UNCHANGED <<lock, observed, dead, aged, stalled, unswept, unreleased>>

-----------------------------------------------------------------------------
(* acquireFileLock                                                          *)

(* The rename. Onto an empty directory it succeeds, or not, as the platform has
   it. *)
Publish(c) ==
    /\ staging[c] # "absent"
    /\ lock \in {Absent, Empty}
    /\ Goto(c, "publish", "sync")
    /\ lock' = IF staging[c] = "ready" THEN c ELSE Empty
    /\ staging' = [staging EXCEPT ![c] = "absent"]
    /\ UNCHANGED <<observed, dead, aged, stalled, unswept, unreleased>>

PublishConflicts(c) ==
    /\ staging[c] # "absent"
    /\ lock # Absent
    /\ Goto(c, "publish", "observe")
    /\ UNCHANGED <<lock, staging, observed, dead, aged, stalled, unswept, unreleased>>

(* isStaleLock. The process of a dead owner may look alive, because another one
   has its pid; see Wait. *)
StaleLock == lock = Empty \/ lock \in aged \/ lock \in dead

FindStale(c) ==
    /\ StaleLock
    /\ Goto(c, "observe", IF lock = Empty THEN "recoverDirectory" ELSE "recover")
    /\ observed' = [observed EXCEPT ![c] = lock]
    /\ UNCHANGED <<lock, staging, dead, aged, stalled, unswept, unreleased>>

FindHeld(c) ==
    /\ lock # Empty /\ lock \notin aged
    /\ Goto(c, "observe", "wait")
    /\ UNCHANGED <<lock, staging, observed, dead, aged, stalled, unswept, unreleased>>

(* Mutant of RemoveMarker: the marker that is there now is removed, not the one
   that was judged. *)
RemoveMarkerByPath(c) ==
    /\ \/ /\ lock \notin {Absent, Empty}
          /\ Goto(c, "recover", "recoverDirectory")
          /\ lock' = Empty
       \/ /\ lock \in {Absent, Empty}
          /\ Goto(c, "recover", "wait")
          /\ UNCHANGED lock
    /\ UNCHANGED <<staging, observed, dead, aged, stalled, unswept, unreleased>>

(* recoverObservedLock *)
RemoveMarker(c) ==
    /\ \/ /\ lock = observed[c]
          /\ Goto(c, "recover", "recoverDirectory")
          /\ lock' = Empty
       \/ /\ lock # observed[c]
          /\ Goto(c, "recover", "wait")
          /\ UNCHANGED lock
    /\ UNCHANGED <<staging, observed, dead, aged, stalled, unswept, unreleased>>

(* Mutant of RemoveDirectory: the directory goes with what is in it. *)
RemoveDirectoryRecursively(c) ==
    /\ Goto(c, "recoverDirectory", "publish")
    /\ lock' = Absent
    /\ observed' = [observed EXCEPT ![c] = Absent]
    /\ UNCHANGED <<staging, dead, aged, stalled, unswept, unreleased>>

(* removeEmptyLockDirectory *)
RemoveDirectory(c) ==
    /\ \/ /\ lock = Empty
          /\ Goto(c, "recoverDirectory", "publish")
          /\ lock' = Absent
       \/ /\ lock # Empty
          /\ Goto(c, "recoverDirectory", "wait")
          /\ UNCHANGED lock
    /\ observed' = [observed EXCEPT ![c] = Absent]
    /\ UNCHANGED <<staging, dead, aged, stalled, unswept, unreleased>>

Wait(c) ==
    /\ Goto(c, "wait", "publish")
    /\ observed' = [observed EXCEPT ![c] = Absent]
    /\ UNCHANGED <<lock, staging, dead, aged, stalled, unswept, unreleased>>

(* Mutant of GiveUp: the staged directory stays. *)
GiveUpDirty(c) ==
    /\ \E from \in {"prepare", "publish", "observe", "recover", "recoverDirectory",
                     "wait"} : Goto(c, from, "ended")
    /\ UNCHANGED <<lock, staging, observed, dead, aged, stalled, unswept, unreleased>>

(* The deadline has passed, or a file operation throws. *)
GiveUp(c) ==
    \E from \in {"prepare", "publish", "observe", "recover", "recoverDirectory",
                  "wait"} : Fail(c, from)

(* The directory that holds the lock is synchronized, or that fails and the lock
   is given back. *)
Sync(c) ==
    /\ \/ Goto(c, "sync", "operate")
       \/ Goto(c, "sync", "release")
    /\ UNCHANGED <<lock, staging, observed, dead, aged, stalled, unswept, unreleased>>

(* The lock is published, but the finally of acquireFileLock throws although
   nothing is staged any more: the acquisition is rejected, and nobody gives the
   lock back. *)
CleanupFails(c) ==
    /\ Goto(c, "sync", "ended")
    /\ unreleased' = unreleased \union {c}
    /\ UNCHANGED <<lock, staging, observed, dead, aged, stalled, unswept>>

-----------------------------------------------------------------------------
(* withFileTransactionLock after the acquisition                            *)

Finish(c) ==
    /\ Goto(c, "operate", "release")
    /\ UNCHANGED <<lock, staging, observed, dead, aged, stalled, unswept, unreleased>>

(* Mutant of Release: whatever lock is there is removed. *)
ReleaseAnybodys(c) ==
    /\ Goto(c, "release", "releaseDirectory")
    /\ lock' = IF lock = Absent THEN Absent ELSE Empty
    /\ UNCHANGED <<staging, observed, dead, aged, stalled, unswept, unreleased>>

(* removeOwnedGeneration *)
Release(c) ==
    /\ \/ /\ lock = c
          /\ Goto(c, "release", "releaseDirectory")
          /\ lock' = Empty
       \/ /\ lock # c
          /\ Goto(c, "release", "ended")
          /\ UNCHANGED lock
    /\ UNCHANGED <<staging, observed, dead, aged, stalled, unswept, unreleased>>

ReleaseDirectory(c) ==
    /\ Goto(c, "releaseDirectory", "ended")
    /\ lock' = IF lock = Empty THEN Absent ELSE lock
    /\ UNCHANGED <<staging, observed, dead, aged, stalled, unswept, unreleased>>

(* The failure is logged, and the marker waits until it is old. *)
ReleaseFails(c) ==
    /\ \/ Goto(c, "release", "ended") /\ unreleased' = unreleased \union {c}
       \/ Goto(c, "releaseDirectory", "ended") /\ UNCHANGED unreleased
    /\ UNCHANGED <<lock, staging, observed, dead, aged, stalled, unswept>>

-----------------------------------------------------------------------------
(* The environment: processes die and staleMs goes by                       *)

Crash(c) ==
    /\ c \notin dead
    /\ pc[c] # "ended" \/ lock = c \/ staging[c] # "absent"
    /\ dead' = dead \union {c}
    /\ UNCHANGED <<lock, staging, pc, observed, aged, stalled, unswept, unreleased>>

Age(c) ==
    /\ \/ lock = c \/ staging[c] = "ready"
    /\ aged' = aged \union {c}
    /\ UNCHANGED <<lock, staging, pc, observed, dead, stalled, unswept, unreleased>>

Stall(c) ==
    /\ staging[c] \in {"bare", "hollow"}
    /\ stalled' = stalled \union {c}
    /\ UNCHANGED <<lock, staging, pc, observed, dead, aged, unswept, unreleased>>

Prepare(c) ==
    \/ \E d \in Contenders : FindStaleStaging(c, d)
    \/ SweepMarker(c) \/ SweepDirectory(c) \/ SweepFails(c)
    \/ MakeStaging(c) \/ WriteMarker(c)

Acquire(c) ==
    \/ Publish(c) \/ PublishConflicts(c) \/ FindStale(c) \/ FindHeld(c)
    \/ RemoveMarker(c) \/ RemoveDirectory(c) \/ Wait(c) \/ GiveUp(c) \/ Sync(c)
    \/ CleanupFails(c)

GiveBack(c) == Finish(c) \/ Release(c) \/ ReleaseDirectory(c) \/ ReleaseFails(c)

Environment(c) == Crash(c) \/ Age(c) \/ Stall(c)

Next == \E c \in Contenders : Prepare(c) \/ Acquire(c) \/ GiveBack(c) \/ Environment(c)

Spec == Init /\ [][Next]_vars

-----------------------------------------------------------------------------
Holds(c) == c \notin dead /\ pc[c] \in {"sync", "operate"}

(* It took less than staleMs to prepare its directory, and less than that has
   passed since it wrote its marker. *)
Prompt(c) == c \notin aged \union stalled

(* Two transactions run at once only if one of them has outlasted staleMs: not
   after a crash, not when several contenders recover the same lock at once, and
   not when an owner that was taken over gives back what it no longer has. *)
MutualExclusion ==
    \A c, d \in Contenders :
        Holds(c) /\ Holds(d) /\ Prompt(c) /\ Prompt(d) => c = d

(* Nobody removes the marker of another contender unless its process is gone or
   the marker is old, whatever it had found when it looked. *)
LiveMarkerStays ==
    [][\A c \in Contenders :
        lock = c /\ lock' # c => c \in dead \union aged \/ pc[c] = "release"]_vars

(* A contender that is through, whichever way, leaves no staged directory behind
   unless removing it failed, and no marker unless its release failed, or the
   clean-up that follows the publication did. *)
NothingLeftBehind ==
    \A c \in Contenders \ dead : pc[c] \in {"releaseDirectory", "ended"} =>
        /\ staging[c] # "absent" => c \in unswept
        /\ lock = c => c \in unreleased

(* What each stage relies on. *)
StageInv(c) ==
    /\ Holds(c) /\ Prompt(c) => lock = c
    /\ lock = c => pc[c] \in {"sync", "operate", "release", "ended"}
    /\ c \notin dead \union stalled =>
        /\ pc[c] = "prepare" => staging[c] = "bare"
        /\ pc[c] \in {"publish", "observe", "recover", "recoverDirectory", "wait"} =>
            staging[c] = "ready"
    /\ pc[c] \in {"sweep", "sweepMarker", "sweepDirectory", "sync", "operate", "release"}
        => staging[c] = "absent"
    /\ pc[c] = "recover" => observed[c] \in dead \union aged
    /\ pc[c] \in {"sweepMarker", "sweepDirectory"} =>
        observed[c] \in Contenders /\ observed[c] \in dead \union stalled

(* The inductive invariant behind the properties above. *)
LockInv == TypeOK /\ NothingLeftBehind /\ \A c \in Contenders : StageInv(c)
=============================================================================

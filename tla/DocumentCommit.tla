--------------------------- MODULE DocumentCommit ---------------------------
(***************************************************************************)
(* The commit of the configuration and secrets documents: two files, and a *)
(* journal that holds what both were before.                               *)
(*                                                                         *)
(*   cli/server/src/shared/lib/config/store/document-store.ts              *)
(*                     runMutation, writeDocuments, compensateFailedWrite  *)
(*   cli/server/src/shared/lib/config/persistence/secrets-recovery.ts      *)
(*                     the journal and what restores from it               *)
(*   cli/server/src/shared/lib/fs.ts   atomicWriteFile, durable removal    *)
(*                                                                         *)
(* A file is replaced by one rename, so it shows its old or its new        *)
(* content; the call may still fail after the rename, when the directory   *)
(* cannot be synchronized. A process may die between any two steps, and    *)
(* the next one to hold the locks finds what it left. The two transaction  *)
(* locks are one here: they are taken together, in one order. The content  *)
(* of a document is the number of the write that produced it.              *)
(***************************************************************************)
EXTENDS Naturals

CONSTANTS
    Processes,    \* servers that share the configuration directory
    Nobody,       \* the locks are free
    NoJournal,    \* the journal does not exist
    Misreads,     \* whether an existing journal may be unreadable
    MaxWrites     \* bound: writes that are started

ASSUME DocumentCommitAssumption ==
    /\ Nobody \notin Processes
    /\ NoJournal \notin Nat \X Nat
    /\ Misreads \in BOOLEAN
    /\ MaxWrites \in Nat

VARIABLES
    config,       \* the configuration document
    secrets,      \* the secrets document
    journal,      \* the previous contents of both
    quarantined,  \* history: an unreadable journal was moved away
    holder,       \* who holds the transaction locks
    pc,           \* where each process stands
    recovery,     \* whether it compensates a write of its own
    before,       \* configBytesBeforeMutation, secretsBytesBeforeMutation
    draft,        \* the documents in memory that it writes
    target,       \* the record it restores
    rollbackError,
    answer,       \* what its last writeDocuments returned
    writes        \* writes started

files == <<config, secrets, journal, quarantined>>
vars == <<config, secrets, journal, quarantined, holder, pc, recovery, before,
          draft, target, rollbackError, answer, writes>>

Contents == (0..MaxWrites) \X (0..MaxWrites)
Pairs == {<<n, n>> : n \in 0..MaxWrites}

Transaction == {"reconcile", "load", "operate", "journal", "config", "secrets",
                "clear", "reestablish", "restoreConfig", "restoreSecrets",
                "clearRestored", "reload"}

TypeOK ==
    /\ config \in 0..MaxWrites
    /\ secrets \in 0..MaxWrites
    /\ journal \in Contents \union {NoJournal}
    /\ quarantined \in BOOLEAN
    /\ holder \in Processes \union {Nobody}
    /\ pc \in [Processes -> {"down", "idle"} \union Transaction]
    /\ recovery \in [Processes -> {"start", "compensate"}]
    /\ before \in [Processes -> Contents]
    /\ draft \in [Processes -> Pairs]
    /\ target \in [Processes -> Contents]
    /\ rollbackError \in [Processes -> BOOLEAN]
    /\ answer \in [Processes -> {"none", "ok", "failed", "unknown"}]
    /\ writes \in 0..MaxWrites

Init ==
    /\ config = 0
    /\ secrets = 0
    /\ journal = NoJournal
    /\ quarantined = FALSE
    /\ holder = Nobody
    /\ pc = [p \in Processes |-> "down"]
    /\ recovery = [p \in Processes |-> "start"]
    /\ before = [p \in Processes |-> <<0, 0>>]
    /\ draft = [p \in Processes |-> <<0, 0>>]
    /\ target = [p \in Processes |-> <<0, 0>>]
    /\ rollbackError = [p \in Processes |-> FALSE]
    /\ answer = [p \in Processes |-> "none"]
    /\ writes = 0

-----------------------------------------------------------------------------
(* Steps of a transaction                                                   *)

Goto(p, from, to) == pc[p] = from /\ pc' = [pc EXCEPT ![p] = to]

(* The transaction ends and the locks are released. *)
Leave(p, from) ==
    /\ Goto(p, from, "idle")
    /\ holder' = Nobody

(* latchRollbackFailure: every later transaction of the process is refused. *)
LatchRollback(p, from) ==
    /\ Leave(p, from)
    /\ rollbackError' = [rollbackError EXCEPT ![p] = TRUE]
    /\ answer' = IF recovery[p] = "compensate"
                 THEN [answer EXCEPT ![p] = "unknown"] ELSE answer
    /\ UNCHANGED <<recovery, before, draft, target, writes>>

(* A server starts; its first transaction reads the documents as any other. *)
Start(p) ==
    /\ Goto(p, "down", "idle")
    /\ UNCHANGED <<files, holder, recovery, before, draft, target, rollbackError,
                   answer, writes>>

(* runMutation takes the locks, unless a rollback has failed. *)
Begin(p) ==
    /\ holder = Nobody
    /\ ~rollbackError[p]
    /\ Goto(p, "idle", "reconcile")
    /\ holder' = p
    /\ recovery' = [recovery EXCEPT ![p] = "start"]
    /\ answer' = [answer EXCEPT ![p] = "none"]
    /\ UNCHANGED <<files, before, draft, target, rollbackError, writes>>

(* Mutant of NothingToReconcile: the journal is not looked at. *)
NothingToReconcileIgnored(p) ==
    /\ Goto(p, "reconcile", IF recovery[p] = "start" THEN "load" ELSE "reload")
    /\ UNCHANGED <<files, holder, recovery, before, draft, target, rollbackError,
                   answer, writes>>

(* reconcileLockedRecovery: the journal of an interrupted write is restored
   first. *)
NothingToReconcile(p) ==
    /\ journal = NoJournal
    /\ Goto(p, "reconcile", IF recovery[p] = "start" THEN "load" ELSE "reload")
    /\ UNCHANGED <<files, holder, recovery, before, draft, target, rollbackError,
                   answer, writes>>

Reconcile(p) ==
    /\ journal # NoJournal
    /\ Goto(p, "reconcile", "restoreConfig")
    /\ target' = [target EXCEPT ![p] = journal]
    /\ UNCHANGED <<files, holder, recovery, before, draft, rollbackError, answer,
                   writes>>

(* quarantineCorruptFile: a journal that cannot be read is moved away, or that
   fails as well. *)
Quarantine(p) ==
    /\ Misreads
    /\ journal # NoJournal
    /\ \/ journal' = NoJournal /\ quarantined' = TRUE
       \/ UNCHANGED <<journal, quarantined>>
    /\ LatchRollback(p, "reconcile")
    /\ UNCHANGED <<config, secrets>>

(* loadDocumentsFromDisk *)
Load(p) ==
    /\ Goto(p, "load", "operate")
    /\ before' = [before EXCEPT ![p] = <<config, secrets>>]
    /\ UNCHANGED <<files, holder, recovery, draft, target, rollbackError, answer,
                   writes>>

LoadFails(p) ==
    /\ Leave(p, "load")
    /\ UNCHANGED <<files, recovery, before, draft, target, rollbackError, answer,
                   writes>>

(* The operation answers; it may have written, several times or not at all. *)
End(p) ==
    /\ Leave(p, "operate")
    /\ UNCHANGED <<files, recovery, before, draft, target, rollbackError, answer,
                   writes>>

-----------------------------------------------------------------------------
(* writeDocuments                                                           *)

Propose(p) ==
    /\ writes < MaxWrites
    /\ Goto(p, "operate", "journal")
    /\ writes' = writes + 1
    /\ draft' = [draft EXCEPT ![p] = <<writes', writes'>>]
    /\ recovery' = [recovery EXCEPT ![p] = "compensate"]
    /\ answer' = [answer EXCEPT ![p] = "none"]
    /\ UNCHANGED <<files, holder, before, target, rollbackError>>

(* writeDocumentRecovery *)
WriteJournal(p) ==
    /\ Goto(p, "journal", "config")
    /\ journal' = before[p]
    /\ UNCHANGED <<config, secrets, quarantined, holder, recovery, before, draft,
                   target, rollbackError, answer, writes>>

WriteJournalFails(p) ==
    /\ Goto(p, "journal", "reconcile")
    /\ journal' \in {journal, before[p]}
    /\ UNCHANGED <<config, secrets, quarantined, holder, recovery, before, draft,
                   target, rollbackError, answer, writes>>

(* compensateFailedWrite with the record the journal was written from. *)
Compensate(p, from, to) ==
    /\ Goto(p, from, to)
    /\ target' = [target EXCEPT ![p] = before[p]]
    /\ UNCHANGED <<quarantined, holder, recovery, before, draft, rollbackError,
                   answer, writes>>

WriteConfig(p) ==
    /\ Goto(p, "config", "secrets")
    /\ config' = draft[p][1]
    /\ UNCHANGED <<secrets, journal, quarantined, holder, recovery, before, draft,
                   target, rollbackError, answer, writes>>

WriteConfigFails(p) ==
    /\ Compensate(p, "config", "restoreConfig")
    /\ config' \in {config, draft[p][1]}
    /\ UNCHANGED <<secrets, journal>>

WriteSecrets(p) ==
    /\ Goto(p, "secrets", "clear")
    /\ secrets' = draft[p][2]
    /\ UNCHANGED <<config, journal, quarantined, holder, recovery, before, draft,
                   target, rollbackError, answer, writes>>

WriteSecretsFails(p) ==
    /\ Compensate(p, "secrets", "restoreConfig")
    /\ secrets' \in {secrets, draft[p][2]}
    /\ UNCHANGED <<config, journal>>

(* clearDocumentRecovery: the commit point. *)
ClearJournal(p) ==
    /\ Goto(p, "clear", "operate")
    /\ journal' = NoJournal
    /\ before' = [before EXCEPT ![p] = draft[p]]
    /\ answer' = [answer EXCEPT ![p] = "ok"]
    /\ UNCHANGED <<config, secrets, quarantined, holder, recovery, draft, target,
                   rollbackError, writes>>

(* Mutant of ClearJournalFails: the journal is not written again. *)
ClearJournalFailsBare(p) ==
    /\ Compensate(p, "clear", "restoreConfig")
    /\ journal' \in {journal, NoJournal}
    /\ UNCHANGED <<config, secrets>>

(* The journal is still there, or it is gone and the removal may not last: then
   it is written again before anything is taken back. *)
ClearJournalFails(p) ==
    /\ \/ Compensate(p, "clear", "restoreConfig") /\ UNCHANGED journal
       \/ Compensate(p, "clear", "reestablish") /\ journal' = NoJournal
    /\ UNCHANGED <<config, secrets>>

(* rewriteDocumentRecovery *)
Reestablish(p) ==
    /\ Goto(p, "reestablish", "restoreConfig")
    /\ journal' = target[p]
    /\ UNCHANGED <<config, secrets, quarantined, holder, recovery, before, draft,
                   target, rollbackError, answer, writes>>

ReestablishFails(p) ==
    /\ LatchRollback(p, "reestablish")
    /\ journal' \in {journal, target[p]}
    /\ UNCHANGED <<config, secrets, quarantined>>

-----------------------------------------------------------------------------
(* restoreDocumentRecovery                                                  *)

(* Mutant of RestoreConfig: the journal goes before its contents are back. *)
RestoreConfigClearing(p) ==
    /\ Goto(p, "restoreConfig", "restoreSecrets")
    /\ config' = target[p][1]
    /\ journal' = NoJournal
    /\ UNCHANGED <<secrets, quarantined, holder, recovery, before, draft, target,
                   rollbackError, answer, writes>>

RestoreConfig(p) ==
    /\ Goto(p, "restoreConfig", "restoreSecrets")
    /\ config' = target[p][1]
    /\ UNCHANGED <<secrets, journal, quarantined, holder, recovery, before, draft,
                   target, rollbackError, answer, writes>>

RestoreConfigFails(p) ==
    /\ LatchRollback(p, "restoreConfig")
    /\ config' \in {config, target[p][1]}
    /\ UNCHANGED <<secrets, journal, quarantined>>

RestoreSecrets(p) ==
    /\ Goto(p, "restoreSecrets", "clearRestored")
    /\ secrets' = target[p][2]
    /\ UNCHANGED <<config, journal, quarantined, holder, recovery, before, draft,
                   target, rollbackError, answer, writes>>

RestoreSecretsFails(p) ==
    /\ LatchRollback(p, "restoreSecrets")
    /\ secrets' \in {secrets, target[p][2]}
    /\ UNCHANGED <<config, journal, quarantined>>

ClearRestored(p) ==
    /\ Goto(p, "clearRestored", IF recovery[p] = "start" THEN "load" ELSE "reload")
    /\ journal' = NoJournal
    /\ UNCHANGED <<config, secrets, quarantined, holder, recovery, before, draft,
                   target, rollbackError, answer, writes>>

ClearRestoredFails(p) ==
    /\ LatchRollback(p, "clearRestored")
    /\ journal' \in {journal, NoJournal}
    /\ UNCHANGED <<config, secrets, quarantined>>

(* reloadAfterRollback: the write is answered with PERSIST_FAILED, and the
   operation goes on with what it had before. *)
Reload(p) ==
    /\ Goto(p, "reload", "operate")
    /\ before' = [before EXCEPT ![p] = <<config, secrets>>]
    /\ answer' = [answer EXCEPT ![p] = "failed"]
    /\ UNCHANGED <<files, holder, recovery, draft, target, rollbackError, writes>>

ReloadFails(p) ==
    /\ LatchRollback(p, "reload")
    /\ UNCHANGED files

-----------------------------------------------------------------------------
(* The process dies. Its locks are taken over, its memory is gone. *)
Crash(p) ==
    /\ pc[p] # "down"
    /\ pc' = [pc EXCEPT ![p] = "down"]
    /\ holder' = IF holder = p THEN Nobody ELSE holder
    /\ rollbackError' = [rollbackError EXCEPT ![p] = FALSE]
    /\ answer' = [answer EXCEPT ![p] = "none"]
    /\ UNCHANGED <<files, recovery, before, draft, target, writes>>

Enter(p) ==
    \/ Start(p) \/ Begin(p) \/ NothingToReconcile(p) \/ Reconcile(p)
    \/ Quarantine(p) \/ Load(p) \/ LoadFails(p) \/ End(p)

Write(p) ==
    \/ Propose(p)
    \/ WriteJournal(p) \/ WriteJournalFails(p)
    \/ WriteConfig(p) \/ WriteConfigFails(p)
    \/ WriteSecrets(p) \/ WriteSecretsFails(p)
    \/ ClearJournal(p) \/ ClearJournalFails(p)
    \/ Reestablish(p) \/ ReestablishFails(p)

Restore(p) ==
    \/ RestoreConfig(p) \/ RestoreConfigFails(p)
    \/ RestoreSecrets(p) \/ RestoreSecretsFails(p)
    \/ ClearRestored(p) \/ ClearRestoredFails(p)
    \/ Reload(p) \/ ReloadFails(p)

Next == \E p \in Processes : Enter(p) \/ Write(p) \/ Restore(p) \/ Crash(p)

Spec == Init /\ [][Next]_vars

-----------------------------------------------------------------------------
(* An operation, whether it reads or writes, works on documents that were
   committed together, whatever was interrupted or failed before it; the only
   exception is a journal that could not be read and was moved away. *)
OperatesOnCommitted ==
    \A p \in Processes : pc[p] = "operate" =>
        /\ journal = NoJournal
        /\ before[p] = <<config, secrets>>
        /\ quarantined \/ config = secrets

(* While the two files do not belong together, a journal that does is on the
   disk: also after a rollback that failed half-way, and a crash during it. *)
JournalCoversWrites ==
    ~quarantined =>
        /\ config # secrets => journal # NoJournal
        /\ journal # NoJournal => journal[1] = journal[2]

(* What is on the disk at each stage of a transaction. *)
Untouched(p) == before[p] = <<config, secrets>>
Journaled(p) == journal = before[p]

StageInv(p) ==
    /\ pc[p] = "reconcile" /\ recovery[p] = "compensate" =>
        Untouched(p) /\ (journal = NoJournal \/ Journaled(p))
    /\ pc[p] \in {"load", "operate", "journal", "reestablish", "reload"} =>
        journal = NoJournal
    /\ pc[p] \in {"operate", "journal", "config", "reload"} => Untouched(p)
    /\ pc[p] \in {"config", "secrets", "clear"} => Journaled(p)
    /\ pc[p] \in {"secrets", "clear", "reestablish"} => config = draft[p][1]
    /\ pc[p] \in {"clear", "reestablish"} => secrets = draft[p][2]
    /\ pc[p] \in {"restoreConfig", "restoreSecrets", "clearRestored"} =>
        journal = target[p]
    /\ pc[p] \in {"restoreSecrets", "clearRestored"} => config = target[p][1]
    /\ pc[p] = "clearRestored" => secrets = target[p][2]
    /\ pc[p] \in {"reestablish", "restoreConfig", "restoreSecrets", "clearRestored"}
            /\ recovery[p] = "compensate" => target[p] = before[p]
    /\ pc[p] \in {"journal", "config", "secrets", "clear", "reestablish", "reload"}
            => recovery[p] = "compensate"
    /\ pc[p] = "reestablish" /\ ~quarantined => before[p][1] = before[p][2]

(* The inductive invariant behind the properties above. *)
CommitInv ==
    /\ TypeOK
    /\ JournalCoversWrites
    /\ \A p \in Processes : pc[p] \in Transaction <=> holder = p
    /\ \A p \in Processes : StageInv(p)

(* The documents as the next process to take the locks will find them. *)
Current == IF journal = NoJournal THEN <<config, secrets>> ELSE journal

(* A writeDocuments that has not answered. *)
Busy(p) ==
    /\ recovery[p] = "compensate"
    /\ pc[p] \in Transaction \ {"load", "operate"}

Pending(p) == [by |-> p, old |-> before[p], new |-> draft[p]]

Writing == {Pending(p) : p \in {q \in Processes : Busy(q)}}

Atomic == INSTANCE AtomicDocuments WITH
    InitialPair <- <<0, 0>>,
    documents <- Current,
    writing <- Writing,
    lost <- quarantined

(* Both documents change at once, and an answer says what they are: the commit
   point is the removal of the journal, a failed write leaves what was there
   before, and only a write answered with ROLLBACK_FAILED may be either. *)
CommitsAtomically == Atomic!Spec
=============================================================================

------------------------ MODULE ConfigurationLeases ------------------------
(***************************************************************************)
(* One provider configuration: the record and credential bindings in the   *)
(* documents, the credential material they name, the executions admitted   *)
(* on it, and the actions that edit or delete it.                          *)
(*                                                                         *)
(*   cli/server/src/shared/lib/ai/admission/service.ts   leases, admission *)
(*   cli/server/src/shared/lib/session-registry.ts       the lease hooks   *)
(*   cli/server/src/shared/lib/config/store/crud-actions.ts                *)
(*                                       create, select, update and delete *)
(*   cli/server/src/shared/lib/config/store/credential-lifecycle.ts        *)
(*                                              erasing credential material *)
(*   cli/server/src/shared/lib/config/store/document-store.ts              *)
(*                        the answers of a write, the latch of a rollback   *)
(*                                                                         *)
(* runMutation gives one document transaction at a time the documents: it  *)
(* reloads them, and what it changes is visible to others only once it has *)
(* written them. Everything else interleaves with it, the credential       *)
(* material and the lease registry included. Configurations do not share   *)
(* leases or material, so the module follows one, from its creation on.    *)
(* Material is named by the revision it was bound for, as                  *)
(* keyringSecretName and literalSecretPath do. The documents are what the  *)
(* files say once a journal that lies beside them has been restored.       *)
(***************************************************************************)
EXTENDS Naturals, FiniteSets

CONSTANTS
    Executions,      \* review-creation requests being served
    Deletions,       \* clients that delete the configuration, and may retry
    Models,          \* exact model ids
    NoModel,         \* no model has been selected
    NoRecord,        \* the configuration is not in the documents
    MaxConcurrency,  \* limits.maxConcurrency
    MaxRevision      \* bound: updates of the configuration

ASSUME ConfigurationLeasesAssumption ==
    /\ IsFiniteSet(Executions)
    /\ MaxConcurrency \in Nat \ {0}
    /\ MaxRevision \in Nat \ {0}
    /\ Models # {}
    /\ NoRecord \notin [revision : Nat, model : Models \union {NoModel}, active : Nat,
                        tombstones : SUBSET Nat]

VARIABLES
    record,       \* the configuration in the documents, with its bindings
    materials,    \* the credential material that exists
    mutation,     \* the transaction that holds the documents
    edited,       \* what an edit is about to write, or a delete took out
    discarded,    \* history: credentials discarded after a write that answered
                  \* with an error and left the documents naming them
    revoked,      \* ExecutionLeaseRegistry.revoked
    leases,       \* ExecutionLeaseRegistry.active
    tuple,        \* the snapshot each execution is being admitted with
    pc,           \* where each execution stands
    dpc,          \* where each deletion stands
    expected      \* expectedRevision of each deletion

vars == <<record, materials, mutation, edited, discarded, revoked, leases, tuple,
          pc, dpc, expected>>

Revisions == 1..MaxRevision

(* A supported record, the material its active binding names, and the material
   named by the tombstones of the bindings it replaced. *)
Records == [revision : Revisions, model : Models \union {NoModel},
            active : Revisions, tombstones : SUBSET Revisions]

Free == [kind |-> "free"]

(* rollbackError: a write could not be undone, and the store refuses every
   transaction until the server is started again. *)
Latched == [kind |-> "latched"]

Mutations ==
    {Free, Latched} \union [kind : {"creating", "updating", "retiring"}] \union
    [kind : {"writing", "erasing"}, by : Deletions]

TypeOK ==
    /\ record \in Records \union {NoRecord}
    /\ materials \subseteq Revisions
    /\ mutation \in Mutations
    /\ edited \in Records \union {NoRecord}
    /\ discarded \subseteq Revisions
    /\ revoked \in BOOLEAN
    /\ leases \subseteq Executions
    /\ tuple \in [Executions -> Records \union {NoRecord}]
    /\ pc \in [Executions ->
            {"idle", "loaded", "reloaded", "resolved", "held"}]
    /\ dpc \in [Deletions ->
            {"idle", "checked", "draining", "drained", "mutating", "failing", "done"}]
    /\ expected \in [Deletions -> Revisions]

(* runCreateAction has bound the first credential and not yet written. *)
Init ==
    /\ record = NoRecord
    /\ materials = {1}
    /\ mutation = [kind |-> "creating"]
    /\ edited = [revision |-> 1, model |-> NoModel, active |-> 1, tombstones |-> {}]
    /\ discarded = {}
    /\ revoked = FALSE
    /\ leases = {}
    /\ tuple = [e \in Executions |-> NoRecord]
    /\ pc = [e \in Executions |-> "idle"]
    /\ dpc = [d \in Deletions |-> "idle"]
    /\ expected = [d \in Deletions |-> 1]

-----------------------------------------------------------------------------
(* writeDocuments, from the documents of before to new ones                 *)

(* PERSIST_FAILED: the old documents are back. ROLLBACK_FAILED: they may be, or
   a journal that restores them is; but if the journal was cleared and could not
   be written again, the new ones stay. *)
WriteFails(new) ==
    \/ UNCHANGED record /\ mutation' = Free
    \/ record' \in {record, new} /\ mutation' = Latched

Write(new) ==
    \/ record' = new /\ mutation' = Free
    \/ WriteFails(new)

(* discardBindingSecret removes the credential of a write that failed, whatever
   the failure, or fails itself and logs it. *)
DiscardBinding ==
    /\ materials' \in {materials, materials \ {edited.active}}
    /\ discarded' = IF record' = edited THEN discarded \union (materials \ materials')
                                       ELSE discarded

-----------------------------------------------------------------------------
(* runCreateAction                                                          *)

CreateWritten ==
    /\ mutation.kind = "creating"
    /\ record' = edited
    /\ mutation' = Free
    /\ edited' = NoRecord
    /\ UNCHANGED <<materials, discarded, revoked, leases, tuple, pc, dpc, expected>>

CreateWriteFails ==
    /\ mutation.kind = "creating"
    /\ WriteFails(edited)
    /\ DiscardBinding
    /\ edited' = NoRecord
    /\ UNCHANGED <<revoked, leases, tuple, pc, dpc, expected>>

-----------------------------------------------------------------------------
(* authorizeReviewExecution                                                 *)

(* The first snapshot, and the checks up to the second one. *)
LoadSnapshot(e) ==
    /\ pc[e] = "idle"
    /\ mutation = Free
    /\ record # NoRecord
    /\ record.model # NoModel
    /\ ~revoked
    /\ tuple' = [tuple EXCEPT ![e] = record]
    /\ pc' = [pc EXCEPT ![e] = "loaded"]
    /\ UNCHANGED <<record, materials, mutation, edited, discarded, revoked, leases, dpc, expected>>

(* The second snapshot must show the revision of the first. *)
ReloadSnapshot(e) ==
    /\ pc[e] = "loaded"
    /\ mutation = Free
    /\ record # NoRecord
    /\ record.revision = tuple[e].revision
    /\ pc' = [pc EXCEPT ![e] = "reloaded"]
    /\ UNCHANGED <<record, materials, mutation, edited, discarded, revoked, leases, tuple,
                   dpc, expected>>

(* resolveSecretBinding reads the material of the first snapshot. *)
ResolveCredential(e) ==
    /\ pc[e] = "reloaded"
    /\ tuple[e].active \in materials
    /\ pc' = [pc EXCEPT ![e] = "resolved"]
    /\ UNCHANGED <<record, materials, mutation, edited, discarded, revoked, leases, tuple,
                   dpc, expected>>

SameTuple(e, f) ==
    /\ tuple[e].revision = tuple[f].revision
    /\ tuple[e].model = tuple[f].model

(* Mutant of Acquire: the revocation is not looked at. *)
AcquireRevoked(e) ==
    /\ pc[e] = "resolved"
    /\ Cardinality(leases) < MaxConcurrency
    /\ \A f \in leases : ~SameTuple(e, f)
    /\ leases' = leases \union {e}
    /\ pc' = [pc EXCEPT ![e] = "held"]
    /\ UNCHANGED <<record, materials, mutation, edited, discarded, revoked, tuple, dpc, expected>>

(* tryAcquire *)
Acquire(e) ==
    /\ pc[e] = "resolved"
    /\ ~revoked
    /\ Cardinality(leases) < MaxConcurrency
    /\ \A f \in leases : ~SameTuple(e, f)
    /\ leases' = leases \union {e}
    /\ pc' = [pc EXCEPT ![e] = "held"]
    /\ UNCHANGED <<record, materials, mutation, edited, discarded, revoked, tuple, dpc, expected>>

(* Any check of the admission fails. *)
Refuse(e) ==
    /\ pc[e] \in {"loaded", "reloaded", "resolved"}
    /\ pc' = [pc EXCEPT ![e] = "idle"]
    /\ tuple' = [tuple EXCEPT ![e] = NoRecord]
    /\ UNCHANGED <<record, materials, mutation, edited, discarded, revoked, leases, dpc, expected>>

(* The review ended, was cancelled, or never became a session. The last lease
   that is released wakes the deletions that wait for the drain. *)
Release(e) ==
    /\ pc[e] = "held"
    /\ leases' = leases \ {e}
    /\ pc' = [pc EXCEPT ![e] = "idle"]
    /\ tuple' = [tuple EXCEPT ![e] = NoRecord]
    /\ dpc' = IF leases' = {}
              THEN [d \in Deletions |->
                       IF dpc[d] = "draining" THEN "drained" ELSE dpc[d]]
              ELSE dpc
    /\ UNCHANGED <<record, materials, mutation, edited, discarded, revoked, expected>>

-----------------------------------------------------------------------------
(* runSelectAction and runUpdateAction                                      *)

(* Selecting a model keeps the revision. *)
SelectModel(m) ==
    /\ mutation = Free
    /\ record # NoRecord
    /\ record.model # m
    /\ Write([record EXCEPT !.model = m])
    /\ UNCHANGED <<materials, edited, discarded, revoked, leases, tuple, pc, dpc, expected>>

(* An update that carries the binding over to the next revision. *)
UpdateKeepingSecret ==
    /\ mutation = Free
    /\ record # NoRecord
    /\ record.revision < MaxRevision
    /\ Write([record EXCEPT !.revision = @ + 1])
    /\ UNCHANGED <<materials, edited, discarded, revoked, leases, tuple, pc, dpc, expected>>

(* bindActionSecret stores the new material before the documents name it. *)
UpdateBindsSecret ==
    /\ mutation = Free
    /\ record # NoRecord
    /\ record.revision < MaxRevision
    /\ materials' = materials \union {record.revision + 1}
    /\ mutation' = [kind |-> "updating"]
    /\ edited' = [record EXCEPT !.revision = @ + 1,
                                !.active = record.revision + 1,
                                !.tombstones = @ \union {record.active}]
    /\ UNCHANGED <<record, discarded, revoked, leases, tuple, pc, dpc, expected>>

UpdateWritten ==
    /\ mutation.kind = "updating"
    /\ record' = edited
    /\ edited' = record
    /\ mutation' = [kind |-> "retiring"]
    /\ UNCHANGED <<materials, discarded, revoked, leases, tuple, pc, dpc, expected>>

UpdateWriteFails ==
    /\ mutation.kind = "updating"
    /\ WriteFails(edited)
    /\ DiscardBinding
    /\ edited' = NoRecord
    /\ UNCHANGED <<revoked, leases, tuple, pc, dpc, expected>>

(* deleteRetiredSecretMaterial for the one replaced binding; the update
   succeeds whether or not the material could be removed. *)
RetireReplacedSecret ==
    /\ mutation.kind = "retiring"
    /\ materials' \in {materials, materials \ {edited.active}}
    /\ mutation' = Free
    /\ edited' = NoRecord
    /\ UNCHANGED <<record, discarded, revoked, leases, tuple, pc, dpc, expected>>

-----------------------------------------------------------------------------
(* runDeleteAction                                                          *)

(* assertDeletable *)
Deletable(d) == record # NoRecord /\ record.revision = expected[d]

(* The first assertDeletable, in a transaction of its own; the client knows
   the current revision. *)
CheckDeletable(d) ==
    /\ dpc[d] = "idle"
    /\ mutation = Free
    /\ record # NoRecord
    /\ expected' = [expected EXCEPT ![d] = record.revision]
    /\ dpc' = [dpc EXCEPT ![d] = "checked"]
    /\ UNCHANGED <<record, materials, mutation, edited, discarded, revoked, leases, tuple, pc>>

(* Mutant of RevokeAndCancel: the deletion does not wait for the drain. *)
RevokeAndCancelWithoutDrain(d) ==
    /\ dpc[d] = "checked"
    /\ revoked' = TRUE
    /\ dpc' = [dpc EXCEPT ![d] = "drained"]
    /\ UNCHANGED <<record, materials, mutation, edited, discarded, leases, tuple, pc, expected>>

(* revoke, cancel and drain: the cancelled sessions release later. *)
RevokeAndCancel(d) ==
    /\ dpc[d] = "checked"
    /\ revoked' = TRUE
    /\ dpc' = [dpc EXCEPT ![d] = IF leases = {} THEN "drained" ELSE "draining"]
    /\ UNCHANGED <<record, materials, mutation, edited, discarded, leases, tuple, pc, expected>>

(* Mutant of DrainTimesOut: the drain has no timer. *)
DrainWithoutTimer(d) == FALSE /\ UNCHANGED vars

(* The lease hook clears the revocation and the deletion answers with an error. *)
DrainTimesOut(d) ==
    /\ dpc[d] = "draining"
    /\ revoked' = FALSE
    /\ dpc' = [dpc EXCEPT ![d] = "idle"]
    /\ UNCHANGED <<record, materials, mutation, edited, discarded, leases, tuple, pc, expected>>

(* commitDelete repeats assertDeletable on the reloaded documents: an update
   or another deletion may have come first. A latched store does not get there. *)
DeleteRefused(d) ==
    /\ dpc[d] = "drained"
    /\ mutation = Latched \/ (mutation = Free /\ ~Deletable(d))
    /\ dpc' = [dpc EXCEPT ![d] = "failing"]
    /\ UNCHANGED <<record, materials, mutation, edited, discarded, revoked, leases, tuple,
                   pc, expected>>

CommitDelete(d) ==
    /\ dpc[d] = "drained"
    /\ mutation = Free
    /\ Deletable(d)
    /\ mutation' = [kind |-> "writing", by |-> d]
    /\ edited' = record
    /\ dpc' = [dpc EXCEPT ![d] = "mutating"]
    /\ UNCHANGED <<record, materials, discarded, revoked, leases, tuple, pc, expected>>

DeleteWritten(d) ==
    /\ mutation = [kind |-> "writing", by |-> d]
    /\ record' = NoRecord
    /\ mutation' = [kind |-> "erasing", by |-> d]
    /\ UNCHANGED <<materials, edited, discarded, revoked, leases, tuple, pc, dpc, expected>>

(* Mutant of DeleteWriteFails: the deletion answers without clearing the
   revocation. *)
DeleteWriteFailsRevoked(d) ==
    /\ mutation = [kind |-> "writing", by |-> d]
    /\ WriteFails(NoRecord)
    /\ edited' = NoRecord
    /\ dpc' = [dpc EXCEPT ![d] = "idle"]
    /\ UNCHANGED <<materials, discarded, revoked, leases, tuple, pc, expected>>

DeleteWriteFails(d) ==
    /\ mutation = [kind |-> "writing", by |-> d]
    /\ WriteFails(NoRecord)
    /\ edited' = NoRecord
    /\ dpc' = [dpc EXCEPT ![d] = "failing"]
    /\ UNCHANGED <<materials, discarded, revoked, leases, tuple, pc, expected>>

(* Mutant of Erasures: the active binding is tried together with the others. *)
ErasuresInAnyOrder ==
    {materials \ gone : gone \in SUBSET (edited.tombstones \union {edited.active})}

(* The material deleteRetiredSecretMaterial may leave: every tombstone is
   tried first, and the active binding only if all of them are gone. *)
Erasures ==
    {materials \ gone : gone \in SUBSET edited.tombstones} \union
    {materials \ (edited.tombstones \union {edited.active})}

EraseMaterial(d) ==
    /\ mutation = [kind |-> "erasing", by |-> d]
    /\ materials' = materials \ (edited.tombstones \union {edited.active})
    /\ mutation' = Free
    /\ edited' = NoRecord
    /\ dpc' = [dpc EXCEPT ![d] = "done"]
    /\ UNCHANGED <<record, discarded, revoked, leases, tuple, pc, expected>>

(* Some material could not be removed: the documents of before the delete are
   written back, unless that fails too. *)
EraseFails(d) ==
    /\ mutation = [kind |-> "erasing", by |-> d]
    /\ materials' \in Erasures
    /\ materials' \intersect (edited.tombstones \union {edited.active}) # {}
    /\ Write(edited)
    /\ edited' = NoRecord
    /\ dpc' = [dpc EXCEPT ![d] = "failing"]
    /\ UNCHANGED <<discarded, revoked, leases, tuple, pc, expected>>

(* clearRevocation after the transaction of a failed deletion. *)
ClearRevocation(d) ==
    /\ dpc[d] = "failing"
    /\ revoked' = FALSE
    /\ dpc' = [dpc EXCEPT ![d] = "idle"]
    /\ UNCHANGED <<record, materials, mutation, edited, discarded, leases, tuple, pc, expected>>

-----------------------------------------------------------------------------
(* The server process dies and starts again: the documents and the material
   remain, the registry and every request are gone. *)
Crash ==
    /\ mutation' = Free
    /\ edited' = NoRecord
    /\ revoked' = FALSE
    /\ leases' = {}
    /\ tuple' = [e \in Executions |-> NoRecord]
    /\ pc' = [e \in Executions |-> "idle"]
    /\ dpc' = [d \in Deletions |-> "idle"]
    /\ expected' = [d \in Deletions |-> 1]
    /\ UNCHANGED <<record, materials, discarded>>

Admission(e) ==
    \/ LoadSnapshot(e) \/ ReloadSnapshot(e) \/ ResolveCredential(e)
    \/ Acquire(e) \/ Refuse(e) \/ Release(e)

Create == CreateWritten \/ CreateWriteFails

Update ==
    \/ UpdateKeepingSecret \/ UpdateBindsSecret \/ UpdateWritten
    \/ UpdateWriteFails \/ RetireReplacedSecret

Transaction(d) ==
    \/ CommitDelete(d) \/ DeleteRefused(d) \/ DeleteWritten(d)
    \/ DeleteWriteFails(d) \/ EraseMaterial(d) \/ EraseFails(d)

Deletion(d) ==
    \/ CheckDeletable(d) \/ RevokeAndCancel(d) \/ DrainTimesOut(d)
    \/ Transaction(d) \/ ClearRevocation(d)

Next ==
    \/ Create
    \/ \E e \in Executions : Admission(e)
    \/ \E m \in Models : SelectModel(m)
    \/ Update
    \/ \E d \in Deletions : Deletion(d)
    \/ Crash

Spec == Init /\ [][Next]_vars

(* A deletion keeps taking its turns: the drain has a timer, and the lock on
   the documents is granted in the order it was asked for. *)
Fairness ==
    /\ \A d \in Deletions :
        /\ WF_vars(RevokeAndCancel(d) \/ DrainTimesOut(d) \/ ClearRevocation(d))
        /\ SF_vars(Transaction(d))
    /\ WF_vars(Create \/ UpdateWritten \/ UpdateWriteFails \/ RetireReplacedSecret)

FairSpec == Spec /\ Fairness
-----------------------------------------------------------------------------
(* A deletion that revoked the configuration and has not answered. *)
Deleting(d) == dpc[d] \in {"draining", "drained", "mutating", "failing"}

(* Wherever an edit or a deletion fails or the server dies, a configuration that
   is in the documents finds the credential it names: new material is stored
   before the documents name it, replaced material is removed after they no
   longer do, and a deletion tries the tombstones first. The one exception is a
   credential that was discarded although the write that answered with an error
   had left its name in the documents. *)
SurvivorKeepsCredential ==
    record # NoRecord => record.active \in materials \union discarded

(* "No document commit means nothing references this credential, whatever the
   failure code": what is discarded after a failed write is named by nothing. *)
DiscardedIsUnreferenced ==
    [][mutation.kind \in {"creating", "updating"} /\ record' # NoRecord =>
        record'.active \notin materials \ materials']_vars

(* "credentials are never removed while an admitted execution still holds
   one": erasing a deleted configuration takes no credential from a lease.
   (An update that replaces a credential does not wait for the leases.) *)
CredentialOutlivesLease ==
    [][mutation.kind = "erasing" =>
        \A e \in leases : tuple[e].active \notin materials \ materials']_vars

(* A request that read the configuration before it was deleted, and acquires
   its lease after, is refused: a deleted configuration stays revoked. *)
DeletedAdmitsNothing ==
    (\E d \in Deletions : dpc[d] = "done") => leases = {}

(* "A configuration that survives a failed delete must admit reviews again":
   a configuration in the documents is revoked only for a deletion that is
   still going to clear the revocation or remove the record. *)
RevokedOnlyWhileDeleting ==
    revoked /\ record # NoRecord => \E d \in Deletions : Deleting(d)

(* "Revocation is already in force, so no new lease can be granted before the
   write below." *)
NoGrantWhileDeleting ==
    [][\A e \in leases' \ leases : \A d \in Deletions : ~Deleting(d)]_vars

(* The bindings of a record: retired ones are older than the active one. *)
WellFormed(r) ==
    /\ r \in Records
    /\ r.active <= r.revision
    /\ \A t \in r.tombstones : t <= r.revision /\ t # r.active

(* The inductive invariant behind SurvivorKeepsCredential: what the transaction
   that holds the documents is about to write, restore or erase. *)
CredentialInv ==
    /\ TypeOK
    /\ SurvivorKeepsCredential
    /\ record # NoRecord => WellFormed(record)
    /\ mutation.kind = "creating" =>
        /\ record = NoRecord
        /\ WellFormed(edited)
        /\ edited.active \in materials
        /\ ~revoked
        /\ \A d \in Deletions : dpc[d] = "idle"
    /\ mutation.kind = "updating" =>
        /\ record # NoRecord
        /\ WellFormed(edited)
        /\ edited.active \in materials \ {record.active}
    /\ mutation.kind = "retiring" =>
        /\ record # NoRecord
        /\ WellFormed(edited)
        /\ edited.active # record.active
    /\ mutation.kind \in {"writing", "erasing"} =>
        /\ WellFormed(edited)
        /\ edited.active \in materials \union discarded
    /\ mutation.kind = "writing" => record = edited
    /\ mutation.kind = "erasing" => record = NoRecord

(* The inductive invariant behind the guarantees about leases, which holds
   while deletions do not overlap. *)
DrainInv ==
    /\ \A d \in Deletions :
        /\ Deleting(d) \/ dpc[d] = "done" => revoked
        /\ dpc[d] \in {"drained", "mutating", "done"} => leases = {}
    /\ mutation.kind \in {"writing", "erasing"} => dpc[mutation.by] = "mutating"

(* A deletion answers, also when executions never release their leases. *)
DeletionsEnd ==
    \A d \in Deletions : dpc[d] = "checked" ~> dpc[d] \in {"idle", "done"}
=============================================================================

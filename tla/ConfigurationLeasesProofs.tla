---------------------- MODULE ConfigurationLeasesProofs ----------------------
(***************************************************************************)
(* Proofs about ConfigurationLeases, for any numbers of executions,        *)
(* deletions, models and revisions. What concerns credentials holds        *)
(* however deletions race; what concerns leases is proved for deletions    *)
(* that do not overlap, and the racing run shows that it needs that.       *)
(***************************************************************************)
EXTENDS ConfigurationLeases, TLAPS

LEMMA RecordsAreNotNoRecord == NoRecord \notin Records
BY ConfigurationLeasesAssumption DEF Records, Revisions

LEMMA CredentialInvInit == Init => CredentialInv
<1>. SUFFICES ASSUME Init PROVE CredentialInv
  OBVIOUS
<1>1. 1 \in Revisions
  BY ConfigurationLeasesAssumption DEF Revisions
<1>2. WellFormed(edited) /\ edited.active \in materials
  BY <1>1 DEF Init, WellFormed, Records
<1>3. mutation \in Mutations /\ mutation.kind = "creating"
  BY DEF Init, Mutations
<1>4. TypeOK
  BY <1>1, <1>2, <1>3 DEF Init, TypeOK, WellFormed
<1>. QED BY <1>2, <1>3, <1>4 DEF Init, CredentialInv, SurvivorKeepsCredential

(* How a write ends: the documents are the old ones or the new ones, and their
   holder has gone. *)
LEMMA WriteEnds ==
    ASSUME NEW new, Write(new) \/ WriteFails(new)
    PROVE  /\ record' \in {record, new}
           /\ mutation' \in Mutations
           /\ mutation'.kind \in {"free", "latched"}
BY DEF Write, WriteFails, Free, Latched, Mutations

(* Admission, and the steps of a deletion outside its transaction, leave the
   record, the material and the holder of the documents alone. *)
LEMMA BystandersPreserve ==
    ASSUME CredentialInv,
           \/ \E e \in Executions : Admission(e)
           \/ \E d \in Deletions :
                \/ CheckDeletable(d) \/ RevokeAndCancel(d) \/ DrainTimesOut(d)
                \/ ClearRevocation(d) \/ DeleteRefused(d)
    PROVE  CredentialInv'
<1>1. UNCHANGED <<record, materials, mutation, edited, discarded>>
  BY DEF Admission, LoadSnapshot, ReloadSnapshot, ResolveCredential, Acquire, Refuse,
         Release, CheckDeletable, RevokeAndCancel, DrainTimesOut, ClearRevocation,
         DeleteRefused
<1>2. TypeOK
  BY DEF CredentialInv
<1>3. TypeOK'
  <2>1. ASSUME NEW e \in Executions, LoadSnapshot(e) PROVE TypeOK'
    BY <1>2, <2>1 DEF TypeOK, LoadSnapshot
  <2>2. ASSUME NEW e \in Executions, ReloadSnapshot(e) PROVE TypeOK'
    BY <1>2, <2>2 DEF TypeOK, ReloadSnapshot
  <2>3. ASSUME NEW e \in Executions, ResolveCredential(e) PROVE TypeOK'
    BY <1>2, <2>3 DEF TypeOK, ResolveCredential
  <2>4. ASSUME NEW e \in Executions, Acquire(e) PROVE TypeOK'
    BY <1>2, <2>4 DEF TypeOK, Acquire
  <2>5. ASSUME NEW e \in Executions, Refuse(e) PROVE TypeOK'
    BY <1>2, <2>5 DEF TypeOK, Refuse
  <2>6. ASSUME NEW e \in Executions, Release(e) PROVE TypeOK'
    BY <1>2, <2>6 DEF TypeOK, Release
  <2>7. ASSUME NEW d \in Deletions, CheckDeletable(d) PROVE TypeOK'
    <3>1. record.revision \in Revisions
      BY <1>2, <2>7 DEF TypeOK, CheckDeletable, Records
    <3>. QED BY <1>2, <2>7, <3>1 DEF TypeOK, CheckDeletable
  <2>8. ASSUME NEW d \in Deletions, RevokeAndCancel(d) PROVE TypeOK'
    BY <1>2, <2>8 DEF TypeOK, RevokeAndCancel
  <2>9. ASSUME NEW d \in Deletions, DrainTimesOut(d) PROVE TypeOK'
    BY <1>2, <2>9 DEF TypeOK, DrainTimesOut
  <2>10. ASSUME NEW d \in Deletions, ClearRevocation(d) PROVE TypeOK'
    BY <1>2, <2>10 DEF TypeOK, ClearRevocation
  <2>11. ASSUME NEW d \in Deletions, DeleteRefused(d) PROVE TypeOK'
    BY <1>2, <2>11 DEF TypeOK, DeleteRefused
  <2>. QED BY <2>1, <2>2, <2>3, <2>4, <2>5, <2>6, <2>7, <2>8, <2>9, <2>10, <2>11
           DEF Admission
<1>4. mutation.kind = "creating" =>
        ~revoked' /\ \A c \in Deletions : dpc'[c] = "idle"
  <2>. SUFFICES ASSUME mutation.kind = "creating"
                PROVE  ~revoked' /\ \A c \in Deletions : dpc'[c] = "idle"
    OBVIOUS
  <2>1. ~revoked /\ (\A c \in Deletions : dpc[c] = "idle") /\ mutation # Free
    BY DEF CredentialInv, Free
  <2>2. CASE \E e \in Executions : Admission(e)
    BY <2>1, <2>2 DEF Admission, LoadSnapshot, ReloadSnapshot, ResolveCredential, Acquire,
                      Refuse, Release
  <2>3. CASE ~\E e \in Executions : Admission(e)
    BY <2>1, <2>3 DEF CheckDeletable, RevokeAndCancel, DrainTimesOut, ClearRevocation,
                      DeleteRefused
  <2>. QED BY <2>2, <2>3
<1>. QED BY <1>1, <1>3, <1>4 DEF CredentialInv, SurvivorKeepsCredential, WellFormed

(* A creation names its credential only if it exists or has been discarded
   behind a write that stayed. *)
LEMMA CreatePreserves ==
    ASSUME CredentialInv, Create PROVE CredentialInv'
<1>. USE DEF CredentialInv, SurvivorKeepsCredential, TypeOK
<1>1. CASE CreateWritten
  BY <1>1 DEF CreateWritten, WellFormed, Mutations, Free
<1>2. CASE CreateWriteFails
  <2>1. /\ record' \in {record, edited}
        /\ mutation' \in Mutations
        /\ mutation'.kind \in {"free", "latched"}
    BY <1>2, WriteEnds DEF CreateWriteFails
  <2>2. record' = edited => edited.active \in materials' \union discarded'
    BY <1>2 DEF CreateWriteFails, DiscardBinding
  <2>3. materials' \subseteq Revisions /\ discarded' \subseteq Revisions
    BY <1>2 DEF CreateWriteFails, DiscardBinding
  <2>4. record = NoRecord /\ WellFormed(edited)
    BY <1>2 DEF CreateWriteFails
  <2>. QED BY <1>2, <2>1, <2>2, <2>3, <2>4 DEF CreateWriteFails, WellFormed
<1>. QED BY <1>1, <1>2 DEF Create

(* What an update stores, writes and retires. *)
LEMMA UpdatesPreserve ==
    ASSUME CredentialInv, Update \/ \E m \in Models : SelectModel(m)
    PROVE  CredentialInv'
<1>. USE DEF CredentialInv, SurvivorKeepsCredential, WellFormed, TypeOK, Records
<1>1. ASSUME NEW m \in Models, SelectModel(m) PROVE CredentialInv'
  <2>1. /\ record' \in {record, [record EXCEPT !.model = m]}
        /\ mutation' \in Mutations
        /\ mutation'.kind \in {"free", "latched"}
    BY <1>1, WriteEnds DEF SelectModel
  <2>. QED BY <1>1, <2>1, RecordsAreNotNoRecord DEF SelectModel
<1>2. CASE UpdateKeepingSecret
  <2>1. record.revision + 1 \in Revisions
    BY <1>2, ConfigurationLeasesAssumption DEF UpdateKeepingSecret, Revisions
  <2>2. /\ record' \in {record, [record EXCEPT !.revision = @ + 1]}
        /\ mutation' \in Mutations
        /\ mutation'.kind \in {"free", "latched"}
    BY <1>2, WriteEnds DEF UpdateKeepingSecret
  <2>. QED BY <1>2, <2>1, <2>2, RecordsAreNotNoRecord DEF UpdateKeepingSecret, Revisions
<1>3. CASE UpdateBindsSecret
  <2>1. record.revision + 1 \in Revisions
    BY <1>3, ConfigurationLeasesAssumption DEF UpdateBindsSecret, Revisions
  <2>2. WellFormed(edited')
    <3>1. WellFormed(record) /\ record \in Records
      BY <1>3 DEF UpdateBindsSecret
    <3>2. /\ edited' \in Records
          /\ edited'.revision = record.revision + 1
          /\ edited'.active = record.revision + 1
          /\ edited'.tombstones = record.tombstones \union {record.active}
      BY <1>3, <2>1, <3>1 DEF UpdateBindsSecret
    <3>3. record.active \in Nat /\ record.revision \in Nat
          /\ \A t \in record.tombstones : t \in Nat /\ t <= record.revision
      BY <3>1 DEF Revisions
    <3>. QED BY <3>1, <3>2, <3>3
  <2>3. mutation' \in Mutations /\ mutation'.kind = "updating"
    BY <1>3 DEF UpdateBindsSecret, Mutations
  <2>4. edited'.active \in materials' \ {record'.active}
    BY <1>3, <2>1 DEF UpdateBindsSecret, Revisions
  <2>. QED BY <1>3, <2>1, <2>2, <2>3, <2>4 DEF UpdateBindsSecret
<1>4. CASE UpdateWritten
  BY <1>4, RecordsAreNotNoRecord DEF UpdateWritten, Mutations
<1>5. CASE UpdateWriteFails
  <2>1. /\ record' \in {record, edited}
        /\ mutation' \in Mutations
        /\ mutation'.kind \in {"free", "latched"}
    BY <1>5, WriteEnds DEF UpdateWriteFails
  <2>2. WellFormed(edited) /\ WellFormed(record) /\ edited.active # record.active
    BY <1>5 DEF UpdateWriteFails
  <2>3. record'.active \in materials' \union discarded'
    BY <1>5, <2>1, <2>2 DEF UpdateWriteFails, DiscardBinding
  <2>4. materials' \subseteq Revisions /\ discarded' \subseteq Revisions
    BY <1>5 DEF UpdateWriteFails, DiscardBinding
  <2>. QED BY <1>5, <2>1, <2>2, <2>3, <2>4 DEF UpdateWriteFails
<1>6. CASE RetireReplacedSecret
  BY <1>6 DEF RetireReplacedSecret, Mutations, Free
<1>. QED BY <1>1, <1>2, <1>3, <1>4, <1>5, <1>6 DEF Update

(* What the transaction of a deletion writes, erases and restores: if erasing
   fails after any tombstone, the active material is still there. *)
LEMMA DeletionPreserves ==
    ASSUME CredentialInv, NEW d \in Deletions,
           \/ CommitDelete(d) \/ DeleteWritten(d) \/ DeleteWriteFails(d)
           \/ EraseMaterial(d) \/ EraseFails(d)
    PROVE  CredentialInv'
<1>. USE DEF CredentialInv, SurvivorKeepsCredential, TypeOK
<1>1. CASE CommitDelete(d)
  BY <1>1 DEF CommitDelete, Deletable, WellFormed, Mutations
<1>2. CASE DeleteWritten(d)
  BY <1>2 DEF DeleteWritten, WellFormed, Mutations
<1>3. CASE DeleteWriteFails(d)
  <2>1. /\ record' \in {record, NoRecord}
        /\ mutation' \in Mutations
        /\ mutation'.kind \in {"free", "latched"}
    BY <1>3, WriteEnds DEF DeleteWriteFails
  <2>. QED BY <1>3, <2>1 DEF DeleteWriteFails, WellFormed
<1>4. CASE EraseMaterial(d)
  BY <1>4 DEF EraseMaterial, Mutations, Free
<1>5. CASE EraseFails(d)
  <2>1. /\ WellFormed(edited) /\ record = NoRecord
        /\ edited.active \in materials \union discarded
    BY <1>5 DEF EraseFails
  <2>2. edited.active \in materials' \union discarded
    BY <1>5, <2>1 DEF EraseFails, Erasures, WellFormed
  <2>3. materials' \subseteq Revisions
    BY <1>5 DEF EraseFails, Erasures
  <2>4. /\ record' \in {record, edited}
        /\ mutation' \in Mutations
        /\ mutation'.kind \in {"free", "latched"}
    BY <1>5, WriteEnds DEF EraseFails
  <2>5. dpc' \in [Deletions ->
            {"idle", "checked", "draining", "drained", "mutating", "failing", "done"}]
    BY <1>5 DEF EraseFails
  <2>. QED BY <1>5, <2>1, <2>2, <2>3, <2>4, <2>5 DEF EraseFails, WellFormed
<1>. QED BY <1>1, <1>2, <1>3, <1>4, <1>5

LEMMA CrashPreserves ==
    ASSUME CredentialInv, Crash PROVE CredentialInv'
<1>1. 1 \in Revisions
  BY ConfigurationLeasesAssumption DEF Revisions
<1>2. mutation' \in Mutations /\ mutation'.kind = "free"
  BY DEF Crash, Mutations, Free
<1>3. TypeOK'
  BY <1>1, <1>2 DEF CredentialInv, TypeOK, Crash
<1>. QED BY <1>2, <1>3 DEF CredentialInv, SurvivorKeepsCredential, WellFormed, Crash

LEMMA CredentialInvStep == CredentialInv /\ [Next]_vars => CredentialInv'
<1>. SUFFICES ASSUME CredentialInv, [Next]_vars PROVE CredentialInv'
  OBVIOUS
<1>1. CASE \E e \in Executions : Admission(e)
  BY <1>1, BystandersPreserve
<1>2. CASE Update \/ \E m \in Models : SelectModel(m)
  BY <1>2, UpdatesPreserve
<1>3. CASE \E d \in Deletions : Deletion(d)
  BY <1>3, BystandersPreserve, DeletionPreserves DEF Deletion, Transaction
<1>4. CASE Create
  BY <1>4, CreatePreserves
<1>5. CASE Crash
  BY <1>5, CrashPreserves
<1>6. CASE UNCHANGED vars
  BY <1>6 DEF vars, CredentialInv, TypeOK, SurvivorKeepsCredential, WellFormed
<1>. QED BY <1>1, <1>2, <1>3, <1>4, <1>5, <1>6 DEF Next

(* The inductive invariant about credentials holds, whatever edits, deletions,
   failures and crashes interleave. *)
THEOREM CredentialsConsistent == Spec => []CredentialInv
BY CredentialInvInit, CredentialInvStep, PTL DEF Spec

(* A configuration that is in the documents finds the credential it names, also
   while its store is latched and after the restart, unless that credential was
   discarded behind a write that failed and stayed. *)
THEOREM SurvivorsKeepTheirCredential == Spec => []SurvivorKeepsCredential
<1>1. CredentialInv => SurvivorKeepsCredential
  BY DEF CredentialInv
<1>. QED BY <1>1, CredentialsConsistent, PTL
(* Every variable has its type, also across crashes and failed writes. *)
THEOREM TypesCorrect == Spec => []TypeOK
<1>1. CredentialInv => TypeOK
  BY DEF CredentialInv
<1>. QED BY <1>1, CredentialsConsistent, PTL

(* A step that ends a deletion clears the revocation or finds no record. *)
LEMMA RevocationStep ==
    ASSUME CredentialInv, RevokedOnlyWhileDeleting, [Next]_vars
    PROVE  RevokedOnlyWhileDeleting'
<1>. USE DEF RevokedOnlyWhileDeleting, Deleting
<1>0. TypeOK
  BY DEF CredentialInv
<1>1. ASSUME NEW e \in Executions, Admission(e)
      PROVE  RevokedOnlyWhileDeleting'
  <2>1. CASE Release(e)
    <3>1. revoked' = revoked /\ record' = record
      BY <2>1 DEF Release
    <3>2. ASSUME NEW d \in Deletions, Deleting(d) PROVE Deleting(d)'
      BY <1>0, <2>1, <3>2 DEF Release, TypeOK
    <3>. QED BY <3>1, <3>2
  <2>2. CASE ~Release(e)
    BY <1>1, <2>2 DEF Admission, LoadSnapshot, ReloadSnapshot, ResolveCredential,
                      Acquire, Refuse
  <2>. QED BY <2>1, <2>2
<1>2. CASE Update \/ \E m \in Models : SelectModel(m)
  <2>1. revoked' = revoked /\ dpc' = dpc /\ record # NoRecord
    BY <1>2 DEF CredentialInv, Update, SelectModel, UpdateKeepingSecret, UpdateBindsSecret,
                UpdateWritten, UpdateWriteFails, RetireReplacedSecret
  <2>. QED BY <2>1
<1>3. ASSUME NEW d \in Deletions, Deletion(d)
      PROVE  RevokedOnlyWhileDeleting'
  <2>1. CASE CheckDeletable(d)
    <3>1. revoked' = revoked /\ record' = record
      BY <2>1 DEF CheckDeletable
    <3>2. ASSUME NEW c \in Deletions, Deleting(c) PROVE Deleting(c)'
      BY <1>0, <2>1, <3>2 DEF CheckDeletable, TypeOK
    <3>. QED BY <3>1, <3>2
  <2>2. CASE RevokeAndCancel(d)
    BY <1>0, <2>2 DEF RevokeAndCancel, TypeOK
  <2>3. CASE DrainTimesOut(d) \/ ClearRevocation(d)
    BY <2>3 DEF DrainTimesOut, ClearRevocation
  <2>4. CASE EraseMaterial(d)
    BY <2>4 DEF EraseMaterial, CredentialInv
  <2>5. CASE CommitDelete(d) \/ DeleteRefused(d) \/ DeleteWriteFails(d) \/ EraseFails(d)
    BY <1>0, <2>5 DEF CommitDelete, DeleteRefused, DeleteWriteFails, EraseFails, TypeOK
  <2>6. CASE DeleteWritten(d)
    BY <2>6 DEF DeleteWritten
  <2>. QED BY <1>3, <2>1, <2>2, <2>3, <2>4, <2>5, <2>6 DEF Deletion, Transaction
<1>4. CASE Create
  BY <1>4 DEF Create, CreateWritten, CreateWriteFails, CredentialInv
<1>5. CASE Crash
  BY <1>5 DEF Crash
<1>6. CASE UNCHANGED vars
  BY <1>6 DEF vars
<1>. QED BY <1>1, <1>2, <1>3, <1>4, <1>5, <1>6 DEF Next

(* A configuration that survives a failed delete admits reviews again, however
   deletions race. *)
THEOREM SurvivorsAdmitAgain == Spec => []RevokedOnlyWhileDeleting
<1>1. Init => RevokedOnlyWhileDeleting
  BY DEF Init, RevokedOnlyWhileDeleting
<1>2. CredentialInv /\ RevokedOnlyWhileDeleting /\ [Next]_vars => RevokedOnlyWhileDeleting'
  BY RevocationStep
<1>. QED BY <1>1, <1>2, CredentialsConsistent, PTL DEF Spec
-----------------------------------------------------------------------------
(* Leases, while deletions do not overlap                                   *)

OneDeletion == \A c, d \in Deletions : c = d

LEMMA TransactionHasOwner ==
    ASSUME TypeOK, mutation.kind \in {"writing", "erasing"}
    PROVE  mutation.by \in Deletions
BY DEF TypeOK, Mutations, Free, Latched

LEMMA DrainInvInit == Init => DrainInv
BY DEF Init, DrainInv, Deleting

(* An execution acquires its lease only while no deletion is under way, and
   the last release is what lets a deletion go on. *)
LEMMA AdmissionKeepsDrain ==
    ASSUME TypeOK, DrainInv, NEW e \in Executions, Admission(e)
    PROVE  DrainInv'
<1>1. CASE Acquire(e)
  BY <1>1 DEF Acquire, DrainInv, Deleting, TypeOK
<1>2. CASE Release(e)
  <2>1. leases' \subseteq leases
    BY <1>2 DEF Release
  <2>2. ASSUME NEW d \in Deletions
        PROVE  /\ Deleting(d)' \/ dpc'[d] = "done" => revoked'
               /\ dpc'[d] \in {"drained", "mutating", "done"} => leases' = {}
    <3>1. CASE leases' = {} /\ dpc[d] = "draining"
      BY <3>1, <1>2 DEF Release, DrainInv, Deleting, TypeOK
    <3>2. CASE ~(leases' = {} /\ dpc[d] = "draining")
      <4>1. dpc'[d] = dpc[d] /\ revoked' = revoked
        BY <3>2, <1>2 DEF Release, TypeOK
      <4>. QED BY <4>1, <2>1 DEF DrainInv, Deleting
    <3>. QED BY <3>1, <3>2
  <2>3. mutation'.kind \in {"writing", "erasing"} => dpc'[mutation'.by] = "mutating"
    BY <1>2, TransactionHasOwner DEF Release, DrainInv, TypeOK
  <2>. QED BY <2>2, <2>3 DEF DrainInv
<1>3. CASE LoadSnapshot(e) \/ ReloadSnapshot(e) \/ ResolveCredential(e) \/ Refuse(e)
  <2>1. UNCHANGED <<dpc, revoked, leases, mutation>>
    BY <1>3 DEF LoadSnapshot, ReloadSnapshot, ResolveCredential, Refuse
  <2>. QED BY <2>1 DEF DrainInv, Deleting
<1>. QED BY <1>1, <1>2, <1>3 DEF Admission

LEMMA EditsKeepDrain ==
    ASSUME DrainInv, Create \/ Update \/ \E m \in Models : SelectModel(m)
    PROVE  DrainInv'
<1>1. UNCHANGED <<dpc, revoked, leases>>
  BY DEF Create, CreateWritten, CreateWriteFails, Update, SelectModel, UpdateKeepingSecret,
         UpdateBindsSecret, UpdateWritten, UpdateWriteFails, RetireReplacedSecret
<1>2. mutation'.kind \in {"free", "latched", "updating", "retiring"}
  BY DEF Create, CreateWritten, CreateWriteFails, Update, SelectModel, UpdateKeepingSecret,
         UpdateBindsSecret, UpdateWritten, UpdateWriteFails, RetireReplacedSecret,
         Write, WriteFails, Free, Latched
<1>. QED BY <1>1, <1>2 DEF DrainInv, Deleting

(* The only deletion is the one that revoked, so nobody else clears it. *)
LEMMA DeletionKeepsDrain ==
    ASSUME OneDeletion, TypeOK, DrainInv, NEW d \in Deletions, Deletion(d)
    PROVE  DrainInv'
<1>. USE DEF DrainInv, Deleting, OneDeletion, TypeOK
<1>1. \A c \in Deletions : c = d
  OBVIOUS
<1>2. CASE CheckDeletable(d)
  BY <1>1, <1>2, TransactionHasOwner DEF CheckDeletable
<1>3. CASE RevokeAndCancel(d)
  BY <1>1, <1>3, TransactionHasOwner DEF RevokeAndCancel
<1>4. CASE DrainTimesOut(d)
  BY <1>1, <1>4, TransactionHasOwner DEF DrainTimesOut
<1>5. CASE ClearRevocation(d)
  BY <1>1, <1>5, TransactionHasOwner DEF ClearRevocation
<1>6. CASE DeleteRefused(d)
  BY <1>1, <1>6, TransactionHasOwner DEF DeleteRefused, Free, Latched
<1>7. CASE CommitDelete(d)
  BY <1>1, <1>7 DEF CommitDelete
<1>8. CASE DeleteWritten(d)
  BY <1>1, <1>8 DEF DeleteWritten
<1>9. CASE DeleteWriteFails(d)
  BY <1>1, <1>9, WriteEnds DEF DeleteWriteFails
<1>10. CASE EraseMaterial(d)
  BY <1>1, <1>10 DEF EraseMaterial, Free
<1>11. CASE EraseFails(d)
  BY <1>1, <1>11, WriteEnds DEF EraseFails
<1>. QED BY <1>2, <1>3, <1>4, <1>5, <1>6, <1>7, <1>8, <1>9, <1>10, <1>11
         DEF Deletion, Transaction

LEMMA DrainInvStep ==
    ASSUME OneDeletion, CredentialInv, DrainInv, [Next]_vars PROVE DrainInv'
<1>1. TypeOK
  BY DEF CredentialInv
<1>2. CASE \E e \in Executions : Admission(e)
  BY <1>1, <1>2, AdmissionKeepsDrain
<1>3. CASE Create \/ Update \/ \E m \in Models : SelectModel(m)
  BY <1>3, EditsKeepDrain
<1>4. CASE \E d \in Deletions : Deletion(d)
  BY <1>1, <1>4, DeletionKeepsDrain
<1>5. CASE Crash
  BY <1>5 DEF Crash, DrainInv, Deleting, Free
<1>6. CASE UNCHANGED vars
  BY <1>6 DEF vars, DrainInv, Deleting
<1>. QED BY <1>2, <1>3, <1>4, <1>5, <1>6 DEF Next

THEOREM DrainHolds ==
    ASSUME OneDeletion PROVE Spec => []DrainInv
<1>1. CredentialInv /\ DrainInv /\ [Next]_vars => DrainInv'
  BY DrainInvStep
<1>. QED BY <1>1, DrainInvInit, CredentialsConsistent, PTL DEF Spec

(* No execution is granted a lease between the revocation and the answer of a
   deletion, provided that deletions do not overlap. *)
THEOREM DeletionsGrantNothing ==
    ASSUME OneDeletion PROVE Spec => NoGrantWhileDeleting
<1>1. CredentialInv /\ DrainInv /\ [Next]_vars
        => [\A e \in leases' \ leases : \A d \in Deletions : ~Deleting(d)]_vars
  <2>. SUFFICES ASSUME CredentialInv, DrainInv, [Next]_vars,
                       NEW e \in leases' \ leases, NEW d \in Deletions
                PROVE  ~Deleting(d)
    OBVIOUS
  <2>1. ASSUME NEW f \in Executions, Admission(f) PROVE ~Deleting(d)
    BY <2>1 DEF DrainInv, Admission, LoadSnapshot, ReloadSnapshot, ResolveCredential,
                Acquire, Refuse, Release
  <2>2. ASSUME ~\E f \in Executions : Admission(f) PROVE leases' \subseteq leases
    BY <2>2 DEF Next, vars, Create, CreateWritten, CreateWriteFails, Update, SelectModel,
                UpdateKeepingSecret, UpdateBindsSecret, UpdateWritten, UpdateWriteFails,
                RetireReplacedSecret, Deletion, Transaction, CheckDeletable,
                RevokeAndCancel, DrainTimesOut, ClearRevocation, DeleteRefused,
                CommitDelete, DeleteWritten, DeleteWriteFails, EraseMaterial, EraseFails,
                Crash
  <2>. QED BY <2>1, <2>2
<1>. QED BY <1>1, CredentialsConsistent, DrainHolds, PTL DEF Spec, NoGrantWhileDeleting

(* Erasing a deleted configuration takes no credential from an execution that
   holds a lease, provided that deletions do not overlap. *)
THEOREM CredentialsOutliveLeases ==
    ASSUME OneDeletion PROVE Spec => CredentialOutlivesLease
<1>1. CredentialInv /\ DrainInv /\ [Next]_vars
        => [mutation.kind = "erasing" =>
              \A e \in leases : tuple[e].active \notin materials \ materials']_vars
  BY TransactionHasOwner DEF CredentialInv, DrainInv
<1>. QED BY <1>1, CredentialsConsistent, DrainHolds, PTL DEF Spec, CredentialOutlivesLease

(* Once a deletion has succeeded no execution holds a lease, provided that
   deletions do not overlap. *)
THEOREM DeletedConfigurationsAreIdle ==
    ASSUME OneDeletion PROVE Spec => []DeletedAdmitsNothing
<1>1. DrainInv => DeletedAdmitsNothing
  BY DEF DrainInv, DeletedAdmitsNothing
<1>. QED BY <1>1, DrainHolds, PTL
=============================================================================

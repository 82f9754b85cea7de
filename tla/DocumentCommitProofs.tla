------------------------ MODULE DocumentCommitProofs ------------------------
(***************************************************************************)
(* Proofs about DocumentCommit, for any number of processes and writes,    *)
(* and whether or not a journal may be unreadable. Between two steps of a  *)
(* transaction the files are its own: no other process is in one. So a     *)
(* step has to keep what is on the disk at its own stage, and nothing of   *)
(* the others.                                                             *)
(***************************************************************************)
EXTENDS DocumentCommit, TLAPS

Locking == \A p \in Processes : pc[p] \in Transaction <=> holder = p

LEMMA CommitInvInit == Init => CommitInv
<1>. SUFFICES ASSUME Init PROVE CommitInv
  OBVIOUS
<1>1. TypeOK
  <2>1. 0 \in 0..MaxWrites
    BY DocumentCommitAssumption
  <2>2. <<0, 0>> \in Contents /\ <<0, 0>> \in Pairs
    BY <2>1 DEF Contents, Pairs
  <2>. QED BY <2>1, <2>2 DEF Init, TypeOK
<1>2. JournalCoversWrites
  BY DEF Init, JournalCoversWrites
<1>3. \A p \in Processes : pc[p] = "down"
  BY DEF Init
<1>4. Locking
  BY <1>3, DocumentCommitAssumption DEF Init, Locking, Transaction
<1>5. \A p \in Processes : StageInv(p)
  BY <1>3 DEF StageInv
<1>. QED BY <1>1, <1>2, <1>4, <1>5 DEF CommitInv, Locking

(* A step inside a transaction has to keep the two conditions on the files and
   its own stage: the others are outside, before and after. *)
LEMMA TransactionIsAlone ==
    ASSUME CommitInv, NEW p \in Processes, NEW to,
           pc[p] \in Transaction,
           pc' = [pc EXCEPT ![p] = to],
           \/ to \in Transaction /\ holder' = holder
           \/ to \notin Transaction /\ holder' = Nobody,
           TypeOK', JournalCoversWrites', StageInv(p)'
    PROVE  CommitInv'
<1>1. pc \in [Processes -> {"down", "idle"} \union Transaction] /\ Locking
  BY DEF CommitInv, TypeOK, Locking
<1>2. holder = p
  BY <1>1 DEF Locking
<1>3. \A q \in Processes \ {p} : pc'[q] = pc[q] /\ pc[q] \notin Transaction
  BY <1>1, <1>2 DEF Locking
<1>4. pc'[p] = to
  BY <1>1
<1>5. Locking'
  BY <1>2, <1>3, <1>4, DocumentCommitAssumption DEF Locking
<1>6. ASSUME NEW q \in Processes PROVE StageInv(q)'
  <2>1. CASE q = p
    BY <2>1
  <2>2. CASE q # p
    BY <1>3, <2>2 DEF StageInv, Transaction
  <2>. QED BY <2>1, <2>2
<1>. QED BY <1>5, <1>6 DEF CommitInv, Locking

(* The types of what a process keeps, taken apart. *)
Parts(p) ==
    /\ config \in 0..MaxWrites /\ secrets \in 0..MaxWrites
    /\ <<config, secrets>> \in Contents
    /\ draft[p] \in Contents
    /\ draft[p] = <<draft[p][1], draft[p][2]>>
    /\ draft[p][1] \in 0..MaxWrites /\ draft[p][2] = draft[p][1]
    /\ before[p] \in Contents /\ before[p] # NoJournal
    /\ target[p] \in Contents /\ target[p] # NoJournal
    /\ target[p] = <<target[p][1], target[p][2]>>
    /\ target[p][1] \in 0..MaxWrites /\ target[p][2] \in 0..MaxWrites
    /\ NoJournal \notin Contents

LEMMA PartsTyped ==
    ASSUME TypeOK, NEW p \in Processes
    PROVE  Parts(p)
<1>1. NoJournal \notin Contents
  BY DocumentCommitAssumption DEF Contents
<1>2. draft[p] \in Pairs
  BY DEF TypeOK
<1>3. \E n \in 0..MaxWrites : draft[p] = <<n, n>>
  BY <1>2 DEF Pairs
<1>4. before[p] \in Contents /\ target[p] \in Contents
  BY DEF TypeOK
<1>. QED BY <1>1, <1>3, <1>4 DEF TypeOK, Contents, Parts

(* The recovery of what another transaction left, the load, and the end. *)
LEMMA EnterPreserves ==
    ASSUME CommitInv, NEW p \in Processes,
           NothingToReconcile(p) \/ Reconcile(p) \/ Quarantine(p) \/ Load(p)
           \/ LoadFails(p) \/ End(p)
    PROVE  CommitInv'
<1>1. TypeOK /\ JournalCoversWrites /\ StageInv(p)
  BY DEF CommitInv
<1>2. Parts(p)
  BY <1>1, PartsTyped
<1>. USE <1>1, <1>2 DEF Parts, Goto, Leave, LatchRollback, Compensate,
                        files, Untouched, Journaled
<1>3. CASE NothingToReconcile(p)
  <2>1. /\ pc[p] = "reconcile"
        /\ pc' = [pc EXCEPT ![p] =
                    IF recovery[p] = "start" THEN "load" ELSE "reload"]
        /\ holder' = holder
    BY <1>3 DEF NothingToReconcile
  <2>2. pc'[p] = IF recovery[p] = "start" THEN "load" ELSE "reload"
    BY <2>1 DEF TypeOK
  <2>3. TypeOK'
    BY <1>3 DEF NothingToReconcile, TypeOK, Transaction
  <2>4. JournalCoversWrites'
    BY <1>3, <2>1 DEF NothingToReconcile, JournalCoversWrites, StageInv
  <2>5. StageInv(p)'
    BY <1>3, <2>1, <2>2 DEF NothingToReconcile, StageInv, TypeOK
  <2>. QED BY <2>1, <2>3, <2>4, <2>5, TransactionIsAlone DEF Transaction
<1>4. CASE Reconcile(p)
  <2>1. /\ pc[p] = "reconcile"
        /\ pc' = [pc EXCEPT ![p] = "restoreConfig"]
        /\ holder' = holder
    BY <1>4 DEF Reconcile
  <2>2. pc'[p] = "restoreConfig"
    BY <2>1 DEF TypeOK
  <2>3. TypeOK'
    BY <1>4 DEF Reconcile, TypeOK, Transaction
  <2>4. JournalCoversWrites'
    BY <1>4, <2>1 DEF Reconcile, JournalCoversWrites, StageInv
  <2>5. StageInv(p)'
    BY <1>4, <2>1, <2>2 DEF Reconcile, StageInv, TypeOK
  <2>. QED BY <2>1, <2>3, <2>4, <2>5, TransactionIsAlone DEF Transaction
<1>5. CASE Quarantine(p)
  <2>1. /\ pc[p] = "reconcile"
        /\ pc' = [pc EXCEPT ![p] = "idle"]
        /\ holder' = Nobody
    BY <1>5 DEF Quarantine
  <2>2. pc'[p] = "idle"
    BY <2>1 DEF TypeOK
  <2>3. TypeOK'
    BY <1>5 DEF Quarantine, TypeOK, Transaction
  <2>4. JournalCoversWrites'
    BY <1>5, <2>1 DEF Quarantine, JournalCoversWrites, StageInv
  <2>5. StageInv(p)'
    BY <2>2 DEF StageInv
  <2>6. pc[p] \in Transaction /\ "idle" \notin Transaction
    BY <2>1 DEF Transaction
  <2>. QED BY <2>1, <2>3, <2>4, <2>5, <2>6, TransactionIsAlone
<1>6. CASE Load(p)
  <2>1. /\ pc[p] = "load"
        /\ pc' = [pc EXCEPT ![p] = "operate"]
        /\ holder' = holder
    BY <1>6 DEF Load
  <2>2. pc'[p] = "operate"
    BY <2>1 DEF TypeOK
  <2>3. TypeOK'
    BY <1>6 DEF Load, TypeOK, Transaction
  <2>4. JournalCoversWrites'
    BY <1>6, <2>1 DEF Load, JournalCoversWrites, StageInv
  <2>5. StageInv(p)'
    BY <1>6, <2>1, <2>2 DEF Load, StageInv, TypeOK
  <2>. QED BY <2>1, <2>3, <2>4, <2>5, TransactionIsAlone DEF Transaction
<1>7. CASE LoadFails(p)
  <2>1. /\ pc[p] = "load"
        /\ pc' = [pc EXCEPT ![p] = "idle"]
        /\ holder' = Nobody
    BY <1>7 DEF LoadFails
  <2>2. pc'[p] = "idle"
    BY <2>1 DEF TypeOK
  <2>3. TypeOK'
    BY <1>7 DEF LoadFails, TypeOK, Transaction
  <2>4. JournalCoversWrites'
    BY <1>7, <2>1 DEF LoadFails, JournalCoversWrites, StageInv
  <2>5. StageInv(p)'
    BY <2>2 DEF StageInv
  <2>6. pc[p] \in Transaction /\ "idle" \notin Transaction
    BY <2>1 DEF Transaction
  <2>. QED BY <2>1, <2>3, <2>4, <2>5, <2>6, TransactionIsAlone
<1>8. CASE End(p)
  <2>1. /\ pc[p] = "operate"
        /\ pc' = [pc EXCEPT ![p] = "idle"]
        /\ holder' = Nobody
    BY <1>8 DEF End
  <2>2. pc'[p] = "idle"
    BY <2>1 DEF TypeOK
  <2>3. TypeOK'
    BY <1>8 DEF End, TypeOK, Transaction
  <2>4. JournalCoversWrites'
    BY <1>8, <2>1 DEF End, JournalCoversWrites, StageInv
  <2>5. StageInv(p)'
    BY <2>2 DEF StageInv
  <2>6. pc[p] \in Transaction /\ "idle" \notin Transaction
    BY <2>1 DEF Transaction
  <2>. QED BY <2>1, <2>3, <2>4, <2>5, <2>6, TransactionIsAlone
<1>. QED BY <1>3, <1>4, <1>5, <1>6, <1>7, <1>8

(* A write, and the start of a rollback when one of its steps fails. *)
LEMMA WritePreserves ==
    ASSUME CommitInv, NEW p \in Processes,
           Propose(p) \/ WriteJournal(p) \/ WriteJournalFails(p)
           \/ WriteConfig(p) \/ WriteConfigFails(p) \/ WriteSecrets(p)
           \/ WriteSecretsFails(p) \/ ClearJournal(p)
           \/ ClearJournalFails(p) \/ Reestablish(p) \/ ReestablishFails(p)
    PROVE  CommitInv'
<1>1. TypeOK /\ JournalCoversWrites /\ StageInv(p)
  BY DEF CommitInv
<1>2. Parts(p)
  BY <1>1, PartsTyped
<1>. USE <1>1, <1>2 DEF Parts, Goto, Leave, LatchRollback, Compensate,
                        files, Untouched, Journaled
<1>3. CASE Propose(p)
  <2>1. /\ pc[p] = "operate"
        /\ pc' = [pc EXCEPT ![p] = "journal"]
        /\ holder' = holder
    BY <1>3 DEF Propose
  <2>2. pc'[p] = "journal"
    BY <2>1 DEF TypeOK
  <2>3. TypeOK'
    <3>1. writes' \in 0..MaxWrites
      BY <1>3, DocumentCommitAssumption DEF Propose, TypeOK
    <3>2. <<writes', writes'>> \in Pairs
      BY <3>1 DEF Pairs
    <3>. QED BY <1>3, <3>1, <3>2 DEF Propose, Goto, TypeOK, Transaction, files
  <2>4. JournalCoversWrites'
    BY <1>3, <2>1 DEF Propose, JournalCoversWrites, StageInv
  <2>5. StageInv(p)'
    BY <1>3, <2>1, <2>2 DEF Propose, StageInv, TypeOK
  <2>. QED BY <2>1, <2>3, <2>4, <2>5, TransactionIsAlone DEF Transaction
<1>4. CASE WriteJournal(p)
  <2>1. /\ pc[p] = "journal"
        /\ pc' = [pc EXCEPT ![p] = "config"]
        /\ holder' = holder
    BY <1>4 DEF WriteJournal
  <2>2. pc'[p] = "config"
    BY <2>1 DEF TypeOK
  <2>3. TypeOK'
    BY <1>4 DEF WriteJournal, TypeOK, Transaction
  <2>4. JournalCoversWrites'
    BY <1>4, <2>1 DEF WriteJournal, JournalCoversWrites, StageInv
  <2>5. StageInv(p)'
    BY <1>4, <2>1, <2>2 DEF WriteJournal, StageInv, TypeOK
  <2>. QED BY <2>1, <2>3, <2>4, <2>5, TransactionIsAlone DEF Transaction
<1>5. CASE WriteJournalFails(p)
  <2>1. /\ pc[p] = "journal"
        /\ pc' = [pc EXCEPT ![p] = "reconcile"]
        /\ holder' = holder
    BY <1>5 DEF WriteJournalFails
  <2>2. pc'[p] = "reconcile"
    BY <2>1 DEF TypeOK
  <2>3. TypeOK'
    BY <1>5 DEF WriteJournalFails, TypeOK, Transaction
  <2>4. JournalCoversWrites'
    BY <1>5, <2>1 DEF WriteJournalFails, JournalCoversWrites, StageInv
  <2>5. StageInv(p)'
    BY <1>5, <2>1, <2>2 DEF WriteJournalFails, StageInv, TypeOK
  <2>. QED BY <2>1, <2>3, <2>4, <2>5, TransactionIsAlone DEF Transaction
<1>6. CASE WriteConfig(p)
  <2>1. /\ pc[p] = "config"
        /\ pc' = [pc EXCEPT ![p] = "secrets"]
        /\ holder' = holder
    BY <1>6 DEF WriteConfig
  <2>2. pc'[p] = "secrets"
    BY <2>1 DEF TypeOK
  <2>3. TypeOK'
    BY <1>6 DEF WriteConfig, TypeOK, Transaction
  <2>4. JournalCoversWrites'
    BY <1>6, <2>1 DEF WriteConfig, JournalCoversWrites, StageInv
  <2>5. StageInv(p)'
    BY <1>6, <2>1, <2>2 DEF WriteConfig, StageInv, TypeOK
  <2>. QED BY <2>1, <2>3, <2>4, <2>5, TransactionIsAlone DEF Transaction
<1>7. CASE WriteConfigFails(p)
  <2>1. /\ pc[p] = "config"
        /\ pc' = [pc EXCEPT ![p] = "restoreConfig"]
        /\ holder' = holder
    BY <1>7 DEF WriteConfigFails
  <2>2. pc'[p] = "restoreConfig"
    BY <2>1 DEF TypeOK
  <2>3. TypeOK'
    BY <1>7 DEF WriteConfigFails, TypeOK, Transaction
  <2>4. JournalCoversWrites'
    BY <1>7, <2>1 DEF WriteConfigFails, JournalCoversWrites, StageInv
  <2>5. StageInv(p)'
    BY <1>7, <2>1, <2>2 DEF WriteConfigFails, StageInv, TypeOK
  <2>. QED BY <2>1, <2>3, <2>4, <2>5, TransactionIsAlone DEF Transaction
<1>8. CASE WriteSecrets(p)
  <2>1. /\ pc[p] = "secrets"
        /\ pc' = [pc EXCEPT ![p] = "clear"]
        /\ holder' = holder
    BY <1>8 DEF WriteSecrets
  <2>2. pc'[p] = "clear"
    BY <2>1 DEF TypeOK
  <2>3. TypeOK'
    BY <1>8 DEF WriteSecrets, TypeOK, Transaction
  <2>4. JournalCoversWrites'
    BY <1>8, <2>1 DEF WriteSecrets, JournalCoversWrites, StageInv
  <2>5. StageInv(p)'
    BY <1>8, <2>1, <2>2 DEF WriteSecrets, StageInv, TypeOK
  <2>. QED BY <2>1, <2>3, <2>4, <2>5, TransactionIsAlone DEF Transaction
<1>9. CASE WriteSecretsFails(p)
  <2>1. /\ pc[p] = "secrets"
        /\ pc' = [pc EXCEPT ![p] = "restoreConfig"]
        /\ holder' = holder
    BY <1>9 DEF WriteSecretsFails
  <2>2. pc'[p] = "restoreConfig"
    BY <2>1 DEF TypeOK
  <2>3. TypeOK'
    BY <1>9 DEF WriteSecretsFails, TypeOK, Transaction
  <2>4. JournalCoversWrites'
    BY <1>9, <2>1 DEF WriteSecretsFails, JournalCoversWrites, StageInv
  <2>5. StageInv(p)'
    BY <1>9, <2>1, <2>2 DEF WriteSecretsFails, StageInv, TypeOK
  <2>. QED BY <2>1, <2>3, <2>4, <2>5, TransactionIsAlone DEF Transaction
<1>10. CASE ClearJournal(p)
  <2>1. /\ pc[p] = "clear"
        /\ pc' = [pc EXCEPT ![p] = "operate"]
        /\ holder' = holder
    BY <1>10 DEF ClearJournal
  <2>2. pc'[p] = "operate"
    BY <2>1 DEF TypeOK
  <2>3. TypeOK'
    BY <1>10 DEF ClearJournal, TypeOK, Transaction
  <2>4. JournalCoversWrites'
    BY <1>10, <2>1 DEF ClearJournal, JournalCoversWrites, StageInv
  <2>5. StageInv(p)'
    BY <1>10, <2>1, <2>2 DEF ClearJournal, StageInv, TypeOK
  <2>. QED BY <2>1, <2>3, <2>4, <2>5, TransactionIsAlone DEF Transaction
<1>11. CASE ClearJournalFails(p)
  <2>1. pc[p] = "clear" /\ holder' = holder
    BY <1>11 DEF ClearJournalFails
  <2>2. PICK to \in {"restoreConfig", "reestablish"} :
          /\ Compensate(p, "clear", to)
          /\ journal' = IF to = "reestablish" THEN NoJournal ELSE journal
    BY <1>11 DEF ClearJournalFails
  <2>3. pc' = [pc EXCEPT ![p] = to] /\ pc'[p] = to /\ to \in Transaction
    BY <2>2 DEF TypeOK, Transaction
  <2>4. TypeOK'
    BY <1>11, <2>2, <2>3 DEF ClearJournalFails, TypeOK
  <2>5. JournalCoversWrites'
    BY <1>11, <2>1, <2>2 DEF ClearJournalFails, JournalCoversWrites, StageInv
  <2>6. StageInv(p)'
    BY <1>11, <2>1, <2>2, <2>3 DEF ClearJournalFails, StageInv,
                                   JournalCoversWrites, TypeOK
  <2>. QED BY <2>1, <2>3, <2>4, <2>5, <2>6, TransactionIsAlone DEF Transaction
<1>12. CASE Reestablish(p)
  <2>1. /\ pc[p] = "reestablish"
        /\ pc' = [pc EXCEPT ![p] = "restoreConfig"]
        /\ holder' = holder
    BY <1>12 DEF Reestablish
  <2>2. pc'[p] = "restoreConfig"
    BY <2>1 DEF TypeOK
  <2>3. TypeOK'
    BY <1>12 DEF Reestablish, TypeOK, Transaction
  <2>4. JournalCoversWrites'
    BY <1>12, <2>1 DEF Reestablish, JournalCoversWrites, StageInv
  <2>5. StageInv(p)'
    BY <1>12, <2>1, <2>2 DEF Reestablish, StageInv, TypeOK
  <2>. QED BY <2>1, <2>3, <2>4, <2>5, TransactionIsAlone DEF Transaction
<1>13. CASE ReestablishFails(p)
  <2>1. /\ pc[p] = "reestablish"
        /\ pc' = [pc EXCEPT ![p] = "idle"]
        /\ holder' = Nobody
    BY <1>13 DEF ReestablishFails
  <2>2. pc'[p] = "idle"
    BY <2>1 DEF TypeOK
  <2>3. TypeOK'
    BY <1>13 DEF ReestablishFails, TypeOK, Transaction
  <2>4. JournalCoversWrites'
    BY <1>13, <2>1 DEF ReestablishFails, JournalCoversWrites, StageInv
  <2>5. StageInv(p)'
    BY <2>2 DEF StageInv
  <2>6. pc[p] \in Transaction /\ "idle" \notin Transaction
    BY <2>1 DEF Transaction
  <2>. QED BY <2>1, <2>3, <2>4, <2>5, <2>6, TransactionIsAlone
<1>. QED BY <1>3, <1>4, <1>5, <1>6, <1>7, <1>8, <1>9, <1>10, <1>11, <1>12, <1>13

(* A restore, of an interrupted write of anybody or of one of its own. *)
LEMMA RestorePreserves ==
    ASSUME CommitInv, NEW p \in Processes,
           RestoreConfig(p) \/ RestoreConfigFails(p) \/ RestoreSecrets(p)
           \/ RestoreSecretsFails(p) \/ ClearRestored(p)
           \/ ClearRestoredFails(p) \/ Reload(p) \/ ReloadFails(p)
    PROVE  CommitInv'
<1>1. TypeOK /\ JournalCoversWrites /\ StageInv(p)
  BY DEF CommitInv
<1>2. Parts(p)
  BY <1>1, PartsTyped
<1>. USE <1>1, <1>2 DEF Parts, Goto, Leave, LatchRollback, Compensate,
                        files, Untouched, Journaled
<1>3. CASE RestoreConfig(p)
  <2>1. /\ pc[p] = "restoreConfig"
        /\ pc' = [pc EXCEPT ![p] = "restoreSecrets"]
        /\ holder' = holder
    BY <1>3 DEF RestoreConfig
  <2>2. pc'[p] = "restoreSecrets"
    BY <2>1 DEF TypeOK
  <2>3. TypeOK'
    BY <1>3 DEF RestoreConfig, TypeOK, Transaction
  <2>4. JournalCoversWrites'
    BY <1>3, <2>1 DEF RestoreConfig, JournalCoversWrites, StageInv
  <2>5. StageInv(p)'
    BY <1>3, <2>1, <2>2 DEF RestoreConfig, StageInv, TypeOK
  <2>. QED BY <2>1, <2>3, <2>4, <2>5, TransactionIsAlone DEF Transaction
<1>4. CASE RestoreConfigFails(p)
  <2>1. /\ pc[p] = "restoreConfig"
        /\ pc' = [pc EXCEPT ![p] = "idle"]
        /\ holder' = Nobody
    BY <1>4 DEF RestoreConfigFails
  <2>2. pc'[p] = "idle"
    BY <2>1 DEF TypeOK
  <2>3. TypeOK'
    BY <1>4 DEF RestoreConfigFails, TypeOK, Transaction
  <2>4. JournalCoversWrites'
    BY <1>4, <2>1 DEF RestoreConfigFails, JournalCoversWrites, StageInv
  <2>5. StageInv(p)'
    BY <2>2 DEF StageInv
  <2>6. pc[p] \in Transaction /\ "idle" \notin Transaction
    BY <2>1 DEF Transaction
  <2>. QED BY <2>1, <2>3, <2>4, <2>5, <2>6, TransactionIsAlone
<1>5. CASE RestoreSecrets(p)
  <2>1. /\ pc[p] = "restoreSecrets"
        /\ pc' = [pc EXCEPT ![p] = "clearRestored"]
        /\ holder' = holder
    BY <1>5 DEF RestoreSecrets
  <2>2. pc'[p] = "clearRestored"
    BY <2>1 DEF TypeOK
  <2>3. TypeOK'
    BY <1>5 DEF RestoreSecrets, TypeOK, Transaction
  <2>4. JournalCoversWrites'
    BY <1>5, <2>1 DEF RestoreSecrets, JournalCoversWrites, StageInv
  <2>5. StageInv(p)'
    BY <1>5, <2>1, <2>2 DEF RestoreSecrets, StageInv, TypeOK
  <2>. QED BY <2>1, <2>3, <2>4, <2>5, TransactionIsAlone DEF Transaction
<1>6. CASE RestoreSecretsFails(p)
  <2>1. /\ pc[p] = "restoreSecrets"
        /\ pc' = [pc EXCEPT ![p] = "idle"]
        /\ holder' = Nobody
    BY <1>6 DEF RestoreSecretsFails
  <2>2. pc'[p] = "idle"
    BY <2>1 DEF TypeOK
  <2>3. TypeOK'
    BY <1>6 DEF RestoreSecretsFails, TypeOK, Transaction
  <2>4. JournalCoversWrites'
    BY <1>6, <2>1 DEF RestoreSecretsFails, JournalCoversWrites, StageInv
  <2>5. StageInv(p)'
    BY <2>2 DEF StageInv
  <2>6. pc[p] \in Transaction /\ "idle" \notin Transaction
    BY <2>1 DEF Transaction
  <2>. QED BY <2>1, <2>3, <2>4, <2>5, <2>6, TransactionIsAlone
<1>7. CASE ClearRestored(p)
  <2>1. /\ pc[p] = "clearRestored"
        /\ pc' = [pc EXCEPT ![p] =
                    IF recovery[p] = "start" THEN "load" ELSE "reload"]
        /\ holder' = holder
    BY <1>7 DEF ClearRestored
  <2>2. pc'[p] = IF recovery[p] = "start" THEN "load" ELSE "reload"
    BY <2>1 DEF TypeOK
  <2>3. TypeOK'
    BY <1>7 DEF ClearRestored, TypeOK, Transaction
  <2>4. JournalCoversWrites'
    BY <1>7, <2>1 DEF ClearRestored, JournalCoversWrites, StageInv
  <2>5. StageInv(p)'
    <3>1. /\ journal' = NoJournal
          /\ UNCHANGED <<config, secrets, before, recovery>>
          /\ config = target[p][1] /\ secrets = target[p][2]
          /\ recovery[p] = "compensate" => target[p] = before[p]
      BY <1>7, <2>1 DEF ClearRestored, StageInv
    <3>2. recovery[p] = "compensate" => before[p] = <<config, secrets>>
      BY <3>1 DEF Contents
    <3>3. pc'[p] = "load" \/ (pc'[p] = "reload" /\ recovery[p] = "compensate")
      BY <2>2 DEF TypeOK
    <3>. QED BY <3>1, <3>2, <3>3 DEF StageInv, Untouched
  <2>. QED BY <2>1, <2>3, <2>4, <2>5, TransactionIsAlone DEF Transaction
<1>8. CASE ClearRestoredFails(p)
  <2>1. /\ pc[p] = "clearRestored"
        /\ pc' = [pc EXCEPT ![p] = "idle"]
        /\ holder' = Nobody
    BY <1>8 DEF ClearRestoredFails
  <2>2. pc'[p] = "idle"
    BY <2>1 DEF TypeOK
  <2>3. TypeOK'
    BY <1>8 DEF ClearRestoredFails, TypeOK, Transaction
  <2>4. JournalCoversWrites'
    BY <1>8, <2>1 DEF ClearRestoredFails, JournalCoversWrites, StageInv
  <2>5. StageInv(p)'
    BY <2>2 DEF StageInv
  <2>6. pc[p] \in Transaction /\ "idle" \notin Transaction
    BY <2>1 DEF Transaction
  <2>. QED BY <2>1, <2>3, <2>4, <2>5, <2>6, TransactionIsAlone
<1>9. CASE Reload(p)
  <2>1. /\ pc[p] = "reload"
        /\ pc' = [pc EXCEPT ![p] = "operate"]
        /\ holder' = holder
    BY <1>9 DEF Reload
  <2>2. pc'[p] = "operate"
    BY <2>1 DEF TypeOK
  <2>3. TypeOK'
    BY <1>9 DEF Reload, TypeOK, Transaction
  <2>4. JournalCoversWrites'
    BY <1>9, <2>1 DEF Reload, JournalCoversWrites, StageInv
  <2>5. StageInv(p)'
    BY <1>9, <2>1, <2>2 DEF Reload, StageInv, TypeOK
  <2>. QED BY <2>1, <2>3, <2>4, <2>5, TransactionIsAlone DEF Transaction
<1>10. CASE ReloadFails(p)
  <2>1. /\ pc[p] = "reload"
        /\ pc' = [pc EXCEPT ![p] = "idle"]
        /\ holder' = Nobody
    BY <1>10 DEF ReloadFails
  <2>2. pc'[p] = "idle"
    BY <2>1 DEF TypeOK
  <2>3. TypeOK'
    BY <1>10 DEF ReloadFails, TypeOK, Transaction
  <2>4. JournalCoversWrites'
    BY <1>10, <2>1 DEF ReloadFails, JournalCoversWrites, StageInv
  <2>5. StageInv(p)'
    BY <2>2 DEF StageInv
  <2>6. pc[p] \in Transaction /\ "idle" \notin Transaction
    BY <2>1 DEF Transaction
  <2>. QED BY <2>1, <2>3, <2>4, <2>5, <2>6, TransactionIsAlone
<1>. QED BY <1>3, <1>4, <1>5, <1>6, <1>7, <1>8, <1>9, <1>10

(* A server that starts or dies leaves the files alone; whoever is in a
   transaction is not disturbed, and a dead process owes nothing. *)
LEMMA StartsAndCrashesPreserve ==
    ASSUME CommitInv, NEW p \in Processes, Start(p) \/ Crash(p)
    PROVE  CommitInv'
<1>1. PICK to \in {"idle", "down"} : pc' = [pc EXCEPT ![p] = to]
  BY DEF Start, Crash, Goto
<1>2. /\ UNCHANGED <<files, recovery, before, draft, target, writes>>
      /\ holder' = IF holder = p THEN Nobody ELSE holder
  <2>1. Start(p) => holder # p
    BY DEF CommitInv, Start, Goto, Transaction
  <2>. QED BY <2>1 DEF Start, Crash
<1>3. TypeOK'
  BY <1>1, <1>2 DEF CommitInv, TypeOK, Start, Crash, files
<1>4. JournalCoversWrites'
  BY <1>2 DEF CommitInv, JournalCoversWrites, files
<1>5. pc'[p] = to /\ to \notin Transaction
  BY <1>1 DEF CommitInv, TypeOK, Transaction
<1>6. \A q \in Processes \ {p} : pc'[q] = pc[q]
  BY <1>1 DEF CommitInv, TypeOK
<1>7. Locking'
  BY <1>2, <1>5, <1>6, DocumentCommitAssumption DEF CommitInv, Locking
<1>8. ASSUME NEW q \in Processes PROVE StageInv(q)'
  <2>1. CASE q = p
    BY <1>5, <2>1 DEF StageInv, Transaction
  <2>2. CASE q # p
    BY <1>2, <1>6, <2>2 DEF CommitInv, StageInv, Untouched, Journaled, files
  <2>. QED BY <2>1, <2>2
<1>. QED BY <1>3, <1>4, <1>7, <1>8 DEF CommitInv, Locking

(* Begin finds the locks free, so every process is outside. *)
LEMMA BeginPreserves ==
    ASSUME CommitInv, NEW p \in Processes, Begin(p)
    PROVE  CommitInv'
<1>1. /\ pc' = [pc EXCEPT ![p] = "reconcile"] /\ holder' = p
      /\ recovery' = [recovery EXCEPT ![p] = "start"]
      /\ UNCHANGED files
  BY DEF Begin, Goto
<1>2. TypeOK'
  BY DEF CommitInv, TypeOK, Begin, Goto, files, Transaction
<1>3. JournalCoversWrites'
  BY <1>1 DEF CommitInv, JournalCoversWrites, files
<1>4. /\ pc'[p] = "reconcile" /\ recovery'[p] = "start"
      /\ \A q \in Processes \ {p} : pc'[q] = pc[q] /\ pc[q] \notin Transaction
  BY <1>1, DocumentCommitAssumption DEF CommitInv, TypeOK, Begin
<1>5. Locking'
  BY <1>1, <1>4 DEF Locking, Transaction
<1>6. ASSUME NEW q \in Processes PROVE StageInv(q)'
  BY <1>4 DEF StageInv, Transaction
<1>. QED BY <1>2, <1>3, <1>5, <1>6 DEF CommitInv, Locking

LEMMA CommitInvNext == CommitInv /\ [Next]_vars => CommitInv'
<1>. SUFFICES ASSUME CommitInv, [Next]_vars PROVE CommitInv'
  OBVIOUS
<1>1. ASSUME NEW p \in Processes, Enter(p) PROVE CommitInv'
  BY <1>1, StartsAndCrashesPreserve, BeginPreserves, EnterPreserves DEF Enter
<1>2. ASSUME NEW p \in Processes, Write(p) PROVE CommitInv'
  BY <1>2, WritePreserves DEF Write
<1>3. ASSUME NEW p \in Processes, Restore(p) PROVE CommitInv'
  BY <1>3, RestorePreserves DEF Restore
<1>4. ASSUME NEW p \in Processes, Crash(p) PROVE CommitInv'
  BY <1>4, StartsAndCrashesPreserve
<1>5. CASE UNCHANGED vars
  BY <1>5 DEF vars, CommitInv, TypeOK, JournalCoversWrites, StageInv,
              Untouched, Journaled
<1>. QED BY <1>1, <1>2, <1>3, <1>4, <1>5 DEF Next

(* The files, the journal and the memory of every process agree at every stage
   of a transaction: between any two steps of writeDocuments, of a rollback and
   of the recovery at the start of the next transaction. *)
THEOREM CommitInvHolds == Spec => []CommitInv
BY CommitInvInit, CommitInvNext, PTL DEF Spec

THEOREM TypeCorrectness == Spec => []TypeOK
<1>1. CommitInv => TypeOK
  BY DEF CommitInv
<1>. QED BY <1>1, CommitInvHolds, PTL

(* Whatever writeDocuments or a restore was interrupted at, the two files belong
   together or the journal holds contents that do. *)
THEOREM JournalAlwaysCovers == Spec => []JournalCoversWrites
<1>1. CommitInv => JournalCoversWrites
  BY DEF CommitInv
<1>. QED BY <1>1, CommitInvHolds, PTL

(* The operation that runMutation calls sees documents that were committed
   together, and the bytes it would roll back to are the ones on the disk. *)
THEOREM OperationsSeeCommitted == Spec => []OperatesOnCommitted
<1>1. CommitInv => OperatesOnCommitted
  BY DEF CommitInv, OperatesOnCommitted, StageInv, JournalCoversWrites,
         Untouched
<1>. QED BY <1>1, CommitInvHolds, PTL

-----------------------------------------------------------------------------
(* The refinement                                                           *)

(* What AtomicDocuments sees of a state, but for the loss of a journal. *)
Promised == <<Current, Writing, answer>>

(* Between two steps at most one write is pending: that of the process that
   holds the locks. *)
LEMMA TransactionWrites ==
    ASSUME CommitInv, NEW p \in Processes, holder \in {p, Nobody}
    PROVE  Writing = IF Busy(p) THEN {Pending(p)} ELSE {}
<1>1. \A q \in Processes \ {p} : ~Busy(q)
  BY DocumentCommitAssumption DEF CommitInv, Busy
<1>2. {q \in Processes : Busy(q)} = IF Busy(p) THEN {p} ELSE {}
  BY <1>1
<1>. QED BY <1>2 DEF Writing

LEMMA TransactionWritesAfter ==
    ASSUME CommitInv', NEW p \in Processes, holder' \in {p, Nobody}
    PROVE  Writing' = IF Busy(p)' THEN {Pending(p)'} ELSE {}
<1>1. \A q \in Processes \ {p} : ~Busy(q)'
  BY DocumentCommitAssumption DEF CommitInv, Busy
<1>2. {q \in Processes : Busy(q)'} = IF Busy(p)' THEN {p} ELSE {}
  BY <1>1
<1>. QED BY <1>2 DEF Writing

LEMMA Proposes ==
    ASSUME NEW p \in Processes, NEW pair \in Pairs,
           Writing = {}, Writing' = {[by |-> p, old |-> Current, new |-> pair]},
           answer' = [answer EXCEPT ![p] = "none"],
           Current' = Current
    PROVE  Atomic!Step
BY DEF Atomic!Step, Atomic!Propose

LEMMA Decides ==
    ASSUME NEW p \in Processes,
           Writing = {Pending(p)}, Writing' = Writing, answer' = answer,
           Current' \in {before[p], draft[p]}
    PROVE  Atomic!Step
BY DEF Atomic!Step, Atomic!Decide, Pending

LEMMA Answers ==
    ASSUME NEW p \in Processes, NEW a \in {"ok", "failed", "unknown"},
           Writing = {Pending(p)}, Writing' = {},
           answer' = [answer EXCEPT ![p] = a],
           Current' \in {before[p], draft[p]},
           a = "ok" => Current' = draft[p],
           a = "failed" => Current' = before[p]
    PROVE  Atomic!Step
BY DEF Atomic!Step, Atomic!Answer, Pending

(* A step inside a transaction that is no step of the abstract specification. *)
LEMMA Stutters ==
    ASSUME CommitInv, CommitInv', NEW p \in Processes,
           holder = p, holder' \in {p, Nobody},
           Busy(p)' <=> Busy(p),
           Busy(p) => UNCHANGED <<before, draft>>,
           Current' = Current, answer' = answer
    PROVE  UNCHANGED Promised
<1>1. Writing = IF Busy(p) THEN {Pending(p)} ELSE {}
  BY TransactionWrites
<1>2. Writing' = IF Busy(p)' THEN {Pending(p)'} ELSE {}
  BY TransactionWritesAfter
<1>. QED BY <1>1, <1>2 DEF Promised, Pending

(* A rollback that fails answers the write it was taking back with
   ROLLBACK_FAILED; the recovery of a write of another process answers
      nobody. *)
LEMMA LatchRefines ==
    ASSUME CommitInv, CommitInv', NEW p \in Processes, NEW from,
           from \in Transaction \ {"load", "operate"}, LatchRollback(p, from),
           recovery[p] = "compensate" => Current' \in {before[p], draft[p]},
           recovery[p] = "start" => Current' = Current
    PROVE  Atomic!Step \/ UNCHANGED Promised
<1>1. /\ pc[p] = from /\ pc'[p] = "idle" /\ holder = p /\ holder' = Nobody
  BY DEF LatchRollback, Leave, Goto, CommitInv, TypeOK
<1>2. ~Busy(p)'
  BY <1>1 DEF Busy, Transaction
<1>3. CASE recovery[p] = "compensate"
  <2>1. Writing = {Pending(p)}
    BY <1>1, <1>3, TransactionWrites DEF Busy
  <2>2. Writing' = {}
    BY <1>1, <1>2, TransactionWritesAfter
  <2>3. answer' = [answer EXCEPT ![p] = "unknown"]
    BY <1>3 DEF LatchRollback
  <2>. QED BY <1>3, <2>1, <2>2, <2>3, Answers
<1>4. CASE recovery[p] = "start"
  <2>1. answer' = answer
    BY <1>4 DEF LatchRollback
  <2>2. ~Busy(p)
    BY <1>4 DEF Busy
  <2>. QED BY <1>1, <1>2, <1>4, <2>1, <2>2, Stutters
<1>. QED BY <1>3, <1>4 DEF CommitInv, TypeOK

(* Taking the locks forgets the last answer; the recovery of an interrupted
   write
   has to leave what the documents are. *)
LEMMA EnterRefines ==
    ASSUME CommitInv, CommitInv', ~quarantined', NEW p \in Processes,
           Begin(p) \/ NothingToReconcile(p) \/ Reconcile(p)
           \/ Quarantine(p) \/ Load(p) \/ LoadFails(p) \/ End(p)
    PROVE  Atomic!Step \/ UNCHANGED Promised
<1>1. TypeOK /\ StageInv(p) /\ (pc[p] \in Transaction => holder = p)
  BY DEF CommitInv
<1>2. Parts(p)
  BY <1>1, PartsTyped
<1>. USE <1>1, <1>2
<1>3. CASE Begin(p)
  <2>1. holder = Nobody /\ holder' = p /\ recovery'[p] = "start" /\ pc[p] =
     "idle"
    BY <1>3 DEF Begin, Goto, TypeOK
  <2>2. ~Busy(p) /\ ~Busy(p)'
    BY <2>1 DEF Busy, Transaction
  <2>3. Writing = {} /\ Writing' = {}
    BY <2>1, <2>2, TransactionWrites, TransactionWritesAfter
  <2>4. Current' = Current /\ answer' = [answer EXCEPT ![p] = "none"]
    BY <1>3 DEF Begin, Current, files
  <2>. QED BY <2>3, <2>4 DEF Atomic!Step, Atomic!Abandon
<1>4. CASE NothingToReconcile(p)
  <2>1. /\ pc[p] = "reconcile" /\ holder' = holder
        /\ pc'[p] = IF recovery[p] = "start" THEN "load" ELSE "reload"
    BY <1>4 DEF NothingToReconcile, Goto, files, TypeOK
  <2>2. Busy(p)' <=> Busy(p)
    BY <1>4, <2>1 DEF NothingToReconcile, Goto, files, Busy, Transaction,
                      StageInv
  <2>3. Current' = Current
    BY <1>4, <2>1 DEF NothingToReconcile, Goto, files, Current, StageInv,
                      Untouched, Journaled, Parts
  <2>4. answer' = answer /\ (Busy(p) => UNCHANGED <<before, draft>>)
    BY <1>4, <2>1 DEF NothingToReconcile, Goto, files, Busy
  <2>. QED BY <2>1, <2>2, <2>3, <2>4, Stutters DEF Transaction
<1>5. CASE Reconcile(p)
  <2>1. pc[p] = "reconcile" /\ pc'[p] = "restoreConfig" /\ holder' = holder
    BY <1>5 DEF Reconcile, Goto, files, TypeOK
  <2>2. Busy(p)' <=> Busy(p)
    BY <1>5, <2>1 DEF Reconcile, Goto, files, Busy, Transaction, StageInv
  <2>3. Current' = Current
    BY <1>5, <2>1 DEF Reconcile, Goto, files, Current, StageInv, Untouched,
                      Journaled, Parts
  <2>4. answer' = answer /\ (Busy(p) => UNCHANGED <<before, draft>>)
    BY <1>5, <2>1 DEF Reconcile, Goto, files, Busy
  <2>. QED BY <2>1, <2>2, <2>3, <2>4, Stutters DEF Transaction
<1>6. CASE Quarantine(p)
  <2>1. pc[p] = "reconcile" /\ LatchRollback(p, "reconcile")
    BY <1>6 DEF Quarantine, LatchRollback, Leave, Goto
  <2>2. Current' = Current
    BY <1>6 DEF Quarantine, Current
  <2>3. recovery[p] = "compensate" => Current \in {before[p], draft[p]}
    BY <2>1 DEF Current, StageInv, Untouched, Journaled
  <2>. QED BY <2>1, <2>2, <2>3, LatchRefines DEF Transaction
<1>7. CASE Load(p)
  <2>1. pc[p] = "load" /\ pc'[p] = "operate" /\ holder' = holder
    BY <1>7 DEF Load, Goto, files, TypeOK
  <2>2. Busy(p)' <=> Busy(p)
    BY <1>7, <2>1 DEF Load, Goto, files, Busy, Transaction, StageInv
  <2>3. Current' = Current
    BY <1>7, <2>1 DEF Load, Goto, files, Current, StageInv, Untouched,
                      Journaled, Parts
  <2>4. answer' = answer /\ (Busy(p) => UNCHANGED <<before, draft>>)
    BY <1>7, <2>1 DEF Load, Goto, files, Busy
  <2>. QED BY <2>1, <2>2, <2>3, <2>4, Stutters DEF Transaction
<1>8. CASE LoadFails(p)
  <2>1. pc[p] = "load" /\ pc'[p] = "idle" /\ holder' = Nobody
    BY <1>8 DEF LoadFails, Leave, Goto, files, TypeOK
  <2>2. Busy(p)' <=> Busy(p)
    BY <1>8, <2>1 DEF LoadFails, Leave, Goto, files, Busy, Transaction, StageInv
  <2>3. Current' = Current
    BY <1>8, <2>1 DEF LoadFails, Leave, Goto, files, Current, StageInv,
                      Untouched, Journaled, Parts
  <2>4. answer' = answer /\ (Busy(p) => UNCHANGED <<before, draft>>)
    BY <1>8, <2>1 DEF LoadFails, Leave, Goto, files, Busy
  <2>. QED BY <2>1, <2>2, <2>3, <2>4, Stutters DEF Transaction
<1>9. CASE End(p)
  <2>1. pc[p] = "operate" /\ pc'[p] = "idle" /\ holder' = Nobody
    BY <1>9 DEF End, Leave, Goto, files, TypeOK
  <2>2. Busy(p)' <=> Busy(p)
    BY <1>9, <2>1 DEF End, Leave, Goto, files, Busy, Transaction, StageInv
  <2>3. Current' = Current
    BY <1>9, <2>1 DEF End, Leave, Goto, files, Current, StageInv, Untouched,
                      Journaled, Parts
  <2>4. answer' = answer /\ (Busy(p) => UNCHANGED <<before, draft>>)
    BY <1>9, <2>1 DEF End, Leave, Goto, files, Busy
  <2>. QED BY <2>1, <2>2, <2>3, <2>4, Stutters DEF Transaction
<1>. QED BY <1>3, <1>4, <1>5, <1>6, <1>7, <1>8, <1>9

(* The write takes effect when the journal goes. *)
LEMMA WriteRefines ==
    ASSUME CommitInv, CommitInv', NEW p \in Processes,
           Propose(p) \/ WriteJournal(p) \/ WriteJournalFails(p)
           \/ WriteConfig(p) \/ WriteConfigFails(p) \/ WriteSecrets(p)
           \/ WriteSecretsFails(p) \/ ClearJournal(p)
           \/ ClearJournalFails(p) \/ Reestablish(p) \/ ReestablishFails(p)
    PROVE  Atomic!Step \/ UNCHANGED Promised
<1>1. TypeOK /\ StageInv(p) /\ (pc[p] \in Transaction => holder = p)
  BY DEF CommitInv
<1>2. Parts(p)
  BY <1>1, PartsTyped
<1>. USE <1>1, <1>2
<1>3. CASE Propose(p)
  <2>1. /\ pc[p] = "operate" /\ pc'[p] = "journal" /\ holder' = holder
        /\ recovery'[p] = "compensate"
    BY <1>3 DEF Propose, Goto, TypeOK
  <2>2. ~Busy(p) /\ Busy(p)'
    BY <2>1 DEF Busy, Transaction
  <2>3. Writing = {} /\ Writing' = {Pending(p)'}
    BY <2>1, <2>2, TransactionWrites, TransactionWritesAfter DEF Transaction
  <2>4. Current = before[p] /\ Current' = Current /\ before'[p] = before[p]
    BY <1>3, <2>1 DEF Propose, Current, StageInv, Untouched, files
  <2>5. draft'[p] \in Pairs
    BY DEF CommitInv, TypeOK
  <2>6. Pending(p)' = [by |-> p, old |-> Current, new |-> draft'[p]]
    BY <2>4 DEF Pending
  <2>7. answer' = [answer EXCEPT ![p] = "none"]
    BY <1>3 DEF Propose
  <2>. QED BY <2>3, <2>4, <2>5, <2>6, <2>7, Proposes
<1>4. CASE WriteJournal(p)
  <2>1. pc[p] = "journal" /\ pc'[p] = "config" /\ holder' = holder
    BY <1>4 DEF WriteJournal, Goto, files, TypeOK
  <2>2. Busy(p)' <=> Busy(p)
    BY <1>4, <2>1 DEF WriteJournal, Goto, files, Busy, Transaction, StageInv
  <2>3. Current' = Current
    BY <1>4, <2>1 DEF WriteJournal, Goto, files, Current, StageInv,
                      Untouched, Journaled, Parts
  <2>4. answer' = answer /\ (Busy(p) => UNCHANGED <<before, draft>>)
    BY <1>4, <2>1 DEF WriteJournal, Goto, files, Busy
  <2>. QED BY <2>1, <2>2, <2>3, <2>4, Stutters DEF Transaction
<1>5. CASE WriteJournalFails(p)
  <2>1. pc[p] = "journal" /\ pc'[p] = "reconcile" /\ holder' = holder
    BY <1>5 DEF WriteJournalFails, Goto, files, TypeOK
  <2>2. Busy(p)' <=> Busy(p)
    BY <1>5, <2>1 DEF WriteJournalFails, Goto, files, Busy, Transaction,
                      StageInv
  <2>3. Current' = Current
    BY <1>5, <2>1 DEF WriteJournalFails, Goto, files, Current, StageInv,
                      Untouched, Journaled, Parts
  <2>4. answer' = answer /\ (Busy(p) => UNCHANGED <<before, draft>>)
    BY <1>5, <2>1 DEF WriteJournalFails, Goto, files, Busy
  <2>. QED BY <2>1, <2>2, <2>3, <2>4, Stutters DEF Transaction
<1>6. CASE WriteConfig(p)
  <2>1. pc[p] = "config" /\ pc'[p] = "secrets" /\ holder' = holder
    BY <1>6 DEF WriteConfig, Goto, files, TypeOK
  <2>2. Busy(p)' <=> Busy(p)
    BY <1>6, <2>1 DEF WriteConfig, Goto, files, Busy, Transaction, StageInv
  <2>3. Current' = Current
    BY <1>6, <2>1 DEF WriteConfig, Goto, files, Current, StageInv,
                      Untouched, Journaled, Parts
  <2>4. answer' = answer /\ (Busy(p) => UNCHANGED <<before, draft>>)
    BY <1>6, <2>1 DEF WriteConfig, Goto, files, Busy
  <2>. QED BY <2>1, <2>2, <2>3, <2>4, Stutters DEF Transaction
<1>7. CASE WriteConfigFails(p)
  <2>1. pc[p] = "config" /\ pc'[p] = "restoreConfig" /\ holder' = holder
    BY <1>7 DEF WriteConfigFails, Compensate, Goto, files, TypeOK
  <2>2. Busy(p)' <=> Busy(p)
    BY <1>7, <2>1 DEF WriteConfigFails, Compensate, Goto, files, Busy,
                      Transaction, StageInv
  <2>3. Current' = Current
    BY <1>7, <2>1 DEF WriteConfigFails, Compensate, Goto, files, Current,
                      StageInv, Untouched, Journaled, Parts
  <2>4. answer' = answer /\ (Busy(p) => UNCHANGED <<before, draft>>)
    BY <1>7, <2>1 DEF WriteConfigFails, Compensate, Goto, files, Busy
  <2>. QED BY <2>1, <2>2, <2>3, <2>4, Stutters DEF Transaction
<1>8. CASE WriteSecrets(p)
  <2>1. pc[p] = "secrets" /\ pc'[p] = "clear" /\ holder' = holder
    BY <1>8 DEF WriteSecrets, Goto, files, TypeOK
  <2>2. Busy(p)' <=> Busy(p)
    BY <1>8, <2>1 DEF WriteSecrets, Goto, files, Busy, Transaction, StageInv
  <2>3. Current' = Current
    BY <1>8, <2>1 DEF WriteSecrets, Goto, files, Current, StageInv,
                      Untouched, Journaled, Parts
  <2>4. answer' = answer /\ (Busy(p) => UNCHANGED <<before, draft>>)
    BY <1>8, <2>1 DEF WriteSecrets, Goto, files, Busy
  <2>. QED BY <2>1, <2>2, <2>3, <2>4, Stutters DEF Transaction
<1>9. CASE WriteSecretsFails(p)
  <2>1. pc[p] = "secrets" /\ pc'[p] = "restoreConfig" /\ holder' = holder
    BY <1>9 DEF WriteSecretsFails, Compensate, Goto, files, TypeOK
  <2>2. Busy(p)' <=> Busy(p)
    BY <1>9, <2>1 DEF WriteSecretsFails, Compensate, Goto, files, Busy,
                      Transaction, StageInv
  <2>3. Current' = Current
    BY <1>9, <2>1 DEF WriteSecretsFails, Compensate, Goto, files, Current,
                      StageInv, Untouched, Journaled, Parts
  <2>4. answer' = answer /\ (Busy(p) => UNCHANGED <<before, draft>>)
    BY <1>9, <2>1 DEF WriteSecretsFails, Compensate, Goto, files, Busy
  <2>. QED BY <2>1, <2>2, <2>3, <2>4, Stutters DEF Transaction
<1>10. CASE ClearJournal(p)
  <2>1. /\ pc[p] = "clear" /\ pc'[p] = "operate" /\ holder' = holder
        /\ recovery[p] = "compensate"
    BY <1>10 DEF ClearJournal, Goto, TypeOK, StageInv
  <2>2. Writing = {Pending(p)} /\ Writing' = {}
    BY <2>1, TransactionWrites, TransactionWritesAfter DEF Busy, Transaction
  <2>3. Current' = draft[p]
    BY <1>10, <2>1 DEF ClearJournal, Current, StageInv, Parts
  <2>4. answer' = [answer EXCEPT ![p] = "ok"]
    BY <1>10 DEF ClearJournal
  <2>. QED BY <2>2, <2>3, <2>4, Answers
<1>11. CASE ClearJournalFails(p)
  <2>1. /\ pc[p] = "clear" /\ pc'[p] \in {"restoreConfig", "reestablish"}
        /\ holder' = holder
        /\ recovery[p] = "compensate" /\ recovery'[p] = "compensate"
    BY <1>11 DEF ClearJournalFails, Compensate, Goto, TypeOK, StageInv
  <2>2. Writing = {Pending(p)} /\ Writing' = {Pending(p)'}
    BY <2>1, TransactionWrites, TransactionWritesAfter DEF Busy, Transaction
  <2>3. Pending(p)' = Pending(p) /\ answer' = answer
    BY <1>11 DEF ClearJournalFails, Compensate, Pending
  <2>4. journal' \in {journal, NoJournal} /\ UNCHANGED <<config, secrets>>
    BY <1>11 DEF ClearJournalFails
  <2>5. Current' \in {before[p], draft[p]}
    BY <2>1, <2>4 DEF Current, StageInv, Journaled, Parts
  <2>. QED BY <2>2, <2>3, <2>5, Decides
<1>12. CASE Reestablish(p)
  <2>1. /\ pc[p] = "reestablish" /\ pc'[p] = "restoreConfig" /\ holder' = holder
        /\ recovery[p] = "compensate" /\ recovery'[p] = "compensate"
    BY <1>12 DEF Reestablish, Goto, TypeOK, StageInv
  <2>2. Writing = {Pending(p)} /\ Writing' = {Pending(p)'}
    BY <2>1, TransactionWrites, TransactionWritesAfter DEF Busy, Transaction
  <2>3. Pending(p)' = Pending(p) /\ answer' = answer
    BY <1>12 DEF Reestablish, Pending
  <2>4. Current' = before[p]
    BY <1>12, <2>1 DEF Reestablish, Current, StageInv, Parts
  <2>. QED BY <2>2, <2>3, <2>4, Decides
<1>13. CASE ReestablishFails(p)
  <2>1. pc[p] = "reestablish" /\ LatchRollback(p, "reestablish")
    BY <1>13 DEF ReestablishFails, LatchRollback, Leave, Goto
  <2>2. recovery[p] = "compensate" => Current' \in {before[p], draft[p]}
    BY <1>13, <2>1 DEF ReestablishFails, Current, StageInv, Untouched,
                       Journaled, Parts, files
  <2>3. recovery[p] = "start" => Current' = Current
    BY <1>13, <2>1 DEF ReestablishFails, Current, StageInv, Parts, files
  <2>. QED BY <2>1, <2>2, <2>3, LatchRefines DEF Transaction
<1>. QED BY <1>3, <1>4, <1>5, <1>6, <1>7, <1>8, <1>9, <1>10, <1>11, <1>12, <1>13

(* A rollback takes the write back, or fails and says so. *)
LEMMA RestoreRefines ==
    ASSUME CommitInv, CommitInv', NEW p \in Processes,
           RestoreConfig(p) \/ RestoreConfigFails(p) \/ RestoreSecrets(p)
           \/ RestoreSecretsFails(p) \/ ClearRestored(p)
           \/ ClearRestoredFails(p) \/ Reload(p) \/ ReloadFails(p)
    PROVE  Atomic!Step \/ UNCHANGED Promised
<1>1. TypeOK /\ StageInv(p) /\ (pc[p] \in Transaction => holder = p)
  BY DEF CommitInv
<1>2. Parts(p)
  BY <1>1, PartsTyped
<1>. USE <1>1, <1>2
<1>3. CASE RestoreConfig(p)
  <2>1. pc[p] = "restoreConfig" /\ pc'[p] = "restoreSecrets" /\ holder' = holder
    BY <1>3 DEF RestoreConfig, Goto, files, TypeOK
  <2>2. Busy(p)' <=> Busy(p)
    BY <1>3, <2>1 DEF RestoreConfig, Goto, files, Busy, Transaction, StageInv
  <2>3. Current' = Current
    BY <1>3, <2>1 DEF RestoreConfig, Goto, files, Current, StageInv,
                      Untouched, Journaled, Parts
  <2>4. answer' = answer /\ (Busy(p) => UNCHANGED <<before, draft>>)
    BY <1>3, <2>1 DEF RestoreConfig, Goto, files, Busy
  <2>. QED BY <2>1, <2>2, <2>3, <2>4, Stutters DEF Transaction
<1>4. CASE RestoreConfigFails(p)
  <2>1. pc[p] = "restoreConfig" /\ LatchRollback(p, "restoreConfig")
    BY <1>4 DEF RestoreConfigFails, LatchRollback, Leave, Goto
  <2>2. recovery[p] = "compensate" => Current' \in {before[p], draft[p]}
    BY <1>4, <2>1 DEF RestoreConfigFails, Current, StageInv, Untouched,
                      Journaled, Parts, files
  <2>3. recovery[p] = "start" => Current' = Current
    BY <1>4, <2>1 DEF RestoreConfigFails, Current, StageInv, Parts, files
  <2>. QED BY <2>1, <2>2, <2>3, LatchRefines DEF Transaction
<1>5. CASE RestoreSecrets(p)
  <2>1. pc[p] = "restoreSecrets" /\ pc'[p] = "clearRestored" /\ holder' = holder
    BY <1>5 DEF RestoreSecrets, Goto, files, TypeOK
  <2>2. Busy(p)' <=> Busy(p)
    BY <1>5, <2>1 DEF RestoreSecrets, Goto, files, Busy, Transaction, StageInv
  <2>3. Current' = Current
    BY <1>5, <2>1 DEF RestoreSecrets, Goto, files, Current, StageInv,
                      Untouched, Journaled, Parts
  <2>4. answer' = answer /\ (Busy(p) => UNCHANGED <<before, draft>>)
    BY <1>5, <2>1 DEF RestoreSecrets, Goto, files, Busy
  <2>. QED BY <2>1, <2>2, <2>3, <2>4, Stutters DEF Transaction
<1>6. CASE RestoreSecretsFails(p)
  <2>1. pc[p] = "restoreSecrets" /\ LatchRollback(p, "restoreSecrets")
    BY <1>6 DEF RestoreSecretsFails, LatchRollback, Leave, Goto
  <2>2. recovery[p] = "compensate" => Current' \in {before[p], draft[p]}
    BY <1>6, <2>1 DEF RestoreSecretsFails, Current, StageInv, Untouched,
                      Journaled, Parts, files
  <2>3. recovery[p] = "start" => Current' = Current
    BY <1>6, <2>1 DEF RestoreSecretsFails, Current, StageInv, Parts, files
  <2>. QED BY <2>1, <2>2, <2>3, LatchRefines DEF Transaction
<1>7. CASE ClearRestored(p)
  <2>1. /\ pc[p] = "clearRestored" /\ holder' = holder
        /\ pc'[p] = IF recovery[p] = "start" THEN "load" ELSE "reload"
    BY <1>7 DEF ClearRestored, Goto, files, TypeOK
  <2>2. Busy(p)' <=> Busy(p)
    BY <1>7, <2>1 DEF ClearRestored, Goto, files, Busy, Transaction, StageInv
  <2>3. Current' = Current
    BY <1>7, <2>1 DEF ClearRestored, Goto, files, Current, StageInv,
                      Untouched, Journaled, Parts
  <2>4. answer' = answer /\ (Busy(p) => UNCHANGED <<before, draft>>)
    BY <1>7, <2>1 DEF ClearRestored, Goto, files, Busy
  <2>. QED BY <2>1, <2>2, <2>3, <2>4, Stutters DEF Transaction
<1>8. CASE ClearRestoredFails(p)
  <2>1. pc[p] = "clearRestored" /\ LatchRollback(p, "clearRestored")
    BY <1>8 DEF ClearRestoredFails, LatchRollback, Leave, Goto
  <2>2. recovery[p] = "compensate" => Current' \in {before[p], draft[p]}
    BY <1>8, <2>1 DEF ClearRestoredFails, Current, StageInv, Untouched,
                      Journaled, Parts, files
  <2>3. recovery[p] = "start" => Current' = Current
    BY <1>8, <2>1 DEF ClearRestoredFails, Current, StageInv, Parts, files
  <2>. QED BY <2>1, <2>2, <2>3, LatchRefines DEF Transaction
<1>9. CASE Reload(p)
  <2>1. /\ pc[p] = "reload" /\ pc'[p] = "operate" /\ holder' = holder
        /\ recovery[p] = "compensate"
    BY <1>9 DEF Reload, Goto, TypeOK, StageInv
  <2>2. Writing = {Pending(p)} /\ Writing' = {}
    BY <2>1, TransactionWrites, TransactionWritesAfter DEF Busy, Transaction
  <2>3. Current' = before[p]
    BY <1>9, <2>1 DEF Reload, Current, StageInv, Untouched, files
  <2>4. answer' = [answer EXCEPT ![p] = "failed"]
    BY <1>9 DEF Reload
  <2>. QED BY <2>2, <2>3, <2>4, Answers
<1>10. CASE ReloadFails(p)
  <2>1. pc[p] = "reload" /\ LatchRollback(p, "reload")
    BY <1>10 DEF ReloadFails, LatchRollback, Leave, Goto
  <2>2. recovery[p] = "compensate" => Current' \in {before[p], draft[p]}
    BY <1>10, <2>1 DEF ReloadFails, Current, StageInv, Untouched, Journaled,
                       Parts, files
  <2>3. recovery[p] = "start" => Current' = Current
    BY <1>10, <2>1 DEF ReloadFails, Current, StageInv, Parts, files
  <2>. QED BY <2>1, <2>2, <2>3, LatchRefines DEF Transaction
<1>. QED BY <1>3, <1>4, <1>5, <1>6, <1>7, <1>8, <1>9, <1>10

LEMMA StartsAndCrashesRefine ==
    ASSUME CommitInv, CommitInv', NEW p \in Processes, Start(p) \/ Crash(p)
    PROVE  Atomic!Step \/ UNCHANGED Promised
<1>1. /\ UNCHANGED <<files, recovery, before, draft>>
      /\ pc'[p] \notin Transaction
      /\ \A q \in Processes \ {p} : pc'[q] = pc[q]
  BY DEF Start, Crash, Goto, CommitInv, TypeOK, Transaction
<1>2. Current' = Current
  BY <1>1 DEF Current, files
<1>3. /\ ~Busy(p)'
      /\ \A q \in Processes \ {p} : Busy(q)' <=> Busy(q)
      /\ \A q \in Processes : Pending(q)' = Pending(q)
  BY <1>1 DEF Busy, Pending
<1>4. Writing' = {w \in Writing : w.by # p}
  <2>1. \A q \in Processes : Pending(q).by = q
    BY DEF Pending
  <2>. QED BY <1>3, <2>1 DEF Writing
<1>5. CASE Crash(p)
  BY <1>2, <1>4, <1>5 DEF Crash, Atomic!Step, Atomic!Abandon
<1>6. CASE Start(p)
  <2>1. ~Busy(p)
    BY <1>6 DEF Start, Goto, Busy, Transaction
  <2>2. \A w \in Writing : w.by # p
    BY <2>1 DEF Writing, Pending
  <2>. QED BY <1>2, <1>4, <1>6, <2>2 DEF Start, Promised
<1>. QED BY <1>5, <1>6

(* A journal is moved away once and for all. *)
LEMMA OnlyQuarantineLoses ==
    ASSUME [Next]_vars, ~quarantined', TypeOK PROVE quarantined' = quarantined
BY DEF Next, vars, files, Enter, Write, Restore, Start, Begin,
       NothingToReconcile, Reconcile, Quarantine, Load, LoadFails, End, Propose,
       WriteJournal, WriteJournalFails, WriteConfig, WriteConfigFails,
       WriteSecrets, WriteSecretsFails, ClearJournal, ClearJournalFails,
       Compensate, Reestablish, ReestablishFails, RestoreConfig,
       RestoreConfigFails, RestoreSecrets, RestoreSecretsFails, ClearRestored,
       ClearRestoredFails, Reload, ReloadFails, Crash

LEMMA StepRefines ==
    ASSUME CommitInv, CommitInv', ~quarantined', [Next]_vars
    PROVE  Atomic!Step \/ UNCHANGED Promised
<1>1. ASSUME NEW p \in Processes, Enter(p)
      PROVE  Atomic!Step \/ UNCHANGED Promised
  BY <1>1, EnterRefines, StartsAndCrashesRefine DEF Enter
<1>2. ASSUME NEW p \in Processes, Write(p)
      PROVE  Atomic!Step \/ UNCHANGED Promised
  BY <1>2, WriteRefines DEF Write
<1>3. ASSUME NEW p \in Processes, Restore(p)
      PROVE  Atomic!Step \/ UNCHANGED Promised
  BY <1>3, RestoreRefines DEF Restore
<1>4. ASSUME NEW p \in Processes, Crash(p)
      PROVE  Atomic!Step \/ UNCHANGED Promised
  BY <1>4, StartsAndCrashesRefine
<1>5. CASE UNCHANGED vars
  BY <1>5 DEF vars, Promised, Current, Writing, Busy, Pending
<1>. QED BY <1>1, <1>2, <1>3, <1>4, <1>5 DEF Next

LEMMA NextRefines ==
    ASSUME CommitInv, CommitInv', [Next]_vars
    PROVE  [Atomic!Next]_(Atomic!vars)
<1>1. CASE quarantined'
  <2>1. quarantined' = TRUE
    BY <1>1 DEF CommitInv, TypeOK
  <2>. QED BY <2>1 DEF Atomic!Next, Atomic!Lose
<1>2. CASE ~quarantined'
  <2>1. quarantined' = quarantined
    BY <1>2, OnlyQuarantineLoses DEF CommitInv
  <2>2. Atomic!Step \/ UNCHANGED Promised
    BY <1>2, StepRefines
  <2>. QED BY <2>1, <2>2 DEF Atomic!Next, Atomic!vars, Promised
<1>. QED BY <1>1, <1>2

LEMMA InitRefines == Init => Atomic!Init
BY DEF Init, Atomic!Init, Current, Writing, Busy, Transaction

(* The journaled commit implements the atomic one, for any number of processes
   and writes, as long as no journal had to be moved away unread. *)
THEOREM CommitIsAtomic == Spec => CommitsAtomically
<1>1. CommitInv /\ CommitInv' /\ [Next]_vars => [Atomic!Next]_(Atomic!vars)
  BY NextRefines
<1>. QED BY <1>1, InitRefines, CommitInvHolds, PTL
        DEF Spec, CommitsAtomically, Atomic!Spec
=============================================================================

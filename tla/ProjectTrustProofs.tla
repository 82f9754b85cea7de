-------------------------- MODULE ProjectTrustProofs --------------------------
(***************************************************************************)
(* What holds of the trust of any number of projects, changed by any       *)
(* number of requests to any number of servers. The argument is one        *)
(* inductive invariant, TrustInv: a server has one mutation at a time, the *)
(* one at the head of its queue, so the copy it would roll back to and the *)
(* document it loads are genuine and hold every change it has answered.    *)
(***************************************************************************)
EXTENDS ProjectTrust, TLAPS

(* The mutex: who has begun is at the head of the queue of its server. *)
Serial ==
    \A r \in Requests :
        /\ pc[r] = "queued" =>
            \E k \in 1..Len(queue[ServerOf[r]]) : queue[ServerOf[r]][k] = r
        /\ InMutation(r) => queue[ServerOf[r]] # <<>> /\ Head(queue[ServerOf[r]]) = r

(* The lock: its holder alone writes, and what it writes differs from the disk
   in its own record. *)
Locked ==
    \A r \in Requests :
        /\ pc[r] \in {"merged", "written"} <=> lock = r
        /\ pc[r] = "merged" => staged = [disk EXCEPT ![ProjectOf[r]] = r]

Committed == written \union {Original}

(* What is on the disk was written, for that project, by a request that has
   passed its write. *)
DiskGenuine ==
    /\ \A p \in Projects :
        /\ disk[p] \in Committed
        /\ disk[p] \in Requests => ProjectOf[disk[p]] = p
    /\ \A r \in written : pc[r] \notin {"idle", "queued", "waiting", "merged"}

(* What a server would roll back to, and what it has just loaded. *)
CopiesGenuine ==
    /\ \A i \in Servers, p \in Projects : backup[i][p] \in Committed
    /\ \A r \in Requests, p \in Projects :
        pc[r] = "reloaded" => memory[ServerOf[r]][p] \in Committed

(* A change on the disk that was made through the server i. *)
Own(i, p) == disk[p] \in Requests /\ ServerOf[disk[p]] = i

(* Both of them hold the answered changes of their server; and once a mutation
   is written, an earlier one for the same project is no longer on the disk. *)
CopiesHold ==
    \A q \in Requests, p \in Projects :
        LET i == ServerOf[q] IN
        /\ InMutation(q) /\ Own(i, p) /\ pc[disk[p]] = "done" => backup[i][p] = disk[p]
        /\ pc[q] = "reloaded" /\ Own(i, p) => memory[i][p] = disk[p]
        /\ pc[q] \in {"written", "unlocked", "reloaded"} /\ ProjectOf[q] = p /\ Own(i, p)
            => disk[p] = q

(* What a server believes of a project whose record it has answered: that
   record, or the one its mutation in progress is about to put there. *)
Believes ==
    \A i \in Servers, p \in Projects :
        Own(i, p) /\ pc[disk[p]] = "done" =>
            \/ Fresh(i)[p] = disk[p]
            \/ \E q \in Requests :
                /\ InMutation(q) /\ ServerOf[q] = i /\ ProjectOf[q] = p
                /\ Fresh(i)[p] = q

TrustInv ==
    /\ TypeOK
    /\ Serial
    /\ Locked
    /\ DiskGenuine
    /\ CopiesGenuine
    /\ NothingUncommittedOutlives
    /\ CopiesHold
    /\ Believes
    /\ RemovalEndsReviews

-----------------------------------------------------------------------------
(* Two requests that have begun on one server are one. *)
LEMMA OneMutation ==
    ASSUME Serial, NEW r \in Requests, NEW q \in Requests, ServerOf[q] = ServerOf[r],
           InMutation(q), InMutation(r) \/ HasTurn(r)
    PROVE  InMutation(r) /\ q = r
  BY DEF Serial, InMutation, HasTurn

LEMMA FreshType ==
    ASSUME TypeOK, NEW i \in Servers
    PROVE  Fresh(i) \in Documents
  BY DEF TypeOK, Fresh

LEMMA RequestsAreRecords ==
    /\ Original \notin Requests
    /\ Nobody \notin Requests
    /\ Requests \subseteq Records
    /\ Original \in Records
    /\ ServerOf \in [Requests -> Servers]
    /\ ProjectOf \in [Requests -> Projects]
  BY ProjectTrustAssumption DEF Records

LEMMA InitInv == Init => TrustInv
<1> SUFFICES ASSUME Init PROVE TrustInv
  OBVIOUS
<1> USE RequestsAreRecords DEF Init
<1>1. Unset \in Documents
  BY DEF Unset, Documents
<1>2. TypeOK
  BY <1>1, ProjectTrustAssumption DEF TypeOK
<1>3. Serial /\ Locked
  BY DEF Serial, Locked, InMutation
<1>4. DiskGenuine /\ CopiesGenuine
  BY DEF DiskGenuine, CopiesGenuine, Committed, Unset
<1>5. NothingUncommittedOutlives /\ CopiesHold
  BY DEF NothingUncommittedOutlives, CopiesHold, Own, Unset
<1>6. Believes /\ RemovalEndsReviews
  BY DEF Believes, RemovalEndsReviews, Own, Unset
<1> QED
  BY <1>2, <1>3, <1>4, <1>5, <1>6 DEF TrustInv

(* The head of the queue leaves; the others keep waiting in it. *)
LEMMA EndedQueue ==
    ASSUME TypeOK, Serial, NEW r \in Requests, NEW how \in {"done", "failed"},
           HasTurn(r) \/ InMutation(r), Ended(r, how)
    PROVE  /\ queue' \in [Servers -> Seq(Requests)]
           /\ pc' = [pc EXCEPT ![r] = how]
           /\ backup' \in [Servers -> Documents]
           /\ existing' \in [Requests -> Records]
           /\ Serial'
<1> DEFINE i == ServerOf[r]
<1> USE RequestsAreRecords
<1>1. i \in Servers /\ queue[i] \in Seq(Requests)
  BY DEF TypeOK
<1>2. queue[i] # <<>> /\ Head(queue[i]) = r
  <2>1. CASE HasTurn(r)
    BY <2>1, <1>1 DEF HasTurn, Serial
  <2>2. CASE InMutation(r)
    BY <2>2 DEF Serial
  <2> QED
    BY <2>1, <2>2
<1>3. /\ Tail(queue[i]) \in Seq(Requests)
      /\ Len(Tail(queue[i])) = Len(queue[i]) - 1
      /\ \A k \in 2..Len(queue[i]) : Tail(queue[i])[k - 1] = queue[i][k]
      /\ queue[i][1] = r /\ Len(queue[i]) \in Nat
  BY <1>1, <1>2
<1>4. queue' = [queue EXCEPT ![i] = Tail(@)] /\ pc' = [pc EXCEPT ![r] = how]
  BY DEF Ended
<1>5. Unset \in Documents
  BY DEF Unset, Documents
<1>6. /\ queue' \in [Servers -> Seq(Requests)]
      /\ backup' \in [Servers -> Documents]
      /\ existing' \in [Requests -> Records]
  <2>1. queue' \in [Servers -> Seq(Requests)]
    BY <1>3, <1>4 DEF TypeOK
  <2>2. backup' \in [Servers -> Documents]
    BY <1>5 DEF TypeOK, Ended
  <2>3. existing' \in [Requests -> Records]
    BY Zenon DEF TypeOK, Ended
  <2> QED
    BY <2>1, <2>2, <2>3
<1>7. ASSUME NEW q \in Requests, pc'[q] = "queued"
      PROVE  \E k \in 1..Len(queue'[ServerOf[q]]) : queue'[ServerOf[q]][k] = q
  <2>1. q # r /\ pc[q] = "queued"
    BY <1>4, <1>7 DEF TypeOK
  <2>2. PICK k \in 1..Len(queue[ServerOf[q]]) : queue[ServerOf[q]][k] = q
    BY <2>1 DEF Serial
  <2>3. CASE ServerOf[q] = i
    <3>1. k \in 2..Len(queue[i])
      BY <1>3, <2>1, <2>2, <2>3
    <3>2. Tail(queue[i])[k - 1] = q /\ k - 1 \in 1..Len(Tail(queue[i]))
      BY <1>3, <3>1, <2>2, <2>3
    <3> QED
      BY <3>2, <1>1, <1>4, <2>3 DEF TypeOK
  <2>4. CASE ServerOf[q] # i
    BY <2>4, <2>2, <1>4 DEF TypeOK
  <2> QED
    BY <2>3, <2>4
<1>8. ASSUME NEW q \in Requests, InMutation(q)'
      PROVE  queue'[ServerOf[q]] # <<>> /\ Head(queue'[ServerOf[q]]) = q
  <2>1. q # r /\ InMutation(q)
    BY <1>4, <1>8 DEF TypeOK, InMutation
  <2>2. ServerOf[q] # i
    BY <2>1, <1>2 DEF Serial
  <2> QED
    BY <2>1, <2>2, <1>4 DEF TypeOK, Serial
<1> QED
  BY <1>4, <1>6, <1>7, <1>8 DEF Serial

-----------------------------------------------------------------------------
LEMMA TypeStep ==
    ASSUME TypeOK, Serial, [Next]_vars
    PROVE  TypeOK' /\ Serial'
<1> USE RequestsAreRecords
<1>1. ASSUME NEW r \in Requests, Ask(r)
      PROVE  TypeOK' /\ Serial'
  <2> DEFINE i == ServerOf[r]
  <2>1. i \in Servers /\ ProjectOf[r] \in Projects /\ Fresh(i) \in Documents
    BY FreshType
  <2>2. queue[i] \in Seq(Requests)
    BY <2>1 DEF TypeOK
  <2>3. /\ Append(queue[i], r) \in Seq(Requests)
        /\ Len(Append(queue[i], r)) = Len(queue[i]) + 1
        /\ \A k \in 1..Len(queue[i]) : Append(queue[i], r)[k] = queue[i][k]
        /\ Append(queue[i], r)[Len(queue[i]) + 1] = r
        /\ Len(queue[i]) \in Nat
        /\ queue[i] # <<>> => Head(Append(queue[i], r)) = Head(queue[i])
    BY <2>2
  <2>4. /\ queue' = [queue EXCEPT ![i] = Append(@, r)]
        /\ pc' = [pc EXCEPT ![r] = "queued"]
        /\ memory' = [memory EXCEPT ![i] = Fresh(i)]
        /\ current' = current \union {i}
        /\ existing' = [existing EXCEPT ![r] = Fresh(i)[ProjectOf[r]]]
        /\ UNCHANGED <<disk, lock, staged, written, backup, reviews, failures>>
    BY <1>1 DEF Ask, Remember, document
  <2>5. TypeOK'
    <3>1. Fresh(i)[ProjectOf[r]] \in Records
      BY <2>1 DEF Documents
    <3> QED
      BY <3>1, <2>1, <2>3, <2>4 DEF TypeOK
  <2>6. Serial'
    <3>1. ASSUME NEW q \in Requests, pc'[q] = "queued"
          PROVE  \E k \in 1..Len(queue'[ServerOf[q]]) : queue'[ServerOf[q]][k] = q
      <4>1. CASE q = r
        BY <4>1, <2>1, <2>3, <2>4 DEF TypeOK
      <4>2. CASE q # r
        <5>1. PICK k \in 1..Len(queue[ServerOf[q]]) : queue[ServerOf[q]][k] = q
          BY <4>2, <3>1, <2>4 DEF TypeOK, Serial
        <5> QED
          BY <5>1, <2>1, <2>3, <2>4 DEF TypeOK
      <4> QED
        BY <4>1, <4>2
    <3>2. ASSUME NEW q \in Requests, InMutation(q)'
          PROVE  queue'[ServerOf[q]] # <<>> /\ Head(queue'[ServerOf[q]]) = q
      <4>1. InMutation(q)
        BY <3>2, <2>4 DEF TypeOK, InMutation
      <4>2. queue[ServerOf[q]] # <<>> /\ Head(queue[ServerOf[q]]) = q
        BY <4>1 DEF Serial
      <4>3. CASE ServerOf[q] = i
        <5>1. queue'[ServerOf[q]] = Append(queue[i], r)
          BY <4>3, <2>1, <2>4 DEF TypeOK
        <5>2. Append(queue[i], r) # <<>> /\ Head(Append(queue[i], r)) = q
          BY <4>2, <4>3, <2>2, <2>3
        <5> QED
          BY <5>1, <5>2
      <4>4. CASE ServerOf[q] # i
        BY <4>2, <4>4, <2>1, <2>4 DEF TypeOK
      <4> QED
        BY <4>3, <4>4
    <3> QED
      BY <3>1, <3>2 DEF Serial
  <2> QED
    BY <2>5, <2>6
<1>2. ASSUME NEW r \in Requests, AnswerNotRemoved(r) \/ Rollback(r) \/ Answer(r)
      PROVE  TypeOK' /\ Serial'
  <2> DEFINE i == ServerOf[r]
  <2>1. i \in Servers /\ Fresh(i) \in Documents
    BY FreshType
  <2>2. CASE AnswerNotRemoved(r)
    <3>1. /\ queue' \in [Servers -> Seq(Requests)]
          /\ pc' = [pc EXCEPT ![r] = "done"]
          /\ backup' \in [Servers -> Documents]
          /\ existing' \in [Requests -> Records]
          /\ Serial'
      BY <2>2, EndedQueue DEF AnswerNotRemoved
    <3> QED
      BY <3>1, <2>1, <2>2 DEF AnswerNotRemoved, Remember, document, TypeOK
  <2>3. CASE Rollback(r)
    <3>1. /\ queue' \in [Servers -> Seq(Requests)]
          /\ pc' = [pc EXCEPT ![r] = "failed"]
          /\ backup' \in [Servers -> Documents]
          /\ existing' \in [Requests -> Records]
          /\ Serial'
      BY <2>3, EndedQueue DEF Rollback, InMutation
    <3> QED
      BY <3>1, <2>1, <2>3 DEF Rollback, document, TypeOK
  <2>4. CASE Answer(r)
    <3>1. /\ queue' \in [Servers -> Seq(Requests)]
          /\ pc' = [pc EXCEPT ![r] = "done"]
          /\ backup' \in [Servers -> Documents]
          /\ existing' \in [Requests -> Records]
          /\ Serial'
      BY <2>4, EndedQueue DEF Answer, InMutation
    <3>2. reviews' \in [Servers -> SUBSET Projects]
      BY <2>1, <2>4 DEF Answer, TypeOK
    <3> QED
      BY <3>1, <3>2, <2>1, <2>4 DEF Answer, document, TypeOK
  <2> QED
    BY <1>2, <2>2, <2>3, <2>4
<1>3. ASSUME NEW r \in Requests, Mutate(r)
      PROVE  TypeOK' /\ Serial'
  <2> DEFINE i == ServerOf[r]
             state == [Fresh(i) EXCEPT ![ProjectOf[r]] = r]
  <2>1. i \in Servers /\ Fresh(i) \in Documents /\ state \in Documents
    BY FreshType DEF Documents
  <2>2. TypeOK'
    BY <1>3, <2>1 DEF Mutate, Remember, document, TypeOK
  <2>3. queue[i] # <<>> /\ Head(queue[i]) = r
    BY <1>3, <2>1 DEF Mutate, HasTurn, Serial, TypeOK
  <2>4. pc' = [pc EXCEPT ![r] = "waiting"] /\ queue' = queue
    BY <1>3 DEF Mutate
  <2> QED
    BY <2>2, <2>3, <2>4 DEF Serial, TypeOK, InMutation
<1>4. ASSUME NEW r \in Requests,
             Merge(r) \/ Write(r) \/ Unlock(r) \/ Reload(r) \/ WriteFails(r) \/ LockFails(r)
      PROVE  TypeOK' /\ Serial'
  <2>1. /\ InMutation(r) /\ queue' = queue
        /\ \E stage \in {"merged", "written", "unlocked", "reloaded", "broken"} :
              pc' = [pc EXCEPT ![r] = stage]
    BY <1>4 DEF Merge, Write, Unlock, Reload, WriteFails, LockFails, InMutation, document
  <2>2. Serial'
    BY <2>1 DEF Serial, InMutation, TypeOK
  <2>3. ServerOf[r] \in Servers /\ ProjectOf[r] \in Projects /\ Unset \in Documents
    BY DEF Unset, Documents
  <2>4. CASE Merge(r)
    <3>1. [disk EXCEPT ![ProjectOf[r]] = r] \in Documents
      BY <2>3 DEF TypeOK, Documents
    <3> QED
      BY <2>2, <2>3, <2>4, <3>1 DEF Merge, TypeOK
  <2>5. CASE Write(r)
    BY <2>2, <2>5 DEF Write, TypeOK
  <2>6. CASE Unlock(r)
    BY <2>2, <2>3, <2>6 DEF Unlock, TypeOK
  <2>7. CASE Reload(r)
    BY <2>2, <2>3, <2>7 DEF Reload, document, TypeOK
  <2>8. CASE WriteFails(r)
    BY <2>2, <2>3, <2>8 DEF WriteFails, TypeOK
  <2>9. CASE LockFails(r)
    BY <2>2, <2>9 DEF LockFails, document, TypeOK
  <2> QED
    BY <1>4, <2>4, <2>5, <2>6, <2>7, <2>8, <2>9
<1>5. ASSUME NEW i \in Servers, GetTrust(i)
      PROVE  TypeOK' /\ Serial'
  BY <1>5 DEF GetTrust, Remember, document, TypeOK, Serial, InMutation
<1>6. ASSUME NEW i \in Servers, NEW p \in Projects, StartReview(i, p) \/ EndReview(i, p)
      PROVE  TypeOK' /\ Serial'
  <2>1. Fresh(i) \in Documents
    BY FreshType
  <2>2. UNCHANGED <<document, backup, queue, pc, existing, failures>>
    BY <1>6 DEF StartReview, EndReview
  <2>3. /\ memory' \in [Servers -> Documents] /\ current' \subseteq Servers
        /\ reviews' \in [Servers -> SUBSET Projects]
    <3>1. CASE StartReview(i, p)
      BY <3>1, <2>1 DEF StartReview, Remember, TypeOK
    <3>2. CASE EndReview(i, p)
      BY <3>2 DEF EndReview, TypeOK
    <3> QED
      BY <1>6, <3>1, <3>2
  <2> QED
    BY <2>2, <2>3 DEF document, TypeOK, Serial, InMutation
<1>7. CASE UNCHANGED vars
  BY <1>7 DEF vars, document, TypeOK, Serial, InMutation
<1> QED
  BY <1>1, <1>2, <1>3, <1>4, <1>5, <1>6, <1>7 DEF Next, Mutation

(* A write changes one record of the document: the one its request is for. *)
LEMMA WriteOwnRecord ==
    ASSUME TypeOK, Locked, NEW r \in Requests, Write(r)
    PROVE  /\ disk' = [disk EXCEPT ![ProjectOf[r]] = r]
           /\ written' = written \union {r}
           /\ pc' = [pc EXCEPT ![r] = "written"]
           /\ current' = {}
           /\ pc[r] = "merged"
           /\ UNCHANGED <<memory, backup, reviews>>
  BY DEF Write, Locked

LEMMA LockedStep ==
    ASSUME TypeOK, Serial, Locked, [Next]_vars
    PROVE  Locked'
<1> USE RequestsAreRecords
<1>1. ASSUME NEW r \in Requests, Merge(r)
      PROVE  Locked'
  <2>1. \A q \in Requests : pc[q] \notin {"merged", "written"}
    BY <1>1 DEF Merge, Locked
  <2> QED
    BY <1>1, <2>1 DEF Merge, Locked, TypeOK
<1>2. ASSUME NEW r \in Requests, Write(r)
      PROVE  Locked'
  <2>1. lock = r /\ lock' = r
    BY <1>2 DEF Write, Locked
  <2> QED
    BY <1>2, <2>1 DEF Write, Locked, TypeOK
<1>3. ASSUME NEW r \in Requests, Unlock(r) \/ WriteFails(r)
      PROVE  Locked'
  <2>1. lock = r /\ lock' = Nobody
    BY <1>3 DEF Unlock, WriteFails, Locked
  <2>2. \A q \in Requests : pc'[q] \notin {"merged", "written"}
    BY <1>3, <2>1 DEF Unlock, WriteFails, Locked, TypeOK
  <2> QED
    BY <2>1, <2>2 DEF Locked
<1>4. ASSUME NEW r \in Requests,
             Ask(r) \/ AnswerNotRemoved(r) \/ Mutate(r) \/ Reload(r) \/ Answer(r)
                \/ LockFails(r) \/ Rollback(r)
      PROVE  Locked'
  <2>1. /\ UNCHANGED <<disk, lock, staged>>
        /\ pc[r] \notin {"merged", "written"}
        /\ \E stage \in {"queued", "waiting", "reloaded", "broken", "done", "failed"} :
              pc' = [pc EXCEPT ![r] = stage]
    BY <1>4 DEF Ask, AnswerNotRemoved, Mutate, Reload, Answer, LockFails, Rollback,
                HasTurn, Ended, document
  <2> QED
    BY <2>1 DEF Locked, TypeOK
<1>5. ASSUME NEW i \in Servers, NEW p \in Projects,
             StartReview(i, p) \/ EndReview(i, p)
      PROVE  Locked'
  BY <1>5 DEF StartReview, EndReview, document, Locked
<1>6. ASSUME NEW i \in Servers, GetTrust(i)
      PROVE  Locked'
  BY <1>6 DEF GetTrust, document, Locked
<1>7. CASE UNCHANGED vars
  BY <1>7 DEF vars, document, Locked
<1> QED
  BY <1>1, <1>2, <1>3, <1>4, <1>5, <1>6, <1>7 DEF Next, Mutation

-----------------------------------------------------------------------------
Genuine == DiskGenuine /\ CopiesGenuine /\ NothingUncommittedOutlives

(* Looking at the document again brings nothing uncommitted to a server. *)
LEMMA FreshGenuine ==
    ASSUME TypeOK, Genuine, NEW i \in Servers, NEW p \in Projects, Fresh(i)[p] \notin Committed
    PROVE  InMutation(Fresh(i)[p]) /\ ServerOf[Fresh(i)[p]] = i
  BY DEF Genuine, DiskGenuine, NothingUncommittedOutlives, Fresh, Committed

LEMMA GenuineStep ==
    ASSUME TypeOK, Serial, Locked, Genuine, [Next]_vars
    PROVE  Genuine'
<1> USE RequestsAreRecords
<1>1. ASSUME NEW r \in Requests, Write(r)
      PROVE  Genuine'
  <2>1. /\ disk' = [disk EXCEPT ![ProjectOf[r]] = r]
        /\ written' = written \union {r}
        /\ pc' = [pc EXCEPT ![r] = "written"]
        /\ pc[r] = "merged"
        /\ UNCHANGED <<memory, backup>>
    BY <1>1, WriteOwnRecord
  <2>2. DiskGenuine'
    BY <2>1 DEF Genuine, DiskGenuine, Committed, TypeOK, Documents
  <2>3. CopiesGenuine'
    BY <2>1 DEF Genuine, CopiesGenuine, Committed, TypeOK
  <2>4. NothingUncommittedOutlives'
    BY <2>1 DEF Genuine, NothingUncommittedOutlives, InMutation, TypeOK
  <2> QED
    BY <2>2, <2>3, <2>4 DEF Genuine
<1>2. ASSUME NEW r \in Requests, Merge(r) \/ Unlock(r) \/ WriteFails(r) \/ LockFails(r)
      PROVE  Genuine'
  <2>1. /\ UNCHANGED <<disk, written, memory, backup>>
        /\ InMutation(r)
        /\ \E stage \in {"merged", "unlocked", "broken"} : pc' = [pc EXCEPT ![r] = stage]
        /\ pc'[r] = "merged" => pc[r] = "waiting"
    BY <1>2 DEF Merge, Unlock, WriteFails, LockFails, InMutation, document, TypeOK
  <2>2. DiskGenuine'
    BY <2>1 DEF Genuine, DiskGenuine, Committed, TypeOK
  <2>3. CopiesGenuine'
    BY <2>1 DEF Genuine, CopiesGenuine, Committed, TypeOK
  <2>4. NothingUncommittedOutlives'
    BY <2>1 DEF Genuine, NothingUncommittedOutlives, InMutation, TypeOK
  <2> QED
    BY <2>2, <2>3, <2>4 DEF Genuine
<1>3. ASSUME NEW r \in Requests, Reload(r)
      PROVE  Genuine'
  <2>1. /\ UNCHANGED <<disk, written, backup>>
        /\ memory' = [memory EXCEPT ![ServerOf[r]] = disk]
        /\ pc[r] = "unlocked" /\ pc' = [pc EXCEPT ![r] = "reloaded"]
    BY <1>3 DEF Reload, document
  <2>2. DiskGenuine'
    BY <2>1 DEF Genuine, DiskGenuine, Committed, TypeOK
  <2>3. CopiesGenuine'
    BY <2>1 DEF Genuine, DiskGenuine, CopiesGenuine, Committed, TypeOK
  <2>4. NothingUncommittedOutlives'
    BY <2>1 DEF Genuine, DiskGenuine, NothingUncommittedOutlives, InMutation, TypeOK, Committed
  <2> QED
    BY <2>2, <2>3, <2>4 DEF Genuine
<1>4. ASSUME NEW r \in Requests, Mutate(r)
      PROVE  Genuine'
  <2> DEFINE i == ServerOf[r]
  <2>1. i \in Servers /\ Fresh(i) \in Documents /\ ProjectOf[r] \in Projects
    BY FreshType
  <2>2. /\ UNCHANGED <<disk, written>>
        /\ memory' = [memory EXCEPT ![i] = [Fresh(i) EXCEPT ![ProjectOf[r]] = r]]
        /\ backup' = [backup EXCEPT ![i] = Fresh(i)]
        /\ pc[r] = "queued" /\ pc' = [pc EXCEPT ![r] = "waiting"]
        /\ HasTurn(r)
    BY <1>4 DEF Mutate, Remember, document, HasTurn
  <2>3. \A q \in Requests : ServerOf[q] = i => ~InMutation(q)
    BY <2>2, OneMutation DEF InMutation
  <2>4. \A p \in Projects : Fresh(i)[p] \in Committed
    BY <2>1, <2>3, FreshGenuine DEF TypeOK, Documents, Records, Committed
  <2>5. DiskGenuine'
    <3>1. r \notin written
      BY <2>2 DEF Genuine, DiskGenuine
    <3> QED
      BY <3>1, <2>2 DEF Genuine, DiskGenuine, Committed, TypeOK
  <2>6. CopiesGenuine'
    <3>1. \A q \in Requests : pc'[q] = "reloaded" => q # r /\ pc[q] = "reloaded" /\ ServerOf[q] # i
      BY <2>2, <2>3 DEF TypeOK, InMutation
    <3> QED
      BY <3>1, <2>2, <2>4 DEF Genuine, CopiesGenuine, Committed, TypeOK
  <2>7. NothingUncommittedOutlives'
    <3>1. \A q \in Requests : InMutation(q) => InMutation(q)'
      BY <2>2 DEF InMutation, TypeOK
    <3>2. InMutation(r)'
      BY <2>2 DEF InMutation, TypeOK
    <3> SUFFICES ASSUME NEW j \in Servers, NEW p \in Projects, NEW m,
                        m = memory'[j][p], m \notin Committed
                 PROVE  InMutation(m)' /\ ServerOf[m] = j
      BY <2>2 DEF NothingUncommittedOutlives, InMutation, Committed
    <3>3. CASE j = i /\ p = ProjectOf[r]
      <4>1. m = r
        BY <3>3, <2>1, <2>2 DEF TypeOK, Documents
      <4> QED
        BY <4>1, <3>2, <3>3
    <3>4. CASE j = i /\ p # ProjectOf[r]
      BY <3>4, <2>1, <2>2, <2>4 DEF TypeOK, Documents
    <3>5. CASE j # i
      <4>1. m = memory[j][p] /\ m \in Requests
        BY <3>5, <2>2 DEF TypeOK, Documents, Records, Committed
      <4>2. InMutation(m) /\ ServerOf[m] = j
        BY <4>1 DEF Genuine, NothingUncommittedOutlives, Committed
      <4> QED
        BY <4>1, <4>2, <3>1
    <3> QED
      BY <3>3, <3>4, <3>5
  <2> QED
    BY <2>5, <2>6, <2>7 DEF Genuine
<1>5. ASSUME NEW r \in Requests, AnswerNotRemoved(r) \/ Ask(r)
      PROVE  Genuine'
  <2> DEFINE i == ServerOf[r]
  <2>1. i \in Servers /\ Fresh(i) \in Documents
    BY FreshType
  <2>2. /\ UNCHANGED <<disk, written>>
        /\ memory' = [memory EXCEPT ![i] = Fresh(i)]
        /\ backup' = backup \/ backup' = [backup EXCEPT ![i] = Unset]
        /\ pc[r] \in {"idle", "queued"}
        /\ \E stage \in {"queued", "done"} : pc' = [pc EXCEPT ![r] = stage]
        /\ Awake(i)
    BY <1>5 DEF AnswerNotRemoved, Ask, Ended, HasTurn, Remember, document
  <2>3. \A q \in Requests : pc'[q] = "reloaded" => pc[q] = "reloaded" /\ ServerOf[q] # i
    BY <2>2 DEF TypeOK, Awake
  <2>4. r \notin written \/ pc[r] \notin {"idle", "queued"}
    BY DEF Genuine, DiskGenuine
  <2>5. DiskGenuine'
    BY <2>2, <2>4 DEF Genuine, DiskGenuine, Committed, TypeOK
  <2>6. CopiesGenuine'
    <3>1. \A j \in Servers, p \in Projects : backup'[j][p] \in Committed
      <4>1. CASE backup' = backup
        BY <4>1 DEF Genuine, CopiesGenuine
      <4>2. CASE backup' = [backup EXCEPT ![i] = Unset]
        BY <4>2, <2>1 DEF Genuine, CopiesGenuine, Committed, TypeOK, Unset
      <4> QED
        BY <4>1, <4>2, <2>2
    <3>2. \A q \in Requests, p \in Projects : pc'[q] = "reloaded" => memory'[ServerOf[q]][p] \in Committed
      BY <2>1, <2>2, <2>3 DEF Genuine, CopiesGenuine, TypeOK
    <3> QED
      BY <3>1, <3>2, <2>2 DEF CopiesGenuine, Committed
  <2>7. NothingUncommittedOutlives'
    <3>1. \A q \in Requests : InMutation(q) => InMutation(q)'
      BY <2>2 DEF InMutation, TypeOK
    <3> SUFFICES ASSUME NEW j \in Servers, NEW p \in Projects, NEW m,
                        m = memory'[j][p], m \notin Committed
                 PROVE  InMutation(m)' /\ ServerOf[m] = j
      BY <2>2 DEF NothingUncommittedOutlives, InMutation, Committed
    <3>2. CASE j = i
      <4>1. m = Fresh(i)[p] /\ m \in Requests
        BY <3>2, <2>1, <2>2 DEF TypeOK, Documents, Records, Committed
      <4> QED
        BY <4>1, <3>1, <3>2, <2>1, FreshGenuine
    <3>3. CASE j # i
      <4>1. m = memory[j][p] /\ m \in Requests
        BY <3>3, <2>2 DEF TypeOK, Documents, Records, Committed
      <4>2. InMutation(m) /\ ServerOf[m] = j
        BY <4>1 DEF Genuine, NothingUncommittedOutlives, Committed
      <4> QED
        BY <4>1, <4>2, <3>1
    <3> QED
      BY <3>2, <3>3
  <2> QED
    BY <2>5, <2>6, <2>7 DEF Genuine
<1>6. ASSUME NEW r \in Requests, Rollback(r) \/ Answer(r)
      PROVE  Genuine'
  <2> DEFINE i == ServerOf[r]
  <2>1. i \in Servers
    OBVIOUS
  <2>2. /\ UNCHANGED <<disk, written>>
        /\ memory' = memory \/ memory' = [memory EXCEPT ![i] = backup[i]]
        /\ backup' = [backup EXCEPT ![i] = Unset]
        /\ InMutation(r)
        /\ \E stage \in {"failed", "done"} : pc' = [pc EXCEPT ![r] = stage]
    BY <1>6 DEF Rollback, Answer, Ended, InMutation, document
  <2>3. \A p \in Projects : memory'[i][p] \in Committed
    BY <1>6, <2>1 DEF Rollback, Answer, Ended, document, Genuine, CopiesGenuine, TypeOK
  <2>4. \A q \in Requests : q # r /\ InMutation(q) => ServerOf[q] # i /\ InMutation(q)'
    BY <2>2, OneMutation DEF TypeOK, InMutation
  <2>5. DiskGenuine'
    BY <2>2 DEF Genuine, DiskGenuine, Committed, TypeOK
  <2>6. CopiesGenuine'
    <3>1. \A q \in Requests : pc'[q] = "reloaded" => pc[q] = "reloaded" /\ ServerOf[q] # i
      BY <2>2, <2>4 DEF TypeOK, InMutation
    <3> QED
      BY <3>1, <2>2 DEF Genuine, CopiesGenuine, Committed, TypeOK, Unset
  <2>7. NothingUncommittedOutlives'
    <3> SUFFICES ASSUME NEW j \in Servers, NEW p \in Projects, NEW m,
                        m = memory'[j][p], m \notin Committed
                 PROVE  InMutation(m)' /\ ServerOf[m] = j
      BY <2>2 DEF NothingUncommittedOutlives, InMutation, Committed
    <3>1. j # i
      BY <2>3
    <3>2. m = memory[j][p] /\ m \in Requests
      BY <3>1, <2>2 DEF TypeOK, Documents, Records, Committed
    <3>3. InMutation(m) /\ ServerOf[m] = j
      BY <3>2 DEF Genuine, NothingUncommittedOutlives, Committed
    <3> QED
      BY <3>1, <3>2, <3>3, <2>4
  <2> QED
    BY <2>5, <2>6, <2>7 DEF Genuine
<1>7. ASSUME NEW i \in Servers, Awake(i), Remember(i, Fresh(i)),
             UNCHANGED <<disk, written, backup, pc>>
      PROVE  Genuine'
  <2>1. Fresh(i) \in Documents
    BY FreshType
  <2>2. DiskGenuine'
    BY <1>7 DEF Genuine, DiskGenuine, Committed
  <2>3. CopiesGenuine'
    BY <1>7 DEF Remember, Genuine, CopiesGenuine, Committed, TypeOK, Awake
  <2>4. NothingUncommittedOutlives'
    <3> SUFFICES ASSUME NEW j \in Servers, NEW p \in Projects, NEW m,
                        m = memory'[j][p], m \notin Committed
                 PROVE  InMutation(m) /\ ServerOf[m] = j
      BY <1>7 DEF NothingUncommittedOutlives, InMutation, Committed
    <3>1. CASE j = i
      <4>1. m = Fresh(i)[p]
        BY <3>1, <2>1, <1>7 DEF Remember, TypeOK
      <4> QED
        BY <4>1, <3>1, FreshGenuine
    <3>2. CASE j # i
      <4>1. m = memory[j][p]
        BY <3>2, <1>7 DEF Remember, TypeOK
      <4> QED
        BY <4>1 DEF Genuine, NothingUncommittedOutlives, Committed
    <3> QED
      BY <3>1, <3>2
  <2> QED
    BY <2>2, <2>3, <2>4 DEF Genuine
<1>8. ASSUME NEW i \in Servers, NEW p \in Projects, StartReview(i, p)
      PROVE  Genuine'
  BY <1>7, <1>8 DEF StartReview, document
<1>9. ASSUME NEW i \in Servers, GetTrust(i)
      PROVE  Genuine'
  BY <1>9, <1>7 DEF GetTrust, document, Fresh
<1>10. ASSUME UNCHANGED <<disk, written, memory, backup, pc>>
       PROVE  Genuine'
  BY <1>10 DEF Genuine, DiskGenuine, CopiesGenuine, NothingUncommittedOutlives, Committed,
               InMutation
<1>11. ASSUME NEW i \in Servers, NEW p \in Projects, EndReview(i, p)
       PROVE  Genuine'
  BY <1>10, <1>11 DEF EndReview, document
<1>12. CASE UNCHANGED vars
  BY <1>10, <1>12 DEF vars
<1> QED
  BY <1>1, <1>2, <1>3, <1>4, <1>5, <1>6, <1>8, <1>9, <1>11, <1>12 DEF Next, Mutation

-----------------------------------------------------------------------------
(* What the disk holds was put there by a request past its write. *)
LEMMA OwnIsWritten ==
    ASSUME TypeOK, DiskGenuine, NEW i \in Servers, NEW p \in Projects, Own(i, p)
    PROVE  pc[disk[p]] \notin {"idle", "queued", "waiting", "merged"}
  BY RequestsAreRecords DEF DiskGenuine, Committed, Own

Holding == CopiesHold /\ Believes

LEMMA HoldingStep ==
    ASSUME TypeOK, Serial, Locked, DiskGenuine, Holding, [Next]_vars, TypeOK'
    PROVE  Holding'
<1> USE RequestsAreRecords
<1>1. ASSUME NEW r \in Requests, Write(r)
      PROVE  Holding'
  <2>1. /\ disk' = [disk EXCEPT ![ProjectOf[r]] = r]
        /\ pc' = [pc EXCEPT ![r] = "written"]
        /\ pc[r] = "merged" /\ current' = {}
        /\ UNCHANGED <<memory, backup>>
    BY <1>1, WriteOwnRecord
  <2>2. ASSUME NEW q \in Requests, q # r, InMutation(q)
        PROVE  ServerOf[q] # ServerOf[r]
    BY <2>1, <2>2, OneMutation DEF InMutation
  <2>3. Believes'
    <3>1. \A i \in Servers : Fresh(i)' = disk'
      BY <2>1 DEF Fresh
    <3> QED
      BY <3>1 DEF Believes
  <2>4. CopiesHold'
    <3> SUFFICES ASSUME NEW q \in Requests, NEW p \in Projects, Own(ServerOf[q], p)'
                 PROVE  /\ InMutation(q)' /\ pc'[disk'[p]] = "done"
                              => backup'[ServerOf[q]][p] = disk'[p]
                        /\ pc'[q] = "reloaded" => memory'[ServerOf[q]][p] = disk'[p]
                        /\ pc'[q] \in {"written", "unlocked", "reloaded"} /\ ProjectOf[q] = p
                              => disk'[p] = q
      BY DEF CopiesHold
    <3>1. InMutation(q)' => InMutation(q)
      BY <2>1 DEF InMutation, TypeOK
    <3>2. CASE p = ProjectOf[r]
      <4>1. disk'[p] = r /\ pc'[r] = "written" /\ ServerOf[q] = ServerOf[r]
        BY <2>1, <3>2 DEF TypeOK, Documents, Own
      <4>2. InMutation(q)' => q = r
        BY <4>1, <3>1, <2>2
      <4> QED
        BY <4>1, <4>2 DEF InMutation
    <3>3. CASE p # ProjectOf[r]
      <4>1. disk'[p] = disk[p] /\ Own(ServerOf[q], p)
        BY <2>1, <3>3 DEF TypeOK, Documents, Own
      <4>2. pc'[disk[p]] = "done" => pc[disk[p]] = "done"
        BY <2>1, <4>1 DEF TypeOK, Own
      <4>3. pc'[q] = IF q = r THEN "written" ELSE pc[q]
        BY <2>1 DEF TypeOK
      <4> QED
        BY <4>1, <4>2, <4>3, <3>1, <3>3, <2>1 DEF Holding, CopiesHold
    <3> QED
      BY <3>2, <3>3
  <2> QED
    BY <2>3, <2>4 DEF Holding
<1>2. ASSUME NEW r \in Requests, Merge(r) \/ Unlock(r) \/ WriteFails(r) \/ LockFails(r)
      PROVE  Holding'
  <2>1. /\ UNCHANGED <<disk, memory, backup, current>>
        /\ InMutation(r) /\ InMutation(r)' /\ pc[r] # "done" /\ pc'[r] # "done"
        /\ pc'[r] = "unlocked" => pc[r] = "written"
        /\ pc'[r] \in {"merged", "unlocked", "broken"} /\ pc' = [pc EXCEPT ![r] = pc'[r]]
    BY <1>2 DEF Merge, Unlock, WriteFails, LockFails, InMutation, document, TypeOK
  <2>2. \A q \in Requests : /\ InMutation(q)' <=> InMutation(q)
                            /\ pc'[q] = "done" <=> pc[q] = "done"
                            /\ pc'[q] = "reloaded" => pc[q] = "reloaded"
                            /\ pc'[q] \in {"written", "unlocked"} => pc[q] \in {"written", "unlocked"}
    BY <2>1 DEF TypeOK, InMutation
  <2>3. CopiesHold'
    BY <2>1, <2>2 DEF Holding, CopiesHold, Own
  <2>4. Believes'
    BY <2>1, <2>2 DEF Holding, Believes, Own, Fresh
  <2> QED
    BY <2>3, <2>4 DEF Holding
<1>3. ASSUME NEW r \in Requests, Reload(r)
      PROVE  Holding'
  <2> DEFINE i == ServerOf[r]
  <2>1. /\ UNCHANGED <<disk, backup, current>>
        /\ memory' = [memory EXCEPT ![i] = disk]
        /\ pc[r] = "unlocked" /\ pc' = [pc EXCEPT ![r] = "reloaded"]
        /\ i \in Servers
    BY <1>3 DEF Reload, document
  <2>2. \A q \in Requests : /\ InMutation(q)' <=> InMutation(q)
                            /\ pc'[q] = "done" <=> pc[q] = "done"
                            /\ q # r => pc'[q] = pc[q]
    BY <2>1 DEF TypeOK, InMutation
  <2>3. \A q \in Requests : q # r /\ pc[q] = "reloaded" => ServerOf[q] # i
    BY <2>1, OneMutation DEF InMutation
  <2>4. /\ memory'[i] = disk
        /\ \A j \in Servers : j # i => memory'[j] = memory[j]
    BY <2>1 DEF TypeOK
  <2>5. CopiesHold'
    <3> SUFFICES ASSUME NEW q \in Requests, NEW p \in Projects, Own(ServerOf[q], p)
                 PROVE  /\ InMutation(q) /\ pc[disk[p]] = "done" => backup[ServerOf[q]][p] = disk[p]
                        /\ pc'[q] = "reloaded" => memory'[ServerOf[q]][p] = disk[p]
                        /\ pc'[q] \in {"written", "unlocked", "reloaded"} /\ ProjectOf[q] = p
                              => disk[p] = q
      BY <2>1, <2>2 DEF CopiesHold, Own
    <3> QED
      BY <2>1, <2>2, <2>3, <2>4 DEF Holding, CopiesHold
  <2>6. Believes'
    <3>1. \A j \in Servers : Fresh(j)' = IF j = i THEN disk ELSE Fresh(j)
      BY <2>1, <2>4 DEF Fresh
    <3> QED
      BY <2>1, <2>2, <3>1 DEF Holding, Believes, Own
  <2> QED
    BY <2>5, <2>6 DEF Holding
<1>4. ASSUME NEW r \in Requests, Mutate(r)
      PROVE  Holding'
  <2> DEFINE i == ServerOf[r]
  <2>1. i \in Servers /\ Fresh(i) \in Documents /\ ProjectOf[r] \in Projects
    BY FreshType
  <2>2. /\ disk' = disk
        /\ memory' = [memory EXCEPT ![i] = [Fresh(i) EXCEPT ![ProjectOf[r]] = r]]
        /\ current' = current \union {i}
        /\ backup' = [backup EXCEPT ![i] = Fresh(i)]
        /\ pc[r] = "queued" /\ pc' = [pc EXCEPT ![r] = "waiting"]
        /\ HasTurn(r)
    BY <1>4 DEF Mutate, Remember, document, HasTurn
  <2>3. \A q \in Requests : ServerOf[q] = i => ~InMutation(q)
    BY <2>2, OneMutation DEF InMutation
  <2>4. \A q \in Requests : /\ q # r => pc'[q] = pc[q]
                            /\ InMutation(q)' <=> InMutation(q) \/ q = r
                            /\ pc'[q] = "done" <=> pc[q] = "done"
    BY <2>2 DEF TypeOK, InMutation
  <2>5. /\ backup'[i] = Fresh(i)
        /\ \A j \in Servers : j # i => memory'[j] = memory[j] /\ backup'[j] = backup[j]
    BY <2>1, <2>2 DEF TypeOK
  <2>6. ASSUME NEW p \in Projects, Own(i, p), pc[disk[p]] = "done"
        PROVE  Fresh(i)[p] = disk[p]
    BY <2>1, <2>3, <2>6 DEF Holding, Believes
  <2>7. CopiesHold'
    <3> SUFFICES ASSUME NEW q \in Requests, NEW p \in Projects, Own(ServerOf[q], p)
                 PROVE  /\ InMutation(q)' /\ pc[disk[p]] = "done"
                              => backup'[ServerOf[q]][p] = disk[p]
                        /\ pc'[q] = "reloaded" => memory'[ServerOf[q]][p] = disk[p]
                        /\ pc'[q] \in {"written", "unlocked", "reloaded"} /\ ProjectOf[q] = p
                              => disk[p] = q
      BY <2>2, <2>4 DEF CopiesHold, Own
    <3>1. CASE ServerOf[q] = i
      <4>1. q = r \/ ~InMutation(q)'
        BY <2>3, <2>4, <3>1
      <4>2. pc'[q] \notin {"written", "unlocked", "reloaded"}
        BY <4>1, <2>2 DEF InMutation, TypeOK
      <4> QED
        BY <4>2, <2>5, <2>6, <3>1
    <3>2. CASE ServerOf[q] # i
      BY <2>4, <2>5, <3>2 DEF Holding, CopiesHold
    <3> QED
      BY <3>1, <3>2
  <2>8. Believes'
    <3>1. /\ \A j \in Servers : j # i => Fresh(j)' = Fresh(j)
          /\ Fresh(i)' = [Fresh(i) EXCEPT ![ProjectOf[r]] = r]
      BY <2>1, <2>2, <2>5 DEF Fresh, TypeOK
    <3> SUFFICES ASSUME NEW j \in Servers, NEW p \in Projects, Own(j, p), pc[disk[p]] = "done"
                 PROVE  \/ Fresh(j)'[p] = disk[p]
                        \/ \E q \in Requests :
                            /\ InMutation(q)' /\ ServerOf[q] = j /\ ProjectOf[q] = p
                            /\ Fresh(j)'[p] = q
      BY <2>2, <2>4 DEF Believes, Own
    <3>2. CASE j # i
      <4>1. Fresh(j)' = Fresh(j)
        BY <3>1, <3>2
      <4> QED
        BY <4>1, <2>4 DEF Holding, Believes
    <3>3. CASE j = i /\ p = ProjectOf[r]
      <4>1. Fresh(i)'[p] = r
        BY <2>1, <3>1, <3>3 DEF Documents
      <4> QED
        BY <4>1, <2>4, <3>3
    <3>4. CASE j = i /\ p # ProjectOf[r]
      BY <2>1, <2>6, <3>1, <3>4 DEF Documents
    <3> QED
      BY <3>2, <3>3, <3>4
  <2> QED
    BY <2>7, <2>8 DEF Holding
(* A server that looks at the document again. *)
<1>5. ASSUME NEW i \in Servers, Awake(i), Remember(i, Fresh(i)), UNCHANGED disk,
             \A q \in Requests : /\ InMutation(q)' <=> InMutation(q)
                                 /\ pc'[q] = "reloaded" => pc[q] = "reloaded"
                                 /\ pc'[q] \in {"written", "unlocked"} => pc[q] = pc'[q]
                                 /\ \A p \in Projects : disk[p] = q
                                        => (pc'[q] = "done" => pc[q] = "done"),
             \A j \in Servers : backup'[j] = backup[j]
                \/ \A q \in Requests : ServerOf[q] = j => ~InMutation(q)
      PROVE  Holding'
  <2>1. \A j \in Servers : Fresh(j)' = Fresh(j)
    BY <1>5 DEF Remember, Fresh, TypeOK
  <2>2. \A j \in Servers : j # i => memory'[j] = memory[j]
    BY <1>5 DEF Remember, TypeOK
  <2>3. \A q \in Requests : pc'[q] = "reloaded" => ServerOf[q] # i
    BY <1>5 DEF Awake
  <2>4. CopiesHold'
    <3> SUFFICES ASSUME NEW q \in Requests, NEW p \in Projects, Own(ServerOf[q], p)
                 PROVE  /\ InMutation(q) /\ pc'[disk[p]] = "done"
                              => backup'[ServerOf[q]][p] = disk[p]
                        /\ pc'[q] = "reloaded" => memory'[ServerOf[q]][p] = disk[p]
                        /\ pc'[q] \in {"written", "unlocked", "reloaded"} /\ ProjectOf[q] = p
                              => disk[p] = q
      BY <1>5 DEF CopiesHold, Own
    <3>1. disk[p] \in Requests /\ (pc'[disk[p]] = "done" => pc[disk[p]] = "done")
      BY <1>5 DEF Own
    <3>2. InMutation(q) => backup'[ServerOf[q]] = backup[ServerOf[q]]
      BY <1>5
    <3> QED
      BY <1>5, <2>2, <2>3, <3>1, <3>2 DEF Holding, CopiesHold
  <2>5. Believes'
    <3> SUFFICES ASSUME NEW j \in Servers, NEW p \in Projects, Own(j, p), pc'[disk[p]] = "done"
                 PROVE  \/ Fresh(j)[p] = disk[p]
                        \/ \E q \in Requests :
                            /\ InMutation(q) /\ ServerOf[q] = j /\ ProjectOf[q] = p
                            /\ Fresh(j)[p] = q
      BY <1>5, <2>1 DEF Believes, Own
    <3>1. pc[disk[p]] = "done"
      BY <1>5 DEF Own
    <3> QED
      BY <3>1 DEF Holding, Believes
  <2> QED
    BY <2>4, <2>5 DEF Holding
<1>6. ASSUME NEW r \in Requests, AnswerNotRemoved(r) \/ Ask(r)
      PROVE  Holding'
  <2> DEFINE i == ServerOf[r]
  <2>1. /\ i \in Servers /\ disk' = disk
        /\ Awake(i) /\ Remember(i, Fresh(i))
        /\ pc[r] \in {"idle", "queued"}
        /\ \E stage \in {"queued", "done"} : pc' = [pc EXCEPT ![r] = stage]
    BY <1>6 DEF AnswerNotRemoved, Ask, Ended, HasTurn, document
  <2>2. \A p \in Projects : disk[p] # r
    BY <2>1 DEF DiskGenuine, Committed
  <2>3. \A q \in Requests : /\ InMutation(q)' <=> InMutation(q)
                            /\ q # r => pc'[q] = pc[q]
                            /\ pc'[r] \in {"queued", "done"}
    BY <2>1 DEF TypeOK, InMutation
  <2>4. \A j \in Servers : backup'[j] = backup[j]
                \/ \A q \in Requests : ServerOf[q] = j => ~InMutation(q)
    <3>1. CASE Ask(r)
      BY <3>1 DEF Ask
    <3>2. CASE AnswerNotRemoved(r)
      <4>1. \A q \in Requests : ServerOf[q] = i => ~InMutation(q)
        BY <3>2, <2>1, OneMutation DEF AnswerNotRemoved, InMutation
      <4>2. backup' = [backup EXCEPT ![i] = Unset]
        BY <3>2 DEF AnswerNotRemoved, Ended
      <4> QED
        BY <4>1, <4>2 DEF TypeOK
    <3> QED
      BY <1>6, <3>1, <3>2
  <2> QED
    BY <2>1, <2>2, <2>3, <2>4, <1>5
<1>7. ASSUME NEW i \in Servers, NEW p \in Projects, StartReview(i, p)
      PROVE  Holding'
  <2>1. /\ Awake(i) /\ Remember(i, Fresh(i)) /\ UNCHANGED <<disk, pc, backup>>
    BY <1>7 DEF StartReview, document
  <2> QED
    BY <2>1, <1>5 DEF InMutation
<1>8. ASSUME NEW i \in Servers, GetTrust(i)
      PROVE  Holding'
  <2>1. /\ Awake(i) /\ Remember(i, Fresh(i)) /\ UNCHANGED <<disk, pc, backup>>
    BY <1>8 DEF GetTrust, document, Fresh
  <2> QED
    BY <2>1, <1>5 DEF InMutation
<1>9. ASSUME NEW r \in Requests, Answer(r) \/ Rollback(r)
      PROVE  Holding'
  <2> DEFINE i == ServerOf[r]
  <2>1. /\ i \in Servers /\ disk' = disk
        /\ backup' = [backup EXCEPT ![i] = Unset]
        /\ InMutation(r)
        /\ \E stage \in {"failed", "done"} : pc' = [pc EXCEPT ![r] = stage]
    BY <1>9 DEF Answer, Rollback, Ended, InMutation, document
  <2>2. \A q \in Requests : /\ InMutation(q)' <=> InMutation(q) /\ q # r
                            /\ InMutation(q)' => ServerOf[q] # i
                            /\ q # r => pc'[q] = pc[q]
                            /\ pc'[r] \in {"failed", "done"}
    BY <2>1, OneMutation DEF TypeOK, InMutation
  <2>3. \A j \in Servers : j # i => /\ memory'[j] = memory[j] /\ backup'[j] = backup[j]
                                    /\ Fresh(j)' = Fresh(j)
    BY <1>9, <2>1 DEF Answer, Rollback, document, TypeOK, Fresh
  <2>4. CopiesHold'
    <3> SUFFICES ASSUME NEW q \in Requests, NEW p \in Projects, Own(ServerOf[q], p),
                        InMutation(q)'
                 PROVE  /\ pc'[disk[p]] = "done" => backup'[ServerOf[q]][p] = disk[p]
                        /\ pc'[q] = "reloaded" => memory'[ServerOf[q]][p] = disk[p]
                        /\ pc'[q] \in {"written", "unlocked", "reloaded"} /\ ProjectOf[q] = p
                              => disk[p] = q
      BY <2>1 DEF CopiesHold, Own, InMutation
    <3>1. ServerOf[q] # i /\ InMutation(q) /\ q # r /\ disk[p] # r /\ disk[p] \in Requests
      BY <2>2 DEF Own
    <3> QED
      BY <3>1, <2>2, <2>3 DEF Holding, CopiesHold
  <2>5. Believes'
    <3> SUFFICES ASSUME NEW j \in Servers, NEW p \in Projects, Own(j, p), pc'[disk[p]] = "done"
                 PROVE  \/ Fresh(j)'[p] = disk[p]
                        \/ \E q \in Requests :
                            /\ InMutation(q)' /\ ServerOf[q] = j /\ ProjectOf[q] = p
                            /\ Fresh(j)'[p] = q
      BY <2>1 DEF Believes, Own
    <3>1. CASE j # i
      <4>1. disk[p] # r /\ pc[disk[p]] = "done" /\ Fresh(j)' = Fresh(j)
        BY <3>1, <2>2, <2>3 DEF Own
      <4>2. \A q \in Requests : ServerOf[q] = j /\ InMutation(q) => InMutation(q)'
        BY <3>1, <2>2
      <4> QED
        BY <4>1, <4>2 DEF Holding, Believes
    <3>2. CASE j = i /\ Answer(r)
      <4>1. memory[i][p] = disk[p]
        BY <3>2 DEF Answer, Holding, CopiesHold
      <4>2. Fresh(i)' = memory[i]
        BY <3>2 DEF Answer, document, Fresh
      <4> QED
        BY <4>1, <4>2, <3>2
    <3>3. CASE j = i /\ Rollback(r)
      <4>1. disk[p] # r /\ pc[disk[p]] = "done"
        <5>1. pc'[r] = "failed"
          BY <3>3 DEF Rollback, Ended, TypeOK
        <5> QED
          BY <5>1, <2>2 DEF Own
      <4>2. backup[i][p] = disk[p]
        BY <4>1, <2>1, <3>3 DEF Holding, CopiesHold
      <4>3. Fresh(i)' = disk \/ Fresh(i)' = backup[i]
        BY <2>1, <3>3 DEF Rollback, document, Fresh, TypeOK
      <4> QED
        BY <4>2, <4>3, <3>3
    <3> QED
      BY <1>9, <3>1, <3>2, <3>3
  <2> QED
    BY <2>4, <2>5 DEF Holding
<1>10. ASSUME UNCHANGED <<disk, memory, current, backup, pc>>
       PROVE  Holding'
  BY <1>10 DEF Holding, CopiesHold, Believes, Own, Fresh, InMutation
<1>11. ASSUME NEW i \in Servers, NEW p \in Projects, EndReview(i, p)
       PROVE  Holding'
  BY <1>10, <1>11 DEF EndReview, document
<1>12. CASE UNCHANGED vars
  BY <1>10, <1>12 DEF vars
<1> QED
  BY <1>1, <1>2, <1>3, <1>4, <1>6, <1>7, <1>8, <1>9, <1>11, <1>12 DEF Next, Mutation

-----------------------------------------------------------------------------
(* Why a review may run although its trust was removed: the server is granting
   it again, or has tried to. *)
Regranted(p, i, q) ==
    /\ ServerOf[q] = i /\ ProjectOf[q] = p /\ WantOf[q] = "granted"
    /\ InMutation(q) \/ pc[q] = "failed"

Removed(p) == disk[p] \in Requests /\ pc[disk[p]] = "done" /\ WantOf[disk[p]] = "none"

LEMMA RemovalMeans ==
    RemovalEndsReviews <=>
        \A p \in Projects :
            Removed(p) /\ p \in reviews[ServerOf[disk[p]]] =>
                \E q \in Requests : Regranted(p, ServerOf[disk[p]], q)
  BY DEF RemovalEndsReviews, Removed, Regranted

LEMMA RemovalStep ==
    ASSUME TrustInv, [Next]_vars, TypeOK'
    PROVE  RemovalEndsReviews'
<1> USE RequestsAreRecords
<1> SUFFICES ASSUME NEW p \in Projects, NEW s, s = disk'[p], Removed(p)',
                    p \in reviews'[ServerOf[s]]
             PROVE  \E q \in Requests : Regranted(p, ServerOf[s], q)'
  BY DEF RemovalEndsReviews, Removed, Regranted
<1>1. ASSUME disk'[p] = disk[p], Removed(p), p \in reviews[ServerOf[disk[p]]],
             \A q \in Requests : Regranted(p, ServerOf[s], q)
                => Regranted(p, ServerOf[s], q)'
      PROVE  \E q \in Requests : Regranted(p, ServerOf[s], q)'
  BY <1>1, RemovalMeans DEF TrustInv, Regranted
<1>2. ASSUME NEW r \in Requests, Write(r)
      PROVE  \E q \in Requests : Regranted(p, ServerOf[s], q)'
  <2>1. /\ disk' = [disk EXCEPT ![ProjectOf[r]] = r]
        /\ pc' = [pc EXCEPT ![r] = "written"]
        /\ pc[r] = "merged" /\ reviews' = reviews
    BY <1>2, WriteOwnRecord DEF TrustInv
  <2>2. disk'[p] # r /\ disk'[p] = disk[p]
    BY <2>1 DEF Removed, TypeOK, TrustInv
  <2> QED
    BY <1>1, <2>1, <2>2 DEF Removed, Regranted, InMutation, TypeOK, TrustInv
<1>3. ASSUME NEW r \in Requests,
             Ask(r) \/ Mutate(r) \/ Merge(r) \/ Unlock(r) \/ Reload(r)
                \/ WriteFails(r) \/ LockFails(r) \/ Rollback(r)
      PROVE  \E q \in Requests : Regranted(p, ServerOf[s], q)'
  <2>1. /\ UNCHANGED <<disk, reviews>>
        /\ pc[r] \notin {"done", "failed"}
        /\ \/ \E stage \in {"waiting", "merged", "unlocked", "reloaded", "broken", "failed"} :
                pc' = [pc EXCEPT ![r] = stage]
           \/ pc[r] = "idle" /\ pc' = [pc EXCEPT ![r] = "queued"]
    BY <1>3 DEF Ask, Mutate, Merge, Unlock, Reload, WriteFails, LockFails, Rollback, Ended,
                HasTurn, document
  <2> QED
    BY <1>1, <2>1 DEF Removed, Regranted, InMutation, TypeOK, TrustInv
<1>4. ASSUME NEW r \in Requests, AnswerNotRemoved(r)
      PROVE  \E q \in Requests : Regranted(p, ServerOf[s], q)'
  <2>1. /\ UNCHANGED <<disk, reviews>>
        /\ pc[r] = "queued" /\ pc' = [pc EXCEPT ![r] = "done"]
    BY <1>4 DEF AnswerNotRemoved, Ended, HasTurn, document
  <2>2. disk[p] # r
    BY <2>1 DEF TrustInv, DiskGenuine, Committed
  <2> QED
    BY <1>1, <2>1, <2>2 DEF Removed, Regranted, InMutation, TypeOK, TrustInv
<1>5. ASSUME NEW r \in Requests, Answer(r)
      PROVE  \E q \in Requests : Regranted(p, ServerOf[s], q)'
  <2> DEFINE i == ServerOf[r]
  <2>1. /\ disk' = disk /\ i \in Servers
        /\ reviews' = [reviews EXCEPT ![i] = IF Revokes(r) THEN @ \ {ProjectOf[r]} ELSE @]
        /\ pc[r] = "reloaded" /\ pc' = [pc EXCEPT ![r] = "done"]
    BY <1>5 DEF Answer, Ended, document
  <2>2. disk[p] \in Requests /\ ProjectOf[disk[p]] = p
    BY <2>1 DEF Removed, TrustInv, DiskGenuine
  <2>3. disk[p] # r
    <3> SUFFICES ASSUME disk[p] = r PROVE FALSE
      OBVIOUS
    <3>1. Revokes(r)
      BY <2>1 DEF Removed, Revokes
    <3> QED
      BY <3>1, <2>1, <2>2 DEF TypeOK, TrustInv
  <2>4. p \in reviews[ServerOf[disk[p]]] /\ Removed(p)
    BY <2>1, <2>2, <2>3 DEF Removed, TypeOK, TrustInv
  <2>5. ASSUME NEW q \in Requests, Regranted(p, ServerOf[s], q)
        PROVE  Regranted(p, ServerOf[s], q)'
    <3>1. q # r
      BY <2>1, <2>2, <2>3, <2>5 DEF Regranted, TrustInv, CopiesHold, Own
    <3> QED
      BY <3>1, <2>1, <2>5 DEF Regranted, InMutation, TypeOK, TrustInv
  <2> QED
    BY <1>1, <2>1, <2>4, <2>5
<1>6. ASSUME NEW i \in Servers, NEW x \in Projects, StartReview(i, x)
      PROVE  \E q \in Requests : Regranted(p, ServerOf[s], q)'
  <2>1. /\ UNCHANGED <<disk, pc>> /\ reviews' = [reviews EXCEPT ![i] = @ \union {x}]
        /\ Level(x, Fresh(i)[x]) = "granted"
    BY <1>6 DEF StartReview, document
  <2>2. Removed(p)
    BY <2>1 DEF Removed
  <2>3. \A q \in Requests : Regranted(p, ServerOf[s], q) <=> Regranted(p, ServerOf[s], q)'
    BY <2>1 DEF Regranted, InMutation
  <2>4. CASE ServerOf[disk[p]] = i /\ x = p
    <3>1. \/ Fresh(i)[p] = disk[p]
          \/ \E q \in Requests :
                /\ InMutation(q) /\ ServerOf[q] = i /\ ProjectOf[q] = p
                /\ Fresh(i)[p] = q
      BY <2>2, <2>4 DEF TrustInv, Believes, Own, Removed
    <3>2. Fresh(i)[p] # disk[p]
      BY <2>1, <2>2, <2>4 DEF Level, Removed
    <3>3. PICK q \in Requests :
                /\ InMutation(q) /\ ServerOf[q] = i /\ ProjectOf[q] = p
                /\ Fresh(i)[p] = q
      BY <3>1, <3>2
    <3>4. WantOf[q] = "granted"
      BY <3>3, <2>1, <2>4 DEF Level
    <3> QED
      BY <3>3, <3>4, <2>1, <2>3, <2>4 DEF Regranted
  <2>5. CASE ~(ServerOf[disk[p]] = i /\ x = p)
    <3>1. p \in reviews[ServerOf[disk[p]]]
      BY <2>1, <2>2, <2>5 DEF TypeOK, TrustInv, Removed
    <3> QED
      BY <1>1, <2>1, <2>2, <2>3, <3>1
  <2> QED
    BY <2>4, <2>5
<1>7. ASSUME NEW i \in Servers, NEW x \in Projects, EndReview(i, x)
      PROVE  \E q \in Requests : Regranted(p, ServerOf[s], q)'
  <2>1. UNCHANGED <<disk, pc>> /\ reviews' = [reviews EXCEPT ![i] = @ \ {x}]
    BY <1>7 DEF EndReview, document
  <2>2. Removed(p) /\ p \in reviews[ServerOf[disk[p]]]
    BY <2>1 DEF Removed, TypeOK, TrustInv
  <2> QED
    BY <1>1, <2>1, <2>2 DEF Regranted, InMutation
<1>8. ASSUME UNCHANGED <<disk, pc, reviews>>
      PROVE  \E q \in Requests : Regranted(p, ServerOf[s], q)'
  BY <1>1, <1>8 DEF Removed, Regranted, InMutation
<1>9. ASSUME NEW i \in Servers, GetTrust(i)
      PROVE  \E q \in Requests : Regranted(p, ServerOf[s], q)'
  BY <1>8, <1>9 DEF GetTrust, document
<1>10. CASE UNCHANGED vars
  BY <1>8, <1>10 DEF vars
<1> QED
  BY <1>2, <1>3, <1>4, <1>5, <1>6, <1>7, <1>9, <1>10 DEF Next, Mutation

-----------------------------------------------------------------------------
(* The trust of every project is kept, believed and revoked consistently: the
   inductive invariant of the theorems below. *)
THEOREM TrustInvHolds == Spec => []TrustInv
<1>1. Init => TrustInv
  BY InitInv
<1>2. TrustInv /\ [Next]_vars => TrustInv'
  <2> SUFFICES ASSUME TrustInv, [Next]_vars PROVE TrustInv'
    OBVIOUS
  <2>1. TypeOK' /\ Serial'
    BY TypeStep DEF TrustInv
  <2>2. Locked'
    BY LockedStep DEF TrustInv
  <2>3. Genuine'
    BY GenuineStep DEF TrustInv, Genuine
  <2>4. Holding'
    BY <2>1, HoldingStep DEF TrustInv, Holding
  <2>5. RemovalEndsReviews'
    BY <2>1, RemovalStep
  <2> QED
    BY <2>1, <2>2, <2>3, <2>4, <2>5 DEF TrustInv, Genuine, Holding
<1> QED
  BY <1>1, <1>2, PTL DEF Spec

(* Type correctness of the document, the servers and their requests. *)
THEOREM TypesCorrect == Spec => []TypeOK
<1>1. TrustInv => TypeOK
  BY DEF TrustInv
<1> QED
  BY <1>1, TrustInvHolds, PTL

(* Whatever fails and however servers interleave, a server believes only what
   was committed or what it is about to commit, and never forgets a change it
   has answered (trust-store.ts). *)
THEOREM ServersBelieveGenuine == Spec => []MemoryIsGenuine
<1>1. TrustInv => MemoryIsGenuine
  <2> SUFFICES ASSUME TrustInv PROVE ReadsOwnWrites
    BY DEF TrustInv, MemoryIsGenuine
  <2> QED
    BY RequestsAreRecords DEF TrustInv, Believes, Own, ReadsOwnWrites
<1> QED
  BY <1>1, TrustInvHolds, PTL

(* A review ends with the trust it runs on, when the server it runs on has
   answered the removal (settings/router.ts). *)
THEOREM RemovedTrustEndsReviews == Spec => []RemovalEndsReviews
<1>1. TrustInv => RemovalEndsReviews
  BY DEF TrustInv
<1> QED
  BY <1>1, TrustInvHolds, PTL

(* No write erases the record of another request for another project, on
   whatever server it was made (trust-store.ts, persistTrustWith). *)
THEOREM RecordsAreIndependent == Spec => RecordsIndependent
<1> DEFINE Independent ==
        \A p \in Projects :
            disk'[p] # disk[p] =>
                /\ disk'[p] \in Requests
                /\ ProjectOf[disk'[p]] = p
                /\ pc[disk'[p]] = "merged"
<1>1. TrustInv /\ [Next]_vars => [Independent]_vars
  <2> SUFFICES ASSUME TrustInv, Next PROVE Independent
    OBVIOUS
  <2>1. ASSUME NEW r \in Requests, Write(r)
        PROVE  Independent
    BY <2>1, WriteOwnRecord DEF TrustInv, TypeOK, Documents
  <2>2. disk' = disk \/ \E r \in Requests : Write(r)
    BY DEF Next, Mutation, Ask, AnswerNotRemoved, Mutate, Merge, Unlock, Reload, Answer,
           WriteFails, LockFails, Rollback, GetTrust, StartReview, EndReview, document
  <2> QED
    BY <2>1, <2>2
<1> QED
  BY <1>1, TrustInvHolds, PTL DEF Spec, RecordsIndependent
=============================================================================

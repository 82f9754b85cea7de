-------------------------- MODULE ReviewIndexProofs --------------------------
(***************************************************************************)
(* What holds of the index of any number of projects, while any number of  *)
(* reviews are saved and listed and one project moves. The argument is one *)
(* inductive invariant, IndexInv. It does not need the cursor markers: an   *)
(* index that is there covers every review it owes, certified or not, and  *)
(* so does what the holder of its lock is about to write.                  *)
(***************************************************************************)
EXTENDS ReviewIndex, TLAPS

SaveStages == {"idle", "adding", "invalidating", "marking", "saved", "failed", "crashed"}
ListStages == {"idle", "rebuilding", "reading", "pruning"}
MoveStages == {"idle", "moving", "flagging", "publishing", "withdrawing", "excusing",
               "verifying", "clearing", "removing", "committing", "moved"}

(* Where each actor stands, and what a pass knows there. *)
Cast ==
    /\ \A r \in Reviews : pc[r] \in SaveStages
    /\ \A l \in Listers : pc[l] \in ListStages
    /\ pc[Mover] \in MoveStages
    /\ pc[Mover] \in {"flagging", "verifying"} => pass.recovery /\ ~pass.failed

(* The holder of a lock is in the rewrite it is for, and what its draft is. *)
HolderInv(p) ==
    LET a == lock[p].by
        draft == lock[p].draft
    IN  /\ pc[a] \in Wanting
        /\ PathOf(a) = p
        /\ pc[a] \in {"invalidating", "withdrawing", "removing"} => draft = NoIndex
        /\ pc[a] \in {"adding", "rebuilding", "publishing"} => draft # NoIndex
        /\ pc[a] = "adding" => a \in draft.ids
        /\ pc[a] = "publishing" => pass.claimed \subseteq draft.ids
        /\ lock[p].stage \in {"mark", "settle"} => index[p] = draft /\ draft # NoIndex
        /\ lock[p].stage = "settle" => pc[a] = "rebuilding"

Held == \A p \in Paths : lock[p] # Free => HolderInv(p)

(* A review never was at p unless it is there, or p has moved. *)
Was(r, p) == file[r] = p \/ (p = From /\ file[r] = To)

(* No index, draft, listing or pass names a review that was never there; and
   what a listing is about to prune has left. *)
Genuine ==
    /\ \A r \in Reviews : Was(r, Home[r]) \/ (file[r] = Nowhere /\ pc[r] \in {"idle", "failed"})
    /\ \A r \in Reviews : pc[r] = "idle" => file[r] = Nowhere
    /\ \A p \in Paths : index[p] # NoIndex => \A r \in index[p].ids : Was(r, p)
    /\ \A p \in Paths : Drafted(p) => \A r \in lock[p].draft.ids : Was(r, p)
    /\ \A l \in Listers : \A r \in seen[l].ids :
        /\ Was(r, seen[l].path)
        /\ pc[l] = "pruning" => file[r] # seen[l].path
    /\ \A r \in pass.remaining : Was(r, From)
    /\ \A r \in pass.claimed : file[r] = To

(* A review that the listings of its project must show: it was saved, or moved
   by a pass that has answered for it. *)
Owed(r) ==
    /\ pc[r] = "saved" \/ (file[r] # Home[r] /\ file[r] # Nowhere)
    /\ r \notin abandoned \union unmerged \union InTransit

Covers ==
    /\ \A p \in Paths : index[p] # NoIndex =>
        \A r \in Reviews : Owed(r) /\ file[r] = p => p \in reconcile \/ r \in index[p].ids
    /\ \A p \in Paths : Drafted(p) =>
        \A r \in Reviews : Owed(r) /\ file[r] = p => p \in reconcile \/ r \in lock[p].draft.ids

(* A rewrite loses no entry whose review is still there. *)
DraftHolds ==
    \A p \in Paths : Drafted(p) /\ index[p] # NoIndex =>
        \A r \in index[p].ids : file[r] = p => r \in lock[p].draft.ids

(* Once it is verified, the destination names what the pass claimed. *)
Published ==
    pc[Mover] \in {"clearing", "removing"} =>
        \A r \in pass.claimed :
            /\ index[To] # NoIndex => r \in index[To].ids
            /\ Drafted(To) => r \in lock[To].draft.ids

IndexInv ==
    /\ TypeOK
    /\ Cast
    /\ Held
    /\ Genuine
    /\ Covers
    /\ DraftHolds
    /\ Published

-----------------------------------------------------------------------------
(* Initially no lock is held and every index is complete. *)
LEMMA IndexInvInit == Init => IndexInv
<1> SUFFICES ASSUME Init PROVE IndexInv
  OBVIOUS
<1> USE ReviewIndexAssumption, AbsenceAssumption DEF Init
<1>1. TypeOK
  <2>1. index \in [Paths -> Indexes \union {NoIndex}]
    BY DEF Indexes
  <2> QED
    BY <2>1 DEF TypeOK, Stages, Nothing, NoPass, Actors
<1>2. Cast
  BY DEF Cast, SaveStages, ListStages, MoveStages, Actors
<1>3. Held /\ DraftHolds /\ Published
  BY DEF Held, DraftHolds, Published, Drafted, Actors, NoPass
<1>4. Genuine
  BY DEF Genuine, Was, Drafted, Nothing, NoPass, Actors
<1>5. Covers
  BY DEF Covers, Owed, Drafted, Actors
<1> QED
  BY <1>1, <1>2, <1>3, <1>4, <1>5 DEF IndexInv

-----------------------------------------------------------------------------
(* The steps in which an actor goes on: the locks it held are free again, and
   the index it was rewriting is its draft or what it was. *)
LetsGo(a) ==
    \A q \in Paths :
        \/ lock'[q] = lock[q] /\ index'[q] = index[q]
           /\ (lock[q] # Free => lock[q].by # a)
        \/ lock'[q] = Free /\ lock[q] # Free /\ lock[q].by = a
           /\ index'[q] \in {index[q], lock[q].draft}

(* A review that is owed afterwards is shown. *)
StaysShown(r) ==
    \/ file[r] \in reconcile'
    \/ index'[file[r]] = NoIndex /\ lock'[file[r]] = Free
    \/ index'[file[r]] # NoIndex /\ r \in index'[file[r]].ids
    \/ /\ index'[file[r]] # NoIndex => r \in index'[file[r]].ids
       /\ Drafted(file[r])' => r \in lock'[file[r]].draft.ids
    \/ Owed(r) /\ file[r] \notin reconcile

LEMMA GoesOn ==
    ASSUME IndexInv, NEW a \in Actors, NEW stage \in Stages,
           Goto(a, stage), LetsGo(a), stage # "pruning",
           a \in Reviews => /\ pc[a] \notin {"idle", "failed"}
                            /\ stage \in SaveStages \ {"idle"},
           a \in Listers => stage \in ListStages,
           a = Mover => /\ stage \in MoveStages
                        /\ stage \in {"flagging", "verifying"}
                            => pass.recovery /\ ~pass.failed
                        /\ stage \in {"clearing", "removing"} /\ pc[a] # "clearing" =>
                            \A r \in pass.claimed : index'[To] # NoIndex /\ r \in index'[To].ids,
           file' = file, lock' \in [Paths -> Rewrites \union {Free}],
           index' \in [Paths -> Indexes \union {NoIndex}],
           cursor' \in SUBSET Paths, reconcile' \in SUBSET Paths,
           faults' \in Nat, abandoned' \in SUBSET Reviews, unmerged' \in SUBSET Reviews,
           \A r \in Reviews : Owed(r)' => StaysShown(r)
    PROVE  IndexInv'
<1> USE ReviewIndexAssumption, AbsenceAssumption
<1>1. TypeOK'
  BY DEF IndexInv, TypeOK, Goto, Nothing, NoPass
<1>2. Cast'
  BY DEF IndexInv, Cast, TypeOK, Goto, Actors, NoPass
<1>3. Held'
  <2> SUFFICES ASSUME NEW q \in Paths, lock'[q] # Free PROVE HolderInv(q)'
    BY DEF Held
  <2>1. lock'[q] = lock[q] /\ index'[q] = index[q] /\ lock[q].by # a /\ HolderInv(q)
    BY DEF LetsGo, IndexInv, Held
  <2>2. lock[q].by \in Actors
    BY <2>1 DEF IndexInv, TypeOK, Rewrites
  <2>3. pc'[lock[q].by] = pc[lock[q].by]
    BY <2>1, <2>2 DEF Goto, IndexInv, TypeOK
  <2>4. PathOf(lock[q].by)' = PathOf(lock[q].by)
    BY <2>1, <2>2, <2>3 DEF PathOf, Goto, Actors, IndexInv, TypeOK
  <2>5. lock[q].by = Mover => pass' = pass
    BY <2>1 DEF Goto
  <2>6. pc[lock[q].by] = "publishing" => lock[q].by = Mover
    BY <2>2 DEF IndexInv, Cast, Actors, SaveStages, ListStages
  <2> QED
    BY <2>1, <2>3, <2>4, <2>5, <2>6 DEF HolderInv
<1>4. \A q \in Paths : Drafted(q)' => Drafted(q) /\ lock'[q] = lock[q] /\ index'[q] = index[q]
  BY DEF Drafted, LetsGo
<1>5. \A q \in Paths : index'[q] # NoIndex =>
            index'[q] = index[q] \/ (Drafted(q) /\ index'[q] = lock[q].draft)
  BY DEF Drafted, LetsGo
<1>6. Genuine'
  <2>1. /\ \A r \in Reviews : Was(r, Home[r])'
                              \/ (file'[r] = Nowhere /\ pc'[r] \in {"idle", "failed"})
        /\ \A r \in Reviews : pc'[r] = "idle" => file'[r] = Nowhere
    BY DEF IndexInv, Genuine, Was, Goto, TypeOK, Actors
  <2>2. \A q \in Paths : index'[q] # NoIndex => \A r \in index'[q].ids : Was(r, q)'
    BY <1>5 DEF IndexInv, Genuine, Was, Drafted
  <2>3. \A q \in Paths : Drafted(q)' => \A r \in lock'[q].draft.ids : Was(r, q)'
    BY <1>4 DEF IndexInv, Genuine, Was
  <2>4. (\A l \in Listers : \A r \in seen[l].ids :
            /\ Was(r, seen[l].path)
            /\ pc[l] = "pruning" => file[r] # seen[l].path)'
    <3> SUFFICES ASSUME NEW l \in Listers, NEW r \in seen'[l].ids
                 PROVE  (/\ Was(r, seen[l].path)
                         /\ pc[l] = "pruning" => file[r] # seen[l].path)'
      OBVIOUS
    <3>1. seen'[l] = seen[l] /\ r \in seen[l].ids
      BY DEF Goto, Nothing
    <3>2. pc'[l] = "pruning" => pc[l] = "pruning"
      BY DEF Goto, IndexInv, TypeOK, Actors
    <3> QED
      BY <3>1, <3>2 DEF IndexInv, Genuine, Was
  <2>5. pass'.remaining \subseteq pass.remaining /\ pass'.claimed \subseteq pass.claimed
    BY DEF Goto, NoPass
  <2>6. /\ \A r \in pass'.remaining : Was(r, From)'
        /\ \A r \in pass'.claimed : file'[r] = To
    BY <2>5 DEF IndexInv, Genuine, Was
  <2> QED
    BY <2>1, <2>2, <2>3, <2>4, <2>6 DEF Genuine, Was
<1>7. Covers'
  <2> SUFFICES ASSUME NEW q \in Paths, NEW r \in Reviews, Owed(r)', file[r] = q,
                      q \notin reconcile'
               PROVE  /\ index'[q] # NoIndex => r \in index'[q].ids
                      /\ Drafted(q)' => r \in lock'[q].draft.ids
    BY DEF Covers
  <2>1. StaysShown(r)
    OBVIOUS
  <2>2. CASE index'[q] = NoIndex /\ lock'[q] = Free
    BY <2>2 DEF Drafted
  <2>3. CASE index'[q] # NoIndex /\ r \in index'[q].ids
    BY <2>3, <1>4 DEF IndexInv, DraftHolds
  <2>4. CASE Owed(r) /\ q \notin reconcile
    BY <2>4, <1>4, <1>5 DEF IndexInv, Covers, Drafted
  <2> QED
    BY <2>1, <2>2, <2>3, <2>4 DEF StaysShown, Drafted
<1>8. DraftHolds'
  BY <1>4 DEF IndexInv, DraftHolds, Drafted
<1>9. Published'
  <2> SUFFICES ASSUME pc'[Mover] \in {"clearing", "removing"}, NEW r \in pass'.claimed
               PROVE  /\ index'[To] # NoIndex => r \in index'[To].ids
                      /\ Drafted(To)' => r \in lock'[To].draft.ids
    BY DEF Published
  <2>1. CASE a = Mover
    <3>1. stage \in {"clearing", "removing"} /\ r \in pass.claimed
      BY <2>1 DEF Goto, IndexInv, TypeOK
    <3>2. r \in Reviews /\ file[r] = To
      BY <3>1 DEF IndexInv, TypeOK, Genuine
    <3>3. CASE pc[a] = "clearing"
      BY <2>1, <3>1, <3>3, <1>4, <1>5 DEF IndexInv, Published
    <3>4. CASE pc[a] # "clearing"
      BY <2>1, <3>1, <3>2, <3>4, <1>4 DEF IndexInv, DraftHolds
    <3> QED
      BY <3>3, <3>4
  <2>2. CASE a # Mover
    <3>1. pc[Mover] \in {"clearing", "removing"} /\ r \in pass.claimed
      BY <2>2 DEF Goto, IndexInv, TypeOK, Actors
    <3> QED
      BY <3>1, <1>4, <1>5 DEF IndexInv, Published
  <2> QED
    BY <2>1, <2>2
<1> QED
  BY <1>1, <1>2, <1>3, <1>6, <1>7, <1>8, <1>9 DEF IndexInv

-----------------------------------------------------------------------------
(* The steps in which an actor takes the lock of its index with a draft that
   leaves nothing out. *)
Fits(p, draft) ==
    /\ \A r \in draft.ids : Was(r, p)
    /\ \A r \in Reviews : Owed(r) /\ file[r] = p => p \in reconcile \/ r \in draft.ids
    /\ index[p] # NoIndex => \A r \in index[p].ids : file[r] = p => r \in draft.ids
    /\ pc[Mover] \in {"clearing", "removing"} /\ p = To => pass.claimed \subseteq draft.ids

LEMMA TakesLock ==
    ASSUME IndexInv, NEW a \in Actors, NEW draft \in Indexes \union {NoIndex},
           Acquire(a, draft), pc[a] \in Wanting,
           pc[a] \in {"invalidating", "withdrawing", "removing"} => draft = NoIndex,
           pc[a] \in {"adding", "rebuilding", "publishing"} => draft # NoIndex,
           pc[a] = "adding" => a \in draft.ids,
           pc[a] = "publishing" => pass.claimed \subseteq draft.ids,
           draft # NoIndex => Fits(PathOf(a), draft),
           UNCHANGED <<file, index, cursor, reconcile, pc, seen, pass, abandoned, unmerged>>,
           faults' \in Nat
    PROVE  IndexInv'
<1> USE ReviewIndexAssumption, AbsenceAssumption
<1>0. PathOf(a) \in Paths
  BY DEF PathOf, IndexInv, TypeOK, Actors
<1>1. PICK p \in Paths : p = PathOf(a)
  BY <1>0
<1>2. lock'[p] = [by |-> a, stage |-> "clear", draft |-> draft] /\ lock'[p] \in Rewrites
  BY <1>1 DEF Acquire, IndexInv, TypeOK, Rewrites
<1>3. \A q \in Paths : q # p => lock'[q] = lock[q]
  BY <1>1 DEF Acquire, IndexInv, TypeOK
<1>4. TypeOK'
  BY <1>1, <1>2 DEF IndexInv, TypeOK, Acquire
<1>5. Cast'
  BY DEF IndexInv, Cast
<1>6. Held'
  <2>1. HolderInv(p)'
    BY <1>1, <1>2 DEF HolderInv, PathOf
  <2>2. ASSUME NEW q \in Paths, q # p, lock'[q] # Free PROVE HolderInv(q)'
    BY <2>2, <1>3 DEF IndexInv, Held, HolderInv, PathOf
  <2> QED
    BY <2>1, <2>2 DEF Held
<1>7. \A q \in Paths : Drafted(q)' =>
            \/ Drafted(q) /\ lock'[q] = lock[q] 
            \/ q = p /\ lock'[q].draft = draft /\ Fits(p, draft)
  BY <1>1, <1>2, <1>3 DEF Drafted
<1>8. Genuine'
  BY <1>7 DEF IndexInv, Genuine, Was, Fits
<1>9. Covers'
  BY <1>7 DEF IndexInv, Covers, Owed, Fits, InTransit, Flagged
<1>10. DraftHolds'
  BY <1>7 DEF IndexInv, DraftHolds, Fits
<1>11. Published'
  BY <1>7 DEF IndexInv, Published, Fits
<1> QED
  BY <1>4, <1>5, <1>6, <1>8, <1>9, <1>10, <1>11 DEF IndexInv

(* What a rewrite starts from: the certified index, or a scan. *)
LEMMA BaseFits ==
    ASSUME IndexInv, NEW p \in Paths
    PROVE  Base(p) \in Indexes /\ Fits(p, Base(p))
<1>1. CASE Certified(p)
  BY <1>1 DEF Base, Certified, IndexInv, TypeOK, Fits, Genuine, Covers, Published
<1>2. CASE ~Certified(p)
  <2>1. Base(p) = Bare(Owned(p))
    BY <1>2 DEF Base
  <2>2. Base(p).ids = Owned(p) /\ Base(p) \in Indexes
    BY <2>1 DEF Bare, Indexes, Owned
  <2>3. \A r \in Owned(p) : Was(r, p)
    BY DEF Owned, Was
  <2>4. p = To => pass.claimed \subseteq Owned(p)
    BY DEF IndexInv, Genuine, Owned, TypeOK
  <2>5. index[p] # NoIndex => \A r \in index[p].ids : file[r] = p => r \in Owned(p)
    BY DEF Owned, IndexInv, TypeOK, Indexes
  <2> QED
    BY <2>2, <2>3, <2>4, <2>5 DEF Fits, Owned
<1> QED
  BY <1>1, <1>2

(* Entries that were there may be merged in. *)
LEMMA MergedFits ==
    ASSUME NEW p \in Paths, NEW base \in Indexes, Fits(p, base),
           NEW S \in SUBSET Reviews, \A r \in S : Was(r, p)
    PROVE  /\ Merged(base, S) \in Indexes
           /\ Fits(p, Merged(base, S))
           /\ S \subseteq Merged(base, S).ids
<1>1. Merged(base, S).ids = base.ids \union S
  BY DEF Merged
<1>2. Merged(base, S) \in Indexes
  BY DEF Merged, Indexes
<1> QED
  BY <1>1, <1>2 DEF Fits

-----------------------------------------------------------------------------
(* The rewrite of one index goes on under its lock. *)
LEMMA RewriteGoesOn ==
    ASSUME IndexInv, NEW p \in Paths, lock[p] # Free,
           NEW stage \in {"write", "mark", "settle"}, Advance(p, stage),
           \/ index' = index /\ (stage = "write" \/ (stage = "settle" /\ At(p, "mark")
                                                   /\ pc[lock[p].by] = "rebuilding"))
           \/ /\ stage = "mark" /\ lock[p].draft # NoIndex
              /\ index' = [index EXCEPT ![p] = lock[p].draft],
           UNCHANGED <<file, reconcile, pc, seen, pass, faults, abandoned, unmerged>>,
           cursor' \in SUBSET Paths
    PROVE  IndexInv'
<1> USE ReviewIndexAssumption, AbsenceAssumption
<1>1. lock[p] \in Rewrites /\ HolderInv(p)
  BY DEF IndexInv, TypeOK, Held
<1>2. /\ lock'[p] \in Rewrites
      /\ lock'[p].by = lock[p].by /\ lock'[p].draft = lock[p].draft /\ lock'[p].stage = stage
  BY <1>1 DEF Advance, IndexInv, TypeOK, Rewrites
<1>3. \A q \in Paths : q # p => lock'[q] = lock[q] /\ index'[q] = index[q]
  BY DEF Advance, IndexInv, TypeOK
<1>4. lock' \in [Paths -> Rewrites \union {Free}]
  BY <1>1, <1>2 DEF Advance, IndexInv, TypeOK
<1>5. /\ index' \in [Paths -> Indexes \union {NoIndex}]
      /\ index'[p] = index[p] \/ (index'[p] = lock[p].draft /\ lock[p].draft # NoIndex)
      /\ stage \in {"mark", "settle"} => index'[p] = lock[p].draft /\ lock[p].draft # NoIndex
  BY <1>1 DEF IndexInv, TypeOK, Rewrites, At, HolderInv
<1>6. TypeOK'
  BY <1>4, <1>5 DEF IndexInv, TypeOK
<1>7. Cast'
  BY DEF IndexInv, Cast
<1>8. Held'
  <2>1. HolderInv(p)'
    BY <1>1, <1>2, <1>5 DEF HolderInv, PathOf
  <2>2. ASSUME NEW q \in Paths, q # p, lock'[q] # Free PROVE HolderInv(q)'
    BY <2>2, <1>3 DEF IndexInv, Held, HolderInv, PathOf
  <2> QED
    BY <2>1, <2>2 DEF Held
<1>9. \A q \in Paths : Drafted(q)' => Drafted(q) /\ lock'[q].draft = lock[q].draft
  BY <1>2, <1>3 DEF Drafted
<1>10. \A q \in Paths : index'[q] # NoIndex =>
            index'[q] = index[q] \/ (Drafted(q) /\ index'[q] = lock[q].draft)
  BY <1>3, <1>5 DEF Drafted
<1>11. Genuine'
  BY <1>9, <1>10 DEF IndexInv, Genuine, Was
<1>12. Covers'
  BY <1>9, <1>10 DEF IndexInv, Covers, Owed, InTransit, Flagged
<1>13. DraftHolds'
  BY <1>9, <1>10 DEF IndexInv, DraftHolds
<1>14. Published'
  BY <1>9, <1>10 DEF IndexInv, Published
<1> QED
  BY <1>6, <1>7, <1>8, <1>11, <1>12, <1>13, <1>14 DEF IndexInv

(* While an actor other than the pass goes on, all that is newly owed is the
   review of a save that has finished. *)
LEMMA NewlyOwed ==
    ASSUME IndexInv, NEW a \in Actors \ {Mover}, NEW stage \in Stages, Goto(a, stage),
           file' = file, reconcile \subseteq reconcile',
           abandoned \subseteq abandoned', unmerged \subseteq unmerged',
           a \in Reviews => pc[a] \notin {"idle", "failed"},
           NEW r \in Reviews, Owed(r)'
    PROVE  StaysShown(r) \/ (r = a /\ stage = "saved" /\ file[r] = Home[r])
<1> USE ReviewIndexAssumption
<1>1. InTransit' = InTransit
  BY DEF InTransit, Flagged, Goto, IndexInv, TypeOK, Actors
<1>2. CASE r = a /\ stage = "saved"
  BY <1>1, <1>2 DEF Owed, StaysShown, IndexInv, Genuine, Was
<1>3. CASE ~(r = a /\ stage = "saved")
  BY <1>1, <1>3 DEF Owed, StaysShown, Goto, IndexInv, TypeOK, Actors
<1> QED
  BY <1>2, <1>3

(* An actor that holds no lock goes on. *)
LEMMA GoesFree ==
    ASSUME IndexInv, NEW a \in Actors, ~Holds(a), UNCHANGED <<lock, index>>
    PROVE  LetsGo(a)
BY DEF IndexInv, TypeOK, Holds, LetsGo

(* Who is in a rewrite is the only holder of its lock. *)
LEMMA HoldsOnlyHis ==
    ASSUME IndexInv, NEW p \in Paths, lock[p] # Free
    PROVE  /\ lock[p] \in Rewrites /\ lock[p].by \in Actors /\ HolderInv(p)
           /\ \A q \in Paths : q # p /\ lock[q] # Free => lock[q].by # lock[p].by
<1>1. lock[p] \in Rewrites /\ lock[p].by \in Actors /\ HolderInv(p)
  BY DEF IndexInv, TypeOK, Held, Rewrites
<1>2. \A q \in Paths : lock[q] # Free => PathOf(lock[q].by) = q
  BY DEF IndexInv, Held, HolderInv
<1> QED
  BY <1>1, <1>2

LEMMA IdleHoldsNone ==
    ASSUME IndexInv, NEW a \in Actors, pc[a] \notin Wanting
    PROVE  ~Holds(a)
BY DEF IndexInv, Held, HolderInv, Holds

LEMMA Releases ==
    ASSUME IndexInv, NEW p \in Paths, lock[p] # Free, Release(p),
           index' = index \/ index' = [index EXCEPT ![p] = lock[p].draft]
    PROVE  /\ LetsGo(lock[p].by)
           /\ lock' \in [Paths -> Rewrites \union {Free}] /\ lock'[p] = Free
           /\ index' \in [Paths -> Indexes \union {NoIndex}]
<1>1. /\ lock[p] \in Rewrites
      /\ \A q \in Paths : q # p /\ lock[q] # Free => lock[q].by # lock[p].by
  BY HoldsOnlyHis
<1> QED
  BY <1>1 DEF LetsGo, Release, IndexInv, TypeOK, Rewrites

-----------------------------------------------------------------------------
(* A rewrite that fails, or is not begun, leaves what was owed as it was. *)
LEMMA FailureOwesNothing ==
    ASSUME IndexInv, NEW a \in Actors, pc[a] \in Wanting, Goto(a, Failed(a)),
           LetsGo(a), lock' \in [Paths -> Rewrites \union {Free}],
           index' \in [Paths -> Indexes \union {NoIndex}], cursor' \in SUBSET Paths,
           Fault, UNCHANGED <<file, reconcile, abandoned, unmerged>>
    PROVE  IndexInv'
<1> USE ReviewIndexAssumption
<1>1. /\ Failed(a) \in Stages /\ Failed(a) # "pruning"
      /\ a \in Reviews => pc[a] \notin {"idle", "failed"} /\ Failed(a) \in SaveStages \ {"idle", "saved"}
      /\ a \in Listers => Failed(a) \in ListStages
      /\ a = Mover => Failed(a) \in MoveStages \ {"flagging", "verifying", "clearing", "removing"}
  BY DEF Failed, Wanting, Stages, SaveStages, ListStages, MoveStages, IndexInv, Cast
<1>2. faults' \in Nat
  BY DEF Fault, IndexInv, TypeOK
<1>3. \A r \in Reviews : Owed(r)' => StaysShown(r)
  <2> SUFFICES ASSUME NEW r \in Reviews, Owed(r)' PROVE StaysShown(r)
    OBVIOUS
  <2>1. CASE a = Mover
    <3>1. InTransit' = InTransit
      BY <2>1 DEF InTransit, Flagged, Goto, Failed, Wanting, IndexInv, Cast, TypeOK, MoveStages, Actors, NoPass
    <3> QED
      BY <2>1, <3>1 DEF Owed, StaysShown, Goto, IndexInv, TypeOK
  <2>2. CASE a # Mover
    BY <2>2, <1>1, NewlyOwed DEF IndexInv, TypeOK, SaveStages, ListStages, Actors
  <2> QED
    BY <2>1, <2>2
<1> QED
  BY <1>1, <1>2, <1>3, GoesOn DEF IndexInv, TypeOK

(* A rewrite that succeeds shows all it was for. *)
LEMMA SuccessShows ==
    ASSUME IndexInv, NEW p \in Paths, lock[p] # Free, NEW a \in Actors, a = lock[p].by,
           pc[a] # "rebuilding", Goto(a, Succeeded(a)), Release(p),
           \/ lock[p].draft = NoIndex /\ index' = [index EXCEPT ![p] = NoIndex]
           \/ lock[p].draft # NoIndex /\ index' = index /\ index[p] = lock[p].draft,
           cursor' \in SUBSET Paths, UNCHANGED <<file, reconcile, faults, abandoned, unmerged>>
    PROVE  IndexInv'
<1> USE ReviewIndexAssumption
<1>1. lock[p] \in Rewrites /\ HolderInv(p)
  BY HoldsOnlyHis
<1>2. /\ LetsGo(a) /\ lock'[p] = Free
      /\ lock' \in [Paths -> Rewrites \union {Free}]
      /\ index' \in [Paths -> Indexes \union {NoIndex}]
  BY Releases
<1>3. /\ Succeeded(a) \in Stages /\ Succeeded(a) # "pruning"
      /\ a \in Reviews => pc[a] \notin {"idle", "failed"} /\ Succeeded(a) = "saved"
      /\ a \in Listers => Succeeded(a) = "idle"
      /\ a = Mover => /\ Succeeded(a) \in MoveStages
                      /\ Succeeded(a) \in {"clearing", "removing"} => pc[a] = "publishing"
                      /\ Succeeded(a) \in {"flagging", "verifying"}
                            => pass.recovery /\ ~pass.failed
  BY <1>1 DEF HolderInv, Succeeded, Wanting, Stages, SaveStages, ListStages, MoveStages, IndexInv, Cast
<1>4. index'[p] = lock[p].draft
  BY DEF IndexInv, TypeOK
<1>5. a = Mover /\ pc[a] = "publishing" =>
        p = To /\ index'[To] # NoIndex /\ pass.claimed \subseteq index'[To].ids
  BY <1>1, <1>4 DEF HolderInv, PathOf
<1>6. \A r \in Reviews : Owed(r)' => StaysShown(r)
  <2> SUFFICES ASSUME NEW r \in Reviews, Owed(r)' PROVE StaysShown(r)
    OBVIOUS
  <2>1. CASE a = Mover
    <3>1. \/ InTransit \subseteq InTransit'
          \/ pc[a] \in {"publishing", "withdrawing"} /\ InTransit \subseteq pass.claimed
      BY <2>1, <1>1 DEF HolderInv, InTransit, Wanting, IndexInv, Cast, MoveStages
    <3>2. Owed(r) \/ (pc[a] \in {"publishing", "withdrawing"} /\ r \in pass.claimed)
      BY <2>1, <3>1 DEF Owed, Goto, IndexInv, TypeOK
    <3>3. CASE pc[a] \in {"publishing", "withdrawing"} /\ r \in pass.claimed
      <4>1. file[r] = To /\ p = To
        BY <2>1, <3>3, <1>1 DEF IndexInv, Genuine, HolderInv, PathOf
      <4>2. CASE pc[a] = "publishing"
        BY <2>1, <3>3, <4>1, <4>2, <1>5 DEF StaysShown
      <4>3. CASE pc[a] = "withdrawing"
        BY <4>1, <4>3, <1>1, <1>2, <1>4 DEF StaysShown, HolderInv
      <4> QED
        BY <3>3, <4>2, <4>3
    <3>4. CASE Owed(r)
      BY <3>4 DEF StaysShown
    <3> QED
      BY <3>2, <3>3, <3>4
  <2>2. CASE a # Mover
    <3>1. CASE StaysShown(r)
      BY <3>1
    <3>2. CASE r = a /\ file[r] = Home[r]
      <4>1. p = Home[r] /\ pc[a] \in {"adding", "invalidating"}
        BY <1>1, <3>2 DEF HolderInv, PathOf, IndexInv, Cast, Wanting, SaveStages
      <4> QED
        BY <4>1, <3>2, <1>1, <1>2, <1>4 DEF HolderInv, StaysShown
    <3> QED
      BY <2>2, <1>3, <3>1, <3>2, NewlyOwed DEF Actors
  <2> QED
    BY <2>1, <2>2
<1> QED
  BY <1>2, <1>3, <1>5, <1>6, GoesOn DEF IndexInv, TypeOK, SaveStages, ListStages

LEMMA RewriteKeeps ==
    ASSUME IndexInv, NEW p \in Paths, RewriteStep(p) \/ RewriteFails(p)
    PROVE  IndexInv'
<1> USE ReviewIndexAssumption
<1>1. CASE ClearCursor(p)
  BY <1>1, RewriteGoesOn DEF ClearCursor, At, IndexInv, TypeOK
<1>2. CASE WriteIndex(p)
  <2>1. CASE lock[p].draft = NoIndex
    <3>1. lock[p] # Free /\ lock[p].by \in Actors /\ HolderInv(p)
      BY <1>2, HoldsOnlyHis DEF WriteIndex, At
    <3>2. pc[lock[p].by] # "rebuilding"
      BY <2>1, <3>1 DEF HolderInv
    <3> QED
      BY <1>2, <2>1, <3>1, <3>2, SuccessShows DEF WriteIndex, IndexInv, TypeOK
  <2>2. CASE lock[p].draft # NoIndex
    BY <1>2, <2>2, RewriteGoesOn DEF WriteIndex, At, Stay, IndexInv, TypeOK
  <2> QED
    BY <2>1, <2>2
<1>3. CASE MarkCursor(p)
  <2>1. lock[p] # Free /\ lock[p].by \in Actors /\ HolderInv(p) /\ lock[p].stage = "mark"
    BY <1>3, HoldsOnlyHis DEF MarkCursor, At
  <2>2. cursor' \in SUBSET Paths
    BY <1>3 DEF MarkCursor, IndexInv, TypeOK
  <2>3. CASE pc[lock[p].by] = "rebuilding"
    BY <1>3, <2>1, <2>2, <2>3, RewriteGoesOn DEF MarkCursor, At, Stay
  <2>4. CASE pc[lock[p].by] # "rebuilding"
    BY <1>3, <2>1, <2>2, <2>4, SuccessShows DEF MarkCursor, HolderInv
  <2> QED
    BY <2>3, <2>4
<1>4. CASE Settle(p)
  <2>1. /\ lock[p] # Free /\ lock[p].by \in Actors /\ HolderInv(p)
        /\ pc[lock[p].by] = "rebuilding" /\ index[p] # NoIndex
    BY <1>4, HoldsOnlyHis DEF Settle, At, HolderInv
  <2>2. lock[p].by \in Listers
    BY <2>1 DEF Actors, IndexInv, Cast, SaveStages, MoveStages
  <2>3. /\ LetsGo(lock[p].by) /\ lock' \in [Paths -> Rewrites \union {Free}]
        /\ index' \in [Paths -> Indexes \union {NoIndex}]
    BY <1>4, <2>1, Releases DEF Settle
  <2>4. /\ abandoned' = abandoned /\ unmerged \subseteq unmerged'
        /\ unmerged' \in SUBSET Reviews /\ reconcile' = reconcile \ {p}
    BY <1>4 DEF Settle, ClearReconcile, IndexInv, TypeOK, Owned
  <2>5. ASSUME NEW r \in Reviews, Owed(r)' PROVE StaysShown(r)
    <3>1. InTransit' = InTransit
      BY <1>4, <2>2 DEF Settle, InTransit, Flagged, Goto, IndexInv, TypeOK, Actors
    <3>2. Owed(r)
      BY <1>4, <2>2, <2>4, <2>5, <3>1 DEF Settle, Owed, Goto, IndexInv, TypeOK, Actors
    <3>3. CASE file[r] = p /\ p \in reconcile
      <4>1. r \in Owned(p) \ {s \in BeingSaved : Home[s] = p}
        BY <3>2, <3>3, ReviewIndexAssumption DEF Owned, Owed, BeingSaved, IndexInv, Genuine
      <4>2. r \in index[p].ids
        BY <1>4, <2>1, <2>5, <3>3, <4>1 DEF Settle, ClearReconcile, Owed
      <4> QED
        BY <1>4, <2>1, <3>3, <4>2 DEF Settle, StaysShown
    <3>4. CASE file[r] # p
      BY <2>4, <3>2, <3>4 DEF StaysShown
    <3>5. CASE p \notin reconcile
      BY <2>4, <3>2, <3>5 DEF StaysShown
    <3> QED
      BY <3>3, <3>4, <3>5
  <2> QED
    BY <1>4, <2>1, <2>2, <2>3, <2>4, <2>5, GoesOn DEF Settle, IndexInv, TypeOK, Stages, ListStages, Actors
<1>5. CASE RewriteFails(p)
  <2>1. lock[p] # Free /\ lock[p].by \in Actors /\ HolderInv(p)
    BY <1>5, HoldsOnlyHis DEF RewriteFails
  <2>2. /\ index' = index \/ index' = [index EXCEPT ![p] = lock[p].draft]
        /\ cursor' \in SUBSET Paths /\ Release(p)
    BY <1>5 DEF RewriteFails, IndexInv, TypeOK
  <2>3. /\ LetsGo(lock[p].by) /\ lock' \in [Paths -> Rewrites \union {Free}]
        /\ index' \in [Paths -> Indexes \union {NoIndex}]
    BY <2>1, <2>2, Releases
  <2> QED
    BY <1>5, <2>1, <2>2, <2>3, FailureOwesNothing DEF RewriteFails, HolderInv
<1> QED
  BY <1>1, <1>2, <1>3, <1>4, <1>5 DEF RewriteStep

-----------------------------------------------------------------------------
(* The steps of a save. *)
LEMMA FileAppears ==
    ASSUME IndexInv, NEW r \in Reviews, pc[r] = "idle",
           NEW stage \in {"adding", "failed"}, Goto(r, stage),
           file' = [file EXCEPT ![r] = Home[r]] \/ (file' = file /\ stage = "failed"),
           faults' \in Nat, UNCHANGED <<index, cursor, reconcile, lock, abandoned, unmerged>>
    PROVE  IndexInv'
<1> USE ReviewIndexAssumption
<1>1. /\ file[r] = Nowhere /\ r # Mover /\ r \notin Listers /\ r \in Actors
      /\ \A p \in Paths : ~Was(r, p)
  BY DEF IndexInv, Genuine, Was, Actors
<1>2. /\ pass' = pass /\ seen' = seen
      /\ \A a \in Actors : a # r => pc'[a] = pc[a]
      /\ pc'[r] = stage
  BY <1>1 DEF Goto, IndexInv, TypeOK
<1>3. /\ \A s \in Reviews : s # r => file'[s] = file[s]
      /\ file'[r] = Home[r] \/ (file'[r] = file[r] /\ stage = "failed")
  BY DEF IndexInv, TypeOK
<1>4. TypeOK'
  BY <1>1, <1>2 DEF IndexInv, TypeOK, Goto, Stages
<1>5. Cast'
  BY <1>1, <1>2 DEF IndexInv, Cast, SaveStages, Actors
<1>6. Held'
  <2> SUFFICES ASSUME NEW p \in Paths, lock[p] # Free PROVE HolderInv(p)'
    BY DEF Held
  <2>1. lock[p].by \in Actors /\ HolderInv(p) /\ lock[p].by # r
    BY HoldsOnlyHis DEF HolderInv, Wanting
  <2> QED
    BY <1>2, <2>1, <1>1 DEF HolderInv, PathOf, Actors
<1>7. Genuine'
  BY <1>1, <1>2, <1>3 DEF IndexInv, Genuine, Was, Drafted, Actors, TypeOK, Indexes, Rewrites
<1>8. InTransit' = InTransit /\ \A s \in Reviews : Owed(s)' => Owed(s) /\ s # r
  BY <1>1, <1>2, <1>3 DEF InTransit, Flagged, Owed, Actors
<1>9. Covers'
  BY <1>3, <1>8 DEF IndexInv, Covers, Drafted
<1>10. DraftHolds'
  BY <1>1, <1>3 DEF IndexInv, DraftHolds, Drafted, Genuine, TypeOK, Indexes
<1>11. Published'
  BY <1>1, <1>2 DEF IndexInv, Published, Drafted, Actors
<1> QED
  BY <1>4, <1>5, <1>6, <1>7, <1>9, <1>10, <1>11 DEF IndexInv

LEMMA SaveKeeps ==
    ASSUME IndexInv, NEW r \in Reviews,
           WriteReview(r) \/ SaveFails(r) \/ SaveStep(r) \/ MarkFails(r)
    PROVE  IndexInv'
<1> USE ReviewIndexAssumption
<1>1. CASE WriteReview(r)
  BY <1>1, FileAppears DEF WriteReview, IndexInv, TypeOK
<1>2. CASE SaveFails(r)
  BY <1>2, FileAppears DEF SaveFails, Fault, IndexInv, TypeOK
<1>3. CASE AddToProjectIndex(r)
  <2>1. /\ Merged(Base(Home[r]), {r}) \in Indexes
        /\ Fits(Home[r], Merged(Base(Home[r]), {r}))
        /\ r \in Merged(Base(Home[r]), {r}).ids
    BY <1>3, BaseFits, MergedFits DEF AddToProjectIndex, IndexInv, Genuine
  <2> QED
    BY <1>3, <2>1, TakesLock, AbsenceAssumption
       DEF AddToProjectIndex, PathOf, Wanting, Actors, IndexInv, TypeOK
<1>4. CASE InvalidateProjectIndex(r)
  BY <1>4, TakesLock DEF InvalidateProjectIndex, Wanting, Actors, IndexInv, TypeOK
<1>5. ASSUME pc[r] = "marking", Goto(r, "saved"), UNCHANGED <<file, index, cursor, lock, faults>>,
             \/ reconcile' = reconcile \union {Home[r]} /\ UNCHANGED <<abandoned, unmerged>>
             \/ reconcile' = reconcile /\ Abandon({r})
      PROVE  IndexInv'
  <2>1. r \in Actors \ {Mover} /\ LetsGo(r) /\ r \notin Listers
    BY <1>5, GoesFree, IdleHoldsNone DEF Wanting, Actors
  <2>2. /\ reconcile' \in SUBSET Paths /\ reconcile \subseteq reconcile'
        /\ abandoned' \in SUBSET Reviews /\ abandoned \subseteq abandoned'
        /\ unmerged' = unmerged
    BY <1>5 DEF Abandon, IndexInv, TypeOK
  <2>3. ASSUME NEW s \in Reviews, Owed(s)' PROVE StaysShown(s)
    <3>1. StaysShown(s) \/ (s = r /\ file[s] = Home[s])
      BY <1>5, <2>1, <2>2, <2>3, NewlyOwed DEF Stages
    <3>2. s = r => reconcile' = reconcile \union {Home[r]}
      BY <1>5, <2>3 DEF Abandon, Owed
    <3> QED
      BY <3>1, <3>2 DEF StaysShown
  <2> QED
    BY <1>5, <2>1, <2>2, <2>3, GoesOn DEF IndexInv, TypeOK, Stages, SaveStages
<1> QED
  BY <1>1, <1>2, <1>3, <1>4, <1>5 DEF SaveStep, MarkProjectReconcile, MarkFails

-----------------------------------------------------------------------------
(* The steps of a listing. *)
LEMMA ListKeeps ==
    ASSUME IndexInv, NEW l \in Listers,
           \/ ListStep(l)
           \/ \E p \in Paths : Look(l, p)
           \/ \E unread \in SUBSET Reviews : RebuildPartly(l, unread)
    PROVE  IndexInv'
<1> USE ReviewIndexAssumption, AbsenceAssumption
<1>1. l \in Actors /\ l # Mover /\ l \notin Reviews
  BY DEF Actors
<1>2. seen[l].path \in Paths /\ seen[l].ids \in SUBSET Reviews
  BY DEF IndexInv, TypeOK
(* A listing that only looks at more. *)
<1>3. ASSUME ~Holds(l), pc' = [pc EXCEPT ![l] = pc'[l]], pc'[l] \in {"rebuilding", "reading", "pruning"},
             seen' = [seen EXCEPT ![l] = seen'[l]],
             seen'[l] \in [path : Paths, ids : SUBSET Reviews],
             \A r \in seen'[l].ids : /\ Was(r, seen'[l].path)
                                     /\ pc'[l] = "pruning" => file[r] # seen'[l].path,
             UNCHANGED <<file, index, cursor, reconcile, lock, pass, faults, abandoned, unmerged>>
      PROVE  IndexInv'
  <2>1. \A a \in Actors : a # l => pc'[a] = pc[a]
    BY <1>3 DEF IndexInv, TypeOK
  <2>2. \A k \in Listers : k # l => seen'[k] = seen[k]
    BY <1>3 DEF IndexInv, TypeOK
  <2>3. TypeOK'
    <3>1. pc' \in [Actors -> Stages]
      BY <1>3 DEF IndexInv, TypeOK, Stages
    <3>2. seen' \in [Listers -> [path : Paths, ids : SUBSET Reviews]]
      BY <1>3 DEF IndexInv, TypeOK
    <3> QED
      BY <1>3, <3>1, <3>2 DEF IndexInv, TypeOK
  <2>4. Cast'
    BY <1>1, <1>3, <2>1 DEF IndexInv, Cast, ListStages, Actors
  <2>5. Held'
    <3> SUFFICES ASSUME NEW p \in Paths, lock[p] # Free PROVE HolderInv(p)'
      BY <1>3 DEF Held
    <3>1. lock[p].by \in Actors /\ HolderInv(p) /\ lock[p].by # l
      BY <1>3, HoldsOnlyHis DEF Holds
    <3> QED
      BY <1>1, <1>3, <2>1, <2>2, <3>1 DEF HolderInv, PathOf, Actors
  <2>6. Genuine'
    <3>1. \A k \in Listers : \A r \in seen'[k].ids :
            /\ Was(r, seen'[k].path)
            /\ pc'[k] = "pruning" => file[r] # seen'[k].path
      BY <1>3, <2>1, <2>2 DEF IndexInv, Genuine, Actors
    <3> QED
      BY <1>1, <1>3, <2>1, <3>1 DEF IndexInv, Genuine, Was, Drafted, Actors
  <2>7. InTransit' = InTransit /\ \A r \in Reviews : Owed(r)' => Owed(r)
    BY <1>1, <1>3, <2>1 DEF InTransit, Flagged, Owed, Actors
  <2>8. Covers'
    BY <1>3, <2>7 DEF IndexInv, Covers, Drafted
  <2>9. DraftHolds' /\ Published'
    BY <1>1, <1>3, <2>1 DEF IndexInv, DraftHolds, Published, Drafted, Actors
  <2> QED
    BY <2>3, <2>4, <2>5, <2>6, <2>8, <2>9 DEF IndexInv
(* A listing that is through. *)
<1>4. ASSUME ~Holds(l), Goto(l, "idle"),
             UNCHANGED <<file, index, cursor, reconcile, lock, faults, abandoned, unmerged>>
      PROVE  IndexInv'
  <2>1. \A r \in Reviews : Owed(r)' => StaysShown(r)
    BY <1>1, <1>4, NewlyOwed DEF Stages
  <2> QED
    BY <1>1, <1>4, <2>1, GoesFree, GoesOn DEF IndexInv, TypeOK, Stages, ListStages
<1>5. ASSUME NEW p \in Paths, Look(l, p) PROVE IndexInv'
  <2>1. ~Holds(l)
    BY <1>1, <1>5, IdleHoldsNone DEF Look, Wanting
  <2>2. CASE Bootstraps(p)
    <3>1. /\ pc'[l] = "rebuilding" /\ pc' = [pc EXCEPT ![l] = pc'[l]]
          /\ seen'[l] = [path |-> p, ids |-> {}] /\ seen' = [seen EXCEPT ![l] = seen'[l]]
      BY <1>1, <1>5, <2>2 DEF Look, IndexInv, TypeOK
    <3> QED
      BY <1>3, <1>5, <2>1, <3>1 DEF Look
  <2>3. CASE ~Bootstraps(p)
    <3>1. /\ pc'[l] = "reading" /\ pc' = [pc EXCEPT ![l] = pc'[l]]
          /\ seen'[l] = [path |-> p, ids |-> index[p].bare]
          /\ seen' = [seen EXCEPT ![l] = seen'[l]]
      BY <1>1, <1>5, <2>3 DEF Look, IndexInv, TypeOK
    <3>2. index[p] \in Indexes /\ index[p].bare \subseteq index[p].ids /\ index[p] # NoIndex
      BY <2>3 DEF Bootstraps, Certified, IndexInv, TypeOK, Indexes
    <3>3. index[p].bare \in SUBSET Reviews /\ \A r \in index[p].bare : Was(r, p)
      BY <3>2 DEF Indexes, IndexInv, Genuine
    <3> QED
      BY <1>3, <1>5, <2>1, <3>1, <3>3 DEF Look
  <2> QED
    BY <2>2, <2>3
<1>6. CASE Rebuild(l)
  <2> DEFINE draft == [ids |-> Owned(seen[l].path), bare |-> {}]
  <2>1. draft \in Indexes
    BY DEF Indexes, Owned
  <2>2. Fits(seen[l].path, draft)
    BY <1>2 DEF Fits, Owned, Was, IndexInv, TypeOK, Genuine, Indexes
  <2>3. PathOf(l) = seen[l].path
    BY <1>1 DEF PathOf
  <2> HIDE DEF draft
  <2> QED
    BY <1>1, <1>6, <2>1, <2>2, <2>3, TakesLock DEF Rebuild, Wanting, IndexInv, TypeOK, draft
<1>7. ASSUME NEW unread \in SUBSET Reviews, RebuildPartly(l, unread) PROVE IndexInv'
  <2> DEFINE S == Owned(seen[l].path) \ unread
             draft == Merged(Base(seen[l].path), S)
  <2>1. S \in SUBSET Reviews /\ \A r \in S : Was(r, seen[l].path)
    BY DEF Owned, Was
  <2>2. draft \in Indexes /\ Fits(seen[l].path, draft)
    BY <1>2, <2>1, BaseFits, MergedFits
  <2>3. PathOf(l) = seen[l].path
    BY <1>1 DEF PathOf
  <2>4. Acquire(l, draft) /\ pc[l] = "rebuilding" /\ faults' \in Nat
    BY <1>7 DEF RebuildPartly, Fault, IndexInv, TypeOK
  <2> HIDE DEF draft, S
  <2> QED
    BY <1>1, <1>7, <2>2, <2>3, <2>4, TakesLock DEF RebuildPartly, Wanting
<1>8. CASE ReadEntries(l)
  <2>1. ~Holds(l)
    BY <1>1, <1>8, IdleHoldsNone DEF ReadEntries, Wanting
  <2> DEFINE gone == seen[l].ids \ Owned(seen[l].path)
  <2>2. CASE gone = {}
    BY <1>4, <1>8, <2>1, <2>2 DEF ReadEntries
  <2>3. CASE gone # {}
    <3>1. /\ pc'[l] = "pruning" /\ pc' = [pc EXCEPT ![l] = pc'[l]]
          /\ seen'[l] = [path |-> seen[l].path, ids |-> gone]
          /\ seen' = [seen EXCEPT ![l] = seen'[l]]
      <4>1. /\ pc' = [pc EXCEPT ![l] = "pruning"]
            /\ seen' = [seen EXCEPT ![l].ids = gone]
        BY <1>8, <2>3 DEF ReadEntries
      <4>2. pc \in [Actors -> Stages] /\ seen \in [Listers -> [path : Paths, ids : SUBSET Reviews]]
        BY DEF IndexInv, TypeOK
      <4> HIDE DEF gone
      <4> QED
        BY <1>1, <4>1, <4>2
    <3>2. \A r \in gone : Was(r, seen[l].path) /\ file[r] # seen[l].path
      BY <1>2 DEF IndexInv, Genuine, Owned
    <3> QED
      BY <1>2, <1>3, <1>8, <2>1, <2>3, <3>1, <3>2 DEF ReadEntries
  <2> QED
    BY <2>2, <2>3
<1>9. CASE Prune(l)
  <2> DEFINE p == seen[l].path
             draft == IF index[p] = NoIndex THEN NoIndex ELSE Without(index[p], seen[l].ids)
  <2>1. PathOf(l) = p
    BY <1>1 DEF PathOf
  <2>2. CASE index[p] # NoIndex /\ index[p].ids \intersect seen[l].ids = {}
    BY <1>4, <1>9, <2>2 DEF Prune
  <2>3. CASE ~(index[p] # NoIndex /\ index[p].ids \intersect seen[l].ids = {})
    <3>1. Acquire(l, draft) /\ Stay /\ pc[l] = "pruning"
      BY <1>9, <2>3 DEF Prune
    <3>2. ASSUME index[p] # NoIndex PROVE draft \in Indexes /\ Fits(p, draft)
      <4>1. index[p] \in Indexes /\ p \in Paths
        BY <1>2, <3>2 DEF IndexInv, TypeOK
      <4>2. draft.ids = index[p].ids \ seen[l].ids /\ draft \in Indexes
        BY <3>2, <4>1 DEF Without, Indexes
      <4>3. \A r \in seen[l].ids : file[r] # p
        BY <3>1 DEF IndexInv, Genuine
      <4>4. pc[Mover] \in {"clearing", "removing"} /\ p = To =>
              pass.claimed \subseteq index[p].ids /\ \A r \in pass.claimed : file[r] = p
        BY <3>2 DEF IndexInv, Published, Genuine
      <4>5. \A r \in index[p].ids : Was(r, p)
        BY <3>2, <4>1 DEF IndexInv, Genuine
      <4>6. \A r \in Reviews : Owed(r) /\ file[r] = p => p \in reconcile \/ r \in index[p].ids
        BY <3>2, <4>1 DEF IndexInv, Covers
      <4> HIDE DEF draft, p
      <4> QED
        BY <4>2, <4>3, <4>4, <4>5, <4>6 DEF Fits
    <3>3. draft \in Indexes \union {NoIndex} /\ (draft # NoIndex => Fits(p, draft))
      BY <3>2
    <3>4. UNCHANGED <<file, index, cursor, reconcile, faults, abandoned, unmerged>>
      BY <1>9 DEF Prune
    <3> HIDE DEF draft, p
    <3> QED
      BY <1>1, <2>1, <3>1, <3>3, <3>4, TakesLock DEF Stay, Wanting, IndexInv, TypeOK
  <2> QED
    BY <2>2, <2>3
<1> QED
  BY <1>5, <1>6, <1>7, <1>8, <1>9 DEF ListStep

-----------------------------------------------------------------------------
(* The steps of the pass. *)

(* While the pass goes from review to review it holds no lock, and the reviews
   it has claimed are in transit: it may change its variables, and one file. *)
LEMMA PassMovesOn ==
    ASSUME IndexInv, pc[Mover] \in {"idle", "moving"}, pc' = [pc EXCEPT ![Mover] = "moving"],
           pass' \in [remaining : SUBSET Reviews, claimed : SUBSET Reviews,
                      recovery : BOOLEAN, failed : BOOLEAN],
           \/ file' = file
           \/ \E r \in Reviews : /\ file[r] = From /\ file' = [file EXCEPT ![r] = To]
                                /\ r \in pass'.claimed \union abandoned',
           \A r \in pass'.remaining : Was(r, From),
           \A r \in pass'.claimed : file'[r] = To,
           pc[Mover] = "moving" => pass.claimed \subseteq pass'.claimed,
           abandoned' \in SUBSET Reviews, abandoned \subseteq abandoned',
           faults' \in Nat, UNCHANGED <<index, cursor, reconcile, lock, seen, unmerged>>
    PROVE  IndexInv'
<1> USE ReviewIndexAssumption
<1>1. pc'[Mover] = "moving" /\ \A a \in Actors : a # Mover => pc'[a] = pc[a]
  BY DEF IndexInv, TypeOK, Actors
<1>2. \A r \in Reviews :
        \/ file'[r] = file[r]
        \/ file[r] = From /\ file'[r] = To /\ r \in pass'.claimed \union abandoned'
  <2>1. CASE file' = file
    BY <2>1
  <2>2. ASSUME NEW r \in Reviews, file[r] = From, file' = [file EXCEPT ![r] = To],
               r \in pass'.claimed \union abandoned',
               NEW s \in Reviews
        PROVE  \/ file'[s] = file[s]
               \/ file[s] = From /\ file'[s] = To /\ s \in pass'.claimed \union abandoned'
    BY <2>2 DEF IndexInv, TypeOK
  <2> QED
    BY <2>1, <2>2
<1>3. TypeOK'
  <2>1. file' \in [Reviews -> Paths \union {Nowhere}]
    BY DEF IndexInv, TypeOK
  <2>2. pc' \in [Actors -> Stages]
    BY DEF IndexInv, TypeOK, Stages
  <2> QED
    BY <2>1, <2>2 DEF IndexInv, TypeOK
<1>4. Cast'
  BY <1>1 DEF IndexInv, Cast, MoveStages, Actors
<1>5. Held'
  <2> SUFFICES ASSUME NEW p \in Paths, lock[p] # Free PROVE HolderInv(p)'
    BY DEF Held
  <2>1. lock[p].by \in Actors /\ HolderInv(p) /\ lock[p].by # Mover
    BY HoldsOnlyHis DEF HolderInv, Wanting
  <2>2. pc[lock[p].by] # "publishing"
    BY <2>1 DEF IndexInv, Cast, Actors, SaveStages, ListStages
  <2> QED
    BY <1>1, <2>1, <2>2 DEF HolderInv, PathOf, Actors
<1>6. \A r \in Reviews, p \in Paths : Was(r, p) => Was(r, p)'
  BY <1>2 DEF Was
<1>7. \A r \in Reviews, p \in Paths : Was(r, p) /\ file[r] # p => file'[r] # p
  BY <1>2 DEF Was
<1>8. Genuine'
  <2>1. \A r \in Reviews : Was(r, Home[r])' \/ (file'[r] = Nowhere /\ pc'[r] \in {"idle", "failed"})
    BY <1>1, <1>2, <1>6 DEF IndexInv, Genuine, Actors
  <2>2. \A r \in Reviews : pc'[r] = "idle" => file'[r] = Nowhere
    BY <1>1, <1>2 DEF IndexInv, Genuine, Actors
  <2>3. \A p \in Paths : index[p] # NoIndex => \A r \in index[p].ids : Was(r, p)'
    BY <1>6 DEF IndexInv, Genuine, TypeOK, Indexes
  <2>4. \A p \in Paths : Drafted(p) => \A r \in lock[p].draft.ids : Was(r, p)'
    BY <1>6 DEF IndexInv, Genuine, TypeOK, Indexes, Rewrites, Drafted
  <2>5. \A l \in Listers : \A r \in seen[l].ids :
            Was(r, seen[l].path)' /\ (pc'[l] = "pruning" => file'[r] # seen[l].path)
    <3> SUFFICES ASSUME NEW l \in Listers, NEW r \in seen[l].ids
                 PROVE  Was(r, seen[l].path)' /\ (pc'[l] = "pruning" => file'[r] # seen[l].path)
      OBVIOUS
    <3>1. /\ r \in Reviews /\ seen[l].path \in Paths /\ Was(r, seen[l].path)
          /\ pc[l] = "pruning" => file[r] # seen[l].path
          /\ pc'[l] = pc[l]
      BY <1>1 DEF IndexInv, TypeOK, Genuine, Actors
    <3>2. PICK p \in Paths : p = seen[l].path
      BY <3>1
    <3>3. Was(r, p)' /\ (pc[l] = "pruning" => file'[r] # p)
      BY <1>6, <1>7, <3>1, <3>2
    <3> QED
      BY <3>1, <3>2, <3>3 DEF Was
  <2>6. \A r \in pass'.remaining : Was(r, From)'
    BY <1>6
  <2> QED
    BY <2>1, <2>2, <2>3, <2>4, <2>5, <2>6 DEF Genuine, Drafted, Was
<1>9. \A r \in Reviews : Owed(r)' => Owed(r) /\ file'[r] = file[r]
  BY <1>1, <1>2 DEF Owed, InTransit, Actors
<1>10. Covers'
  BY <1>9 DEF IndexInv, Covers, Drafted
<1>11. DraftHolds'
  <2>1. \A p \in Paths : index[p] # NoIndex => \A r \in index[p].ids : file'[r] = p => file[r] = p
    BY <1>7 DEF IndexInv, Genuine, TypeOK, Indexes
  <2> QED
    BY <2>1 DEF IndexInv, DraftHolds, Drafted
<1>12. Published'
  BY <1>1 DEF Published
<1> QED
  BY <1>3, <1>4, <1>5, <1>8, <1>10, <1>11, <1>12 DEF IndexInv

(* The pass goes on without a rewrite. *)
LEMMA PassGoesOn ==
    ASSUME IndexInv, pc[Mover] \in MoveStages \ Wanting,
           NEW stage \in MoveStages, Goto(Mover, stage),
           stage \in {"flagging", "verifying"} => pass.recovery /\ ~pass.failed,
           stage \in {"clearing", "removing"} /\ pc[Mover] # "clearing" =>
                \A r \in pass.claimed : index[To] # NoIndex /\ r \in index[To].ids,
           reconcile' \in SUBSET Paths, faults' \in Nat,
           abandoned' \in SUBSET Reviews, unmerged' \in SUBSET Reviews,
           UNCHANGED <<file, index, cursor, lock>>,
           \A r \in Reviews : Owed(r)' => StaysShown(r)
    PROVE  IndexInv'
<1> USE ReviewIndexAssumption
<1>1. Mover \in Actors /\ LetsGo(Mover) /\ stage \in Stages
  BY GoesFree, IdleHoldsNone DEF Wanting, Actors, MoveStages, Stages
<1>2. stage # "pruning"
  BY DEF MoveStages
<1> QED
  BY <1>1, <1>2, GoesOn DEF IndexInv, TypeOK

(* Every step of the pass but those that take a lock. *)
LEMMA MoveKeeps ==
    ASSUME IndexInv, MoveStep \/ FlagFails \/ UnflagFails \/ ExcuseFails \/ \E r \in Reviews : MoveFails(r)
    PROVE  IndexInv'
<1> USE ReviewIndexAssumption
<1>1. CASE BeginPass
  <2>1. \A r \in pass'.remaining : r \in Reviews /\ Was(r, From)
    BY <1>1 DEF BeginPass, Bootstraps, Certified, Owned, Was, NoPass, IndexInv, TypeOK, Indexes, Genuine
  <2>2. pass'.claimed = {} /\ pass' \in [remaining : SUBSET Reviews, claimed : SUBSET Reviews,
                                          recovery : BOOLEAN, failed : BOOLEAN]
    BY <1>1, <2>1 DEF BeginPass, NoPass
  <2> QED
    BY <1>1, <2>1, <2>2, PassMovesOn DEF BeginPass, IndexInv, TypeOK
<1>2. ASSUME NEW r \in Reviews, MoveReview(r) PROVE IndexInv'
  <2>1. /\ pass'.remaining = pass.remaining \ {r}
        /\ pass'.claimed = IF file[r] \in {From, To} THEN pass.claimed \union {r} ELSE pass.claimed
        /\ pass' \in [remaining : SUBSET Reviews, claimed : SUBSET Reviews,
                      recovery : BOOLEAN, failed : BOOLEAN]
    BY <1>2 DEF MoveReview, IndexInv, TypeOK
  <2>2. \/ file' = file /\ file[r] # From
        \/ file[r] = From /\ file' = [file EXCEPT ![r] = To]
    BY <1>2 DEF MoveReview, IndexInv, TypeOK
  <2>3. \A s \in pass'.claimed : file'[s] = To
    BY <2>1, <2>2 DEF IndexInv, TypeOK, Genuine
  <2>4. \A s \in pass'.remaining : Was(s, From)
    BY <2>1 DEF IndexInv, Genuine
  <2>5. pass.claimed \subseteq pass'.claimed /\ (file[r] = From => r \in pass'.claimed)
    BY <2>1
  <2>6. pc' = [pc EXCEPT ![Mover] = "moving"] /\ pc[Mover] = "moving"
    BY <1>2 DEF MoveReview, IndexInv, TypeOK
  <2>7. \/ file' = file
        \/ \E s \in Reviews : /\ file[s] = From /\ file' = [file EXCEPT ![s] = To]
                             /\ s \in pass'.claimed \union abandoned'
    BY <2>2, <2>5
  <2>8. UNCHANGED <<index, cursor, reconcile, lock, seen, faults, abandoned, unmerged>>
    BY <1>2 DEF MoveReview
  <2> QED
    BY <2>1, <2>3, <2>4, <2>5, <2>6, <2>7, <2>8, PassMovesOn DEF IndexInv, TypeOK
<1>3. ASSUME NEW r \in Reviews, MoveFails(r) PROVE IndexInv'
  <2>1. /\ pass'.remaining = {} /\ pass'.claimed = pass.claimed
        /\ pass' \in [remaining : SUBSET Reviews, claimed : SUBSET Reviews,
                      recovery : BOOLEAN, failed : BOOLEAN]
        /\ faults' \in Nat
    <3>1. pass' = [pass EXCEPT !.remaining = {}, !.failed = TRUE] /\ faults' = faults + 1
      BY <1>3 DEF MoveFails, Fault
    <3>2. pass \in [remaining : SUBSET Reviews, claimed : SUBSET Reviews,
                    recovery : BOOLEAN, failed : BOOLEAN] /\ faults \in Nat
      BY DEF IndexInv, TypeOK
    <3>3. pass' \in [remaining : SUBSET Reviews, claimed : SUBSET Reviews,
                     recovery : BOOLEAN, failed : BOOLEAN]
      BY <3>1, <3>2
    <3>4. pass'.remaining = {} /\ pass'.claimed = pass.claimed
      BY <3>1, <3>2
    <3> QED
      BY <3>1, <3>2, <3>3, <3>4
  <2>2. /\ abandoned' \in SUBSET Reviews /\ abandoned \subseteq abandoned'
        /\ \/ file' = file
           \/ file[r] = From /\ file' = [file EXCEPT ![r] = To] /\ r \in abandoned'
    BY <1>3 DEF MoveFails, Abandon, IndexInv, TypeOK
  <2>3. \A s \in pass.claimed : file'[s] = To
    BY <2>2 DEF IndexInv, TypeOK, Genuine
  <2>4. pc' = [pc EXCEPT ![Mover] = "moving"] /\ pc[Mover] = "moving"
    BY <1>3 DEF MoveFails, IndexInv, TypeOK
  <2>5. UNCHANGED <<index, cursor, reconcile, lock, seen, unmerged>>
    BY <1>3 DEF MoveFails, Abandon
  <2> QED
    BY <2>1, <2>2, <2>3, <2>4, <2>5, PassMovesOn
<1>4. CASE EndMoving
  <2>1. PICK stage \in {"idle", "publishing", "removing", "flagging"} :
            /\ Goto(Mover, stage)
            /\ stage = "idle" => pass.claimed = {}
            /\ stage = "publishing" => ~Flagged
            /\ stage = "flagging" => pass.recovery /\ ~pass.failed
            /\ stage = "removing" => pass.claimed = {} \/ Contains(To, pass.claimed)
    BY <1>4 DEF EndMoving, Flagged
  <2>2. \A s \in pass.claimed : file[s] = To
    BY DEF IndexInv, Genuine
  <2>3. stage = "removing" => \A s \in pass.claimed : index[To] # NoIndex /\ s \in index[To].ids
    BY <2>1 DEF Contains, Certified
  <2>4. pc'[Mover] = stage /\ (stage # "idle" => pass' = pass) /\ \A s \in Reviews : pc'[s] = pc[s]
    BY <2>1 DEF Goto, IndexInv, TypeOK, Actors
  <2>5. ASSUME NEW s \in Reviews, Owed(s)' PROVE StaysShown(s)
    <3>1. InTransit \subseteq InTransit' \union
                IF stage = "removing" THEN pass.claimed ELSE {}
      BY <1>4, <2>1, <2>4 DEF EndMoving, InTransit, Flagged
    <3>2. Owed(s) \/ (stage = "removing" /\ s \in pass.claimed)
      BY <1>4, <2>4, <2>5, <3>1 DEF EndMoving, Owed
    <3> QED
      BY <1>4, <2>2, <2>3, <3>2 DEF EndMoving, StaysShown
  <2> QED
    BY <1>4, <2>1, <2>3, <2>5, PassGoesOn DEF EndMoving, MoveStages, Wanting, IndexInv, TypeOK
<1>5. CASE FlagDestination
  <2>1. ASSUME NEW s \in Reviews, Owed(s)' PROVE StaysShown(s)
    BY <1>5, <2>1 DEF FlagDestination, Owed, InTransit, Flagged, Goto, StaysShown, IndexInv, TypeOK, Genuine, Actors
  <2>2. reconcile' \in SUBSET Paths
    BY <1>5 DEF FlagDestination, IndexInv, TypeOK
  <2> QED
    BY <1>5, <2>1, <2>2, PassGoesOn DEF FlagDestination, MoveStages, Wanting, IndexInv, TypeOK
<1>6. ASSUME pc[Mover] \in {"flagging", "excusing"}, Goto(Mover, "idle"), faults' \in Nat,
             \/ /\ reconcile' = reconcile \union {To}
                /\ UNCHANGED <<abandoned, unmerged>>
             \/ reconcile' = reconcile /\ Abandon(pass.claimed),
             UNCHANGED <<file, index, cursor, lock>>
      PROVE  IndexInv'
  <2>1. ASSUME NEW s \in Reviews, Owed(s)' PROVE StaysShown(s)
    BY <1>6, <2>1 DEF Abandon, Owed, InTransit, Flagged, Goto, StaysShown, IndexInv, TypeOK, Genuine, Actors
  <2>2. /\ reconcile' \in SUBSET Paths /\ abandoned' \in SUBSET Reviews
        /\ unmerged' = unmerged
    BY <1>6 DEF Abandon, IndexInv, TypeOK
  <2> QED
    BY <1>6, <2>1, <2>2, PassGoesOn DEF MoveStages, Wanting, IndexInv, TypeOK
<1>7. ASSUME VerifyDestination \/ UnflagFails PROVE IndexInv'
  <2>1. PICK stage \in {"clearing", "idle"} :
            /\ Goto(Mover, stage)
            /\ stage = "clearing" => pc[Mover] = "verifying" /\ Contains(To, pass.claimed)
    BY <1>7 DEF VerifyDestination, UnflagFails
  <2>2. pc[Mover] \in {"verifying", "clearing"} /\ faults' \in Nat
    BY <1>7 DEF VerifyDestination, UnflagFails, Fault, IndexInv, TypeOK
  <2>3. UNCHANGED <<file, index, cursor, reconcile, lock, abandoned, unmerged>>
    BY <1>7 DEF VerifyDestination, UnflagFails
  <2>4. \A s \in Reviews : Owed(s)' => StaysShown(s)
    BY <2>1, <2>2, <2>3 DEF InTransit, Owed, Goto, StaysShown, IndexInv, TypeOK, Actors
  <2> QED
    BY <2>1, <2>2, <2>3, <2>4, PassGoesOn
       DEF Contains, Certified, MoveStages, Wanting, IndexInv, TypeOK
<1>9. CASE UnflagDestination
  <2>1. /\ pc[Mover] = "clearing" /\ InTransit = {} /\ InTransit' = {}
        /\ \A s \in Reviews : pc'[s] = pc[s]
    BY <1>9 DEF UnflagDestination, InTransit, Goto, IndexInv, TypeOK, Actors
  <2>2. /\ reconcile' = reconcile \ {To} /\ abandoned' = abandoned
        /\ unmerged \subseteq unmerged' /\ unmerged' \in SUBSET Reviews
        /\ UNCHANGED <<file, index, cursor, lock, faults>>
    BY <1>9 DEF UnflagDestination, ClearReconcile, Owned, IndexInv, TypeOK
  <2>3. ASSUME NEW s \in Reviews, Owed(s)' PROVE StaysShown(s)
    <3>1. Owed(s)
      BY <2>1, <2>2, <2>3 DEF Owed
    <3>2. CASE file[s] = To /\ To \in reconcile
      <4>1. s \in Owned(To) \ {t \in BeingSaved : Home[t] = To}
        BY <3>1, <3>2 DEF Owned, Owed, BeingSaved, IndexInv, Genuine
      <4>2. /\ index[To] # NoIndex => s \in index[To].ids
            /\ Drafted(To) => s \in lock[To].draft.ids
        BY <1>9, <2>3, <3>2, <4>1 DEF UnflagDestination, ClearReconcile, Owed
      <4> QED
        BY <2>2, <3>2, <4>2 DEF StaysShown, Drafted
    <3>3. CASE file[s] # To \/ To \notin reconcile
      BY <2>2, <3>1, <3>3 DEF StaysShown
    <3> QED
      BY <3>2, <3>3
  <2> QED
    BY <1>9, <2>1, <2>2, <2>3, PassGoesOn
       DEF UnflagDestination, MoveStages, Wanting, IndexInv, TypeOK
<1>8. CASE CommitRoot
  <2>1. \A s \in Reviews : Owed(s)' => StaysShown(s)
    BY <1>8 DEF CommitRoot, InTransit, Owed, Goto, StaysShown, IndexInv, TypeOK, Actors
  <2> QED
    BY <1>8, <2>1, PassGoesOn DEF CommitRoot, MoveStages, Wanting, IndexInv, TypeOK
<1> QED
  BY <1>1, <1>2, <1>3, <1>4, <1>5, <1>6, <1>7, <1>8, <1>9
     DEF MoveStep, FlagFails, ExcuseFails, ExcuseDestination, Fault, IndexInv, TypeOK

LEMMA MoverTakesLock ==
    ASSUME IndexInv, Publish \/ Withdraw \/ RemoveSource
    PROVE  IndexInv'
<1> USE ReviewIndexAssumption
<1>1. CASE Publish
  <2> DEFINE draft == Merged(Base(To), pass.claimed)
  <2>1. /\ pass.claimed \in SUBSET Reviews
        /\ \A r \in pass.claimed : Was(r, To)
    BY DEF IndexInv, TypeOK, Genuine, Was
  <2>2. draft \in Indexes /\ Fits(To, draft) /\ pass.claimed \subseteq draft.ids
    BY <2>1, BaseFits, MergedFits
  <2>3. PathOf(Mover) = To /\ Acquire(Mover, draft) /\ pc[Mover] = "publishing"
    BY <1>1 DEF Publish, PathOf
  <2> HIDE DEF draft
  <2> QED
    BY <1>1, <2>2, <2>3, TakesLock, AbsenceAssumption DEF Publish, Wanting, Actors, IndexInv, TypeOK
<1>2. ASSUME pc[Mover] \in {"withdrawing", "removing"}, Acquire(Mover, NoIndex),
             UNCHANGED <<file, index, cursor, reconcile, pc, seen, pass, faults, abandoned, unmerged>>
      PROVE  IndexInv'
  BY <1>2, TakesLock DEF Wanting, Actors, IndexInv, TypeOK
<1> QED
  BY <1>1, <1>2 DEF Withdraw, RemoveSource

-----------------------------------------------------------------------------
(* A crash frees every lock, and gives up what was in transit. *)
LEMMA CrashKeeps ==
    ASSUME IndexInv, Crash
    PROVE  IndexInv'
<1> USE ReviewIndexAssumption
<1>1. /\ \A r \in Reviews : pc'[r] = IF r \in BeingSaved THEN "crashed" ELSE pc[r]
      /\ \A l \in Listers : pc'[l] = "idle"
      /\ pc'[Mover] \in {"idle", "moved"}
  <2>1. \A a \in Actors : pc'[a] = CASE a \in BeingSaved -> "crashed"
                                     [] a \in Reviews \ BeingSaved \/ pc[a] = "moved" -> pc[a]
                                     [] OTHER -> "idle"
    BY DEF Crash
  <2>2. \A r \in Reviews : r \in Actors /\ pc[r] # "moved"
    BY DEF Actors, IndexInv, Cast, SaveStages
  <2>3. \A l \in Listers : l \in Actors /\ l \notin Reviews /\ pc[l] # "moved"
    BY DEF Actors, IndexInv, Cast, ListStages
  <2>4. Mover \in Actors /\ BeingSaved \subseteq Reviews
    BY DEF Actors, BeingSaved
  <2>5. \A r \in Reviews : pc'[r] = IF r \in BeingSaved THEN "crashed" ELSE pc[r]
    BY <2>1, <2>2
  <2>6. \A l \in Listers : pc'[l] = "idle"
    BY <2>1, <2>3, <2>4
  <2>7. pc'[Mover] \in {"idle", "moved"}
    BY <2>1, <2>4
  <2> QED
    BY <2>5, <2>6, <2>7
<1>2. /\ \A p \in Paths : lock'[p] = Free
      /\ \A l \in Listers : seen'[l] = Nothing
      /\ pass' = NoPass
  BY DEF Crash
<1>3. TypeOK'
  <2>1. pc' \in [Actors -> Stages]
    BY <1>1 DEF Crash, Actors, IndexInv, TypeOK, Stages
  <2>2. abandoned' \in SUBSET Reviews /\ unmerged' = unmerged /\ faults' \in Nat
    BY DEF Crash, Abandon, Fault, BeingSaved, InTransit, IndexInv, TypeOK
  <2> QED
    BY <2>1, <2>2 DEF Crash, IndexInv, TypeOK, Nothing, NoPass
<1>4. Cast'
  BY <1>1 DEF IndexInv, Cast, SaveStages, ListStages, MoveStages, BeingSaved
<1>5. Held' /\ DraftHolds' /\ Published'
  BY <1>1, <1>2 DEF Held, DraftHolds, Drafted, Published
<1>6. Genuine'
  BY <1>1, <1>2 DEF IndexInv, Genuine, Was, Drafted, Nothing, NoPass, Crash, BeingSaved
<1>7. \A r \in Reviews : Owed(r)' => Owed(r)
  BY <1>1 DEF Owed, Crash, Abandon
<1>8. Covers'
  BY <1>2, <1>7 DEF IndexInv, Covers, Drafted, Crash
<1> QED
  BY <1>3, <1>4, <1>5, <1>6, <1>8 DEF IndexInv

-----------------------------------------------------------------------------
LEMMA IndexInvStep == IndexInv /\ [Next]_vars => IndexInv'
<1> SUFFICES ASSUME IndexInv, [Next]_vars PROVE IndexInv'
  OBVIOUS
<1>1. ASSUME NEW a \in Actors, NotBegun(a) PROVE IndexInv'
  <2>1. LetsGo(a)
    BY <1>1, GoesFree DEF NotBegun
  <2> QED
    BY <1>1, <2>1, FailureOwesNothing DEF NotBegun, IndexInv, TypeOK
<1>2. CASE UNCHANGED vars
  BY <1>2 DEF vars, IndexInv, TypeOK, Cast, Held, HolderInv, PathOf, Genuine, Was, Drafted,
              Covers, Owed, InTransit, Flagged, DraftHolds, Published
<1> QED
  BY <1>1, <1>2, SaveKeeps, ListKeeps, MoveKeeps, MoverTakesLock, RewriteKeeps, CrashKeeps
     DEF Next, Failure

THEOREM IndexInvHolds == Spec => []IndexInv
BY IndexInvInit, IndexInvStep, PTL DEF Spec

(* The variables of the index keep their types (ReviewIndex!TypeOK). *)
THEOREM TypesCorrect == Spec => []TypeOK
<1>1. IndexInv => TypeOK
  BY DEF IndexInv
<1> QED
  BY <1>1, IndexInvHolds, PTL

(* saveReview, listReviewPage, rekeyProjectReviews: a saved review is shown by
   the listings of its project unless it was abandoned. *)
THEOREM SavedReviewsAreListed == Spec => []HiddenOnlyIfAbandoned
<1>1. IndexInv => HiddenOnlyIfAbandoned
  <2> SUFFICES ASSUME IndexInv, NEW r \in Reviews, pc[r] = "saved",
                      r \notin abandoned \union unmerged \union InTransit
               PROVE  Listed(r)
    BY DEF HiddenOnlyIfAbandoned
  <2>1. Owed(r) /\ file[r] \in Paths
    BY ReviewIndexAssumption DEF Owed, IndexInv, Genuine, Was
  <2> QED
    BY <2>1 DEF Listed, Bootstraps, Certified, IndexInv, Covers
<1> QED
  BY <1>1, IndexInvHolds, PTL

(* removeMigratedSourceIndex: the index of the old path is only removed once
   the listings of the new path show what the pass has claimed. *)
THEOREM SourceIsRemovedLast == Spec => SourceOutlivesPass
<1>1. ASSUME IndexInv, [Next]_vars,
             index[From] # NoIndex, index'[From] = NoIndex, lock[From].by = Mover,
             NEW r \in pass.claimed
      PROVE  file[r] = To /\ Listed(r)
  <2> USE ReviewIndexAssumption
  <2>1. lock[From] # Free
    <3> SUFFICES index'[From] # index[From] => lock[From] # Free
      BY <1>1
    <3>1. ASSUME NEW p \in Paths, RewriteStep(p) \/ RewriteFails(p)
          PROVE  index'[From] # index[From] => lock[From] # Free
      BY <1>1, <3>1 DEF RewriteStep, ClearCursor, WriteIndex, MarkCursor, Settle, RewriteFails, At, IndexInv, TypeOK
    <3>2. CASE UNCHANGED vars
      BY <3>2 DEF vars
    <3>3. ASSUME NEW s \in Reviews, WriteReview(s) \/ SaveStep(s) \/ SaveFails(s) \/ MarkFails(s) \/ MoveFails(s)
          PROVE  index' = index
      BY <3>3 DEF WriteReview, SaveStep, AddToProjectIndex, InvalidateProjectIndex,
                  MarkProjectReconcile, SaveFails, MarkFails, MoveFails
    <3>4. ASSUME NEW l \in Listers,
                 \/ ListStep(l)
                 \/ \E p \in Paths : Look(l, p)
                 \/ \E unread \in SUBSET Reviews : RebuildPartly(l, unread)
          PROVE  index' = index
      BY <3>4 DEF ListStep, Rebuild, ReadEntries, Prune, Look, RebuildPartly
    <3>5. CASE MoveStep \/ Publish \/ Withdraw \/ RemoveSource \/ FlagFails \/ UnflagFails \/ ExcuseFails \/ Crash
      BY <3>5 DEF MoveStep, BeginPass, EndMoving, FlagDestination, ExcuseDestination,
                  VerifyDestination, CommitRoot, MoveReview, Publish, Withdraw, RemoveSource,
                  UnflagDestination, FlagFails, UnflagFails, ExcuseFails, Crash
    <3>6. ASSUME NEW a \in Actors, NotBegun(a) PROVE index' = index
      BY <3>6 DEF NotBegun
    <3> QED
      BY <1>1, <3>1, <3>2, <3>3, <3>4, <3>5, <3>6 DEF Next, Failure
  <2>2. HolderInv(From)
    BY <1>1, <2>1 DEF IndexInv, Held
  <2>3. pc[Mover] = "removing"
    BY <1>1, <2>2 DEF HolderInv, PathOf
  <2>4. file[r] = To /\ (index[To] # NoIndex => r \in index[To].ids)
    BY <1>1, <2>3 DEF IndexInv, Genuine, Published
  <2> QED
    BY <2>4 DEF Listed, Bootstraps, Certified
<1>2. IndexInv /\ [Next]_vars =>
        [index[From] # NoIndex /\ index'[From] = NoIndex /\ lock[From].by = Mover
            => \A r \in pass.claimed : file[r] = To /\ Listed(r)]_vars
  BY <1>1
<1> QED
  BY <1>2, IndexInvHolds, PTL DEF Spec, SourceOutlivesPass
=============================================================================

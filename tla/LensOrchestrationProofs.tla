------------------------ MODULE LensOrchestrationProofs ------------------------
(***************************************************************************)
(* Proofs about BudgetLedger and LensOrchestration, for any number of      *)
(* lenses and reservations, any concurrency, any of the prompts too large  *)
(* and any budget.                                                         *)
(*                                                                         *)
(* The ledger comes first: its limits, and that its running total is the   *)
(* sum of its open reservations. A review only makes calls that the ledger *)
(* allows, so what is proved of the ledger holds for it; the rest is about *)
(* the order in which lenses end.                                          *)
(***************************************************************************)
EXTENDS LensOrchestration, FiniteSetTheorems, WellFoundedInduction, TLAPS

-----------------------------------------------------------------------------
(* The limits of the ledger                                                 *)

(* The type of the ledger until it is cancelled, and the limits. *)
LedgerInv ==
    /\ committed \in [Dimensions -> Nat]
    /\ ~cancelled => reserved \in [Dimensions -> Int]
    /\ reservations \in [Open -> [Dimensions -> Nat]]
    /\ cancelled => Open = {}
    /\ WithinLimitsUntilExhausted

(* drawDown takes no more than is left and no more than was used. *)
LEMMA DrawDownBounded ==
    ASSUME NEW remaining \in [Dimensions -> Nat], NEW settled \in [Dimensions -> Nat]
    PROVE  /\ drawDown(remaining, settled) \in [Dimensions -> Nat]
           /\ \A d \in Dimensions :
                /\ drawDown(remaining, settled)[d] <= remaining[d]
                /\ drawDown(remaining, settled)[d] <= settled[d]
BY DEF drawDown

(* Settling usage stays within the limits or exhausts the ledger. *)
LEMMA AccountWithinLimits ==
    ASSUME NEW held \in [Dimensions -> Int], NEW settled \in [Dimensions -> Nat],
           committed \in [Dimensions -> Nat],
           Account(held, settled)
    PROVE  /\ committed' \in [Dimensions -> Nat]
           /\ reserved' \in [Dimensions -> Int]
           /\ WithinLimitsUntilExhausted'
<1>1. /\ committed' \in [Dimensions -> Nat]
      /\ \A d \in Dimensions : committed'[d] = committed[d] + settled[d]
      /\ reserved' = held
  BY DEF Account, Plus
<1>2. ASSUME ~exhausted', NEW d \in Dimensions
      PROVE  committed'[d] + reserved'[d] <= Limit[d]
  <2>2. /\ committed[d] \in Int /\ held[d] \in Int /\ settled[d] \in Int
        /\ Limit[d] \in Int
    BY BudgetLedgerAssumption
  <2>3. ~Exceeds(held, settled)
    BY <1>2, Zenon DEF Account
  <2>1. committed[d] + held[d] + settled[d] <= Limit[d]
    BY <2>2, <2>3 DEF Exceeds
  <2>. QED BY <1>1, <2>1, <2>2
<1>. QED BY <1>1, <1>2 DEF WithinLimitsUntilExhausted

LEMMA LedgerInit == Init => LedgerInv
BY BudgetLedgerAssumption
DEF Init, LedgerInv, WithinLimitsUntilExhausted, Zero, Open

LEMMA LedgerStep == LedgerInv /\ [Next]_vars => LedgerInv'
<1>. SUFFICES ASSUME LedgerInv, [Next]_vars PROVE LedgerInv'
  OBVIOUS
<1>. USE BudgetLedgerAssumption
<1>1. ASSUME NEW i \in Reservations, NEW u \in Usages, Reserve(i, u)
      PROVE  LedgerInv'
  <2>1. u \in [Dimensions -> Nat]
    OBVIOUS
  <2>2. /\ committed' = committed /\ ~cancelled /\ ~cancelled'
        /\ reserved' = Plus(reserved, u)
        /\ reserved \in [Dimensions -> Int]
    BY <1>1 DEF Reserve, LedgerInv
  <2>3. reservations' \in [Open' -> [Dimensions -> Nat]]
    BY <1>1, <2>1 DEF Reserve, LedgerInv, Open
  <2>4. ASSUME NEW d \in Dimensions
        PROVE  committed'[d] + reserved'[d] <= Limit[d]
    <3>1. committed[d] + reserved[d] + u[d] <= Limit[d]
      BY <1>1, <2>1, <2>2 DEF Reserve, Exceeds, LedgerInv
    <3>2. committed[d] \in Int /\ reserved[d] \in Int /\ u[d] \in Int
      BY <2>1, <2>2 DEF LedgerInv
    <3>. QED BY <2>2, <3>1, <3>2 DEF Plus
  <2>5. reserved' \in [Dimensions -> Int]
    BY <2>1, <2>2 DEF Plus
  <2>. QED BY <2>2, <2>3, <2>4, <2>5 DEF LedgerInv, WithinLimitsUntilExhausted
<1>2. ASSUME NEW u \in Usages, RefuseReservation(u)
      PROVE  LedgerInv'
  BY <1>2 DEF RefuseReservation, LedgerInv, WithinLimitsUntilExhausted, Open
<1>3. ASSUME NEW i \in Reservations, ReleaseReservation(i)
      PROVE  LedgerInv'
  <2>1. /\ i \in Open /\ ~cancelled
        /\ reservations[i] \in [Dimensions -> Nat]
        /\ reserved \in [Dimensions -> Int]
        /\ committed \in [Dimensions -> Nat]
    BY <1>3 DEF ReleaseReservation, LedgerInv
  <2>2. /\ reserved' \in [Dimensions -> Int]
        /\ \A d \in Dimensions : reserved'[d] <= reserved[d]
    BY <1>3, <2>1 DEF ReleaseReservation, Minus
  <2>3. /\ reservations' \in [Open' -> [Dimensions -> Nat]]
        /\ UNCHANGED <<committed, exhausted, cancelled>>
    BY <1>3 DEF ReleaseReservation, Without, LedgerInv, Open
  <2>4. ASSUME ~exhausted', NEW d \in Dimensions
        PROVE  committed'[d] + reserved'[d] <= Limit[d]
    <3>1. committed[d] + reserved[d] <= Limit[d]
      BY <2>1, <2>3, <2>4 DEF LedgerInv, WithinLimitsUntilExhausted
    <3>. QED BY <2>1, <2>2, <2>3, <3>1
  <2>. QED BY <2>1, <2>2, <2>3, <2>4 DEF LedgerInv, WithinLimitsUntilExhausted
<1>4. ASSUME NEW i \in Reservations, NEW u \in Usages, CommitAttemptUsage(i, u)
      PROVE  LedgerInv'
  <2>. DEFINE consumed == drawDown(reservations[i], u)
              held == Minus(reserved, consumed)
  <2>1. /\ i \in Open /\ ~cancelled /\ u \in [Dimensions -> Nat]
        /\ reservations[i] \in [Dimensions -> Nat]
        /\ reserved \in [Dimensions -> Int]
        /\ committed \in [Dimensions -> Nat]
    BY <1>4 DEF CommitAttemptUsage, LedgerInv
  <2>2. /\ consumed \in [Dimensions -> Nat]
        /\ \A d \in Dimensions : consumed[d] <= reservations[i][d]
    BY <2>1, DrawDownBounded
  <2>3. /\ Account(held, u)
        /\ reservations' = [reservations EXCEPT ![i] = Minus(@, consumed)]
    BY <1>4 DEF CommitAttemptUsage
  <2>. HIDE DEF consumed
  <2>4. held \in [Dimensions -> Int] /\ Minus(reservations[i], consumed) \in [Dimensions -> Nat]
    BY <2>1, <2>2 DEF Minus
  <2>5. reservations' \in [Open' -> [Dimensions -> Nat]]
    BY <2>3, <2>4 DEF LedgerInv, Open
  <2>6. cancelled' = cancelled
    BY <2>3 DEF Account
  <2>. HIDE DEF held
  <2>. QED BY <2>1, <2>3, <2>4, <2>5, <2>6, AccountWithinLimits DEF LedgerInv
<1>5. ASSUME NEW i \in Reservations, NEW u \in Usages, SettleAttempt(i, u)
      PROVE  LedgerInv'
  <2>. DEFINE held == Minus(reserved, reservations[i])
  <2>1. /\ i \in Open /\ ~cancelled /\ u \in [Dimensions -> Nat]
        /\ reservations[i] \in [Dimensions -> Nat]
        /\ reserved \in [Dimensions -> Int]
        /\ committed \in [Dimensions -> Nat]
    BY <1>5 DEF SettleAttempt, LedgerInv
  <2>2. held \in [Dimensions -> Int]
    BY <2>1 DEF Minus
  <2>3. Account(held, u) /\ cancelled' = cancelled
    BY <1>5 DEF SettleAttempt, Account
  <2>4. reservations' \in [Open' -> [Dimensions -> Nat]]
    BY <1>5 DEF SettleAttempt, Without, LedgerInv, Open
  <2>. HIDE DEF held
  <2>. QED BY <2>1, <2>2, <2>3, <2>4, AccountWithinLimits DEF LedgerInv
<1>6. ASSUME NEW i \in Reservations, ReportLate(i)
      PROVE  LedgerInv'
  BY <1>6 DEF ReportLate, LedgerInv, WithinLimitsUntilExhausted, Open
<1>7. ASSUME Cancel
      PROVE  LedgerInv'
  BY <1>7 DEF Cancel, LedgerInv, WithinLimitsUntilExhausted, Open, Zero
<1>8. ASSUME UNCHANGED vars
      PROVE  LedgerInv'
  BY <1>8 DEF vars, LedgerInv, WithinLimitsUntilExhausted, Open
<1>. QED BY <1>1, <1>2, <1>3, <1>4, <1>5, <1>6, <1>7, <1>8 DEF Next

LEMMA LedgerInvHolds == Spec => []LedgerInv
BY LedgerInit, LedgerStep, PTL DEF Spec

(* checkUsageBudget before a reservation, and after each settlement, keeps
   what is spent and promised within every limit of the review. *)
THEOREM LedgerWithinLimits == Spec => []WithinLimitsUntilExhausted
<1>1. LedgerInv => WithinLimitsUntilExhausted
  BY DEF LedgerInv
<1>. QED BY <1>1, LedgerInvHolds, PTL

(* commitAttemptUsage never answers ok again for a review that went past a
   limit: drawDown gives back at most what the same call spends. *)
THEOREM LedgerStaysExhausted == Spec => ExhaustionSticks
<1>. DEFINE Step ==
       /\ \E d \in Dimensions : committed[d] + reserved[d] > Limit[d]
       /\ settledAttempts' # settledAttempts
       /\ DOMAIN reservations' = Open
       => answer' = "exhausted"
<1>1. LedgerInv /\ [Next]_vars => [Step]_vars
  <2>. SUFFICES ASSUME LedgerInv, Next,
                       NEW d \in Dimensions, committed[d] + reserved[d] > Limit[d],
                       settledAttempts' # settledAttempts,
                       DOMAIN reservations' = Open
       PROVE answer' = "exhausted"
    OBVIOUS
  <2>1. PICK i \in Reservations, u \in Usages : CommitAttemptUsage(i, u)
    <3>1. ASSUME NEW i \in Reservations, NEW u \in Usages, SettleAttempt(i, u)
          PROVE  FALSE
      BY <3>1 DEF SettleAttempt, Without, Open
    <3>. QED
      BY <3>1 DEF Next, Reserve, RefuseReservation, ReleaseReservation, ReportLate, Cancel
  <2>. DEFINE consumed == drawDown(reservations[i], u)
              held == Minus(reserved, consumed)
  <2>2. /\ u \in [Dimensions -> Nat] /\ reservations[i] \in [Dimensions -> Nat]
        /\ reserved \in [Dimensions -> Int] /\ committed \in [Dimensions -> Nat]
    BY <2>1, BudgetLedgerAssumption DEF CommitAttemptUsage, LedgerInv
  <2>3. consumed \in [Dimensions -> Nat] /\ consumed[d] <= u[d]
    BY <2>2, DrawDownBounded
  <2>4. Account(held, u)
    BY <2>1 DEF CommitAttemptUsage
  <2>. HIDE DEF consumed
  <2>5. committed[d] + held[d] + u[d] > Limit[d]
    <3>1. held[d] = reserved[d] - consumed[d]
      BY DEF Minus
    <3>2. /\ committed[d] \in Int /\ reserved[d] \in Int
          /\ consumed[d] \in Int /\ u[d] \in Int /\ Limit[d] \in Int
      BY <2>2, <2>3, BudgetLedgerAssumption
    <3>. QED BY <2>3, <3>1, <3>2
  <2>. QED BY <2>4, <2>5 DEF Account, Exceeds
<1>2. Spec => [][Step]_vars
  BY <1>1, LedgerInvHolds, PTL DEF Spec
<1>. QED BY <1>2 DEF ExhaustionSticks

-----------------------------------------------------------------------------
(* The sum of what some open reservations hold of a dimension. Held is such a
   sum, written with a fold, so each fact below is about the fold. *)

Pick(S) == CHOOSE i \in S : TRUE

HeldBy(rs, d, S) == MapThenSumSet(LAMBDA i : rs[i][d], S)

(* sum is the function that the fold defines on the subsets of S. *)
Sums(sum, rs, d, S) ==
    sum = [T \in SUBSET S |-> IF T = {} THEN 0 ELSE rs[Pick(T)][d] + sum[T \ {Pick(T)}]]

(* A set of subsets of a finite set has a smallest one. *)
LEMMA SmallestSubset ==
    ASSUME NEW S, IsFiniteSet(S), NEW Bad \in SUBSET SUBSET S, Bad # {}
    PROVE  \E T \in Bad : \A U \in SUBSET T : U # T => U \notin Bad
<1>1. IsWellFoundedOn(StrictSubsetOrdering(S), SUBSET S)
  BY FS_StrictSubsetOrderingWellFounded, FS_FiniteSubsetsOfFinite
<1>2. PICK T \in Bad : \A U \in Bad : ~(<<U, T>> \in StrictSubsetOrdering(S))
  BY <1>1, WFMin
<1>. QED BY <1>2 DEF StrictSubsetOrdering

(* Two such functions agree where the reservations do. *)
LEMMA SumsAgree ==
    ASSUME NEW d, NEW S, IsFiniteSet(S),
           NEW rs, NEW sum, NEW R, S \subseteq R, Sums(sum, rs, d, R),
           NEW qs, NEW other, NEW Q, S \subseteq Q, Sums(other, qs, d, Q),
           \A i \in S : rs[i][d] = qs[i][d]
    PROVE  sum[S] = other[S]
<1>. DEFINE Bad == {T \in SUBSET S : sum[T] # other[T]}
<1>. SUFFICES ASSUME Bad # {} PROVE FALSE
  OBVIOUS
<1>1. PICK T \in Bad : \A U \in SUBSET T : U # T => U \notin Bad
  <2>1. Bad \in SUBSET SUBSET S
    OBVIOUS
  <2>. HIDE DEF Bad
  <2>. QED BY <2>1, SmallestSubset
<1>2. /\ T \in SUBSET S /\ sum[T] # other[T]
      /\ T \in SUBSET R /\ T \in SUBSET Q
  BY <1>1
<1>3. /\ sum[T] = IF T = {} THEN 0 ELSE rs[Pick(T)][d] + sum[T \ {Pick(T)}]
      /\ other[T] = IF T = {} THEN 0 ELSE qs[Pick(T)][d] + other[T \ {Pick(T)}]
  BY <1>2 DEF Sums
<1>4. T # {}
  BY <1>2, <1>3
<1>5. Pick(T) \in T
  BY <1>4 DEF Pick
<1>6. sum[T \ {Pick(T)}] = other[T \ {Pick(T)}]
  BY <1>1, <1>2, <1>5
<1>. QED BY <1>2, <1>3, <1>4, <1>5, <1>6

(* The fold is defined: there is such a function for every finite set. *)
LEMMA SumsExist ==
    ASSUME NEW rs, NEW d, NEW S, IsFiniteSet(S)
    PROVE  \E sum : Sums(sum, rs, d, S)
<1>. DEFINE Bad == {T \in SUBSET S : ~ \E sum : Sums(sum, rs, d, T)}
<1>. SUFFICES ASSUME Bad # {} PROVE FALSE
  OBVIOUS
<1>1. PICK T \in Bad : \A U \in SUBSET T : U # T => U \notin Bad
  <2>1. Bad \in SUBSET SUBSET S
    OBVIOUS
  <2>. HIDE DEF Bad
  <2>. QED BY <2>1, SmallestSubset
<1>2. T \in SUBSET S /\ ~ \E sum : Sums(sum, rs, d, T)
  BY <1>1
<1>3. \A U \in SUBSET T : U # T => \E sum : Sums(sum, rs, d, U)
  BY <1>1, <1>2
<1>. DEFINE part(U) == CHOOSE sum : Sums(sum, rs, d, U)
            below(U) == part(U)[U]
            whole == [U \in SUBSET T |->
                        IF U # T THEN below(U)
                        ELSE IF T = {} THEN 0 ELSE rs[Pick(T)][d] + below(T \ {Pick(T)})]
<1>4. ASSUME NEW U \in SUBSET T, U # T PROVE Sums(part(U), rs, d, U)
  BY <1>3, <1>4
<1>. HIDE DEF part
<1>5. ASSUME NEW U \in SUBSET T, U # T, U # {}
      PROVE  below(U) = rs[Pick(U)][d] + below(U \ {Pick(U)})
  <2>. DEFINE V == U \ {Pick(U)}
  <2>1. Pick(U) \in U /\ V \in SUBSET T /\ V # T /\ V \subseteq U
    BY <1>5 DEF Pick
  <2>2. part(U)[U] = rs[Pick(U)][d] + part(U)[V]
    <3>1. Sums(part(U), rs, d, U) /\ U \in SUBSET U
      BY <1>4, <1>5
    <3>. QED BY <1>5, <3>1 DEF Sums
  <2>3. IsFiniteSet(V)
    BY <1>2, <2>1, FS_Subset
  <2>4. part(U)[V] = part(V)[V]
    <3>1. Sums(part(U), rs, d, U) /\ Sums(part(V), rs, d, V)
      BY <1>4, <1>5, <2>1
    <3>. HIDE DEF V
    <3>. QED BY <2>1, <2>3, <3>1, SumsAgree
  <2>. QED BY <2>2, <2>4
<1>6. ASSUME {} # T PROVE below({}) = 0
  <2>1. Sums(part({}), rs, d, {}) /\ {} \in SUBSET {}
    BY <1>4, <1>6
  <2>. QED BY <2>1 DEF Sums
<1>7. ASSUME NEW U \in SUBSET T
      PROVE  whole[U] = IF U = {} THEN 0 ELSE rs[Pick(U)][d] + whole[U \ {Pick(U)}]
  <2>1. CASE U = {}
    BY <1>6, <2>1
  <2>2. CASE U # {}
    <3>1. Pick(U) \in U
      BY <2>2 DEF Pick
    <3>2. U \ {Pick(U)} \in SUBSET T /\ U \ {Pick(U)} # T
      BY <3>1
    <3>3. whole[U \ {Pick(U)}] = below(U \ {Pick(U)})
      BY <3>2
    <3>. HIDE DEF below
    <3>. QED BY <1>5, <2>2, <3>3
  <2>. QED BY <2>1, <2>2
<1>8. Sums(whole, rs, d, T)
  <2>. DEFINE step == [U \in SUBSET T |->
                         IF U = {} THEN 0 ELSE rs[Pick(U)][d] + whole[U \ {Pick(U)}]]
  <2>1. \A U \in SUBSET T : whole[U] = step[U]
    BY <1>7
  <2>2. whole = step
    BY <2>1
  <2>. QED BY <2>2 DEF Sums
<1>. QED BY <1>2, <1>8

LEMMA HeldBySums ==
    ASSUME NEW rs, NEW d, NEW S, IsFiniteSet(S)
    PROVE  \E sum : Sums(sum, rs, d, S) /\ HeldBy(rs, d, S) = sum[S]
<1>. DEFINE sum == CHOOSE f : Sums(f, rs, d, S)
<1>1. Sums(sum, rs, d, S)
  BY SumsExist
<1>2. HeldBy(rs, d, S) = sum[S]
  BY DEF HeldBy, MapThenSumSet, MapThenFoldSet, Sums, Pick
<1>. QED BY <1>1, <1>2

(* What is held depends on nothing but what each reservation holds. *)
LEMMA HeldByAgrees ==
    ASSUME NEW rs, NEW qs, NEW d, NEW S, IsFiniteSet(S),
           \A i \in S : rs[i][d] = qs[i][d]
    PROVE  HeldBy(rs, d, S) = HeldBy(qs, d, S)
<1>1. PICK sum : Sums(sum, rs, d, S) /\ HeldBy(rs, d, S) = sum[S]
  BY HeldBySums
<1>2. PICK other : Sums(other, qs, d, S) /\ HeldBy(qs, d, S) = other[S]
  BY HeldBySums
<1>. QED
  <2>1. PICK R : R = S /\ S \subseteq R
    OBVIOUS
  <2>2. Sums(sum, rs, d, R) /\ Sums(other, qs, d, R)
    BY <1>1, <1>2, <2>1
  <2>3. sum[S] = other[S]
    BY <2>1, <2>2, SumsAgree
  <2>. QED BY <1>1, <1>2, <2>3

(* Any one reservation can be taken out of the sum, in any order. *)
LEMMA HeldByRemove ==
    ASSUME NEW rs, NEW d, NEW S, IsFiniteSet(S), \A i \in S : rs[i][d] \in Nat,
           NEW i \in S
    PROVE  /\ HeldBy(rs, d, S) \in Nat /\ HeldBy(rs, d, S \ {i}) \in Nat
           /\ HeldBy(rs, d, S) = rs[i][d] + HeldBy(rs, d, S \ {i})
<1>1. PICK sum : Sums(sum, rs, d, S) /\ HeldBy(rs, d, S) = sum[S]
  BY HeldBySums
<1>2. ASSUME NEW T \in SUBSET S, T # {}
      PROVE  /\ Pick(T) \in T /\ T \ {Pick(T)} \in SUBSET S
             /\ sum[T] = rs[Pick(T)][d] + sum[T \ {Pick(T)}]
  BY <1>1, <1>2 DEF Sums, Pick
<1>3. ASSUME NEW T \in SUBSET S PROVE sum[T] \in Nat
  <2>. DEFINE Bad == {U \in SUBSET S : sum[U] \notin Nat}
  <2>. SUFFICES ASSUME Bad # {} PROVE FALSE
    OBVIOUS
  <2>1. PICK U \in Bad : \A V \in SUBSET U : V # U => V \notin Bad
    <3>. HIDE DEF Bad
    <3>1. Bad \in SUBSET SUBSET S
      BY DEF Bad
    <3>. QED BY <3>1, SmallestSubset
  <2>2. U # {}
    <3>1. {} \in SUBSET S
      OBVIOUS
    <3>2. sum[{}] = 0
      BY <1>1, <3>1 DEF Sums
    <3>3. sum[U] \notin Nat
      BY <2>1
    <3>. QED BY <3>2, <3>3
  <2>3. /\ Pick(U) \in U /\ sum[U] = rs[Pick(U)][d] + sum[U \ {Pick(U)}]
        /\ rs[Pick(U)][d] \in Nat
    BY <1>2, <2>1, <2>2
  <2>4. sum[U \ {Pick(U)}] \in Nat
    BY <2>1, <2>3
  <2>. QED BY <2>1, <2>3, <2>4
<1>4. ASSUME NEW T \in SUBSET S, NEW j \in T
      PROVE  sum[T] = rs[j][d] + sum[T \ {j}]
  <2>. DEFINE Bad == {U \in SUBSET S : \E k \in U : sum[U] # rs[k][d] + sum[U \ {k}]}
  <2>. SUFFICES ASSUME Bad # {} PROVE FALSE
    OBVIOUS
  <2>1. PICK U \in Bad : \A V \in SUBSET U : V # U => V \notin Bad
    <3>. HIDE DEF Bad
    <3>1. Bad \in SUBSET SUBSET S
      BY DEF Bad
    <3>. QED BY <3>1, SmallestSubset
  <2>2. PICK k \in U : sum[U] # rs[k][d] + sum[U \ {k}]
    BY <2>1
  <2>3. PICK p \in U : sum[U] = rs[p][d] + sum[U \ {p}]
    BY <1>2, <2>1, <2>2
  <2>4. p # k
    BY <2>2, <2>3
  <2>5. /\ sum[U \ {p}] = rs[k][d] + sum[(U \ {p}) \ {k}]
        /\ sum[U \ {k}] = rs[p][d] + sum[(U \ {k}) \ {p}]
    BY <2>1, <2>2, <2>3, <2>4
  <2>6. (U \ {p}) \ {k} = (U \ {k}) \ {p}
    OBVIOUS
  <2>7. /\ rs[k][d] \in Nat /\ rs[p][d] \in Nat /\ sum[(U \ {k}) \ {p}] \in Nat
    BY <1>3, <2>1, <2>2, <2>3
  <2>8. PICK rest \in Nat : /\ sum[U \ {p}] = rs[k][d] + rest
                            /\ sum[U \ {k}] = rs[p][d] + rest
    BY <2>5, <2>6, <2>7
  <2>. HIDE DEF Bad
  <2>. QED BY <2>2, <2>3, <2>7, <2>8
<1>5. HeldBy(rs, d, S \ {i}) = sum[S \ {i}]
  <2>1. IsFiniteSet(S \ {i})
    BY FS_RemoveElement
  <2>2. PICK other : /\ Sums(other, rs, d, S \ {i})
                     /\ HeldBy(rs, d, S \ {i}) = other[S \ {i}]
    BY <2>1, HeldBySums
  <2>3. S \ {i} \subseteq S
    OBVIOUS
  <2>4. PICK T : T = S \ {i}
    OBVIOUS
  <2>. QED BY <1>1, <2>1, <2>2, <2>3, <2>4, SumsAgree
<1>. QED BY <1>1, <1>3, <1>4, <1>5

LEMMA HeldByNone ==
    ASSUME NEW rs, NEW d PROVE HeldBy(rs, d, {}) = 0
<1>1. PICK sum : Sums(sum, rs, d, {}) /\ HeldBy(rs, d, {}) = sum[{}]
  BY HeldBySums, FS_EmptySet
<1>. QED BY <1>1 DEF Sums

LEMMA HeldByNat ==
    ASSUME NEW rs, NEW d, NEW S, IsFiniteSet(S), \A i \in S : rs[i][d] \in Nat
    PROVE  HeldBy(rs, d, S) \in Nat
<1>1. CASE S = {}
  BY <1>1, HeldByNone
<1>2. CASE S # {}
  BY <1>2, HeldByRemove
<1>. QED BY <1>1, <1>2

(* What reservation i adds to the sum over S. *)
Share(rs, d, S, i) == IF i \in S THEN rs[i][d] ELSE 0

(* A step that changes, opens or closes one reservation moves the sum by what
   that reservation holds. *)
LEMMA HeldByMoves ==
    ASSUME NEW rs, NEW qs, NEW d, NEW i,
           NEW S, IsFiniteSet(S), \A j \in S : rs[j][d] \in Nat,
           NEW T, IsFiniteSet(T), \A j \in T : qs[j][d] \in Nat,
           S \ {i} = T \ {i},
           \A j \in S \ {i} : rs[j][d] = qs[j][d]
    PROVE  HeldBy(qs, d, T) = HeldBy(rs, d, S) - Share(rs, d, S, i) + Share(qs, d, T, i)
<1>. DEFINE rest == S \ {i}
<1>1. IsFiniteSet(rest) /\ rest = T \ {i}
  BY FS_RemoveElement
<1>2. HeldBy(rs, d, rest) = HeldBy(qs, d, rest) /\ HeldBy(rs, d, rest) \in Nat
  <2>1. \A j \in rest : rs[j][d] = qs[j][d] /\ rs[j][d] \in Nat
    OBVIOUS
  <2>. HIDE DEF rest
  <2>. QED BY <1>1, <2>1, HeldByAgrees, HeldByNat
<1>3. /\ Share(rs, d, S, i) \in Nat
      /\ HeldBy(rs, d, S) = Share(rs, d, S, i) + HeldBy(rs, d, rest)
  <2>1. CASE i \in S
    BY <2>1, HeldByRemove DEF Share
  <2>2. CASE i \notin S
    <3>1. rest = S
      BY <2>2
    <3>. HIDE DEF rest
    <3>. QED BY <1>2, <2>2, <3>1 DEF Share
  <2>. QED BY <2>1, <2>2
<1>4. /\ Share(qs, d, T, i) \in Nat
      /\ HeldBy(qs, d, T) = Share(qs, d, T, i) + HeldBy(qs, d, rest)
  <2>1. CASE i \in T
    <3>1. HeldBy(qs, d, T) = qs[i][d] + HeldBy(qs, d, T \ {i})
      BY <2>1, HeldByRemove
    <3>. QED BY <1>1, <2>1, <3>1 DEF Share
  <2>2. CASE i \notin T
    <3>1. rest = T
      BY <1>1, <2>2
    <3>. HIDE DEF rest
    <3>. QED BY <1>2, <2>2, <3>1 DEF Share
  <2>. QED BY <2>1, <2>2
<1>. HIDE DEF rest
<1>. QED BY <1>2, <1>3, <1>4

-----------------------------------------------------------------------------
(* The running total of the ledger                                          *)

HoldInv == TypeOK /\ ReservedIsHeld

LEMMA OpenIsFinite == TypeOK => IsFiniteSet(Open)
BY BudgetLedgerAssumption, FS_Subset DEF TypeOK

LEMMA HeldIsSum == \A d \in Dimensions : Held[d] = HeldBy(reservations, d, Open)
BY DEF Held, HeldBy

LEMMA HeldIsSumNext == \A d \in Dimensions : Held'[d] = HeldBy(reservations', d, Open')
<1>1. (\A d \in Dimensions : Held[d] = HeldBy(reservations, d, Open))'
  BY HeldIsSum, PTL
<1>. QED BY <1>1

LEMMA HeldIsNat == TypeOK => Held \in [Dimensions -> Nat]
<1>. SUFFICES ASSUME TypeOK, NEW d \in Dimensions PROVE Held[d] \in Nat
  BY DEF Held
<1>1. \A i \in Open : reservations[i][d] \in Nat
  BY DEF TypeOK
<1>. QED BY <1>1, OpenIsFinite, HeldIsSum, HeldByNat

(* The total stays the sum when it moves by what one reservation holds. *)
LEMMA TotalMoves ==
    ASSUME HoldInv, TypeOK', NEW i,
           Open' \ {i} = Open \ {i},
           \A j \in Open \ {i} : reservations'[j] = reservations[j],
           \A d \in Dimensions :
              reserved'[d] = reserved[d] - Share(reservations, d, Open, i)
                                         + Share(reservations', d, Open', i)
    PROVE  ReservedIsHeld'
<1>. USE DEF HoldInv
<1>1. IsFiniteSet(Open) /\ IsFiniteSet(Open')
  <2>1. IsFiniteSet(Open')
    BY BudgetLedgerAssumption, FS_Subset DEF TypeOK
  <2>. QED BY <2>1, OpenIsFinite
<1>2. ASSUME NEW d \in Dimensions PROVE reserved'[d] = Held'[d]
  <2>1. /\ \A j \in Open : reservations[j][d] \in Nat
        /\ \A j \in Open' : reservations'[j][d] \in Nat
    BY DEF TypeOK
  <2>2. HeldBy(reservations', d, Open') =
          HeldBy(reservations, d, Open) - Share(reservations, d, Open, i)
                                        + Share(reservations', d, Open', i)
    <3>. DEFINE qs == reservations'
                T == Open'
    <3>1. /\ IsFiniteSet(T) /\ \A j \in T : qs[j][d] \in Nat
          /\ Open \ {i} = T \ {i}
          /\ \A j \in Open \ {i} : reservations[j][d] = qs[j][d]
      BY <1>1, <2>1
    <3>. HIDE DEF qs, T
    <3>2. HeldBy(qs, d, T) = HeldBy(reservations, d, Open) - Share(reservations, d, Open, i)
                                                           + Share(qs, d, T, i)
      BY <1>1, <2>1, <3>1, HeldByMoves
    <3>. QED BY <3>2 DEF qs, T
  <2>3. reserved[d] = HeldBy(reservations, d, Open)
    BY HeldIsSum DEF ReservedIsHeld
  <2>. QED BY <2>2, <2>3, HeldIsSumNext
<1>3. reserved' \in [Dimensions -> Int] /\ Held' = [d \in Dimensions |-> Held'[d]]
  BY DEF TypeOK, Held
<1>. QED BY <1>2, <1>3 DEF ReservedIsHeld

LEMMA HoldInit == Init => HoldInv
<1>. SUFFICES ASSUME Init PROVE HoldInv
  OBVIOUS
<1>1. TypeOK
  <2>1. Open = {} /\ reservations \in [Open -> [Dimensions -> Nat]]
    BY DEF Init, Open
  <2>2. /\ committed \in [Dimensions -> Nat] /\ reserved \in [Dimensions -> Int]
        /\ used = {} /\ settledAttempts = 0 /\ exhausted = FALSE
        /\ cancelled = FALSE /\ answer = "ok"
    BY DEF Init, Zero
  <2>. QED BY <2>1, <2>2 DEF TypeOK
<1>2. \A d \in Dimensions : Held[d] = 0
  <2>1. Open = {}
    BY DEF Init, Open
  <2>. QED BY <2>1, HeldIsSum, HeldByNone
<1>. QED BY <1>1, <1>2 DEF Init, Zero, HoldInv, ReservedIsHeld, Held

LEMMA TypeStep == TypeOK /\ [Next]_vars => TypeOK'
<1>. SUFFICES ASSUME TypeOK, [Next]_vars PROVE TypeOK'
  OBVIOUS
<1>. USE BudgetLedgerAssumption
<1>1. ASSUME NEW i \in Reservations, NEW u \in Usages, Reserve(i, u)
      PROVE  TypeOK'
  <2>1. u \in [Dimensions -> Nat] /\ Plus(reserved, u) \in [Dimensions -> Int]
    BY DEF TypeOK, Plus
  <2>. QED BY <1>1, <2>1 DEF Reserve, TypeOK, Open
<1>2. ASSUME NEW held \in [Dimensions -> Int], NEW u \in Usages, Account(held, u)
      PROVE  /\ reserved' \in [Dimensions -> Int]
             /\ committed' \in [Dimensions -> Nat]
             /\ settledAttempts' \in Nat /\ exhausted' \in BOOLEAN
             /\ cancelled' \in BOOLEAN
             /\ used' = used /\ answer' \in {"ok", "exhausted"}
  <2>1. Plus(committed, u) \in [Dimensions -> Nat]
    BY DEF TypeOK, Plus
  <2>2. Exceeds(held, u) \in BOOLEAN
    BY DEF Exceeds
  <2>. QED BY <1>2, <2>1, <2>2 DEF Account, TypeOK
<1>3. ASSUME NEW i \in Reservations, NEW u \in Usages, CommitAttemptUsage(i, u)
      PROVE  TypeOK'
  <2>. DEFINE consumed == drawDown(reservations[i], u)
  <2>1. /\ reservations[i] \in [Dimensions -> Nat] /\ u \in [Dimensions -> Nat] /\ i \in Open
    BY <1>3 DEF CommitAttemptUsage, TypeOK
  <2>2. /\ consumed \in [Dimensions -> Nat]
        /\ \A d \in Dimensions : consumed[d] <= reservations[i][d]
    BY <2>1, DrawDownBounded
  <2>. HIDE DEF consumed
  <2>3. /\ Minus(reservations[i], consumed) \in [Dimensions -> Nat]
        /\ Minus(reserved, consumed) \in [Dimensions -> Int]
    BY <2>1, <2>2 DEF TypeOK, Minus
  <2>4. /\ Account(Minus(reserved, consumed), u)
        /\ reservations' = [reservations EXCEPT ![i] = Minus(@, consumed)]
    BY <1>3 DEF CommitAttemptUsage, consumed
  <2>5. reservations' \in [Open -> [Dimensions -> Nat]] /\ Open' = Open
    BY <2>1, <2>3, <2>4 DEF TypeOK, Open
  <2>. QED BY <1>2, <2>3, <2>4, <2>5 DEF TypeOK
<1>4. ASSUME NEW i \in Reservations, NEW u \in Usages, SettleAttempt(i, u)
      PROVE  TypeOK'
  <2>1. Minus(reserved, reservations[i]) \in [Dimensions -> Int]
    BY <1>4 DEF SettleAttempt, TypeOK, Minus
  <2>2. reservations' \in [Open' -> [Dimensions -> Nat]] /\ Open' \subseteq Open
    BY <1>4 DEF SettleAttempt, Without, TypeOK, Open
  <2>3. Account(Minus(reserved, reservations[i]), u)
    BY <1>4 DEF SettleAttempt
  <2>. QED BY <1>2, <2>1, <2>2, <2>3 DEF TypeOK
<1>5. ASSUME NEW i \in Reservations, ReleaseReservation(i)
      PROVE  TypeOK'
  <2>1. Minus(reserved, reservations[i]) \in [Dimensions -> Int]
    BY <1>5 DEF ReleaseReservation, TypeOK, Minus
  <2>2. reservations' \in [Open' -> [Dimensions -> Nat]] /\ Open' \subseteq Open
    BY <1>5 DEF ReleaseReservation, Without, TypeOK, Open
  <2>. QED BY <1>5, <2>1, <2>2 DEF ReleaseReservation, TypeOK
<1>6. ASSUME NEW u \in Usages, RefuseReservation(u)
      PROVE  TypeOK'
  BY <1>6 DEF RefuseReservation, TypeOK, Open
<1>7. ASSUME NEW i \in Reservations, ReportLate(i)
      PROVE  TypeOK'
  BY <1>7 DEF ReportLate, TypeOK, Open
<1>8. ASSUME Cancel
      PROVE  TypeOK'
  <2>1. Minus(reserved, Held) \in [Dimensions -> Int]
    BY HeldIsNat DEF TypeOK, Minus
  <2>. QED BY <1>8, <2>1 DEF Cancel, TypeOK, Open
<1>9. ASSUME UNCHANGED vars
      PROVE  TypeOK'
  BY <1>9 DEF vars, TypeOK, Open
<1>. QED BY <1>1, <1>3, <1>4, <1>5, <1>6, <1>7, <1>8, <1>9 DEF Next

LEMMA HoldStep == HoldInv /\ [Next]_vars => HoldInv'
<1>. SUFFICES ASSUME HoldInv, [Next]_vars PROVE ReservedIsHeld'
  BY TypeStep DEF HoldInv
<1>. USE BudgetLedgerAssumption
<1>0. TypeOK /\ TypeOK'
  BY TypeStep DEF HoldInv
<1>1. ASSUME NEW i \in Reservations, NEW u \in Usages, Reserve(i, u)
      PROVE  ReservedIsHeld'
  <2>1. i \notin Open /\ Open' = Open \union {i}
    BY <1>0, <1>1 DEF Reserve, TypeOK, Open
  <2>2. reservations'[i] = u /\ \A j \in Open \ {i} : reservations'[j] = reservations[j]
    BY <1>1, <2>1 DEF Reserve, Open
  <2>3. \A d \in Dimensions : reserved'[d] = reserved[d] - 0 + u[d]
    BY <1>0, <1>1 DEF Reserve, Plus, TypeOK
  <2>. QED BY <1>0, <2>1, <2>2, <2>3, TotalMoves DEF Share
<1>2. ASSUME NEW i \in Reservations, NEW u \in Usages, CommitAttemptUsage(i, u)
      PROVE  ReservedIsHeld'
  <2>. DEFINE consumed == drawDown(reservations[i], u)
  <2>1. /\ i \in Open /\ u \in [Dimensions -> Nat]
        /\ reservations[i] \in [Dimensions -> Nat] /\ reserved \in [Dimensions -> Int]
    BY <1>0, <1>2 DEF CommitAttemptUsage, TypeOK
  <2>2. consumed \in [Dimensions -> Nat]
    BY <2>1, DrawDownBounded
  <2>3. /\ reservations' = [reservations EXCEPT ![i] = Minus(@, consumed)]
        /\ reserved' = Minus(reserved, consumed)
    BY <1>2 DEF CommitAttemptUsage, Account
  <2>. HIDE DEF consumed
  <2>4. /\ Open' = Open /\ reservations'[i] = Minus(reservations[i], consumed)
        /\ \A j \in Open \ {i} : reservations'[j] = reservations[j]
    BY <1>0, <2>1, <2>3 DEF TypeOK, Open
  <2>5. \A d \in Dimensions :
           reserved'[d] = reserved[d] - reservations[i][d] + reservations'[i][d]
    BY <2>1, <2>2, <2>3, <2>4 DEF Minus
  <2>. QED BY <1>0, <2>1, <2>4, <2>5, TotalMoves DEF Share
<1>3. ASSUME NEW i \in Reservations,
             ReleaseReservation(i) \/ \E u \in Usages : SettleAttempt(i, u)
      PROVE  ReservedIsHeld'
  <2>1. /\ i \in Open /\ reserved' = Minus(reserved, reservations[i])
        /\ reservations' = Without(i)
    BY <1>3 DEF ReleaseReservation, SettleAttempt, Account
  <2>2. /\ i \notin Open' /\ Open' \ {i} = Open \ {i}
        /\ \A j \in Open \ {i} : reservations'[j] = reservations[j]
    BY <2>1 DEF Without, Open
  <2>3. \A d \in Dimensions : reserved'[d] = reserved[d] - reservations[i][d] + 0
    BY <1>0, <2>1 DEF Minus, TypeOK
  <2>. QED BY <1>0, <2>1, <2>2, <2>3, TotalMoves DEF Share
<1>4. ASSUME Cancel
      PROVE  ReservedIsHeld'
  <2>1. Open' = {} /\ reserved' = Minus(Held, Held)
    BY <1>4 DEF Cancel, Open, HoldInv, ReservedIsHeld
  <2>2. \A d \in Dimensions : Held'[d] = 0
    BY <2>1, HeldIsSumNext, HeldByNone
  <2>3. \A d \in Dimensions : reserved'[d] = 0
    BY <1>0, <2>1, HeldIsNat DEF Minus
  <2>4. reserved' \in [Dimensions -> Int] /\ Held' = [d \in Dimensions |-> Held'[d]]
    BY <1>0 DEF TypeOK, Held
  <2>. QED BY <2>2, <2>3, <2>4 DEF ReservedIsHeld
<1>5. ASSUME UNCHANGED <<reserved, reservations>>
      PROVE  ReservedIsHeld'
  <2>1. Open' = Open
    BY <1>5 DEF Open
  <2>2. \A d \in Dimensions : Held'[d] = Held[d]
    BY <1>5, <2>1, HeldIsSum, HeldIsSumNext
  <2>3. /\ reserved \in [Dimensions -> Int] /\ Held = [d \in Dimensions |-> Held[d]]
        /\ Held' = [d \in Dimensions |-> Held'[d]]
    BY <1>0 DEF TypeOK, Held
  <2>. QED BY <1>5, <2>2, <2>3 DEF HoldInv, ReservedIsHeld
<1>. QED
  BY <1>1, <1>2, <1>3, <1>4, <1>5 DEF Next, RefuseReservation, ReportLate, vars

LEMMA HoldInvHolds == Spec => []HoldInv
BY HoldInit, HoldStep, PTL DEF Spec

(* The ledger keeps its types. *)
THEOREM LedgerTypeCorrect == Spec => []TypeOK
<1>1. HoldInv => TypeOK
  BY DEF HoldInv
<1>. QED BY <1>1, HoldInvHolds, PTL

(* reserveAttempt, commitAttemptUsage, settleAttempt, releaseReservation and
   cancel each keep the running total: it is what the open reservations hold,
   however many there are and whatever of them has been drawn down. *)
THEOREM LedgerReservedIsHeld == Spec => []ReservedIsHeld
<1>1. HoldInv => ReservedIsHeld
  BY DEF HoldInv
<1>. QED BY <1>1, HoldInvHolds, PTL

-----------------------------------------------------------------------------
(* The invariant of the lenses                                              *)

(* Until the review runs, and after it, no lens is in a callback. *)
AtRest ==
    /\ phase # "running" => \A l \in Lenses : stage[l] \in {"queued", "ended"}
    /\ phase \in {"other", "admitting", "refused", "admitted"} =>
        /\ result = [l \in Lenses |-> "none"]
        /\ report = NoReport
    /\ phase \in {"admitting", "admitted"} => ~exhausted
    /\ phase \in {"running", "resolved"} => report = NoReport

(* A lens is undecided until its dispatch settles, and what stopped the others
   is the result of one of them. *)
Decided ==
    /\ \A l \in Lenses : result[l] = "none" <=> stage[l] \in {"queued", "dispatched"}
    /\ budgetStopped <=> \E l \in Lenses : stage[l] \in {"judged", "ended"}
                                           /\ result[l] = "budget-exhausted"
    /\ \A l \in Lenses : result[l] = "budget-exhausted" => "budget-exhausted" \in outcomes
    /\ exhausted /\ phase \notin {"other", "refused"} =>
        \E l \in Lenses : result[l] = "budget-exhausted"

(* Nothing is left unlaunched unless the review was stopped. *)
NothingForgotten ==
    phase = "resolved" => \A l \in Lenses : stage[l] = "queued" => Stopped

(* What was reported is still true of the lenses. *)
ReportStands ==
    phase \in {"reported", "released"} =>
        \/ /\ report = [NoReport EXCEPT !.outcome = "cancelled"]
           /\ result = [l \in Lenses |-> "none"]
        \/ /\ report.outcome = ReviewOutcome
           /\ report.kept = Successes
           /\ report.status = [l \in Lenses |-> Blame(l)]
           /\ \A l \in Lenses : stage[l] = "queued" => Stopped

LensInv == LensTypeOK /\ AtRest /\ Decided /\ NothingForgotten /\ ReportStands

-----------------------------------------------------------------------------
(* A review is one client of the ledger: every step of it is a call that       *)
(* BudgetLedger allows, or leaves the ledger alone.                            *)

LEMMA EnvelopeIsReservation == Envelope \in Reservations
BY LensAssumption DEF Envelope

LEMMA LensStepUsesLedger == [LensNext]_allVars => [Next]_vars
<1>. SUFFICES ASSUME [LensNext]_allVars PROVE [Next]_vars
  OBVIOUS
<1>1. ASSUME NEW estimate \in Usages, Admit(estimate) PROVE Next
  BY <1>1, EnvelopeIsReservation DEF Admit, Next
<1>2. ASSUME NEW l \in Lenses, LensStep(l) PROVE [Next]_vars
  <2>1. ASSUME NEW value \in Answers, NEW usage \in Usages, Answer(l, value, usage) PROVE Next
    BY <2>1, EnvelopeIsReservation DEF Answer, Next
  <2>. QED BY <1>2, <2>1 DEF LensStep, RefuseDispatch, Throw, Judge, Return
<1>3. CASE UserAbort \/ Start \/ Report \/ ReportCancelled
  BY <1>3 DEF UserAbort, Start, Report, ReportCancelled
<1>4. CASE Release
  BY <1>4, EnvelopeIsReservation DEF Release, Next
<1>5. CASE Next \/ UNCHANGED allVars
  BY <1>5 DEF allVars
<1>. QED BY <1>1, <1>2, <1>3, <1>4, <1>5 DEF LensNext, ReviewStep

(* The detailed review implements the ledger's abstract client: whatever its
   lenses do, the ledger sees a sequence of legal calls. *)
THEOREM ReviewUsesLedger == LensSpec => Spec
<1>1. LensInit => Init
  BY DEF LensInit
<1>. QED BY <1>1, LensStepUsesLedger, PTL DEF LensSpec, Spec

(* So the dispatches of a review stay within its limits, or it is exhausted. *)
THEOREM ReviewWithinLimits == LensSpec => []WithinLimitsUntilExhausted
BY ReviewUsesLedger, LedgerWithinLimits, PTL

(* The total its ledger keeps is what the open reservation still holds, through
   every commit of every lens, the cancellation and the release. *)
THEOREM ReviewReservedIsHeld == LensSpec => []ReservedIsHeld
BY ReviewUsesLedger, LedgerReservedIsHeld, PTL

(* And no dispatch after the overspend is answered as if there were room. *)
THEOREM ReviewStaysExhausted == LensSpec => ExhaustionSticks
BY ReviewUsesLedger, LedgerStaysExhausted, PTL

-----------------------------------------------------------------------------
(* The order in which lenses end                                            *)

LEMMA LensInvInit == LensInit => LensInv
<1>. SUFFICES ASSUME LensInit PROVE LensInv
  OBVIOUS
<1>1. LensTypeOK
  BY DEF LensInit, LensTypeOK, NoReport, Results, Answers, Throws, Codes
<1>. QED BY <1>1 DEF LensInit, Init, LensInv, AtRest, Decided, NothingForgotten, ReportStands

(* Some lens can be launched when none is running and nothing was stopped. *)
LEMMA QueueMoves ==
    ASSUME ~Stopped, Queued # {} PROVE Launchable({}) # {}
<1>1. PICK l \in Queued : \A k \in Queued : l <= k
  <2>1. Queued \in SUBSET Nat
    BY LensAssumption DEF Queued, Lenses
  <2>2. PICK l \in Queued : \A k \in Queued : ~(<<k, l>> \in OpToRel(<, Nat))
    BY <2>1, NatLessThanWellFounded, WFMin
  <2>3. ASSUME NEW k \in Queued PROVE l <= k
    <3>1. l \in Nat /\ k \in Nat
      BY <2>1
    <3>2. ~(k < l)
      BY <2>2, <3>1, Zenon DEF OpToRel
    <3>. QED BY <3>1, <3>2
  <2>. QED BY <2>3
<1>2. {k \in Queued : k <= l} = {l}
  BY <1>1, LensAssumption DEF Queued, Lenses
<1>3. Cardinality({k \in Queued : k <= l}) = 1 /\ Cardinality({}) = 0
  BY <1>2, FS_Singleton, FS_EmptySet
<1>4. l \in Launchable({})
  BY <1>1, <1>3, LensAssumption DEF Launchable
<1>. QED BY <1>4

LEMMA AdmissionKeeps ==
    ASSUME LensInv, (\E estimate \in Usages : Admit(estimate)) \/ UserAbort \/ Start
    PROVE  LensInv'
<1>. USE DEF LensInv, LensTypeOK, AtRest, Decided, NothingForgotten, ReportStands
<1>1. ASSUME NEW estimate \in Usages, Admit(estimate) PROVE LensInv'
  BY <1>1 DEF Admit, Reserve, RefuseReservation
<1>2. CASE UserAbort
  BY <1>2 DEF UserAbort, vars
<1>3. CASE Start
  BY <1>3 DEF Start, vars
<1>. QED BY <1>1, <1>2, <1>3

LEMMA DispatchKeeps ==
    ASSUME LensInv, NEW l \in Lenses,
           \/ RefuseDispatch(l) \/ \E how \in Throws : Throw(l, how)
           \/ \E value \in Answers, usage \in Usages : Answer(l, value, usage)
    PROVE  LensInv'
<1>. USE DEF LensInv, LensTypeOK, AtRest, Decided, NothingForgotten, ReportStands
<1>1. CASE RefuseDispatch(l)
  BY <1>1 DEF RefuseDispatch, Settled, vars, Results, Answers
<1>2. CASE \E how \in Throws : Throw(l, how)
  BY <1>2 DEF Throw, Throws, vars, Results, Answers
<1>3. ASSUME NEW value \in Answers, NEW usage \in Usages, Answer(l, value, usage)
      PROVE  LensInv'
  <2>1. exhausted' => exhausted \/ answer' = "exhausted"
    BY <1>3, Zenon DEF Answer, CommitAttemptUsage, Account
  <2>. QED BY <1>3, <2>1 DEF Answer, Settled, Outcome, Results, Answers
<1>. QED BY <1>1, <1>2, <1>3

LEMMA WorkerKeeps ==
    ASSUME LensInv, NEW l \in Lenses, Judge(l) \/ Return(l)
    PROVE  LensInv'
<1>. USE DEF LensInv, LensTypeOK, AtRest, Decided, NothingForgotten, ReportStands
<1>1. CASE Judge(l)
  BY <1>1 DEF Judge, vars
<1>2. CASE Return(l)
  <2>. DEFINE launched == Launchable(Active \ {l})
  <2>1. /\ stage[l] = "judged" /\ launched \subseteq Queued
        /\ stage' = [k \in Lenses |-> IF k = l THEN "ended"
                                      ELSE IF k \in launched THEN "dispatched" ELSE stage[k]]
        /\ phase' = IF Active = {l} /\ launched = {} THEN "resolved" ELSE phase
        /\ UNCHANGED <<result, outcomes, userAborted, refusal, budgetStopped, report, exhausted>>
    BY <1>2 DEF Return, Launchable, vars
  <2>2. phase = "running"
    BY <2>1
  <2>3. phase' = "resolved" => \A k \in Lenses : stage'[k] = "queued" => Stopped
    <3>1. SUFFICES ASSUME Active = {l}, launched = {}, ~Stopped
                   PROVE  Queued = {}
      BY <2>1, <2>2 DEF Queued
    <3>2. Active \ {l} = {}
      BY <3>1
    <3>. QED BY <3>1, <3>2, QueueMoves
  <2>4. Stopped' = Stopped
    BY <2>1 DEF Stopped, Aborted
  <2>. HIDE DEF launched
  <2>5. LensTypeOK'
    BY <2>1, <2>2
  <2>6. Decided'
    BY <2>1, <2>2 DEF Queued
  <2>7. AtRest'
    BY <2>1, <2>2 DEF Queued, Active
  <2>. QED BY <2>1, <2>2, <2>3, <2>4, <2>5, <2>6, <2>7
<1>. QED BY <1>1, <1>2

LEMMA ReportKeeps ==
    ASSUME LensInv, Report \/ ReportCancelled \/ Release
    PROVE  LensInv'
<1>. USE DEF LensInv, LensTypeOK, AtRest, Decided, NothingForgotten, ReportStands
<1>1. CASE Report
  <2>1. LensTypeOK'
    <3>1. ReviewOutcome \in {"completed", "schema-failed", "failed", "budget-exhausted"}
      BY DEF ReviewOutcome
    <3>2. Successes \in SUBSET Lenses /\ [l \in Lenses |-> Blame(l)] \in [Lenses -> Codes]
      BY DEF Successes, Blame, Codes
    <3>. QED BY <1>1, <3>1, <3>2 DEF Report, vars
  <2>2. /\ UNCHANGED <<stage, result, outcomes, userAborted, refusal, budgetStopped, exhausted>>
        /\ phase = "resolved" /\ phase' = "reported"
        /\ report' = [outcome |-> ReviewOutcome, kept |-> Successes,
                      status |-> [l \in Lenses |-> Blame(l)]]
    BY <1>1 DEF Report, vars
  <2>3. /\ ReviewOutcome' = ReviewOutcome /\ Successes' = Successes /\ Stopped' = Stopped
        /\ [l \in Lenses |-> Blame(l)]' = [l \in Lenses |-> Blame(l)]
    BY <2>2 DEF ReviewOutcome, Successes, Stopped, Aborted, Blame
  <2>. HIDE DEF LensTypeOK
  <2>. QED BY <2>1, <2>2, <2>3
<1>2. CASE ReportCancelled
  BY <1>2 DEF ReportCancelled, vars
<1>3. CASE Release
  <2>1. /\ UNCHANGED <<stage, result, outcomes, userAborted, refusal, budgetStopped, report,
                        exhausted>>
        /\ phase = "reported" /\ phase' = "released"
    BY <1>3 DEF Release, ReleaseReservation
  <2>2. /\ ReviewOutcome' = ReviewOutcome /\ Successes' = Successes /\ Stopped' = Stopped
        /\ [l \in Lenses |-> Blame(l)]' = [l \in Lenses |-> Blame(l)]
    BY <2>1 DEF ReviewOutcome, Successes, Stopped, Aborted, Blame
  <2>. QED BY <2>1, <2>2
<1>. QED BY <1>1, <1>2, <1>3

LEMMA LensInvStep == LensInv /\ [LensNext]_allVars => LensInv'
<1>. SUFFICES ASSUME LensInv, [LensNext]_allVars PROVE LensInv'
  OBVIOUS
<1>1. CASE ReviewStep
  BY <1>1, AdmissionKeeps, DispatchKeeps, WorkerKeeps, ReportKeeps DEF ReviewStep, LensStep
<1>2. CASE (phase = "other" /\ UNCHANGED lensVars) \/ UNCHANGED allVars
  <2>1. UNCHANGED lensVars /\ (phase = "other" \/ exhausted' = exhausted)
    BY <1>2 DEF allVars, vars
  <2>2. /\ ReviewOutcome' = ReviewOutcome /\ Successes' = Successes /\ Stopped' = Stopped
        /\ [l \in Lenses |-> Blame(l)]' = [l \in Lenses |-> Blame(l)]
    BY <2>1 DEF lensVars, ReviewOutcome, Successes, Stopped, Aborted, Blame
  <2>3. LensTypeOK' /\ ReportStands' /\ NothingForgotten'
    BY <2>1, <2>2 DEF lensVars, LensInv, LensTypeOK, ReportStands, NothingForgotten
  <2>4. AtRest' /\ Decided'
    BY <2>1 DEF lensVars, LensInv, AtRest, Decided
  <2>. QED BY <2>3, <2>4 DEF LensInv
<1>. QED BY <1>1, <1>2 DEF LensNext

THEOREM LensInvHolds == LensSpec => []LensInv
BY LensInvInit, LensInvStep, PTL DEF LensSpec

(* A review whose usage passed a limit reports it, in whatever order its lenses
   end, throw or are aborted. *)
THEOREM OverspendReported == LensSpec => []OverspendIsTold
<1>1. LensInv => OverspendIsTold
  <2>. SUFFICES ASSUME LensInv, report.outcome \notin {"none", "cancelled"}, exhausted
                PROVE  report.outcome = "budget-exhausted"
    BY DEF OverspendIsTold
  <2>1. phase \in {"reported", "released"}
    BY DEF LensInv, LensTypeOK, AtRest, NoReport
  <2>2. report.outcome = ReviewOutcome
    BY <2>1 DEF LensInv, ReportStands, NoReport
  <2>3. "budget-exhausted" \in outcomes
    BY <2>1 DEF LensInv, Decided
  <2>. QED BY <2>2, <2>3 DEF ReviewOutcome
<1>. QED BY <1>1, LensInvHolds, PTL

(* Decoded findings are never dropped for a structured-output failure. *)
THEOREM FindingsReported == LensSpec => []FindingsSurvive
<1>1. LensInv => FindingsSurvive
  <2>. SUFFICES ASSUME LensInv, report.outcome # "none" PROVE FindingsSurvive
    BY DEF FindingsSurvive
  <2>1. phase \in {"reported", "released"}
    BY DEF LensInv, LensTypeOK, AtRest, NoReport
  <2>2. CASE report = [NoReport EXCEPT !.outcome = "cancelled"]
             /\ result = [l \in Lenses |-> "none"]
    BY <2>2 DEF FindingsSurvive, NoReport, Successes
  <2>3. CASE report.outcome = ReviewOutcome /\ report.kept = Successes
    BY <2>3 DEF FindingsSurvive, ReviewOutcome
  <2>. QED BY <2>1, <2>2, <2>3 DEF LensInv, ReportStands
<1>. QED BY <1>1, LensInvHolds, PTL

(* No lens is blamed for what another one did, but for the budget it found
   spent before it was launched; and none is cancelled unless a signal fired or
   it threw an abort of its own. *)
THEOREM BlameIsFair == LensSpec => []BlameIsDue
<1>1. LensInv => BlameIsDue
  <2>. SUFFICES ASSUME LensInv, report.outcome \notin {"none", "cancelled"}, NEW l \in Lenses
                PROVE  /\ report.status[l] = "BUDGET_EXHAUSTED" =>
                            stage[l] = "queued" /\ ~Aborted
                            /\ \E k \in Lenses : result[k] = "budget-exhausted"
                       /\ report.status[l] = "CANCELLED" =>
                            Aborted \/ result[l] = "threw-abort"
                       /\ report.status[l] = "success" <=> l \in report.kept
    BY DEF BlameIsDue
  <2>1. phase \in {"reported", "released"}
    BY DEF LensInv, LensTypeOK, AtRest, NoReport
  <2>2. /\ report.kept = Successes /\ report.status[l] = Blame(l)
        /\ stage[l] = "queued" => Stopped
    BY <2>1 DEF LensInv, ReportStands, NoReport
  <2>3. stage[l] \in {"queued", "ended"} /\ (result[l] = "none" <=> stage[l] = "queued")
    BY <2>1 DEF LensInv, AtRest, Decided
  <2>4. budgetStopped => \E k \in Lenses : result[k] = "budget-exhausted"
    BY DEF LensInv, Decided
  <2>. QED BY <2>2, <2>3, <2>4 DEF Blame, Successes, Stopped
<1>. QED BY <1>1, LensInvHolds, PTL

(* Between the commit that passed the limit and the worker that hears of it is
   the only time at which another lens is still dispatched. *)
THEOREM SpendingIsStopped == LensSpec => SpendingStops
<1>. DEFINE Step ==
       \A l \in Lenses :
          stage[l] = "queued" /\ stage'[l] = "dispatched" /\ exhausted =>
              \E k \in Lenses : stage[k] = "settled" /\ result[k] = "budget-exhausted"
<1>1. LensInv /\ [LensNext]_allVars => [Step]_allVars
  <2>. SUFFICES ASSUME LensInv, LensNext, NEW l \in Lenses, stage[l] = "queued",
                       stage'[l] = "dispatched", exhausted
       PROVE \E k \in Lenses : stage[k] = "settled" /\ result[k] = "budget-exhausted"
    OBVIOUS
  <2>1. PICK k \in Lenses : Return(k)
    <3>1. ~Start
      BY DEF Start, LensInv, AtRest
    <3>2. ASSUME NEW k \in Lenses, LensStep(k), ~Return(k) PROVE FALSE
      BY <3>2 DEF LensStep, RefuseDispatch, Answer, Settled, Throw, Judge, LensInv, LensTypeOK
    <3>3. ~(UNCHANGED stage)
      OBVIOUS
    <3>. QED BY <3>1, <3>2, <3>3
             DEF LensNext, ReviewStep, Admit, UserAbort, Report, ReportCancelled, Release, lensVars
  <2>2. ~Stopped
    BY <2>1 DEF Return, Launchable
  <2>3. stage[k] = "judged"
    BY <2>1 DEF Return
  <2>4. PICK m \in Lenses : result[m] = "budget-exhausted"
    BY <2>3 DEF LensInv, Decided, AtRest
  <2>. QED BY <2>2, <2>4 DEF LensInv, LensTypeOK, Decided, Stopped
<1>2. LensSpec => [][Step]_allVars
  BY <1>1, LensInvHolds, PTL DEF LensSpec
<1>. QED BY <1>2 DEF SpendingStops
=============================================================================

------------------------- MODULE EngineTimersProofs -------------------------
(***************************************************************************)
(* What TLAPS proves of the tables the engine's timers work through:       *)
(* purchases and their webhook inbox over the credit ledger (Payments,     *)
(* CreditLedger), for any events in any order, any amounts and any number  *)
(* of reservations; and cron triggers (Scheduler), for any number of       *)
(* engines, any period and any number of restarts.                         *)
(*                                                                         *)
(* The order is that of the argument: sums over finite sets; what an entry *)
(* does to sums of the ledger; reservations, holds and the balance; shares *)
(* of a refund; the purchase and its inbox; the theorems of Payments; the  *)
(* scheduler.                                                              *)
(***************************************************************************)
EXTENDS Payments, Scheduler, FiniteSetTheorems, SequenceTheorems, TLAPS

-----------------------------------------------------------------------------
(* Sums over finite sets.                                                  *)

Pick(T) == CHOOSE x \in T : TRUE

(* g is the table a fold of f over S builds. *)
Folds(f, S, g) ==
    g = [T \in SUBSET S |-> IF T = {} THEN 0 ELSE f[Pick(T)] + g[T \ {Pick(T)}]]

Fold(f, S) == CHOOSE g : Folds(f, S, g)

(* The library folds a sum over subsets of its set; f[x] is added to the   *)
(* sum of what is left.                                                    *)
LEMMA SumIsFold ==
    ASSUME NEW f, NEW S
    PROVE  SumFunctionOnSet(f, S) = Fold(f, S)[S]
BY Zenon DEF SumFunctionOnSet, FoldFunctionOnSet, MapThenFoldSet, Fold, Folds, Pick

(* A table that satisfies the equation makes the chosen one satisfy it. *)
LEMMA FoldIsFold ==
    ASSUME NEW f, NEW S, NEW g, Folds(f, S, g)
    PROVE Folds(f, S, Fold(f, S))
BY Zenon DEF Fold

LEMMA PickIn == ASSUME NEW T, T # {} PROVE Pick(T) \in T
BY DEF Pick

(* Induction over the subsets of a finite set: among the bad ones there is *)
(* one without bad ones inside.                                            *)
LEMMA SmallestSubset ==
    ASSUME NEW S, IsFiniteSet(S), NEW Bad, Bad \subseteq SUBSET S, Bad # {}
    PROVE  \E T \in Bad : \A U \in Bad : U \subseteq T => U = T
<1>1. IsWellFoundedOn(StrictSubsetOrdering(S), SUBSET S)
  BY FS_StrictSubsetOrderingWellFounded, FS_FiniteSubsetsOfFinite
<1>2. PICK T \in Bad : \A U \in Bad : ~ (<<U, T>> \in StrictSubsetOrdering(S))
  BY <1>1, WFMin
<1>3. QED
  BY <1>2 DEF StrictSubsetOrdering

(* Tables over different sets agree where both are defined ... *)
LEMMA FoldsAgree ==
    ASSUME NEW f, NEW S, IsFiniteSet(S), NEW R, NEW g, NEW h,
           Folds(f, S, g), Folds(f, R, h),
           NEW T, T \subseteq S, T \subseteq R
    PROVE  g[T] = h[T]
<1> DEFINE Bad == {U \in SUBSET S : U \subseteq R /\ g[U] # h[U]}
<1>1. SUFFICES ASSUME Bad # {} PROVE FALSE
  OBVIOUS
<1>2. PICK U \in Bad : \A V \in Bad : V \subseteq U => V = U
  <2> HIDE DEF Bad
  <2>1. Bad \subseteq SUBSET S
    BY DEF Bad
  <2> QED BY <1>1, <2>1, SmallestSubset
<1> DEFINE V == U \ {Pick(U)}
<1>3. /\ g[U] = IF U = {} THEN 0 ELSE f[Pick(U)] + g[V]
      /\ h[U] = IF U = {} THEN 0 ELSE f[Pick(U)] + h[V]
  BY <1>2 DEF Folds
<1>4. U # {}
  BY <1>2, <1>3
<1>5. V \notin Bad
  BY <1>2, <1>4, PickIn
<1>6. g[V] = h[V]
  BY <1>2, <1>5
<1> QED BY <1>2, <1>3, <1>6

(* ... and over a finite set there is one. *)
LEMMA FoldExists ==
    ASSUME NEW f, NEW S, IsFiniteSet(S)
    PROVE  Folds(f, S, Fold(f, S))
<1> DEFINE Bad == {T \in SUBSET S : ~ Folds(f, T, Fold(f, T))}
<1>1. SUFFICES ASSUME Bad # {} PROVE FALSE
  OBVIOUS
<1>2. PICK T \in Bad : \A U \in Bad : U \subseteq T => U = T
  <2> HIDE DEF Bad
  <2>1. Bad \subseteq SUBSET S
    BY DEF Bad
  <2> QED BY <1>1, <2>1, SmallestSubset
<1>3. ASSUME NEW U, U \subseteq T, U # T PROVE Folds(f, U, Fold(f, U))
  BY <1>2, <1>3
<1> DEFINE Rest(U) == U \ {Pick(U)}
<1> DEFINE g == [U \in SUBSET T |-> IF U = {} THEN 0 ELSE f[Pick(U)] + Fold(f, Rest(U))[Rest(U)]]
<1>4. ASSUME NEW U, U \subseteq T, U # {} PROVE g[Rest(U)] = Fold(f, Rest(U))[Rest(U)]
  <2> DEFINE V == Rest(U)
  <2>1. V \subseteq T /\ V # T
    BY <1>4, PickIn
  <2>2. IsFiniteSet(V)
    BY <2>1, <1>2, FS_Subset
  <2>3. Folds(f, V, Fold(f, V))
    BY <2>1, <1>3
  <2>4. CASE V = {}
    BY <2>1, <2>3, <2>4 DEF Folds
  <2>5. CASE V # {}
    <3> DEFINE W == Rest(V)
    <3>1. W \subseteq V /\ W \subseteq T /\ W # T
      BY <2>1, <2>5, PickIn
    <3>2. Folds(f, W, Fold(f, W))
      BY <3>1, <1>3
    <3>3. Fold(f, V)[V] = f[Pick(V)] + Fold(f, V)[W]
      BY <2>3, <2>5 DEF Folds
    <3>4. g[V] = f[Pick(V)] + Fold(f, W)[W]
      BY <2>1, <2>5
    <3>5. Fold(f, V)[W] = Fold(f, W)[W]
      <4> HIDE DEF V, W, g
      <4> QED BY <2>2, <2>3, <3>1, <3>2, FoldsAgree
    <3> QED BY <3>3, <3>4, <3>5
  <2> QED BY <2>4, <2>5
<1>5. Folds(f, T, g)
  <2>1. g = [U \in SUBSET T |-> IF U = {} THEN 0 ELSE f[Pick(U)] + g[Rest(U)]]
    <3> HIDE DEF g
    <3>1. \A U \in SUBSET T : U # {} => g[Rest(U)] = Fold(f, Rest(U))[Rest(U)]
      BY <1>4
    <3>2. g = [U \in SUBSET T |-> IF U = {} THEN 0 ELSE f[Pick(U)] + Fold(f, Rest(U))[Rest(U)]]
      BY DEF g
    <3> HIDE DEF Rest
    <3> QED BY <3>1, <3>2
  <2> HIDE DEF g
  <2> QED BY <2>1 DEF Folds
<1>6. Folds(f, T, Fold(f, T))
  <2> HIDE DEF g
  <2> QED BY <1>5, FoldIsFold
<1> QED BY <1>2, <1>6

Sum(f, S) == SumFunctionOnSet(f, S)

(* The equation of a sum. *)
LEMMA SumEquation ==
    ASSUME NEW f, NEW S, IsFiniteSet(S)
    PROVE  Sum(f, S) = IF S = {} THEN 0 ELSE f[Pick(S)] + Sum(f, S \ {Pick(S)})
<1> DEFINE R == S \ {Pick(S)}
<1>1. IsFiniteSet(R)
  BY FS_RemoveElement
<1>2. Folds(f, S, Fold(f, S)) /\ Folds(f, R, Fold(f, R))
  BY <1>1, FoldExists
<1>3. Fold(f, S)[S] = IF S = {} THEN 0 ELSE f[Pick(S)] + Fold(f, S)[R]
  BY <1>2 DEF Folds
<1>4. Fold(f, S)[R] = Fold(f, R)[R]
  <2> R \subseteq S
    OBVIOUS
  <2> HIDE DEF R
  <2> QED BY <1>2, FoldsAgree
<1>5. Sum(f, S) = Fold(f, S)[S] /\ Sum(f, R) = Fold(f, R)[R]
  BY SumIsFold DEF Sum
<1> HIDE DEF R
<1> QED BY <1>3, <1>4, <1>5 DEF R

(* The empty sum. *)
LEMMA SumEmpty == ASSUME NEW f PROVE Sum(f, {}) = 0
BY SumEquation, FS_EmptySet

(* Sums of integers are integers. *)
LEMMA SumTyped ==
    ASSUME NEW f, NEW S, IsFiniteSet(S), \A x \in S : f[x] \in Int
    PROVE  Sum(f, S) \in Int
<1> DEFINE Bad == {T \in SUBSET S : Sum(f, T) \notin Int}
<1>1. SUFFICES ASSUME Bad # {} PROVE FALSE
  OBVIOUS
<1>2. PICK T \in Bad : \A U \in Bad : U \subseteq T => U = T
  <2>1. Bad \subseteq SUBSET S
    OBVIOUS
  <2> HIDE DEF Bad
  <2> QED BY <1>1, <2>1, SmallestSubset
<1>3. Sum(f, T) = IF T = {} THEN 0 ELSE f[Pick(T)] + Sum(f, T \ {Pick(T)})
  BY <1>2, FS_Subset, SumEquation
<1>4. T # {}
  BY <1>2, <1>3
<1>5. Pick(T) \in T /\ f[Pick(T)] \in Int
  BY <1>2, <1>4, PickIn
<1>6. Sum(f, T \ {Pick(T)}) \in Int
  <2>1. T \ {Pick(T)} \notin Bad
    BY <1>2, <1>5
  <2> QED BY <1>2, <2>1
<1> QED BY <1>2, <1>3, <1>4, <1>5, <1>6

(* Any element may be taken out first. *)
LEMMA SumStep ==
    ASSUME NEW f, NEW S, IsFiniteSet(S), \A x \in S : f[x] \in Int, NEW e \in S
    PROVE  Sum(f, S) = f[e] + Sum(f, S \ {e})
<1> DEFINE Bad == {T \in SUBSET S : \E x \in T : Sum(f, T) # f[x] + Sum(f, T \ {x})}
<1>1. SUFFICES ASSUME Bad # {} PROVE FALSE
  OBVIOUS
<1>2. PICK T \in Bad : \A U \in Bad : U \subseteq T => U = T
  <2>1. Bad \subseteq SUBSET S
    OBVIOUS
  <2> HIDE DEF Bad
  <2> QED BY <1>1, <2>1, SmallestSubset
<1>3. PICK x \in T : Sum(f, T) # f[x] + Sum(f, T \ {x})
  BY <1>2
<1>4. T \subseteq S /\ IsFiniteSet(T)
  BY <1>2, FS_Subset
<1> DEFINE p == Pick(T)
<1>5. p \in T /\ Sum(f, T) = f[p] + Sum(f, T \ {p})
  BY <1>3, <1>4, PickIn, SumEquation
<1>6. p # x
  BY <1>3, <1>5
<1> HIDE DEF p
<1> DEFINE U == T \ {p}
           V == T \ {x}
           W == T \ {p, x}
<1>7. U \notin Bad /\ V \notin Bad /\ U \subseteq S /\ V \subseteq S
  BY <1>2, <1>4, <1>5, <1>3
<1>8. Sum(f, U) = f[x] + Sum(f, U \ {x}) /\ Sum(f, V) = f[p] + Sum(f, V \ {p})
  BY <1>7, <1>3, <1>5, <1>6
<1>9. U \ {x} = W /\ V \ {p} = W
  OBVIOUS
<1>10. f[x] \in Int /\ f[p] \in Int /\ Sum(f, W) \in Int
  <2>1. W \subseteq S /\ IsFiniteSet(W)
    BY <1>4, FS_Subset
  <2> HIDE DEF U, V, W
  <2> QED BY <2>1, <1>4, <1>3, <1>5, SumTyped
<1> HIDE DEF U, V, W
<1>11. Sum(f, T) = f[p] + Sum(f, U) /\ Sum(f, T) # f[x] + Sum(f, V)
  BY <1>3, <1>5 DEF U, V
<1>12. Sum(f, U) = f[x] + Sum(f, W) /\ Sum(f, V) = f[p] + Sum(f, W)
  BY <1>8, <1>9
<1> QED BY <1>10, <1>11, <1>12

(* Functions that agree have the same sums. *)
LEMMA SumAgrees ==
    ASSUME NEW f, NEW g, NEW S, IsFiniteSet(S), \A x \in S : f[x] = g[x]
    PROVE  Sum(f, S) = Sum(g, S)
<1> DEFINE Bad == {T \in SUBSET S : Sum(f, T) # Sum(g, T)}
<1>1. SUFFICES ASSUME Bad # {} PROVE FALSE
  OBVIOUS
<1>2. PICK T \in Bad : \A U \in Bad : U \subseteq T => U = T
  <2>1. Bad \subseteq SUBSET S
    OBVIOUS
  <2> HIDE DEF Bad
  <2> QED BY <1>1, <2>1, SmallestSubset
<1>3. IsFiniteSet(T)
  BY <1>2, FS_Subset
<1>4. /\ Sum(f, T) = IF T = {} THEN 0 ELSE f[Pick(T)] + Sum(f, T \ {Pick(T)})
      /\ Sum(g, T) = IF T = {} THEN 0 ELSE g[Pick(T)] + Sum(g, T \ {Pick(T)})
  BY <1>3, SumEquation
<1>5. T # {}
  BY <1>2, <1>4
<1>6. Pick(T) \in T /\ T \ {Pick(T)} \notin Bad
  BY <1>2, <1>5, PickIn
<1>7. Sum(f, T \ {Pick(T)}) = Sum(g, T \ {Pick(T)})
  BY <1>2, <1>6
<1> QED BY <1>2, <1>4, <1>5, <1>6, <1>7

(* A sum of numbers none of which is negative is not negative, and grows with its set. *)
LEMMA SumOfNaturals ==
    ASSUME NEW f, NEW S, IsFiniteSet(S), \A x \in S : f[x] \in Nat
    PROVE  Sum(f, S) \in Nat
<1> DEFINE Bad == {T \in SUBSET S : Sum(f, T) \notin Nat}
<1>1. SUFFICES ASSUME Bad # {} PROVE FALSE
  OBVIOUS
<1>2. PICK T \in Bad : \A U \in Bad : U \subseteq T => U = T
  <2>1. Bad \subseteq SUBSET S
    OBVIOUS
  <2> HIDE DEF Bad
  <2> QED BY <1>1, <2>1, SmallestSubset
<1>3. Sum(f, T) = IF T = {} THEN 0 ELSE f[Pick(T)] + Sum(f, T \ {Pick(T)})
  BY <1>2, FS_Subset, SumEquation
<1>4. T # {}
  BY <1>2, <1>3
<1>5. Pick(T) \in T /\ f[Pick(T)] \in Nat
  BY <1>2, <1>4, PickIn
<1>6. Sum(f, T \ {Pick(T)}) \in Nat
  <2>1. T \ {Pick(T)} \notin Bad
    BY <1>2, <1>5
  <2> QED BY <1>2, <2>1
<1>7. Sum(f, T) \in Nat
  <2> HIDE DEF Bad
  <2> QED BY <1>3, <1>4, <1>5, <1>6
<1> QED BY <1>2, <1>7

(* A sum is the sum over a part and over the rest. *)
LEMMA SumSplit ==
    ASSUME NEW f, NEW S, IsFiniteSet(S), \A x \in S : f[x] \in Int, NEW K
    PROVE  Sum(f, S) = Sum(f, S \cap K) + Sum(f, S \ K)
<1> DEFINE Bad == {T \in SUBSET S : Sum(f, T) # Sum(f, T \cap K) + Sum(f, T \ K)}
<1>1. SUFFICES ASSUME Bad # {} PROVE FALSE
  OBVIOUS
<1>2. PICK T \in Bad : \A U \in Bad : U \subseteq T => U = T
  <2>1. Bad \subseteq SUBSET S
    OBVIOUS
  <2> HIDE DEF Bad
  <2> QED BY <1>1, <2>1, SmallestSubset
<1>3. T \subseteq S /\ IsFiniteSet(T) /\ \A x \in T : f[x] \in Int
  BY <1>2, FS_Subset
<1>4. T # {}
  <2>1. SUFFICES ASSUME T = {} PROVE FALSE
    OBVIOUS
  <2>2. Sum(f, {}) = 0 /\ 0 = 0 + 0
    BY SumEmpty
  <2>3. T \cap K = {} /\ T \ K = {}
    BY <2>1
  <2>4. Sum(f, T \cap K) = 0 /\ Sum(f, T \ K) = 0 /\ Sum(f, T) = 0
    BY <2>1, <2>2, <2>3, Zenon
  <2>5. Sum(f, T) # Sum(f, T \cap K) + Sum(f, T \ K)
    BY <1>2
  <2> QED BY <2>2, <2>4, <2>5
<1>5. PICK x \in T : TRUE
  BY <1>4
<1> DEFINE U == T \ {x}
<1>6. Sum(f, U) = Sum(f, U \cap K) + Sum(f, U \ K)
  <2>1. U \notin Bad
    BY <1>2
  <2> QED BY <1>3, <2>1
<1>7. Sum(f, T) = f[x] + Sum(f, U)
  BY <1>3, SumStep
<1>8. /\ IsFiniteSet(T \cap K) /\ IsFiniteSet(T \ K)
      /\ \A y \in T \cap K : f[y] \in Int
      /\ \A y \in T \ K : f[y] \in Int
  BY <1>3, FS_Subset
<1>9. /\ f[x] \in Int /\ Sum(f, U) \in Int
      /\ Sum(f, U \cap K) \in Int /\ Sum(f, U \ K) \in Int
  <2>1. /\ IsFiniteSet(U) /\ IsFiniteSet(U \cap K) /\ IsFiniteSet(U \ K)
        /\ \A y \in U : f[y] \in Int
    BY <1>3, FS_Subset
  <2> HIDE DEF U, Bad
  <2> QED BY <1>3, <2>1, SumTyped
<1>10. CASE x \in K
  <2>1. Sum(f, T \cap K) = f[x] + Sum(f, (T \cap K) \ {x})
    BY <1>8, <1>10, SumStep
  <2>2. (T \cap K) \ {x} = U \cap K /\ T \ K = U \ K
    BY <1>10
  <2>3. /\ Sum(f, (T \cap K) \ {x}) = Sum(f, U \cap K)
        /\ Sum(f, T \ K) = Sum(f, U \ K)
    BY <2>2, Zenon
  <2>4. Sum(f, T) # Sum(f, T \cap K) + Sum(f, T \ K)
    BY <1>2
  <2> HIDE DEF U, Bad
  <2> QED BY <1>6, <1>7, <1>9, <2>1, <2>3, <2>4
<1>11. CASE x \notin K
  <2>1. Sum(f, T \ K) = f[x] + Sum(f, (T \ K) \ {x})
    BY <1>8, <1>11, SumStep
  <2>2. (T \ K) \ {x} = U \ K /\ T \cap K = U \cap K
    BY <1>11
  <2>3. /\ Sum(f, (T \ K) \ {x}) = Sum(f, U \ K)
        /\ Sum(f, T \cap K) = Sum(f, U \cap K)
    BY <2>2, Zenon
  <2>4. Sum(f, T) # Sum(f, T \cap K) + Sum(f, T \ K)
    BY <1>2
  <2> HIDE DEF U, Bad
  <2> QED BY <1>6, <1>7, <1>9, <2>1, <2>3, <2>4
<1> QED BY <1>10, <1>11

(* A sum of numbers none of which is positive is not positive. *)
LEMMA SumOfNegatives ==
    ASSUME NEW f, NEW S, IsFiniteSet(S), \A x \in S : f[x] \in Int /\ f[x] <= 0
    PROVE  Sum(f, S) \in Int /\ Sum(f, S) <= 0
<1> DEFINE Bad == {T \in SUBSET S : ~(Sum(f, T) \in Int /\ Sum(f, T) <= 0)}
<1>1. SUFFICES ASSUME Bad # {} PROVE FALSE
  OBVIOUS
<1>2. PICK T \in Bad : \A U \in Bad : U \subseteq T => U = T
  <2>1. Bad \subseteq SUBSET S
    OBVIOUS
  <2> HIDE DEF Bad
  <2> QED BY <1>1, <2>1, SmallestSubset
<1>3. Sum(f, T) = IF T = {} THEN 0 ELSE f[Pick(T)] + Sum(f, T \ {Pick(T)})
  BY <1>2, FS_Subset, SumEquation
<1>4. T # {}
  BY <1>2, <1>3
<1>5. Pick(T) \in T /\ f[Pick(T)] \in Int /\ f[Pick(T)] <= 0
  BY <1>2, <1>4, PickIn
<1>6. Sum(f, T \ {Pick(T)}) \in Int /\ Sum(f, T \ {Pick(T)}) <= 0
  <2>1. T \ {Pick(T)} \notin Bad
    BY <1>2, <1>5
  <2> QED BY <1>2, <2>1
<1>7. Sum(f, T) \in Int /\ Sum(f, T) <= 0
  <2> HIDE DEF Bad
  <2> QED BY <1>3, <1>4, <1>5, <1>6
<1> QED BY <1>2, <1>7

(* One entry more. *)
LEMMA SumEntered ==
    ASSUME NEW l, NEW m, NEW D, IsFiniteSet(D), NEW key, key \notin D,
           \A x \in D : l[x] \in Int /\ m[x] = l[x], m[key] \in Int, NEW K
    PROVE  Sum(m, K \cap (D \cup {key})) =
             Sum(l, K \cap D) + (IF key \in K THEN m[key] ELSE 0)
<1>1. IsFiniteSet(K \cap D) /\ IsFiniteSet(K \cap (D \cup {key}))
  BY FS_Subset, FS_AddElement
<1>2. Sum(m, K \cap D) = Sum(l, K \cap D) /\ Sum(l, K \cap D) \in Int
  BY <1>1, SumAgrees, SumTyped
<1>3. CASE key \in K
  <2> DEFINE S == K \cap (D \cup {key})
  <2>1. key \in S /\ S \ {key} = K \cap D /\ \A x \in S : m[x] \in Int
    BY <1>3
  <2>2. Sum(m, S) = m[key] + Sum(m, S \ {key})
    <3>1. IsFiniteSet(S)
      BY <1>1
    <3> HIDE DEF S
    <3> QED BY <2>1, <3>1, SumStep
  <2>3. Sum(m, S \ {key}) = Sum(m, K \cap D)
    BY <2>1, Zenon
  <2> QED BY <1>2, <1>3, <2>2, <2>3
<1>4. CASE key \notin K
  <2>1. K \cap (D \cup {key}) = K \cap D
    BY <1>4
  <2>2. Sum(m, K \cap (D \cup {key})) = Sum(m, K \cap D)
    BY <2>1, Zenon
  <2> QED BY <1>2, <1>4, <2>2
<1> QED BY <1>3, <1>4

-----------------------------------------------------------------------------
(* The ledger: an entry, and what it is worth.                             *)

(* The table is finite and holds no empty movement. *)
LedgerSound ==
    /\ ledger = [key \in DOMAIN ledger |-> ledger[key]]
    /\ IsFiniteSet(DOMAIN ledger)
    /\ \A key \in DOMAIN ledger : ledger[key] \in Int \ {0}

(* What an entry does to the table. *)
LEMMA EntryEntered ==
    ASSUME LedgerSound, NEW key, NEW units \in Int \ {0}, Enter(key, units)
    PROVE  /\ LedgerSound'
           /\ DOMAIN ledger' = DOMAIN ledger \cup {key}
           /\ \A k \in DOMAIN ledger : ledger'[k] = ledger[k]
           /\ key \notin DOMAIN ledger => ledger'[key] = units
           /\ key \in DOMAIN ledger => ledger' = ledger
<1>1. CASE key \in DOMAIN ledger
  BY <1>1 DEF Enter, LedgerSound
<1>2. CASE key \notin DOMAIN ledger
  <2>1. /\ DOMAIN ledger' = DOMAIN ledger \cup {key}
        /\ \A k \in DOMAIN ledger : ledger'[k] = ledger[k]
        /\ ledger'[key] = units
    BY <1>2 DEF Enter
  <2>2. IsFiniteSet(DOMAIN ledger \cup {key})
    BY FS_AddElement DEF LedgerSound
  <2>3. LedgerSound'
    BY <2>1, <2>2 DEF LedgerSound, Enter
  <2> QED BY <1>2, <2>1, <2>3
<1> QED BY <1>1, <1>2

(* ... and to what some of the keys come to. *)
LEMMA EntryCounts ==
    ASSUME LedgerSound, NEW key, NEW units \in Int \ {0}, Enter(key, units), NEW K
    PROVE  /\ Sum(ledger, K \cap DOMAIN ledger) \in Int
           /\ Sum(ledger', K \cap DOMAIN ledger') =
                Sum(ledger, K \cap DOMAIN ledger) +
                (IF key \in K \ DOMAIN ledger THEN units ELSE 0)
<1>1. /\ IsFiniteSet(DOMAIN ledger)
      /\ \A k \in DOMAIN ledger : ledger[k] \in Int /\ ledger'[k] = ledger[k]
      /\ DOMAIN ledger' = DOMAIN ledger \cup {key}
  BY EntryEntered DEF LedgerSound
<1>2. Sum(ledger, K \cap DOMAIN ledger) \in Int
  <2>1. IsFiniteSet(K \cap DOMAIN ledger) /\ \A k \in K \cap DOMAIN ledger : ledger[k] \in Int
    BY <1>1, FS_Subset
  <2> QED BY <2>1, SumTyped
<1>3. CASE key \in DOMAIN ledger
  <2>1. ledger' = ledger
    BY <1>3, EntryEntered
  <2> QED BY <1>2, <1>3, <2>1
<1>4. CASE key \notin DOMAIN ledger
  <2>1. ledger'[key] = units /\ units \in Int
    BY <1>4, EntryEntered
  <2>2. Sum(ledger', K \cap (DOMAIN ledger \cup {key})) =
          Sum(ledger, K \cap DOMAIN ledger) + (IF key \in K THEN ledger'[key] ELSE 0)
    BY <1>1, <1>4, <2>1, SumEntered
  <2>3. Sum(ledger', K \cap DOMAIN ledger') = Sum(ledger', K \cap (DOMAIN ledger \cup {key}))
    BY <1>1, Zenon
  <2> QED BY <1>2, <1>4, <2>1, <2>2, <2>3
<1> QED BY <1>3, <1>4

-----------------------------------------------------------------------------
(* What a reservation has entered in the ledger. *)
Booked(r) ==
    /\ reservation[r].settled \in 0 .. Hold[r]
    /\ HoldKey(r) \in DOMAIN ledger <=> reservation[r].status # "none"
    /\ SettlementKey(r) \in DOMAIN ledger <=>
         reservation[r].status = "settled" /\ reservation[r].settled < Hold[r]
    /\ ReleaseKey(r) \in DOMAIN ledger <=> reservation[r].status \in {"released", "expired"}
    /\ HoldKey(r) \in DOMAIN ledger => ledger[HoldKey(r)] = -Hold[r]
    /\ SettlementKey(r) \in DOMAIN ledger =>
         ledger[SettlementKey(r)] = Hold[r] - reservation[r].settled
    /\ ReleaseKey(r) \in DOMAIN ledger => ledger[ReleaseKey(r)] = Hold[r]

HoldsBooked == \A r \in Reservation : Booked(r)

(* Three keys come to the sum of those that are entered. *)
LEMMA SumOfThree ==
    ASSUME NEW f, NEW D, NEW a, NEW b, NEW c, a # b, a # c, b # c,
           \A x \in {a, b, c} \cap D : f[x] \in Int
    PROVE  Sum(f, {a, b, c} \cap D) = (IF a \in D THEN f[a] ELSE 0) +
             (IF b \in D THEN f[b] ELSE 0) + (IF c \in D THEN f[c] ELSE 0)
<1> DEFINE One == {c} \cap D
           Two == {b, c} \cap D
           Three == {a, b, c} \cap D
           c0 == IF c \in D THEN f[c] ELSE 0
           b0 == IF b \in D THEN f[b] ELSE 0
           a0 == IF a \in D THEN f[a] ELSE 0
<1>1. IsFiniteSet(One) /\ IsFiniteSet(Two) /\ IsFiniteSet(Three)
  <2>1. IsFiniteSet({a, b, c}) /\ IsFiniteSet({b, c}) /\ IsFiniteSet({c})
    <3>1. IsFiniteSet({} \cup {c})
      BY FS_EmptySet, FS_AddElement
    <3>2. IsFiniteSet({c} \cup {b})
      BY <3>1, FS_AddElement
    <3>3. IsFiniteSet({b, c} \cup {a})
      BY <3>2, FS_AddElement
    <3> QED BY <3>1, <3>2, <3>3
  <2> QED BY <2>1, FS_Subset
<1>2. Sum(f, {}) = 0
  BY SumEmpty
<1>3. Sum(f, One) = c0 /\ c0 \in Int
  <2>1. CASE c \in D
    <3>1. One \ {c} = {} /\ c \in One /\ \A x \in One : f[x] \in Int
      BY <2>1
    <3>2. Sum(f, One) = f[c] + Sum(f, One \ {c})
      <4> HIDE DEF One
      <4> QED BY <1>1, <3>1, SumStep
    <3>3. Sum(f, One \ {c}) = 0
      BY <1>2, <3>1, Zenon
    <3> QED BY <2>1, <3>1, <3>2, <3>3
  <2>2. CASE c \notin D
    <3>1. One = {}
      BY <2>2
    <3>2. Sum(f, One) = 0
      BY <1>2, <3>1, Zenon
    <3> QED BY <2>2, <3>2
  <2> QED BY <2>1, <2>2
<1>4. Sum(f, Two) = b0 + c0 /\ b0 \in Int
  <2>1. CASE b \in D
    <3>1. Two \ {b} = One /\ b \in Two /\ \A x \in Two : f[x] \in Int
      BY <2>1
    <3>2. Sum(f, Two) = f[b] + Sum(f, Two \ {b})
      <4> HIDE DEF Two
      <4> QED BY <1>1, <3>1, SumStep
    <3>3. Sum(f, Two \ {b}) = Sum(f, One)
      BY <3>1, Zenon
    <3> QED BY <1>3, <2>1, <3>1, <3>2, <3>3
  <2>2. CASE b \notin D
    <3>1. Two = One
      BY <2>2
    <3>2. Sum(f, Two) = Sum(f, One)
      BY <3>1, Zenon
    <3> QED BY <1>3, <2>2, <3>2
  <2> QED BY <2>1, <2>2
<1>5. Sum(f, Three) = a0 + b0 + c0
  <2>1. CASE a \in D
    <3>1. Three \ {a} = Two /\ a \in Three /\ \A x \in Three : f[x] \in Int
      BY <2>1
    <3>2. Sum(f, Three) = f[a] + Sum(f, Three \ {a})
      <4> HIDE DEF Three
      <4> QED BY <1>1, <3>1, SumStep
    <3>3. Sum(f, Three \ {a}) = Sum(f, Two)
      BY <3>1, Zenon
    <3> QED BY <1>3, <1>4, <2>1, <3>1, <3>2, <3>3
  <2>2. CASE a \notin D
    <3>1. Three = Two
      BY <2>2
    <3>2. Sum(f, Three) = Sum(f, Two)
      BY <3>1, Zenon
    <3> QED BY <1>3, <1>4, <2>2, <3>2
  <2> QED BY <2>1, <2>2
<1> QED BY <1>5

ReservationRow == [status : {"none", "active"} \cup Closed, settled : Nat, lapsed : BOOLEAN]

ReservationsTyped == reservation \in [Reservation -> ReservationRow]

(* What was entered about each reservation is what its status says. *)
LEMMA BookedIsAccounted ==
    ASSUME LedgerSound, HoldsBooked, ReservationsTyped
    PROVE  HoldsAccounted
<1> SUFFICES ASSUME NEW r \in Reservation
             PROVE  SumOf({HoldKey(r), SettlementKey(r), ReleaseKey(r)}) =
                      CASE reservation[r].status = "active" -> -Hold[r]
                        [] reservation[r].status = "settled" -> -reservation[r].settled
                        [] OTHER -> 0
  BY DEF HoldsAccounted
<1> DEFINE h == HoldKey(r)
           s == SettlementKey(r)
           l == ReleaseKey(r)
           D == DOMAIN ledger
<1>1. h # s /\ h # l /\ s # l
  BY DEF HoldKey, SettlementKey, ReleaseKey
<1>2. Booked(r)
  BY DEF HoldsBooked
<1>3. \A k \in {h, s, l} \cap D : ledger[k] \in Int
  BY DEF LedgerSound
<1> HIDE DEF h, s, l
<1>4. Sum(ledger, {h, s, l} \cap D) = (IF h \in D THEN ledger[h] ELSE 0) +
        (IF s \in D THEN ledger[s] ELSE 0) + (IF l \in D THEN ledger[l] ELSE 0)
  BY <1>1, <1>3, SumOfThree
<1>5. Hold[r] \in Nat /\ reservation[r].settled \in 0 .. Hold[r]
  BY <1>2, LedgerAssumption DEF Booked
<1>6. reservation[r].status \in {"none", "active", "settled", "released", "expired"}
  BY DEF ReservationsTyped, ReservationRow, Closed
<1>7. /\ h \in D <=> reservation[r].status # "none"
      /\ s \in D <=> reservation[r].status = "settled" /\ reservation[r].settled < Hold[r]
      /\ l \in D <=> reservation[r].status \in {"released", "expired"}
      /\ h \in D => ledger[h] = -Hold[r]
      /\ s \in D => ledger[s] = Hold[r] - reservation[r].settled
      /\ l \in D => ledger[l] = Hold[r]
  BY <1>2 DEF Booked, h, s, l
<1>8. SumOf({HoldKey(r), SettlementKey(r), ReleaseKey(r)}) = Sum(ledger, {h, s, l} \cap D)
  BY DEF SumOf, Sum, h, s, l
<1> HIDE DEF D
<1> QED BY <1>4, <1>5, <1>6, <1>7, <1>8

-----------------------------------------------------------------------------
(* The entries that count against an overspend: receipts and holds. *)
Spendable == {key \in DOMAIN ledger : ledger[key] > 0 \/ key[1] = "hold"}

Covered == Sum(ledger, Spendable) >= 0

(* What is available is what is spendable and what was taken regardless. *)
LEMMA AvailableSplits ==
    ASSUME LedgerSound
    PROVE  /\ Sum(ledger, Spendable) \in Int /\ SumOf(Unconditional) \in Int
           /\ SumOf(Unconditional) <= 0
           /\ Available = SumOf(Unconditional) + Sum(ledger, Spendable)
<1> DEFINE D == DOMAIN ledger
<1>1. IsFiniteSet(D) /\ \A k \in D : ledger[k] \in Int /\ ledger[k] # 0
  BY DEF LedgerSound
<1>2. /\ D \cap D = D
      /\ Unconditional \cap D = D \cap Unconditional
      /\ D \ Unconditional = Spendable
      /\ Spendable \subseteq D
  BY <1>1 DEF Spendable, Unconditional
<1>3. /\ Available = Sum(ledger, D)
      /\ SumOf(Unconditional) = Sum(ledger, D \cap Unconditional)
      /\ Sum(ledger, D \ Unconditional) = Sum(ledger, Spendable)
  BY <1>2, Zenon DEF Available, SumOf, Sum
<1>4. Sum(ledger, D) = Sum(ledger, D \cap Unconditional) + Sum(ledger, D \ Unconditional)
  BY <1>1, SumSplit
<1>5. Sum(ledger, D \cap Unconditional) \in Int /\ Sum(ledger, D \cap Unconditional) <= 0
  <2>1. /\ IsFiniteSet(D \cap Unconditional)
        /\ \A k \in D \cap Unconditional : ledger[k] \in Int /\ ledger[k] <= 0
    BY <1>1, FS_Subset DEF Unconditional
  <2> QED BY <2>1, SumOfNegatives
<1>6. Sum(ledger, Spendable) \in Int
  <2>1. IsFiniteSet(Spendable) /\ \A k \in Spendable : ledger[k] \in Int
    BY <1>1, <1>2, FS_Subset
  <2> QED BY <2>1, SumTyped
<1> HIDE DEF D
<1> QED BY <1>3, <1>4, <1>5, <1>6

(* Holds that are covered do not overdraw the account. *)
LEMMA CoveredIsEnough ==
    ASSUME LedgerSound, Covered
    PROVE  NoOverspend
BY AvailableSplits DEF Covered, NoOverspend

(* An entry of what can be spent keeps the holds covered. *)
LEMMA EntryCovered ==
    ASSUME LedgerSound, Covered, NEW key, NEW units \in Int \ {0}, Enter(key, units),
           units > 0 \/ key[1] # "hold" \/ Sum(ledger, Spendable) + units >= 0
    PROVE  Covered'
<1>1. CASE key \in DOMAIN ledger
  <2>1. ledger' = ledger
    BY <1>1, EntryEntered
  <2>2. Spendable' = Spendable
    BY <2>1 DEF Spendable
  <2>3. Sum(ledger', Spendable') = Sum(ledger, Spendable)
    BY <2>1, <2>2, Zenon
  <2> QED BY <2>3 DEF Covered
<1>2. CASE key \notin DOMAIN ledger
  <2> DEFINE K == Spendable'
  <2>1. /\ DOMAIN ledger' = DOMAIN ledger \cup {key} /\ ledger'[key] = units
        /\ \A k \in DOMAIN ledger : ledger'[k] = ledger[k]
    BY <1>2, EntryEntered
  <2>2. K \cap DOMAIN ledger = Spendable /\ K \cap DOMAIN ledger' = K
    BY <1>2, <2>1 DEF Spendable
  <2>3. key \in K <=> units > 0 \/ key[1] = "hold"
    BY <1>2, <2>1 DEF Spendable
  <2> HIDE DEF K
  <2>4. /\ Sum(ledger, K \cap DOMAIN ledger) \in Int
        /\ Sum(ledger', K \cap DOMAIN ledger') =
             Sum(ledger, K \cap DOMAIN ledger) +
             (IF key \in K \ DOMAIN ledger THEN units ELSE 0)
    BY EntryCounts
  <2>5. /\ Sum(ledger, K \cap DOMAIN ledger) = Sum(ledger, Spendable)
        /\ Sum(ledger', K \cap DOMAIN ledger') = Sum(ledger', K)
    BY <2>2, Zenon
  <2>6. Sum(ledger', K) >= 0
    BY <1>2, <2>3, <2>4, <2>5 DEF Covered
  <2> QED BY <2>6 DEF Covered, K
<1> QED BY <1>1, <1>2

-----------------------------------------------------------------------------
(* An entry that is about no reservation leaves the bookings alone. *)
LEMMA OtherEntriesBooked ==
    ASSUME LedgerSound, HoldsBooked, UNCHANGED reservation,
           NEW key, NEW units \in Int \ {0}, Enter(key, units),
           key[1] \notin {"hold", "settlement", "release"}
    PROVE  HoldsBooked'
<1> SUFFICES ASSUME NEW r \in Reservation PROVE Booked(r)'
  BY DEF HoldsBooked
<1>1. Booked(r)
  BY DEF HoldsBooked
<1>2. key # HoldKey(r) /\ key # SettlementKey(r) /\ key # ReleaseKey(r)
  <2>1. HoldKey(r)[1] = "hold" /\ SettlementKey(r)[1] = "settlement" /\ ReleaseKey(r)[1] = "release"
    BY DEF HoldKey, SettlementKey, ReleaseKey
  <2> QED BY <2>1
<1>3. /\ DOMAIN ledger' = DOMAIN ledger \cup {key}
      /\ \A k \in DOMAIN ledger : ledger'[k] = ledger[k]
  BY EntryEntered
<1>4. HoldKey(r)' = HoldKey(r) /\ SettlementKey(r)' = SettlementKey(r) /\ ReleaseKey(r)' = ReleaseKey(r)
  BY DEF HoldKey, SettlementKey, ReleaseKey
<1> QED BY <1>1, <1>2, <1>3, <1>4 DEF Booked

(* A step of one reservation leaves the bookings of the others alone. *)
LEMMA OthersStayBooked ==
    ASSUME LedgerSound, HoldsBooked, NEW s \in Reservation, NEW units \in Int \ {0},
           \/ ledger' = ledger
           \/ \E key \in {HoldKey(s), SettlementKey(s), ReleaseKey(s)} : Enter(key, units),
           \A r \in Reservation \ {s} : reservation'[r] = reservation[r],
           Booked(s)'
    PROVE  HoldsBooked'
<1> SUFFICES ASSUME NEW r \in Reservation, r # s PROVE Booked(r)'
  BY DEF HoldsBooked
<1>1. Booked(r) /\ reservation'[r] = reservation[r]
  BY DEF HoldsBooked
<1>2. CASE ledger' = ledger
  BY <1>1, <1>2 DEF Booked, HoldKey, SettlementKey, ReleaseKey
<1>3. ASSUME NEW key \in {HoldKey(s), SettlementKey(s), ReleaseKey(s)}, Enter(key, units)
      PROVE  Booked(r)'
  <2>1. key # HoldKey(r) /\ key # SettlementKey(r) /\ key # ReleaseKey(r)
    BY <1>3 DEF HoldKey, SettlementKey, ReleaseKey
  <2>2. /\ DOMAIN ledger' = DOMAIN ledger \cup {key}
        /\ \A k \in DOMAIN ledger : ledger'[k] = ledger[k]
    BY <1>3, EntryEntered
  <2>3. /\ HoldKey(r)' = HoldKey(r) /\ SettlementKey(r)' = SettlementKey(r)
        /\ ReleaseKey(r)' = ReleaseKey(r)
    BY DEF HoldKey, SettlementKey, ReleaseKey
  <2> QED BY <1>1, <2>1, <2>2, <2>3 DEF Booked
<1> QED BY <1>2, <1>3

LedgerInv == LedgerSound /\ ReservationsTyped /\ HoldsBooked /\ Covered

(* The keys of two reservations, and of one of them, differ. *)
LEMMA KeysApart ==
    ASSUME NEW r
    PROVE  /\ HoldKey(r) # SettlementKey(r) /\ HoldKey(r) # ReleaseKey(r)
           /\ SettlementKey(r) # ReleaseKey(r)
           /\ HoldKey(r)[1] = "hold" /\ SettlementKey(r)[1] # "hold" /\ ReleaseKey(r)[1] # "hold"
BY DEF HoldKey, SettlementKey, ReleaseKey

(* reserveCredits. *)
LEMMA ReserveKeepsLedger ==
    ASSUME LedgerInv, NEW s \in Reservation, Reserve(s)
    PROVE  LedgerInv'
<1> USE DEF LedgerInv
<1>1. Hold[s] \in Nat \ {0} /\ -Hold[s] \in Int \ {0}
  BY LedgerAssumption
<1>2. /\ Booked(s) /\ reservation[s].status = "none" /\ HoldKey(s) \notin DOMAIN ledger
      /\ Available >= Hold[s] /\ Enter(HoldKey(s), -Hold[s])
      /\ reservation' = [reservation EXCEPT ![s].status = "active"]
  BY DEF Reserve, HoldsBooked, Booked
<1>3. ReservationsTyped'
  BY <1>2 DEF ReservationsTyped, ReservationRow, Closed
<1>4. /\ LedgerSound' /\ DOMAIN ledger' = DOMAIN ledger \cup {HoldKey(s)}
      /\ \A k \in DOMAIN ledger : ledger'[k] = ledger[k]
      /\ ledger'[HoldKey(s)] = -Hold[s]
  BY <1>1, <1>2, EntryEntered
<1>5. /\ reservation'[s].status = "active" /\ reservation'[s].settled = reservation[s].settled
      /\ \A r \in Reservation \ {s} : reservation'[r] = reservation[r]
  BY <1>2 DEF ReservationsTyped, ReservationRow
<1>6. Booked(s)'
  <2>1. /\ HoldKey(s)' = HoldKey(s) /\ SettlementKey(s)' = SettlementKey(s)
        /\ ReleaseKey(s)' = ReleaseKey(s)
    BY DEF HoldKey, SettlementKey, ReleaseKey
  <2> QED BY <1>2, <1>4, <1>5, <2>1, KeysApart DEF Booked
<1>7. HoldsBooked'
  BY <1>1, <1>2, <1>5, <1>6, OthersStayBooked
<1>8. Covered'
  <2>1. Sum(ledger, Spendable) + -Hold[s] >= 0
    BY <1>1, <1>2, AvailableSplits
  <2> QED BY <1>1, <1>2, <2>1, EntryCovered
<1> QED BY <1>3, <1>4, <1>7, <1>8

(* settleCreditReservation. *)
LEMMA SettleKeepsLedger ==
    ASSUME LedgerInv, NEW s \in Reservation, NEW used \in 0 .. Hold[s], Settle(s, used)
    PROVE  LedgerInv'
<1> USE DEF LedgerInv
<1>1. Hold[s] \in Nat \ {0} /\ used \in Nat /\ used <= Hold[s]
  BY LedgerAssumption
<1>2. /\ Booked(s) /\ reservation[s].status = "active"
      /\ SettlementKey(s) \notin DOMAIN ledger
      /\ reservation' = [reservation EXCEPT ![s].status = "settled", ![s].settled = used]
  BY DEF Settle, HoldsBooked, Booked
<1>3. ReservationsTyped'
  BY <1>1, <1>2 DEF ReservationsTyped, ReservationRow, Closed
<1>4. /\ reservation'[s].status = "settled" /\ reservation'[s].settled = used
      /\ \A r \in Reservation \ {s} : reservation'[r] = reservation[r]
  BY <1>2 DEF ReservationsTyped, ReservationRow
<1>5. /\ HoldKey(s)' = HoldKey(s) /\ SettlementKey(s)' = SettlementKey(s)
      /\ ReleaseKey(s)' = ReleaseKey(s)
  BY DEF HoldKey, SettlementKey, ReleaseKey
<1>6. CASE used < Hold[s]
  <2> DEFINE units == Hold[s] - used
  <2>1. Enter(SettlementKey(s), units) /\ units \in Int \ {0} /\ units > 0
    BY <1>1, <1>6 DEF Settle
  <2> HIDE DEF units
  <2>2. /\ LedgerSound' /\ DOMAIN ledger' = DOMAIN ledger \cup {SettlementKey(s)}
        /\ \A k \in DOMAIN ledger : ledger'[k] = ledger[k]
        /\ ledger'[SettlementKey(s)] = units
    BY <1>2, <2>1, EntryEntered
  <2>3. Booked(s)'
    BY <1>1, <1>2, <1>4, <1>5, <1>6, <2>2, KeysApart DEF Booked, units
  <2>4. HoldsBooked'
    BY <1>4, <2>1, <2>3, OthersStayBooked
  <2>5. Covered'
    BY <2>1, EntryCovered
  <2> QED BY <1>3, <2>2, <2>4, <2>5
<1>7. CASE ~(used < Hold[s])
  <2>1. ledger' = ledger
    BY <1>7 DEF Settle
  <2>2. Booked(s)'
    BY <1>1, <1>2, <1>4, <1>5, <1>7, <2>1 DEF Booked
  <2>3. HoldsBooked'
    <3>1. 1 \in Int \ {0}
      OBVIOUS
    <3> QED BY <1>4, <2>1, <2>2, <3>1, OthersStayBooked
  <2>4. LedgerSound' /\ Covered'
    BY <2>1 DEF LedgerSound, Covered, Spendable
  <2> QED BY <1>3, <2>3, <2>4
<1> QED BY <1>6, <1>7

(* releaseCreditReservation and the expiry batch. *)
LEMMA CloseKeepsLedger ==
    ASSUME LedgerInv, NEW s \in Reservation, NEW status \in {"released", "expired"},
           MayClose(s), Close(s, status)
    PROVE  LedgerInv'
<1> USE DEF LedgerInv
<1>1. Hold[s] \in Int \ {0} /\ Hold[s] > 0
  BY LedgerAssumption
<1>2. /\ Booked(s) /\ reservation[s].status = "active" /\ ReleaseKey(s) \notin DOMAIN ledger
      /\ reservation' = [reservation EXCEPT ![s].status = status]
      /\ Enter(ReleaseKey(s), Hold[s])
  BY DEF Close, MayClose, HoldsBooked, Booked
<1>3. ReservationsTyped'
  BY <1>2 DEF ReservationsTyped, ReservationRow, Closed
<1>4. /\ reservation'[s].status = status /\ reservation'[s].settled = reservation[s].settled
      /\ \A r \in Reservation \ {s} : reservation'[r] = reservation[r]
  BY <1>2 DEF ReservationsTyped, ReservationRow
<1>5. /\ LedgerSound' /\ DOMAIN ledger' = DOMAIN ledger \cup {ReleaseKey(s)}
      /\ \A k \in DOMAIN ledger : ledger'[k] = ledger[k]
      /\ ledger'[ReleaseKey(s)] = Hold[s]
  BY <1>1, <1>2, EntryEntered
<1>6. Booked(s)'
  <2>1. /\ HoldKey(s)' = HoldKey(s) /\ SettlementKey(s)' = SettlementKey(s)
        /\ ReleaseKey(s)' = ReleaseKey(s)
    BY DEF HoldKey, SettlementKey, ReleaseKey
  <2> QED BY <1>2, <1>4, <1>5, <2>1, KeysApart DEF Booked
<1>7. HoldsBooked'
  BY <1>1, <1>2, <1>4, <1>6, OthersStayBooked
<1>8. Covered'
  BY <1>1, <1>2, EntryCovered
<1> QED BY <1>3, <1>5, <1>7, <1>8

(* A deadline that passes moves nothing. *)
LEMMA LapseKeepsLedger ==
    ASSUME LedgerInv, NEW s \in Reservation, Lapse(s)
    PROVE  LedgerInv'
<1> USE DEF LedgerInv
<1>1. ledger' = ledger /\ reservation' = [reservation EXCEPT ![s].lapsed = TRUE]
  BY DEF Lapse
<1>2. ReservationsTyped'
  BY <1>1 DEF ReservationsTyped, ReservationRow
<1>3. \A r \in Reservation : /\ reservation'[r].status = reservation[r].status
                             /\ reservation'[r].settled = reservation[r].settled
  BY <1>1 DEF ReservationsTyped, ReservationRow
<1>4. HoldsBooked'
  BY <1>1, <1>3 DEF HoldsBooked, Booked, HoldKey, SettlementKey, ReleaseKey
<1>5. LedgerSound' /\ Covered'
  BY <1>1 DEF LedgerSound, Covered, Spendable
<1> QED BY <1>2, <1>4, <1>5

(* An entry about no reservation, a receipt or an unconditional payment. *)
LEMMA OtherEntryKeepsLedger ==
    ASSUME LedgerInv, UNCHANGED reservation,
           NEW key, NEW units \in Int \ {0}, Enter(key, units),
           key[1] \notin {"hold", "settlement", "release"}
    PROVE  LedgerInv'
<1> USE DEF LedgerInv
<1>1. LedgerSound'
  BY EntryEntered
<1>2. HoldsBooked'
  BY OtherEntriesBooked
<1>3. Covered'
  BY EntryCovered
<1>4. ReservationsTyped'
  BY DEF ReservationsTyped
<1> QED BY <1>1, <1>2, <1>3, <1>4

(* Nothing moves. *)
LEMMA StillLedger ==
    ASSUME LedgerInv, UNCHANGED <<ledger, reservation>>
    PROVE  LedgerInv'
BY DEF LedgerInv, LedgerSound, ReservationsTyped, HoldsBooked, Booked, Covered, Spendable,
       HoldKey, SettlementKey, ReleaseKey

(* Every step of a reservation. *)
LEMMA ReservationKeepsLedger ==
    ASSUME LedgerInv, NEW s \in Reservation, ReservationNext(s)
    PROVE  LedgerInv'
<1>1. CASE Reserve(s)
  BY <1>1, ReserveKeepsLedger
<1>2. ASSUME NEW used \in 0 .. Hold[s], Settle(s, used) PROVE LedgerInv'
  BY <1>2, SettleKeepsLedger
<1>3. CASE Release(s)
  BY <1>3, CloseKeepsLedger DEF Release
<1>4. CASE Lapse(s)
  BY <1>4, LapseKeepsLedger
<1>5. CASE VisitExpired(s)
  BY <1>5, CloseKeepsLedger, StillLedger DEF VisitExpired
<1> QED BY <1>1, <1>2, <1>3, <1>4, <1>5 DEF ReservationNext

-----------------------------------------------------------------------------
(* Shares of a refund.                                                     *)

(* A quotient is the last multiple that is not beyond. *)
LEMMA QuotientBound ==
    ASSUME NEW d \in Nat \ {0}, NEW n \in Nat, NEW k \in Nat, n < d * k + d
    PROVE  n \div d \in Nat /\ n \div d <= k
<1> DEFINE q == n \div d
<1>1. q \in Nat /\ n = d * q + (n % d) /\ n % d \in 0 .. d - 1
  OBVIOUS
<1> HIDE DEF q
<1>2. q <= k
  <2>1. SUFFICES ASSUME k + 1 <= q PROVE FALSE
    BY <1>1
  <2>2. PICK m \in Nat : q = k + 1 + m
    <3>1. q - (k + 1) \in Nat /\ q = k + 1 + (q - (k + 1))
      BY <1>1, <2>1
    <3> QED BY <3>1
  <2>3. d * q = d * k + d + d * m /\ d * m \in Nat /\ d * k \in Nat
    BY <2>2
  <2> QED BY <1>1, <2>3
<1> QED BY <1>1, <1>2 DEF q

(* More, divided by the same, is no less. *)
LEMMA QuotientMonotone ==
    ASSUME NEW d \in Nat \ {0}, NEW m \in Nat, NEW n \in Nat, m <= n
    PROVE  m \div d <= n \div d
<1> DEFINE q == n \div d
<1>1. q \in Nat /\ n = d * q + (n % d) /\ n % d \in 0 .. d - 1
  OBVIOUS
<1>2. m < d * q + d
  <2> d * q \in Nat
    BY <1>1
  <2> HIDE DEF q
  <2> QED BY <1>1
<1> HIDE DEF q
<1>3. m \div d <= q
  BY <1>1, <1>2, QuotientBound
<1> QED BY <1>3 DEF q

(* A share of the units is none too many, and more for more money. *)
LEMMA ShareBounded ==
    ASSUME NEW amount \in Nat
    PROVE  ProportionalUnits(amount) \in 0 .. Units
<1>1. Units \in Nat \ {0} /\ Total \in Nat
  BY PaymentsAssumption
<1>2. CASE amount >= Total
  BY <1>1, <1>2 DEF ProportionalUnits
<1>3. CASE amount < Total
  <2> DEFINE n == amount * Units + Total - 1
  <2>1. Total \in Nat \ {0} /\ amount * Units \in Nat
    BY <1>1, <1>3
  <2>2. n \in Nat
    BY <2>1
  <2>3. PICK d \in Nat : Total = amount + 1 + d
    <3>1. Total - (amount + 1) \in Nat /\ Total = amount + 1 + (Total - (amount + 1))
      BY <1>1, <1>3
    <3> QED BY <3>1
  <2>4. Total * Units = amount * Units + Units + d * Units /\ d * Units \in Nat
    BY <1>1, <2>3
  <2>5. n < Total * Units + Total
    BY <1>1, <2>1, <2>4
  <2> HIDE DEF n
  <2>6. n \div Total \in Nat /\ n \div Total <= Units
    BY <1>1, <2>1, <2>2, <2>5, QuotientBound
  <2> QED BY <1>1, <1>3, <2>6 DEF ProportionalUnits, n
<1> QED BY <1>1, <1>2, <1>3

(* More of the money never takes back fewer units. *)
LEMMA ShareMonotone ==
    ASSUME NEW a \in Nat, NEW b \in Nat, a <= b
    PROVE  ProportionalUnits(a) <= ProportionalUnits(b)
<1>1. Units \in Nat \ {0} /\ Total \in Nat
  BY PaymentsAssumption
<1>2. CASE b >= Total
  BY <1>1, <1>2, ShareBounded DEF ProportionalUnits
<1>3. CASE b < Total
  <2> DEFINE m == a * Units + Total - 1
             n == b * Units + Total - 1
  <2>1. PICK d \in Nat : b = a + d
    <3>1. b - a \in Nat /\ b = a + (b - a)
      OBVIOUS
    <3> QED BY <3>1
  <2>2. b * Units = a * Units + d * Units /\ a * Units \in Nat /\ d * Units \in Nat
    BY <1>1, <2>1
  <2>3. Total \in Nat \ {0} /\ a < Total
    BY <1>1, <1>3
  <2>4. m \in Nat /\ n \in Nat /\ m <= n
    BY <2>2, <2>3
  <2> HIDE DEF m, n
  <2>5. m \div Total <= n \div Total
    BY <2>3, <2>4, QuotientMonotone
  <2> QED BY <1>3, <2>3, <2>5 DEF ProportionalUnits, m, n
<1> QED BY <1>1, <1>2, <1>3

(* What some adjustments give back, and what more of them do. *)
LEMMA AmountsGrow ==
    ASSUME NEW S, NEW T, IsFiniteSet(T), S \subseteq T, T \subseteq Adjustment
    PROVE  /\ Sum(Amount, S) \in Nat /\ Sum(Amount, T) \in Nat
           /\ Sum(Amount, S) <= Sum(Amount, T)
<1>1. /\ IsFiniteSet(S) /\ IsFiniteSet(T \ S)
      /\ \A a \in T : Amount[a] \in Nat /\ Amount[a] \in Int
  BY PaymentsAssumption, FS_Subset
<1>2. Sum(Amount, S) \in Nat /\ Sum(Amount, T) \in Nat /\ Sum(Amount, T \ S) \in Nat
  BY <1>1, SumOfNaturals
<1>3. Sum(Amount, T) = Sum(Amount, T \cap S) + Sum(Amount, T \ S)
  BY <1>1, SumSplit
<1>4. Sum(Amount, T \cap S) = Sum(Amount, S)
  <2>1. T \cap S = S
    OBVIOUS
  <2> QED BY <2>1, Zenon
<1> QED BY <1>2, <1>3, <1>4

-----------------------------------------------------------------------------
(* The purchase, its adjustments and the inbox.                            *)

PurchaseRow == [status |-> purchase.status, tx |-> purchase.tx,
                credited |-> purchase.credited, refunded |-> purchase.refunded]

(* A credited row carries the transaction it was credited for and left the *)
(* statuses the creating request may overwrite.                            *)
CreditedRow ==
    /\ purchase = PurchaseRow
    /\ purchase.credited \in BOOLEAN
    /\ purchase.credited => purchase.status \in AfterCredit /\ purchase.tx # Nobody

KeepsCredit ==
    purchase.credited =>
      /\ purchase'.credited /\ purchase'.tx = purchase.tx
      /\ purchase'.status \in AfterCredit

KeepsClosed ==
    \A r \in Reservation : reservation[r].status \in Closed =>
      /\ reservation'[r].status = reservation[r].status
      /\ reservation'[r].settled = reservation[r].settled

-----------------------------------------------------------------------------
(* One processed event keeps a credited purchase credited. *)
LEMMA ProcessKeepsCredit ==
    ASSUME CreditedRow, NEW e \in Event, Process(e)
    PROVE  CreditedRow' /\ KeepsCredit
<1>1. e.of # Nobody
  BY PaymentsAssumption
<1>2. CASE UNCHANGED purchase
  BY <1>2 DEF CreditedRow, KeepsCredit, PurchaseRow, AfterCredit
<1>3. CASE Credit(e)
  <2>1. purchase' = [purchase EXCEPT !.tx = e.of, !.status = "completed", !.credited = TRUE]
    BY <1>3 DEF Credit
  <2>2. purchase.tx \in {Nobody, e.of}
    BY <1>3 DEF Credit, Foreign
  <2> QED BY <1>1, <2>1, <2>2 DEF CreditedRow, KeepsCredit, PurchaseRow, AfterCredit
<1>4. CASE Debit(e)
  <2> DEFINE refunded == purchase.refunded + DebitedUnits(e)
  <2> DEFINE status == IF RefundTarget(e) = Units THEN "refunded" ELSE "partially_refunded"
  <2>1. purchase' = [purchase EXCEPT !.refunded = refunded, !.status = status]
    BY <1>4 DEF Debit
  <2>2. status \in AfterCredit
    BY DEF AfterCredit
  <2> HIDE DEF refunded, status
  <2>3. purchase' = [status |-> status, tx |-> purchase.tx,
                     credited |-> purchase.credited, refunded |-> refunded]
    BY <2>1 DEF CreditedRow, PurchaseRow
  <2> QED BY <2>2, <2>3 DEF CreditedRow, KeepsCredit, PurchaseRow
<1> QED
  BY <1>2, <1>3, <1>4
  DEF Process, Repeat, Subscribe, Refuse, Defer, Ignore, Note, moneyVars

(* The creating request finds a credited row no longer its own. *)
LEMMA CheckoutKeepsCredit ==
    ASSUME CreditedRow, Checkout
    PROVE  CreditedRow' /\ KeepsCredit
BY DEF Checkout, InsertPurchase, PaddleAnswers, RecordTransaction, RecordFailure,
       StillCreating, CreditedRow, KeepsCredit, PurchaseRow, AfterCredit, moneyVars

(* Every step leaves the scenario alone. *)
LEMMA ScenarioStays ==
    ASSUME [Next]_vars
    PROVE  UNCHANGED scenario
BY DEF Next, Checkout, Ingest, RouteProcess, Process, StartPass, PassProcess, EngineDies,
       Spending, vars

(* Every step. *)
LEMMA StepKeepsCredit ==
    ASSUME scenario \in Scenario, CreditedRow, [Next]_vars
    PROVE  CreditedRow' /\ KeepsCredit
<1>1. CASE Checkout
  BY <1>1, CheckoutKeepsCredit
<1>2. ASSUME NEW e \in Event, Process(e) PROVE CreditedRow' /\ KeepsCredit
  BY <1>2, ProcessKeepsCredit
<1>3. CASE UNCHANGED purchase
  BY <1>3 DEF CreditedRow, KeepsCredit, PurchaseRow
<1>4. CASE UNCHANGED vars
  BY <1>3, <1>4 DEF vars
<1>5. CASE \E e \in scenario.events : Ingest(e) \/ RouteProcess(e)
  <2>1. scenario.events \subseteq Event
    BY PaymentsAssumption
  <2> QED BY <2>1, <1>2, <1>3, <1>5 DEF Ingest, RouteProcess
<1>6. CASE StartPass \/ PassProcess \/ EngineDies \/ Spending
  BY <1>2, <1>3, <1>6 DEF StartPass, PassProcess, EngineDies, Spending
<1> QED BY <1>1, <1>4, <1>5, <1>6 DEF Next

(* A set of positions has a least one ... *)
LEMMA LeastIndex ==
  ASSUME NEW I, NEW n \in Nat, I \subseteq 1 .. n, I # {}
  PROVE  Min(I) \in I
<1> DEFINE Less == {ss \in Nat \X Nat : ss[1] < ss[2]}
<1>1. IsWellFoundedOn(Less, Nat)
  BY ONLY NatLessThanWellFounded, Zenon DEF OpToRel
<1>2. PICK i \in I : \A j \in I : ~(<<j, i>> \in Less)
  <2>1. I \subseteq Nat
    OBVIOUS
  <2> HIDE DEF Less
  <2> QED BY <1>1, <2>1, WFMin
<1>3. ASSUME NEW j \in I PROVE i <= j
  <2>1. i \in Nat /\ j \in Nat /\ (j < i => <<j, i>> \in Less)
    OBVIOUS
  <2> HIDE DEF Less
  <2> QED BY <1>2, <2>1
<1> QED BY <1>3 DEF Min

(* ... so the library removes an event from a queue of events. *)
LEMMA RemoveFirstTyped ==
  ASSUME NEW S, NEW s \in Seq(S), NEW e
  PROVE  RemoveFirst(s, e) \in Seq(S)
<1> DEFINE I == {i \in 1 .. Len(s) : s[i] = e}
<1>1. CASE I = {}
  BY <1>1 DEF RemoveFirst
<1>2. CASE I # {}
  <2>1. Min(I) \in 1 .. Len(s)
    <3>1. Len(s) \in Nat /\ I \subseteq 1 .. Len(s)
      OBVIOUS
    <3> QED BY <3>1, <1>2, LeastIndex
  <2>2. RemoveFirst(s, e) = RemoveAt(s, Min(I))
    BY <1>2 DEF RemoveFirst, SelectInSeq
  <2> HIDE DEF I
  <2> QED BY <2>1, <2>2 DEF RemoveAt
<1> QED BY <1>1, <1>2
-----------------------------------------------------------------------------
(* Types.  What waits, and what a pass has listed, came in this life. *)
QueuesTyped == queue \in Seq(scenario.events) /\ pass \in Seq(scenario.events)

PurchaseTyped ==
    purchase \in [status : {"none", "creating", "pending", "failed"} \cup AfterCredit,
                  tx : {Nobody, Transaction} \cup {e.of : e \in Event},
                  credited : BOOLEAN, refunded : 0 .. Units]

AdjustmentsTyped ==
    adjustment \in [Adjustment -> [status : {"none", "pending_approval", "approved", "rejected"},
                                   at : Nat]]

InboxTyped == event \in [Event -> {"absent", "waiting", "processed", "failed"}]

OwnerTyped == owner \in {Nobody} \cup {e.of : e \in Event}

(* The events of a life are of the types the assumption gives them. *)
LEMMA EventsOfLife ==
    ASSUME scenario \in Scenario
    PROVE  scenario.events \subseteq Event /\ scenario.holds \subseteq Reservation
BY PaymentsAssumption

(* setEventStatus. *)
LEMMA StatusSet ==
    ASSUME InboxTyped, QueuesTyped, NEW e \in Event,
           NEW status \in {"processed", "failed"}, SetEventStatus(e, status)
    PROVE  InboxTyped' /\ queue' \in Seq(scenario.events)
BY RemoveFirstTyped DEF SetEventStatus, InboxTyped, QueuesTyped

(* What a processed event may do to the inbox. *)
LEMMA ProcessInbox ==
    ASSUME InboxTyped, QueuesTyped, NEW e \in Event, Process(e)
    PROVE  InboxTyped' /\ queue' \in Seq(scenario.events)
<1>1. CASE UNCHANGED inboxVars
  BY <1>1 DEF inboxVars, InboxTyped, QueuesTyped
<1>2. CASE \E status \in {"processed", "failed"} : SetEventStatus(e, status)
  BY <1>2, StatusSet
<1> QED
  BY <1>1, <1>2 DEF Process, Repeat, Subscribe, Refuse, Defer, Credit, Ignore, Note, Debit

(* What a processed event may do to the subscription. *)
LEMMA ProcessOwner ==
    ASSUME OwnerTyped, NEW e \in Event, Process(e)
    PROVE  OwnerTyped'
BY DEF OwnerTyped, Process, Repeat, Subscribe, Refuse, Defer, Credit, Ignore, Note, Debit

(* The adjustment row takes what the event says. *)
LEMMA AdjustmentRecorded ==
    ASSUME AdjustmentsTyped, NEW e \in Event, Applies(e), RecordAdjustment(e)
    PROVE  /\ AdjustmentsTyped' /\ e.of \in Adjustment
           /\ adjustment'[e.of] = [status |-> e.status, at |-> e.at]
           /\ \A a \in Adjustment \ {e.of} : adjustment'[a] = adjustment[a]
<1>1. /\ e.of \in Adjustment /\ e.at \in Nat
      /\ e.status \in {"pending_approval", "approved", "rejected"}
  BY PaymentsAssumption DEF Applies, Timely, Invalid
<1>2. adjustment' = [adjustment EXCEPT ![e.of] = [status |-> e.status, at |-> e.at]]
  BY DEF RecordAdjustment
<1> QED BY <1>1, <1>2 DEF AdjustmentsTyped

-----------------------------------------------------------------------------
(* The money of the purchase. *)
CreditKey == <<"purchase", purchase.tx>>

PurchaseBooked ==
    /\ {key \in DOMAIN ledger : key[1] = "purchase"} =
         IF purchase.credited THEN {CreditKey} ELSE {}
    /\ purchase.credited => ledger[CreditKey] = Units

RefundKeys == {RefundKey(a) : a \in Adjustment}

RefundBooked ==
    /\ IsFiniteSet(Approved)
    /\ \A a \in Adjustment : RefundKey(a) \in DOMAIN ledger => a \in Approved
    /\ purchase.refunded = IF Approved = {} THEN 0 ELSE ProportionalUnits(Sum(Amount, Approved))
    /\ purchase.refunded = -Sum(ledger, RefundKeys \cap DOMAIN ledger)

Accounted == LedgerInv /\ PurchaseTyped /\ CreditedRow /\ AdjustmentsTyped
             /\ PurchaseBooked /\ RefundBooked

(* What was entered for the purchase is what its row says. *)
LEMMA AccountedIsExact ==
    ASSUME Accounted
    PROVE  CreditedOnce /\ RefundExact
<1> USE DEF Accounted
<1>1. CreditedOnce
  <2> DEFINE K == {key \in DOMAIN ledger : key[1] = "purchase"}
  <2>1. K \cap DOMAIN ledger = K
    OBVIOUS
  <2>2. SumOf(K) = Sum(ledger, K)
    BY <2>1, Zenon DEF SumOf, Sum
  <2>3. CASE purchase.credited
    <3>1. K = {CreditKey} /\ ledger[CreditKey] = Units /\ Units \in Int
      BY <2>3, PaymentsAssumption DEF PurchaseBooked
    <3>2. Sum(ledger, {CreditKey}) = ledger[CreditKey] + Sum(ledger, {CreditKey} \ {CreditKey})
      <4> HIDE DEF Accounted
      <4> DEFINE k == CreditKey
      <4> HIDE DEF k
      <4>1. IsFiniteSet({k})
        BY FS_Singleton
      <4>2. Sum(ledger, {k}) = ledger[k] + Sum(ledger, {k} \ {k})
        BY <3>1, <4>1, SumStep DEF k
      <4> QED BY <4>2 DEF k
    <3>3. {CreditKey} \ {CreditKey} = {}
      OBVIOUS
    <3>4. Sum(ledger, {CreditKey} \ {CreditKey}) = 0
      BY <3>3, SumEmpty, Zenon
    <3>5. Sum(ledger, K) = Sum(ledger, {CreditKey})
      BY <3>1, Zenon
    <3> HIDE DEF K
    <3> QED BY <2>2, <2>3, <3>1, <3>2, <3>4, <3>5 DEF CreditedOnce, K
  <2>4. CASE ~purchase.credited
    <3>1. K = {}
      BY <2>4 DEF PurchaseBooked
    <3>2. Sum(ledger, K) = 0
      BY <3>1, SumEmpty, Zenon
    <3> HIDE DEF K
    <3> QED BY <2>2, <2>4, <3>2 DEF CreditedOnce, K
  <2> QED BY <2>3, <2>4
<1>2. RefundExact
  BY DEF RefundExact, RefundBooked, SumOf, Sum, RefundKeys
<1> QED BY <1>1, <1>2

(* Entries of another kind do not touch what the purchase has entered. *)
LEMMA OtherKindPurchase ==
    ASSUME LedgerSound, PurchaseBooked,
           purchase'.credited = purchase.credited, purchase'.tx = purchase.tx,
           NEW key, NEW units \in Int \ {0}, Enter(key, units), key[1] # "purchase"
    PROVE  PurchaseBooked'
<1>1. /\ DOMAIN ledger' = DOMAIN ledger \cup {key}
      /\ \A k \in DOMAIN ledger : ledger'[k] = ledger[k]
  BY EntryEntered
<1>2. CreditKey' = CreditKey
  BY DEF CreditKey
<1>3. {k \in DOMAIN ledger' : k[1] = "purchase"} = {k \in DOMAIN ledger : k[1] = "purchase"}
  BY <1>1
<1>4. purchase.credited => CreditKey \in DOMAIN ledger
  BY DEF PurchaseBooked
<1> QED BY <1>1, <1>2, <1>3, <1>4 DEF PurchaseBooked

(* The same of what was taken back. *)
LEMMA OtherKindRefund ==
    ASSUME LedgerSound, RefundBooked, UNCHANGED adjustment,
           purchase'.refunded = purchase.refunded,
           NEW key, NEW units \in Int \ {0}, Enter(key, units), key[1] # "refund"
    PROVE  RefundBooked'
<1>1. DOMAIN ledger' = DOMAIN ledger \cup {key}
  BY EntryEntered
<1>2. key \notin RefundKeys
  <2>1. \A a \in Adjustment : RefundKey(a)[1] = "refund"
    BY DEF RefundKey
  <2> QED BY <2>1 DEF RefundKeys
<1>3. Approved' = Approved
  BY DEF Approved
<1>4. /\ Sum(ledger, RefundKeys \cap DOMAIN ledger) \in Int
      /\ Sum(ledger', RefundKeys \cap DOMAIN ledger') =
           Sum(ledger, RefundKeys \cap DOMAIN ledger) + 0
  BY <1>2, EntryCounts
<1>5. RefundKeys' = RefundKeys /\ \A a \in Adjustment : RefundKey(a)' = RefundKey(a)
  BY DEF RefundKeys, RefundKey
<1>6. \A a \in Adjustment : RefundKey(a) \in DOMAIN ledger' => a \in Approved
  BY <1>1, <1>2 DEF RefundBooked, RefundKeys
<1> QED BY <1>3, <1>4, <1>5, <1>6 DEF RefundBooked

(* The kinds of keys. *)
LEMMA Kinds ==
    /\ \A r : HoldKey(r)[1] = "hold" /\ SettlementKey(r)[1] = "settlement"
              /\ ReleaseKey(r)[1] = "release"
    /\ \A k : MovementKey(k)[1] = "movement"
    /\ \A a : RefundKey(a)[1] = "refund"
    /\ \A e : PurchaseKey(e)[1] = "purchase"
BY DEF HoldKey, SettlementKey, ReleaseKey, MovementKey, RefundKey, PurchaseKey

(* Nothing moves. *)
LEMMA StillPurchase ==
    ASSUME UNCHANGED ledger, purchase'.credited = purchase.credited,
           purchase'.tx = purchase.tx, PurchaseBooked
    PROVE  PurchaseBooked'
BY DEF PurchaseBooked, CreditKey

(* Nothing is taken back and nothing approved. *)
LEMMA StillRefund ==
    ASSUME UNCHANGED ledger, purchase'.refunded = purchase.refunded,
           Approved' = Approved, RefundBooked
    PROVE  RefundBooked'
BY DEF RefundBooked, RefundKeys, RefundKey

-----------------------------------------------------------------------------
(* The outcomes of an event. *)
LEMMA CreditAccounted ==
    ASSUME Accounted, NEW e \in Event, Credit(e), UNCHANGED reservation
    PROVE  Accounted'
<1> USE DEF Accounted
<1>1. /\ e.of # Nobody /\ Units \in Int \ {0} /\ Units \in Nat
      /\ Enter(PurchaseKey(e), Units) /\ UNCHANGED adjustment
      /\ purchase' = [purchase EXCEPT !.tx = e.of, !.status = "completed", !.credited = TRUE]
      /\ purchase.tx \in {Nobody, e.of}
  BY PaymentsAssumption DEF Credit, Foreign
<1>2. LedgerInv'
  BY <1>1, Kinds, OtherEntryKeepsLedger
<1>3. PurchaseTyped'
  BY <1>1 DEF PurchaseTyped, AfterCredit
<1>4. purchase'.tx = e.of /\ purchase'.credited = TRUE /\ purchase'.refunded = purchase.refunded
  BY <1>1 DEF PurchaseTyped
<1>5. CreditedRow'
  BY <1>1, <1>3, <1>4 DEF CreditedRow, PurchaseRow, PurchaseTyped, AfterCredit
<1>6. AdjustmentsTyped'
  BY <1>1 DEF AdjustmentsTyped
<1>7. RefundBooked'
  BY <1>1, <1>4, Kinds, OtherKindRefund DEF LedgerInv
<1>8. PurchaseBooked'
  <2>1. CreditKey' = PurchaseKey(e)
    BY <1>4 DEF CreditKey, PurchaseKey
  <2>2. /\ DOMAIN ledger' = DOMAIN ledger \cup {PurchaseKey(e)}
        /\ \A k \in DOMAIN ledger : ledger'[k] = ledger[k]
        /\ PurchaseKey(e) \notin DOMAIN ledger => ledger'[PurchaseKey(e)] = Units
    BY <1>1, EntryEntered DEF LedgerInv
  <2>3. CASE purchase.credited
    <3>1. purchase.tx = e.of
      BY <1>1, <2>3 DEF CreditedRow
    <3>2. CreditKey = PurchaseKey(e)
      BY <3>1 DEF CreditKey, PurchaseKey
    <3>3. /\ {k \in DOMAIN ledger : k[1] = "purchase"} = {PurchaseKey(e)}
          /\ ledger[PurchaseKey(e)] = Units
      BY <2>3, <3>2 DEF PurchaseBooked
    <3> QED BY <1>4, <2>1, <2>2, <3>3 DEF PurchaseBooked
  <2>4. CASE ~purchase.credited
    <3>1. {k \in DOMAIN ledger : k[1] = "purchase"} = {}
      BY <2>4 DEF PurchaseBooked
    <3>2. PurchaseKey(e) \notin DOMAIN ledger
      BY <3>1, Kinds
    <3>3. {k \in DOMAIN ledger' : k[1] = "purchase"} = {PurchaseKey(e)}
      BY <2>2, <3>1, Kinds
    <3> QED BY <1>4, <2>1, <2>2, <3>2, <3>3 DEF PurchaseBooked
  <2> QED BY <2>3, <2>4
<1> QED BY <1>2, <1>3, <1>5, <1>6, <1>7, <1>8

(* An event that is noted approves nothing new and takes nothing back. *)
LEMMA NoteApprovesNothing ==
    ASSUME AdjustmentsTyped, NEW e \in Event, Note(e)
    PROVE  AdjustmentsTyped' /\ Approved' = Approved
<1>1. /\ AdjustmentsTyped' /\ e.of \in Adjustment
      /\ adjustment'[e.of] = [status |-> e.status, at |-> e.at]
      /\ \A a \in Adjustment \ {e.of} : adjustment'[a] = adjustment[a]
  BY AdjustmentRecorded DEF Note
<1>2. adjustment'[e.of].status = "approved" <=> adjustment[e.of].status = "approved"
  BY <1>1 DEF Note, Applies, Approves, Contradicts
<1> QED BY <1>1, <1>2 DEF Approved

(* An adjustment that changes nothing yet. *)
LEMMA NoteAccounted ==
    ASSUME Accounted, NEW e \in Event, Note(e), UNCHANGED reservation
    PROVE  Accounted'
<1> USE DEF Accounted
<1>1. UNCHANGED <<ledger, purchase>>
  BY DEF Note
<1>2. LedgerInv' /\ PurchaseTyped' /\ CreditedRow' /\ PurchaseBooked'
  BY <1>1, StillLedger, StillPurchase DEF PurchaseTyped, CreditedRow, PurchaseRow
<1>3. AdjustmentsTyped' /\ Approved' = Approved
  BY NoteApprovesNothing
<1> QED BY <1>1, <1>2, <1>3, StillRefund

(* The units to be taken back are some of the pack. *)
LEMMA TargetTyped ==
    ASSUME Accounted, NEW e \in Event, Timely(e)
    PROVE  /\ IsFiniteSet(Approved \cup {e.of}) /\ e.of \in Adjustment
           /\ RefundTarget(e) = ProportionalUnits(Sum(Amount, Approved \cup {e.of}))
           /\ RefundTarget(e) \in 0 .. Units /\ RefundTarget(e) \in Int
<1> USE DEF Accounted
<1>1. e.of \in Adjustment
  BY PaymentsAssumption DEF Timely
<1>2. IsFiniteSet(Approved \cup {e.of}) /\ Approved \cup {e.of} \subseteq Adjustment
  BY <1>1, FS_AddElement DEF RefundBooked, Approved
<1>3. Sum(Amount, Approved \cup {e.of}) \in Nat
  BY <1>2, AmountsGrow
<1>4. RefundTarget(e) = ProportionalUnits(Sum(Amount, Approved \cup {e.of}))
  BY DEF RefundTarget, Cumulative, Sum
<1>5. RefundTarget(e) \in 0 .. Units
  BY <1>3, <1>4, ShareBounded
<1>6. RefundTarget(e) \in Int
  BY <1>5
<1> QED BY <1>1, <1>2, <1>4, <1>5, <1>6

(* An adjustment that takes units back enters the difference. *)
LEMMA DebitAccounted ==
    ASSUME Accounted, NEW e \in Event, Debit(e), UNCHANGED reservation
    PROVE  Accounted'
<1> USE DEF Accounted
<1> DEFINE target == RefundTarget(e)
           debited == DebitedUnits(e)
           status == IF RefundTarget(e) = Units THEN "refunded" ELSE "partially_refunded"
<1>1. /\ Applies(e) /\ Approves(e) /\ Timely(e) /\ ~Exceeds(e)
      /\ purchase.credited
  BY DEF Debit, Applies, Timely, Premature
<1>2. /\ IsFiniteSet(Approved \cup {e.of}) /\ e.of \in Adjustment
      /\ target = ProportionalUnits(Sum(Amount, Approved \cup {e.of}))
      /\ target \in 0 .. Units /\ target \in Int
  BY <1>1, TargetTyped
<1>3. purchase.refunded \in Int /\ debited = target - purchase.refunded
  BY DEF PurchaseTyped, DebitedUnits
<1>4. debited \in Int /\ debited >= 0 /\ purchase.refunded + debited = target
  BY <1>1, <1>2, <1>3 DEF Exceeds
<1>5. purchase' = [purchase EXCEPT !.refunded = purchase.refunded + debited, !.status = status]
  BY DEF Debit
<1>6. IF debited > 0 THEN Enter(RefundKey(e.of), -debited) ELSE UNCHANGED ledger
  BY DEF Debit
<1>7. /\ AdjustmentsTyped'
      /\ adjustment'[e.of] = [status |-> e.status, at |-> e.at]
      /\ \A a \in Adjustment \ {e.of} : adjustment'[a] = adjustment[a]
  BY <1>1, AdjustmentRecorded DEF Debit
<1>8. Approved' = Approved \cup {e.of} /\ e.of \notin Approved
  BY <1>1, <1>2, <1>7 DEF Approved, Approves
<1> HIDE DEF target, debited, status
<1>9. status \in AfterCredit
  BY DEF AfterCredit, status
<1>10. /\ purchase'.refunded = target /\ purchase'.tx = purchase.tx
       /\ purchase'.credited = purchase.credited /\ purchase'.status = status
  BY <1>4, <1>5 DEF PurchaseTyped
<1>11. PurchaseTyped'
  BY <1>2, <1>4, <1>5, <1>9 DEF PurchaseTyped
<1>12. CreditedRow'
  BY <1>9, <1>10, <1>11 DEF CreditedRow, PurchaseRow, PurchaseTyped
<1>13. /\ IsFiniteSet(Approved')
       /\ purchase'.refunded = IF Approved' = {} THEN 0 ELSE ProportionalUnits(Sum(Amount, Approved'))
  <2>1. Approved' # {}
    BY <1>8
  <2>2. Sum(Amount, Approved') = Sum(Amount, Approved \cup {e.of})
    BY <1>8, Zenon
  <2> QED BY <1>2, <1>8, <1>10, <2>1, <2>2
<1>14. RefundKeys' = RefundKeys /\ \A a \in Adjustment : RefundKey(a)' = RefundKey(a)
  BY DEF RefundKeys, RefundKey
<1>15. CASE debited > 0
  <2> DEFINE key == RefundKey(e.of)
             units == -debited
  <2>1. Enter(key, units) /\ units \in Int \ {0} /\ key[1] = "refund"
    BY <1>4, <1>6, <1>15, Kinds
  <2>2. key \in RefundKeys \ DOMAIN ledger
    BY <1>2, <1>8 DEF RefundBooked, RefundKeys
  <2>3. DOMAIN ledger' = DOMAIN ledger \cup {key}
    BY <2>1, EntryEntered DEF LedgerInv
  <2> HIDE DEF key, units
  <2>4. LedgerInv'
    BY <2>1, OtherEntryKeepsLedger
  <2>5. PurchaseBooked'
    BY <1>10, <2>1, OtherKindPurchase DEF LedgerInv
  <2>6. /\ Sum(ledger, RefundKeys \cap DOMAIN ledger) \in Int
        /\ Sum(ledger', RefundKeys \cap DOMAIN ledger') =
             Sum(ledger, RefundKeys \cap DOMAIN ledger) + units
    BY <2>1, <2>2, EntryCounts DEF LedgerInv
  <2>7. purchase'.refunded = -Sum(ledger', RefundKeys \cap DOMAIN ledger')
    BY <1>3, <1>4, <1>10, <2>6 DEF RefundBooked, units
  <2>8. \A a \in Adjustment : RefundKey(a) \in DOMAIN ledger' => a \in Approved'
    <3>1. \A a \in Adjustment : RefundKey(a) = RefundKey(e.of) => a = e.of
      BY DEF RefundKey
    <3> QED BY <1>8, <2>3, <3>1 DEF RefundBooked, key
  <2>9. RefundBooked'
    BY <1>13, <1>14, <2>7, <2>8 DEF RefundBooked
  <2> QED BY <1>7, <1>11, <1>12, <2>4, <2>5, <2>9
<1>16. CASE ~(debited > 0)
  <2>1. ledger' = ledger /\ debited = 0
    BY <1>4, <1>6, <1>16
  <2>2. LedgerInv' /\ PurchaseBooked'
    BY <1>10, <2>1, StillLedger, StillPurchase
  <2>3. purchase'.refunded = -Sum(ledger', RefundKeys \cap DOMAIN ledger')
    BY <1>3, <1>4, <1>10, <2>1 DEF RefundBooked
  <2>4. RefundBooked'
    BY <1>8, <1>13, <1>14, <2>1, <2>3 DEF RefundBooked
  <2> QED BY <1>7, <1>11, <1>12, <2>2, <2>4
<1> QED BY <1>15, <1>16

(* A step that moves no money. *)
LEMMA StillAccounted ==
    ASSUME Accounted, UNCHANGED <<moneyVars, reservation>>
    PROVE  Accounted'
<1>1. UNCHANGED <<ledger, purchase, adjustment, reservation>>
  BY DEF moneyVars
<1>2. Approved' = Approved
  BY <1>1 DEF Approved
<1> QED
  BY <1>1, <1>2, StillLedger, StillPurchase, StillRefund
  DEF Accounted, PurchaseTyped, CreditedRow, PurchaseRow, AdjustmentsTyped

(* Every outcome of an event. *)
LEMMA ProcessAccounted ==
    ASSUME Accounted, NEW e \in Event, Process(e)
    PROVE  Accounted'
BY CreditAccounted, NoteAccounted, DebitAccounted, StillAccounted
DEF Process, Repeat, Subscribe, Refuse, Defer, Ignore

(* The request that creates the purchase moves no money. *)
LEMMA CheckoutAccounted ==
    ASSUME Accounted, Checkout
    PROVE  Accounted'
<1> USE DEF Accounted
<1>1. UNCHANGED <<ledger, adjustment, reservation>>
  BY DEF Checkout, InsertPurchase, PaddleAnswers, RecordTransaction, RecordFailure, moneyVars
<1>2. CreditedRow'
  BY CheckoutKeepsCredit
<1>3. CASE InsertPurchase
  <2>1. /\ PurchaseTyped' /\ purchase'.refunded = purchase.refunded
        /\ purchase'.credited = purchase.credited /\ purchase'.tx = purchase.tx
    BY <1>3 DEF InsertPurchase, PurchaseTyped, AfterCredit
  <2>2. PurchaseBooked' /\ RefundBooked' /\ LedgerInv'
    <3>1. Approved' = Approved
      BY <1>1 DEF Approved
    <3> QED BY <1>1, <2>1, <3>1, StillLedger, StillPurchase, StillRefund
  <2> QED BY <1>1, <1>2, <2>1, <2>2 DEF AdjustmentsTyped
<1>4. CASE RecordTransaction /\ StillCreating
  <2>1. purchase' = [purchase EXCEPT !.status = "pending", !.tx = Transaction]
    BY <1>4 DEF RecordTransaction
  <2>2. ~purchase.credited
    BY <1>4 DEF StillCreating, CreditedRow, AfterCredit
  <2>3. PurchaseTyped' /\ purchase'.refunded = purchase.refunded /\ ~purchase'.credited
    BY <2>1, <2>2 DEF PurchaseTyped, AfterCredit
  <2>4. PurchaseBooked'
    BY <1>1, <2>2, <2>3 DEF PurchaseBooked
  <2>5. RefundBooked' /\ LedgerInv'
    <3>1. Approved' = Approved
      BY <1>1 DEF Approved
    <3> QED BY <1>1, <2>3, <3>1, StillLedger, StillRefund
  <2> QED BY <1>1, <1>2, <2>3, <2>4, <2>5 DEF AdjustmentsTyped
<1>5. CASE RecordFailure /\ StillCreating
  <2>1. /\ PurchaseTyped' /\ purchase'.refunded = purchase.refunded
        /\ purchase'.credited = purchase.credited /\ purchase'.tx = purchase.tx
    BY <1>5 DEF RecordFailure, PurchaseTyped, AfterCredit
  <2>2. PurchaseBooked' /\ RefundBooked' /\ LedgerInv'
    <3>1. Approved' = Approved
      BY <1>1 DEF Approved
    <3> QED BY <1>1, <2>1, <3>1, StillLedger, StillPurchase, StillRefund
  <2> QED BY <1>1, <1>2, <2>1, <2>2 DEF AdjustmentsTyped
<1>6. CASE UNCHANGED purchase
  BY <1>1, <1>6, StillAccounted DEF moneyVars
<1> QED
  BY <1>3, <1>4, <1>5, <1>6
  DEF Checkout, PaddleAnswers, RecordTransaction, RecordFailure, moneyVars

(* Nor do the operations that hold and spend credits touch the purchase. *)
LEMMA ReservationAccounted ==
    ASSUME Accounted, NEW s \in Reservation, ReservationNext(s),
           UNCHANGED <<purchase, adjustment>>
    PROVE  Accounted'
<1> USE DEF Accounted
<1>1. LedgerInv'
  BY ReservationKeepsLedger
<1>2. PurchaseTyped' /\ CreditedRow' /\ AdjustmentsTyped' /\ Approved' = Approved
  BY DEF PurchaseTyped, CreditedRow, PurchaseRow, AdjustmentsTyped, Approved
<1>3. CASE UNCHANGED ledger
  BY <1>1, <1>2, <1>3, StillPurchase, StillRefund
<1>4. ASSUME NEW key, NEW units \in Int \ {0}, Enter(key, units),
             key[1] \notin {"purchase", "refund"}
      PROVE  Accounted'
  BY <1>1, <1>2, <1>4, OtherKindPurchase, OtherKindRefund DEF LedgerInv
<1>5. Hold[s] \in Nat \ {0} /\ -Hold[s] \in Int \ {0}
  BY LedgerAssumption
<1>6. CASE Reserve(s)
  BY <1>4, <1>5, <1>6, Kinds DEF Reserve
<1>7. ASSUME NEW used \in 0 .. Hold[s], Settle(s, used) PROVE Accounted'
  <2>1. used < Hold[s] => Hold[s] - used \in Int \ {0}
    BY <1>5
  <2> QED BY <1>3, <1>4, <1>7, <2>1, Kinds DEF Settle
<1>8. CASE Release(s) \/ VisitExpired(s)
  BY <1>3, <1>4, <1>5, <1>8, Kinds DEF Release, VisitExpired, Close
<1>9. CASE Lapse(s)
  BY <1>3, <1>9 DEF Lapse
<1> QED BY <1>6, <1>7, <1>8, <1>9 DEF ReservationNext

(* A movement of the ledger that is neither hold nor purchase. *)
LEMMA AdjustAccounted ==
    ASSUME Accounted, NEW k \in DOMAIN Movement, Adjust(k), UNCHANGED <<purchase, adjustment>>
    PROVE  Accounted'
<1> USE DEF Accounted
<1>1. Movement[k] \in Int \ {0} /\ Enter(MovementKey(k), Movement[k]) /\ UNCHANGED reservation
  BY LedgerAssumption DEF Adjust
<1>2. LedgerInv'
  BY <1>1, Kinds, OtherEntryKeepsLedger
<1>3. PurchaseBooked' /\ RefundBooked'
  BY <1>1, Kinds, OtherKindPurchase, OtherKindRefund DEF LedgerInv
<1> QED
  BY <1>2, <1>3 DEF PurchaseTyped, CreditedRow, PurchaseRow, AdjustmentsTyped

(* Every step keeps ledger, purchase and adjustments in agreement. *)
LEMMA StepAccounted ==
    ASSUME scenario \in Scenario, QueuesTyped, Accounted, [Next]_vars
    PROVE  Accounted'
<1>1. scenario.events \subseteq Event /\ scenario.holds \subseteq Reservation
  BY EventsOfLife
<1>2. CASE Checkout
  BY <1>2, CheckoutAccounted
<1>3. ASSUME NEW e \in scenario.events, Ingest(e) PROVE Accounted'
  BY <1>3, StillAccounted DEF Ingest, ledgerVars, moneyVars
<1>4. ASSUME NEW e \in scenario.events, RouteProcess(e) PROVE Accounted'
  BY <1>1, <1>4, ProcessAccounted DEF RouteProcess
<1>5. CASE PassProcess
  BY <1>5, ProcessAccounted DEF PassProcess
<1>6. CASE StartPass \/ EngineDies \/ UNCHANGED vars
  BY <1>6, StillAccounted DEF StartPass, EngineDies, vars, ledgerVars, moneyVars
<1>7. CASE Spending
  <2>1. UNCHANGED <<purchase, adjustment>>
    BY <1>7 DEF Spending
  <2>2. CASE ListExpired \/ ExpiryDies
    BY <2>1, <2>2, StillAccounted DEF ListExpired, ExpiryDies, moneyVars
  <2> QED BY <1>1, <1>7, <2>1, <2>2, ReservationAccounted, AdjustAccounted DEF Spending
<1> QED BY <1>2, <1>3, <1>4, <1>5, <1>6, <1>7 DEF Next

-----------------------------------------------------------------------------
(* Types of the rest. *)
LEMMA StepQueues ==
    ASSUME scenario \in Scenario, QueuesTyped, InboxTyped, [Next]_vars
    PROVE  QueuesTyped' /\ InboxTyped'
<1>1. scenario.events \subseteq Event /\ scenario' = scenario
  BY EventsOfLife, ScenarioStays
<1>2. ASSUME NEW e \in Event, Process(e), pass' \in Seq(scenario.events)
      PROVE  QueuesTyped' /\ InboxTyped'
  BY <1>1, <1>2, ProcessInbox DEF QueuesTyped
<1>3. CASE UNCHANGED inboxVars /\ pass' \in Seq(scenario.events)
  BY <1>1, <1>3 DEF inboxVars, QueuesTyped, InboxTyped
<1>4. ASSUME NEW e \in scenario.events, Ingest(e) PROVE QueuesTyped' /\ InboxTyped'
  <2>1. queue' = Append(queue, e) /\ pass' = pass /\ event' = [event EXCEPT ![e] = "waiting"]
    BY <1>4 DEF Ingest
  <2> QED BY <1>1, <2>1 DEF QueuesTyped, InboxTyped
<1>5. ASSUME NEW e \in scenario.events, RouteProcess(e) PROVE QueuesTyped' /\ InboxTyped'
  BY <1>1, <1>2, <1>5 DEF RouteProcess, QueuesTyped
<1>6. CASE PassProcess
  <2>1. PICK e \in Event : Process(e) /\ pass' = IF Throws(e) THEN << >> ELSE Tail(pass)
    BY <1>6 DEF PassProcess
  <2>2. pass # << >> /\ pass \in Seq(scenario.events)
    BY <1>6 DEF PassProcess, QueuesTyped
  <2>3. Tail(pass) \in Seq(scenario.events) /\ << >> \in Seq(scenario.events)
    BY <2>2
  <2>4. pass' \in Seq(scenario.events)
    BY <2>1, <2>3, Zenon
  <2> QED BY <1>2, <2>1, <2>4
<1>7. CASE StartPass
  <2> DEFINE last == IF Len(queue) < Batch THEN Len(queue) ELSE Batch
  <2>1. pass' = SubSeq(queue, 1, last) /\ UNCHANGED inboxVars
    BY <1>7 DEF StartPass
  <2>2. queue \in Seq(scenario.events) /\ last \in Nat /\ last <= Len(queue)
    BY PaymentsAssumption DEF QueuesTyped
  <2> HIDE DEF last
  <2>3. \A i \in 1 .. last : queue[i] \in scenario.events
    BY <2>2
  <2>4. SubSeq(queue, 1, last) \in Seq(scenario.events)
    <3> DEFINE S == scenario.events
    <3>1. 1 \in Int /\ last \in Int /\ \A i \in 1 .. last : queue[i] \in S
      BY <2>2, <2>3
    <3> HIDE DEF S
    <3>2. SubSeq(queue, 1, last) \in Seq(S)
      BY <3>1, SubSeqProperties, Zenon
    <3> QED BY <3>2 DEF S
  <2>5. pass' \in Seq(scenario.events)
    BY <2>1, <2>4, Zenon
  <2> QED BY <1>3, <2>1, <2>5
<1>8. CASE EngineDies
  BY <1>3, <1>8 DEF EngineDies
<1>9. CASE Checkout \/ Spending \/ UNCHANGED vars
  BY <1>3, <1>9 DEF Checkout, Spending, vars, inboxVars, QueuesTyped
<1> QED BY <1>4, <1>5, <1>6, <1>7, <1>8, <1>9 DEF Next

RestTyped ==
    /\ expiring \subseteq Reservation
    /\ call \in {"idle", "calling", "made", "lost"}
    /\ transaction \in BOOLEAN
    /\ OwnerTyped
    /\ deaths \in 0 .. MaxDeaths

(* ... and the rest. *)
LEMMA StepRest ==
    ASSUME scenario \in Scenario, RestTyped, [Next]_vars
    PROVE  RestTyped'
<1> USE DEF RestTyped
<1>1. scenario.events \subseteq Event /\ scenario.holds \subseteq Reservation
  BY EventsOfLife
<1>2. ASSUME NEW e \in Event, Process(e) PROVE RestTyped'
  <2>1. UNCHANGED <<checkoutVars, deaths, expiring>>
    BY <1>2 DEF Process
  <2> QED BY <1>2, <2>1, ProcessOwner DEF checkoutVars
<1>3. CASE Checkout
  BY <1>3 DEF Checkout, InsertPurchase, PaddleAnswers, RecordTransaction, RecordFailure, OwnerTyped
<1>4. CASE EngineDies
  BY <1>4, PaymentsAssumption DEF EngineDies, OwnerTyped, ledgerVars, checkoutVars
<1>5. CASE Spending
  <2>1. UNCHANGED <<owner, deaths, call, transaction>>
    BY <1>5 DEF Spending, checkoutVars
  <2>2. expiring' \subseteq Reservation
    BY <1>1, <1>5 DEF Spending, ReservationNext, Reserve, Settle, Release, Lapse, VisitExpired,
                      Adjust, ListExpired, ExpiryDies
  <2> QED BY <2>1, <2>2 DEF OwnerTyped
<1>6. CASE UNCHANGED <<ledgerVars, checkoutVars, owner, deaths>>
  BY <1>6 DEF ledgerVars, checkoutVars, OwnerTyped
<1> QED
  BY <1>1, <1>2, <1>3, <1>4, <1>5, <1>6
  DEF Next, Ingest, RouteProcess, PassProcess, StartPass, vars

PaymentsInv ==
    scenario \in Scenario /\ QueuesTyped /\ InboxTyped /\ RestTyped /\ Accounted

(* The empty ledger. *)
LEMMA InitAccounted == Init => PaymentsInv
<1> SUFFICES ASSUME Init PROVE PaymentsInv
  OBVIOUS
<1> USE DEF Init, LedgerInit, PaymentsInit
<1>1. scenario \in Scenario /\ QueuesTyped /\ InboxTyped
  BY DEF QueuesTyped, InboxTyped
<1>2. RestTyped
  <2>1. MaxDeaths \in Nat
    BY PaymentsAssumption
  <2>2. deaths \in 0 .. MaxDeaths
    BY <2>1
  <2> QED BY <2>2 DEF RestTyped, OwnerTyped
<1>3. DOMAIN ledger = {} /\ IsFiniteSet({})
  BY FS_EmptySet
<1>4. LedgerInv
  <2>1. LedgerSound
    BY <1>3 DEF LedgerSound
  <2>2. ReservationsTyped
    BY DEF ReservationsTyped, ReservationRow
  <2>3. HoldsBooked
    BY <1>3, LedgerAssumption DEF HoldsBooked, Booked
  <2>4. Covered
    <3>1. Spendable = {}
      BY <1>3 DEF Spendable
    <3>2. Sum(ledger, Spendable) = 0
      BY <3>1, SumEmpty, Zenon
    <3> QED BY <3>2 DEF Covered
  <2> QED BY <2>1, <2>2, <2>3, <2>4 DEF LedgerInv
<1>5. PurchaseTyped /\ CreditedRow /\ AdjustmentsTyped
  BY PaymentsAssumption DEF PurchaseTyped, CreditedRow, PurchaseRow, AdjustmentsTyped
<1>6. PurchaseBooked
  BY <1>3 DEF PurchaseBooked
<1>7. RefundBooked
  <2>1. Approved = {} /\ purchase.refunded = 0
    BY DEF Approved
  <2>2. RefundKeys \cap DOMAIN ledger = {}
    BY <1>3
  <2>3. Sum(ledger, RefundKeys \cap DOMAIN ledger) = 0
    BY <2>2, SumEmpty, Zenon
  <2> QED BY <1>3, <2>1, <2>3 DEF RefundBooked
<1> QED BY <1>1, <1>2, <1>4, <1>5, <1>6, <1>7 DEF PaymentsInv, Accounted

(* The inductive invariant of Payments. *)
LEMMA PaymentsInvariant == Spec => []PaymentsInv
<1>1. PaymentsInv /\ [Next]_vars => PaymentsInv'
  BY ScenarioStays, StepQueues, StepRest, StepAccounted DEF PaymentsInv
<1> QED BY <1>1, InitAccounted, PTL DEF Spec

-----------------------------------------------------------------------------
(* Ledger, reservations, purchase, adjustments, inbox and pass stay well   *)
(* formed; what was refunded never exceeds the units of the pack.          *)
THEOREM TypeCorrect == Spec => []TypeOK
<1>1. PaymentsInv => TypeOK
  <2> SUFFICES ASSUME PaymentsInv PROVE TypeOK
    OBVIOUS
  <2>1. LedgerTypeOK
    BY DEF PaymentsInv, RestTyped, Accounted, LedgerInv, LedgerSound, LedgerTypeOK,
           ReservationsTyped, ReservationRow
  <2>2. queue \in Seq(Event) /\ pass \in Seq(Event)
    BY EventsOfLife DEF PaymentsInv, QueuesTyped
  <2> QED
    BY <2>1, <2>2 DEF PaymentsInv, RestTyped, Accounted, InboxTyped, OwnerTyped,
                      PurchaseTyped, AdjustmentsTyped, TypeOK
<1> QED BY <1>1, PaymentsInvariant, PTL

(* What a reservation costs in the end is what was settled: the ledger     *)
(* holds exactly its hold and what came back of it, whatever a settlement, *)
(* a release and the expiry batch raced for (credits.ts).                  *)
THEOREM HoldsAlwaysAccounted == Spec => []HoldsAccounted
<1>1. PaymentsInv => HoldsAccounted
  BY BookedIsAccounted DEF PaymentsInv, Accounted, LedgerInv
<1> QED BY <1>1, PaymentsInvariant, PTL

(* Reservations alone never overdraw the account, for any movements and    *)
(* any number of operations that hold money (reserveCredits).              *)
THEOREM NeverOverspent == Spec => []NoOverspend
<1>1. PaymentsInv => NoOverspend
  BY CoveredIsEnough DEF PaymentsInv, Accounted, LedgerInv
<1> QED BY <1>1, PaymentsInvariant, PTL

(* A purchase is on the ledger once, however many completion events there  *)
(* are and whoever processes them (processPaddleWebhookEvent).             *)
THEOREM AlwaysCreditedOnce == Spec => []CreditedOnce
<1>1. PaymentsInv => CreditedOnce
  BY AccountedIsExact DEF PaymentsInv
<1> QED BY <1>1, PaymentsInvariant, PTL

(* What was taken back is the cumulative share, rounded up once, and       *)
(* purchase and ledger agree on it (processAdjustmentEvent).               *)
THEOREM RefundAlwaysExact == Spec => []RefundExact
<1>1. PaymentsInv => RefundExact
  BY AccountedIsExact DEF PaymentsInv
<1> QED BY <1>1, PaymentsInvariant, PTL

-----------------------------------------------------------------------------
(* What has come of the events once all of them are through.               *)

LivesCoherent == \A life \in Scenario : Coherent(life)

Adjusts(e) == e.kind = "adjustment" /\ e.status # "reversed"

(* What the rows say of the events that are through, and where it is from. *)
OwnTransaction == purchase.tx \in {Nobody, Transaction}

CompletionsCredited ==
    \A e \in scenario.events : e.kind = "completed" /\ Terminal(e) => purchase.credited

ApprovalsApproved ==
    \A e \in scenario.events :
      e.kind = "adjustment" /\ e.status = "approved" /\ Terminal(e) => e.of \in Approved

AdjustmentsTold ==
    \A a \in Adjustment : adjustment[a].status # "none" =>
      \E e \in scenario.events :
        /\ Adjusts(e) /\ e.of = a
        /\ e.status = adjustment[a].status /\ e.at = adjustment[a].at

OutcomeInv == OwnTransaction /\ CompletionsCredited /\ ApprovalsApproved /\ AdjustmentsTold

(* What coherence says, event by event. *)
LEMMA CoherentLife ==
    ASSUME scenario \in Scenario, LivesCoherent
    PROVE  /\ IsFiniteSet(scenario.events)
           /\ \E e \in scenario.events : e.kind = "completed"
           /\ \A e \in scenario.events : e.kind = "completed" =>
                e.of = Transaction /\ e.status # "approved"
           /\ \A e, x \in scenario.events :
                Adjusts(e) /\ e.status = "approved" /\ Adjusts(x) /\ x.of = e.of =>
                  x.status # "rejected" /\ x.at <= e.at
           /\ Sum(Amount, {e.of : e \in {x \in scenario.events : Adjusts(x) /\ x.status = "approved"}})
                <= Total
<1> DEFINE completions == {e \in scenario.events : e.kind = "completed"}
           adjustments == {e \in scenario.events : e.kind = "adjustment" /\ e.status # "reversed"}
           approvals == {e \in adjustments : e.status = "approved"}
           named == {x \in scenario.events : Adjusts(x) /\ x.status = "approved"}
<1>1. /\ IsFiniteSet(scenario.events)
      /\ completions # {}
      /\ \A e \in completions : e.of = Transaction /\ e.status # "approved"
      /\ \A e \in approvals, x \in adjustments :
           x.of = e.of => x.status # "rejected" /\ x.at <= e.at
      /\ SumFunctionOnSet(Amount, {e.of : e \in approvals}) <= Total
  <2>1. Coherent(scenario)
    BY DEF LivesCoherent
  <2> QED BY <2>1, Zenon DEF Coherent
<1>2. approvals = named
  BY DEF Adjusts
<1>3. Sum(Amount, {e.of : e \in named}) <= Total
  <2> HIDE DEF approvals, named
  <2>1. Sum(Amount, {e.of : e \in named}) = SumFunctionOnSet(Amount, {e.of : e \in approvals})
    BY <1>2, Zenon DEF Sum
  <2> QED BY <1>1, <2>1
<1>4. \A e, x \in scenario.events :
        Adjusts(e) /\ e.status = "approved" /\ Adjusts(x) /\ x.of = e.of =>
          x.status # "rejected" /\ x.at <= e.at
  BY <1>1 DEF Adjusts
<1> QED BY <1>1, <1>3, <1>4

(* An approval that can be looked at is neither late, contradicted nor     *)
(* too much.                                                               *)
LEMMA ApprovalPasses ==
    ASSUME PaymentsInv, LivesCoherent, OutcomeInv, NEW e \in scenario.events,
           Timely(e), e.status = "approved"
    PROVE  ~Stale(e) /\ ~Contradicts(e) /\ ~Exceeds(e)
<1> USE DEF PaymentsInv
<1>1. /\ e \in Event /\ Adjusts(e) /\ e.of \in Adjustment /\ e.at \in Nat
      /\ AdjustmentsTyped /\ Accounted
  BY EventsOfLife, PaymentsAssumption DEF Timely, Invalid, Adjusts, Accounted
<1>2. /\ adjustment[e.of].status \in {"none", "pending_approval", "approved", "rejected"}
      /\ adjustment[e.of].at \in Nat
  BY <1>1 DEF AdjustmentsTyped
<1>3. adjustment[e.of].status # "none" =>
        adjustment[e.of].status # "rejected" /\ adjustment[e.of].at <= e.at
  BY <1>1, CoherentLife DEF OutcomeInv, AdjustmentsTold
<1>4. ~Stale(e)
  BY <1>1, <1>2, <1>3 DEF Stale
<1>5. ~Contradicts(e)
  BY <1>3 DEF Contradicts
<1>6. ~Exceeds(e)
  <2> DEFINE named == {x \in scenario.events : Adjusts(x) /\ x.status = "approved"}
             all == {x.of : x \in named}
             joint == Approved \cup {e.of}
  <2>1. IsFiniteSet(named) /\ IsFiniteSet(all)
    <3>1. IsFiniteSet(named)
      BY CoherentLife, FS_Subset
    <3> DEFINE of == [x \in named |-> x.of]
    <3>2. of \in Surjection(named, all)
      BY DEF Surjection
    <3> HIDE DEF named, all, of
    <3> QED BY <3>1, <3>2, FS_Surjection
  <2>2. \A x \in named : x.of \in Adjustment
    BY EventsOfLife, PaymentsAssumption DEF Adjusts
  <2>3. joint \subseteq all /\ all \subseteq Adjustment
    <3>1. e.of \in all
      BY <1>1
    <3>2. ASSUME NEW a \in Approved PROVE a \in all
      BY <3>2 DEF Approved, OutcomeInv, AdjustmentsTold
    <3> QED BY <2>2, <3>1, <3>2
  <2>4. Sum(Amount, all) <= Total
    BY CoherentLife
  <2> HIDE DEF all, named
  <2>5. Sum(Amount, joint) \in Nat /\ Sum(Amount, all) \in Nat /\ Sum(Amount, joint) <= Sum(Amount, all)
    BY <2>1, <2>3, AmountsGrow
  <2>6. Cumulative(e) = Sum(Amount, joint)
    BY DEF Cumulative, Sum
  <2>7. ~(Cumulative(e) > Total)
    BY <2>4, <2>5, <2>6, PaymentsAssumption
  <2>8. Sum(Amount, Approved) \in Nat /\ Sum(Amount, Approved) <= Sum(Amount, joint)
    <3>1. IsFiniteSet(joint) /\ Approved \subseteq joint /\ joint \subseteq Adjustment
      BY <2>1, <2>3, FS_Subset
    <3> HIDE DEF joint
    <3> QED BY <3>1, AmountsGrow
  <2>9. RefundTarget(e) \in 0 .. Units /\ RefundTarget(e) = ProportionalUnits(Sum(Amount, joint))
    BY <1>1, TargetTyped
  <2>10. ProportionalUnits(Sum(Amount, Approved)) <= RefundTarget(e)
    BY <2>5, <2>8, <2>9, ShareMonotone
  <2>11. purchase.refunded = IF Approved = {} THEN 0 ELSE ProportionalUnits(Sum(Amount, Approved))
    BY <1>1 DEF Accounted, RefundBooked
  <2>12. ~(RefundTarget(e) < purchase.refunded)
    <3> HIDE DEF joint
    <3>1. RefundTarget(e) \in Nat /\ ProportionalUnits(Sum(Amount, Approved)) \in Int
      BY <2>8, <2>9, ShareBounded
    <3> QED BY <2>10, <2>11, <3>1
  <2> QED BY <2>7, <2>12 DEF Exceeds
<1> QED BY <1>4, <1>5, <1>6

-----------------------------------------------------------------------------
(* setEventStatus is about one event. *)
LEMMA StatusSetOnly ==
    ASSUME InboxTyped, NEW e \in Event, NEW status, SetEventStatus(e, status)
    PROVE  \A x \in Event \ {e} : event'[x] = event[x]
BY DEF SetEventStatus, InboxTyped

(* An event that ends leaves the others as they are. *)
LEMMA ProcessOthers ==
    ASSUME InboxTyped, NEW e \in Event, Process(e)
    PROVE  \A x \in Event \ {e} : event'[x] = event[x]
BY StatusSetOnly
DEF Process, Repeat, Subscribe, Refuse, Defer, Credit, Ignore, Note, Debit, inboxVars

(* What is approved stays approved; a recorded adjustment is the one the   *)
(* event is about.                                                         *)
LEMMA ProcessApproves ==
    ASSUME AdjustmentsTyped, NEW e \in Event, Process(e)
    PROVE  /\ Approved \subseteq Approved'
           /\ Note(e) \/ Debit(e) =>
                /\ e.of \in Adjustment /\ Adjusts(e)
                /\ adjustment'[e.of] = [status |-> e.status, at |-> e.at]
                /\ \A a \in Adjustment \ {e.of} : adjustment'[a] = adjustment[a]
           /\ ~(Note(e) \/ Debit(e)) => adjustment' = adjustment
<1>1. CASE Note(e)
  <2>1. /\ e.of \in Adjustment /\ adjustment'[e.of] = [status |-> e.status, at |-> e.at]
        /\ \A a \in Adjustment \ {e.of} : adjustment'[a] = adjustment[a]
    BY <1>1, AdjustmentRecorded DEF Note
  <2>2. Approved' = Approved
    BY <1>1, NoteApprovesNothing
  <2> QED BY <1>1, <2>1, <2>2 DEF Note, Applies, Timely, Invalid, Adjusts
<1>2. CASE Debit(e)
  <2>1. /\ e.of \in Adjustment /\ adjustment'[e.of] = [status |-> e.status, at |-> e.at]
        /\ \A a \in Adjustment \ {e.of} : adjustment'[a] = adjustment[a]
        /\ e.status = "approved"
    BY <1>2, AdjustmentRecorded DEF Debit, Approves
  <2> QED BY <1>2, <2>1 DEF Debit, Applies, Timely, Invalid, Adjusts, Approved
<1>3. CASE ~(Note(e) \/ Debit(e))
  <2>1. adjustment' = adjustment
    BY <1>3 DEF Process, Repeat, Subscribe, Refuse, Defer, Credit, Ignore, moneyVars
  <2> QED BY <1>3, <2>1 DEF Approved
<1> QED BY <1>1, <1>2, <1>3

(* Every outcome of an event keeps what the rows say of the events. *)
LEMMA ProcessOutcome ==
    ASSUME PaymentsInv, LivesCoherent, OutcomeInv, UNCHANGED scenario,
           NEW e \in scenario.events, Process(e)
    PROVE  OutcomeInv'
<1> USE DEF PaymentsInv, OutcomeInv
<1>1. e \in Event /\ scenario.events \subseteq Event /\ AdjustmentsTyped /\ CreditedRow
  BY EventsOfLife DEF Accounted
<1>2. CreditedRow' /\ KeepsCredit
  BY <1>1, ProcessKeepsCredit
<1>3. \A x \in Event \ {e} : event'[x] = event[x]
  BY <1>1, ProcessOthers
<1>4. OwnTransaction'
  <2>1. CASE Credit(e)
    <3>1. e.of = Transaction
      BY <2>1, CoherentLife DEF Credit
    <3>2. purchase' = [purchase EXCEPT !.tx = e.of, !.status = "completed", !.credited = TRUE]
      BY <2>1 DEF Credit
    <3> QED BY <3>1, <3>2 DEF OwnTransaction, Accounted, PurchaseTyped
  <2>2. CASE Debit(e)
    BY <2>2 DEF Debit, OwnTransaction, Accounted, PurchaseTyped
  <2>3. CASE UNCHANGED purchase
    BY <2>3 DEF OwnTransaction
  <2> QED
    BY <2>1, <2>2, <2>3
    DEF Process, Repeat, Subscribe, Refuse, Defer, Ignore, Note, moneyVars
<1>5. CompletionsCredited'
  <2>1. SUFFICES ASSUME e.kind = "completed", Terminal(e)', ~Terminal(e) PROVE purchase'.credited
    BY <1>1, <1>2, <1>3 DEF CompletionsCredited, KeepsCredit, Terminal
  <2>2. e.of = Transaction
    BY <2>1, CoherentLife
  <2>3. ~Refused(e)
    BY <2>1, <2>2 DEF Refused, Invalid, Foreign, Timely, OwnTransaction
  <2>4. Credit(e)
    BY <2>1, <2>3
    DEF Process, Repeat, Subscribe, Refuse, Defer, Ignore, Note, Debit, Applies, Timely,
        inboxVars, Terminal
  <2> QED BY <2>4 DEF Credit, Accounted, PurchaseTyped
<1>6. ApprovalsApproved'
  <2>1. Approved \subseteq Approved'
    BY <1>1, ProcessApproves
  <2>2. SUFFICES ASSUME e.kind = "adjustment", e.status = "approved", Terminal(e)', ~Terminal(e)
                 PROVE  e.of \in Approved'
    BY <1>1, <1>3, <2>1 DEF ApprovalsApproved, Terminal
  <2>3. Timely(e) => ~Stale(e) /\ ~Contradicts(e) /\ ~Exceeds(e)
    BY <2>2, ApprovalPasses
  <2>4. ~Refused(e) /\ ~Ignore(e)
    BY <2>2, <2>3 DEF Refused, Ignore, Invalid, Foreign
  <2>5. Note(e) \/ Debit(e)
    BY <2>2, <2>4
    DEF Process, Repeat, Subscribe, Refuse, Defer, Credit, inboxVars, Terminal
  <2>6. e.of \in Adjustment /\ adjustment'[e.of] = [status |-> e.status, at |-> e.at]
    BY <1>1, <2>5, ProcessApproves
  <2> QED BY <2>2, <2>6 DEF Approved
<1>7. AdjustmentsTold'
  <2>1. SUFFICES ASSUME NEW a \in Adjustment, adjustment'[a].status # "none"
                 PROVE  \E x \in scenario.events :
                          /\ Adjusts(x) /\ x.of = a
                          /\ x.status = adjustment'[a].status /\ x.at = adjustment'[a].at
    BY DEF AdjustmentsTold
  <2>2. CASE adjustment'[a] = adjustment[a]
    BY <2>1, <2>2 DEF AdjustmentsTold
  <2>3. CASE a = e.of /\ (Note(e) \/ Debit(e))
    <3>1. Adjusts(e) /\ adjustment'[a] = [status |-> e.status, at |-> e.at]
      BY <1>1, <2>3, ProcessApproves
    <3>2. e.status = adjustment'[a].status /\ e.at = adjustment'[a].at
      BY <3>1
    <3> QED BY <2>3, <3>1, <3>2
  <2>4. adjustment'[a] = adjustment[a] \/ (a = e.of /\ (Note(e) \/ Debit(e)))
    <3>1. CASE ~(Note(e) \/ Debit(e))
      BY <1>1, <3>1, ProcessApproves
    <3>2. CASE Note(e) \/ Debit(e)
      <4>1. \A b \in Adjustment \ {e.of} : adjustment'[b] = adjustment[b]
        BY <1>1, <3>2, ProcessApproves
      <4> QED BY <3>2, <4>1
    <3> QED BY <3>1, <3>2
  <2> QED BY <2>2, <2>3, <2>4
<1> QED BY <1>4, <1>5, <1>6, <1>7

(* So does a step that ends no event. *)
LEMMA StillOutcome ==
    ASSUME PaymentsInv, OutcomeInv, UNCHANGED <<scenario, adjustment>>,
           purchase'.tx \in {purchase.tx, Transaction}, purchase.credited => purchase'.credited,
           \A e \in Event : Terminal(e)' => Terminal(e)
    PROVE  OutcomeInv'
<1>1. scenario.events \subseteq Event
  BY EventsOfLife DEF PaymentsInv
<1> QED
  BY <1>1 DEF OutcomeInv, OwnTransaction, CompletionsCredited, ApprovalsApproved,
              AdjustmentsTold, Approved

(* Every step. *)
LEMMA StepOutcome ==
    ASSUME PaymentsInv, LivesCoherent, OutcomeInv, [Next]_vars
    PROVE  OutcomeInv'
<1> USE DEF PaymentsInv
<1>1. /\ scenario.events \subseteq Event /\ UNCHANGED scenario
      /\ PurchaseTyped /\ CreditedRow
  BY EventsOfLife, ScenarioStays DEF Accounted
<1>2. ASSUME NEW e \in scenario.events, Process(e) PROVE OutcomeInv'
  BY <1>1, <1>2, ProcessOutcome
<1>3. CASE Checkout
  <2>1. UNCHANGED <<adjustment, event>>
    BY <1>3 DEF Checkout, InsertPurchase, PaddleAnswers, RecordTransaction, RecordFailure,
                moneyVars, inboxVars
  <2>2. purchase.credited => purchase'.credited
    BY <1>1, <1>3, CheckoutKeepsCredit DEF KeepsCredit
  <2>3. purchase'.tx \in {purchase.tx, Transaction}
    BY <1>1, <1>3 DEF Checkout, InsertPurchase, PaddleAnswers, RecordTransaction, RecordFailure,
                      moneyVars, PurchaseTyped
  <2>4. \A e \in Event : Terminal(e)' => Terminal(e)
    BY <2>1 DEF Terminal
  <2> QED BY <1>1, <2>1, <2>2, <2>3, <2>4, StillOutcome
<1>4. ASSUME NEW e \in scenario.events, Ingest(e) PROVE OutcomeInv'
  <2>1. UNCHANGED <<adjustment, purchase>> /\ event' = [event EXCEPT ![e] = "waiting"]
    BY <1>4 DEF Ingest
  <2>2. \A x \in Event : Terminal(x)' => Terminal(x)
    BY <2>1 DEF Terminal, InboxTyped
  <2> QED BY <1>1, <2>1, <2>2, StillOutcome
<1>5. CASE PassProcess
  <2>1. PICK e \in Event : e = Head(pass) /\ Process(e)
    BY <1>5 DEF PassProcess
  <2>2. e \in scenario.events
    <3>1. pass # << >> /\ pass \in Seq(scenario.events)
      BY <1>5 DEF PassProcess, QueuesTyped
    <3> QED BY <2>1, <3>1
  <2> QED BY <1>2, <2>1, <2>2
<1>6. CASE StartPass \/ EngineDies \/ Spending \/ UNCHANGED vars
  <2>1. UNCHANGED <<adjustment, purchase, event>>
    BY <1>6 DEF StartPass, EngineDies, Spending, vars, inboxVars
  <2>2. \A x \in Event : Terminal(x)' => Terminal(x)
    BY <2>1 DEF Terminal
  <2> QED BY <1>1, <2>1, <2>2, StillOutcome
<1> QED BY <1>2, <1>3, <1>4, <1>5, <1>6 DEF Next, RouteProcess

(* Whatever order, repetition and retry: once everything Paddle sent about *)
(* the purchase is through, it is credited and what is approved is what    *)
(* the events say, if what they say fits together.                         *)
THEOREM OutcomeIsOfAll ==
    ASSUME LivesCoherent
    PROVE  Spec => []OutcomeOfAll
<1>1. Init => OutcomeInv
  <2> SUFFICES ASSUME Init PROVE OutcomeInv
    OBVIOUS
  <2>1. scenario.events \subseteq Event
    BY PaymentsAssumption DEF Init, PaymentsInit
  <2>2. \A e \in scenario.events : ~Terminal(e)
    BY <2>1 DEF Init, PaymentsInit, Terminal
  <2>3. OwnTransaction
    BY DEF Init, PaymentsInit, OwnTransaction
  <2>4. AdjustmentsTold
    BY DEF Init, PaymentsInit, AdjustmentsTold
  <2> QED BY <2>2, <2>3, <2>4 DEF OutcomeInv, CompletionsCredited, ApprovalsApproved
<1>2. PaymentsInv /\ OutcomeInv /\ [Next]_vars => OutcomeInv'
  BY StepOutcome
<1>3. PaymentsInv /\ OutcomeInv => OutcomeOfAll
  <2> SUFFICES ASSUME PaymentsInv, OutcomeInv, \A e \in AboutPurchase : Terminal(e)
               PROVE  /\ purchase.credited
                      /\ Approved = {e.of : e \in {x \in AboutPurchase : x.status = "approved"}}
    BY DEF OutcomeOfAll
  <2>1. scenario \in Scenario
    BY DEF PaymentsInv
  <2>2. purchase.credited
    BY <2>1, CoherentLife DEF AboutPurchase, OutcomeInv, CompletionsCredited
  <2>3. ASSUME NEW x \in AboutPurchase, x.status = "approved" PROVE x.of \in Approved
    BY <2>1, <2>3, CoherentLife DEF AboutPurchase, OutcomeInv, ApprovalsApproved
  <2>4. ASSUME NEW a \in Approved
        PROVE  \E x \in AboutPurchase : x.status = "approved" /\ x.of = a
    BY <2>4 DEF Approved, AboutPurchase, Adjusts, OutcomeInv, AdjustmentsTold
  <2> QED BY <2>2, <2>3, <2>4
<1> QED BY <1>1, <1>2, <1>3, PaymentsInvariant, PTL DEF Spec

-----------------------------------------------------------------------------
(* What a step may not undo.                                               *)

(* A credited purchase stays credited, for the same transaction, however   *)
(* late the request that created it records its outcome                    *)
(* (createPaddleCreditPurchase against processPaddleWebhookEvent).         *)
THEOREM CreditKept == Spec => CreditIsKept
<1> DEFINE Inv == scenario \in Scenario /\ CreditedRow
<1>1. Init => Inv
  BY DEF Init, PaymentsInit, CreditedRow, PurchaseRow
<1>2. Inv /\ [Next]_vars => Inv'
  BY StepKeepsCredit, ScenarioStays
<1>3. Inv /\ [Next]_vars => [KeepsCredit]_vars
  BY StepKeepsCredit
<1> QED BY <1>1, <1>2, <1>3, PTL DEF Spec, CreditIsKept, KeepsCredit

-----------------------------------------------------------------------------
(* Closing a reservation needs it to be active, whoever closes it and      *)
(* whatever list it was found on.                                          *)
LEMMA ReservationStep ==
    ASSUME scenario \in Scenario, ReservationsTyped, NEW s \in Reservation, ReservationNext(s)
    PROVE  ReservationsTyped' /\ KeepsClosed
<1>1. Hold[s] \in Nat
  BY LedgerAssumption
<1>2. CASE UNCHANGED reservation
  BY <1>2 DEF ReservationsTyped, KeepsClosed
<1>3. CASE Reserve(s)
  BY <1>3 DEF Reserve, ReservationsTyped, ReservationRow, KeepsClosed, Closed
<1>4. ASSUME NEW used \in 0 .. Hold[s], Settle(s, used)
      PROVE  ReservationsTyped' /\ KeepsClosed
  <2>1. used \in Nat
    BY <1>1, <1>4
  <2>2. reservation' = [reservation EXCEPT ![s].status = "settled", ![s].settled = used]
    BY <1>4 DEF Settle
  <2>3. reservation[s].status = "active"
    BY <1>4 DEF Settle
  <2>4. ReservationsTyped'
    BY <2>1, <2>2 DEF ReservationsTyped, ReservationRow, Closed
  <2>5. KeepsClosed
    BY <2>2, <2>3 DEF ReservationsTyped, ReservationRow, KeepsClosed, Closed
  <2> QED BY <2>4, <2>5
<1>5. ASSUME NEW status \in Closed, MayClose(s), Close(s, status)
      PROVE  ReservationsTyped' /\ KeepsClosed
  BY <1>5 DEF Close, MayClose, ReservationsTyped, ReservationRow, KeepsClosed, Closed
<1>6. CASE Lapse(s)
  BY <1>6 DEF Lapse, ReservationsTyped, ReservationRow, KeepsClosed, Closed
<1>7. CASE Release(s)
  BY <1>5, <1>7 DEF Release, Closed
<1>8. CASE VisitExpired(s)
  BY <1>2, <1>5, <1>8 DEF VisitExpired, Closed
<1> QED BY <1>3, <1>4, <1>6, <1>7, <1>8 DEF ReservationNext

LEMMA StepKeepsClosed ==
    ASSUME scenario \in Scenario, ReservationsTyped, [Next]_vars
    PROVE  ReservationsTyped' /\ KeepsClosed
<1>1. CASE UNCHANGED reservation
  BY <1>1 DEF ReservationsTyped, KeepsClosed
<1>2. CASE Spending
  <2>1. scenario.holds \subseteq Reservation
    BY PaymentsAssumption
  <2> QED
    BY <1>1, <1>2, <2>1, ReservationStep DEF Spending, Adjust, ListExpired, ExpiryDies
<1>3. CASE Checkout \/ (\E e \in scenario.events : Ingest(e) \/ RouteProcess(e))
  BY <1>1, <1>3 DEF Checkout, Ingest, RouteProcess, Process, ledgerVars
<1>4. CASE StartPass \/ PassProcess \/ EngineDies \/ UNCHANGED vars
  BY <1>1, <1>4 DEF StartPass, PassProcess, Process, EngineDies, vars, ledgerVars
<1> QED BY <1>2, <1>3, <1>4 DEF Next

(* A settled, released or expired reservation stays what it is, whoever    *)
(* raced for it: settleCreditReservation, releaseCreditReservation, and    *)
(* the expiry batch with a list read before the lock.                      *)
THEOREM ClosedForGood == Spec => CloseIsFinal
<1> DEFINE Inv == scenario \in Scenario /\ ReservationsTyped
<1>1. Init => Inv
  BY DEF Init, LedgerInit, PaymentsInit, ReservationsTyped, ReservationRow
<1>2. Inv /\ [Next]_vars => Inv'
  BY StepKeepsClosed, ScenarioStays
<1>3. Inv /\ [Next]_vars => [KeepsClosed]_ledgerVars
  BY StepKeepsClosed
<1> QED BY <1>1, <1>2, <1>3, PTL DEF Spec, CloseIsFinal, KeepsClosed

-----------------------------------------------------------------------------
(* The scheduler.                                                          *)

Decided == {e \in Engine : ticking[e].pc = "fire"}

(* A decision to fire was taken for a tick of the row that was read. *)
DecidedWhenDue == \A e \in Decided : Due(ticking[e].row, ticking[e].at)

(* Until a pin moves the row back it stands at the last fire, or later. *)
RowNotBehind ==
    lastFire # Never /\ ~pinnedBack =>
        schedule.lastFired # Never /\ lastFire <= schedule.lastFired

SchedulerIInv == SchedulerTypeOK /\ DecidedWhenDue /\ RowNotBehind

-----------------------------------------------------------------------------
(* The arithmetic of ticks: the next tick is later, and later for later.   *)
LEMMA NextRunIsLater ==
    ASSUME NEW t \in Nat
    PROVE  NextRun(t) \in Nat /\ t < NextRun(t)
<1>. DEFINE q == t \div Period
<1>1. Period \in Nat /\ Period > 0
  BY SchedulerAssumption
<1>2. q \in Nat /\ t = Period * q + (t % Period) /\ t % Period \in 0 .. Period - 1
  BY <1>1
<1>3. (q + 1) * Period = Period * q + Period /\ (q + 1) * Period \in Nat
  BY <1>1, <1>2
<1>4. QED
  BY <1>1, <1>2, <1>3 DEF NextRun

LEMMA NextRunMonotone ==
    ASSUME NEW s \in Nat, NEW t \in Nat, s <= t
    PROVE  NextRun(s) <= NextRun(t)
<1>. DEFINE p == s \div Period
            q == t \div Period
<1>1. Period \in Nat /\ Period > 0
  BY SchedulerAssumption
<1>2. p \in Nat /\ s = Period * p + (s % Period) /\ s % Period \in 0 .. Period - 1
  BY <1>1
<1>3. q \in Nat /\ t = Period * q + (t % Period) /\ t % Period \in 0 .. Period - 1
  BY <1>1
<1>4. p <= q
  BY <1>1, QuotientMonotone
<1> HIDE DEF p, q
<1>5. PICK d \in Nat : q = p + d
  <2>1. q - p \in Nat /\ q = p + (q - p)
    BY <1>2, <1>3, <1>4
  <2>2. QED
    BY <2>1
<1>6. (q + 1) * Period = (p + 1) * Period + d * Period /\ d * Period \in Nat
  BY <1>1, <1>2, <1>5
<1>7. (p + 1) * Period \in Nat /\ (q + 1) * Period \in Nat
  BY <1>1, <1>2, <1>3
<1>8. QED
  BY <1>6, <1>7 DEF NextRun, p, q

-----------------------------------------------------------------------------
(* Types. *)
LEMMA SchedulerInitTyped == SchedulerInit => SchedulerTypeOK
<1> SUFFICES ASSUME SchedulerInit PROVE SchedulerTypeOK
  OBVIOUS
<1>1. 0 \in Time
  BY SchedulerAssumption DEF Time
<1>2. schedule \in [lastFired : Time \cup {Never},
                   missedPolicy : {"skip", "fire_once_catchup"},
                   overlapPolicy : {"skip", "queue"}]
  BY DEF SchedulerInit
<1>3. ticking \in [Engine -> [pc : {"idle", "read", "pin", "fire"},
                          row : Time \cup {Never}, at : Time]]
  BY <1>1 DEF SchedulerInit, NoPass
<1>4. faults \in 0 .. MaxFaults
  BY SchedulerAssumption DEF SchedulerInit
<1>5. QED
  BY <1>1, <1>2, <1>3, <1>4 DEF SchedulerInit, SchedulerTypeOK

LEMMA TickingTyped ==
    ASSUME SchedulerTypeOK, NEW e \in Engine
    PROVE  /\ ticking[e].pc \in {"idle", "read", "pin", "fire"}
           /\ ticking[e].row \in Time \cup {Never}
           /\ ticking[e].at \in Time
BY DEF SchedulerTypeOK

LEMMA SchedulerTypesKept == SchedulerTypeOK /\ [SchedulerNext]_schedulerVars => SchedulerTypeOK'
<1> SUFFICES ASSUME SchedulerTypeOK, [SchedulerNext]_schedulerVars PROVE SchedulerTypeOK'
  OBVIOUS
<1> USE SchedulerAssumption DEF SchedulerTypeOK, Time, NoPass
<1>1. ASSUME NEW e \in Engine, TickRead(e) PROVE SchedulerTypeOK'
  BY <1>1 DEF TickRead
<1>2. ASSUME NEW e \in Engine, Visit(e) PROVE SchedulerTypeOK'
  <2>1. PICK d \in {"idle", "pin", "fire"} :
           ticking' = [ticking EXCEPT ![e] = IF d = "idle" THEN NoPass
                                       ELSE [@ EXCEPT !.pc = d, !.at = now]]
    BY <1>2 DEF Visit
  <2> DEFINE Pass == [pc : {"idle", "read", "pin", "fire"},
                      row : Time \cup {Never}, at : Time]
  <2>2. [ticking[e] EXCEPT !.pc = d, !.at = now] \in Pass
    <3>1. ticking[e] \in Pass /\ now \in Time /\ d \in {"idle", "read", "pin", "fire"}
      OBVIOUS
    <3> HIDE DEF SchedulerTypeOK, Time
    <3>2. [ticking[e] EXCEPT !.pc = d] \in Pass
      BY <3>1
    <3>3. QED
      BY <3>1, <3>2
  <2>3. NoPass \in Pass
    OBVIOUS
  <2>4. ticking' \in [Engine -> Pass]
    BY <2>1, <2>2, <2>3
  <2>5. QED
    BY <1>2, <2>4 DEF Visit
<1>3. ASSUME NEW e \in Engine, Pin(e) PROVE SchedulerTypeOK'
  BY <1>3, TickingTyped DEF Pin, PinTo
<1>4. ASSUME NEW e \in Engine, Fire(e) PROVE SchedulerTypeOK'
  BY <1>4, TickingTyped DEF Fire, ConsumeTick
<1>5. ASSUME NEW e \in Engine, SkipOverlap(e) \/ SkipBlocked(e) PROVE SchedulerTypeOK'
  BY <1>5, TickingTyped DEF SkipOverlap, SkipBlocked, ConsumeTick
<1>6. ASSUME NEW e \in Engine, FireUndone(e) \/ Start(e) PROVE SchedulerTypeOK'
  BY <1>6 DEF FireUndone, Start
<1>7. ASSUME NEW e \in Engine, Stop(e) \/ Crash(e) PROVE SchedulerTypeOK'
  BY <1>7 DEF Stop, Crash
<1>8. ASSUME RunStarts \/ RunEnds \/ ClockTicks PROVE SchedulerTypeOK'
  BY <1>8 DEF RunStarts, RunEnds, ClockTicks
<1>9. CASE UNCHANGED schedulerVars
  BY <1>9 DEF schedulerVars
<1>10. QED
  BY <1>1, <1>2, <1>3, <1>4, <1>5, <1>6, <1>7, <1>8, <1>9 DEF SchedulerNext, Step

(* Every variable stays in its type. *)
THEOREM SchedulerTypeCorrect == SchedulerSpec => []SchedulerTypeOK
BY SchedulerInitTyped, SchedulerTypesKept, PTL DEF SchedulerSpec

-----------------------------------------------------------------------------
(* The overlap policy bounds what schedules pile up, whichever engines     *)
(* fire: the limit is read in the transaction that adds the run.           *)
THEOREM OverlapAlwaysBounded == SchedulerSpec => []OverlapBounded
<1> USE DEF OverlapBounded, Live, Allowed
<1>1. SchedulerInit => OverlapBounded
  BY DEF SchedulerInit
<1>2. SchedulerTypeOK /\ OverlapBounded /\ [SchedulerNext]_schedulerVars => OverlapBounded'
  <2> SUFFICES ASSUME SchedulerTypeOK, OverlapBounded, [SchedulerNext]_schedulerVars PROVE OverlapBounded'
    OBVIOUS
  <2>1. queued \in Nat /\ running \in Nat
    BY DEF SchedulerTypeOK
  <2>2. schedule'.overlapPolicy = schedule.overlapPolicy
    BY DEF SchedulerNext, Step, TickRead, Visit, Pin, Fire, SkipOverlap, SkipBlocked, ConsumeTick,
           FireUndone, Start, Stop, Crash, RunStarts, RunEnds, ClockTicks, schedulerVars, SchedulerTypeOK
  <2>3. ASSUME NEW e \in Engine, Fire(e) PROVE OverlapBounded'
    BY <2>1, <2>2, <2>3 DEF Fire, ConsumeTick, Room
  <2>4. ASSUME RunStarts \/ RunEnds PROVE OverlapBounded'
    BY <2>1, <2>2, <2>4 DEF RunStarts, RunEnds
  <2>5. ASSUME UNCHANGED <<queued, running>> PROVE OverlapBounded'
    BY <2>2, <2>5
  <2>6. QED
    BY <2>3, <2>4, <2>5
       DEF SchedulerNext, Step, TickRead, Visit, Pin, SkipOverlap, SkipBlocked, ConsumeTick,
           FireUndone, Start, Stop, Crash, ClockTicks, schedulerVars
<1>3. QED
  BY <1>1, <1>2, SchedulerTypeCorrect, PTL DEF SchedulerSpec

-----------------------------------------------------------------------------
(* What a decided pass knows: the row it read is older than its instant.   *)
LEMMA DecisionIsLater ==
    ASSUME SchedulerIInv, NEW e \in Engine, Claims(e)
    PROVE  /\ schedule.lastFired \in Nat /\ ticking[e].at \in Nat
           /\ NextRun(schedule.lastFired) <= ticking[e].at
           /\ schedule.lastFired < ticking[e].at
<1>1. schedule.lastFired \in Time /\ ticking[e].at \in Time
  BY TickingTyped DEF SchedulerIInv, DecidedWhenDue, Decided, Claims, Due
<1>2. NextRun(schedule.lastFired) <= ticking[e].at
  BY DEF SchedulerIInv, DecidedWhenDue, Decided, Claims, Due
<1>3. QED
  BY <1>1, <1>2, NextRunIsLater, SchedulerAssumption DEF Time

LEMMA DecisionsKept == SchedulerIInv /\ [SchedulerNext]_schedulerVars => DecidedWhenDue'
<1> SUFFICES ASSUME SchedulerIInv, [SchedulerNext]_schedulerVars, NEW f \in Engine, ticking'[f].pc = "fire"
             PROVE  Due(ticking'[f].row, ticking'[f].at)
  BY DEF DecidedWhenDue, Decided
<1>1. CASE ticking'[f] = ticking[f]
  BY <1>1 DEF SchedulerIInv, DecidedWhenDue, Decided
<1>2. CASE Visit(f)
  <2>1. ticking[f] \in [pc : {"idle", "read", "pin", "fire"}, row : Time \cup {Never}, at : Time]
    BY DEF SchedulerIInv, SchedulerTypeOK
  <2>2. Due(ticking[f].row, now)
    BY <1>2, <2>1 DEF Visit, SchedulerIInv, SchedulerTypeOK, NoPass
  <2>3. ticking'[f].row = ticking[f].row /\ ticking'[f].at = now
    BY <1>2, <2>1 DEF Visit, SchedulerIInv, SchedulerTypeOK, NoPass
  <2>4. QED
    BY <2>2, <2>3
<1>3. CASE TickRead(f)
  BY <1>3 DEF TickRead, SchedulerIInv, SchedulerTypeOK
<1>4. CASE Pin(f) \/ Fire(f) \/ SkipOverlap(f) \/ SkipBlocked(f) \/ FireUndone(f) \/ Crash(f)
  BY <1>4 DEF Pin, Fire, SkipOverlap, SkipBlocked, ConsumeTick, FireUndone, Crash,
              SchedulerIInv, SchedulerTypeOK, NoPass
<1>5. ASSUME NEW e \in Engine, e # f, Step(e)
      PROVE  ticking'[f] = ticking[f]
  BY <1>5 DEF Step, TickRead, Visit, Pin, Fire, SkipOverlap, SkipBlocked, ConsumeTick,
              FireUndone, Start, Stop, Crash, SchedulerIInv, SchedulerTypeOK
<1>6. ASSUME Start(f) \/ Stop(f) \/ RunStarts \/ RunEnds \/ ClockTicks \/ UNCHANGED schedulerVars
      PROVE  ticking'[f] = ticking[f]
  BY <1>6 DEF Start, Stop, RunStarts, RunEnds, ClockTicks, schedulerVars
<1>7. QED
  BY <1>1, <1>2, <1>3, <1>4, <1>5, <1>6 DEF SchedulerNext, Step

LEMMA RowKept == SchedulerIInv /\ [SchedulerNext]_schedulerVars => RowNotBehind'
<1> SUFFICES ASSUME SchedulerIInv, [SchedulerNext]_schedulerVars, lastFire' # Never, ~pinnedBack'
             PROVE  schedule'.lastFired # Never /\ lastFire' <= schedule'.lastFired
  BY DEF RowNotBehind
<1> USE DEF SchedulerIInv, RowNotBehind
<1>1. SchedulerTypeOK /\ lastFire \in Nat \cup {Never} /\ schedule.lastFired \in Nat \cup {Never}
  BY SchedulerAssumption DEF SchedulerTypeOK, Time
<1>2. ASSUME NEW e \in Engine, Fire(e)
      PROVE  schedule'.lastFired # Never /\ lastFire' <= schedule'.lastFired
  <2>1. schedule'.lastFired = ticking[e].at /\ lastFire' = ticking[e].at
    BY <1>1, <1>2 DEF Fire, ConsumeTick, SchedulerTypeOK
  <2>2. QED
    BY <1>2, <2>1, DecisionIsLater, SchedulerAssumption DEF Fire
<1>3. ASSUME NEW e \in Engine, SkipOverlap(e) \/ SkipBlocked(e)
      PROVE  schedule'.lastFired # Never /\ lastFire' <= schedule'.lastFired
  <2>1. /\ schedule'.lastFired = ticking[e].at
        /\ lastFire' = lastFire /\ pinnedBack' = pinnedBack /\ Claims(e)
    BY <1>1, <1>3 DEF SkipOverlap, SkipBlocked, ConsumeTick, SchedulerTypeOK
  <2>2. QED
    BY <1>1, <2>1, DecisionIsLater, SchedulerAssumption
<1>4. ASSUME NEW e \in Engine, Pin(e)
      PROVE  schedule'.lastFired # Never /\ lastFire' <= schedule'.lastFired
  <2>1. schedule'.lastFired = ticking[e].at /\ lastFire' = lastFire /\ ticking[e].at \in Nat
    BY <1>1, <1>4, TickingTyped, SchedulerAssumption DEF Pin, PinTo, SchedulerTypeOK, Time
  <2>2. ~pinnedBack /\ (schedule.lastFired = Never \/ ~(ticking[e].at < schedule.lastFired))
    BY <1>4 DEF Pin
  <2>3. QED
    BY <1>1, <2>1, <2>2, SchedulerAssumption
<1>5. ASSUME UNCHANGED <<schedule, lastFire, pinnedBack>>
      PROVE  schedule'.lastFired # Never /\ lastFire' <= schedule'.lastFired
  BY <1>5
<1>6. QED
  BY <1>2, <1>3, <1>4, <1>5
     DEF SchedulerNext, Step, TickRead, Visit, FireUndone, Start, Stop, Crash,
         RunStarts, RunEnds, ClockTicks, schedulerVars

LEMMA SchedulerInvariant == SchedulerSpec => []SchedulerIInv
<1>1. SchedulerInit => SchedulerIInv
  <2>1. SchedulerInit => DecidedWhenDue /\ RowNotBehind
    BY DEF SchedulerInit, DecidedWhenDue, Decided, RowNotBehind, NoPass
  <2>2. QED
    BY <2>1, SchedulerInitTyped DEF SchedulerIInv
<1>2. SchedulerIInv /\ [SchedulerNext]_schedulerVars => SchedulerIInv'
  BY SchedulerTypesKept, DecisionsKept, RowKept DEF SchedulerIInv
<1>3. QED
  BY <1>1, <1>2, PTL DEF SchedulerSpec

(* No tick fires twice and no backlog is replayed, unless a starting       *)
(* process pinned the row back over a fire: that is the only way.          *)
THEOREM FiresOnceUnlessPinnedBack == SchedulerSpec => TickFiredOnceUnlessPinnedBack
<1>1. ASSUME SchedulerIInv, [SchedulerNext]_schedulerVars
      PROVE  [(\E e \in Engine : Fire(e)) /\ lastFire # Never /\ ~pinnedBack =>
                 NextRun(lastFire) <= lastFire']_schedulerVars
  <2> SUFFICES ASSUME NEW e \in Engine, Fire(e), lastFire # Never, ~pinnedBack
               PROVE  NextRun(lastFire) <= lastFire'
    OBVIOUS
  <2>1. lastFire' = ticking[e].at /\ Claims(e)
    BY DEF Fire
  <2>2. lastFire \in Nat /\ lastFire <= schedule.lastFired
    BY <1>1, SchedulerAssumption DEF SchedulerIInv, SchedulerTypeOK, Time, RowNotBehind
  <2>3. /\ schedule.lastFired \in Nat /\ ticking[e].at \in Nat
        /\ NextRun(schedule.lastFired) <= ticking[e].at
    BY <1>1, <2>1, DecisionIsLater
  <2>4. NextRun(lastFire) <= NextRun(schedule.lastFired)
    BY <2>2, <2>3, NextRunMonotone
  <2>5. NextRun(lastFire) \in Nat /\ NextRun(schedule.lastFired) \in Nat
    BY <2>2, <2>3, NextRunIsLater
  <2>6. QED
    BY <2>1, <2>3, <2>4, <2>5
<1>2. QED
  BY <1>1, SchedulerInvariant, PTL DEF TickFiredOnceUnlessPinnedBack, SchedulerSpec
=============================================================================

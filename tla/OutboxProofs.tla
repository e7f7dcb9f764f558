---------------------------- MODULE OutboxProofs ----------------------------
(***************************************************************************)
(* The outbox's promises for any number of dispatchers, subscribers and    *)
(* events, any batch size and number of attempts, and any number of        *)
(* crashes, refused commits and shutdowns.                                 *)
(***************************************************************************)
EXTENDS Outbox, FiniteSetTheorems, TLAPS

OutboxRow == [status : {"absent", "pending", "dispatched", "dead_letter"},
              attempts : 0 .. MaxAttempts,
              ripe : BOOLEAN,
              about : Row \cup {0}]
Batch == [claimed : SUBSET Row, ok : SUBSET Row, failed : SUBSET Row]

(* A batch belongs to a live process, and its rows nobody else has. *)
Held(d) ==
    /\ trx[d] # NoTrx => process[d] # "down"
    /\ trx[d].ok \subseteq trx[d].claimed /\ trx[d].failed \subseteq trx[d].claimed
    /\ trx[d].ok \cap trx[d].failed = {}
    /\ \A r \in trx[d].ok : \A s \in Subscriber : <<s, r>> \in handled

BatchesHeld == \A d \in Dispatcher : Held(d)

(* What the status of a row says about its attempts. *)
AttemptsFit ==
    \A r \in Row :
       /\ outbox[r].status = "absent" => outbox[r] = Absent
       /\ outbox[r].status \in {"pending", "dispatched"} => outbox[r].attempts < MaxAttempts
       /\ outbox[r].status = "dead_letter" => outbox[r].attempts = MaxAttempts

Notices == {r \in Published : IsNotice(r)}
Domain == {r \in Published : ~IsNotice(r)}

(* Ids are handed out without a gap. *)
IdsWithoutGap == Published = 1 .. Cardinality(Published)

(* A notice is about a domain event that died, and about its own one. *)
NoticesFit ==
    /\ \A n \in Notices : /\ outbox[n].about \in Domain
                          /\ outbox[outbox[n].about].status = "dead_letter"
    /\ \A m, n \in Notices : outbox[m].about = outbox[n].about => m = n
    /\ \A r \in Domain : outbox[r].status = "dead_letter" =>
          \E n \in Notices : outbox[n].about = r

DomainBounded == Cardinality(Domain) <= MaxEvents

Tables == outbox \in [Row -> OutboxRow] /\ trx \in [Dispatcher -> Batch]

IInv == /\ TypeOK /\ BatchesHeld /\ ClaimsExclusive /\ AttemptsFit
        /\ IdsWithoutGap /\ NoticesFit /\ DomainBounded /\ DispatchedWasHandled

-----------------------------------------------------------------------------
(* The rank of an element in a finite set of numbers. *)
Rank(T, r) == Cardinality({q \in T : q < r})

LEMMA RankIsSmaller ==
    ASSUME NEW T \in SUBSET Nat, IsFiniteSet(T), NEW r \in T
    PROVE  Rank(T, r) \in 0 .. Cardinality(T) - 1
<1> DEFINE below == {q \in T : q < r}
<1>1. r \notin below /\ below \in SUBSET T /\ below \cup {r} \in SUBSET T
  OBVIOUS
<1> HIDE DEF below
<1>2. IsFiniteSet(below) /\ Cardinality(below) \in Nat
  BY <1>1, FS_Subset, FS_CardinalityType
<1>3. Cardinality(below \cup {r}) = Cardinality(below) + 1
  BY <1>1, <1>2, FS_AddElement
<1>4. Cardinality(below \cup {r}) <= Cardinality(T)
  BY <1>1, FS_Subset
<1>5. Cardinality(T) \in Nat
  BY FS_CardinalityType
<1>6. QED
  BY <1>2, <1>3, <1>4, <1>5 DEF Rank, below

LEMMA RankGrows ==
    ASSUME NEW T \in SUBSET Nat, IsFiniteSet(T), NEW r \in T, NEW s \in T, r < s
    PROVE  Rank(T, r) < Rank(T, s)
<1> DEFINE S == {q \in T : q < s}
<1>1. S \in SUBSET Nat /\ S \in SUBSET T /\ r \in S
  OBVIOUS
<1>2. {q \in S : q < r} = {q \in T : q < r}
  <2>1. \A q \in T : q \in Nat /\ (q < r => q < s)
    OBVIOUS
  <2>2. QED
    BY <2>1
<1>3. Rank(S, r) = Rank(T, r) /\ Cardinality(S) = Rank(T, s)
  BY <1>2 DEF Rank
<1> HIDE DEF S
<1>4. IsFiniteSet(S) /\ Cardinality(S) \in Nat
  BY <1>1, FS_Subset, FS_CardinalityType
<1>5. Rank(S, r) \in 0 .. Cardinality(S) - 1
  BY <1>1, <1>4, RankIsSmaller
<1>6. QED
  BY <1>3, <1>4, <1>5

LEMMA RankDiffers ==
    ASSUME NEW T \in SUBSET Nat, IsFiniteSet(T), NEW r \in T, NEW s \in T,
           Rank(T, r) = Rank(T, s)
    PROVE  r = s
<1>1. Rank(T, r) \in Int /\ Rank(T, s) \in Int /\ r \in Nat /\ s \in Nat
  BY RankIsSmaller
<1>2. ~(r < s) /\ ~(s < r)
  BY <1>1, RankGrows
<1>3. QED
  BY <1>1, <1>2

LEMMA RankReached ==
    ASSUME NEW T \in SUBSET Nat, IsFiniteSet(T), NEW k \in 0 .. Cardinality(T) - 1
    PROVE  \E r \in T : Rank(T, r) = k
<1> DEFINE U == 0 .. Cardinality(T) - 1
           f == [r \in T |-> Rank(T, r)]
<1>1. Cardinality(T) \in Nat
  BY FS_CardinalityType
<1>2. IsFiniteSet(U) /\ Cardinality(U) = Cardinality(T)
  BY <1>1, FS_Interval
<1>3. f \in [T -> U]
  BY RankIsSmaller
<1>4. f \in Injection(T, U)
  <2>1. \A a, b \in T : f[a] = f[b] => a = b
    BY RankDiffers
  <2>2. QED
    BY <1>3, <2>1 DEF Injection, IsInjective
<1>5. f \in Surjection(T, U)
  BY <1>2, <1>4, FS_Injection
<1>6. QED
  BY <1>5 DEF Surjection

-----------------------------------------------------------------------------
LEMMA Constants ==
    /\ MaxEvents \in Nat /\ MaxAttempts \in Nat /\ MaxAttempts > 0 /\ MaxFaults \in Nat
    /\ Row = 1 .. 2 * MaxEvents /\ Row \subseteq Nat /\ 2 * MaxEvents \in Nat
BY OutboxAssumption DEF Row

LEMMA Typed == TypeOK => Tables
BY DEF TypeOK, Tables, OutboxRow, Batch

LEMMA Finite ==
    /\ IsFiniteSet(Row)
    /\ \A S \in SUBSET Row : IsFiniteSet(S) /\ Cardinality(S) \in Nat
<1>1. IsFiniteSet(Row)
  BY Constants, FS_Interval
<1>2. ASSUME NEW S \in SUBSET Row PROVE IsFiniteSet(S) /\ Cardinality(S) \in Nat
  <2>1. IsFiniteSet(S)
    BY <1>1, FS_Subset
  <2>2. QED
    BY <2>1, FS_CardinalityType
<1>3. QED
  BY <1>1, <1>2

LEMMA Sets ==
    /\ Published \in SUBSET Row /\ Notices \in SUBSET Row /\ Domain \in SUBSET Row
    /\ Published = Notices \cup Domain /\ Notices \cap Domain = {}
BY DEF Published, Notices, Domain

LEMMA ToNotifyAre ==
    ASSUME IInv, NEW d \in Dispatcher
    PROVE  /\ ToNotify(d) \in SUBSET Domain
           /\ Exhausted(d) \in SUBSET trx[d].failed
           /\ \A r \in trx[d].claimed : r \in Published /\ outbox[r].status = "pending"
           /\ \A r \in ToNotify(d) : outbox[r].status = "pending"
<1>1. \A r \in trx[d].claimed : r \in Row /\ outbox[r].status = "pending"
  BY Typed DEF IInv, Tables, Batch, ClaimsExclusive
<1>2. trx[d].failed \subseteq trx[d].claimed
  BY DEF IInv, BatchesHeld, Held
<1>3. QED
  BY <1>1, <1>2 DEF ToNotify, Exhausted, Domain, Published

(* Every notice is paid for by a domain event: there are never more ids    *)
(* than Row has, and a batch finds one for each notice it owes.            *)
LEMMA IdsSuffice ==
    ASSUME IInv, NEW T \in SUBSET Domain, \A r \in T : outbox[r].status = "pending"
    PROVE  /\ Cardinality(Published) = Cardinality(Notices) + Cardinality(Domain)
           /\ Cardinality(Notices) + Cardinality(T) <= Cardinality(Domain)
<1> DEFINE about == [n \in Notices |-> outbox[n].about]
           A == {r \in Domain : \E n \in Notices : outbox[n].about = r}
<1>1. Sets!1 /\ T \in SUBSET Row /\ A \in SUBSET Row
  BY Sets
<1>2. /\ IsFiniteSet(Notices) /\ IsFiniteSet(Domain) /\ IsFiniteSet(T) /\ IsFiniteSet(A)
      /\ Cardinality(Notices) \in Nat /\ Cardinality(Domain) \in Nat
      /\ Cardinality(T) \in Nat /\ Cardinality(A) \in Nat
  BY <1>1, Finite, Sets
<1>3. Cardinality(Published) = Cardinality(Notices) + Cardinality(Domain)
  <2>1. Cardinality(Notices \cup Domain) =
           Cardinality(Notices) + Cardinality(Domain) - Cardinality(Notices \cap Domain)
    BY <1>2, FS_Union
  <2>2. Cardinality(Notices \cap Domain) = 0
    BY Sets, FS_EmptySet
  <2>3. QED
    BY <1>2, <2>1, <2>2, Sets
<1>4. about \in Injection(Notices, A)
  <2>1. about \in [Notices -> A]
    BY DEF IInv, NoticesFit
  <2>2. \A m, n \in Notices : about[m] = about[n] => m = n
    BY DEF IInv, NoticesFit
  <2>3. QED
    BY <2>1, <2>2 DEF Injection, IsInjective
<1>5. Cardinality(Notices) <= Cardinality(A)
  BY <1>2, <1>4, FS_Injection
<1>6. A \cap T = {} /\ A \cup T \in SUBSET Domain
  BY DEF IInv, NoticesFit
<1>7. Cardinality(A \cup T) = Cardinality(A) + Cardinality(T)
  <2>1. Cardinality(A \cup T) = Cardinality(A) + Cardinality(T) - Cardinality(A \cap T)
    BY <1>2, FS_Union
  <2>2. Cardinality(A \cap T) = 0
    BY <1>6, FS_EmptySet
  <2>3. QED
    BY <1>2, <2>1, <2>2
<1>8. Cardinality(A \cup T) <= Cardinality(Domain)
  BY <1>2, <1>6, FS_Subset
<1>9. QED
  BY <1>2, <1>3, <1>5, <1>7, <1>8

LEMMA NextIdIsNew ==
    ASSUME IInv
    PROVE  /\ NextId \in Nat /\ NextId > 0
           /\ \A r \in Row : r \in Published <=> r < NextId
<1>1. Cardinality(Published) \in Nat
  BY Finite, Sets
<1>2. Published = 1 .. Cardinality(Published)
  BY DEF IInv, IdsWithoutGap
<1>3. QED
  BY <1>1, <1>2, Constants DEF NextId

-----------------------------------------------------------------------------
(* What a commit does to every row. *)
NewNotices(d) == {n \in Row : \E q \in ToNotify(d) : NoticeId(d, q) = n}

LEMMA NoticesOfABatch ==
    ASSUME IInv, NEW d \in Dispatcher
    PROVE  /\ NextId + Cardinality(ToNotify(d)) \in 1 .. 2 * MaxEvents + 1
           /\ NewNotices(d) = NextId .. NextId + Cardinality(ToNotify(d)) - 1
           /\ \A q \in ToNotify(d) : NoticeId(d, q) \in NewNotices(d)
           /\ \A p, q \in ToNotify(d) : NoticeId(d, p) = NoticeId(d, q) => p = q
           /\ NewNotices(d) \cap Published = {}
           /\ Cardinality(ToNotify(d)) \in Nat
<1> DEFINE T == ToNotify(d)
           k == Cardinality(T)
<1>1. T \in SUBSET Domain /\ \A r \in T : outbox[r].status = "pending"
  BY ToNotifyAre
<1>2. T \in SUBSET Row /\ T \in SUBSET Nat /\ IsFiniteSet(T) /\ k \in Nat
  BY <1>1, Finite, Sets, Constants
<1>3. NextId \in Nat /\ NextId > 0 /\ \A r \in Row : r \in Published <=> r < NextId
  BY NextIdIsNew
<1>4. NextId + k <= 2 * MaxEvents + 1
  <2>1. /\ Cardinality(Published) = Cardinality(Notices) + Cardinality(Domain)
        /\ Cardinality(Notices) + k <= Cardinality(Domain)
    BY <1>1, IdsSuffice
  <2>2. /\ Cardinality(Notices) \in Nat /\ Cardinality(Domain) \in Nat
        /\ Cardinality(Domain) <= MaxEvents
    BY Finite, Sets DEF IInv, DomainBounded
  <2>3. QED
    BY <1>2, <2>1, <2>2, Constants DEF NextId
<1>5. \A q : NoticeId(d, q) = NextId + Rank(T, q)
  BY DEF NoticeId, Rank
<1>6. \A q \in T : Rank(T, q) \in 0 .. k - 1
  BY <1>2, RankIsSmaller
<1>7. \A p, q \in T : Rank(T, p) = Rank(T, q) => p = q
  BY <1>2, RankDiffers
<1>8. \A i \in 0 .. k - 1 : \E q \in T : Rank(T, q) = i
  BY <1>2, RankReached
<1> HIDE DEF T, k
<1>9. \A q \in T : NoticeId(d, q) \in NextId .. NextId + k - 1
  BY <1>2, <1>3, <1>5, <1>6
<1>10. NextId .. NextId + k - 1 \subseteq Row
  BY <1>2, <1>3, <1>4, Constants
<1>11. ASSUME NEW n \in NextId .. NextId + k - 1
       PROVE  \E q \in T : NoticeId(d, q) = n
  <2>1. n - NextId \in 0 .. k - 1
    BY <1>2, <1>3, <1>11
  <2>2. PICK q \in T : Rank(T, q) = n - NextId
    BY <1>8, <2>1
  <2>3. QED
    BY <1>3, <1>5, <2>2
<1>12. NewNotices(d) = NextId .. NextId + k - 1
  BY <1>9, <1>10, <1>11 DEF NewNotices, T
<1>13. \A p, q \in T : NoticeId(d, p) = NoticeId(d, q) => p = q
  <2> SUFFICES ASSUME NEW p \in T, NEW q \in T, NoticeId(d, p) = NoticeId(d, q)
               PROVE  p = q
    OBVIOUS
  <2>1. Rank(T, p) = Rank(T, q)
    BY <1>2, <1>3, <1>5, <1>6
  <2>2. QED
    BY <1>7, <2>1
<1>14. NewNotices(d) \cap Published = {}
  BY <1>2, <1>3, <1>10, <1>12, Sets
<1>15. NextId + k \in 1 .. 2 * MaxEvents + 1
  BY <1>2, <1>3, <1>4, Constants
<1>16. QED
  BY <1>2, <1>9, <1>12, <1>13, <1>14, <1>15 DEF T, k

LEMMA RowDispatched ==
    ASSUME NEW w \in OutboxRow, NEW x, x = [w EXCEPT !.status = "dispatched"]
    PROVE  /\ x.status = "dispatched" /\ x.attempts = w.attempts /\ x.about = w.about
           /\ x \in OutboxRow
BY DEF OutboxRow

LEMMA RowDied ==
    ASSUME NEW w \in OutboxRow, NEW x, w.attempts + 1 = MaxAttempts,
           x = [w EXCEPT !.status = "dead_letter", !.attempts = @ + 1]
    PROVE  /\ x.status = "dead_letter" /\ x.attempts = MaxAttempts /\ x.about = w.about
           /\ x \in OutboxRow
<1>1. MaxAttempts \in 0 .. MaxAttempts
  BY Constants
<1>2. QED
  BY <1>1 DEF OutboxRow

LEMMA RowFailed ==
    ASSUME NEW w \in OutboxRow, NEW x, w.attempts + 1 < MaxAttempts,
           x = [w EXCEPT !.attempts = @ + 1, !.ripe = FALSE]
    PROVE  /\ x.status = w.status /\ x.attempts < MaxAttempts /\ x.about = w.about
           /\ x \in OutboxRow
<1>1. w.attempts + 1 \in 0 .. MaxAttempts
  BY Constants DEF OutboxRow
<1>2. QED
  BY <1>1 DEF OutboxRow

LEMMA CommitEffect ==
    ASSUME IInv, NEW d \in Dispatcher, CommitBatch(d)
    PROVE  /\ outbox' \in [Row -> OutboxRow]
           /\ trx[d].claimed = trx[d].ok \cup trx[d].failed
           /\ \A r \in NewNotices(d) : \E q \in ToNotify(d) :
                 NoticeId(d, q) = r /\ outbox'[r] = Fresh(q)
           /\ \A r \in trx[d].ok : /\ outbox'[r].status = "dispatched"
                                   /\ outbox'[r].attempts = outbox[r].attempts
           /\ \A r \in Exhausted(d) : /\ outbox'[r].status = "dead_letter"
                                      /\ outbox'[r].attempts = MaxAttempts
           /\ \A r \in trx[d].failed \ Exhausted(d) :
                 /\ outbox'[r].status = outbox[r].status
                 /\ outbox'[r].attempts < MaxAttempts
           /\ \A r \in Row \ NewNotices(d) : outbox'[r].about = outbox[r].about
           /\ \A r \in Row \ (NewNotices(d) \cup trx[d].claimed) : outbox'[r] = outbox[r]
<1> DEFINE ok == trx[d].ok
           failed == trx[d].failed
<1>1. /\ ok \in SUBSET Row /\ failed \in SUBSET Row /\ trx[d].claimed \in SUBSET Row
      /\ \A r \in Row : outbox[r] \in OutboxRow /\ outbox[r].attempts \in Nat
  BY Typed, Constants DEF IInv, Tables, Batch, OutboxRow
<1>2. /\ trx[d].claimed = ok \cup failed /\ ok \cap failed = {}
      /\ Exhausted(d) \in SUBSET failed
  BY ToNotifyAre DEF CommitBatch, Undelivered, IInv, BatchesHeld, Held
<1>3. /\ NewNotices(d) \in SUBSET Row
      /\ \A r \in NewNotices(d) : r \notin trx[d].claimed
      /\ ToNotify(d) \in SUBSET Row
  BY NoticesOfABatch, ToNotifyAre, Sets DEF NewNotices
<1>4. \A r \in Row : outbox'[r] = Settled(d, r)
  BY DEF CommitBatch
<1>5. \A r \in trx[d].claimed : outbox[r].status = "pending" /\ outbox[r].attempts < MaxAttempts
  BY <1>1, ToNotifyAre DEF IInv, AttemptsFit
<1>6. ASSUME NEW r \in ok
      PROVE  /\ outbox'[r].status = "dispatched" /\ outbox'[r].attempts = outbox[r].attempts
             /\ outbox'[r].about = outbox[r].about /\ outbox'[r] \in OutboxRow
  <2>1. outbox'[r] = [outbox[r] EXCEPT !.status = "dispatched"]
    BY <1>1, <1>4 DEF Settled
  <2>2. outbox[r] \in OutboxRow
    BY <1>1
  <2>3. QED
    BY <2>1, <2>2, RowDispatched
<1>7. ASSUME NEW r \in Exhausted(d)
      PROVE  /\ outbox'[r].status = "dead_letter" /\ outbox'[r].attempts = MaxAttempts
             /\ outbox'[r].about = outbox[r].about /\ outbox'[r] \in OutboxRow
  <2>1. r \in Row /\ r \notin ok /\ r \in failed
    BY <1>1, <1>2
  <2>2. outbox'[r] = [outbox[r] EXCEPT !.status = "dead_letter", !.attempts = @ + 1]
    BY <1>4, <2>1 DEF Settled
  <2>3. outbox[r].attempts + 1 = MaxAttempts
    <3>1. outbox[r].attempts + 1 >= MaxAttempts
      BY DEF Exhausted
    <3>2. QED
      BY <1>1, <1>2, <1>5, <2>1, <3>1, Constants
  <2>4. outbox[r] \in OutboxRow
    BY <1>1, <2>1
  <2>5. QED
    BY <2>2, <2>3, <2>4, RowDied
<1>8. ASSUME NEW r \in failed \ Exhausted(d)
      PROVE  /\ outbox'[r].status = outbox[r].status /\ outbox'[r].attempts < MaxAttempts
             /\ outbox'[r].about = outbox[r].about /\ outbox'[r] \in OutboxRow
  <2>1. r \in Row /\ r \notin ok /\ r \in failed
    BY <1>1, <1>2
  <2>2. outbox'[r] = [outbox[r] EXCEPT !.attempts = @ + 1, !.ripe = FALSE]
    BY <1>4, <1>8, <2>1 DEF Settled
  <2>3. outbox[r].attempts + 1 < MaxAttempts
    <3>1. ~(outbox[r].attempts + 1 >= MaxAttempts)
      BY <1>8, <2>1 DEF Exhausted
    <3>2. QED
      BY <1>1, <2>1, <3>1, Constants
  <2>4. outbox[r] \in OutboxRow
    BY <1>1, <2>1
  <2>5. QED
    BY <2>2, <2>3, <2>4, RowFailed
<1>9. ASSUME NEW r \in NewNotices(d)
      PROVE  \E q \in ToNotify(d) : NoticeId(d, q) = r /\ outbox'[r] = Fresh(q)
  <2>1. r \in Row /\ r \notin ok /\ r \notin failed /\ r \notin Exhausted(d)
    BY <1>2, <1>3
  <2> DEFINE q == CHOOSE p \in ToNotify(d) : NoticeId(d, p) = r
  <2>2. \E p \in ToNotify(d) : NoticeId(d, p) = r
    BY DEF NewNotices
  <2>3. q \in ToNotify(d) /\ NoticeId(d, q) = r
    BY <2>2
  <2>4. outbox'[r] = Fresh(q)
    BY <1>4, <2>1, <2>2 DEF Settled
  <2>5. QED
    BY <2>3, <2>4
<1>10. ASSUME NEW r \in Row \ (NewNotices(d) \cup trx[d].claimed)
       PROVE  outbox'[r] = outbox[r]
  <2>1. r \notin ok /\ r \notin failed /\ r \notin Exhausted(d)
    BY <1>2, <1>10
  <2>2. ~ \E p \in ToNotify(d) : NoticeId(d, p) = r
    BY DEF NewNotices
  <2>3. QED
    BY <1>4, <2>1, <2>2 DEF Settled
<1>11. ASSUME NEW r \in Row
       PROVE  /\ outbox'[r] \in OutboxRow
              /\ r \notin NewNotices(d) => outbox'[r].about = outbox[r].about
  <2>1. CASE r \in ok
    BY <1>6, <2>1
  <2>2. CASE r \in Exhausted(d)
    BY <1>7, <2>2
  <2>3. CASE r \in failed \ Exhausted(d)
    BY <1>8, <2>3
  <2>4. CASE r \in NewNotices(d)
    <3>1. PICK q \in ToNotify(d) : outbox'[r] = Fresh(q)
      BY <1>9, <2>4
    <3>2. q \in Row
      BY <1>3
    <3>3. QED
      BY <2>4, <3>1, <3>2, Constants DEF Fresh, OutboxRow
  <2>5. CASE r \notin NewNotices(d) \cup trx[d].claimed
    BY <1>1, <1>10, <2>5
  <2>6. QED
    BY <1>2, <2>1, <2>2, <2>3, <2>4, <2>5
<1>12. outbox' \in [Row -> OutboxRow]
  <2>1. outbox' = [r \in Row |-> Settled(d, r)]
    BY DEF CommitBatch
  <2>2. \A r \in Row : Settled(d, r) \in OutboxRow
    BY <1>4, <1>11
  <2>3. QED
    BY <2>1, <2>2
<1>13. \A r \in ok : outbox'[r].status = "dispatched" /\ outbox'[r].attempts = outbox[r].attempts
  BY <1>6
<1>14. \A r \in Exhausted(d) : /\ outbox'[r].status = "dead_letter"
                               /\ outbox'[r].attempts = MaxAttempts
  BY <1>7
<1>15. \A r \in failed \ Exhausted(d) : /\ outbox'[r].status = outbox[r].status
                                        /\ outbox'[r].attempts < MaxAttempts
  BY <1>8
<1>16. QED
  BY <1>2, <1>9, <1>10, <1>11, <1>12, <1>13, <1>14, <1>15

LEMMA PublishEffect ==
    ASSUME IInv, Publish
    PROVE  /\ NextId \in Row /\ NextId \notin Published
           /\ Cardinality(Domain) < MaxEvents
           /\ outbox' = [outbox EXCEPT ![NextId] = Fresh(0)]
           /\ outbox' \in [Row -> OutboxRow]
<1>1. Cardinality(Domain) < MaxEvents
  BY DEF Publish, Domain
<1>2. Cardinality(Published) = Cardinality(Notices) + Cardinality(Domain)
      /\ Cardinality(Notices) + Cardinality({}) <= Cardinality(Domain)
  BY IdsSuffice
<1>3. NextId \in Row
  <2>1. Cardinality(Notices) \in Nat /\ Cardinality(Domain) \in Nat /\ Cardinality({}) = 0
    BY Finite, Sets, FS_EmptySet
  <2>2. QED
    BY <1>1, <1>2, <2>1, Constants DEF NextId
<1>4. NextId \notin Published
  BY <1>3, NextIdIsNew
<1>5. Fresh(0) \in OutboxRow
  BY Constants DEF Fresh, OutboxRow
<1>6. outbox' \in [Row -> OutboxRow]
  BY <1>3, <1>5, Typed DEF Publish, IInv, Tables
<1>7. QED
  BY <1>1, <1>3, <1>4, <1>6 DEF Publish

(* What every other step leaves of the table. *)
Quiet ==
    /\ outbox' \in [Row -> OutboxRow]
    /\ \A r \in Row : /\ outbox'[r].status = outbox[r].status
                      /\ outbox'[r].attempts = outbox[r].attempts
                      /\ outbox'[r].about = outbox[r].about
                      /\ outbox[r].status = "absent" => outbox'[r] = outbox[r]

LEMMA OtherStepsAreQuiet ==
    ASSUME IInv, [Next]_vars, ~Publish, \A d \in Dispatcher : ~CommitBatch(d)
    PROVE  Quiet
<1>1. outbox \in [Row -> OutboxRow]
  BY Typed DEF IInv, Tables
<1>2. CASE UNCHANGED outbox
  BY <1>1, <1>2 DEF Quiet
<1>3. ASSUME NEW r \in Row, BackoffElapses(r)
      PROVE  Quiet
  <2>1. outbox' = [outbox EXCEPT ![r].ripe = TRUE] /\ outbox[r].status = "pending"
    BY <1>3 DEF BackoffElapses
  <2>2. /\ outbox'[r] = [outbox[r] EXCEPT !.ripe = TRUE]
        /\ \A q \in Row \ {r} : outbox'[q] = outbox[q]
    BY <1>1, <2>1
  <2>3. /\ outbox'[r].status = outbox[r].status
        /\ outbox'[r].attempts = outbox[r].attempts
        /\ outbox'[r].about = outbox[r].about
        /\ outbox'[r] \in OutboxRow
    BY <1>1, <2>2 DEF OutboxRow
  <2>4. outbox' \in [Row -> OutboxRow]
    BY <1>1, <2>1, <2>2, <2>3
  <2>5. QED
    BY <2>1, <2>2, <2>3, <2>4 DEF Quiet
<1>4. QED
  BY <1>2, <1>3 DEF Next, vars, Subscribe, StartDispatcher, ClaimBatch, DeliverAny, Deliver,
                    BatchFails, Stop, Stopped, Crash

Table == AttemptsFit /\ IdsWithoutGap /\ NoticesFit /\ DomainBounded

LEMMA QuietKeepsTable ==
    ASSUME IInv, Quiet
    PROVE  Table'
<1>1. Published' = Published /\ Notices' = Notices /\ Domain' = Domain
  BY DEF Quiet, Published, Notices, Domain, IsNotice
<1>2. AttemptsFit'
  BY DEF Quiet, IInv, AttemptsFit, Absent
<1>3. IdsWithoutGap'
  BY <1>1 DEF IInv, IdsWithoutGap
<1>4. NoticesFit'
  <2>1. \A r \in Row : outbox'[r].about = outbox[r].about /\ outbox'[r].status = outbox[r].status
    BY DEF Quiet
  <2>2. QED
    BY <1>1, <2>1, Sets DEF IInv, NoticesFit
<1>5. DomainBounded'
  BY <1>1 DEF IInv, DomainBounded
<1>6. QED
  BY <1>2, <1>3, <1>4, <1>5 DEF Table

LEMMA PublishKeepsTable ==
    ASSUME IInv, Publish
    PROVE  Table'
<1> DEFINE n == NextId
<1>1. /\ n \in Row /\ n \notin Published /\ outbox \in [Row -> OutboxRow]
      /\ Cardinality(Domain) < MaxEvents
      /\ outbox' = [outbox EXCEPT ![n] = Fresh(0)]
  BY PublishEffect, Typed DEF IInv, Tables
<1>2. n \in Nat /\ n = Cardinality(Published) + 1
  BY NextIdIsNew DEF NextId
<1> HIDE DEF n
<1>3. outbox'[n] = Fresh(0) /\ \A r \in Row \ {n} : outbox'[r] = outbox[r]
  BY <1>1
<1>4. /\ outbox'[n].status = "pending" /\ outbox'[n].about = 0 /\ outbox'[n].attempts = 0
  BY <1>3 DEF Fresh
<1>5. Published' = Published \cup {n}
  BY <1>1, <1>3, <1>4 DEF Published
<1>6. Domain' = Domain \cup {n}
  BY <1>1, <1>3, <1>4, <1>5, Sets DEF Domain, IsNotice
<1>7. Notices' = Notices
  BY <1>1, <1>3, <1>4, <1>5, Sets DEF Notices, IsNotice
<1>8. AttemptsFit'
  BY <1>3, <1>4, Constants DEF IInv, AttemptsFit
<1>9. IdsWithoutGap'
  <2>1. Cardinality(Published') = Cardinality(Published) + 1
    BY <1>1, <1>5, Finite, Sets, FS_AddElement
  <2>2. Published = 1 .. Cardinality(Published) /\ Cardinality(Published) \in Nat
    BY Finite, Sets DEF IInv, IdsWithoutGap
  <2>3. 1 .. n = (1 .. Cardinality(Published)) \cup {n}
    BY <1>2, <2>2
  <2>4. QED
    BY <1>2, <1>5, <2>1, <2>2, <2>3 DEF IdsWithoutGap
<1>10. NoticesFit'
  <2>1. /\ \A m \in Notices : m # n /\ outbox'[m] = outbox[m]
        /\ \A r \in Domain : r # n /\ outbox'[r] = outbox[r]
    BY <1>1, <1>3, Sets
  <2>2. QED
    BY <1>4, <1>6, <1>7, <2>1 DEF IInv, NoticesFit
<1>11. DomainBounded'
  <2>1. n \notin Domain
    BY <1>1, Sets
  <2>2. Cardinality(Domain') = Cardinality(Domain) + 1 /\ Cardinality(Domain) \in Nat
    BY <1>6, <2>1, Finite, Sets, FS_AddElement
  <2>3. QED
    BY <1>1, <2>2, Constants DEF DomainBounded
<1>12. QED
  BY <1>8, <1>9, <1>10, <1>11 DEF Table

LEMMA CommitKeepsTable ==
    ASSUME IInv, NEW d \in Dispatcher, CommitBatch(d)
    PROVE  /\ Table'
           /\ Published' = Published \cup NewNotices(d)
           /\ NewNotices(d) \in SUBSET Row
<1> DEFINE N == NewNotices(d)
           T == ToNotify(d)
           k == Cardinality(T)
           C == trx[d].claimed
<1>1. /\ N \in SUBSET Row /\ C \in SUBSET Published
      /\ \A r \in C : outbox[r].status = "pending"
      /\ Exhausted(d) \in SUBSET trx[d].failed
      /\ T \in SUBSET Domain /\ k \in Nat
      /\ N \cap Published = {}
  BY ToNotifyAre, NoticesOfABatch DEF NewNotices
<1>2. /\ C = trx[d].ok \cup trx[d].failed
      /\ \A r \in N : \E q \in T : NoticeId(d, q) = r /\ outbox'[r] = Fresh(q)
      /\ \A r \in trx[d].ok : /\ outbox'[r].status = "dispatched"
                              /\ outbox'[r].attempts = outbox[r].attempts
      /\ \A r \in Exhausted(d) : /\ outbox'[r].status = "dead_letter"
                                 /\ outbox'[r].attempts = MaxAttempts
      /\ \A r \in trx[d].failed \ Exhausted(d) :
            /\ outbox'[r].status = outbox[r].status
            /\ outbox'[r].attempts < MaxAttempts
      /\ \A r \in Row \ N : outbox'[r].about = outbox[r].about
      /\ \A r \in Row \ (N \cup C) : outbox'[r] = outbox[r]
  BY CommitEffect
<1>3. \A r \in N : \E q \in T : /\ NoticeId(d, q) = r /\ outbox'[r].about = q
                                /\ outbox'[r].status = "pending" /\ outbox'[r].attempts = 0
  <2>1. \A q : Fresh(q).about = q /\ Fresh(q).status = "pending" /\ Fresh(q).attempts = 0
    BY DEF Fresh
  <2> SUFFICES ASSUME NEW r \in N
               PROVE  \E q \in T : /\ NoticeId(d, q) = r /\ outbox'[r].about = q
                                   /\ outbox'[r].status = "pending" /\ outbox'[r].attempts = 0
    OBVIOUS
  <2>2. PICK q \in T : NoticeId(d, q) = r /\ outbox'[r] = Fresh(q)
    BY <1>2
  <2>3. QED
    BY <2>1, <2>2
<1>4. T = {r \in Exhausted(d) : outbox[r].about = 0}
  BY DEF ToNotify, IsNotice
<1>5. /\ \A q \in T : NoticeId(d, q) \in N
      /\ \A p, q \in T : NoticeId(d, p) = NoticeId(d, q) => p = q
      /\ N = NextId .. NextId + k - 1
  BY NoticesOfABatch
<1> HIDE DEF N, T, k, C
<1>6. Published' = Published \cup N
  <2>1. ASSUME NEW r \in C PROVE outbox'[r].status # "absent"
    BY <1>1, <1>2, <2>1
  <2>2. QED
    BY <1>1, <1>2, <1>3, <2>1 DEF Published
<1>7. Domain' = Domain
  <2>1. \A r \in N : outbox'[r].about # 0
    BY <1>1, <1>3, Sets, Constants
  <2>2. QED
    BY <1>1, <1>2, <1>6, <2>1, Sets DEF Domain, IsNotice
<1>8. Notices' = Notices \cup N
  <2>1. \A r \in N : outbox'[r].about # 0
    BY <1>1, <1>3, Sets, Constants
  <2>2. QED
    BY <1>1, <1>2, <1>6, <2>1, Sets DEF Notices, IsNotice
<1>9. AttemptsFit'
  <2> SUFFICES ASSUME NEW r \in Row
               PROVE  /\ outbox'[r].status = "absent" => outbox'[r] = Absent
                      /\ outbox'[r].status \in {"pending", "dispatched"} =>
                            outbox'[r].attempts < MaxAttempts
                      /\ outbox'[r].status = "dead_letter" => outbox'[r].attempts = MaxAttempts
    BY DEF AttemptsFit
  <2>1. CASE r \in N
    BY <1>3, <2>1, Constants
  <2>2. CASE r \in trx[d].ok
    BY <1>1, <1>2, <2>2 DEF IInv, AttemptsFit
  <2>3. CASE r \in Exhausted(d)
    BY <1>2, <2>3
  <2>4. CASE r \in trx[d].failed \ Exhausted(d)
    BY <1>1, <1>2, <2>4
  <2>5. CASE r \notin N \cup C
    BY <1>2, <2>5 DEF IInv, AttemptsFit
  <2>6. QED
    BY <1>2, <2>1, <2>2, <2>3, <2>4, <2>5
<1>10. IdsWithoutGap'
  <2>1. Published = 1 .. Cardinality(Published) /\ Cardinality(Published) \in Nat
    BY Finite, Sets DEF IInv, IdsWithoutGap
  <2>2. Published' = 1 .. Cardinality(Published) + k
    BY <1>1, <1>5, <1>6, <2>1 DEF NextId
  <2>3. Cardinality(Published') = Cardinality(Published) + k
    BY <1>1, <2>1, <2>2, FS_Interval
  <2>4. QED
    BY <2>2, <2>3 DEF IdsWithoutGap
<1>11. NoticesFit'
  <2>1. \A n \in Notices : /\ n \in Row \ N /\ outbox[n].about \in Domain
                           /\ outbox'[n].about = outbox[n].about
                           /\ outbox[outbox[n].about].status = "dead_letter"
    BY <1>1, <1>2, Sets DEF IInv, NoticesFit
  <2>2. \A r \in Domain : outbox[r].status = "dead_letter" => outbox'[r] = outbox[r]
    BY <1>1, <1>2, Sets
  <2>3. \A q \in T : outbox'[q].status = "dead_letter" /\ outbox[q].status = "pending"
    BY <1>1, <1>2, <1>4
  <2>4. ASSUME NEW n \in Notices'
        PROVE  /\ outbox'[n].about \in Domain
               /\ outbox'[outbox'[n].about].status = "dead_letter"
    BY <1>1, <1>3, <1>8, <2>1, <2>2, <2>3
  <2>5. ASSUME NEW m \in Notices', NEW n \in Notices', outbox'[m].about = outbox'[n].about
        PROVE  m = n
    <3>1. CASE m \in Notices /\ n \in Notices
      BY <2>1, <2>5, <3>1 DEF IInv, NoticesFit
    <3>2. CASE m \in N /\ n \in N
      BY <1>3, <1>5, <2>5, <3>2
    <3>3. CASE (m \in N /\ n \in Notices) \/ (m \in Notices /\ n \in N)
      BY <1>3, <2>1, <2>3, <2>5, <3>3
    <3>4. QED
      BY <1>8, <3>1, <3>2, <3>3
  <2>6. ASSUME NEW r \in Domain, outbox'[r].status = "dead_letter"
        PROVE  \E n \in Notices' : outbox'[n].about = r
    <3>1. CASE r \in T
      <4>1. NoticeId(d, r) \in N
        BY <1>5, <3>1
      <4>2. PICK q \in T : NoticeId(d, q) = NoticeId(d, r) /\ outbox'[NoticeId(d, r)].about = q
        BY <1>3, <4>1
      <4>3. q = r
        BY <1>5, <3>1, <4>2
      <4>4. QED
        BY <1>8, <4>1, <4>2, <4>3
    <3>2. CASE r \notin T
      <4>1. r \in Row \ N /\ outbox[r].about = 0 /\ r \notin Exhausted(d)
        BY <1>1, <1>4, <3>2, Sets DEF Domain, IsNotice
      <4>2. outbox[r].status = "dead_letter"
        BY <1>1, <1>2, <2>6, <4>1
      <4>3. PICK n \in Notices : outbox[n].about = r
        BY <4>2 DEF IInv, NoticesFit
      <4>4. QED
        BY <1>8, <2>1, <4>3
    <3>3. QED
      BY <3>1, <3>2
  <2>7. QED
    BY <1>7, <2>4, <2>5, <2>6 DEF NoticesFit
<1>12. DomainBounded'
  BY <1>7 DEF IInv, DomainBounded
<1>13. QED
  BY <1>1, <1>6, <1>9, <1>10, <1>11, <1>12 DEF Table, N

LEMMA TypePreserved ==
    ASSUME IInv, [Next]_vars
    PROVE  TypeOK'
<1>1. TypeOK /\ Tables
  BY Typed DEF IInv
<1>2. CASE UNCHANGED vars
  BY <1>1, <1>2 DEF vars, TypeOK
<1>3. CASE Publish
  BY <1>1, <1>3, PublishEffect DEF Publish, TypeOK, OutboxRow
<1>4. ASSUME NEW r \in Row, BackoffElapses(r)
      PROVE  TypeOK'
  <2> DEFINE x == [outbox[r] EXCEPT !.ripe = TRUE]
  <2>1. outbox \in [Row -> OutboxRow] /\ outbox' = [outbox EXCEPT ![r] = x]
    BY <1>1, <1>4 DEF BackoffElapses, TypeOK, OutboxRow
  <2>2. x \in OutboxRow
    BY <2>1 DEF OutboxRow
  <2> HIDE DEF x
  <2>3. outbox' \in [Row -> OutboxRow]
    BY <2>1, <2>2
  <2> QED BY <1>1, <1>4, <2>3 DEF BackoffElapses, TypeOK, OutboxRow
<1>5. ASSUME NEW d \in Dispatcher, Subscribe(d) \/ StartDispatcher(d) \/ Stopped(d)
      PROVE  TypeOK'
  BY <1>1, <1>5 DEF Subscribe, StartDispatcher, Stopped, TypeOK
<1>6. ASSUME NEW d \in Dispatcher, ClaimBatch(d)
      PROVE  TypeOK'
  <2>1. PICK S \in SUBSET Ready(d) : trx' = [trx EXCEPT ![d].claimed = S]
    BY <1>6 DEF ClaimBatch
  <2>2. S \in SUBSET Row
    BY DEF Ready
  <2>3. trx' \in [Dispatcher -> Batch]
    BY <1>1, <2>1, <2>2 DEF Tables, Batch
  <2>4. QED
    BY <1>1, <1>6, <2>3 DEF ClaimBatch, TypeOK, Batch
<1>7. ASSUME NEW d \in Dispatcher, NEW r \in Row, NEW J \in SUBSET Subscriber, Deliver(d, r, J)
      PROVE  TypeOK'
  <2>1. trx' \in [Dispatcher -> Batch]
    <3>1. CASE Fails(d, J)
      BY <1>1, <1>7, <3>1 DEF Deliver, Tables, Batch
    <3>2. CASE ~Fails(d, J)
      BY <1>1, <1>7, <3>2 DEF Deliver, Tables, Batch
    <3>3. QED
      BY <3>1, <3>2
  <2>2. Subscribers(d) \subseteq Subscriber
    BY DEF Subscribers
  <2>3. handled' \subseteq Subscriber \X Row
    BY <1>1, <1>7, <2>2 DEF Deliver, TypeOK
  <2>4. QED
    BY <1>1, <1>7, <2>1, <2>3 DEF Deliver, TypeOK, Batch
<1>8. ASSUME NEW d \in Dispatcher, CommitBatch(d)
      PROVE  TypeOK'
  <2>1. outbox' \in [Row -> OutboxRow]
    BY <1>8, CommitEffect
  <2>2. NoTrx \in Batch
    BY DEF NoTrx, Batch
  <2>3. trx' \in [Dispatcher -> Batch]
    BY <1>1, <1>8, <2>2 DEF CommitBatch, Tables
  <2>4. QED
    BY <1>1, <1>8, <2>1, <2>3 DEF CommitBatch, TypeOK, OutboxRow, Batch
<1>9. ASSUME NEW d \in Dispatcher, BatchFails(d) \/ Stop(d) \/ Crash(d)
      PROVE  TypeOK'
  <2>1. NoTrx \in Batch
    BY DEF NoTrx, Batch
  <2>2. trx' \in [Dispatcher -> Batch]
    BY <1>1, <1>9, <2>1 DEF BatchFails, Stop, Crash, Tables
  <2>3. process' \in [Dispatcher -> {"down", "subscribed", "running", "stopping"}]
    BY <1>1, <1>9 DEF BatchFails, Stop, Crash, TypeOK
  <2>4. faults' \in 0 .. MaxFaults
    BY <1>1, <1>9, Constants DEF BatchFails, Stop, Crash, TypeOK
  <2>5. QED
    BY <1>1, <1>9, <2>2, <2>3, <2>4 DEF BatchFails, Stop, Crash, TypeOK, Batch
<1>10. QED
  BY <1>2, <1>3, <1>4, <1>5, <1>6, <1>7, <1>8, <1>9 DEF Next, DeliverAny

(* How a step changes the batches: a claim, a delivery, or a batch ended. *)
LEMMA DeliverEffect ==
    ASSUME IInv, NEW d \in Dispatcher, NEW r \in Row, NEW J \in SUBSET Subscriber,
           Deliver(d, r, J)
    PROVE  /\ r \in trx[d].claimed /\ r \notin trx[d].ok \cup trx[d].failed
           /\ trx'[d].claimed = trx[d].claimed
           /\ \/ trx'[d].ok = trx[d].ok /\ trx'[d].failed = trx[d].failed \cup {r}
              \/ /\ trx'[d].ok = trx[d].ok \cup {r} /\ trx'[d].failed = trx[d].failed
                 /\ \A s \in Subscriber : <<s, r>> \in handled'
           /\ \A e \in Dispatcher \ {d} : trx'[e] = trx[e]
           /\ handled \subseteq handled'
           /\ process[d] # "down"
<1>1. trx \in [Dispatcher -> Batch]
  BY Typed DEF IInv, Tables
<1>2. r \in trx[d].claimed /\ r \notin trx[d].ok \cup trx[d].failed
  BY DEF Deliver, Undelivered
<1>3. process[d] # "down"
  BY <1>2 DEF IInv, BatchesHeld, Held, NoTrx
<1>4. \A e \in Dispatcher \ {d} : trx'[e] = trx[e]
  BY <1>1 DEF Deliver
<1>5. CASE Fails(d, J)
  <2>1. trx' = [trx EXCEPT ![d].failed = @ \cup {r}]
    BY <1>5 DEF Deliver
  <2>2. /\ trx'[d].claimed = trx[d].claimed /\ trx'[d].ok = trx[d].ok
        /\ trx'[d].failed = trx[d].failed \cup {r}
    BY <1>1, <2>1 DEF Batch
  <2>3. handled \subseteq handled'
    BY DEF Deliver
  <2>4. QED
    BY <1>2, <1>3, <1>4, <2>2, <2>3
<1>6. CASE ~Fails(d, J)
  <2>1. trx' = [trx EXCEPT ![d].ok = @ \cup {r}]
    BY <1>6 DEF Deliver
  <2>2. /\ trx'[d].claimed = trx[d].claimed /\ trx'[d].failed = trx[d].failed
        /\ trx'[d].ok = trx[d].ok \cup {r}
    BY <1>1, <2>1 DEF Batch
  <2>3. J = {} /\ Subscribers(d) = Subscriber
    BY <1>3, <1>6 DEF Fails, Subscribers
  <2>4. handled' = handled \cup (Subscriber \X {r})
    BY <2>3 DEF Deliver
  <2>5. \A s \in Subscriber : <<s, r>> \in handled'
    BY <2>4
  <2>6. QED
    BY <1>2, <1>3, <1>4, <2>2, <2>4, <2>5
<1>7. QED
  BY <1>5, <1>6

LEMMA ClaimEffect ==
    ASSUME IInv, NEW d \in Dispatcher, ClaimBatch(d)
    PROVE  /\ process[d] = "running" /\ trx'[d].ok = {} /\ trx'[d].failed = {}
           /\ \A r \in trx'[d].claimed :
                 /\ outbox[r].status = "pending"
                 /\ \A e \in Dispatcher \ {d} : r \notin trx[e].claimed
           /\ \A e \in Dispatcher \ {d} : trx'[e] = trx[e]
<1>1. trx \in [Dispatcher -> Batch] /\ trx[d] = NoTrx
  BY Typed DEF IInv, Tables, ClaimBatch
<1>2. PICK S \in SUBSET Ready(d) : trx' = [trx EXCEPT ![d].claimed = S]
  BY DEF ClaimBatch
<1>3. trx'[d].claimed = S /\ trx'[d].ok = {} /\ trx'[d].failed = {}
  BY <1>1, <1>2 DEF NoTrx, Batch
<1>4. \A r \in S : /\ outbox[r].status = "pending"
                   /\ \A e \in Dispatcher \ {d} : r \notin trx[e].claimed
  BY DEF Ready, Locked
<1>5. QED
  BY <1>1, <1>2, <1>3, <1>4 DEF ClaimBatch

Ends(d) == /\ trx' = [trx EXCEPT ![d] = NoTrx]
           /\ handled' = handled
           /\ \A e \in Dispatcher \ {d} : process'[e] = process[e]

LEMMA EndEffect ==
    ASSUME IInv, NEW d \in Dispatcher, CommitBatch(d) \/ BatchFails(d) \/ Crash(d)
    PROVE  /\ Ends(d)
           /\ trx'[d].claimed = {} /\ trx'[d].ok = {} /\ trx'[d].failed = {} /\ trx'[d] = NoTrx
           /\ \A e \in Dispatcher \ {d} : trx'[e] = trx[e]
<1>1. trx \in [Dispatcher -> Batch] /\ process = [e \in Dispatcher |-> process[e]]
  BY Typed DEF IInv, Tables, TypeOK
<1>2. Ends(d)
  BY <1>1 DEF CommitBatch, BatchFails, Crash, Ends
<1>3. QED
  BY <1>1, <1>2 DEF Ends, NoTrx

LEMMA BatchesPreserved ==
    ASSUME IInv, [Next]_vars
    PROVE  BatchesHeld'
<1> SUFFICES ASSUME NEW e \in Dispatcher PROVE Held(e)'
  BY DEF BatchesHeld
<1>1. /\ trx[e] # NoTrx => process[e] # "down"
      /\ trx[e].ok \subseteq trx[e].claimed /\ trx[e].failed \subseteq trx[e].claimed
      /\ trx[e].ok \cap trx[e].failed = {}
      /\ \A r \in trx[e].ok : \A s \in Subscriber : <<s, r>> \in handled
      /\ process \in [Dispatcher -> {"down", "subscribed", "running", "stopping"}]
  BY DEF IInv, BatchesHeld, Held, TypeOK
<1>2. CASE UNCHANGED <<process, trx, handled>>
  BY <1>1, <1>2 DEF Held
<1>3. ASSUME NEW d \in Dispatcher, Subscribe(d) \/ StartDispatcher(d) \/ Stop(d) \/ Stopped(d)
      PROVE  Held(e)'
  BY <1>1, <1>3 DEF Subscribe, StartDispatcher, Stop, Stopped, Held
<1>4. ASSUME NEW d \in Dispatcher, ClaimBatch(d)
      PROVE  Held(e)'
  <2>1. process' = process /\ handled' = handled
    BY <1>4 DEF ClaimBatch
  <2>2. QED
    BY <1>1, <1>4, <2>1, ClaimEffect DEF Held
<1>5. ASSUME NEW d \in Dispatcher, NEW r \in Row, NEW J \in SUBSET Subscriber, Deliver(d, r, J)
      PROVE  Held(e)'
  <2>1. process' = process
    BY <1>5 DEF Deliver
  <2>2. process[d] # "down" /\ handled \subseteq handled'
    BY <1>5, DeliverEffect
  <2>3. CASE e = d
    <3>1. CASE trx'[d].ok = trx[d].ok /\ trx'[d].failed = trx[d].failed \cup {r}
      BY <1>1, <1>5, <2>1, <2>2, <2>3, <3>1, DeliverEffect DEF Held
    <3>2. CASE /\ trx'[d].ok = trx[d].ok \cup {r} /\ trx'[d].failed = trx[d].failed
               /\ \A s \in Subscriber : <<s, r>> \in handled'
      BY <1>1, <1>5, <2>1, <2>2, <2>3, <3>2, DeliverEffect DEF Held
    <3>3. QED
      BY <1>5, <3>1, <3>2, DeliverEffect
  <2>4. CASE e # d
    <3>1. trx'[e] = trx[e]
      BY <1>5, <2>4, DeliverEffect
    <3>2. QED
      BY <1>1, <2>1, <2>2, <3>1 DEF Held
  <2>5. QED
    BY <2>3, <2>4
<1>6. ASSUME NEW d \in Dispatcher, CommitBatch(d) \/ BatchFails(d) \/ Crash(d)
      PROVE  Held(e)'
  <2>1. CASE e = d
    BY <1>6, <2>1, EndEffect DEF Held
  <2>2. CASE e # d
    <3>1. trx'[e] = trx[e] /\ process'[e] = process[e] /\ handled' = handled
      BY <1>6, <2>2, EndEffect DEF Ends
    <3>2. QED
      BY <1>1, <3>1 DEF Held
  <2>3. QED
    BY <2>1, <2>2
<1>7. QED
  BY <1>2, <1>3, <1>4, <1>5, <1>6 DEF Next, vars, Publish, BackoffElapses, DeliverAny

(* A claimed row keeps its status unless the batch that holds it commits. *)
LEMMA ClaimedRowsKeep ==
    ASSUME IInv, [Next]_vars, NEW e \in Dispatcher, NEW r \in trx[e].claimed,
           ~CommitBatch(e)
    PROVE  r \in Row /\ outbox'[r].status = outbox[r].status
<1>1. r \in Row /\ r \in Published /\ outbox[r].status = "pending"
  BY ToNotifyAre, Sets
<1>2. CASE Quiet
  BY <1>1, <1>2 DEF Quiet
<1>3. CASE Publish
  <2>1. /\ outbox' = [outbox EXCEPT ![NextId] = Fresh(0)] /\ NextId \notin Published
        /\ outbox \in [Row -> OutboxRow]
    BY <1>3, PublishEffect, Typed DEF IInv, Tables
  <2>2. QED
    BY <1>1, <2>1
<1>4. ASSUME NEW d \in Dispatcher, CommitBatch(d)
      PROVE  outbox'[r].status = outbox[r].status
  <2>1. d # e
    BY <1>4
  <2>2. r \notin trx[d].claimed
    BY <2>1 DEF IInv, ClaimsExclusive
  <2>3. r \notin NewNotices(d)
    BY <1>1, NoticesOfABatch
  <2>4. outbox'[r] = outbox[r]
    BY <1>1, <1>4, <2>2, <2>3, CommitEffect
  <2>5. QED
    BY <2>4
<1>5. QED
  BY <1>1, <1>2, <1>3, <1>4, OtherStepsAreQuiet

LEMMA ClaimsPreserved ==
    ASSUME IInv, [Next]_vars
    PROVE  ClaimsExclusive'
<1>1. \A e \in Dispatcher : \A r \in trx[e].claimed :
         /\ outbox[r].status = "pending"
         /\ \A f \in Dispatcher \ {e} : r \notin trx[f].claimed
  BY DEF IInv, ClaimsExclusive
<1>2. ASSUME \A d \in Dispatcher : trx'[d].claimed \subseteq trx[d].claimed,
             \A d \in Dispatcher : CommitBatch(d) => trx'[d].claimed = {}
      PROVE  ClaimsExclusive'
  BY <1>1, <1>2, ClaimedRowsKeep DEF ClaimsExclusive
<1>3. CASE trx' = trx
  <2>1. ASSUME NEW d \in Dispatcher, CommitBatch(d)
        PROVE  trx'[d].claimed = {}
    BY <2>1, EndEffect
  <2>2. QED
    BY <1>2, <1>3, <2>1
<1>4. ASSUME NEW d \in Dispatcher, ClaimBatch(d)
      PROVE  ClaimsExclusive'
  <2>1. outbox' = outbox
    BY <1>4 DEF ClaimBatch
  <2>2. /\ \A e \in Dispatcher \ {d} : trx'[e] = trx[e]
        /\ \A r \in trx'[d].claimed :
              /\ outbox[r].status = "pending"
              /\ \A e \in Dispatcher \ {d} : r \notin trx[e].claimed
    BY <1>4, ClaimEffect
  <2>3. ASSUME NEW e \in Dispatcher, NEW r \in trx'[e].claimed
        PROVE  /\ outbox[r].status = "pending"
               /\ \A f \in Dispatcher \ {e} : r \notin trx'[f].claimed
    <3>1. CASE e = d
      BY <2>2, <2>3, <3>1
    <3>2. CASE e # d
      BY <1>1, <2>2, <2>3, <3>2
    <3>3. QED
      BY <3>1, <3>2
  <2>4. QED
    BY <2>1, <2>3 DEF ClaimsExclusive
<1>5. ASSUME NEW d \in Dispatcher, NEW q \in Row, NEW J \in SUBSET Subscriber, Deliver(d, q, J)
      PROVE  ClaimsExclusive'
  <2>1. \A e \in Dispatcher : trx'[e].claimed = trx[e].claimed
    BY <1>5, DeliverEffect
  <2>2. ASSUME NEW e \in Dispatcher, CommitBatch(e)
        PROVE  trx'[e].claimed = {}
    BY <2>2, EndEffect
  <2>3. QED
    BY <1>2, <2>1, <2>2
<1>6. ASSUME NEW d \in Dispatcher, CommitBatch(d) \/ BatchFails(d) \/ Crash(d)
      PROVE  ClaimsExclusive'
  <2>1. \A e \in Dispatcher : trx'[e].claimed \subseteq trx[e].claimed
    BY <1>6, EndEffect
  <2>2. ASSUME NEW e \in Dispatcher, CommitBatch(e)
        PROVE  trx'[e].claimed = {}
    BY <2>2, EndEffect
  <2>3. QED
    BY <1>2, <2>1, <2>2
<1>7. QED
  BY <1>3, <1>4, <1>5, <1>6 DEF Next, vars, DeliverAny, Publish, BackoffElapses, Subscribe,
                               StartDispatcher, Stop, Stopped

LEMMA HandledPreserved ==
    ASSUME IInv, [Next]_vars
    PROVE  DispatchedWasHandled'
<1> SUFFICES ASSUME NEW r \in Row, outbox'[r].status = "dispatched", NEW s \in Subscriber
             PROVE  <<s, r>> \in handled'
  BY DEF DispatchedWasHandled
<1>1. handled \subseteq handled'
  BY DEF Next, vars, DeliverAny, Publish, BackoffElapses, Subscribe, StartDispatcher,
         ClaimBatch, Deliver, CommitBatch, BatchFails, Stop, Stopped, Crash
<1>2. outbox[r].status = "dispatched" => <<s, r>> \in handled
  BY DEF IInv, DispatchedWasHandled
<1>3. CASE Quiet
  BY <1>1, <1>2, <1>3 DEF Quiet
<1>4. CASE Publish
  <2>1. /\ outbox' = [outbox EXCEPT ![NextId] = Fresh(0)] /\ NextId \in Row
        /\ outbox \in [Row -> OutboxRow]
    BY <1>4, PublishEffect, Typed DEF IInv, Tables
  <2>2. r # NextId
    BY <2>1 DEF Fresh
  <2>3. QED
    BY <1>1, <1>2, <2>1, <2>2
<1>5. ASSUME NEW d \in Dispatcher, CommitBatch(d)
      PROVE  <<s, r>> \in handled'
  <2>1. CASE r \in trx[d].ok
    BY <1>1, <2>1 DEF IInv, BatchesHeld, Held
  <2>2. CASE r \notin trx[d].ok
    <3>1. r \notin NewNotices(d)
      <4>1. \A q : Fresh(q).status = "pending"
        BY DEF Fresh
      <4>2. QED
        BY <1>5, <4>1, CommitEffect
    <3>2. CASE r \in trx[d].claimed
      BY <1>5, <2>2, <3>2, CommitEffect, ToNotifyAre
    <3>3. CASE r \notin trx[d].claimed
      BY <1>1, <1>2, <1>5, <3>1, <3>3, CommitEffect
    <3>4. QED
      BY <3>2, <3>3
  <2>3. QED
    BY <2>1, <2>2
<1>6. QED
  BY <1>3, <1>4, <1>5, OtherStepsAreQuiet

LEMMA InitIInv == Init => IInv
<1> SUFFICES ASSUME Init PROVE IInv
  OBVIOUS
<1>1. TypeOK
  BY Constants DEF Init, TypeOK, Absent, NoTrx
<1>2. /\ \A r \in Row : outbox[r] = Absent
      /\ Published = {} /\ Notices = {} /\ Domain = {}
  BY DEF Init, Published, Notices, Domain, Absent
<1>3. BatchesHeld /\ ClaimsExclusive /\ AttemptsFit /\ DispatchedWasHandled
  BY <1>2, Constants DEF Init, BatchesHeld, Held, ClaimsExclusive, AttemptsFit,
                         DispatchedWasHandled, Absent, NoTrx
<1>4. IdsWithoutGap /\ DomainBounded
  <2>1. Cardinality({}) = 0
    BY FS_EmptySet
  <2>2. QED
    BY <1>2, <2>1, Constants DEF IdsWithoutGap, DomainBounded
<1>5. NoticesFit
  BY <1>2 DEF NoticesFit
<1>6. QED
  BY <1>1, <1>3, <1>4, <1>5 DEF IInv

LEMMA NextIInv == IInv /\ [Next]_vars => IInv'
<1> SUFFICES ASSUME IInv, [Next]_vars PROVE IInv'
  OBVIOUS
<1>1. Table'
  BY QuietKeepsTable, PublishKeepsTable, CommitKeepsTable, OtherStepsAreQuiet
<1>2. QED
  BY <1>1, TypePreserved, BatchesPreserved, ClaimsPreserved, HandledPreserved DEF IInv, Table

LEMMA InvariantHolds == Spec => []IInv
<1>1. QED
  BY InitIInv, NextIInv, PTL DEF Spec

-----------------------------------------------------------------------------
(* The tables and the batches of the dispatchers stay well formed.         *)
THEOREM TypeCorrect == Spec => []TypeOK
<1>1. IInv => TypeOK
  BY DEF IInv
<1>2. QED
  BY <1>1, InvariantHolds, PTL

(* A row is marked dispatched only when every subscriber has completed it. *)
THEOREM DispatchedMeansHandled == Spec => []DispatchedWasHandled
<1>1. IInv => DispatchedWasHandled
  BY DEF IInv
<1>2. QED
  BY <1>1, InvariantHolds, PTL

(* No two dispatchers ever hold the same row, and a row held is pending.   *)
THEOREM ClaimsAlwaysExclusive == Spec => []ClaimsExclusive
<1>1. IInv => ClaimsExclusive
  BY DEF IInv
<1>2. QED
  BY <1>1, InvariantHolds, PTL

(* A row dies exactly at its last attempt, and a domain event that died    *)
(* has exactly one notice.                                                 *)
THEOREM EveryDeathNoticedOnce == Spec => []DeadLettersNoticed
<1>1. ASSUME IInv
      PROVE  DeadLettersNoticed
  <2> SUFFICES ASSUME NEW r \in Published
               PROVE  LET notices == {n \in Published : outbox[n].about = r}
                      IN /\ outbox[r].status = "dead_letter" <=> outbox[r].attempts = MaxAttempts
                         /\ Cardinality(notices) =
                              IF outbox[r].status = "dead_letter" /\ ~IsNotice(r)
                              THEN 1 ELSE 0
    BY DEF DeadLettersNoticed
  <2> DEFINE notices == {n \in Published : outbox[n].about = r}
  <2>1. r \in Row /\ r \in Nat /\ r # 0 /\ outbox[r] \in OutboxRow
    BY <1>1, Sets, Typed, Constants DEF IInv, Tables
  <2>2. outbox[r].status = "dead_letter" <=> outbox[r].attempts = MaxAttempts
    <3>1. outbox[r].status \in {"pending", "dispatched", "dead_letter"}
      BY <2>1 DEF Published, OutboxRow
    <3>2. QED
      BY <1>1, <2>1, <3>1, Constants DEF IInv, AttemptsFit
  <2>3. notices = {n \in Notices : outbox[n].about = r}
    BY <2>1, Sets DEF Notices, IsNotice
  <2>4. CASE outbox[r].status = "dead_letter" /\ ~IsNotice(r)
    <3>1. r \in Domain
      BY <2>4 DEF Domain
    <3>2. PICK n \in Notices : outbox[n].about = r
      BY <1>1, <2>4, <3>1 DEF IInv, NoticesFit
    <3>3. notices = {n}
      BY <1>1, <2>3, <3>2 DEF IInv, NoticesFit
    <3>4. Cardinality(notices) = 1
      BY <3>3, FS_Singleton
    <3>5. QED
      BY <2>2, <2>4, <3>4
  <2>5. CASE ~(outbox[r].status = "dead_letter" /\ ~IsNotice(r))
    <3>1. notices = {}
      BY <1>1, <2>3, <2>5 DEF IInv, NoticesFit, Domain
    <3>2. Cardinality(notices) = 0
      BY <3>1, FS_EmptySet
    <3>3. QED
      BY <2>2, <2>5, <3>2
  <2>6. QED
    BY <2>4, <2>5
<1>2. QED
  BY <1>1, InvariantHolds, PTL

Fates == [r \in Row |-> Fate(r)]
Abouts == [r \in Row |-> outbox[r].about]

LEMMA SameFate ==
    ASSUME NEW r \in Row, outbox'[r].status = outbox[r].status
    PROVE  Fate(r)' = Fate(r)
BY DEF Fate

LEMMA InitRefines == Init => Delivery!AbsInit
<1> SUFFICES ASSUME Init PROVE Delivery!AbsInit
  OBVIOUS
<1>1. \A r \in Row : outbox[r].status = "absent" /\ outbox[r].about = 0
  BY DEF Init, Absent
<1>2. QED
  BY <1>1 DEF Delivery!AbsInit, Fate

LEMMA QuietStutters ==
    ASSUME IInv, Quiet
    PROVE  Fates' = Fates /\ Abouts' = Abouts
<1>1. \A r \in Row : /\ outbox'[r].status = outbox[r].status
                     /\ outbox'[r].about = outbox[r].about
  BY DEF Quiet
<1>2. \A r \in Row : Fate(r)' = Fate(r)
  BY <1>1 DEF Fate
<1>3. QED
  BY <1>1, <1>2 DEF Fates, Abouts

LEMMA PublishRefines ==
    ASSUME IInv, Publish
    PROVE  Delivery!AbsNext
<1>1. /\ outbox' = [outbox EXCEPT ![NextId] = Fresh(0)]
      /\ NextId \in Row /\ NextId \notin Published /\ outbox \in [Row -> OutboxRow]
  BY PublishEffect, Typed DEF IInv, Tables
<1> PICK n \in Row : n = NextId
  BY <1>1
<1>2. /\ n \in Row /\ outbox[n].status = "absent" /\ outbox[n].about = 0
      /\ outbox'[n].status = "pending" /\ outbox'[n].about = 0
      /\ \A r \in Row \ {n} : outbox'[r] = outbox[r]
  <2>1. outbox[n].status = "absent"
    BY <1>1 DEF Published
  <2>2. outbox[n] = Absent
    BY <1>1, <2>1 DEF IInv, AttemptsFit
  <2>3. outbox'[n] = Fresh(0) /\ \A r \in Row \ {n} : outbox'[r] = outbox[r]
    BY <1>1
  <2>4. QED
    BY <1>1, <2>1, <2>2, <2>3 DEF Absent, Fresh
<1>3. Fate(n) = "unpublished" /\ Fate(n)' = "pending"
  BY <1>2 DEF Fate
<1>4. \A r \in Row : Fate(r)' = IF r = n THEN "pending" ELSE Fate(r)
  <2>1. \A r \in Row \ {n} : outbox'[r].status = outbox[r].status
    BY <1>2
  <2>2. QED
    BY <1>3, <2>1, SameFate
<1>5. Fates' = [Fates EXCEPT ![n] = "pending"]
  BY <1>2, <1>4 DEF Fates
<1>6. Abouts' = Abouts
  BY <1>2 DEF Abouts
<1>7. Fates[n] = "unpublished"
  BY <1>2, <1>3 DEF Fates
<1>8. Delivery!AbsPublish(n)
  BY <1>5, <1>6, <1>7 DEF Delivery!AbsPublish, Fates, Abouts
<1>9. QED
  BY <1>8 DEF Delivery!AbsNext

LEMMA SettlingIsAStep ==
    ASSUME NEW delivered \in SUBSET Row, NEW died \in SUBSET Row, NEW notices \in SUBSET Row,
           delivered \cap died = {},
           \A r \in delivered \cup died : Fates[r] = "pending",
           \A n \in notices : Fates[n] = "unpublished",
           Fates' = [r \in Row |-> IF r \in delivered THEN "delivered"
                                   ELSE IF r \in died THEN "dead"
                                   ELSE IF r \in notices THEN "pending" ELSE Fates[r]],
           \A r \in Row \ notices : Abouts'[r] = Abouts[r],
           {Abouts'[n] : n \in notices} = {r \in died : Abouts[r] = 0},
           \A m, n \in notices : Abouts'[m] = Abouts'[n] => m = n,
           DOMAIN Abouts' = Row
    PROVE  Delivery!AbsNext
<1>1. Delivery!AbsSettle(delivered, died, notices)
  BY DEF Delivery!AbsSettle, Fates, Abouts
<1>2. QED
  BY <1>1 DEF Delivery!AbsNext

LEMMA CommitRefines ==
    ASSUME IInv, NEW d \in Dispatcher, CommitBatch(d)
    PROVE  Delivery!AbsNext
<1> DEFINE ok == trx[d].ok
           dead == Exhausted(d)
           N == NewNotices(d)
           T == ToNotify(d)
<1>1. /\ ok \in SUBSET Row /\ dead \in SUBSET trx[d].failed /\ trx[d].failed \in SUBSET Row
      /\ ok \cap dead = {} /\ N \in SUBSET Row
      /\ trx[d].claimed = ok \cup trx[d].failed
      /\ \A r \in trx[d].claimed : outbox[r].status = "pending"
  BY ToNotifyAre, Typed, CommitEffect
     DEF IInv, BatchesHeld, Held, Tables, Batch, NewNotices
<1>2. \A r \in N : outbox[r].status = "absent" /\ r \notin trx[d].claimed
  BY <1>1, NoticesOfABatch DEF Published
<1>3. /\ \A r \in N : \E q \in T : NoticeId(d, q) = r /\ outbox'[r] = Fresh(q)
      /\ \A r \in ok : outbox'[r].status = "dispatched"
      /\ \A r \in dead : outbox'[r].status = "dead_letter"
      /\ \A r \in trx[d].failed \ dead : outbox'[r].status = outbox[r].status
      /\ \A r \in Row \ N : outbox'[r].about = outbox[r].about
      /\ \A r \in Row \ (N \cup trx[d].claimed) : outbox'[r] = outbox[r]
  BY CommitEffect
<1>4. /\ \A q \in T : NoticeId(d, q) \in N
      /\ \A p, q \in T : NoticeId(d, p) = NoticeId(d, q) => p = q
      /\ T = {r \in dead : outbox[r].about = 0}
  BY NoticesOfABatch DEF ToNotify, IsNotice
<1> HIDE DEF ok, dead, N, T
<1>5. \A q : Fresh(q).status = "pending" /\ Fresh(q).about = q
  BY DEF Fresh
<1>6. ASSUME NEW n \in N
      PROVE  \E q \in T : /\ NoticeId(d, q) = n /\ outbox'[n].about = q
                          /\ outbox'[n].status = "pending"
  BY <1>3, <1>5
<1>7. ASSUME NEW r \in Row
      PROVE  Fate(r)' = IF r \in ok THEN "delivered" ELSE IF r \in dead THEN "dead"
                        ELSE IF r \in N THEN "pending" ELSE Fate(r)
  <2>1. CASE r \in ok
    BY <1>3, <2>1 DEF Fate
  <2>2. CASE r \in dead
    BY <1>1, <1>3, <2>2 DEF Fate
  <2>3. CASE r \in N
    BY <1>1, <1>2, <1>6, <2>3 DEF Fate
  <2>4. CASE r \in trx[d].failed \ dead
    BY <1>1, <1>2, <1>3, <2>4 DEF Fate
  <2>5. CASE r \notin N \cup trx[d].claimed
    <3>1. outbox'[r].status = outbox[r].status /\ r \notin dead
      BY <1>1, <1>3, <2>5
    <3>2. QED
      BY <1>1, <2>5, <3>1, SameFate
  <2>6. QED
    BY <1>1, <2>1, <2>2, <2>3, <2>4, <2>5
<1>8. Fates' = [r \in Row |-> IF r \in ok THEN "delivered" ELSE IF r \in dead THEN "dead"
                              ELSE IF r \in N THEN "pending" ELSE Fates[r]]
  BY <1>7 DEF Fates
<1>9. \A r \in ok \cup dead : Fates[r] = "pending"
  BY <1>1 DEF Fates, Fate
<1>10. \A n \in N : Fates[n] = "unpublished"
  BY <1>1, <1>2 DEF Fates, Fate
<1>11. \A r \in Row \ N : Abouts'[r] = Abouts[r]
  BY <1>3 DEF Abouts
<1>12. \A n \in N : Abouts'[n] = outbox'[n].about
  BY <1>1 DEF Abouts
<1>13. {Abouts'[n] : n \in N} = {r \in dead : Abouts[r] = 0}
  <2>1. {r \in dead : Abouts[r] = 0} = T
    BY <1>1, <1>4 DEF Abouts
  <2>2. \A n \in N : Abouts'[n] \in T
    BY <1>6, <1>12
  <2>3. ASSUME NEW q \in T
        PROVE  \E n \in N : Abouts'[n] = q
    <3>1. NoticeId(d, q) \in N
      BY <1>4
    <3>2. PICK p \in T : NoticeId(d, p) = NoticeId(d, q) /\ outbox'[NoticeId(d, q)].about = p
      BY <1>6, <3>1
    <3>3. p = q
      BY <1>4, <3>2
    <3>4. QED
      BY <1>12, <3>1, <3>2, <3>3
  <2>4. QED
    BY <2>1, <2>2, <2>3
<1>14. ASSUME NEW m \in N, NEW n \in N, Abouts'[m] = Abouts'[n]
       PROVE  m = n
  BY <1>6, <1>12, <1>14
<1>15. DOMAIN Abouts' = Row
  BY DEF Abouts
<1>16. ok \in SUBSET Row /\ dead \in SUBSET Row /\ N \in SUBSET Row /\ ok \cap dead = {}
  BY <1>1
<1>17. \A m, n \in N : Abouts'[m] = Abouts'[n] => m = n
  BY <1>14
<1>18. QED
  BY <1>8, <1>9, <1>10, <1>11, <1>13, <1>15, <1>16, <1>17, SettlingIsAStep, ZenonT(120)

(* Whatever the batches, faults and retries, the table only ever takes the *)
(* steps EventDelivery allows: an event is published, or a commit settles  *)
(* pending ones and publishes one notice for each domain event it buries.  *)
THEOREM DispatchersImplementDelivery == Spec => ImplementsDelivery
<1>1. Init => Delivery!AbsInit
  BY InitRefines
<1>2. IInv /\ [Next]_vars => [Delivery!AbsNext]_(Delivery!abstractVars)
  <2> SUFFICES ASSUME IInv, [Next]_vars
               PROVE  [Delivery!AbsNext]_(Delivery!abstractVars)
    OBVIOUS
  <2>1. CASE Quiet
    BY <2>1, QuietStutters DEF Delivery!abstractVars, Fates, Abouts
  <2>2. CASE Publish
    BY <2>2, PublishRefines
  <2>3. ASSUME NEW d \in Dispatcher, CommitBatch(d)
        PROVE  Delivery!AbsNext
    BY <2>3, CommitRefines
  <2>4. QED
    BY <2>1, <2>2, <2>3, OtherStepsAreQuiet
<1>3. QED
  BY <1>1, <1>2, InvariantHolds, PTL DEF Spec, ImplementsDelivery, Delivery!AbsSpec
=============================================================================

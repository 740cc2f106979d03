---------------------------- MODULE ApiKey_proofs ----------------------------
(* Theorems about ApiKey, for any finite set of threads and any limits.      *)
(* LockInv is inductive: the check lets nobody pass while a lock is in       *)
(* force, so the threads past it are those the lock has overtaken, and each  *)
(* wrong key judged meanwhile takes one of them away.  So is BurstInv: the   *)
(* list is in the order of its times, so pruning it drops its head, and      *)
(* whether that is done before a second passes or after it is the same.      *)
EXTENDS ApiKey, FiniteSetTheorems, SequenceTheorems, TLAPS

\* Initially there is no lock.
LEMMA InitLock == Init => LockInv
  BY AuthLimiterAssumption
  DEF Init, LimiterInit, LockInv, RequestState, InForce, LockedOut, LateFailuresBounded

\* Threads other than one of them are fewer than all.
LEMMA FewerWithout ==
    ASSUME NEW r \in Thread, NEW S \in SUBSET (Thread \ {r})
    PROVE  /\ Cardinality(S) \in Nat
           /\ Cardinality(S) < Cardinality(Thread)
  <1>1. /\ IsFiniteSet(Thread \ {r})
        /\ Cardinality(Thread \ {r}) = Cardinality(Thread) - 1
        /\ Cardinality(Thread) \in Nat
    BY ApiKeyAssumption, FS_RemoveElement, FS_CardinalityType
  <1>2. /\ Cardinality(S) <= Cardinality(Thread \ {r})
        /\ IsFiniteSet(S)
    BY <1>1, FS_Subset
  <1>3. Cardinality(S) \in Nat
    BY <1>2, FS_CardinalityType
  <1> QED
    BY <1>1, <1>2, <1>3

\* A wrong key outside a lock: if it sets one, the lock overtakes the others.
LEMMA FirstFailure ==
    ASSUME LockInv, NEW r \in Thread, RejectKey(r), ~InForce
    PROVE  LockInv'
  <1> DEFINE others == {q \in Thread \ {r} : PastCheck(q)}
  <1> USE AuthLimiterAssumption
  <1>1. ~LockedOut
    BY DEF LockInv, InForce, LockedOut
  <1>2. late' = 0 /\ overtaken' = others
    BY DEF RejectKey
  <1>3. /\ lockLeft' \in 0..Lockout \cup {None}
        /\ due' = IF LockedOut' THEN lockLeft' ELSE 0
    BY <1>1 DEF RejectKey, RecordFailure, LockInv, LockedOut
  <1>4. ASSUME NEW q \in Thread, PastCheck(q)' PROVE q \in overtaken'
    BY <1>2, <1>4 DEF RejectKey, Becomes, PastCheck, LockInv, RequestState
  <1>5. LateFailuresBounded'
    <2>1. Cardinality(others) \in Nat /\ Cardinality(others) < Cardinality(Thread)
      BY FewerWithout
    <2> QED
      BY <1>2, <2>1 DEF LateFailuresBounded
  <1>6. request' \in [Thread -> RequestState]
    BY DEF RejectKey, Becomes, LockInv, RequestState
  <1> QED
    BY <1>2, <1>3, <1>4, <1>5, <1>6 DEF LockInv

\* A wrong key during a lock: its thread was overtaken and is so no longer.
LEMMA LateFailure ==
    ASSUME LockInv, NEW r \in Thread, RejectKey(r), InForce
    PROVE  LockInv'
  <1> USE AuthLimiterAssumption
  <1>1. LockedOut
    BY DEF LockInv, InForce, LockedOut
  <1>2. r \in overtaken /\ overtaken \subseteq Thread
    BY DEF RejectKey, PastCheck, LockInv
  <1>3. late' = late + 1 /\ overtaken' = overtaken \ {r}
    BY DEF RejectKey
  <1>4. /\ lockLeft' \in 0..Lockout \cup {None}
        /\ due' = IF LockedOut' THEN lockLeft' ELSE 0
    BY <1>1 DEF RejectKey, RecordFailure, LockInv, LockedOut
  <1>5. ASSUME NEW q \in Thread, PastCheck(q)' PROVE q \in overtaken'
    BY <1>3, <1>5 DEF RejectKey, Becomes, PastCheck, LockInv, RequestState
  <1>6. LateFailuresBounded'
    <2>1. IsFiniteSet(overtaken)
      BY <1>2, ApiKeyAssumption, FS_Subset
    <2>2. /\ Cardinality(overtaken \ {r}) = Cardinality(overtaken) - 1
          /\ Cardinality(overtaken) \in Nat
      BY <1>2, <2>1, FS_RemoveElement, FS_CardinalityType
    <2>3. late \in Nat /\ late + Cardinality(overtaken) < Cardinality(Thread)
      BY DEF LockInv, LateFailuresBounded
    <2>4. Cardinality(Thread) \in Nat
      BY ApiKeyAssumption, FS_CardinalityType
    <2> QED
      BY <1>3, <2>2, <2>3, <2>4 DEF LateFailuresBounded
  <1>7. late' \in Nat /\ request' \in [Thread -> RequestState]
    BY <1>3 DEF LockInv, RejectKey, Becomes, RequestState
  <1> QED
    BY <1>2, <1>3, <1>4, <1>5, <1>6, <1>7 DEF LockInv

\* The lock is the only way to say no before the key is looked at.
LEMMA StepLock == LockInv /\ [Next]_vars => LockInv'
  <1> SUFFICES ASSUME LockInv, [Next]_vars PROVE LockInv'
    OBVIOUS
  <1> USE AuthLimiterAssumption DEF RequestState, InForce, LateFailuresBounded
  <1>1. ASSUME NEW r \in Thread, Check(r) PROVE LockInv'
    <2>1. CASE LockedOut
      BY <1>1, <2>1 DEF Check, CheckNotLockedOut, Becomes, PastCheck, LockInv, LockedOut,
         limiterVars, ghosts
    <2>2. CASE ~LockedOut
      BY <1>1, <2>2 DEF Check, CheckNotLockedOut, Becomes, LockInv, LockedOut, ghosts
    <2> QED
      BY <2>1, <2>2
  <1>2. ASSUME NEW r \in Thread, RejectKey(r) PROVE LockInv'
    BY <1>2, FirstFailure, LateFailure
  <1>3. ASSUME NEW r \in Thread, AcceptKey(r) PROVE LockInv'
    BY <1>3 DEF AcceptKey, RecordSuccess, Becomes, LockInv, LockedOut
  <1>4. ASSUME NEW r \in Thread, Respond(r) PROVE LockInv'
    BY <1>4 DEF Respond, Becomes, PastCheck, LockInv, LockedOut,
       limiterVars, ghosts
  <1>5. CASE Tick
    <2>1. /\ lockLeft' \in 0..Lockout \cup {None}
          /\ due' = IF LockedOut' THEN lockLeft' ELSE 0
          /\ InForce' => InForce
      BY <1>5 DEF Tick, SecondPasses, LockInv, LockedOut
    <2> QED
      BY <1>5, <2>1 DEF Tick, LockInv, PastCheck
  <1>6. CASE Restart
    BY <1>6 DEF Restart, LockInv, LockedOut
  <1>7. CASE UNCHANGED vars
    BY <1>7 DEF vars, limiterVars, ghosts, LockInv, LockedOut, PastCheck
  <1> QED
    BY <1>1, <1>2, <1>3, <1>4, <1>5, <1>6, <1>7 DEF Next, Serve

(* A lock has its full time, and nobody passes the check meanwhile           *)
(* (check_not_locked_out).                                                   *)
THEOREM LockHolds == Spec => []LockInv
  BY InitLock, StepLock, PTL DEF Spec

(* During one lock, fewer wrong keys are judged than there are threads.      *)
THEOREM FewLateFailures == Spec => []LateFailuresBounded
  <1>1. LockInv => LateFailuresBounded
    BY DEF LockInv
  <1> QED
    BY <1>1, LockHolds, PTL

(* While a lock is in force, only requests it has overtaken are judged by    *)
(* their key (verify_api_key).                                               *)
THEOREM OthersAreRefused == Spec => VerdictPrecedesLock
  <1>1. LockInv /\ [Next]_vars =>
          [\A r \in Thread : InForce /\ Judged(r) => r \in overtaken]_vars
    BY DEF LockInv, Judged
  <1> QED
    BY <1>1, LockHolds, PTL DEF Spec, VerdictPrecedesLock
-----------------------------------------------------------------------------
(* Failures that count                                                       *)

\* The first k of the ages of a list are Window or more, the others less.
Cut(ages, k) ==
    /\ k \in 0..Len(ages)
    /\ \A i \in DOMAIN ages : ages[i] >= Window <=> i <= k

\* A list in the order of its times can be cut: whatever is before an old age
\* is old.
LEMMA CutExists ==
    ASSUME NEW ages \in Seq(Nat), OldestFirst(ages)
    PROVE  \E k : Cut(ages, k)
  <1> USE AuthLimiterAssumption
  <1>1. DOMAIN ages = 1..Len(ages) /\ Len(ages) \in Nat
    OBVIOUS
  <1>2. IsFiniteSet(1..Len(ages)) /\ Cardinality(1..Len(ages)) = Len(ages)
    <2>1. ASSUME NEW n \in Nat
          PROVE  IsFiniteSet(1..n) /\ Cardinality(1..n) = n
      <3>1. 1 \in Int /\ n \in Int /\ (IF 1 > n THEN 0 ELSE n - 1 + 1) = n
        OBVIOUS
      <3> QED
        BY <3>1, FS_Interval
    <2> QED
      BY <1>1, <2>1
  <1> DEFINE old == {i \in DOMAIN ages : ages[i] >= Window}
             k == Cardinality(old)
  <1>3. IsFiniteSet(old) /\ k \in Nat /\ k <= Len(ages)
    BY <1>1, <1>2, FS_Subset, FS_CardinalityType
  <1>4. ASSUME NEW i \in DOMAIN ages, ages[i] >= Window PROVE i <= k
    <2>1. 1..i \subseteq old
      BY <1>1, <1>4 DEF OldestFirst
    <2>2. Cardinality(1..i) = i
      BY <1>1, FS_Interval
    <2> QED
      BY <1>3, <2>1, <2>2, FS_Subset
  <1>5. ASSUME NEW i \in DOMAIN ages, ages[i] < Window PROVE k < i
    <2>1. old \subseteq 1..(i - 1)
      <3>1. ASSUME NEW j \in old, ~(j < i) PROVE FALSE
        BY <1>1, <1>5, <3>1 DEF OldestFirst
      <3> QED
        BY <1>1, <3>1
    <2>2. IsFiniteSet(1..(i - 1)) /\ Cardinality(1..(i - 1)) = i - 1
      <3>1. 1 \in Int /\ i - 1 \in Nat
        BY <1>1
      <3>2. (IF 1 > i - 1 THEN 0 ELSE i - 1 - 1 + 1) = i - 1
        BY <3>1
      <3> QED
        BY <3>1, <3>2, FS_Interval
    <2> QED
      BY <1>1, <1>3, <2>1, <2>2, FS_Subset
  <1> HIDE DEF old, k
  <1>6. \A i \in DOMAIN ages : ages[i] \in Nat /\ i \in Nat
    BY <1>1
  <1>7. Cut(ages, k)
    BY <1>1, <1>3, <1>4, <1>5, <1>6 DEF Cut
  <1> QED
    BY <1>7

\* Young is what is left of a list after its cut.
LEMMA YoungAfterCut ==
    ASSUME NEW ages \in Seq(Nat), NEW k, Cut(ages, k)
    PROVE  /\ Young(ages) \in Seq(0..Window - 1)
           /\ Len(Young(ages)) = Len(ages) - k
           /\ \A i \in 1..Len(ages) - k : Young(ages)[i] = ages[k + i]
  <1> USE AuthLimiterAssumption
  <1>1. /\ DOMAIN ages = 1..Len(ages) /\ Len(ages) \in Nat /\ k \in 0..Len(ages)
        /\ \A i \in 1..Len(ages) : ages[i] \in Nat
    BY DEF Cut
  <1>2. {i \in DOMAIN ages : ages[i] >= Window} = 1..k
    BY <1>1 DEF Cut
  <1>3. Cardinality(1..k) = k
    BY <1>1, FS_Interval
  <1>4. Young(ages) = SubSeq(ages, k + 1, Len(ages))
    BY <1>2, <1>3 DEF Young
  <1>5. ASSUME NEW i \in (k + 1)..Len(ages) PROVE ages[i] \in 0..Window - 1
    BY <1>1, <1>5 DEF Cut
  <1>6. /\ Young(ages) \in Seq(0..Window - 1)
        /\ Len(Young(ages)) =
             IF k + 1 <= Len(ages) THEN Len(ages) - (k + 1) + 1 ELSE 0
        /\ \A i \in 1..Len(ages) - (k + 1) + 1 :
             Young(ages)[i] = ages[(k + 1) + i - 1]
    <2>1. k + 1 \in Int /\ Len(ages) \in Int
      BY <1>1
    <2> QED
      BY <1>4, <1>5, <2>1, SubSeqProperties
  <1>7. ASSUME NEW i \in 1..Len(ages) - k PROVE Young(ages)[i] = ages[k + i]
    <2>1. i \in 1..Len(ages) - (k + 1) + 1 /\ (k + 1) + i - 1 = k + i
      BY <1>1
    <2> QED
      BY <1>6, <2>1
  <1>8. Len(Young(ages)) = Len(ages) - k
    <2>1. CASE k + 1 <= Len(ages)
      BY <1>1, <1>6, <2>1
    <2>2. CASE ~(k + 1 <= Len(ages))
      <3>1. k \in Nat /\ Len(ages) \in Nat /\ k <= Len(ages) /\ k >= Len(ages)
        BY <1>1, <2>2
      <3>2. k = Len(ages)
        BY <3>1
      <3>3. Len(ages) - k = 0
        BY <3>1, <3>2
      <3> QED
        BY <1>6, <2>2, <3>3
    <2> QED
      BY <2>1, <2>2
  <1> QED
    BY <1>6, <1>7, <1>8

\* A list without old ages is young as it is.
LEMMA AllYoung ==
    ASSUME NEW ages \in Seq(0..Window - 1)
    PROVE  Young(ages) = ages
  <1> USE AuthLimiterAssumption
  <1>1. ages \in Seq(Nat) /\ Cut(ages, 0)
    BY DEF Cut
  <1>2. /\ Young(ages) \in Seq(0..Window - 1)
        /\ Len(Young(ages)) = Len(ages)
        /\ \A i \in 1..Len(ages) : Young(ages)[i] = ages[i]
    BY <1>1, YoungAfterCut
  <1> QED
    BY <1>2, SeqEqual

\* Young keeps the order.
LEMMA YoungInOrder ==
    ASSUME NEW ages \in Seq(Nat), OldestFirst(ages)
    PROVE  OldestFirst(Young(ages))
  <1>1. PICK k : Cut(ages, k)
    BY CutExists
  <1>2. /\ k \in Nat /\ Len(ages) \in Nat /\ k <= Len(ages)
        /\ DOMAIN ages = 1..Len(ages)
    BY <1>1 DEF Cut
  <1>3. DOMAIN Young(ages) = 1..Len(ages) - k
    BY <1>1, YoungAfterCut, LenProperties
  <1>4. ASSUME NEW i \in DOMAIN Young(ages), NEW j \in DOMAIN Young(ages), i < j
        PROVE  Young(ages)[i] >= Young(ages)[j]
    <2>1. /\ k + i \in DOMAIN ages /\ k + j \in DOMAIN ages /\ k + i < k + j
      BY <1>2, <1>3, <1>4
    <2>2. Young(ages)[i] = ages[k + i] /\ Young(ages)[j] = ages[k + j]
      BY <1>1, <1>3, YoungAfterCut
    <2> QED
      BY <2>1, <2>2 DEF OldestFirst
  <1> QED
    BY <1>4 DEF OldestFirst

\* The ages of a list a second later.
Older(ages) ==
    [i \in DOMAIN ages |-> IF ages[i] < Window THEN ages[i] + 1 ELSE Window]

LEMMA OlderShape ==
    ASSUME NEW ages \in Seq(0..Window), OldestFirst(ages)
    PROVE  /\ Older(ages) \in Seq(0..Window)
           /\ Len(Older(ages)) = Len(ages)
           /\ OldestFirst(Older(ages))
  <1> USE AuthLimiterAssumption
  <1>1. DOMAIN ages = 1..Len(ages) /\ Len(ages) \in Nat
        /\ \A i \in DOMAIN ages : ages[i] \in 0..Window
    OBVIOUS
  <1>2. Older(ages) \in [1..Len(ages) -> 0..Window]
    BY <1>1 DEF Older
  <1>3. Older(ages) \in Seq(0..Window) /\ Len(Older(ages)) = Len(ages)
    BY <1>1, <1>2, SeqDef
  <1>4. OldestFirst(Older(ages))
    BY <1>1 DEF OldestFirst, Older
  <1> QED
    BY <1>3, <1>4

\* Whether a list is pruned before the second passes or after it, the same
\* ages are left of it.
LEMMA PruneEarlierOrLater ==
    ASSUME NEW ages \in Seq(0..Window), OldestFirst(ages)
    PROVE  Young([i \in DOMAIN Young(ages) |-> Young(ages)[i] + 1]) = Young(Older(ages))
  <1> USE AuthLimiterAssumption
  <1> DEFINE young == Young(ages)
             next == [i \in DOMAIN young |-> young[i] + 1]
             old == Older(ages)
  <1>1. /\ ages \in Seq(Nat) /\ Len(ages) \in Nat /\ DOMAIN ages = 1..Len(ages)
        /\ \A i \in DOMAIN ages : ages[i] \in 0..Window
    OBVIOUS
  <1>2. PICK k : Cut(ages, k)
    BY <1>1, CutExists
  <1>3. /\ young \in Seq(0..Window - 1) /\ Len(young) = Len(ages) - k
        /\ \A i \in 1..Len(ages) - k : young[i] = ages[k + i]
        /\ DOMAIN young = 1..Len(ages) - k
    BY <1>1, <1>2, YoungAfterCut, LenProperties
  <1>4. OldestFirst(young)
    BY <1>1, YoungInOrder
  <1>5. k \in Nat /\ k <= Len(ages) /\ Len(ages) - k \in Nat
    BY <1>1, <1>2 DEF Cut
  <1> HIDE DEF young
  <1>6. /\ next \in Seq(Nat) /\ Len(next) = Len(ages) - k /\ OldestFirst(next)
        /\ DOMAIN next = 1..Len(ages) - k
    <2>1. next \in [1..Len(ages) - k -> Nat]
      BY <1>3
    <2>2. OldestFirst(next)
      <3>1. \A i \in 1..Len(ages) - k : young[i] \in Nat /\ next[i] = young[i] + 1
        BY <1>3
      <3>2. DOMAIN next = 1..Len(ages) - k
        BY <1>3
      <3> QED
        BY <1>3, <1>4, <3>1, <3>2 DEF OldestFirst
    <2> QED
      BY <1>5, <2>1, <2>2, SeqDef
  <1>7. old \in Seq(Nat) /\ Len(old) = Len(ages) /\ DOMAIN old = 1..Len(ages)
    BY <1>1, OlderShape
  <1>8. \A i \in 1..Len(ages) - k : k + i \in 1..Len(ages) /\ next[i] = old[k + i]
    <2>1. ASSUME NEW i \in 1..Len(ages) - k
          PROVE  k + i \in 1..Len(ages) /\ ~(k + i <= k)
      BY <1>1, <1>5
    <2>2. ASSUME NEW i \in 1..Len(ages) - k PROVE ages[k + i] < Window
      BY <1>1, <1>2, <2>1 DEF Cut
    <2>3. ASSUME NEW i \in 1..Len(ages) - k PROVE old[k + i] = ages[k + i] + 1
      BY <1>1, <2>1, <2>2 DEF Older
    <2> QED
      BY <1>3, <2>1, <2>3
  <1>9. ASSUME NEW i \in 1..k PROVE old[i] = Window
    <2>1. i \in Nat /\ i <= k /\ i \in DOMAIN ages
      BY <1>1, <1>5
    <2>2. ages[i] >= Window /\ ages[i] \in 0..Window
      BY <1>1, <1>2, <2>1 DEF Cut
    <2> QED
      BY <2>1, <2>2 DEF Older
  <1>10. PICK h : Cut(next, h)
    BY <1>6, CutExists
  <1> HIDE DEF next, old
  <1>11. Cut(old, k + h)
    <2>1. h \in Nat /\ h <= Len(ages) - k
      BY <1>5, <1>6, <1>10 DEF Cut
    <2>2. ASSUME NEW i \in 1..Len(ages) PROVE old[i] >= Window <=> i <= k + h
      <3>1. CASE i <= k
        BY <1>5, <1>9, <2>1, <3>1
      <3>2. CASE i > k
        <4>1. i - k \in 1..Len(ages) - k /\ k + (i - k) = i
          BY <1>1, <1>5, <3>2
        <4>2. next[i - k] >= Window <=> i - k <= h
          BY <1>6, <1>10, <4>1 DEF Cut
        <4>3. next[i - k] = old[i]
          BY <1>8, <4>1
        <4> QED
          BY <1>5, <2>1, <4>1, <4>2, <4>3
      <3> QED
        BY <1>5, <3>1, <3>2
    <2> QED
      BY <1>1, <1>5, <1>7, <2>1, <2>2 DEF Cut
  <1>12. h \in Nat /\ h <= Len(ages) - k
    BY <1>5, <1>6, <1>10 DEF Cut
  <1>13. /\ Young(next) \in Seq(0..Window - 1)
         /\ Len(Young(next)) = Len(ages) - k - h
         /\ \A i \in 1..Len(ages) - k - h : Young(next)[i] = next[h + i]
    BY <1>6, <1>10, YoungAfterCut
  <1>14. /\ Young(old) \in Seq(0..Window - 1)
         /\ Len(Young(old)) = Len(ages) - (k + h)
         /\ \A i \in 1..Len(ages) - (k + h) : Young(old)[i] = old[(k + h) + i]
    BY <1>7, <1>11, YoungAfterCut
  <1>15. ASSUME NEW i \in 1..Len(ages) - k - h
         PROVE  Young(next)[i] = Young(old)[i]
    <2>1. h + i \in 1..Len(ages) - k /\ k + (h + i) = (k + h) + i
          /\ i \in 1..Len(ages) - (k + h)
      BY <1>1, <1>5, <1>12
    <2> QED
      BY <1>8, <1>13, <1>14, <2>1
  <1>16. Len(ages) - k - h = Len(ages) - (k + h)
    BY <1>1, <1>5, <1>12
  <1>17. Young(next) = Young(old)
    BY <1>13, <1>14, <1>15, <1>16, SeqEqual
  <1> QED
    BY <1>17 DEF next, old, young

LEMMA EmptyList ==
    /\ <<>> \in Seq(0..Window) /\ <<>> \in Seq(0..Window - 1) /\ Len(<<>>) = 0
    /\ OldestFirst(<<>>)
    /\ Young(<<>>) = <<>>
  <1>1. <<>> \in Seq(0..Window) /\ <<>> \in Seq(0..Window - 1) /\ Len(<<>>) = 0
    OBVIOUS
  <1>2. OldestFirst(<<>>)
    BY DEF OldestFirst
  <1> QED
    BY <1>1, <1>2, AllYoung

\* The failures kept are a list of ages below Window.
LEMMA RecentShape ==
    ASSUME BurstInv
    PROVE  /\ Recent \in Seq(0..Window - 1)
           /\ Len(Recent) \in Nat
           /\ OldestFirst(Recent)
  <1>1. failureAges \in Seq(Nat) /\ OldestFirst(failureAges)
    BY AuthLimiterAssumption DEF BurstInv
  <1>2. PICK k : Cut(failureAges, k)
    BY <1>1, CutExists
  <1> QED
    BY <1>1, <1>2, YoungAfterCut, YoungInOrder, LenProperties DEF Recent

\* A wrong key: the list starts afresh, or it is pruned and has one more.
LEMMA RejectBurst ==
    ASSUME BurstInv, NEW r \in Thread, RejectKey(r)
    PROVE  BurstInv'
  <1> USE AuthLimiterAssumption
  <1>1. /\ Recent \in Seq(0..Window - 1) /\ Len(Recent) \in Nat
        /\ OldestFirst(Recent) /\ wrongAges = Recent
    BY RecentShape DEF BurstInv
  <1>2. CASE Len(Recent) + 1 >= MaxFailures
    <2>1. failureAges' = <<>> /\ wrongAges' = <<>>
      BY <1>1, <1>2 DEF RejectKey, RecordFailure
    <2> QED
      BY <1>2, <2>1, EmptyList DEF BurstInv, Recent
  <1>3. CASE ~(Len(Recent) + 1 >= MaxFailures)
    <2>1. failureAges' = Append(Recent, 0) /\ Len(Recent) + 1 < MaxFailures
      BY <1>1, <1>3 DEF RejectKey, RecordFailure
    <2>2. wrongAges' = Append(Recent, 0)
      BY <1>1, <1>3 DEF RejectKey
    <2> DEFINE new == Append(Recent, 0)
    <2>3. /\ new \in Seq(0..Window - 1) /\ Len(new) = Len(Recent) + 1
          /\ DOMAIN new = 1..Len(Recent) + 1
          /\ \A i \in 1..Len(Recent) : new[i] = Recent[i]
          /\ new[Len(Recent) + 1] = 0
      <3>1. 0 \in 0..Window - 1
        OBVIOUS
      <3> QED
        BY <1>1, <3>1, AppendProperties, LenProperties
    <2>4. \A i \in 1..Len(Recent) : Recent[i] \in Nat /\ i \in DOMAIN Recent
      BY <1>1
    <2> HIDE DEF new
    <2>5. OldestFirst(new)
      <3>1. ASSUME NEW i \in DOMAIN new, NEW j \in DOMAIN new, i < j
            PROVE  new[i] >= new[j]
        <4>1. i \in 1..Len(Recent)
          BY <1>1, <2>3, <3>1
        <4>2. CASE j \in 1..Len(Recent)
          BY <1>1, <2>3, <2>4, <3>1, <4>1, <4>2 DEF OldestFirst
        <4>3. CASE j = Len(Recent) + 1
          BY <2>3, <2>4, <4>1, <4>3
        <4> QED
          BY <1>1, <2>3, <3>1, <4>2, <4>3
      <3> QED
        BY <3>1 DEF OldestFirst
    <2>6. Young(new) = new /\ new \in Seq(0..Window)
      BY <2>3, AllYoung
    <2>7. failureAges' = new /\ wrongAges' = new
      BY <2>1, <2>2 DEF new
    <2> QED
      BY <1>1, <2>1, <2>3, <2>5, <2>6, <2>7 DEF BurstInv, Recent
  <1> QED
    BY <1>2, <1>3

\* A second passes: the limiter prunes later than the ghost does.
LEMMA TickBurst ==
    ASSUME BurstInv, Tick
    PROVE  BurstInv'
  <1>1. failureAges' = Older(failureAges)
    BY DEF Tick, SecondPasses, Older
  <1>2. wrongAges' = Young(failureAges')
    BY <1>1, PruneEarlierOrLater DEF Tick, BurstInv, Recent
  <1> QED
    BY <1>1, <1>2, OlderShape DEF BurstInv, Recent

LEMMA StepBurst ==
    ASSUME BurstInv, [Next]_vars
    PROVE  BurstInv'
  <1>1. CASE UNCHANGED <<failureAges, wrongAges>>
    BY <1>1 DEF BurstInv, Recent
  <1>2. CASE failureAges' = <<>> /\ wrongAges' = <<>>
    BY <1>2, EmptyList, AuthLimiterAssumption DEF BurstInv, Recent
  <1>3. ASSUME NEW r \in Thread, Check(r) \/ Respond(r)
        PROVE  UNCHANGED <<failureAges, wrongAges>>
    BY <1>3 DEF Check, CheckNotLockedOut, Respond, limiterVars, ghosts
  <1>4. ASSUME NEW r \in Thread, AcceptKey(r)
        PROVE  failureAges' = <<>> /\ wrongAges' = <<>>
    BY <1>4 DEF AcceptKey, RecordSuccess
  <1>5. Restart => failureAges' = <<>> /\ wrongAges' = <<>>
    BY DEF Restart
  <1>6. UNCHANGED vars => UNCHANGED <<failureAges, wrongAges>>
    BY DEF vars, limiterVars, ghosts
  <1> QED
    BY <1>1, <1>2, <1>3, <1>4, <1>5, <1>6, RejectBurst, TickBurst DEF Next, Serve

\* The failures that count are the wrong keys judged, in every reachable state
\* (record_failure).
THEOREM BurstHolds == Spec => []BurstInv
  <1>1. Init => BurstInv
    BY EmptyList, AuthLimiterAssumption DEF Init, LimiterInit, BurstInv, Recent
  <1> QED
    BY <1>1, StepBurst, PTL DEF Spec

(* Every variable keeps its type; the list of failures never gets as long as *)
(* the limit it is compared with.                                            *)
THEOREM TypeCorrect == Spec => []TypeOK
  <1>1. LockInv /\ BurstInv => TypeOK
    BY AuthLimiterAssumption, RecentShape
    DEF LockInv, BurstInv, TypeOK, LimiterTypeOK, LockedOut
  <1> QED
    BY <1>1, LockHolds, BurstHolds, PTL

(* A wrong key sets the lock exactly when it is the MaxFailures-th within    *)
(* Window seconds, for any limits, any number of threads and any order of    *)
(* their steps (record_failure).                                             *)
THEOREM BurstsLock == Spec => BurstLocks
  <1>1. ASSUME LockInv, BurstInv, [Next]_vars, NEW r \in Thread, Judged(r),
               request'[r] = "unauthorized", due # Lockout
        PROVE  lockLeft' = Lockout <=> Len(wrongAges) + 1 >= MaxFailures
    <2>1. RejectKey(r)
      <3>1. ASSUME NEW q \in Thread, Serve(q) PROVE RejectKey(r)
        <4>1. ASSUME NEW s, Becomes(q, s), q # r PROVE FALSE
          BY <1>1, <4>1 DEF Becomes, Judged, PastCheck, LockInv
        <4>2. ASSUME q = r PROVE RejectKey(r)
          BY <1>1, <3>1, <4>2
          DEF Serve, Check, AcceptKey, Respond, Becomes, Judged, PastCheck, Answered,
              LockInv
        <4> QED
          BY <3>1, <4>1, <4>2 DEF Serve, Check, RejectKey, AcceptKey, Respond
      <3>2. ~Restart /\ ~Tick /\ ~UNCHANGED vars
        BY <1>1 DEF Restart, Tick, vars, Judged, PastCheck
      <3> QED
        BY <1>1, <3>1, <3>2 DEF Next
    <2>2. lockLeft # Lockout
      BY <1>1, AuthLimiterAssumption DEF LockInv, LockedOut
    <2>3. wrongAges = Recent
      BY <1>1 DEF BurstInv
    <2> QED
      BY <2>1, <2>2, <2>3 DEF RejectKey, RecordFailure
  <1>2. LockInv /\ BurstInv /\ [Next]_vars =>
          [\A r \in Thread :
             Judged(r) /\ request'[r] = "unauthorized" /\ due # Lockout =>
               (lockLeft' = Lockout <=> Len(wrongAges) + 1 >= MaxFailures)]_vars
    BY <1>1
  <1> QED
    BY <1>2, LockHolds, BurstHolds, PTL DEF Spec, BurstLocks
=============================================================================
